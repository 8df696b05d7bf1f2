--------------------------- MODULE NginxBlocksProofs ---------------------------
(***************************************************************************)
(* The server blocks of projects in Nginx files, for any files, projects,  *)
(* ports and texts that users confirm.  A text is reasoned about by its    *)
(* levels, the depth after each line; what holds at every line is shown by *)
(* looking at the first line at which it would not.                        *)
(***************************************************************************)
EXTENDS NginxBlocks, SequenceTheorems, FiniteSetTheorems, WellFoundedInduction, TLAPS

-----------------------------------------------------------------------------
(* Counting lines.                                                         *)

\* A set of numbers that is not empty has a least one.
LEMMA Least ==
  ASSUME NEW N, N \subseteq Nat, N # {}
  PROVE  \E n \in N : \A m \in N : n <= m
<1>1. \E x \in N : \A y \in N : ~(<<y, x>> \in OpToRel(<, Nat))
  BY NatLessThanWellFounded, WFMin
<1>2. \A x, y \in Nat : y < x => <<y, x>> \in OpToRel(<, Nat)
  BY DEF OpToRel
<1>3. PICK x \in N : \A y \in N : ~(<<y, x>> \in OpToRel(<, Nat))
  BY <1>1
<1>4. \A y \in N : x \in Nat /\ y \in Nat /\ ~(y < x)
  BY <1>2, <1>3
<1> QED BY <1>4

\* What line j changes the level by, the depth after it, if these braces count.
Rise(text, counted, j) ==
  IF text[j].is \in Opens \cap counted THEN 1
  ELSE IF text[j].is \in Closes \cap counted THEN -1 ELSE 0

\* Counting one line more.
LEMMA CountStep ==
  ASSUME NEW P, NEW j \in Nat
  PROVE  LET C(n) == {k \in 1..n : k \in P} IN
         /\ IsFiniteSet(C(j)) /\ Cardinality(C(j)) \in Nat
         /\ Cardinality(C(j + 1)) = IF j + 1 \in P THEN Cardinality(C(j)) + 1
                                    ELSE Cardinality(C(j))
<1> DEFINE C(n) == {k \in 1..n : k \in P}
<1>1. IsFiniteSet(1..j) /\ C(j) \in SUBSET (1..j)
  BY FS_Interval
<1>2. /\ j + 1 \in P => C(j + 1) = C(j) \cup {j + 1}
      /\ j + 1 \notin P => C(j + 1) = C(j)
      /\ j + 1 \notin C(j)
  OBVIOUS
<1> HIDE DEF C
<1>3. IsFiniteSet(C(j)) /\ Cardinality(C(j)) \in Nat
  BY <1>1, FS_Subset, FS_CardinalityType
<1>4. Cardinality(C(j) \cup {j + 1}) = Cardinality(C(j)) + 1
  BY <1>2, <1>3, FS_AddElement
<1>5. Cardinality(C(j + 1)) = IF j + 1 \in P THEN Cardinality(C(j)) + 1 ELSE Cardinality(C(j))
  BY <1>2, <1>4
<1> QED BY <1>3, <1>5 DEF C

\* The level changes by one at most, as the line says.
LEMMA LevelStep ==
  ASSUME NEW text, NEW counted, NEW j \in Nat
  PROVE  /\ Depth(text, counted, j) \in Int
         /\ Depth(text, counted, 0) = 0
         /\ Depth(text, counted, j + 1) = Depth(text, counted, j) + Rise(text, counted, j + 1)
<1> DEFINE P == {k \in Nat : text[k].is \in Opens \cap counted}
           Q == {k \in Nat : text[k].is \in Closes \cap counted}
           C(n) == {k \in 1..n : k \in P}
           D(n) == {k \in 1..n : k \in Q}
<1>1. \A n \in Nat : /\ {k \in 1..n : text[k].is \in Opens \cap counted} = C(n)
                     /\ {k \in 1..n : text[k].is \in Closes \cap counted} = D(n)
  OBVIOUS
<1>2. \A n \in Nat : Depth(text, counted, n) = Cardinality(C(n)) - Cardinality(D(n))
  BY <1>1 DEF Depth
<1>3. C(0) = {} /\ D(0) = {} /\ Cardinality({}) = 0
  BY FS_EmptySet
<1>4. j + 1 \in Nat /\ (j + 1 \in P <=> text[j + 1].is \in Opens \cap counted)
      /\ (j + 1 \in Q <=> text[j + 1].is \in Closes \cap counted)
      /\ ~(j + 1 \in P /\ j + 1 \in Q)
  BY DEF Opens, Closes, Opening
<1>5. /\ Cardinality(C(j)) \in Nat /\ Cardinality(D(j)) \in Nat
      /\ Cardinality(C(j + 1)) = IF j + 1 \in P THEN Cardinality(C(j)) + 1 ELSE Cardinality(C(j))
      /\ Cardinality(D(j + 1)) = IF j + 1 \in Q THEN Cardinality(D(j)) + 1 ELSE Cardinality(D(j))
  <2> HIDE DEF P, Q
  <2> QED BY CountStep
<1> HIDE DEF P, Q, C, D
<1>6. Depth(text, counted, 0) = 0
  BY <1>2, <1>3
<1>7. Depth(text, counted, j) \in Int
  BY <1>2, <1>5
<1>8. Depth(text, counted, j + 1) = Depth(text, counted, j) + Rise(text, counted, j + 1)
  BY <1>2, <1>4, <1>5 DEF Rise
<1> QED BY <1>6, <1>7, <1>8

Counts == {Nginx, Scanner}

\* The lines of t behind line i, up to line j, change the level as those of u do that
\* stand d lines below them.
Alike(t, u, counted, d, i, j) ==
  \A k \in (i + 1)..j : Rise(u, counted, k + d) = Rise(t, counted, k)

\* The levels there differ by the same number.
Parallel(t, u, counted, d, i, j) ==
  \A k \in i..j : Depth(u, counted, k + d) - Depth(u, counted, i + d)
                    = Depth(t, counted, k) - Depth(t, counted, i)

\* Lines that change the level alike give levels that differ by one number.
LEMMA LevelCopy ==
  ASSUME NEW t, NEW u, NEW counted \in Counts, NEW d \in Int,
         NEW i \in Nat, NEW j \in Nat, i + d \in Nat,
         Alike(t, u, counted, d, i, j)
  PROVE  Parallel(t, u, counted, d, i, j)
<1> DEFINE A(k) == Depth(u, counted, k + d)
           B(k) == Depth(t, counted, k)
           N == {k \in i..j : A(k) - A(i) # B(k) - B(i)}
<1>1. ASSUME NEW k \in i..j PROVE A(k) \in Int /\ B(k) \in Int
  <2>1. k \in Nat /\ k + d \in Nat
    OBVIOUS
  <2> QED BY <2>1, LevelStep
<1>2. ASSUME NEW k \in (i + 1)..j
      PROVE  A(k) = A(k - 1) + Rise(t, counted, k) /\ B(k) = B(k - 1) + Rise(t, counted, k)
  <2>1. k - 1 \in Nat /\ k + d - 1 \in Nat /\ (k - 1) + 1 = k /\ (k + d - 1) + 1 = k + d
        /\ (k - 1) + d = k + d - 1
    OBVIOUS
  <2>2. Depth(t, counted, (k - 1) + 1) = Depth(t, counted, k - 1) + Rise(t, counted, (k - 1) + 1)
    BY <2>1, LevelStep
  <2>3. Depth(u, counted, (k + d - 1) + 1)
          = Depth(u, counted, k + d - 1) + Rise(u, counted, (k + d - 1) + 1)
    BY <2>1, LevelStep
  <2>4. Rise(u, counted, k + d) = Rise(t, counted, k)
    BY DEF Alike
  <2> QED BY <2>1, <2>2, <2>3, <2>4
<1> HIDE DEF A, B
<1>3. ASSUME N # {} PROVE FALSE
  <2>1. N \subseteq Nat
    OBVIOUS
  <2>2. PICK n \in N : \A m \in N : n <= m
    BY <1>3, <2>1, Least
  <2>3. n # i
    BY <2>2, <1>1
  <2>4. n - 1 \in i..j /\ n \in (i + 1)..j /\ n - 1 \notin N /\ i \in i..j
    BY <2>2, <2>3
  <2>5. Rise(t, counted, n) \in Int
    BY DEF Rise
  <2> QED BY <1>1, <1>2, <2>2, <2>4, <2>5
<1>4. \A k \in i..j : A(k) - A(i) = B(k) - B(i)
  BY <1>3
<1> QED BY <1>4 DEF A, B, Parallel

SameLevels(t, u, counted, a) ==
  \A k \in 0..a : Depth(u, counted, k) = Depth(t, counted, k)

\* So it is behind the same lines.
LEMMA LevelSame ==
  ASSUME NEW t, NEW u, NEW counted \in Counts, NEW a \in Nat,
         \A k \in 1..a : Rise(u, counted, k) = Rise(t, counted, k)
  PROVE  SameLevels(t, u, counted, a)
<1>1. PICK z \in Nat : z = 0
  OBVIOUS
<1>2. Alike(t, u, counted, z, z, a) /\ z \in Int /\ z + z \in Nat
  BY <1>1 DEF Alike
<1>3. Parallel(t, u, counted, z, z, a)
  BY <1>2, LevelCopy
<1>4. SUFFICES ASSUME NEW k \in 0..a PROVE Depth(u, counted, k) = Depth(t, counted, k)
  BY DEF SameLevels
<1>5. k \in Nat /\ k + z = k /\ z + z = 0 /\ k \in z..a
  BY <1>1
<1>6. Depth(u, counted, 0) = 0 /\ Depth(t, counted, 0) = 0
  BY <1>5, LevelStep
<1>7. Depth(u, counted, k) \in Int /\ Depth(t, counted, k) \in Int
  BY <1>5, LevelStep
<1>8. Depth(u, counted, k) - 0 = Depth(t, counted, k) - 0
  BY <1>1, <1>3, <1>5, <1>6 DEF Parallel
<1> QED BY <1>7, <1>8

-----------------------------------------------------------------------------
(* Texts.                                                                  *)

IsLine(line) == /\ line = Line(line.is, line.of) /\ line.is \in LineKinds
                /\ line.is = "include" => line.of \in DOMAIN Pattern
                /\ line.is = "server" => line.of = None

\* The lines of a text.
LEMMA TextLines ==
  ASSUME NEW t, IsText(t)
  PROVE  /\ Len(t) \in Nat /\ DOMAIN t = 1..Len(t) /\ t = [k \in 1..Len(t) |-> t[k]]
         /\ \A k \in 1..Len(t) : IsLine(t[k])
<1>1. t \in Seq(ToSet(t))
  BY DEF IsText
<1>2. Len(t) \in Nat /\ DOMAIN t = 1..Len(t) /\ t = [k \in 1..Len(t) |-> t[k]]
  BY <1>1, LenProperties
<1>3. \A k \in 1..Len(t) : t[k] \in ToSet(t)
  BY <1>2 DEF ToSet
<1> QED BY <1>2, <1>3 DEF IsText, IsLine

\* What is made of lines is a text.
LEMMA MadeOfLines ==
  ASSUME NEW n \in Nat, NEW t, t = [k \in 1..n |-> t[k]], \A k \in 1..n : IsLine(t[k])
  PROVE  IsText(t) /\ Len(t) = n /\ DOMAIN t = 1..n
<1>1. DOMAIN t = 1..n
  OBVIOUS
<1>2. \A k \in 1..n : t[k] \in ToSet(t)
  BY <1>1 DEF ToSet
<1>3. t \in [1..n -> ToSet(t)]
  BY <1>2
<1>4. t \in Seq(ToSet(t))
  BY <1>3
<1>5. Len(t) = n
  BY <1>1, <1>4, LenProperties
<1>6. \A line \in ToSet(t) : IsLine(line)
  BY <1>1 DEF ToSet
<1> QED BY <1>1, <1>4, <1>5, <1>6 DEF IsText, IsLine

\* T with the m lines behind line a replaced by those of N.
Splice(T, a, m, N) ==
  [k \in 1..(Len(T) - m + Len(N)) |->
     IF k <= a THEN T[k] ELSE IF k <= a + Len(N) THEN N[k - a] ELSE T[k - Len(N) + m]]

\* What is spliced of texts is a text.
LEMMA Spliced ==
  ASSUME NEW T, NEW N, IsText(T), IsText(N), NEW a \in Nat, NEW m \in Nat, a + m <= Len(T)
  PROVE  LET U == Splice(T, a, m, N) IN
         /\ IsText(U) /\ Len(U) = Len(T) - m + Len(N)
         /\ \A k \in 1..a : U[k] = T[k]
         /\ \A k \in 1..Len(N) : U[a + k] = N[k]
         /\ \A k \in (a + m + 1)..Len(T) : U[k - m + Len(N)] = T[k]
<1> DEFINE U == Splice(T, a, m, N)
           n == Len(T) - m + Len(N)
<1>1. /\ Len(T) \in Nat /\ Len(N) \in Nat
      /\ \A k \in 1..Len(T) : IsLine(T[k])
      /\ \A k \in 1..Len(N) : IsLine(N[k])
  BY TextLines
<1>2. n \in Nat
  BY <1>1
<1>3. U = [k \in 1..n |->
     IF k <= a THEN T[k] ELSE IF k <= a + Len(N) THEN N[k - a] ELSE T[k - Len(N) + m]]
  BY DEF Splice
<1> HIDE DEF U
<1>4. \A k \in 1..n : U[k] = 
     IF k <= a THEN T[k] ELSE IF k <= a + Len(N) THEN N[k - a] ELSE T[k - Len(N) + m]
  BY <1>3
<1>5. U = [k \in 1..n |-> U[k]]
  BY <1>3
<1>6. ASSUME NEW k \in 1..n PROVE IsLine(U[k])
  <2>1. CASE k <= a
    BY <2>1, <1>1, <1>4
  <2>2. CASE a < k /\ k <= a + Len(N)
    <3>1. k - a \in 1..Len(N) /\ ~(k <= a)
      BY <2>2, <1>1
    <3>2. U[k] = N[k - a]
      BY <2>2, <3>1, <1>4
    <3> QED BY <3>1, <3>2, <1>1
  <2>3. CASE a + Len(N) < k
    <3>1. k - Len(N) + m \in 1..Len(T) /\ ~(k <= a) /\ ~(k <= a + Len(N))
      BY <2>3, <1>1
    <3> QED BY <3>1, <1>1, <1>4
  <2> QED BY <2>1, <2>2, <2>3, <1>1
<1>7. IsText(U) /\ Len(U) = n
  BY <1>2, <1>5, <1>6, MadeOfLines
<1>8. \A k \in 1..a : U[k] = T[k]
  BY <1>1, <1>4
<1>9. ASSUME NEW k \in 1..Len(N) PROVE U[a + k] = N[k]
  <2>1. a + k \in 1..n /\ ~(a + k <= a) /\ a + k <= a + Len(N) /\ (a + k) - a = k
    BY <1>1
  <2> QED BY <2>1, <1>4
<1>10. ASSUME NEW k \in (a + m + 1)..Len(T) PROVE U[k - m + Len(N)] = T[k]
  <2> DEFINE l == k - m + Len(N)
  <2>1. l \in 1..n /\ ~(l <= a) /\ ~(l <= a + Len(N)) /\ l - Len(N) + m = k
    BY <1>1
  <2> HIDE DEF l
  <2>2. U[l] = T[k]
    BY <2>1, <1>4
  <2> QED BY <2>2 DEF l
<1> QED BY <1>7, <1>8, <1>9, <1>10 DEF U

\* What stands before a line of a text, something else, and what stands behind a line.
LEMMA SplicedBetween ==
  ASSUME NEW T, NEW N, IsText(T), IsText(N), NEW a \in Nat, NEW m \in Nat, a + m <= Len(T)
  PROVE  SubSeq(T, 1, a) \o N \o SubSeq(T, a + m + 1, Len(T)) = Splice(T, a, m, N)
<1> DEFINE S == ToSet(T) \cup ToSet(N)
           H == SubSeq(T, 1, a)
           B == SubSeq(T, a + m + 1, Len(T))
           U == Splice(T, a, m, N)
<1>1. /\ Len(T) \in Nat /\ DOMAIN T = 1..Len(T) /\ Len(N) \in Nat /\ DOMAIN N = 1..Len(N)
  BY TextLines
<1>2. /\ \A k \in 1..Len(T) : T[k] \in S
      /\ \A k \in 1..Len(N) : N[k] \in S
  BY <1>1 DEF ToSet
<1>3. N \in Seq(S)
  <2>1. N = [k \in 1..Len(N) |-> N[k]]
    BY TextLines
  <2>2. N \in [1..Len(N) -> S]
    BY <2>1, <1>2
  <2> QED BY <2>2, <1>1
<1> HIDE DEF S
<1>4. /\ H \in Seq(S) /\ Len(H) = a /\ \A k \in 1..a : H[k] = T[k]
  <2>1. \A k \in 1..a : T[k] \in S
    BY <1>1, <1>2
  <2>2. /\ H \in Seq(S) /\ Len(H) = IF 1 <= a THEN a - 1 + 1 ELSE 0
        /\ \A k \in 1..(a - 1 + 1) : H[k] = T[1 + k - 1]
    BY <2>1, SubSeqProperties
  <2> QED BY <2>2
<1>5. /\ B \in Seq(S) /\ Len(B) = Len(T) - a - m
      /\ \A k \in 1..(Len(T) - a - m) : B[k] = T[a + m + k]
  <2>0. a + m + 1 \in Int /\ Len(T) \in Int
    BY <1>1
  <2>1. \A k \in (a + m + 1)..Len(T) : T[k] \in S
    BY <1>1, <1>2
  <2>2. /\ B \in Seq(S)
        /\ Len(B) = IF a + m + 1 <= Len(T) THEN Len(T) - (a + m + 1) + 1 ELSE 0
        /\ \A k \in 1..(Len(T) - (a + m + 1) + 1) : B[k] = T[(a + m + 1) + k - 1]
    BY <2>0, <2>1, SubSeqProperties
  <2> HIDE DEF B
  <2>3. /\ Len(T) - (a + m + 1) + 1 = Len(T) - a - m
        /\ \A k \in 1..(Len(T) - a - m) : (a + m + 1) + k - 1 = a + m + k
    BY <1>1
  <2>4. Len(B) = Len(T) - a - m
    <3>1. CASE a + m + 1 <= Len(T)
      <4>1. Len(B) = Len(T) - (a + m + 1) + 1
        BY <3>1, <2>2
      <4> QED BY <4>1, <2>3
    <3>2. CASE ~(a + m + 1 <= Len(T))
      <4>1. \A l \in Nat : a + m <= l /\ ~(a + m + 1 <= l) => l - a - m = 0
        OBVIOUS
      <4>2. Len(T) - a - m = 0
        BY <3>2, <4>1, <1>1
      <4>3. Len(B) = 0
        BY <3>2, <2>2
      <4> QED BY <4>2, <4>3
    <3> QED BY <3>1, <3>2
  <2>5. ASSUME NEW k \in 1..(Len(T) - a - m) PROVE B[k] = T[a + m + k]
    BY <2>2, <2>3
  <2> QED BY <2>2, <2>4, <2>5
<1> HIDE DEF H, B
<1>6. /\ H \o N \in Seq(S) /\ Len(H \o N) = a + Len(N)
      /\ \A k \in 1..(a + Len(N)) : (H \o N)[k] = IF k <= a THEN H[k] ELSE N[k - a]
  BY <1>3, <1>4, ConcatProperties
<1> DEFINE C == H \o N
           D == C \o B
<1>c. C \in Seq(S)
  BY <1>6
<1> HIDE DEF C
<1>7. /\ D \in Seq(S) /\ Len(D) = Len(C) + Len(B)
      /\ \A k \in 1..(Len(C) + Len(B)) : D[k] = IF k <= Len(C) THEN C[k] ELSE B[k - Len(C)]
  <2>1. B \in Seq(S)
    BY <1>5
  <2> QED BY <2>1, <1>c, ConcatProperties
<1>8. Len(C) = a + Len(N) /\ \A k \in 1..(a + Len(N)) : C[k] = IF k <= a THEN T[k] ELSE N[k - a]
  <2>1. Len(C) = a + Len(N) /\ \A k \in 1..(a + Len(N)) : C[k] = IF k <= a THEN H[k] ELSE N[k - a]
    BY <1>6 DEF C
  <2>2. \A k \in 1..(a + Len(N)) : k <= a => k \in 1..a
    BY <1>1
  <2>3. \A k \in 1..(a + Len(N)) : k <= a => H[k] = T[k]
    BY <2>2, <1>4
  <2> QED BY <2>1, <2>3
<1> HIDE DEF D
<1>9. /\ IsText(U) /\ Len(U) = Len(T) - m + Len(N)
      /\ \A k \in 1..a : U[k] = T[k]
      /\ \A k \in 1..Len(N) : U[a + k] = N[k]
      /\ \A k \in (a + m + 1)..Len(T) : U[k - m + Len(N)] = T[k]
  BY Spliced
<1> HIDE DEF U
<1>10. Len(D) = Len(U)
  BY <1>1, <1>5, <1>7, <1>8, <1>9
<1>11. ASSUME NEW k \in 1..Len(D) PROVE D[k] = U[k]
  <2>1. CASE k <= a
    BY <2>1, <1>1, <1>7, <1>8, <1>9
  <2>2. CASE a < k /\ k <= a + Len(N)
    <3>1. k - a \in 1..Len(N) /\ a + (k - a) = k
      BY <2>2, <1>1
    <3> QED BY <2>2, <3>1, <1>1, <1>7, <1>8, <1>9
  <2>3. CASE a + Len(N) < k
    <3> DEFINE l == k - Len(N) + m
    <3>1. /\ l \in (a + m + 1)..Len(T) /\ l - m + Len(N) = k
          /\ k - Len(C) \in 1..(Len(T) - a - m) /\ a + m + (k - Len(C)) = l
      BY <2>3, <1>1, <1>10, <1>8, <1>9
    <3> HIDE DEF l
    <3>2. U[k] = T[l] /\ B[k - Len(C)] = T[l]
      BY <3>1, <1>9, <1>5
    <3> QED BY <3>2, <2>3, <1>7, <1>8, <1>1
  <2> QED BY <2>1, <2>2, <2>3, <1>1
<1>12. D = [k \in 1..Len(D) |-> D[k]] /\ U = [k \in 1..Len(U) |-> U[k]]
  BY <1>7, <1>9, LenProperties, TextLines
<1>13. D = U
  BY <1>10, <1>11, <1>12
<1> QED BY <1>13 DEF D, C, H, B, U

-----------------------------------------------------------------------------
(* Blocks.                                                                 *)

\* From line i to line j, where the level is for the first time what it was before i.
Block(t, counted, i, j) ==
  /\ i \in 1..Len(t) /\ j \in 1..Len(t) /\ i < j
  /\ t[i].is \in Opens \cap counted
  /\ Depth(t, counted, j) = Depth(t, counted, i - 1)
  /\ \A k \in i..(j - 1) : Depth(t, counted, k) > Depth(t, counted, i - 1)

\* Levels of a text.
LEMMA Levels ==
  ASSUME NEW t, NEW counted \in Counts
  PROVE  /\ \A k \in Nat : Depth(t, counted, k) \in Int
         /\ Depth(t, counted, 0) = 0
         /\ \A k \in Nat \ {0} : Depth(t, counted, k) = Depth(t, counted, k - 1) + Rise(t, counted, k)
<1>2. \A k \in Nat : /\ Depth(t, counted, k) \in Int
                     /\ Depth(t, counted, k + 1) = Depth(t, counted, k) + Rise(t, counted, k + 1)
  BY LevelStep
<1>3. 0 \in Nat
  OBVIOUS
<1>4. Depth(t, counted, 0) = 0
  BY <1>3, LevelStep
<1>5. ASSUME NEW k \in Nat \ {0}
      PROVE  Depth(t, counted, k) = Depth(t, counted, k - 1) + Rise(t, counted, k)
  <2>1. k - 1 \in Nat /\ (k - 1) + 1 = k
    OBVIOUS
  <2>2. Depth(t, counted, (k - 1) + 1) = Depth(t, counted, k - 1) + Rise(t, counted, (k - 1) + 1)
    BY <2>1, <1>2
  <2> QED BY <2>1, <2>2
<1> QED BY <1>2, <1>4, <1>5

\* The number of lines of a set between two lines.
LEMMA CountBetween ==
  ASSUME NEW P, NEW i \in Nat \ {0}, NEW j \in Nat, i <= j
  PROVE  LET C(n) == {k \in 1..n : k \in P} IN
         Cardinality({k \in P \cap Nat : i <= k /\ k <= j}) = Cardinality(C(j)) - Cardinality(C(i - 1))
<1> DEFINE C(n) == {k \in 1..n : k \in P}
           W == {k \in P \cap Nat : i <= k /\ k <= j}
<1>1. i - 1 \in Nat
  OBVIOUS
<1>2. IsFiniteSet(1..j) /\ C(i - 1) \in SUBSET (1..j) /\ W \in SUBSET (1..j)
  BY FS_Interval
<1>3. C(j) = C(i - 1) \cup W /\ C(i - 1) \cap W = {}
  OBVIOUS
<1> HIDE DEF C, W
<1>4. IsFiniteSet(C(i - 1)) /\ IsFiniteSet(W)
  BY <1>2, FS_Subset
<1>5. Cardinality(C(i - 1) \cup W) = Cardinality(C(i - 1)) + Cardinality(W) - Cardinality({})
  BY <1>3, <1>4, FS_Union
<1>6. Cardinality({}) = 0 /\ Cardinality(W) \in Nat /\ Cardinality(C(i - 1)) \in Nat
  BY <1>4, FS_EmptySet, FS_CardinalityType
<1>7. Cardinality(W) = Cardinality(C(j)) - Cardinality(C(i - 1))
  BY <1>3, <1>5, <1>6
<1> QED BY <1>7 DEF C, W

\* Between two lines of a text, opening lines exceed counted ones by the change of the level.
LEMMA Balance ==
  ASSUME NEW t, IsText(t), NEW counted \in Counts,
         NEW i \in 1..Len(t), NEW j \in 1..Len(t), i <= j
  PROVE  LET open == {k \in DOMAIN t : t[k].is \in Opens \cap counted}
             shut == {k \in DOMAIN t : t[k].is \in Closes \cap counted}
         IN Cardinality({k \in open : i <= k /\ k <= j}) = Cardinality({k \in shut : i <= k /\ k <= j})
              <=> Depth(t, counted, j) = Depth(t, counted, i - 1)
<1> DEFINE open == {k \in DOMAIN t : t[k].is \in Opens \cap counted}
           shut == {k \in DOMAIN t : t[k].is \in Closes \cap counted}
           P == {k \in Nat : t[k].is \in Opens \cap counted}
           Q == {k \in Nat : t[k].is \in Closes \cap counted}
           C(n) == {k \in 1..n : k \in P}
           D(n) == {k \in 1..n : k \in Q}
           O == {k \in open : i <= k /\ k <= j}
           Z == {k \in shut : i <= k /\ k <= j}
<1>1. DOMAIN t = 1..Len(t) /\ Len(t) \in Nat /\ i \in Nat \ {0} /\ j \in Nat /\ i - 1 \in Nat
  BY TextLines
<1>2. /\ O = {k \in P \cap Nat : i <= k /\ k <= j}
      /\ Z = {k \in Q \cap Nat : i <= k /\ k <= j}
  BY <1>1
<1>3. \A n \in Nat : /\ {k \in 1..n : t[k].is \in Opens \cap counted} = C(n)
                     /\ {k \in 1..n : t[k].is \in Closes \cap counted} = D(n)
  OBVIOUS
<1>4. \A n \in Nat : Depth(t, counted, n) = Cardinality(C(n)) - Cardinality(D(n))
  BY <1>3 DEF Depth
<1> HIDE DEF P, Q, O, Z, open, shut
<1>5. /\ Cardinality({k \in P \cap Nat : i <= k /\ k <= j}) = Cardinality(C(j)) - Cardinality(C(i - 1))
      /\ Cardinality({k \in Q \cap Nat : i <= k /\ k <= j}) = Cardinality(D(j)) - Cardinality(D(i - 1))
  BY <1>1, CountBetween
<1>6. /\ Cardinality(C(j)) \in Nat /\ Cardinality(C(i - 1)) \in Nat
      /\ Cardinality(D(j)) \in Nat /\ Cardinality(D(i - 1)) \in Nat
  BY <1>1, CountStep
<1> HIDE DEF C, D
<1>7. Cardinality(O) = Cardinality(Z)
        <=> Cardinality(C(j)) - Cardinality(D(j)) = Cardinality(C(i - 1)) - Cardinality(D(i - 1))
  BY <1>2, <1>5, <1>6
<1>8. Cardinality(O) = Cardinality(Z) <=> Depth(t, counted, j) = Depth(t, counted, i - 1)
  BY <1>1, <1>4, <1>6, <1>7
<1> QED BY <1>8 DEF O, Z, open, shut

\* Behind an opening line the level comes back, if it is ever as low again.
LEMMA BlockExists ==
  ASSUME NEW t, IsText(t), NEW counted \in Counts,
         NEW i \in 1..Len(t), NEW e \in 1..Len(t), i < e,
         t[i].is \in Opens \cap counted, Depth(t, counted, e) <= Depth(t, counted, i - 1)
  PROVE  \E j \in 1..e : Block(t, counted, i, j)
<1> DEFINE A(k) == Depth(t, counted, k)
           N == {k \in i..Len(t) : A(k) <= A(i - 1)}
<1>1. Len(t) \in Nat
  BY TextLines
<1>2. /\ \A k \in Nat : A(k) \in Int
      /\ \A k \in Nat \ {0} : A(k) = A(k - 1) + Rise(t, counted, k)
  BY Levels
<1>3. \A k \in Nat : Rise(t, counted, k) \in {-1, 0, 1}
  BY DEF Rise
<1>4. Rise(t, counted, i) = 1
  BY DEF Rise
<1>0. e \in N /\ A(e) <= A(i - 1)
  BY <1>1
<1> HIDE DEF A
<1>5. N \subseteq Nat /\ e \in N
  BY <1>0
<1>6. PICK j \in N : \A k \in N : j <= k
  BY <1>5, Least
<1>7. A(i) = A(i - 1) + 1 /\ A(i - 1) \in Int /\ i - 1 \in Nat /\ i \in Nat
  BY <1>1, <1>2, <1>4
<1>8. i < j /\ j <= e /\ j \in 1..Len(t)
  <2>1. j # i
    BY <1>6, <1>7
  <2> QED BY <2>1, <1>5, <1>6, <1>1
<1>9. \A k \in i..(j - 1) : A(k) > A(i - 1)
  <2> SUFFICES ASSUME NEW k \in i..(j - 1) PROVE A(k) > A(i - 1)
    OBVIOUS
  <2> HIDE DEF N
  <2>0. k \in Nat /\ i <= k /\ k < j
    BY <1>7, <1>8
  <2>1. k \in i..Len(t) /\ k < j /\ A(k) \in Int
    BY <2>0, <1>1, <1>2, <1>7, <1>8
  <2>2. ~(A(k) <= A(i - 1))
    BY <2>1, <1>6, <1>8 DEF N
  <2> QED BY <2>1, <2>2, <1>7
<1>10. A(j) = A(i - 1)
  <2>1. A(j - 1) > A(i - 1) /\ A(j) <= A(i - 1) /\ A(j) = A(j - 1) + Rise(t, counted, j)
        /\ A(j) \in Int /\ A(j - 1) \in Int /\ Rise(t, counted, j) \in {-1, 0, 1}
    BY <1>1, <1>2, <1>3, <1>6, <1>8, <1>9
  <2> QED BY <2>1, <1>7
<1> QED BY <1>8, <1>9, <1>10 DEF Block, A

\* A block ends at one line.
LEMMA BlockUnique ==
  ASSUME NEW t, IsText(t), NEW counted \in Counts, NEW i, NEW j, NEW k,
         Block(t, counted, i, j), Block(t, counted, i, k)
  PROVE  j = k
<1>1. Len(t) \in Nat
  BY TextLines
<1>2. i \in Nat /\ j \in Nat /\ k \in Nat /\ i - 1 \in Nat /\ i < j /\ i < k
  BY <1>1 DEF Block
<1>3. /\ Depth(t, counted, i - 1) \in Int
      /\ Depth(t, counted, j) = Depth(t, counted, i - 1)
      /\ Depth(t, counted, k) = Depth(t, counted, i - 1)
  BY <1>2, Levels DEF Block
<1>4. j \in i..(k - 1) => Depth(t, counted, j) > Depth(t, counted, i - 1)
  BY DEF Block
<1>5. k \in i..(j - 1) => Depth(t, counted, k) > Depth(t, counted, i - 1)
  BY DEF Block
<1> HIDE DEF Block
<1>6. j \notin i..(k - 1) /\ k \notin i..(j - 1)
  BY <1>3, <1>4, <1>5
<1> QED BY <1>2, <1>6

\* It is a line that closes.
LEMMA BlockEnd ==
  ASSUME NEW t, IsText(t), NEW counted \in Counts, NEW i, NEW j, Block(t, counted, i, j)
  PROVE  t[j].is \in Closes \cap counted
<1>1. Len(t) \in Nat
  BY TextLines
<1>2. /\ j - 1 \in i..(j - 1) /\ j \in Nat \ {0} /\ j - 1 \in Nat /\ i - 1 \in Nat
      /\ Depth(t, counted, j) = Depth(t, counted, i - 1)
      /\ Depth(t, counted, j - 1) > Depth(t, counted, i - 1)
  BY <1>1 DEF Block
<1>3. /\ Depth(t, counted, j) = Depth(t, counted, j - 1) + Rise(t, counted, j)
      /\ Depth(t, counted, j) \in Int /\ Depth(t, counted, j - 1) \in Int
  BY <1>2, Levels
<1>4. Rise(t, counted, j) # 0 /\ Rise(t, counted, j) # 1
  BY <1>2, <1>3
<1> QED BY <1>4 DEF Rise

\* BlocksOf finds the blocks.
LEMMA Blocks ==
  ASSUME NEW t, IsText(t), NEW counted \in Counts, NEW kind \in Opening
  PROVE  /\ \A r \in BlocksOf(t, kind, counted) :
              r = <<r[1], r[2]>> /\ Block(t, counted, r[1], r[2]) /\ t[r[1]].is = kind
         /\ \A i, j : Block(t, counted, i, j) /\ t[i].is = kind => <<i, j>> \in BlocksOf(t, kind, counted)
<1> DEFINE open == {k \in DOMAIN t : t[k].is \in Opens \cap counted}
           shut == {k \in DOMAIN t : t[k].is \in Closes \cap counted}
           Within(lines, i, j) == Cardinality({k \in lines : i <= k /\ k <= j})
           Ends(i) == {j \in shut : i < j /\ Within(open, i, j) = Within(shut, i, j)}
           End(i) == CHOOSE j \in Ends(i) : \A k \in Ends(i) : j <= k
<1>1. DOMAIN t = 1..Len(t) /\ Len(t) \in Nat
  BY TextLines
<1>0. kind \in Opens \cap counted
  BY DEF Counts, Opens, Nginx, Scanner
<1>2. BlocksOf(t, kind, counted)
        = {<<i, End(i)>> : i \in {i \in open : t[i].is = kind /\ Ends(i) # {}}}
  BY DEF BlocksOf
<1>3. ASSUME NEW i \in open
      PROVE  Ends(i) = {j \in shut : i < j /\ Depth(t, counted, j) = Depth(t, counted, i - 1)}
  <2>1. ASSUME NEW j \in shut, i < j
        PROVE  Within(open, i, j) = Within(shut, i, j)
                 <=> Depth(t, counted, j) = Depth(t, counted, i - 1)
    <3>1. i \in 1..Len(t) /\ j \in 1..Len(t) /\ i <= j
      BY <1>1, <2>1
    <3> QED BY <3>1, Balance
  <2> HIDE DEF open, shut, Within
  <2> QED BY <2>1
<1> HIDE DEF Ends, Within
<1>4. ASSUME NEW i \in open, Ends(i) # {}
      PROVE  End(i) \in Ends(i) /\ \A k \in Ends(i) : End(i) <= k
  <2>1. Ends(i) \subseteq Nat
    BY <1>1, <1>3
  <2>2. \E j \in Ends(i) : \A k \in Ends(i) : j <= k
    BY <1>4, <2>1, Least
  <2> QED BY <2>2
<1> HIDE DEF End
<1>5. ASSUME NEW i \in open, Ends(i) # {}
      PROVE  Block(t, counted, i, End(i))
  <2>1. End(i) \in shut /\ i < End(i) /\ Depth(t, counted, End(i)) = Depth(t, counted, i - 1)
    BY <1>3, <1>4, <1>5
  <2>2. PICK j \in 1..End(i) : Block(t, counted, i, j)
    <3>1. /\ i \in 1..Len(t) /\ End(i) \in 1..Len(t) /\ i - 1 \in Nat /\ t[i].is \in Opens \cap counted
          /\ Depth(t, counted, i - 1) \in Int
      <4>1. i \in 1..Len(t) /\ End(i) \in 1..Len(t) /\ i - 1 \in Nat /\ t[i].is \in Opens \cap counted
        BY <1>1, <2>1
      <4> QED BY <4>1, Levels
    <3>2. Depth(t, counted, End(i)) <= Depth(t, counted, i - 1)
      BY <2>1, <3>1
    <3> QED BY <2>1, <3>1, <3>2, BlockExists
  <2>3. j \in shut
    BY <1>1, <2>2, BlockEnd DEF Block
  <2>4. j \in Ends(i)
    BY <2>2, <2>3, <1>3 DEF Block
  <2>5. j = End(i)
    BY <2>4, <2>1, <1>4, <1>5, <1>1
  <2> QED BY <2>2, <2>5
<1>6. ASSUME NEW r \in BlocksOf(t, kind, counted)
      PROVE  r = <<r[1], r[2]>> /\ Block(t, counted, r[1], r[2]) /\ t[r[1]].is = kind
  <2>1. PICK i \in open : t[i].is = kind /\ Ends(i) # {} /\ r = <<i, End(i)>>
    BY <1>2
  <2>2. r[1] = i /\ r[2] = End(i)
    BY <2>1
  <2> QED BY <2>1, <2>2, <1>5
<1>7. ASSUME NEW i, NEW j, Block(t, counted, i, j), t[i].is = kind
      PROVE  <<i, j>> \in BlocksOf(t, kind, counted)
  <2>1. i \in open
    BY <1>1, <1>7 DEF Block
  <2>2. j \in shut
    BY <1>1, <1>7, BlockEnd DEF Block
  <2>3. j \in Ends(i)
    BY <2>1, <2>2, <1>3, <1>7 DEF Block
  <2>4. Block(t, counted, i, End(i))
    BY <2>1, <2>3, <1>5
  <2>5. j = End(i)
    BY <2>4, <1>7, BlockUnique
  <2> QED BY <2>1, <2>3, <2>5, <1>2, <1>7
<1> QED BY <1>6, <1>7

\* A block whose lines stand elsewhere is a block there.
LEMMA BlockCopy ==
  ASSUME NEW t, NEW u, IsText(t), IsText(u), NEW counted \in Counts, NEW i, NEW j,
         Block(t, counted, i, j), NEW d \in Int, i + d >= 1, j + d <= Len(u),
         \A k \in i..j : u[k + d] = t[k]
  PROVE  Block(u, counted, i + d, j + d)
<1>1. /\ Len(t) \in Nat /\ Len(u) \in Nat /\ i \in Nat \ {0} /\ j \in Nat /\ i < j
      /\ i - 1 \in Nat /\ (i - 1) + d \in Nat /\ (i - 1) + 1 = i
  BY TextLines DEF Block
<1>0. PICK h \in Nat : h = i - 1
  BY <1>1
<1>2. h + d \in Nat /\ Alike(t, u, counted, d, h, j)
  BY <1>0, <1>1 DEF Rise, Alike
<1>3. \A k \in h..j : Depth(u, counted, k + d) - Depth(u, counted, h + d)
                              = Depth(t, counted, k) - Depth(t, counted, h)
  <2>1. Parallel(t, u, counted, d, h, j)
    BY <1>1, <1>2, LevelCopy
  <2> QED BY <2>1 DEF Parallel
<1>4. ASSUME NEW k \in h..j
      PROVE  Depth(u, counted, k + d) \in Int /\ Depth(t, counted, k) \in Int
  <2>1. k \in Nat /\ k + d \in Nat
    BY <1>1, <1>2
  <2> QED BY <2>1, Levels
<1>5. u[i + d].is \in Opens \cap counted /\ i + d \in 1..Len(u) /\ j + d \in 1..Len(u) /\ i + d < j + d
  BY <1>1 DEF Block
<1>6. Depth(u, counted, j + d) = Depth(u, counted, (i + d) - 1)
  <2>1. Depth(t, counted, j) = Depth(t, counted, i - 1)
    BY DEF Block
  <2>2. (i + d) - 1 = h + d /\ j \in h..j /\ h \in h..j
    BY <1>0, <1>1
  <2>3. Depth(t, counted, j) = Depth(t, counted, h)
    BY <2>1, <1>0
  <2>4. Depth(u, counted, j + d) = Depth(u, counted, h + d)
    BY <2>2, <2>3, <1>3, <1>4
  <2> QED BY <2>2, <2>4
<1>7. ASSUME NEW k \in (i + d)..((j + d) - 1)
      PROVE  Depth(u, counted, k) > Depth(u, counted, (i + d) - 1)
  <2> DEFINE l == k - d
  <2>1. /\ l \in i..(j - 1) /\ l \in h..j /\ l + d = k /\ (i + d) - 1 = h + d /\ h \in h..j
    BY <1>0, <1>1
  <2> HIDE DEF l
  <2>2. Depth(t, counted, l) > Depth(t, counted, h)
    BY <2>1, <1>0 DEF Block
  <2>3. Depth(u, counted, l + d) > Depth(u, counted, h + d)
    BY <2>1, <2>2, <1>3, <1>4
  <2> QED BY <2>1, <2>3
<1> QED BY <1>5, <1>6, <1>7 DEF Block

\* Behind line a the level is not lower for m lines, and then it is the same.
Even(t, counted, a, m) ==
  /\ Depth(t, counted, a + m) = Depth(t, counted, a)
  /\ \A k \in a..(a + m) : Depth(t, counted, k) >= Depth(t, counted, a)

\* Where a line of T stands if n lines take the place of the m lines behind line a.
Shift(a, m, n, k) == IF k <= a THEN k ELSE k - m + n

\* The levels of T and U are the same there.
SameAround(T, U, counted, a, m, n) ==
  /\ \A k \in 0..a : Depth(U, counted, k) = Depth(T, counted, k)
  /\ \A k \in (a + m)..Len(T) : Depth(U, counted, k - m + n) = Depth(T, counted, k)

\* Apart from such lines, the levels are what they were.
LEMMA AroundLevels ==
  ASSUME NEW T, NEW U, IsText(T), IsText(U), NEW a \in Nat, NEW m \in Nat, NEW n \in Nat,
         a + m <= Len(T), Len(U) = Len(T) - m + n,
         \A k \in 1..a : U[k] = T[k],
         \A k \in (a + m + 1)..Len(T) : U[k - m + n] = T[k],
         NEW counted \in Counts, Even(T, counted, a, m), Even(U, counted, a, n)
  PROVE  SameAround(T, U, counted, a, m, n)
<1> DEFINE A(k) == Depth(T, counted, k)
           B(k) == Depth(U, counted, k)
<1>1. Len(T) \in Nat /\ Len(U) \in Nat
  BY TextLines
<1>2. \A k \in Nat : A(k) \in Int /\ B(k) \in Int
  BY Levels
<1>4. \A k \in 0..a : B(k) = A(k)
  <2>1. \A k \in 1..a : Rise(U, counted, k) = Rise(T, counted, k)
    BY DEF Rise
  <2>2. SameLevels(T, U, counted, a)
    BY <2>1, LevelSame
  <2> QED BY <2>2 DEF SameLevels
<1>5. A(a + m) = A(a)
  BY DEF Even
<1>6. B(a + n) = B(a)
  BY DEF Even
<1>7. \A k \in (a + m)..Len(T) : B(k - m + n) = A(k)
  <2>1. PICK d \in Int : d = n - m
    OBVIOUS
  <2>2. PICK h \in Nat : h = a + m
    OBVIOUS
  <2>3. h + d = a + n /\ h + d \in Nat /\ a \in 0..a /\ h \in h..Len(T)
    BY <2>1, <2>2, <1>1
  <2>4. ASSUME NEW k \in (h + 1)..Len(T) PROVE Rise(U, counted, k + d) = Rise(T, counted, k)
    <3>1. k \in (a + m + 1)..Len(T) /\ k - m + n = k + d
      BY <2>1, <2>2, <1>1
    <3>2. U[k + d] = T[k]
      BY <3>1
    <3> QED BY <3>2 DEF Rise
  <2>10. Alike(T, U, counted, d, h, Len(T))
    BY <2>4 DEF Alike
  <2>5. \A k \in h..Len(T) : B(k + d) - B(h + d) = A(k) - A(h)
    <3>1. Parallel(T, U, counted, d, h, Len(T))
      BY <1>1, <2>3, <2>10, LevelCopy
    <3> QED BY <3>1 DEF Parallel
  <2> HIDE DEF A, B
  <2>6. B(h + d) = A(h)
    BY <2>2, <2>3, <1>4, <1>5, <1>6
  <2> SUFFICES ASSUME NEW k \in (a + m)..Len(T) PROVE B(k - m + n) = A(k)
    OBVIOUS
  <2>7. k \in Nat /\ k + d \in Nat /\ k \in h..Len(T) /\ k - m + n = k + d
    BY <2>1, <2>2, <1>1
  <2>8. /\ B(k + d) - B(h + d) = A(k) - A(h) /\ B(k + d) \in Int /\ A(k) \in Int
        /\ A(h) \in Int
    BY <2>5, <2>7, <1>2
  <2>9. B(k + d) = A(k)
    BY <2>6, <2>8
  <2> QED BY <2>7, <2>9
<1> QED BY <1>4, <1>7 DEF SameAround

\* A block around such lines, or apart from them, is a block if others take their place.
LEMMA BlockAround ==
  ASSUME NEW T, NEW U, IsText(T), IsText(U), NEW a \in Nat, NEW m \in Nat, NEW n \in Nat,
         a + m <= Len(T), Len(U) = Len(T) - m + n,
         \A k \in 1..a : U[k] = T[k],
         \A k \in (a + m + 1)..Len(T) : U[k - m + n] = T[k],
         NEW counted \in Counts, Even(T, counted, a, m), Even(U, counted, a, n),
         NEW i, NEW j, Block(T, counted, i, j), i \notin (a + 1)..(a + m)
  PROVE  /\ j \notin (a + 1)..(a + m)
         /\ Block(U, counted, Shift(a, m, n, i), Shift(a, m, n, j))
<1> DEFINE A(k) == Depth(T, counted, k)
           B(k) == Depth(U, counted, k)
<1>1. /\ Len(T) \in Nat /\ Len(U) \in Nat /\ i \in Nat \ {0} /\ j \in Nat /\ i < j /\ j <= Len(T)
      /\ i - 1 \in Nat
  BY TextLines DEF Block
<1>2. \A k \in Nat : A(k) \in Int /\ B(k) \in Int
  BY Levels
<1>3. A(j) = A(i - 1) /\ \A k \in i..(j - 1) : A(k) > A(i - 1)
  BY DEF Block
<1>14. SameAround(T, U, counted, a, m, n)
  BY AroundLevels
<1>4. \A k \in 0..a : B(k) = A(k)
  BY <1>14 DEF SameAround
<1>5. A(a + m) = A(a) /\ \A k \in a..(a + m) : A(k) >= A(a)
  BY DEF Even
<1>6. B(a + n) = B(a) /\ \A k \in a..(a + n) : B(k) >= B(a)
  BY DEF Even
<1>7. \A k \in (a + m)..Len(T) : B(k - m + n) = A(k)
  BY <1>14 DEF SameAround
<1>8. T[i].is \in Opens \cap counted
  BY DEF Block
<1> HIDE DEF A, B
<1>9. j \notin (a + 1)..(a + m)
  <2> SUFFICES ASSUME j \in (a + 1)..(a + m) PROVE FALSE
    OBVIOUS
  <2>1. i <= a /\ a \in i..(j - 1) /\ j \in a..(a + m) /\ a \in Nat
    BY <1>1
  <2>2. A(a) > A(i - 1) /\ A(j) >= A(a) /\ A(j) = A(i - 1)
    BY <2>1, <1>3, <1>5
  <2>3. A(a) \in Int /\ A(j) \in Int /\ A(i - 1) \in Int
    BY <2>1, <1>1, <1>2
  <2> QED BY <2>2, <2>3
<1> DEFINE I == Shift(a, m, n, i)
           J == Shift(a, m, n, j)
<1>10. /\ I \in 1..Len(U) /\ J \in 1..Len(U) /\ I < J /\ I - 1 \in Nat
       /\ U[I].is \in Opens \cap counted /\ B(I - 1) = A(i - 1) /\ B(J) = A(j)
  <2>1. CASE j <= a
    <3>1. I = i /\ J = j /\ i \in 1..a /\ i - 1 \in 0..a /\ j \in 0..a
      BY <2>1, <1>1 DEF Shift
    <3>2. U[i] = T[i] /\ B(i - 1) = A(i - 1) /\ B(j) = A(j)
      BY <3>1, <1>4
    <3>3. i \in 1..Len(U) /\ j \in 1..Len(U)
      BY <2>1, <1>1
    <3> HIDE DEF I, J
    <3> QED BY <3>1, <3>2, <3>3, <1>1, <1>8
  <2>2. CASE i <= a /\ j > a + m
    <3>1. I = i /\ J = j - m + n /\ i \in 1..a /\ i - 1 \in 0..a /\ j \in (a + m)..Len(T)
      BY <2>2, <1>1 DEF Shift
    <3>2. U[i] = T[i] /\ B(i - 1) = A(i - 1) /\ B(j - m + n) = A(j)
      BY <3>1, <1>4, <1>7
    <3>3. i \in 1..Len(U) /\ j - m + n \in 1..Len(U) /\ i < j - m + n
      BY <2>2, <1>1
    <3> HIDE DEF I, J
    <3> QED BY <3>1, <3>2, <3>3, <1>1, <1>8
  <2>3. CASE i > a + m
    <3>1. /\ I = i - m + n /\ J = j - m + n /\ i \in (a + m + 1)..Len(T)
          /\ i - 1 \in (a + m)..Len(T) /\ j \in (a + m)..Len(T) /\ (i - m + n) - 1 = (i - 1) - m + n
      BY <2>3, <1>1 DEF Shift
    <3>2. U[i - m + n] = T[i] /\ B((i - 1) - m + n) = A(i - 1) /\ B(j - m + n) = A(j)
      BY <3>1, <1>7
    <3>3. /\ i - m + n \in 1..Len(U) /\ j - m + n \in 1..Len(U) /\ i - m + n < j - m + n
          /\ (i - m + n) - 1 \in Nat
      BY <2>3, <1>1
    <3> HIDE DEF I, J
    <3> QED BY <3>1, <3>2, <3>3, <1>1, <1>8
  <2> QED BY <2>1, <2>2, <2>3, <1>1, <1>9
<1>11. ASSUME NEW k \in I..(J - 1) PROVE B(k) > B(I - 1)
  <2>0. k \in Nat /\ A(i - 1) \in Int /\ B(I - 1) = A(i - 1)
    BY <1>1, <1>2, <1>10
  <2>1. CASE k <= a
    <3>1. k \in 0..a /\ k \in i..(j - 1)
      BY <2>1, <2>0, <1>1, <1>9, <1>10 DEF Shift
    <3> QED BY <3>1, <2>0, <1>3, <1>4
  <2>2. CASE a < k /\ k <= a + n
    <3>1. i <= a /\ a < j
      BY <2>2, <2>0, <1>1, <1>9, <1>10 DEF Shift
    <3>2. a \in i..(j - 1) /\ k \in a..(a + n) /\ a \in 0..a
      BY <3>1, <2>2, <2>0, <1>1
    <3>3. A(a) > A(i - 1) /\ B(a) = A(a) /\ B(k) >= B(a) /\ A(a) \in Int /\ B(k) \in Int
      BY <3>2, <2>0, <1>2, <1>3, <1>4, <1>6
    <3> QED BY <3>3, <2>0
  <2>3. CASE a + n < k
    <3> DEFINE l == k - n + m
    <3>1. l \in (a + m)..Len(T) /\ l \in i..(j - 1) /\ l - m + n = k
      BY <2>3, <2>0, <1>1, <1>9, <1>10 DEF Shift
    <3> HIDE DEF l
    <3>2. B(k) = A(l) /\ A(l) > A(i - 1)
      BY <3>1, <1>3, <1>7
    <3> QED BY <3>2, <2>0
  <2> QED BY <2>0, <2>1, <2>2, <2>3
<1>12. B(J) = B(I - 1)
  BY <1>3, <1>10
<1>13. Block(U, counted, I, J)
  BY <1>10, <1>11, <1>12 DEF Block, B
<1> QED BY <1>9, <1>13

-----------------------------------------------------------------------------
(* Servers in a text that Nginx accepts.                                   *)

Server(t, counted, i, j) == Block(t, counted, i, j) /\ t[i].is = "server"

\* No server stands in a server, and no http block.
Alone(t) ==
  \A i, j : Server(t, Nginx, i, j) =>
              \A k \in (i + 1)..(j - 1) : t[k].is \notin {"server", "http"}

\* The braces that only the program counts do not keep a server open.
Tame(t) ==
  \A i, e : Server(t, Nginx, i, e) => Depth(t, Scanner, e) <= Depth(t, Scanner, i - 1)

Sane(t) == IsText(t) /\ Matched(t) /\ Alone(t)
Good(t) == Sane(t) /\ Tame(t)

\* Both ways of counting braces, and which lines open a block.
LEMMA BothClose ==
  /\ Nginx \in Counts /\ Scanner \in Counts
  /\ "server" \in Opening /\ "http" \in Opening
  /\ \A counted \in Counts : Opening \subseteq Opens \cap counted
  /\ Closes \cap Nginx = {"close"}
BY DEF Counts, Opening, Opens, Closes, Nginx, Scanner

\* Braces match if no level is negative and the last one is zero.
LEMMA MatchedLevels ==
  ASSUME NEW t, IsText(t)
  PROVE  Matched(t) <=> /\ \A k \in 0..Len(t) : Depth(t, Nginx, k) >= 0
                        /\ Depth(t, Nginx, Len(t)) = 0
<1>1. Len(t) \in Nat /\ DOMAIN t = 1..Len(t)
  BY TextLines
<1>2. Depth(t, Nginx, 0) = 0
  BY BothClose, Levels
<1> QED BY <1>1, <1>2 DEF Matched

\* What CommentsClose says.
LEMMA TameIs ==
  ASSUME NEW t, IsText(t)
  PROVE  Tame(t) <=> CommentsClose(t)
<1> DEFINE blocks == BlocksOf(t, "server", Nginx)
<1>1. \A r \in blocks : Server(t, Nginx, r[1], r[2])
  BY BothClose, Blocks DEF Server
<1>2. \A i, j : Server(t, Nginx, i, j) => <<i, j>> \in blocks
  BY BothClose, Blocks DEF Server
<1> HIDE DEF blocks
<1>3. ASSUME Tame(t), NEW r \in blocks
      PROVE  Depth(t, Scanner, r[2]) <= Depth(t, Scanner, r[1] - 1)
  <2>1. PICK i, j : i = r[1] /\ j = r[2]
    OBVIOUS
  <2>2. Depth(t, Scanner, j) <= Depth(t, Scanner, i - 1)
    BY <2>1, <1>1, <1>3 DEF Tame
  <2> QED BY <2>1, <2>2
<1>4. ASSUME CommentsClose(t), NEW i, NEW j, Server(t, Nginx, i, j)
      PROVE  Depth(t, Scanner, j) <= Depth(t, Scanner, i - 1)
  <2> DEFINE r == <<i, j>>
  <2>1. r \in blocks /\ r[1] = i /\ r[2] = j
    BY <1>2, <1>4
  <2> HIDE DEF r
  <2>2. Depth(t, Scanner, r[2]) <= Depth(t, Scanner, r[1] - 1)
    BY <2>1, <1>4 DEF CommentsClose, blocks
  <2> QED BY <2>1, <2>2
<1> QED BY <1>3, <1>4 DEF Tame, CommentsClose, blocks

\* What Nginx accepts is good, if comments close what they open.
LEMMA AcceptedIsSane ==
  ASSUME NEW c, NEW t, IsText(t), Accepts(c, t)
  PROVE  Sane(t)
<1>1. Len(t) \in Nat /\ DOMAIN t = 1..Len(t)
  BY TextLines
<1>2. Matched(t)
  BY DEF Accepts, Matched
<1>3. Alone(t)
  <2> SUFFICES ASSUME NEW i, NEW j, Server(t, Nginx, i, j), NEW k \in (i + 1)..(j - 1)
               PROVE  t[k].is \notin {"server", "http"}
    BY DEF Alone
  <2> DEFINE s == <<i, j>>
  <2>1. s \in BlocksOf(t, "server", Nginx) /\ s[1] = i /\ s[2] = j
    BY BothClose, Blocks DEF Server
  <2>2. k \in DOMAIN t /\ i < k /\ k < j
    BY <1>1 DEF Server, Block
  <2> HIDE DEF s
  <2> QED BY <2>1, <2>2 DEF Accepts
<1> QED BY <1>2, <1>3 DEF Sane

\* A server is closed, and the program does not see more of it than Nginx.
LEMMA ServerIsClosed ==
  ASSUME NEW t, IsText(t), Matched(t), Tame(t), NEW i \in 1..Len(t), t[i].is = "server"
  PROVE  \E e : /\ Block(t, Nginx, i, e)
                /\ \E j \in (i + 1)..e : Block(t, Scanner, i, j)
<1>1. Len(t) \in Nat /\ i \in Nat \ {0} /\ i - 1 \in Nat /\ Len(t) \in 1..Len(t)
  BY TextLines
<1>2. t[i].is \in Opens \cap Nginx /\ t[i].is \in Opens \cap Scanner
  BY BothClose
<1>3. /\ Depth(t, Nginx, Len(t)) = 0 /\ Depth(t, Nginx, i - 1) >= 0
      /\ Depth(t, Nginx, i) = Depth(t, Nginx, i - 1) + 1
      /\ Depth(t, Nginx, i - 1) \in Int
  <2>1. i - 1 \in 0..Len(t)
    BY <1>1
  <2>2. Rise(t, Nginx, i) = 1
    BY <1>2 DEF Rise
  <2>3. Depth(t, Nginx, i) = Depth(t, Nginx, i - 1) + Rise(t, Nginx, i)
        /\ Depth(t, Nginx, i - 1) \in Int
    BY <1>1, BothClose, Levels
  <2> QED BY <2>1, <2>2, <2>3, MatchedLevels
<1>4. i < Len(t)
  BY <1>1, <1>3
<1>5. PICK e \in 1..Len(t) : Block(t, Nginx, i, e)
  BY <1>1, <1>2, <1>3, <1>4, BothClose, BlockExists
<1>6. i < e
  BY <1>5 DEF Block
<1>7. Depth(t, Scanner, e) <= Depth(t, Scanner, i - 1)
  BY <1>5 DEF Tame, Server
<1>8. PICK j \in 1..e : Block(t, Scanner, i, j)
  BY <1>2, <1>6, <1>7, BothClose, BlockExists
<1>9. j \in (i + 1)..e
  BY <1>1, <1>8 DEF Block
<1> QED BY <1>5, <1>8, <1>9

\* The program's range of a server is at most the server.
LEMMA RangeInServer ==
  ASSUME NEW t, Good(t), NEW i, NEW j, Server(t, Scanner, i, j)
  PROVE  \E e \in 1..Len(t) : /\ Server(t, Nginx, i, e) /\ j <= e
                              /\ \A k \in (i + 1)..e : t[k].is \notin {"server", "http"}
<1>1. IsText(t) /\ Matched(t) /\ Alone(t) /\ Tame(t)
  BY DEF Good, Sane
<1>2. i \in 1..Len(t) /\ Block(t, Scanner, i, j) /\ t[i].is = "server"
  BY DEF Server, Block
<1>3. PICK e : /\ Block(t, Nginx, i, e)
               /\ \E k \in (i + 1)..e : Block(t, Scanner, i, k)
  BY <1>1, <1>2, ServerIsClosed
<1>4. PICK k \in (i + 1)..e : Block(t, Scanner, i, k)
  BY <1>3
<1>5. k = j
  BY <1>1, <1>2, <1>4, BothClose, BlockUnique
<1>6. Server(t, Nginx, i, e) /\ t[e].is = "close"
  BY <1>1, <1>2, <1>3, BothClose, BlockEnd DEF Server
<1>7. e \in 1..Len(t) /\ j <= e /\ Len(t) \in Nat /\ i \in Nat
  <2>1. e \in 1..Len(t)
    BY <1>3 DEF Block
  <2>2. Len(t) \in Nat
    BY <1>1, TextLines
  <2> QED BY <2>1, <2>2, <1>2, <1>4, <1>5
<1>8. \A l \in (i + 1)..(e - 1) : t[l].is \notin {"server", "http"}
  BY <1>1, <1>6 DEF Alone
<1>9. ASSUME NEW l \in (i + 1)..e PROVE t[l].is \notin {"server", "http"}
  <2>1. l = e \/ l \in (i + 1)..(e - 1)
    BY <1>7
  <2> QED BY <2>1, <1>6, <1>8
<1> QED BY <1>6, <1>7, <1>9

\* Two ranges have no line in common.
LEMMA RangesApart ==
  ASSUME NEW t, Good(t), NEW i, NEW j, NEW i2, NEW j2,
         Server(t, Scanner, i, j), Server(t, Scanner, i2, j2),
         NEW k, k \in i..j, k \in i2..j2
  PROVE  i = i2 /\ j = j2
<1>1. PICK e \in 1..Len(t) : /\ Server(t, Nginx, i, e) /\ j <= e
                             /\ \A l \in (i + 1)..e : t[l].is \notin {"server", "http"}
  BY RangeInServer
<1>2. PICK e2 \in 1..Len(t) : /\ Server(t, Nginx, i2, e2) /\ j2 <= e2
                              /\ \A l \in (i2 + 1)..e2 : t[l].is \notin {"server", "http"}
  BY RangeInServer
<1>3. Len(t) \in Nat /\ IsText(t)
  BY TextLines DEF Good, Sane
<1>4. i \in Nat /\ j \in Nat /\ i2 \in Nat /\ j2 \in Nat /\ t[i].is = "server" /\ t[i2].is = "server"
  BY <1>3 DEF Server, Block
<1>5. i2 \notin (i + 1)..e /\ i \notin (i2 + 1)..e2
  BY <1>1, <1>2, <1>4
<1>6. i = i2
  BY <1>1, <1>2, <1>3, <1>4, <1>5
<1>7. j = j2
  BY <1>3, <1>6, BothClose, BlockUnique DEF Server
<1> QED BY <1>6, <1>7

-----------------------------------------------------------------------------
(* One server put in the place of another, or at the end.                  *)

\* The m lines behind line a are a server of T, or they are none at its end.
Hole(T, a, m) ==
  \/ m = 0 /\ a = Len(T)
  \/ Server(T, Scanner, a + 1, a + m)

\* U is T with the text N in the place of those lines.
Swapped(T, U, N, a, m) ==
  /\ Good(T) /\ Sane(U) /\ IsText(N) /\ Matched(N) /\ Tame(N)
  /\ a \in Nat /\ m \in Nat /\ a + m <= Len(T) /\ Hole(T, a, m)
  /\ U = Splice(T, a, m, N)

\* Which line stands where.
LEMMA SwappedLines ==
  ASSUME NEW T, NEW U, NEW N, NEW a, NEW m, Swapped(T, U, N, a, m)
  PROVE  /\ IsText(T) /\ IsText(U) /\ IsText(N) /\ a \in Nat /\ m \in Nat /\ a + m <= Len(T)
         /\ Len(T) \in Nat /\ Len(N) \in Nat /\ Len(U) \in Nat /\ Len(U) = Len(T) - m + Len(N)
         /\ \A k \in 1..a : U[k] = T[k]
         /\ \A k \in 1..Len(N) : U[a + k] = N[k]
         /\ \A k \in (a + m + 1)..Len(T) : U[k - m + Len(N)] = T[k]
<1>1. /\ IsText(T) /\ IsText(U) /\ IsText(N) /\ a \in Nat /\ m \in Nat /\ a + m <= Len(T)
      /\ U = Splice(T, a, m, N)
  BY DEF Swapped, Good, Sane
<1>2. Len(T) \in Nat /\ Len(N) \in Nat /\ Len(U) \in Nat
  BY <1>1, TextLines
<1>3. /\ Len(U) = Len(T) - m + Len(N)
      /\ \A k \in 1..a : U[k] = T[k]
      /\ \A k \in 1..Len(N) : U[a + k] = N[k]
      /\ \A k \in (a + m + 1)..Len(T) : U[k - m + Len(N)] = T[k]
  <2>1. LET V == Splice(T, a, m, N) IN
        /\ IsText(V) /\ Len(V) = Len(T) - m + Len(N)
        /\ \A k \in 1..a : V[k] = T[k]
        /\ \A k \in 1..Len(N) : V[a + k] = N[k]
        /\ \A k \in (a + m + 1)..Len(T) : V[k - m + Len(N)] = T[k]
    BY <1>1, Spliced
  <2> QED BY <1>1, <2>1
<1> QED BY <1>1, <1>2, <1>3

\* As Nginx counts, the level is the same before and behind the change.
LEMMA SwappedLevels ==
  ASSUME NEW T, NEW U, NEW N, NEW a, NEW m, Swapped(T, U, N, a, m)
  PROVE  Even(U, Nginx, a, Len(N)) /\ Depth(T, Nginx, a + m) = Depth(T, Nginx, a)
<1> DEFINE S == Nginx
           A(k) == Depth(T, S, k)
           B(k) == Depth(U, S, k)
           C(k) == Depth(N, S, k)
           n == Len(N)
<1>1. /\ IsText(T) /\ IsText(U) /\ IsText(N) /\ a \in Nat /\ m \in Nat /\ a + m <= Len(T)
      /\ Len(T) \in Nat /\ n \in Nat /\ Len(U) \in Nat /\ Len(U) = Len(T) - m + n
      /\ \A k \in 1..a : U[k] = T[k]
      /\ \A k \in 1..n : U[a + k] = N[k]
      /\ \A k \in (a + m + 1)..Len(T) : U[k - m + n] = T[k]
  BY SwappedLines
<1>2. S \in Counts
  BY BothClose
<1>3. \A k \in Nat : A(k) \in Int /\ B(k) \in Int /\ C(k) \in Int
  BY <1>2, Levels
<1>4. A(Len(T)) = 0 /\ B(Len(U)) = 0 /\ C(n) = 0 /\ \A k \in 0..n : C(k) >= 0
  BY <1>1, MatchedLevels DEF Swapped, Good, Sane
<1> HIDE DEF S, n
<1>5. B(a) = A(a)
  <2>1. \A k \in 1..a : Rise(U, S, k) = Rise(T, S, k)
    BY <1>1 DEF Rise
  <2>2. SameLevels(T, U, S, a)
    BY <2>1, <1>1, <1>2, LevelSame
  <2>3. a \in 0..a
    BY <1>1
  <2> QED BY <2>2, <2>3 DEF SameLevels
<1>6. \A k \in 0..n : B(a + k) - B(a) = C(k)
  <2>1. PICK z \in Nat : z = 0
    OBVIOUS
  <2>2. Alike(N, U, S, a, z, n) /\ a \in Int /\ z + a \in Nat
    <3> SUFFICES ASSUME NEW k \in (z + 1)..n PROVE Rise(U, S, k + a) = Rise(N, S, k)
      BY <1>1 DEF Alike
    <3>1. k \in 1..n /\ k + a = a + k
      BY <2>1, <1>1
    <3>2. U[k + a] = N[k]
      BY <3>1, <1>1
    <3> QED BY <3>2 DEF Rise
  <2>3. Parallel(N, U, S, a, z, n)
    BY <2>2, <1>1, <1>2, LevelCopy
  <2>4. C(0) = 0
    BY <1>2, Levels
  <2> SUFFICES ASSUME NEW k \in 0..n PROVE B(a + k) - B(a) = C(k)
    OBVIOUS
  <2>5. k \in z..n /\ k + a = a + k /\ z + a = a /\ k \in Nat /\ a + k \in Nat
    BY <2>1, <1>1
  <2>6. B(k + a) - B(z + a) = C(k) - C(z)
    BY <2>3, <2>5 DEF Parallel
  <2> HIDE DEF A, B, C
  <2> QED BY <2>1, <2>4, <2>5, <2>6, <1>3
<1>7. B(a + n) - A(a + m) = B(Len(U)) - A(Len(T))
  <2>1. PICK d \in Int : d = n - m
    BY <1>1
  <2>2. PICK h \in Nat : h = a + m
    BY <1>1
  <2>3. PICK l \in Nat : l = Len(T)
    BY <1>1
  <2>4. Alike(T, U, S, d, h, l) /\ h + d \in Nat
    <3> SUFFICES ASSUME NEW k \in (h + 1)..l PROVE Rise(U, S, k + d) = Rise(T, S, k)
      BY <2>1, <2>2, <1>1 DEF Alike
    <3>1. k \in (a + m + 1)..Len(T) /\ k - m + n = k + d
      BY <2>1, <2>2, <2>3, <1>1
    <3>2. U[k + d] = T[k]
      BY <3>1, <1>1
    <3> QED BY <3>2 DEF Rise
  <2>5. Parallel(T, U, S, d, h, l)
    BY <2>4, <1>2, LevelCopy
  <2>6. l \in h..l /\ l + d = Len(U) /\ h + d = a + n
    BY <2>1, <2>2, <2>3, <1>1
  <2>7. B(l + d) - B(h + d) = A(l) - A(h)
    BY <2>5, <2>6 DEF Parallel
  <2>8. l + d \in Nat /\ h + d \in Nat
    BY <2>6, <1>1
  <2> HIDE DEF A, B, C
  <2>9. B(l + d) \in Int /\ B(h + d) \in Int /\ A(l) \in Int /\ A(h) \in Int
    BY <2>8, <1>3
  <2> QED BY <2>2, <2>3, <2>6, <2>7, <2>9
<1> HIDE DEF A, B, C
<1>8. B(a + n) = B(a) /\ \A k \in a..(a + n) : B(k) >= B(a)
  <2>1. n \in 0..n
    BY <1>1
  <2>2. B(a + n) \in Int /\ B(a) \in Int
    BY <1>1, <1>3
  <2>3. B(a + n) = B(a)
    BY <2>1, <2>2, <1>4, <1>6
  <2>4. ASSUME NEW k \in a..(a + n) PROVE B(k) >= B(a)
    <3>1. k - a \in 0..n /\ a + (k - a) = k /\ k \in Nat /\ k - a \in Nat
      BY <1>1
    <3>2. B(k) - B(a) = C(k - a) /\ C(k - a) >= 0 /\ B(k) \in Int
      BY <3>1, <1>3, <1>4, <1>6
    <3>3. C(k - a) \in Int
      BY <3>1, <1>3
    <3> QED BY <3>2, <3>3, <2>2
  <2> QED BY <2>3, <2>4
<1>9. A(a + m) = A(a)
  <2>1. A(a + m) \in Int /\ B(a + n) \in Int
    BY <1>1, <1>3
  <2> QED BY <2>1, <1>4, <1>5, <1>7, <1>8
<1> QED BY <1>8, <1>9 DEF Even, A, B, S, n

\* The range that is taken out is a server as Nginx reads it.
LEMMA HoleIsServer ==
  ASSUME NEW T, NEW U, NEW N, NEW a, NEW m, Swapped(T, U, N, a, m)
  PROVE  /\ Even(T, Nginx, a, m)
         /\ m # 0 => /\ Server(T, Nginx, a + 1, a + m)
                     /\ \A k \in (a + 2)..(a + m) : T[k].is \notin {"server", "http"}
<1>1. /\ IsText(T) /\ a \in Nat /\ m \in Nat /\ a + m <= Len(T) /\ Len(T) \in Nat
  BY SwappedLines
<1>2. Depth(T, Nginx, a + m) = Depth(T, Nginx, a)
  BY SwappedLevels
<1>3. Good(T) /\ Hole(T, a, m)
  BY DEF Swapped
<1>4. \A k \in Nat : Depth(T, Nginx, k) \in Int
  BY BothClose, Levels
<1>5. CASE m = 0
  <2>1. \A k \in a..(a + m) : k = a
    BY <1>1, <1>5
  <2>2. Depth(T, Nginx, a) \in Int
    BY <1>1, <1>4
  <2> QED BY <2>1, <2>2, <1>2, <1>5 DEF Even
<1>6. CASE m # 0
  <2>1. Server(T, Scanner, a + 1, a + m)
    BY <1>3, <1>6 DEF Hole
  <2>2. PICK e \in 1..Len(T) : /\ Server(T, Nginx, a + 1, e) /\ a + m <= e
                               /\ \A k \in ((a + 1) + 1)..e : T[k].is \notin {"server", "http"}
    BY <2>1, <1>3, RangeInServer
  <2>3. (a + 1) + 1 = a + 2 /\ (a + 1) - 1 = a /\ a + m \in Nat /\ a + 1 < a + m
    BY <2>1, <1>1 DEF Server, Block
  <2>4. \A k \in (a + 1)..(e - 1) : Depth(T, Nginx, k) > Depth(T, Nginx, a)
    BY <2>2, <2>3 DEF Server, Block
  <2>5. a + m \notin (a + 1)..(e - 1)
    BY <2>3, <2>4, <1>1, <1>2, <1>4
  <2>6. e = a + m
    BY <2>2, <2>3, <2>5, <1>1
  <2>7. ASSUME NEW k \in a..(a + m) PROVE Depth(T, Nginx, k) >= Depth(T, Nginx, a)
    <3>1. k \in Nat /\ (k = a \/ k = a + m \/ k \in (a + 1)..(e - 1))
      BY <2>6, <1>1
    <3>2. Depth(T, Nginx, k) \in Int /\ Depth(T, Nginx, a) \in Int
      BY <3>1, <1>1, <1>4
    <3>3. Depth(T, Nginx, k) = Depth(T, Nginx, a) \/ Depth(T, Nginx, k) > Depth(T, Nginx, a)
      BY <3>1, <2>4, <1>2
    <3> QED BY <3>2, <3>3
  <2> QED BY <2>2, <2>3, <2>6, <2>7, <1>2 DEF Even
<1> QED BY <1>5, <1>6

\* Every other server stands above it or below it.
LEMMA BesideHole ==
  ASSUME NEW T, NEW U, NEW N, NEW a, NEW m, Swapped(T, U, N, a, m),
         NEW i, NEW j, Server(T, Nginx, i, j), i \notin (a + 1)..(a + m)
  PROVE  j <= a \/ a + m < i
<1>1. /\ IsText(T) /\ a \in Nat /\ m \in Nat /\ a + m <= Len(T) /\ Len(T) \in Nat
  BY SwappedLines
<1>2. Good(T) /\ Hole(T, a, m) /\ Alone(T)
  BY DEF Swapped, Good, Sane
<1>3. i \in Nat /\ j \in Nat /\ j <= Len(T) /\ i < j
  BY <1>1 DEF Server, Block
<1>4. SUFFICES ASSUME i <= a, a < j PROVE FALSE
  BY <1>1, <1>3
<1>5. Server(T, Scanner, a + 1, a + m)
  BY <1>1, <1>2, <1>3, <1>4 DEF Hole
<1>6. T[a + 1].is = "server" /\ T[j].is = "close"
  BY <1>1, <1>5, BothClose, BlockEnd DEF Server
<1>7. a + 1 \in (i + 1)..(j - 1)
  BY <1>1, <1>3, <1>4, <1>6
<1> QED BY <1>2, <1>6, <1>7 DEF Alone

\* How far it moves.
Move(a, m, n, i) == IF i <= a THEN 0 ELSE n - m

\* The server from line i to line j of t stands in u, d lines below.
Stands(t, u, counted, i, j, d) ==
  Server(u, counted, i + d, j + d) /\ \A k \in i..j : u[k + d] = t[k]

\* A server beside the hole stands in the changed file.
LEMMA ServerStays ==
  ASSUME NEW T, NEW U, NEW N, NEW a, NEW m, Swapped(T, U, N, a, m), NEW counted \in Counts,
         NEW i, NEW j, Server(T, counted, i, j), i \notin (a + 1)..(a + m)
  PROVE  /\ Stands(T, U, counted, i, j, Move(a, m, Len(N), i))
         /\ Move(a, m, Len(N), i) \in Int
         /\ i + Move(a, m, Len(N), i) \notin (a + 1)..(a + Len(N))
<1> DEFINE n == Len(N)
           d == Move(a, m, n, i)
<1>1. /\ IsText(T) /\ IsText(U) /\ a \in Nat /\ m \in Nat /\ a + m <= Len(T)
      /\ Len(T) \in Nat /\ n \in Nat /\ Len(U) \in Nat /\ Len(U) = Len(T) - m + n
      /\ \A k \in 1..a : U[k] = T[k]
      /\ \A k \in (a + m + 1)..Len(T) : U[k - m + n] = T[k]
  BY SwappedLines
<1>2. i \in Nat \ {0} /\ j \in Nat /\ j <= Len(T) /\ i < j
  BY <1>1 DEF Server, Block
<1>3. j <= a \/ a + m < i
  <2>1. CASE counted = Nginx
    BY <2>1, BesideHole
  <2>2. CASE counted = Scanner
    <3>1. Good(T)
      BY DEF Swapped
    <3>2. PICK e \in 1..Len(T) : Server(T, Nginx, i, e) /\ j <= e
      BY <2>2, <3>1, RangeInServer
    <3>3. e <= a \/ a + m < i
      BY <3>2, BesideHole
    <3> QED BY <3>2, <3>3, <1>1, <1>2
  <2> QED BY <2>1, <2>2 DEF Counts
<1> HIDE DEF n
<1>4. d \in Int /\ i + d >= 1 /\ j + d <= Len(U) /\ i + d \notin (a + 1)..(a + n)
  BY <1>1, <1>2, <1>3 DEF Move
<1>5. ASSUME NEW k \in i..j PROVE U[k + d] = T[k]
  <2>1. CASE j <= a
    <3>1. k \in 1..a /\ d = 0 /\ k + 0 = k
      BY <2>1, <1>1, <1>2 DEF Move
    <3> QED BY <3>1, <1>1
  <2>2. CASE a + m < i
    <3>1. k \in (a + m + 1)..Len(T) /\ k + d = k - m + n
      BY <2>2, <1>1, <1>2 DEF Move
    <3> QED BY <3>1, <1>1
  <2> QED BY <2>1, <2>2, <1>3
<1> HIDE DEF d
<1>6. Block(U, counted, i + d, j + d)
  BY <1>1, <1>4, <1>5, BlockCopy DEF Server
<1>7. U[i + d].is = "server"
  BY <1>2, <1>5 DEF Server
<1> QED BY <1>4, <1>5, <1>6, <1>7 DEF Stands, Server, d, n

\* The servers of the new text stand where it is put.
LEMMA NewStands ==
  ASSUME NEW T, NEW U, NEW N, NEW a, NEW m, Swapped(T, U, N, a, m), NEW counted \in Counts,
         NEW i, NEW j, Server(N, counted, i, j)
  PROVE  Stands(N, U, counted, i, j, a)
<1>1. /\ IsText(N) /\ IsText(U) /\ a \in Nat /\ m \in Nat /\ a + m <= Len(T)
      /\ Len(T) \in Nat /\ Len(N) \in Nat /\ Len(U) = Len(T) - m + Len(N)
      /\ \A k \in 1..Len(N) : U[a + k] = N[k]
  BY SwappedLines
<1>2. i \in Nat \ {0} /\ j \in Nat /\ j <= Len(N) /\ i < j
  BY <1>1 DEF Server, Block
<1>3. a \in Int /\ i + a >= 1 /\ j + a <= Len(U)
  BY <1>1, <1>2
<1>4. ASSUME NEW k \in i..j PROVE U[k + a] = N[k]
  <2>1. k \in 1..Len(N) /\ k + a = a + k
    BY <1>1, <1>2
  <2> QED BY <2>1, <1>1
<1>5. Block(U, counted, i + a, j + a)
  BY <1>1, <1>3, <1>4, BlockCopy DEF Server
<1>6. U[i + a].is = "server"
  BY <1>2, <1>4 DEF Server
<1> QED BY <1>4, <1>5, <1>6 DEF Stands, Server

\* Each server of the changed file stood in it before, or stands in the new text.
LEMMA ServerComes ==
  ASSUME NEW T, NEW U, NEW N, NEW a, NEW m, Swapped(T, U, N, a, m), NEW counted \in Counts,
         NEW i, NEW j, Server(U, counted, i, j)
  PROVE  \/ \E g, h : /\ Server(N, counted, g, h) /\ Stands(N, U, counted, g, h, a)
                      /\ i = g + a /\ j = h + a
         \/ \E g, h : LET d == Move(a, m, Len(N), g) IN
              /\ Server(T, counted, g, h) /\ g \notin (a + 1)..(a + m)
              /\ Stands(T, U, counted, g, h, d) /\ i = g + d /\ j = h + d
<1> DEFINE n == Len(N)
<1>1. /\ IsText(T) /\ IsText(U) /\ IsText(N) /\ a \in Nat /\ m \in Nat /\ a + m <= Len(T)
      /\ Len(T) \in Nat /\ n \in Nat /\ Len(U) \in Nat /\ Len(U) = Len(T) - m + n
      /\ \A k \in 1..a : U[k] = T[k]
      /\ \A k \in 1..n : U[a + k] = N[k]
      /\ \A k \in (a + m + 1)..Len(T) : U[k - m + n] = T[k]
  BY SwappedLines
<1>2. Matched(T) /\ Matched(N) /\ Tame(T) /\ Tame(N)
  BY DEF Swapped, Good, Sane
<1>3. i \in Nat \ {0} /\ j \in Nat /\ i <= Len(U) /\ U[i].is = "server"
  BY <1>1 DEF Server, Block
<1> HIDE DEF n
<1>4. CASE i \in (a + 1)..(a + n)
  <2>1. PICK g \in 1..n : i = g + a
    <3>1. i - a \in 1..n /\ i = (i - a) + a
      BY <1>4, <1>1
    <3> QED BY <3>1
  <2>2. U[a + g] = N[g] /\ a + g = i
    BY <2>1, <1>1
  <2>3. N[g].is = "server"
    BY <2>2, <1>3
  <2>4. PICK h : Block(N, counted, g, h)
    <3>1. g \in 1..Len(N)
      BY DEF n
    <3>2. \E e : Block(N, Nginx, g, e) /\ \E l \in (g + 1)..e : Block(N, Scanner, g, l)
      BY <3>1, <2>3, <1>1, <1>2, ServerIsClosed
    <3> QED BY <3>2 DEF Counts
  <2>5. Server(N, counted, g, h)
    BY <2>3, <2>4 DEF Server
  <2>6. Stands(N, U, counted, g, h, a)
    BY <2>5, NewStands
  <2>7. j = h + a
    BY <2>1, <2>6, <1>1, BlockUnique DEF Stands, Server
  <2> QED BY <2>1, <2>5, <2>6, <2>7
<1>5. CASE i \notin (a + 1)..(a + n)
  <2>1. PICK g \in 1..Len(T) : /\ g \notin (a + 1)..(a + m) /\ i = g + Move(a, m, n, g)
                               /\ T[g].is = "server"
    <3>1. CASE i <= a
      <4>1. i \in 1..a /\ i \in 1..Len(T) /\ i = i + Move(a, m, n, i) /\ i \notin (a + 1)..(a + m)
        BY <3>1, <1>1, <1>3 DEF Move
      <4>2. T[i].is = "server"
        BY <4>1, <1>1, <1>3
      <4> QED BY <4>1, <4>2
    <3>2. CASE ~(i <= a)
      <4>0. PICK l \in Nat : l = i - n + m
        BY <3>2, <1>1, <1>3, <1>5
      <4>1. /\ l \in (a + m + 1)..Len(T) /\ l \in 1..Len(T) /\ i = l + Move(a, m, n, l)
            /\ l \notin (a + 1)..(a + m) /\ l - m + n = i
        BY <4>0, <3>2, <1>1, <1>3, <1>5 DEF Move
      <4>2. T[l].is = "server"
        BY <4>1, <1>1, <1>3
      <4> QED BY <4>1, <4>2
    <3> QED BY <3>1, <3>2
  <2>3. PICK h : Block(T, counted, g, h)
    <3>1. \E e : Block(T, Nginx, g, e) /\ \E l \in (g + 1)..e : Block(T, Scanner, g, l)
      BY <2>1, <1>1, <1>2, ServerIsClosed
    <3> QED BY <3>1 DEF Counts
  <2>4. Server(T, counted, g, h)
    BY <2>1, <2>3 DEF Server
  <2>5. Stands(T, U, counted, g, h, Move(a, m, n, g))
    BY <2>1, <2>4, ServerStays DEF n
  <2>6. j = h + Move(a, m, n, g)
    BY <2>1, <2>5, <1>1, BlockUnique DEF Stands, Server
  <2> QED BY <2>1, <2>4, <2>5, <2>6 DEF n
<1> QED BY <1>4, <1>5

\* Where it stands, the level that the program counts changes by the same number.
LEMMA StandsIsTame ==
  ASSUME NEW t, NEW u, IsText(t), IsText(u), Tame(t), NEW i, NEW e, NEW d \in Int,
         Server(t, Nginx, i, e), Stands(t, u, Nginx, i, e, d)
  PROVE  Depth(u, Scanner, e + d) <= Depth(u, Scanner, (i + d) - 1)
<1>1. Len(t) \in Nat /\ Len(u) \in Nat
  BY TextLines
<1>2. i \in Nat \ {0} /\ e \in Nat /\ i < e /\ i + d \in Nat \ {0}
  BY <1>1 DEF Stands, Server, Block
<1>3. PICK h \in Nat : h = i - 1
  BY <1>2
<1>4. h + d \in Nat /\ e \in h..e /\ (i + d) - 1 = h + d /\ e + d \in Nat
  BY <1>2, <1>3
<1>5. Alike(t, u, Scanner, d, h, e)
  BY <1>2, <1>3 DEF Alike, Rise, Stands
<1>6. Parallel(t, u, Scanner, d, h, e)
  BY <1>2, <1>4, <1>5, BothClose, LevelCopy
<1>7. Depth(u, Scanner, e + d) - Depth(u, Scanner, h + d) = Depth(t, Scanner, e) - Depth(t, Scanner, h)
  BY <1>4, <1>6 DEF Parallel
<1>8. Depth(t, Scanner, e) <= Depth(t, Scanner, h)
  BY <1>3 DEF Tame
<1>9. /\ Depth(u, Scanner, e + d) \in Int /\ Depth(u, Scanner, h + d) \in Int
      /\ Depth(t, Scanner, e) \in Int /\ Depth(t, Scanner, h) \in Int
  BY <1>2, <1>4, BothClose, Levels
<1> QED BY <1>4, <1>7, <1>8, <1>9

\* So the changed file is as good as the file was.
LEMMA SwappedIsGood ==
  ASSUME NEW T, NEW U, NEW N, NEW a, NEW m, Swapped(T, U, N, a, m)
  PROVE  Good(U)
<1>1. IsText(T) /\ IsText(U) /\ IsText(N) /\ Tame(T) /\ Tame(N) /\ a \in Int
  BY SwappedLines DEF Swapped, Good
<1>2. SUFFICES ASSUME NEW i, NEW e, Server(U, Nginx, i, e)
               PROVE  Depth(U, Scanner, e) <= Depth(U, Scanner, i - 1)
  BY DEF Swapped, Good, Tame
<1>3. CASE \E g, h : /\ Server(N, Nginx, g, h) /\ Stands(N, U, Nginx, g, h, a)
                     /\ i = g + a /\ e = h + a
  BY <1>1, <1>3, StandsIsTame
<1>4. CASE \E g, h : LET d == Move(a, m, Len(N), g) IN
              /\ Server(T, Nginx, g, h) /\ g \notin (a + 1)..(a + m)
              /\ Stands(T, U, Nginx, g, h, d) /\ i = g + d /\ e = h + d
  <2>1. PICK g, h, d : /\ Server(T, Nginx, g, h) /\ g \notin (a + 1)..(a + m)
                       /\ d = Move(a, m, Len(N), g)
                       /\ Stands(T, U, Nginx, g, h, d) /\ i = g + d /\ e = h + d
    BY <1>4
  <2>2. d \in Int
    BY <2>1, BothClose, ServerStays
  <2> QED BY <2>1, <2>2, <1>1, StandsIsTame
<1> QED BY <1>2, <1>3, <1>4, BothClose, ServerComes

-----------------------------------------------------------------------------
(* What a change keeps.                                                    *)

\* The same is said in the block r of t and in the block q of u.
Same(t, r, u, q) ==
  /\ \A kind : PortsIn(t, r, kind) = PortsIn(u, q, kind)
  /\ \A name : Bears(t, r, name) <=> Bears(u, q, name)

\* Where it stands it says the same.
LEMMA StandsIsSame ==
  ASSUME NEW t, NEW u, NEW counted, NEW i \in Int, NEW j \in Int, NEW d \in Int,
         Stands(t, u, counted, i, j, d)
  PROVE  Same(t, <<i, j>>, u, <<i + d, j + d>>)
<1> DEFINE r == <<i, j>>
           q == <<i + d, j + d>>
<1>1. r[1] = i /\ r[2] = j /\ q[1] = i + d /\ q[2] = j + d
  OBVIOUS
<1> HIDE DEF r, q
<1>2. \A k \in i..j : u[k + d] = t[k] /\ k + d \in (i + d)..(j + d)
  BY DEF Stands
<1>3. ASSUME NEW l \in (i + d)..(j + d)
      PROVE  \E k \in i..j : k + d = l /\ u[l] = t[k]
  <2>1. PICK k \in Int : k = l - d
    OBVIOUS
  <2>2. k \in i..j /\ k + d = l
    BY <2>1
  <2> QED BY <2>2, <1>2
<1>4. ASSUME NEW kind PROVE PortsIn(t, r, kind) = PortsIn(u, q, kind)
  <2>1. ASSUME NEW k \in i..j, t[k].is = kind PROVE t[k].of \in PortsIn(u, q, kind)
    <3>1. k + d \in {l \in q[1]..q[2] : u[l].is = kind} /\ u[k + d].of = t[k].of
      BY <2>1, <1>1, <1>2
    <3> QED BY <3>1 DEF PortsIn
  <2>2. ASSUME NEW l \in (i + d)..(j + d), u[l].is = kind PROVE u[l].of \in PortsIn(t, r, kind)
    <3>1. PICK k \in i..j : k + d = l /\ u[l] = t[k]
      BY <1>3
    <3>2. k \in {x \in r[1]..r[2] : t[x].is = kind} /\ u[l].of = t[k].of
      BY <2>2, <3>1, <1>1
    <3> QED BY <3>2 DEF PortsIn
  <2>3. PortsIn(t, r, kind) \subseteq PortsIn(u, q, kind)
    BY <2>1, <1>1 DEF PortsIn
  <2>4. PortsIn(u, q, kind) \subseteq PortsIn(t, r, kind)
    BY <2>2, <1>1 DEF PortsIn
  <2> QED BY <2>3, <2>4
<1>5. ASSUME NEW name PROVE Bears(t, r, name) <=> Bears(u, q, name)
  <2>1. Bears(t, r, name) => Bears(u, q, name)
    BY <1>1, <1>2 DEF Bears
  <2>2. Bears(u, q, name) => Bears(t, r, name)
    BY <1>1, <1>3 DEF Bears
  <2> QED BY <2>1, <2>2
<1> QED BY <1>4, <1>5 DEF Same, r, q

\* The ranges of a text are its servers, as the program counts braces.
LEMMA RangesAre ==
  ASSUME NEW t, IsText(t)
  PROVE  /\ \A r \in Ranges(t) : /\ r = <<r[1], r[2]>> /\ Server(t, Scanner, r[1], r[2])
                                 /\ r[1] \in Int /\ r[2] \in Int
         /\ \A i, j : Server(t, Scanner, i, j) => <<i, j>> \in Ranges(t)
<1>1. Len(t) \in Nat
  BY TextLines
<1>2. \A r \in Ranges(t) : r = <<r[1], r[2]>> /\ Block(t, Scanner, r[1], r[2]) /\ t[r[1]].is = "server"
  BY BothClose, Blocks DEF Ranges
<1>3. \A i, j : Server(t, Scanner, i, j) => <<i, j>> \in Ranges(t)
  BY BothClose, Blocks DEF Ranges, Server
<1>4. \A i, j : Block(t, Scanner, i, j) => i \in Int /\ j \in Int
  BY <1>1 DEF Block
<1> QED BY <1>2, <1>3, <1>4 DEF Server

\* The hole is a block with this name, or no block has it.
HoleOf(T, a, m, name) ==
  \/ m = 0 /\ a = Len(T) /\ Own(T, name) = {}
  \/ <<a + 1, a + m>> \in Own(T, name)

\* A block without the name is not the hole.
LEMMA NotTheHole ==
  ASSUME NEW T, NEW U, NEW N, NEW a, NEW m, Swapped(T, U, N, a, m),
         NEW name, HoleOf(T, a, m, name), NEW counted \in Counts,
         NEW i, NEW j, Server(T, counted, i, j), ~Bears(T, <<i, j>>, name)
  PROVE  i \notin (a + 1)..(a + m)
<1>1. /\ IsText(T) /\ a \in Nat /\ m \in Nat /\ a + m <= Len(T) /\ Len(T) \in Nat
  BY SwappedLines
<1>2. i \in Nat /\ T[i].is = "server"
  BY <1>1 DEF Server, Block
<1>3. SUFFICES ASSUME i \in (a + 1)..(a + m) PROVE FALSE
  OBVIOUS
<1>4. m # 0
  BY <1>1, <1>3
<1>5. Server(T, Nginx, a + 1, a + m) /\ \A k \in (a + 2)..(a + m) : T[k].is \notin {"server", "http"}
  BY <1>4, HoleIsServer
<1>6. i = a + 1
  BY <1>1, <1>2, <1>3, <1>5
<1>7. <<a + 1, a + m>> \in Ranges(T) /\ Bears(T, <<a + 1, a + m>>, name)
  BY <1>4 DEF HoleOf, Own
<1>8. Server(T, Scanner, a + 1, a + m)
  <2> DEFINE r == <<a + 1, a + m>>
  <2>1. r[1] = a + 1 /\ r[2] = a + m
    OBVIOUS
  <2> HIDE DEF r
  <2>2. r \in Ranges(T)
    BY <1>7 DEF r
  <2> QED BY <2>1, <2>2, <1>1, RangesAre
<1>9. j = a + m
  <2>1. CASE counted = Nginx
    BY <2>1, <1>1, <1>5, <1>6, BothClose, BlockUnique DEF Server
  <2>2. CASE counted = Scanner
    BY <2>2, <1>1, <1>8, <1>6, BothClose, BlockUnique DEF Server
  <2> QED BY <2>1, <2>2 DEF Counts
<1> QED BY <1>6, <1>7, <1>9

\* Ranges without the name are kept.
LEMMA RangesKept ==
  ASSUME NEW T, NEW U, NEW N, NEW a, NEW m, Swapped(T, U, N, a, m),
         NEW name, HoleOf(T, a, m, name), NEW r \in Ranges(T), ~Bears(T, r, name)
  PROVE  \E q \in Ranges(U) : Same(T, r, U, q)
<1>1. IsText(T) /\ IsText(U)
  BY SwappedLines
<1>2. PICK i \in Int, j \in Int : r = <<i, j>> /\ Server(T, Scanner, i, j)
  BY <1>1, RangesAre
<1>3. i \notin (a + 1)..(a + m)
  BY <1>2, BothClose, NotTheHole
<1>4. PICK d \in Int : Stands(T, U, Scanner, i, j, d)
  BY <1>2, <1>3, BothClose, ServerStays
<1>5. Same(T, <<i, j>>, U, <<i + d, j + d>>)
  BY <1>4, StandsIsSame
<1>6. <<i + d, j + d>> \in Ranges(U)
  BY <1>1, <1>4, RangesAre DEF Stands
<1> QED BY <1>2, <1>5, <1>6

\* Blocks without the name are kept as Nginx reads them.
LEMMA StrangersKept ==
  ASSUME NEW T, NEW U, NEW N, NEW a, NEW m, Swapped(T, U, N, a, m),
         NEW name, HoleOf(T, a, m, name)
  PROVE  Strangers(T, name) \subseteq Strangers(U, name)
<1>1. IsText(T) /\ IsText(U) /\ Len(T) \in Nat
  BY SwappedLines
<1> SUFFICES ASSUME NEW x \in Strangers(T, name) PROVE x \in Strangers(U, name)
  OBVIOUS
<1>2. PICK r \in BlocksOf(T, "server", Nginx) :
        /\ \A k \in r[1]..r[2] : T[k] # Line("mark", name)
        /\ x = SubSeq(T, r[1], r[2])
  BY DEF Strangers
<1>3. /\ r = <<r[1], r[2]>> /\ Server(T, Nginx, r[1], r[2])
  BY <1>1, BothClose, Blocks DEF Server
<1>4. PICK i, j : i = r[1] /\ j = r[2]
  OBVIOUS
<1>5. i \in 1..Len(T) /\ j \in 1..Len(T) /\ Server(T, Nginx, i, j)
  BY <1>3, <1>4 DEF Server, Block
<1>6. ~Bears(T, <<i, j>>, name) /\ x = SubSeq(T, i, j)
  <2> DEFINE s == <<i, j>>
  <2>1. s[1] = i /\ s[2] = j
    OBVIOUS
  <2> HIDE DEF s
  <2>2. ~Bears(T, s, name)
    BY <2>1, <1>2, <1>4 DEF Bears
  <2> QED BY <2>2, <1>2, <1>4 DEF s
<1>7. i \notin (a + 1)..(a + m)
  BY <1>5, <1>6, BothClose, NotTheHole
<1>8. PICK d \in Int : Stands(T, U, Nginx, i, j, d)
  BY <1>5, <1>7, BothClose, ServerStays
<1>9. i \in Int /\ j \in Int
  BY <1>1, <1>5
<1> DEFINE q == <<i + d, j + d>>
<1>10. q \in BlocksOf(U, "server", Nginx) /\ q[1] = i + d /\ q[2] = j + d
  BY <1>1, <1>8, BothClose, Blocks DEF Stands, Server
<1>11. \A k \in q[1]..q[2] : U[k] # Line("mark", name)
  <2>1. Same(T, <<i, j>>, U, q)
    BY <1>8, <1>9, StandsIsSame
  <2> HIDE DEF q
  <2>2. ~Bears(U, q, name)
    BY <2>1, <1>6 DEF Same
  <2> QED BY <2>2 DEF Bears
<1> HIDE DEF q
<1>12. SubSeq(U, i + d, j + d) = SubSeq(T, i, j)
  <2> DEFINE S == ToSet(T)
             g == SubSeq(T, i, j)
             h == SubSeq(U, i + d, j + d)
  <2>1. \A k \in i..j : T[k] \in S
    BY <1>1, <1>5, TextLines DEF ToSet
  <2>2. \A k \in (i + d)..(j + d) : U[k] = T[k - d] /\ k - d \in i..j
    <3> SUFFICES ASSUME NEW k \in (i + d)..(j + d) PROVE U[k] = T[k - d] /\ k - d \in i..j
      OBVIOUS
    <3>1. k - d \in i..j /\ (k - d) + d = k
      BY <1>9
    <3> QED BY <3>1, <1>8 DEF Stands
  <2>3. \A k \in (i + d)..(j + d) : U[k] \in S
    BY <2>1, <2>2
  <2> HIDE DEF S
  <2>4. /\ g \in Seq(S) /\ Len(g) = IF i <= j THEN j - i + 1 ELSE 0
        /\ \A k \in 1..(j - i + 1) : g[k] = T[i + k - 1]
    BY <2>1, <1>9, SubSeqProperties
  <2>5. i + d \in Int /\ j + d \in Int
    BY <1>9
  <2>6. /\ h \in Seq(S) /\ Len(h) = IF i + d <= j + d THEN (j + d) - (i + d) + 1 ELSE 0
        /\ \A k \in 1..((j + d) - (i + d) + 1) : h[k] = U[(i + d) + k - 1]
    BY <2>3, <2>5, SubSeqProperties
  <2>7. i < j
    BY <1>5 DEF Server, Block
  <2> HIDE DEF g, h
  <2>8. Len(g) = j - i + 1 /\ Len(h) = j - i + 1
    BY <2>4, <2>6, <2>7, <1>9
  <2>9. ASSUME NEW k \in 1..Len(h) PROVE h[k] = g[k]
    <3>1. k \in 1..(j - i + 1) /\ k \in 1..((j + d) - (i + d) + 1)
          /\ (i + d) + k - 1 \in (i + d)..(j + d) /\ ((i + d) + k - 1) - d = i + k - 1
      BY <2>8, <1>9
    <3>2. h[k] = U[(i + d) + k - 1] /\ g[k] = T[i + k - 1]
      BY <3>1, <2>4, <2>6
    <3> QED BY <3>1, <3>2, <2>2
  <2>10. h = g
    BY <2>4, <2>6, <2>8, <2>9, SeqEqual
  <2> QED BY <2>10 DEF g, h
<1> QED BY <1>6, <1>10, <1>11, <1>12 DEF Strangers

\* The include rules of a main file.
Rules(lines) ==
  Direct(lines) \cup UNION {Direct(SubSeq(lines, r[1] + 1, r[2] - 1)) :
                              r \in BlocksOf(lines, "http", Nginx)}

\* A rule at this line, where the level is this.
RuleAt(t, k, level, x) ==
  /\ k \in 1..Len(t) /\ t[k].is = "include" /\ t[k].of = x
  /\ Depth(t, Nginx, k) = level

\* Include rules outside of every block.
LEMMA DirectRules ==
  ASSUME NEW t, IsText(t), NEW x
  PROVE  x \in Direct(t) <=> \E k : RuleAt(t, k, 0, x)
<1>1. DOMAIN t = 1..Len(t)
  BY TextLines
<1> QED BY <1>1 DEF Direct, RuleAt

\* A part of a text is a text, and its levels are those of the text, less the first.
LEMMA PartOfText ==
  ASSUME NEW t, IsText(t), NEW i \in Nat, NEW j \in Nat, i <= j, j <= Len(t)
  PROVE  LET s == SubSeq(t, i + 1, j) IN
         /\ IsText(s) /\ Len(s) = j - i
         /\ \A k \in 1..(j - i) : s[k] = t[i + k]
         /\ \A k \in 0..(j - i) : Depth(s, Nginx, k)
                                    = Depth(t, Nginx, i + k) - Depth(t, Nginx, i)
<1> DEFINE s == SubSeq(t, i + 1, j)
           S == ToSet(t)
           n == j - i
<1>1. Len(t) \in Nat /\ \A k \in 1..Len(t) : t[k] \in S /\ IsLine(t[k])
  BY TextLines DEF ToSet
<1>2. n \in Nat /\ i + 1 \in Int /\ j \in Int
  OBVIOUS
<1> HIDE DEF S
<1>3. \A k \in (i + 1)..j : t[k] \in S
  BY <1>1
<1>4. /\ s \in Seq(S) /\ Len(s) = IF i + 1 <= j THEN j - (i + 1) + 1 ELSE 0
      /\ \A k \in 1..(j - (i + 1) + 1) : s[k] = t[(i + 1) + k - 1]
  BY <1>2, <1>3, SubSeqProperties
<1> HIDE DEF s
<1>5. Len(s) = n
  BY <1>4
<1>6. ASSUME NEW k \in 1..n PROVE s[k] = t[i + k]
  <2>1. k \in 1..(j - (i + 1) + 1) /\ (i + 1) + k - 1 = i + k
    OBVIOUS
  <2> QED BY <2>1, <1>4
<1>7. s = [k \in 1..n |-> s[k]]
  BY <1>4, <1>5, LenProperties
<1>8. \A k \in 1..n : IsLine(s[k])
  BY <1>1, <1>6
<1>9. IsText(s)
  BY <1>2, <1>7, <1>8, MadeOfLines
<1>10. \A k \in 0..n : Depth(s, Nginx, k) = Depth(t, Nginx, i + k) - Depth(t, Nginx, i)
  <2>1. PICK z \in Nat : z = 0
    OBVIOUS
  <2>2. Alike(s, t, Nginx, i, z, n) /\ i \in Int /\ z + i \in Nat
    <3> SUFFICES ASSUME NEW k \in (z + 1)..n PROVE Rise(t, Nginx, k + i) = Rise(s, Nginx, k)
      BY DEF Alike
    <3>1. k \in 1..n /\ k + i = i + k
      BY <2>1
    <3>2. t[k + i] = s[k]
      BY <3>1, <1>6
    <3> QED BY <3>2 DEF Rise
  <2> HIDE DEF n
  <2>3. Parallel(s, t, Nginx, i, z, n)
    BY <2>2, <1>2, BothClose, LevelCopy
  <2> SUFFICES ASSUME NEW k \in 0..n
               PROVE  Depth(s, Nginx, k) = Depth(t, Nginx, i + k) - Depth(t, Nginx, i)
    OBVIOUS
  <2>4. k \in z..n /\ k + i = i + k /\ z + i = i /\ k \in Nat /\ i + k \in Nat
    BY <2>1, <1>2
  <2>5. Depth(t, Nginx, i + k) - Depth(t, Nginx, i)
          = Depth(s, Nginx, k) - Depth(s, Nginx, 0)
    BY <2>1, <2>3, <2>4 DEF Parallel
  <2>6. Depth(s, Nginx, 0) = 0 /\ Depth(s, Nginx, k) \in Int
    BY <2>4, BothClose, Levels
  <2> QED BY <2>5, <2>6
<1> QED BY <1>5, <1>6, <1>9, <1>10 DEF s, n

\* The rules directly in a block are those at the level of its first line.
LEMMA RulesInBlock ==
  ASSUME NEW t, IsText(t), NEW i, NEW j, Block(t, Nginx, i, j), NEW x
  PROVE  x \in Direct(SubSeq(t, i + 1, j - 1))
           <=> \E k \in (i + 1)..(j - 1) : RuleAt(t, k, Depth(t, Nginx, i), x)
<1> DEFINE s == SubSeq(t, i + 1, j - 1)
           l == Depth(t, Nginx, i)
           n == (j - 1) - i
<1>1. /\ Len(t) \in Nat /\ i \in Nat /\ j - 1 \in Nat /\ i <= j - 1 /\ j - 1 <= Len(t) /\ j \in Nat
      /\ n \in Nat
  BY TextLines DEF Block
<1>2. /\ IsText(s) /\ Len(s) = n
      /\ \A k \in 1..n : s[k] = t[i + k]
      /\ \A k \in 0..n : Depth(s, Nginx, k)
                                 = Depth(t, Nginx, i + k) - Depth(t, Nginx, i)
  BY <1>1, PartOfText
<1>3. l \in Int /\ \A k \in Nat : Depth(t, Nginx, k) \in Int
  BY <1>1, BothClose, Levels
<1> HIDE DEF s, l
<1>4. ASSUME NEW k \in 1..n
      PROVE  /\ RuleAt(s, k, 0, x) <=> RuleAt(t, i + k, l, x)
             /\ i + k \in (i + 1)..(j - 1)
  <2>1. i + k \in 1..Len(t) /\ k \in 0..n /\ k \in 1..Len(s) /\ i + k \in Nat
    BY <1>1, <1>2
  <2>2. s[k] = t[i + k]
    BY <1>2
  <2>3. Depth(s, Nginx, k) = 0 <=> Depth(t, Nginx, i + k) = l
    BY <2>1, <1>2, <1>3 DEF l
  <2>4. RuleAt(s, k, 0, x) <=> RuleAt(t, i + k, l, x)
    BY <2>1, <2>2, <2>3 DEF RuleAt
  <2>5. i + k \in (i + 1)..(j - 1)
    BY <1>1
  <2> QED BY <2>4, <2>5
<1>5. ASSUME NEW k, RuleAt(s, k, 0, x)
      PROVE  \E h \in (i + 1)..(j - 1) : RuleAt(t, h, l, x)
  <2>1. k \in 1..n
    BY <1>2, <1>5 DEF RuleAt
  <2> QED BY <2>1, <1>4, <1>5
<1>6. ASSUME NEW h \in (i + 1)..(j - 1), RuleAt(t, h, l, x)
      PROVE  \E k : RuleAt(s, k, 0, x)
  <2>1. h - i \in 1..n /\ i + (h - i) = h
    BY <1>1
  <2> QED BY <2>1, <1>4, <1>6
<1>7. x \in Direct(s) <=> \E k : RuleAt(s, k, 0, x)
  BY <1>2, DirectRules
<1> QED BY <1>5, <1>6, <1>7 DEF s, l

\* Of a main file a change keeps the rules.
LEMMA RulesKept ==
  ASSUME NEW T, NEW U, NEW N, NEW a, NEW m, Swapped(T, U, N, a, m)
  PROVE  Rules(T) \subseteq Rules(U)
<1> DEFINE S == Nginx
           n == Len(N)
           sh(k) == Shift(a, m, n, k)
<1>1. /\ IsText(T) /\ IsText(U) /\ a \in Nat /\ m \in Nat /\ a + m <= Len(T)
      /\ Len(T) \in Nat /\ n \in Nat /\ Len(U) \in Nat /\ Len(U) = Len(T) - m + n
      /\ \A k \in 1..a : U[k] = T[k]
      /\ \A k \in (a + m + 1)..Len(T) : U[k - m + n] = T[k]
  BY SwappedLines
<1>2. Even(T, S, a, m) /\ Even(U, S, a, n) /\ S \in Counts
  BY HoleIsServer, SwappedLevels, BothClose
<1>3. SameAround(T, U, S, a, m, n)
  BY <1>1, <1>2, AroundLevels
<1>4. \A k \in Nat : Depth(T, S, k) \in Int /\ Depth(U, S, k) \in Int
  BY <1>2, Levels
<1>5. ASSUME NEW k \in 1..Len(T), k \notin (a + 1)..(a + m)
      PROVE  /\ sh(k) \in 1..Len(U) /\ U[sh(k)] = T[k] /\ Depth(U, S, sh(k)) = Depth(T, S, k)
  <2>1. CASE k <= a
    <3>1. sh(k) = k /\ k \in 1..a /\ k \in 0..a /\ k \in 1..Len(U)
      BY <2>1, <1>1 DEF Shift
    <3> HIDE DEF sh
    <3> QED BY <3>1, <1>1, <1>3 DEF SameAround
  <2>2. CASE k > a + m
    <3>1. /\ sh(k) = k - m + n /\ k \in (a + m + 1)..Len(T) /\ k \in (a + m)..Len(T)
          /\ k - m + n \in 1..Len(U)
      BY <2>2, <1>1, <1>5 DEF Shift
    <3> HIDE DEF sh
    <3> QED BY <3>1, <1>1, <1>3 DEF SameAround
  <2> QED BY <2>1, <2>2, <1>1, <1>5
<1>6. ASSUME NEW k \in (a + 1)..(a + m), T[k].is = "include"
      PROVE  Depth(T, S, k) > Depth(T, S, a)
  <2>1. m # 0 /\ a + m \in 1..Len(T)
    BY <1>1
  <2>2. Server(T, S, a + 1, a + m)
    BY <2>1, HoleIsServer
  <2>3. T[a + m].is = "close"
    BY <2>2, <1>1, <1>2, BothClose, BlockEnd DEF Server
  <2>4. k \in (a + 1)..((a + m) - 1) /\ (a + 1) - 1 = a
    BY <2>3, <1>1, <1>6
  <2> QED BY <2>2, <2>4 DEF Server, Block
<1>7. ASSUME NEW k, NEW x, NEW level, RuleAt(T, k, level, x), k \notin (a + 1)..(a + m)
      PROVE  RuleAt(U, sh(k), level, x)
  BY <1>5, <1>7 DEF RuleAt
<1>8. ASSUME NEW x \in Direct(T) PROVE x \in Rules(U)
  <2>1. PICK k : RuleAt(T, k, 0, x)
    BY <1>1, DirectRules
  <2>2. k \notin (a + 1)..(a + m)
    <3>1. SUFFICES ASSUME k \in (a + 1)..(a + m) PROVE FALSE
      OBVIOUS
    <3>2. Depth(T, S, k) > Depth(T, S, a) /\ Depth(T, S, k) = 0
      BY <2>1, <3>1, <1>6 DEF RuleAt
    <3>3. Depth(T, S, a) >= 0 /\ Depth(T, S, a) \in Int
      <4>1. a \in 0..Len(T)
        BY <1>1
      <4> QED BY <4>1, <1>1, <1>4, MatchedLevels DEF Swapped, Good, Sane
    <3> QED BY <3>2, <3>3
  <2>3. RuleAt(U, sh(k), 0, x)
    BY <2>1, <2>2, <1>7
  <2> QED BY <2>3, <1>1, DirectRules DEF Rules
<1>9. ASSUME NEW r \in BlocksOf(T, "http", S), NEW x \in Direct(SubSeq(T, r[1] + 1, r[2] - 1))
      PROVE  x \in Rules(U)
  <2>1. PICK i, j : i = r[1] /\ j = r[2]
    OBVIOUS
  <2>2. Block(T, S, i, j) /\ T[i].is = "http"
    BY <2>1, <1>1, <1>2, BothClose, Blocks
  <2>3. /\ i \in 1..Len(T) /\ i \in Nat /\ j \in Nat /\ j <= Len(T) /\ i < j /\ i - 1 \in Nat
        /\ \A k \in i..(j - 1) : Depth(T, S, k) > Depth(T, S, i - 1)
    BY <2>2, <1>1 DEF Block
  <2>4. PICK k \in (i + 1)..(j - 1) : RuleAt(T, k, Depth(T, S, i), x)
    BY <2>1, <2>2, <1>1, RulesInBlock
  <2>5. i \notin (a + 1)..(a + m)
    <3>1. SUFFICES ASSUME i \in (a + 1)..(a + m) PROVE FALSE
      OBVIOUS
    <3>2. m # 0
      BY <3>1, <1>1
    <3>3. Server(T, S, a + 1, a + m) /\ \A l \in (a + 2)..(a + m) : T[l].is \notin {"server", "http"}
      BY <3>2, HoleIsServer
    <3>4. i = a + 1
      BY <3>1, <3>3, <2>2, <1>1
    <3> QED BY <3>3, <3>4, <2>2 DEF Server
  <2>6. k \notin (a + 1)..(a + m)
    <3>1. SUFFICES ASSUME k \in (a + 1)..(a + m) PROVE FALSE
      OBVIOUS
    <3>2. T[k].is = "include" /\ Depth(T, S, k) = Depth(T, S, i)
      BY <2>4 DEF RuleAt
    <3>3. Depth(T, S, k) > Depth(T, S, a)
      BY <3>1, <3>2, <1>6
    <3>4. a \in i..(j - 1)
      BY <3>1, <2>3, <2>5, <1>1
    <3>5. Depth(T, S, i) = Depth(T, S, i - 1) + 1
      <4>1. Depth(T, S, i) = Depth(T, S, i - 1) + Rise(T, S, i)
        <5>1. i \in Nat \ {0}
          BY <2>3, <1>1
        <5> QED BY <5>1, <1>2, Levels
      <4>2. Rise(T, S, i) = 1
        BY <2>2, BothClose DEF Rise
      <4> QED BY <4>1, <4>2
    <3>6. Depth(T, S, a) > Depth(T, S, i - 1)
      BY <3>4, <2>3
    <3>7. Depth(T, S, a) \in Int /\ Depth(T, S, i - 1) \in Int
      BY <1>1, <1>4, <2>3
    <3> QED BY <3>2, <3>3, <3>5, <3>6, <3>7
  <2>7. Block(U, S, sh(i), sh(j)) /\ U[sh(i)].is = "http" /\ j \notin (a + 1)..(a + m)
    BY <2>2, <2>3, <2>5, <1>1, <1>2, <1>5, BlockAround
  <2>8. RuleAt(U, sh(k), Depth(U, S, sh(i)), x)
    BY <2>3, <2>4, <2>5, <2>6, <1>5, <1>7
  <2>9. sh(k) \in (sh(i) + 1)..(sh(j) - 1)
    BY <2>3, <2>5, <2>6, <2>7, <1>1 DEF Shift
  <2> DEFINE q == <<sh(i), sh(j)>>
  <2>10. q \in BlocksOf(U, "http", S) /\ q[1] = sh(i) /\ q[2] = sh(j)
    BY <2>7, <1>1, <1>2, BothClose, Blocks
  <2>11. x \in Direct(SubSeq(U, sh(i) + 1, sh(j) - 1))
    BY <2>7, <2>8, <2>9, <1>1, RulesInBlock
  <2> HIDE DEF q, sh
  <2> QED BY <2>10, <2>11 DEF Rules
<1> QED BY <1>8, <1>9 DEF Rules

-----------------------------------------------------------------------------
(* What replaces and removes blocks.                                       *)

\* How many of these lines stand at line k or above it.
Upto(K, k) == {l \in K : l <= k}

\* The j-th of some lines is one of them, and each is the one whose place it has.
LEMMA NthIs ==
  ASSUME NEW n \in Nat, NEW K \in SUBSET (1..n)
  PROVE  /\ Cardinality(K) \in Nat
         /\ \A j \in 1..Cardinality(K) : Nth(K, j) \in K
         /\ \A k \in K : Nth(K, Cardinality(Upto(K, k))) = k
<1> DEFINE C(k) == Cardinality(Upto(K, k))
<1>1. IsFiniteSet(K) /\ Cardinality(K) \in Nat
  <2>1. IsFiniteSet(1..n)
    BY FS_Interval
  <2>2. IsFiniteSet(K)
    BY <2>1, FS_Subset
  <2> QED BY <2>2, FS_CardinalityType
<1>9. \A k \in K : k \in Nat /\ 1 <= k /\ k <= n
  OBVIOUS
<1>2. ASSUME NEW k PROVE IsFiniteSet(Upto(K, k)) /\ C(k) \in Nat
  <2>1. Upto(K, k) \in SUBSET K
    BY DEF Upto
  <2> QED BY <2>1, <1>1, FS_Subset, FS_CardinalityType
<1>3. C(0) = 0
  <2>1. Upto(K, 0) = {}
    <3> SUFFICES ASSUME NEW l \in Upto(K, 0) PROVE FALSE
      OBVIOUS
    <3>1. l \in K /\ l <= 0
      BY DEF Upto
    <3>2. l \in Nat /\ 1 <= l
      BY <3>1, <1>9
    <3> QED BY <3>1, <3>2
  <2> QED BY <2>1, FS_EmptySet
<1>4. C(n) = Cardinality(K)
  <2>1. Upto(K, n) = K
    BY <1>9 DEF Upto
  <2> QED BY <2>1
<1>5. ASSUME NEW k \in Nat
      PROVE  C(k + 1) = IF k + 1 \in K THEN C(k) + 1 ELSE C(k)
  <2>1. /\ k + 1 \in K => Upto(K, k + 1) = Upto(K, k) \cup {k + 1}
        /\ k + 1 \notin K => Upto(K, k + 1) = Upto(K, k)
        /\ k + 1 \notin Upto(K, k)
    <3>1. ASSUME NEW l \in K PROVE l <= k + 1 <=> l <= k \/ l = k + 1
      <4>1. l \in Nat
        BY <1>9
      <4> QED BY <4>1
    <3>2. ~(k + 1 <= k)
      OBVIOUS
    <3>3. PICK c : c = k + 1
      OBVIOUS
    <3>4. /\ \A l \in K : l <= c <=> l <= k \/ l = c
          /\ ~(c <= k)
      BY <3>1, <3>2, <3>3
    <3>5. /\ c \in K => Upto(K, c) = Upto(K, k) \cup {c}
          /\ c \notin K => Upto(K, c) = Upto(K, k)
          /\ c \notin Upto(K, k)
      BY <3>4, Zenon DEF Upto
    <3> QED BY <3>3, <3>5
  <2>2. Cardinality(Upto(K, k) \cup {k + 1}) = C(k) + 1
    BY <2>1, <1>2, FS_AddElement
  <2> QED BY <2>1, <2>2
<1>6. ASSUME NEW k \in K, NEW l \in K, k < l PROVE C(k) < C(l)
  <2>1. Upto(K, k) \cup {l} \subseteq Upto(K, l) /\ l \notin Upto(K, k)
    <3>1. k \in Nat /\ l \in Nat
      BY <1>9
    <3>2. ASSUME NEW x \in K, x <= k PROVE x <= l
      <4>1. x \in Nat
        BY <1>9
      <4> QED BY <4>1, <3>1, <3>2, <1>6
    <3>3. l <= l /\ ~(l <= k)
      BY <3>1, <1>6
    <3> QED BY <3>2, <3>3, Zenon DEF Upto
  <2>2. Cardinality(Upto(K, k) \cup {l}) = C(k) + 1
    BY <2>1, <1>2, FS_AddElement
  <2>3. Cardinality(Upto(K, k) \cup {l}) <= C(l)
    BY <2>1, <1>2, FS_Subset
  <2> QED BY <2>2, <2>3, <1>2
<1>7. \A k : C(k) \in Nat
  BY <1>2
<1> HIDE DEF C
<1>8. ASSUME NEW j \in 1..Cardinality(K) PROVE \E k \in K : C(k) = j
  <2> DEFINE M == {k \in 0..n : C(k) >= j}
  <2>1. M \subseteq Nat /\ n \in M
    BY <1>1, <1>4
  <2>2. PICK k \in M : \A l \in M : k <= l
    BY <2>1, Least
  <2>3. k # 0
    BY <2>2, <1>1, <1>3
  <2>4. k - 1 \in Nat /\ (k - 1) + 1 = k /\ k - 1 \in 0..n /\ k - 1 \notin M
    BY <2>2, <2>3
  <2>5. C(k - 1) < j /\ C(k) >= j
    BY <2>2, <2>4, <1>1, <1>7
  <2>6. C(k) = IF k \in K THEN C(k - 1) + 1 ELSE C(k - 1)
    BY <2>4, <1>5
  <2>7. C(k - 1) \in Nat /\ C(k) \in Nat /\ j \in Nat
    BY <1>1, <1>7, <2>2, <2>4
  <2>8. k \in K /\ C(k) = j
    BY <2>5, <2>6, <2>7
  <2> QED BY <2>8
<1>10. \A k, l \in K : C(k) = C(l) => k = l
  BY <1>6, <1>7, <1>9
<1>11. \A j : Nth(K, j) = CHOOSE k \in K : C(k) = j
  BY DEF Nth, C, Upto
<1>12. \A j \in 1..Cardinality(K) : Nth(K, j) \in K
  BY <1>8, <1>11
<1>13. \A k \in K : Nth(K, C(k)) = k
  BY <1>10, <1>11
<1> QED BY <1>1, <1>12, <1>13 DEF C

\* No lines are a text as well.
LEMMA EmptyText ==
  IsText(<<>>) /\ Len(<<>>) = 0 /\ Matched(<<>>)
<1>1. IsText(<<>>) /\ Len(<<>>) = 0 /\ DOMAIN <<>> = {}
  BY EmptySeq DEF IsText, ToSet
<1>2. Depth(<<>>, Nginx, 0) = 0
  BY BothClose, Levels
<1>3. \A k \in 0..0 : k = 0
  OBVIOUS
<1> QED BY <1>1, <1>2, <1>3, MatchedLevels

\* Own blocks stand in the text.
LEMMA OwnIs ==
  ASSUME NEW t, IsText(t), NEW name, NEW r \in Own(t, name)
  PROVE  /\ r \in Ranges(t) /\ Bears(t, r, name) /\ r = <<r[1], r[2]>>
         /\ r[1] \in 1..Len(t) /\ r[2] \in 1..Len(t) /\ r[1] < r[2] /\ Len(t) \in Nat
         /\ Server(t, Scanner, r[1], r[2])
<1>1. r \in Ranges(t) /\ Bears(t, r, name)
  BY DEF Own
<1>2. r = <<r[1], r[2]>> /\ Server(t, Scanner, r[1], r[2])
  BY <1>1, RangesAre
<1>3. Len(t) \in Nat
  BY TextLines
<1> QED BY <1>1, <1>2, <1>3 DEF Server, Block

\* The first of the own blocks is one of them.
LEMMA FirstIs ==
  ASSUME NEW t, IsText(t), NEW name, Own(t, name) # {}
  PROVE  First(Own(t, name)) \in Own(t, name)
<1> DEFINE own == Own(t, name)
           N == {r[1] : r \in own}
<1>1. \A r \in own : r[1] \in Nat
  BY OwnIs
<1> HIDE DEF own
<1>2. N \subseteq Nat /\ N # {}
  BY <1>1 DEF own
<1>3. \E n \in N : \A m \in N : n <= m
  BY <1>2, Least
<1>4. PICK r \in own : \A q \in own : r[1] <= q[1]
  BY <1>3
<1> QED BY <1>4 DEF First, own

\* What is removed leaves a text.
LEMMA RemovedText ==
  ASSUME NEW t, IsText(t), NEW name
  PROVE  IsText(RemoveBlocks(t, name))
<1> DEFINE own == Own(t, name)
           kept == {k \in DOMAIN t :
             \A r \in own : k \in r[1]..r[2] => \E q \in own : r[1] < q[1] /\ q[2] < k}
           n == Cardinality(kept)
           u == RemoveBlocks(t, name)
<1>1. Len(t) \in Nat /\ DOMAIN t = 1..Len(t) /\ \A k \in 1..Len(t) : IsLine(t[k])
  BY TextLines
<1>2. u = [j \in 1..n |-> t[Nth(kept, j)]]
  BY DEF RemoveBlocks
<1>3. kept \in SUBSET (1..Len(t))
  BY <1>1
<1> HIDE DEF kept, u
<1>4. n \in Nat /\ \A j \in 1..n : Nth(kept, j) \in kept
  BY <1>1, <1>3, NthIs
<1> HIDE DEF n
<1>5. u = [j \in 1..n |-> u[j]] /\ \A j \in 1..n : u[j] = t[Nth(kept, j)]
  BY <1>2
<1>6. \A j \in 1..n : IsLine(u[j])
  BY <1>1, <1>3, <1>4, <1>5
<1> QED BY <1>4, <1>5, <1>6, MadeOfLines DEF u

\* What replaces a block, or comes at the end, makes a text.
LEMMA ReplacedText ==
  ASSUME NEW t, IsText(t), NEW N, IsText(N), NEW name
  PROVE  IsText(ReplaceOrAppend(t, name, N))
<1>1. Len(t) \in Nat
  BY TextLines
<1>2. CASE Own(t, name) = {}
  <2>1. ReplaceOrAppend(t, name, N) = t \o N
    BY <1>2 DEF ReplaceOrAppend
  <2>2. t \in Seq(ToSet(t)) /\ N \in Seq(ToSet(N))
    BY DEF IsText
  <2> DEFINE S == {line \in ToSet(t) \cup ToSet(N) : IsLine(line)}
  <2>3. ToSet(t) \subseteq S /\ ToSet(N) \subseteq S
    BY DEF IsText, IsLine
  <2> HIDE DEF S
  <2>4. /\ Len(t) \in Nat /\ t = [k \in 1..Len(t) |-> t[k]] /\ \A k \in 1..Len(t) : t[k] \in S
        /\ Len(N) \in Nat /\ N = [k \in 1..Len(N) |-> N[k]] /\ \A k \in 1..Len(N) : N[k] \in S
    BY <2>2, <2>3, TextLines, ElementOfSeq
  <2>5. t \in [1..Len(t) -> S] /\ N \in [1..Len(N) -> S]
    BY <2>4
  <2>6. t \in Seq(S) /\ N \in Seq(S)
    BY <2>4, <2>5
  <2>7. t \o N \in Seq(S)
    BY <2>6, ConcatProperties
  <2> DEFINE u == t \o N
  <2> HIDE DEF u
  <2>8. /\ Len(u) \in Nat /\ u = [k \in 1..Len(u) |-> u[k]] /\ \A k \in 1..Len(u) : u[k] \in S
    BY <2>7, LenProperties, ElementOfSeq DEF u
  <2>9. \A k \in 1..Len(u) : IsLine(u[k])
    BY <2>8 DEF S
  <2> QED BY <2>1, <2>8, <2>9, MadeOfLines DEF u
<1>3. CASE Own(t, name) # {}
  <2>1. PICK r \in Own(t, name) : r = First(Own(t, name))
    BY <1>3, FirstIs
  <2>2. /\ r[1] \in 1..Len(t) /\ r[2] \in 1..Len(t) /\ r[1] < r[2]
    BY OwnIs
  <2>3. PICK a \in Nat, m \in Nat : a = r[1] - 1 /\ a + m = r[2]
    <3>1. r[1] - 1 \in Nat /\ r[2] - (r[1] - 1) \in Nat /\ (r[1] - 1) + (r[2] - (r[1] - 1)) = r[2]
      BY <2>2, <1>1
    <3> QED BY <3>1
  <2>4. ReplaceOrAppend(t, name, N) = SubSeq(t, 1, a) \o N \o SubSeq(t, a + m + 1, Len(t))
    BY <2>1, <2>3, <1>3 DEF ReplaceOrAppend
  <2>5. a + m <= Len(t)
    BY <2>2, <2>3
  <2>6. ReplaceOrAppend(t, name, N) = Splice(t, a, m, N)
    BY <2>4, <2>5, SplicedBetween
  <2> QED BY <2>5, <2>6, Spliced
<1> QED BY <1>2, <1>3

\* At most one block has the name.
One(t, name) == \A r, q \in Own(t, name) : r = q

\* There is a hole then, for what is written under this name.
LEMMA HoleExists ==
  ASSUME NEW t, IsText(t), NEW name
  PROVE  \E a, m \in Nat : a + m <= Len(t) /\ HoleOf(t, a, m, name) /\ Hole(t, a, m)
<1>1. Len(t) \in Nat
  BY TextLines
<1>2. CASE Own(t, name) = {}
  BY <1>1, <1>2 DEF HoleOf, Hole
<1>3. CASE Own(t, name) # {}
  <2>1. PICK r \in Own(t, name) : TRUE
    BY <1>3
  <2>2. /\ r = <<r[1], r[2]>> /\ r[1] \in 1..Len(t) /\ r[2] \in 1..Len(t) /\ r[1] < r[2]
        /\ Server(t, Scanner, r[1], r[2])
    BY OwnIs
  <2>3. PICK a \in Nat, m \in Nat : r[1] = a + 1 /\ r[2] = a + m
    <3>1. /\ r[1] - 1 \in Nat /\ r[2] - (r[1] - 1) \in Nat /\ (r[1] - 1) + 1 = r[1]
          /\ (r[1] - 1) + (r[2] - (r[1] - 1)) = r[2]
      BY <2>2, <1>1
    <3> QED BY <3>1
  <2>4. HoleOf(t, a, m, name) /\ Hole(t, a, m)
    BY <2>1, <2>2, <2>3 DEF HoleOf, Hole
  <2>5. a + m <= Len(t)
    BY <2>2, <2>3, <1>1
  <2> QED BY <2>4, <2>5
<1> QED BY <1>2, <1>3

\* _replace_or_append_project_server_block puts the new text in the hole.
LEMMA ReplacedIsSpliced ==
  ASSUME NEW t, IsText(t), NEW N, IsText(N), NEW name, One(t, name),
         NEW a \in Nat, NEW m \in Nat, a + m <= Len(t), HoleOf(t, a, m, name)
  PROVE  ReplaceOrAppend(t, name, N) = Splice(t, a, m, N)
<1>1. Len(t) \in Nat /\ t = [k \in 1..Len(t) |-> t[k]] /\ Len(N) \in Nat
  BY TextLines
<1>2. CASE Own(t, name) = {}
  <2>1. ReplaceOrAppend(t, name, N) = t \o N
    BY <1>2 DEF ReplaceOrAppend
  <2>2. m = 0 /\ a = Len(t)
    BY <1>2 DEF HoleOf
  <2> DEFINE S == ToSet(t) \cup ToSet(N)
             u == t \o N
             v == Splice(t, a, m, N)
             l == Len(t) + Len(N)
  <2>3. /\ \A k \in 1..Len(t) : t[k] \in S
        /\ N = [k \in 1..Len(N) |-> N[k]] /\ \A k \in 1..Len(N) : N[k] \in S
    BY TextLines DEF ToSet
  <2> HIDE DEF S
  <2>4. t \in [1..Len(t) -> S] /\ N \in [1..Len(N) -> S]
    BY <2>3, <1>1
  <2>5. t \in Seq(S) /\ N \in Seq(S)
    BY <2>4, <1>1
  <2>6. /\ u \in Seq(S) /\ Len(u) = l
        /\ \A k \in 1..l : u[k] = IF k <= Len(t) THEN t[k] ELSE N[k - Len(t)]
    BY <2>5, ConcatProperties
  <2> HIDE DEF u
  <2>7. u = [k \in 1..l |-> u[k]]
    BY <2>6, LenProperties
  <2>8. v = [k \in 1..l |-> IF k <= a THEN t[k] ELSE IF k <= a + Len(N) THEN N[k - a]
                              ELSE t[k - Len(N) + m]]
    BY <2>2, <1>1 DEF Splice
  <2>9. ASSUME NEW k \in 1..l
        PROVE  u[k] = IF k <= a THEN t[k] ELSE IF k <= a + Len(N) THEN N[k - a]
                        ELSE t[k - Len(N) + m]
    <3>1. k <= a + Len(N)
      BY <2>2, <1>1
    <3> QED BY <3>1, <2>2, <2>6
  <2>10. u = v
    BY <2>7, <2>8, <2>9
  <2> QED BY <2>1, <2>10 DEF u, v
<1>3. CASE Own(t, name) # {}
  <2> DEFINE r == <<a + 1, a + m>>
  <2>1. r \in Own(t, name) /\ r[1] - 1 = a /\ r[2] + 1 = a + m + 1
    BY <1>3 DEF HoleOf
  <2> HIDE DEF r
  <2>2. First(Own(t, name)) = r
    BY <2>1, <1>3, FirstIs DEF One
  <2>3. ReplaceOrAppend(t, name, N) = SubSeq(t, 1, a) \o N \o SubSeq(t, a + m + 1, Len(t))
    BY <2>1, <2>2, <1>3 DEF ReplaceOrAppend
  <2> QED BY <2>3, SplicedBetween
<1> QED BY <1>2, <1>3

\* The number of lines up to line l, m lines behind line a left out.
LEMMA CountBeside ==
  ASSUME NEW a \in Nat, NEW m \in Nat, NEW l \in Nat, a + m <= l
  PROVE  Cardinality((1..a) \cup ((a + m + 1)..l)) = l - m
<1> DEFINE A == 1..a
           B == (a + m + 1)..l
<1>1. A \cap B = {}
  OBVIOUS
<1>2. /\ IsFiniteSet(A) /\ Cardinality(A) = IF 1 > a THEN 0 ELSE a - 1 + 1
      /\ IsFiniteSet(B) /\ Cardinality(B) = IF a + m + 1 > l THEN 0 ELSE l - (a + m + 1) + 1
  <2>1. 1 \in Int /\ a \in Int /\ a + m + 1 \in Int /\ l \in Int
    OBVIOUS
  <2> QED BY <2>1, FS_Interval
<1> HIDE DEF A, B
<1>3. Cardinality(A \cup B) = Cardinality(A) + Cardinality(B) - Cardinality({})
  BY <1>1, <1>2, FS_Union
<1>4. Cardinality(A) = a /\ Cardinality(B) = l - a - m /\ Cardinality({}) = 0
  BY <1>2, FS_EmptySet
<1>5. Cardinality(A \cup B) = a + (l - a - m) - 0
  BY <1>3, <1>4
<1> QED BY <1>5 DEF A, B

\* _remove_project_server_blocks puts nothing there.
LEMMA RemovedIsSpliced ==
  ASSUME NEW t, IsText(t), NEW name, One(t, name),
         NEW a \in Nat, NEW m \in Nat, a + m <= Len(t), HoleOf(t, a, m, name)
  PROVE  RemoveBlocks(t, name) = Splice(t, a, m, <<>>)
<1> DEFINE own == Own(t, name)
           kept == {k \in DOMAIN t :
             \A r \in own : k \in r[1]..r[2] => \E q \in own : r[1] < q[1] /\ q[2] < k}
           K == (1..a) \cup ((a + m + 1)..Len(t))
           n == Len(t) - m
<1>1. Len(t) \in Nat /\ DOMAIN t = 1..Len(t) /\ n \in Nat
  BY TextLines
<1>2. kept = K
  <2>1. CASE Own(t, name) = {}
    <3>1. m = 0 /\ a = Len(t)
      BY <2>1 DEF HoleOf
    <3>2. kept = 1..Len(t)
      BY <2>1, <1>1
    <3>3. K = 1..Len(t)
      BY <3>1, <1>1
    <3> QED BY <3>2, <3>3
  <2>2. CASE Own(t, name) # {}
    <3> DEFINE h == <<a + 1, a + m>>
    <3>1. h \in Own(t, name) /\ h[1] = a + 1 /\ h[2] = a + m
      BY <2>2 DEF HoleOf
    <3> HIDE DEF h
    <3>2. \A r \in Own(t, name) : r = h
      BY <3>1 DEF One
    <3>3. kept = {k \in 1..Len(t) : k \notin (a + 1)..(a + m)}
      BY <3>1, <3>2, <1>1
    <3>4. K = {k \in 1..Len(t) : k \notin (a + 1)..(a + m)}
      BY <1>1
    <3> QED BY <3>3, <3>4
  <2> QED BY <2>1, <2>2
<1> HIDE DEF kept
<1>3. ASSUME NEW k \in K
      PROVE  Cardinality(Upto(K, k)) = IF k <= a THEN k ELSE k - m
  <2>0. k \in Nat /\ k \in Int /\ 1 \in Int /\ k >= 1
    BY <1>1
  <2>1. CASE k <= a
    <3>1. Upto(K, k) = 1..k
      BY <2>0, <2>1, <1>1 DEF Upto
    <3>2. Cardinality(1..k) = IF 1 > k THEN 0 ELSE k - 1 + 1
      BY <2>0, FS_Interval
    <3> QED BY <3>1, <3>2, <2>0, <2>1
  <2>2. CASE a + m < k
    <3>1. Upto(K, k) = (1..a) \cup ((a + m + 1)..k)
      BY <2>0, <2>2, <1>1 DEF Upto
    <3> HIDE DEF K
    <3>2. Cardinality(Upto(K, k)) = k - m
      BY <3>1, <2>0, <2>2, CountBeside
    <3> QED BY <3>2, <2>0, <2>2
  <2> QED BY <2>0, <2>1, <2>2, <1>1
<1>4. Cardinality(K) = n
  BY <1>1, CountBeside
<1>5. K \in SUBSET (1..Len(t))
  BY <1>1
<1>6. \A k \in K : Nth(K, Cardinality(Upto(K, k))) = k
  BY <1>1, <1>5, NthIs
<1>7. ASSUME NEW j \in 1..n PROVE Nth(K, j) = IF j <= a THEN j ELSE j + m
  <2>1. CASE j <= a
    <3>1. j \in K
      BY <2>1, <1>1
    <3> QED BY <3>1, <2>1, <1>3, <1>6
  <2>2. CASE ~(j <= a)
    <3>1. j + m \in K /\ ~(j + m <= a) /\ (j + m) - m = j
      BY <2>2, <1>1
    <3>2. Cardinality(Upto(K, j + m)) = j
      BY <3>1, <1>3
    <3> HIDE DEF K
    <3>3. Nth(K, j) = j + m
      BY <3>1, <3>2, <1>6
    <3> QED BY <3>3, <2>2
  <2> QED BY <2>1, <2>2
<1>8. RemoveBlocks(t, name) = [j \in 1..Cardinality(K) |-> t[Nth(K, j)]]
  BY <1>2 DEF RemoveBlocks, kept
<1> HIDE DEF K
<1>9. RemoveBlocks(t, name) = [j \in 1..n |-> t[IF j <= a THEN j ELSE j + m]]
  BY <1>4, <1>7, <1>8
<1> DEFINE e == <<>>
<1>10. Len(e) = 0
  BY EmptyText
<1> HIDE DEF e
<1>11. n = Len(t) - m + Len(e)
  BY <1>1, <1>10
<1>12. Splice(t, a, m, e) = [j \in 1..n |->
     IF j <= a THEN t[j] ELSE IF j <= a + Len(e) THEN e[j - a] ELSE t[j - Len(e) + m]]
  BY <1>11 DEF Splice
<1>13. ASSUME NEW j \in 1..n
       PROVE  (IF j <= a THEN t[j] ELSE IF j <= a + Len(e) THEN e[j - a] ELSE t[j - Len(e) + m])
                = t[IF j <= a THEN j ELSE j + m]
  <2>1. j \in Nat /\ a + Len(e) = a /\ j - Len(e) + m = j + m
    BY <1>1, <1>10
  <2> QED BY <2>1
<1>14. Splice(t, a, m, e) = [j \in 1..n |-> t[IF j <= a THEN j ELSE j + m]]
  BY <1>12, <1>13
<1> QED BY <1>9, <1>14 DEF e

-----------------------------------------------------------------------------
(* What is written.                                                        *)

\* Line k has the only mark of this text, which is in a server and says this name.
MarkedAt(N, k, name) ==
  /\ k \in 1..Len(N) /\ N[k] = Line("mark", name)
  /\ \A l \in 1..Len(N) : N[l].is = "mark" => l = k
  /\ \E r \in Ranges(N) : k \in r[1]..r[2]

\* A text with braces that match, one mark, and both ports in servers.
NewText(N, name, f, b) ==
  /\ IsText(N) /\ Matched(N) /\ Tame(N) /\ Confirmable(N, f, b)
  /\ \E k : MarkedAt(N, k, name)

\* Where the lines of servers with ports stand in N, N has these ports.
Carries(t, N) ==
  \A r \in Ranges(t) : \E q \in Ranges(N) :
    \A kind \in {"listen", "proxy"} : PortsIn(t, r, kind) \subseteq PortsIn(N, q, kind)

\* Ports that are carried over are still there for the checks.
LEMMA CarriesPorts ==
  ASSUME NEW t, NEW N, Carries(t, N), NEW f, NEW b, Confirmable(t, f, b)
  PROVE  Confirmable(N, f, b)
<1>1. PICK r \in Ranges(t) : f \in PortsIn(t, r, "listen")
  BY DEF Confirmable
<1>2. PICK s \in Ranges(t) : b \in PortsIn(t, s, "proxy")
  BY DEF Confirmable
<1>3. \E q \in Ranges(N) : f \in PortsIn(N, q, "listen")
  BY <1>1 DEF Carries
<1>4. \E q \in Ranges(N) : b \in PortsIn(N, q, "proxy")
  BY <1>2 DEF Carries
<1> QED BY <1>3, <1>4 DEF Confirmable

\* A line of a server that has its place in N counts there.
LEMMA CarriesLine ==
  ASSUME NEW t, NEW r, NEW N, NEW q, NEW kind,
         \A k \in r[1]..r[2] : t[k].is = kind => \E l \in q[1]..q[2] : N[l] = t[k]
  PROVE  PortsIn(t, r, kind) \subseteq PortsIn(N, q, kind)
BY DEF PortsIn

\* The default text.
LEMMA GeneratedIsNew ==
  ASSUME NEW name, Safe[name] = name, NEW f, NEW b
  PROVE  NewText(Generated(name, f, b), name, f, b)
<1> DEFINE N == Generated(name, f, b)
<1>1. /\ N = [k \in 1..7 |-> N[k]]
      /\ N[1] = Line("server", None) /\ N[2] = Line("listen", f) /\ N[3] = Line("mark", name)
      /\ N[4] = Line("location", None) /\ N[5] = Line("proxy", b)
      /\ N[6] = Line("close", None) /\ N[7] = Line("close", None)
  BY DEF Generated
<1>2. \A kind, of : Line(kind, of).is = kind /\ Line(kind, of).of = of
                    /\ Line(kind, of) = Line(Line(kind, of).is, Line(kind, of).of)
  BY DEF Line
<1> HIDE DEF N
<1>3. \A k \in 1..7 : k \in {1, 2, 3, 4, 5, 6, 7}
  OBVIOUS
<1>4. \A k \in 1..7 : IsLine(N[k])
  <2>1. \A kind \in {"server", "listen", "mark", "location", "proxy", "close"} :
          kind \in LineKinds /\ kind # "include"
    BY DEF LineKinds, Opening, Opens, Closes, Scanner
  <2>2. IsLine(Line("server", None))
    BY <1>2, <2>1 DEF IsLine
  <2>3. \A of : \A kind \in {"listen", "mark", "location", "proxy", "close"} :
          IsLine(Line(kind, of))
    BY <1>2, <2>1 DEF IsLine
  <2> QED BY <1>1, <1>3, <2>2, <2>3
<1>5. IsText(N) /\ Len(N) = 7 /\ DOMAIN N = 1..7
  BY <1>1, <1>4, MadeOfLines
<1>6. ASSUME NEW S \in Counts
      PROVE  /\ Depth(N, S, 0) = 0 /\ Depth(N, S, 1) = 1 /\ Depth(N, S, 2) = 1
             /\ Depth(N, S, 3) = 1 /\ Depth(N, S, 4) = 2 /\ Depth(N, S, 5) = 2
             /\ Depth(N, S, 6) = 1 /\ Depth(N, S, 7) = 0
  <2> DEFINE A(k) == Depth(N, S, k)
             R(k) == Rise(N, S, k)
  <2>1. R(1) = 1 /\ R(4) = 1 /\ R(6) = -1 /\ R(7) = -1
    BY <1>1, <1>2 DEF Rise, Counts, Nginx, Scanner, Opens, Closes, Opening
  <2>2. R(2) = 0 /\ R(3) = 0 /\ R(5) = 0
    BY <1>1, <1>2 DEF Rise, Counts, Nginx, Scanner, Opens, Closes, Opening
  <2>3. A(0) = 0 /\ \A k \in Nat \ {0} : A(k) = A(k - 1) + R(k)
    BY Levels
  <2> HIDE DEF A, R
  <2>4. A(1) = A(1 - 1) + R(1) /\ A(2) = A(2 - 1) + R(2) /\ A(3) = A(3 - 1) + R(3)
        /\ A(4) = A(4 - 1) + R(4) /\ A(5) = A(5 - 1) + R(5) /\ A(6) = A(6 - 1) + R(6)
        /\ A(7) = A(7 - 1) + R(7)
    BY <2>3
  <2>5. A(1) = 1
    BY <2>1, <2>3, <2>4
  <2>6. A(2) = 1 /\ A(3) = 1
    BY <2>2, <2>4, <2>5
  <2>7. A(4) = 2 /\ A(5) = 2
    BY <2>1, <2>2, <2>4, <2>6
  <2>8. A(6) = 1
    BY <2>1, <2>4, <2>7
  <2>9. A(7) = 0
    BY <2>1, <2>4, <2>8
  <2> QED BY <2>3, <2>5, <2>6, <2>7, <2>8, <2>9 DEF A
<1>7. Matched(N)
  <2>1. \A k \in 0..Len(N) : k = 0 \/ k \in {1, 2, 3, 4, 5, 6, 7}
    BY <1>5
  <2>2. \A k \in 0..Len(N) : Depth(N, Nginx, k) >= 0
    BY <2>1, <1>6, BothClose
  <2>3. Depth(N, Nginx, Len(N)) = 0
    BY <1>5, <1>6, BothClose
  <2> QED BY <2>2, <2>3, <1>5, MatchedLevels
<1>11. Tame(N)
  <2> SUFFICES ASSUME NEW i, NEW e, Server(N, Nginx, i, e)
               PROVE  Depth(N, Scanner, e) <= Depth(N, Scanner, i - 1)
    BY DEF Tame
  <2>1. i \in 1..7 /\ e \in 1..7 /\ i < e /\ N[i].is = "server"
        /\ Depth(N, Nginx, e) = Depth(N, Nginx, i - 1)
    BY <1>5 DEF Server, Block
  <2>2. i = 1
    BY <2>1, <1>1, <1>2, <1>3
  <2>3. e = 7
    BY <2>1, <2>2, <1>3, <1>6, BothClose
  <2> QED BY <2>2, <2>3, <1>6, BothClose
<1> DEFINE r == <<1, 7>>
<1>8. r \in Ranges(N)
  <2>1. Block(N, Scanner, 1, 7)
    <3>1. \A k \in 1..(7 - 1) : Depth(N, Scanner, k) > Depth(N, Scanner, 1 - 1)
      <4>1. \A k \in 1..(7 - 1) : k \in {1, 2, 3, 4, 5, 6}
        OBVIOUS
      <4>2. Depth(N, Scanner, 1 - 1) = 0
        BY <1>6, BothClose
      <4> QED BY <4>1, <4>2, <1>6, BothClose
    <3>2. Depth(N, Scanner, 7) = Depth(N, Scanner, 1 - 1) /\ N[1].is \in Opens \cap Scanner
      BY <1>1, <1>2, <1>6, BothClose
    <3> QED BY <3>1, <3>2, <1>5 DEF Block
  <2>2. Server(N, Scanner, 1, 7)
    BY <2>1, <1>1, <1>2 DEF Server
  <2> QED BY <2>2, <1>5, RangesAre
<1>9. Confirmable(N, f, b)
  <2>1. r[1] = 1 /\ r[2] = 7 /\ 2 \in 1..7 /\ 5 \in 1..7
    OBVIOUS
  <2> HIDE DEF r
  <2>2. f \in PortsIn(N, r, "listen") /\ b \in PortsIn(N, r, "proxy")
    BY <2>1, <1>1, <1>2 DEF PortsIn
  <2> QED BY <2>2, <1>8 DEF Confirmable
<1>10. MarkedAt(N, 3, name)
  <2>1. r[1] = 1 /\ r[2] = 7 /\ 3 \in 1..7
    OBVIOUS
  <2> HIDE DEF r
  <2>2. \A l \in 1..Len(N) : N[l].is = "mark" => l = 3
    BY <1>1, <1>2, <1>3, <1>5
  <2> QED BY <2>1, <2>2, <1>1, <1>5, <1>8 DEF MarkedAt
<1> QED BY <1>5, <1>7, <1>9, <1>10, <1>11 DEF NewText, N

\* A text as a user may confirm it for this name.
Ordinary(t, name) ==
  /\ IsText(t) /\ Matched(t) /\ Tame(t)
  /\ \A k \in Marks(t) : /\ t[k].of = name /\ Marks(t) = {k}
                         /\ \E r \in Ranges(t) : k \in r[1]..r[2]

\* The least of some lines of a text is one of them.
LEMMA MinLine ==
  ASSUME NEW t, IsText(t), NEW line, LinesOf(t, line) # {}
  PROVE  Min(LinesOf(t, line)) \in LinesOf(t, line)
<1> DEFINE K == LinesOf(t, line)
<1>1. DOMAIN t = 1..Len(t) /\ Len(t) \in Nat
  BY TextLines
<1>2. K \subseteq Nat
  BY <1>1 DEF LinesOf
<1> HIDE DEF K
<1>3. \E k \in K : \A l \in K : k <= l
  BY <1>2, Least DEF K
<1> QED BY <1>3 DEF Min, K

\* A line that neither opens nor closes a block leaves the levels as they are.
LEMMA MarkIsLevel ==
  ASSUME NEW t, NEW counted \in Counts, NEW k, t[k].is \in {"mark", "legacy"}
  PROVE  Rise(t, counted, k) = 0
BY DEF Rise, Counts, Nginx, Scanner, Opens, Closes, Opening

\* One such line behind line s.
LEMMA LevelLine ==
  ASSUME NEW t, NEW counted \in Counts, NEW s \in Nat, t[s + 1].is \in {"mark", "legacy"}
  PROVE  Even(t, counted, s, 1)
<1>1. Rise(t, counted, s + 1) = 0
  BY MarkIsLevel
<1>2. s + 1 \in Nat \ {0} /\ (s + 1) - 1 = s /\ \A k \in s..(s + 1) : k = s \/ k = s + 1
  OBVIOUS
<1>3. Depth(t, counted, s + 1) = Depth(t, counted, (s + 1) - 1) + Rise(t, counted, s + 1)
  BY <1>2, Levels
<1>4. Depth(t, counted, s) \in Int
  BY Levels
<1>5. Depth(t, counted, s + 1) = Depth(t, counted, s)
  BY <1>1, <1>2, <1>3, <1>4
<1>6. Depth(t, counted, s) >= Depth(t, counted, s)
  BY <1>4
<1> QED BY <1>2, <1>5, <1>6 DEF Even

\* Lines without a server that leave the levels as they are do not keep one open.
LEMMA TameAround ==
  ASSUME NEW T, NEW U, IsText(T), IsText(U), NEW a \in Nat, NEW m \in Nat, NEW n \in Nat,
         a + m <= Len(T), Len(U) = Len(T) - m + n,
         \A k \in 1..a : U[k] = T[k],
         \A k \in (a + m + 1)..Len(T) : U[k - m + n] = T[k],
         \A counted \in Counts : Even(T, counted, a, m) /\ Even(U, counted, a, n),
         \A k \in (a + 1)..(a + m) : T[k].is # "server",
         Tame(U)
  PROVE  Tame(T)
<1>1. Len(T) \in Nat /\ Len(U) \in Nat
  BY TextLines
<1> SUFFICES ASSUME NEW i, NEW e, Server(T, Nginx, i, e)
             PROVE  Depth(T, Scanner, e) <= Depth(T, Scanner, i - 1)
  BY DEF Tame
<1>2. i \in 1..Len(T) /\ e \in 1..Len(T) /\ i < e /\ T[i].is = "server"
  BY DEF Server, Block
<1>3. i \notin (a + 1)..(a + m)
  BY <1>2
<1> DEFINE I == Shift(a, m, n, i)
           E == Shift(a, m, n, e)
<1>4. e \notin (a + 1)..(a + m) /\ Block(U, Nginx, I, E)
  BY <1>3, BothClose, BlockAround DEF Server
<1>5. SameAround(T, U, Scanner, a, m, n)
  BY BothClose, AroundLevels
<1>6. U[I].is = "server" /\ Depth(U, Scanner, I - 1) = Depth(T, Scanner, i - 1)
  <2>1. CASE i <= a
    <3>1. I = i /\ i \in 1..a /\ i - 1 \in 0..a
      BY <2>1, <1>1, <1>2 DEF Shift
    <3> HIDE DEF I
    <3> QED BY <3>1, <1>2, <1>5 DEF SameAround
  <2>2. CASE i > a + m
    <3>1. /\ I = i - m + n /\ i \in (a + m + 1)..Len(T) /\ i - 1 \in (a + m)..Len(T)
          /\ (i - m + n) - 1 = (i - 1) - m + n
      BY <2>2, <1>1, <1>2 DEF Shift
    <3> HIDE DEF I
    <3> QED BY <3>1, <1>2, <1>5 DEF SameAround
  <2> QED BY <2>1, <2>2, <1>1, <1>2, <1>3
<1>7. Depth(U, Scanner, E) = Depth(T, Scanner, e)
  <2>1. CASE e <= a
    <3>1. E = e /\ e \in 0..a
      BY <2>1, <1>1, <1>2 DEF Shift
    <3> HIDE DEF E
    <3> QED BY <3>1, <1>5 DEF SameAround
  <2>2. CASE e > a + m
    <3>1. E = e - m + n /\ e \in (a + m)..Len(T)
      BY <2>2, <1>1, <1>2 DEF Shift
    <3> HIDE DEF E
    <3> QED BY <3>1, <1>5 DEF SameAround
  <2> QED BY <2>1, <2>2, <1>1, <1>2, <1>4
<1> HIDE DEF I, E
<1>8. Depth(U, Scanner, E) <= Depth(U, Scanner, I - 1)
  BY <1>4, <1>6 DEF Tame, Server
<1> QED BY <1>6, <1>7, <1>8

\* The directive of older versions becomes a mark.
LEMMA LegacyIsNew ==
  ASSUME NEW t, NEW name, Ordinary(t, name), NEW f, NEW b, Confirmable(t, f, b),
         NEW k \in LinesOf(t, Line("legacy", name))
  PROVE  NewText([t EXCEPT ![k] = Line("mark", name)], name, f, b)
<1> DEFINE mark == Line("mark", name)
           N == [t EXCEPT ![k] = mark]
<1>1. /\ IsText(t) /\ Len(t) \in Nat /\ DOMAIN t = 1..Len(t) /\ t = [l \in 1..Len(t) |-> t[l]]
      /\ \A l \in 1..Len(t) : IsLine(t[l])
  BY TextLines DEF Ordinary
<1>2. k \in 1..Len(t) /\ t[k] = Line("legacy", name)
  BY <1>1 DEF LinesOf
<1>3. N = [l \in 1..Len(t) |-> IF l = k THEN mark ELSE t[l]]
  BY <1>1
<1>4. mark.is = "mark" /\ mark.of = name /\ IsLine(mark) /\ t[k].is = "legacy" /\ t[k].of = name
  BY <1>2 DEF Line, IsLine, LineKinds
<1> HIDE DEF N, mark
<1>5. N = [l \in 1..Len(t) |-> N[l]] /\ N[k] = mark /\ \A l \in 1..Len(t) : l # k => N[l] = t[l]
  BY <1>2, <1>3
<1>6. \A l \in 1..Len(t) : IsLine(N[l])
  BY <1>1, <1>4, <1>5
<1>7. IsText(N) /\ Len(N) = Len(t)
  BY <1>1, <1>5, <1>6, MadeOfLines
<1>8. ASSUME NEW S \in Counts PROVE SameLevels(t, N, S, Len(t))
  <2>1. ASSUME NEW l \in 1..Len(t) PROVE Rise(N, S, l) = Rise(t, S, l)
    <3>1. CASE l = k
      BY <3>1, <1>4, <1>5, MarkIsLevel
    <3>2. CASE l # k
      BY <3>2, <1>5 DEF Rise
    <3> QED BY <3>1, <3>2
  <2> QED BY <2>1, <1>1, LevelSame
<1>9. Matched(N)
  <2>1. SameLevels(t, N, Nginx, Len(t))
    BY <1>8, BothClose
  <2>2. Len(t) \in 0..Len(t)
    BY <1>1
  <2>3. /\ \A l \in 0..Len(t) : Depth(t, Nginx, l) >= 0
        /\ Depth(t, Nginx, Len(t)) = 0
    BY <1>1, MatchedLevels DEF Ordinary
  <2> QED BY <2>1, <2>2, <2>3, <1>7, MatchedLevels DEF SameLevels
<1>10. ASSUME NEW r \in Ranges(t) PROVE r \in Ranges(N)
  <2>1. PICK i \in Int, j \in Int : r = <<i, j>> /\ Server(t, Scanner, i, j)
    BY <1>1, RangesAre
  <2>2. SameLevels(t, N, Scanner, Len(t))
    BY <1>8, BothClose
  <2>3. /\ i \in 1..Len(t) /\ j \in 1..Len(t) /\ i < j /\ t[i].is = "server"
        /\ i - 1 \in 0..Len(t) /\ \A l \in i..j : l \in 0..Len(t)
        /\ Depth(t, Scanner, j) = Depth(t, Scanner, i - 1)
        /\ \A l \in i..(j - 1) : Depth(t, Scanner, l) > Depth(t, Scanner, i - 1)
    BY <2>1, <1>1 DEF Server, Block
  <2>4. N[i] = t[i]
    BY <2>3, <1>4, <1>5
  <2>5. Depth(N, Scanner, j) = Depth(N, Scanner, i - 1)
    BY <2>2, <2>3, <1>1 DEF SameLevels
  <2>6. ASSUME NEW l \in i..(j - 1) PROVE Depth(N, Scanner, l) > Depth(N, Scanner, i - 1)
    <3>1. l \in 0..Len(t)
      BY <2>3, <1>1
    <3> QED BY <3>1, <2>2, <2>3 DEF SameLevels
  <2>7. Server(N, Scanner, i, j)
    BY <2>3, <2>4, <2>5, <2>6, <1>7, BothClose DEF Server, Block
  <2> QED BY <2>1, <2>7, <1>7, RangesAre
<1>11. Carries(t, N)
  <2> SUFFICES ASSUME NEW r \in Ranges(t), NEW kind \in {"listen", "proxy"}
               PROVE  PortsIn(t, r, kind) \subseteq PortsIn(N, r, kind)
    BY <1>10 DEF Carries
  <2>1. r[1]..r[2] \subseteq 1..Len(t)
    <3>1. Server(t, Scanner, r[1], r[2])
      BY <1>1, RangesAre
    <3> QED BY <3>1, <1>1 DEF Server, Block
  <2>2. \A l \in r[1]..r[2] : t[l].is = kind => N[l] = t[l]
    BY <2>1, <1>4, <1>5
  <2> QED BY <2>2, CarriesLine
<1>12. MarkedAt(N, k, name)
  <2>1. k \in Marks(t)
    BY <1>1, <1>2, <1>4 DEF Marks
  <2>2. Marks(t) = {k} /\ \E r \in Ranges(t) : k \in r[1]..r[2]
    BY <2>1 DEF Ordinary
  <2>3. \A l \in 1..Len(N) : N[l].is = "mark" => l = k
    BY <2>2, <1>1, <1>5, <1>7 DEF Marks
  <2> QED BY <2>2, <2>3, <1>2, <1>5, <1>7, <1>10 DEF MarkedAt, mark
<1>13. Confirmable(N, f, b)
  BY <1>11, CarriesPorts
<1>14. Tame(N)
  <2>1. PICK s \in Nat : s = k - 1
    BY <1>2
  <2>2. s + 1 = k /\ s + 1 <= Len(N) /\ N[s + 1].is = "mark" /\ t[s + 1].is = "legacy"
    BY <2>1, <1>1, <1>2, <1>4, <1>5, <1>7
  <2>3. \A S \in Counts : Even(N, S, s, 1) /\ Even(t, S, s, 1)
    BY <2>2, LevelLine
  <2>4. /\ Len(t) = Len(N) - 1 + 1
        /\ \A l \in 1..s : t[l] = N[l]
        /\ \A l \in (s + 1 + 1)..Len(N) : t[l - 1 + 1] = N[l]
    BY <2>2, <1>1, <1>2, <1>5, <1>7
  <2>5. \A l \in (s + 1)..(s + 1) : N[l].is # "server"
    BY <2>2
  <2>6. 1 \in Nat /\ Tame(t)
    BY DEF Ordinary
  <2> QED BY <2>2, <2>3, <2>4, <2>5, <2>6, <1>1, <1>7, TameAround
<1> QED BY <1>7, <1>9, <1>12, <1>13, <1>14 DEF NewText, N, mark

\* A text that has its mark is left as it is.
LEMMA MarkIsNew ==
  ASSUME NEW t, NEW name, Ordinary(t, name), NEW f, NEW b, Confirmable(t, f, b),
         NEW k \in LinesOf(t, Line("mark", name))
  PROVE  NewText(t, name, f, b)
<1>1. IsText(t) /\ DOMAIN t = 1..Len(t) /\ Matched(t) /\ Tame(t)
  BY TextLines DEF Ordinary
<1>2. k \in 1..Len(t) /\ t[k] = Line("mark", name) /\ t[k].is = "mark"
  BY <1>1 DEF LinesOf, Line
<1>3. k \in Marks(t)
  BY <1>1, <1>2 DEF Marks
<1>4. Marks(t) = {k} /\ \E r \in Ranges(t) : k \in r[1]..r[2]
  BY <1>3 DEF Ordinary
<1>5. \A l \in 1..Len(t) : t[l].is = "mark" => l = k
  BY <1>1, <1>4 DEF Marks
<1> QED BY <1>1, <1>2, <1>4, <1>5 DEF NewText, MarkedAt

\* The first server of a text without a mark gets one.
LEMMA InsertedIsNew ==
  ASSUME NEW t, NEW name, Ordinary(t, name), NEW f, NEW b, Confirmable(t, f, b),
         Marks(t) = {}, NEW s \in 1..Len(t), t[s].is = "server"
  PROVE  NewText(InsertAt(t, s + 1, Line("mark", name)), name, f, b)
<1> DEFINE mark == Line("mark", name)
           M == <<mark>>
           N == Splice(t, s, 0, M)
           sh(k) == Shift(s, 0, 1, k)
<1>1. /\ IsText(t) /\ Len(t) \in Nat /\ DOMAIN t = 1..Len(t) /\ Matched(t) /\ Tame(t)
      /\ s \in Nat
      /\ s + 0 <= Len(t)
  BY TextLines DEF Ordinary
<1>2. mark.is = "mark" /\ mark.of = name /\ IsLine(mark)
  BY DEF Line, IsLine, LineKinds
<1>3. IsText(M) /\ Len(M) = 1 /\ M[1] = mark
  <2>1. M = [k \in 1..1 |-> M[k]] /\ M[1] = mark
    OBVIOUS
  <2> HIDE DEF mark
  <2>2. \A k \in 1..1 : IsLine(M[k])
    BY <2>1, <1>2
  <2> HIDE DEF M
  <2> QED BY <2>1, <2>2, MadeOfLines
<1>4. InsertAt(t, s + 1, mark) = N
  <2>1. InsertAt(t, s + 1, mark) = SubSeq(t, 1, (s + 1) - 1) \o M \o SubSeq(t, s + 1, Len(t))
    BY DEF InsertAt
  <2>2. (s + 1) - 1 = s /\ s + 1 = s + 0 + 1
    BY <1>1
  <2>3. SubSeq(t, 1, s) \o M \o SubSeq(t, s + 0 + 1, Len(t)) = N
    BY <1>1, <1>3, SplicedBetween
  <2> QED BY <2>1, <2>2, <2>3
<1> HIDE DEF mark, M
<1>5. /\ IsText(N) /\ Len(N) = Len(t) + 1
      /\ \A k \in 1..s : N[k] = t[k]
      /\ N[s + 1] = mark
      /\ \A k \in (s + 1)..Len(t) : N[k + 1] = t[k]
  <2>1. /\ IsText(N) /\ Len(N) = Len(t) - 0 + Len(M)
        /\ \A k \in 1..s : N[k] = t[k]
        /\ \A k \in 1..Len(M) : N[s + k] = M[k]
        /\ \A k \in (s + 0 + 1)..Len(t) : N[k - 0 + Len(M)] = t[k]
    <3>1. PICK z \in Nat : z = 0
      OBVIOUS
    <3>2. PICK V : V = Splice(t, s, z, M)
      OBVIOUS
    <3>3. N = V
      BY <3>1, <3>2
    <3> HIDE DEF N
    <3>4. /\ IsText(V) /\ Len(V) = Len(t) - z + Len(M)
          /\ \A k \in 1..s : V[k] = t[k]
          /\ \A k \in 1..Len(M) : V[s + k] = M[k]
          /\ \A k \in (s + z + 1)..Len(t) : V[k - z + Len(M)] = t[k]
      <4>1. s + z <= Len(t) /\ IsText(t) /\ s \in Nat /\ IsText(M)
        BY <3>1, <1>1, <1>3
      <4> HIDE DEF M
      <4>2. /\ IsText(Splice(t, s, z, M)) /\ Len(Splice(t, s, z, M)) = Len(t) - z + Len(M)
            /\ \A k \in 1..s : Splice(t, s, z, M)[k] = t[k]
            /\ \A k \in 1..Len(M) : Splice(t, s, z, M)[s + k] = M[k]
            /\ \A k \in (s + z + 1)..Len(t) : Splice(t, s, z, M)[k - z + Len(M)] = t[k]
        BY <4>1, Spliced
      <4> QED BY <4>2, <3>2
    <3> QED BY <3>1, <3>3, <3>4
  <2> HIDE DEF N
  <2>2. Len(N) = Len(t) + 1
    BY <2>1, <1>1, <1>3
  <2>3. 1 \in 1..Len(M)
    BY <1>3
  <2>4. N[s + 1] = mark
    BY <2>1, <2>3, <1>3
  <2>5. \A k \in (s + 1)..Len(t) : N[k + 1] = t[k]
    <3> SUFFICES ASSUME NEW k \in (s + 1)..Len(t) PROVE N[k + 1] = t[k]
      OBVIOUS
    <3>1. k \in (s + 0 + 1)..Len(t) /\ k - 0 + Len(M) = k + 1
      BY <1>1, <1>3
    <3> QED BY <3>1, <2>1
  <2> QED BY <2>1, <2>2, <2>4, <2>5
<1> HIDE DEF N
<1>6. ASSUME NEW S \in Counts
      PROVE  Even(t, S, s, 0) /\ Even(N, S, s, 1) /\ SameAround(t, N, S, s, 0, 1)
  <2>1. \A k \in Nat : Depth(t, S, k) \in Int /\ Depth(N, S, k) \in Int
    BY Levels
  <2>2. Even(t, S, s, 0)
    <3>1. s + 0 = s /\ \A k \in s..(s + 0) : k = s
      BY <1>1
    <3>2. Depth(t, S, s) >= Depth(t, S, s)
      BY <1>1, <2>1
    <3> QED BY <3>1, <3>2 DEF Even
  <2>5. Even(N, S, s, 1)
    BY <1>1, <1>2, <1>5, LevelLine
  <2>6. SameAround(t, N, S, s, 0, 1)
    <3>1. Len(N) = Len(t) - 0 + 1 /\ \A k \in (s + 0 + 1)..Len(t) : N[k - 0 + 1] = t[k]
      <4>1. \A k \in (s + 0 + 1)..Len(t) : k \in (s + 1)..Len(t) /\ k - 0 + 1 = k + 1
        BY <1>1
      <4> QED BY <4>1, <1>1, <1>5
    <3>2. 0 \in Nat /\ 1 \in Nat
      OBVIOUS
    <3> QED BY <3>1, <3>2, <2>2, <2>5, <1>1, <1>5, AroundLevels
  <2> QED BY <2>2, <2>5, <2>6
<1>7. Matched(N)
  <2>1. SameAround(t, N, Nginx, s, 0, 1) /\ Even(N, Nginx, s, 1)
    BY <1>6, BothClose
  <2>2. /\ \A k \in 0..Len(t) : Depth(t, Nginx, k) >= 0
        /\ Depth(t, Nginx, Len(t)) = 0
    BY <1>1, MatchedLevels
  <2>3. ASSUME NEW k \in 0..Len(t), k >= s
        PROVE  Depth(N, Nginx, k + 1) = Depth(t, Nginx, k)
    <3>1. k \in (s + 0)..Len(t) /\ k - 0 + 1 = k + 1
      BY <1>1, <2>3
    <3> QED BY <3>1, <2>1 DEF SameAround
  <2>4. ASSUME NEW k \in 0..Len(N) PROVE Depth(N, Nginx, k) >= 0
    <3>1. CASE k <= s
      <4>1. k \in 0..s /\ k \in 0..Len(t)
        BY <3>1, <1>1
      <4> QED BY <4>1, <2>1, <2>2 DEF SameAround
    <3>2. CASE k > s
      <4>1. k - 1 \in 0..Len(t) /\ k - 1 >= s /\ (k - 1) + 1 = k
        BY <3>2, <1>1, <1>5
      <4>2. Depth(N, Nginx, (k - 1) + 1) = Depth(t, Nginx, k - 1)
        BY <4>1, <2>3
      <4> QED BY <4>1, <4>2, <2>2
    <3> QED BY <3>1, <3>2, <1>1
  <2>5. Depth(N, Nginx, Len(N)) = 0
    <3>1. Len(t) \in 0..Len(t) /\ Len(t) >= s /\ Len(N) = Len(t) + 1
      BY <1>1, <1>5
    <3> QED BY <3>1, <2>2, <2>3
  <2> QED BY <2>4, <2>5, <1>5, MatchedLevels
<1>8. ASSUME NEW k \in 1..Len(t) PROVE sh(k) \in 1..Len(N) /\ N[sh(k)] = t[k]
  <2>1. CASE k <= s
    <3>1. sh(k) = k /\ k \in 1..s /\ k \in 1..Len(N)
      BY <2>1, <1>1, <1>5 DEF Shift
    <3> HIDE DEF sh
    <3> QED BY <3>1, <1>5
  <2>2. CASE k > s
    <3>1. sh(k) = k + 1 /\ k \in (s + 1)..Len(t) /\ k + 1 \in 1..Len(N)
      BY <2>2, <1>1, <1>5 DEF Shift
    <3> HIDE DEF sh
    <3> QED BY <3>1, <1>5
  <2> QED BY <2>1, <2>2, <1>1
<1>9. ASSUME NEW i \in Int, NEW j \in Int, Server(t, Scanner, i, j)
      PROVE  <<sh(i), sh(j)>> \in Ranges(N) /\ i \in 1..Len(t) /\ j \in 1..Len(t) /\ i < j
  <2>1. i \in 1..Len(t) /\ j \in 1..Len(t) /\ i < j /\ i \notin (s + 1)..(s + 0)
    BY <1>9, <1>1 DEF Server, Block
  <2>2. Block(N, Scanner, sh(i), sh(j))
    <3>1. Len(N) = Len(t) - 0 + 1 /\ \A k \in (s + 0 + 1)..Len(t) : N[k - 0 + 1] = t[k]
      <4>1. \A k \in (s + 0 + 1)..Len(t) : k \in (s + 1)..Len(t) /\ k - 0 + 1 = k + 1
        BY <1>1
      <4> QED BY <4>1, <1>1, <1>5
    <3>2. 0 \in Nat /\ 1 \in Nat
      OBVIOUS
    <3>3. Even(t, Scanner, s, 0) /\ Even(N, Scanner, s, 1) /\ Scanner \in Counts
      BY <1>6, BothClose
    <3> QED BY <3>1, <3>2, <3>3, <2>1, <1>9, <1>1, <1>5, BlockAround DEF Server
  <2>3. N[sh(i)].is = "server"
    BY <2>1, <1>8, <1>9 DEF Server
  <2>4. Server(N, Scanner, sh(i), sh(j))
    BY <2>2, <2>3 DEF Server
  <2> QED BY <2>1, <2>4, <1>5, RangesAre
<1>10. Carries(t, N)
  <2> SUFFICES ASSUME NEW r \in Ranges(t)
               PROVE  \E q \in Ranges(N) : \A kind \in {"listen", "proxy"} :
                         PortsIn(t, r, kind) \subseteq PortsIn(N, q, kind)
    BY DEF Carries
  <2>1. PICK i \in Int, j \in Int : r = <<i, j>> /\ Server(t, Scanner, i, j)
    BY <1>1, RangesAre
  <2> DEFINE q == <<sh(i), sh(j)>>
  <2>2. q \in Ranges(N) /\ i \in 1..Len(t) /\ j \in 1..Len(t) /\ i < j
    BY <2>1, <1>9
  <2>3. r[1] = i /\ r[2] = j /\ q[1] = sh(i) /\ q[2] = sh(j)
    BY <2>1
  <2> HIDE DEF q
  <2>4. ASSUME NEW k \in i..j PROVE \E l \in sh(i)..sh(j) : N[l] = t[k]
    <3>1. k \in 1..Len(t)
      BY <2>2, <1>1
    <3>2. sh(k) \in sh(i)..sh(j)
      BY <2>2, <3>1, <1>1 DEF Shift
    <3> HIDE DEF sh
    <3> QED BY <3>1, <3>2, <1>8
  <2>5. ASSUME NEW kind PROVE PortsIn(t, r, kind) \subseteq PortsIn(N, q, kind)
    <3> HIDE DEF sh
    <3>1. \A k \in r[1]..r[2] : t[k].is = kind => \E l \in q[1]..q[2] : N[l] = t[k]
      BY <2>3, <2>4
    <3> QED BY <3>1, CarriesLine
  <2> QED BY <2>2, <2>5
<1>11. MarkedAt(N, s + 1, name)
  <2>1. s + 1 \in 1..Len(N) /\ N[s + 1] = Line("mark", name)
    BY <1>1, <1>5 DEF mark
  <2>2. ASSUME NEW l \in 1..Len(N), N[l].is = "mark" PROVE l = s + 1
    <3> SUFFICES ASSUME l # s + 1 PROVE FALSE
      OBVIOUS
    <3>1. PICK k \in 1..Len(t) : N[l] = t[k]
      <4>1. CASE l <= s
        <5>1. l \in 1..s /\ l \in 1..Len(t)
          BY <4>1, <1>1
        <5> QED BY <5>1, <1>5
      <4>2. CASE l > s + 1
        <5>1. l - 1 \in (s + 1)..Len(t) /\ l - 1 \in 1..Len(t) /\ (l - 1) + 1 = l
          BY <4>2, <1>1, <1>5
        <5> QED BY <5>1, <1>5
      <4>3. l <= s \/ l > s + 1
        BY <1>1
      <4> QED BY <4>1, <4>2, <4>3
    <3>2. k \in Marks(t)
      BY <3>1, <2>2, <1>1 DEF Marks
    <3> QED BY <3>2
  <2>3. \E r \in Ranges(N) : s + 1 \in r[1]..r[2]
    <3>2. PICK e : \E j \in (s + 1)..e : Block(t, Scanner, s, j)
      BY <1>1, ServerIsClosed
    <3>3. PICK j \in (s + 1)..e : Block(t, Scanner, s, j)
      BY <3>2
    <3>4. Server(t, Scanner, s, j) /\ s \in Int /\ j \in Int
      BY <3>3, <1>1 DEF Server
    <3> DEFINE q == <<sh(s), sh(j)>>
    <3>5. q \in Ranges(N) /\ s < j
      BY <3>4, <1>9
    <3>6. q[1] = s /\ q[2] = j + 1
      BY <3>4, <3>5, <1>1 DEF Shift
    <3> HIDE DEF q
    <3>7. s + 1 \in q[1]..q[2]
      BY <3>4, <3>5, <3>6, <1>1
    <3> QED BY <3>5, <3>7
  <2> QED BY <2>1, <2>2, <2>3 DEF MarkedAt
<1>12. Confirmable(N, f, b)
  BY <1>10, CarriesPorts
<1>13. Tame(N)
  <2>1. \A S \in Counts : Even(N, S, s, 1) /\ Even(t, S, s, 0)
    BY <1>6
  <2>2. /\ Len(t) = Len(N) - 1 + 0 /\ s + 1 <= Len(N)
        /\ \A k \in 1..s : t[k] = N[k]
    BY <1>1, <1>5
  <2>3. ASSUME NEW k \in (s + 1 + 1)..Len(N) PROVE t[k - 1 + 0] = N[k]
    <3>1. k - 1 \in (s + 1)..Len(t) /\ (k - 1) + 1 = k /\ k - 1 + 0 = k - 1
      BY <1>1, <1>5
    <3>2. N[(k - 1) + 1] = t[k - 1]
      BY <3>1, <1>5
    <3> QED BY <3>1, <3>2
  <2>4. \A k \in (s + 1)..(s + 1) : N[k].is # "server"
    BY <1>1, <1>2, <1>5
  <2>5. 0 \in Nat /\ 1 \in Nat
    OBVIOUS
  <2> QED BY <2>1, <2>2, <2>3, <2>4, <2>5, <1>1, <1>5, TameAround
<1> QED BY <1>4, <1>5, <1>7, <1>11, <1>12, <1>13 DEF NewText, mark

\* What normalisation makes of a text that a user confirms.
LEMMA MarkedIsNew ==
  ASSUME NEW t, NEW name, Ordinary(t, name), Safe[name] = name,
         NEW f, NEW b, Confirmable(t, f, b)
  PROVE  NewText(Marked(t, name), name, f, b)
<1> DEFINE mark == Line("mark", name)
           legacy == LinesOf(t, Line("legacy", name))
           servers == LinesOf(t, Line("server", None))
<1>1. IsText(t) /\ DOMAIN t = 1..Len(t) /\ \A k \in 1..Len(t) : IsLine(t[k])
  BY TextLines DEF Ordinary
<1>2. CASE legacy # {}
  <2>1. PICK k \in legacy : k = Min(legacy)
    BY <1>1, <1>2, MinLine
  <2>2. Marked(t, name) = [t EXCEPT ![k] = mark]
    BY <1>2, <2>1 DEF Marked
  <2>3. NewText([t EXCEPT ![k] = mark], name, f, b)
    BY LegacyIsNew
  <2> QED BY <2>2, <2>3
<1>3. CASE legacy = {} /\ LinesOf(t, mark) # {}
  <2>1. Marked(t, name) = t
    BY <1>3 DEF Marked
  <2> QED BY <2>1, <1>3, MarkIsNew
<1>4. CASE legacy = {} /\ LinesOf(t, mark) = {}
  <2>1. Marked(t, name) = InsertAt(t, Min(servers) + 1, mark)
    BY <1>4 DEF Marked
  <2>2. Marks(t) = {}
    <3> SUFFICES ASSUME NEW k \in Marks(t) PROVE FALSE
      OBVIOUS
    <3>1. t[k].of = name /\ t[k].is \in {"mark", "legacy"} /\ k \in 1..Len(t)
      BY <1>1 DEF Ordinary, Marks
    <3>2. t[k] = Line("mark", name) \/ t[k] = Line("legacy", name)
      BY <3>1, <1>1 DEF IsLine
    <3> QED BY <3>1, <3>2, <1>1, <1>4 DEF LinesOf
  <2>3. servers # {}
    <3>1. PICK r \in Ranges(t) : TRUE
      BY DEF Confirmable
    <3>2. Server(t, Scanner, r[1], r[2])
      BY <1>1, RangesAre
    <3>3. r[1] \in 1..Len(t) /\ t[r[1]].is = "server"
      BY <3>2 DEF Server, Block
    <3>4. t[r[1]] = Line("server", None)
      BY <3>3, <1>1 DEF IsLine
    <3> QED BY <3>3, <3>4, <1>1 DEF LinesOf
  <2>4. PICK s \in servers : s = Min(servers)
    BY <2>3, <1>1, MinLine
  <2>5. s \in 1..Len(t) /\ t[s].is = "server"
    BY <1>1 DEF LinesOf, Line
  <2> QED BY <2>1, <2>2, <2>4, <2>5, InsertedIsNew
<1> QED BY <1>2, <1>3, <1>4
-----------------------------------------------------------------------------
(* What a change of a file comes to.                                       *)

\* No mark but one of this name stands in the text, and that at one line.
OneMark(N, name) ==
  \E k : \A l \in 1..Len(N) : N[l].is = "mark" => l = k /\ N[l] = Line("mark", name)

\* A block with the name x in the changed file is the new one, or stood there.
Came(T, N, a, m, x, i, j) ==
  \E g, h : /\ <<g, h>> \in Own(T, x) /\ g \notin (a + 1)..(a + m)
            /\ i = g + Move(a, m, Len(N), g) /\ j = h + Move(a, m, Len(N), g)

Comes(N, a, x, i, j) == \E k \in 1..Len(N) : N[k] = Line("mark", x) /\ a + k \in i..j

\* Each block with a name in the changed file came or was there.
LEMMA OwnComes ==
  ASSUME NEW T, NEW U, NEW N, NEW a, NEW m, Swapped(T, U, N, a, m),
         NEW x, NEW r \in Own(U, x)
  PROVE  Comes(N, a, x, r[1], r[2]) \/ Came(T, N, a, m, x, r[1], r[2])
<1>1. /\ IsText(T) /\ IsText(U) /\ IsText(N) /\ a \in Nat /\ m \in Nat
      /\ Len(T) \in Nat /\ Len(N) \in Nat
  BY SwappedLines
<1>2. /\ Bears(U, r, x) /\ r = <<r[1], r[2]>> /\ Server(U, Scanner, r[1], r[2])
      /\ r[1] \in Int /\ r[2] \in Int
  BY <1>1, OwnIs
<1>3. PICK i \in Int, j \in Int : i = r[1] /\ j = r[2]
  BY <1>2
<1>4. PICK l \in i..j : U[l] = Line("mark", x)
  BY <1>2, <1>3 DEF Bears
<1>5. Server(U, Scanner, i, j)
  BY <1>2, <1>3
<1>6. CASE \E g, h : /\ Server(N, Scanner, g, h) /\ Stands(N, U, Scanner, g, h, a)
                     /\ i = g + a /\ j = h + a
  <2>1. PICK g, h : /\ Server(N, Scanner, g, h) /\ Stands(N, U, Scanner, g, h, a)
                    /\ i = g + a /\ j = h + a
    BY <1>6
  <2>2. g \in 1..Len(N) /\ h \in 1..Len(N)
    BY <2>1 DEF Server, Block
  <2>3. PICK k \in g..h : l = k + a
    <3>1. l - a \in g..h /\ l = (l - a) + a
      BY <2>1, <2>2, <1>1
    <3> QED BY <3>1
  <2>4. N[k] = Line("mark", x)
    BY <2>1, <2>3, <1>4 DEF Stands
  <2>5. k \in 1..Len(N) /\ a + k \in i..j
    BY <2>2, <2>3, <1>1
  <2>6. Comes(N, a, x, i, j)
    BY <2>4, <2>5 DEF Comes
  <2> QED BY <2>6, <1>3
<1>7. CASE \E g, h : LET d == Move(a, m, Len(N), g) IN
             /\ Server(T, Scanner, g, h) /\ g \notin (a + 1)..(a + m)
             /\ Stands(T, U, Scanner, g, h, d) /\ i = g + d /\ j = h + d
  <2>1. PICK g, h : LET d == Move(a, m, Len(N), g) IN
             /\ Server(T, Scanner, g, h) /\ g \notin (a + 1)..(a + m)
             /\ Stands(T, U, Scanner, g, h, d) /\ i = g + d /\ j = h + d
    BY <1>7
  <2>2. g \in Int /\ h \in Int
    BY <2>1, <1>1 DEF Server, Block
  <2>3. PICK d \in Int : d = Move(a, m, Len(N), g)
    BY <1>1 DEF Move
  <2>4. Stands(T, U, Scanner, g, h, d) /\ i = g + d /\ j = h + d
    BY <2>1, <2>3
  <2>5. Same(T, <<g, h>>, U, <<g + d, h + d>>)
    BY <2>2, <2>4, StandsIsSame
  <2>6. Bears(T, <<g, h>>, x)
    BY <2>4, <2>5, <1>2, <1>3 DEF Same
  <2>7. <<g, h>> \in Ranges(T)
    BY <2>1, <1>1, RangesAre
  <2>8. Came(T, N, a, m, x, i, j)
    BY <2>1, <2>6, <2>7 DEF Came, Own
  <2> QED BY <2>8, <1>3
<1> QED BY <1>5, <1>6, <1>7, BothClose, ServerComes

\* One block stays one block.
LEMMA OneKept ==
  ASSUME NEW T, NEW U, NEW N, NEW a, NEW m, Swapped(T, U, N, a, m), NEW name,
         HoleOf(T, a, m, name), One(T, name), OneMark(N, name), NEW x, One(T, x)
  PROVE  One(U, x)
<1>1. /\ IsText(T) /\ IsText(U) /\ a \in Nat /\ m \in Nat /\ Len(N) \in Nat
  BY SwappedLines
<1>2. Good(U)
  BY SwappedIsGood
<1>3. PICK k : \A l \in 1..Len(N) : N[l].is = "mark" => l = k /\ N[l] = Line("mark", name)
  BY DEF OneMark
<1>4. Line("mark", x).is = "mark" /\ Line("mark", x).of = x /\ Line("mark", name).of = name
  BY DEF Line
<1>5. ASSUME NEW i, NEW j, Comes(N, a, x, i, j) PROVE x = name /\ a + k \in i..j
  <2>1. PICK l \in 1..Len(N) : N[l] = Line("mark", x) /\ a + l \in i..j
    BY <1>5 DEF Comes
  <2> QED BY <2>1, <1>3, <1>4
<1>6. ASSUME NEW i, NEW j, Came(T, N, a, m, x, i, j) PROVE x # name
  <2>1. PICK g, h : <<g, h>> \in Own(T, x) /\ g \notin (a + 1)..(a + m)
    BY <1>6 DEF Came
  <2>2. SUFFICES ASSUME x = name PROVE FALSE
    OBVIOUS
  <2>3. <<a + 1, a + m>> \in Own(T, name)
    BY <2>1, <2>2 DEF HoleOf
  <2>4. <<g, h>> = <<a + 1, a + m>>
    BY <2>1, <2>2, <2>3 DEF One
  <2>5. g = a + 1 /\ h = a + m
    BY <2>4
  <2> DEFINE q == <<g, h>>
  <2>6. q \in Own(T, x) /\ q[1] = g /\ q[2] = h
    BY <2>1
  <2> HIDE DEF q
  <2>7. g < h
    BY <2>6, <1>1, OwnIs
  <2> QED BY <2>1, <2>5, <2>7, <1>1
<1>7. ASSUME NEW r \in Own(U, x), NEW q \in Own(U, x) PROVE r = q
  <2>1. r = <<r[1], r[2]>> /\ q = <<q[1], q[2]>>
        /\ Server(U, Scanner, r[1], r[2]) /\ Server(U, Scanner, q[1], q[2])
    BY <1>1, OwnIs
  <2>2. CASE Comes(N, a, x, r[1], r[2])
    <3>1. ~Came(T, N, a, m, x, q[1], q[2])
      BY <2>2, <1>5, <1>6
    <3>2. Comes(N, a, x, q[1], q[2])
      BY <3>1, OwnComes
    <3>3. a + k \in r[1]..r[2] /\ a + k \in q[1]..q[2]
      BY <2>2, <3>2, <1>5
    <3>4. r[1] = q[1] /\ r[2] = q[2]
      BY <2>1, <3>3, <1>2, RangesApart
    <3> QED BY <2>1, <3>4
  <2>3. CASE Came(T, N, a, m, x, r[1], r[2])
    <3>1. ~Comes(N, a, x, q[1], q[2])
      BY <2>3, <1>5, <1>6
    <3>2. Came(T, N, a, m, x, q[1], q[2])
      BY <3>1, OwnComes
    <3>3. PICK g, h : /\ <<g, h>> \in Own(T, x)
                      /\ r[1] = g + Move(a, m, Len(N), g) /\ r[2] = h + Move(a, m, Len(N), g)
      BY <2>3 DEF Came
    <3>4. PICK g2, h2 : /\ <<g2, h2>> \in Own(T, x)
                        /\ q[1] = g2 + Move(a, m, Len(N), g2) /\ q[2] = h2 + Move(a, m, Len(N), g2)
      BY <3>2 DEF Came
    <3>5. <<g, h>> = <<g2, h2>>
      BY <3>3, <3>4 DEF One
    <3>6. g = g2 /\ h = h2
      BY <3>5
    <3> QED BY <2>1, <3>3, <3>4, <3>6
  <2> QED BY <2>2, <2>3, OwnComes
<1> QED BY <1>7 DEF One

\* The block has no mark but one of this name.
Only(t, r, name) == \A x : Bears(t, r, x) => x = name

\* Blocks that are this project's alone have its mark and its ports.
Holds(t, name, f, b) ==
  /\ \E r \in Ranges(t) : Only(t, r, name) /\ Bears(t, r, name)
  /\ \E r \in Ranges(t) : Only(t, r, name) /\ f \in PortsIn(t, r, "listen")
  /\ \E r \in Ranges(t) : Only(t, r, name) /\ b \in PortsIn(t, r, "proxy")

\* The new text brings these blocks.
LEMMA NewHolds ==
  ASSUME NEW T, NEW U, NEW N, NEW a, NEW m, Swapped(T, U, N, a, m),
         NEW name, NEW f, NEW b, NewText(N, name, f, b)
  PROVE  Holds(U, name, f, b)
<1>1. IsText(U) /\ IsText(N) /\ a \in Int /\ Len(N) \in Nat
  BY SwappedLines
<1>2. PICK k : MarkedAt(N, k, name)
  BY DEF NewText
<1>3. ASSUME NEW r \in Ranges(N)
      PROVE  \E q \in Ranges(U) : Same(N, r, U, q) /\ Only(U, q, name)
  <2>1. PICK i \in Int, j \in Int : r = <<i, j>> /\ Server(N, Scanner, i, j)
    BY <1>1, RangesAre
  <2>2. Stands(N, U, Scanner, i, j, a)
    BY <2>1, BothClose, NewStands
  <2> DEFINE q == <<i + a, j + a>>
  <2>3. Same(N, r, U, q)
    BY <2>1, <2>2, <1>1, StandsIsSame
  <2>4. q \in Ranges(U)
    BY <2>2, <1>1, RangesAre DEF Stands
  <2>5. r[1] = i /\ r[2] = j /\ i \in 1..Len(N) /\ j \in 1..Len(N)
    BY <2>1 DEF Server, Block
  <2> HIDE DEF q
  <2>6. ASSUME NEW x, Bears(U, q, x) PROVE x = name
    <3>1. Bears(N, r, x)
      BY <2>3, <2>6 DEF Same
    <3>2. PICK l \in i..j : N[l] = Line("mark", x)
      BY <3>1, <2>5 DEF Bears
    <3>3. l \in 1..Len(N) /\ N[l].is = "mark" /\ N[l].of = x
      BY <3>2, <2>5, <1>1 DEF Line
    <3>4. N[l] = Line("mark", name)
      BY <3>3, <1>2 DEF MarkedAt
    <3> QED BY <3>3, <3>4 DEF Line
  <2> QED BY <2>3, <2>4, <2>6 DEF Only
<1>4. PICK r \in Ranges(N) : k \in r[1]..r[2]
  BY <1>2 DEF MarkedAt
<1>5. Bears(N, r, name)
  BY <1>2, <1>4 DEF Bears, MarkedAt
<1>6. PICK s \in Ranges(N) : f \in PortsIn(N, s, "listen")
  BY DEF NewText, Confirmable
<1>7. PICK u \in Ranges(N) : b \in PortsIn(N, u, "proxy")
  BY DEF NewText, Confirmable
<1>8. \E q \in Ranges(U) : Only(U, q, name) /\ Bears(U, q, name)
  <2>1. PICK q \in Ranges(U) : Same(N, r, U, q) /\ Only(U, q, name)
    BY <1>3
  <2> QED BY <2>1, <1>5 DEF Same
<1>9. \E q \in Ranges(U) : Only(U, q, name) /\ f \in PortsIn(U, q, "listen")
  <2>1. PICK q \in Ranges(U) : Same(N, s, U, q) /\ Only(U, q, name)
    BY <1>3
  <2>2. PortsIn(N, s, "listen") = PortsIn(U, q, "listen")
    BY <2>1 DEF Same
  <2> QED BY <2>1, <2>2, <1>6
<1>10. \E q \in Ranges(U) : Only(U, q, name) /\ b \in PortsIn(U, q, "proxy")
  <2>1. PICK q \in Ranges(U) : Same(N, u, U, q) /\ Only(U, q, name)
    BY <1>3
  <2>2. PortsIn(N, u, "proxy") = PortsIn(U, q, "proxy")
    BY <2>1 DEF Same
  <2> QED BY <2>1, <2>2, <1>7
<1> QED BY <1>8, <1>9, <1>10 DEF Holds

\* What is not marked with this name is kept, and so are the include rules and the
\* number of blocks with a mark.
Keeps(T, U, name) ==
  /\ \A r \in Ranges(T) : ~Bears(T, r, name) => \E q \in Ranges(U) : Same(T, r, U, q)
  /\ Strangers(T, name) \subseteq Strangers(U, name)
  /\ Rules(T) \subseteq Rules(U)
  /\ \A x : One(T, x) => One(U, x)
  /\ Tame(T) => Tame(U)

\* A file that is not changed keeps everything.
LEMMA KeepsItself ==
  ASSUME NEW T, NEW name
  PROVE  Keeps(T, T, name)
<1>1. \A r : Same(T, r, T, r)
  BY DEF Same
<1> QED BY <1>1 DEF Keeps

\* Two changes for one name, as in a creation that is undone.
LEMMA KeepsTwice ==
  ASSUME NEW T, NEW U, NEW V, NEW name, Keeps(T, U, name), Keeps(U, V, name)
  PROVE  Keeps(T, V, name)
<1>1. ASSUME NEW r \in Ranges(T), ~Bears(T, r, name)
      PROVE  \E q \in Ranges(V) : Same(T, r, V, q)
  <2>1. PICK q \in Ranges(U) : Same(T, r, U, q)
    BY <1>1 DEF Keeps
  <2>2. ~Bears(U, q, name)
    BY <1>1, <2>1 DEF Same
  <2>3. PICK s \in Ranges(V) : Same(U, q, V, s)
    BY <2>2 DEF Keeps
  <2>4. Same(T, r, V, s)
    BY <2>1, <2>3 DEF Same
  <2> QED BY <2>4
<1>2. Strangers(T, name) \subseteq Strangers(V, name)
  BY DEF Keeps
<1>3. Rules(T) \subseteq Rules(V)
  BY DEF Keeps
<1>4. /\ \A x : One(T, x) => One(V, x)
      /\ Tame(T) => Tame(V)
  BY DEF Keeps
<1> QED BY <1>1, <1>2, <1>3, <1>4 DEF Keeps

\* Another project's blocks stay.
LEMMA HoldsKept ==
  ASSUME NEW T, NEW U, NEW name, Keeps(T, U, name),
         NEW x, x # name, NEW f, NEW b, Holds(T, x, f, b)
  PROVE  Holds(U, x, f, b)
<1>1. ASSUME NEW r \in Ranges(T), Only(T, r, x)
      PROVE  \E q \in Ranges(U) : Same(T, r, U, q) /\ Only(U, q, x)
  <2>1. ~Bears(T, r, name)
    BY <1>1 DEF Only
  <2>2. PICK q \in Ranges(U) : Same(T, r, U, q)
    BY <2>1 DEF Keeps
  <2>3. Only(U, q, x)
    BY <1>1, <2>2 DEF Only, Same
  <2> QED BY <2>2, <2>3
<1>2. \E q \in Ranges(U) : Only(U, q, x) /\ Bears(U, q, x)
  <2>1. PICK r \in Ranges(T) : Only(T, r, x) /\ Bears(T, r, x)
    BY DEF Holds
  <2>2. PICK q \in Ranges(U) : Same(T, r, U, q) /\ Only(U, q, x)
    BY <2>1, <1>1
  <2> QED BY <2>1, <2>2 DEF Same
<1>3. \E q \in Ranges(U) : Only(U, q, x) /\ f \in PortsIn(U, q, "listen")
  <2>1. PICK r \in Ranges(T) : Only(T, r, x) /\ f \in PortsIn(T, r, "listen")
    BY DEF Holds
  <2>2. PICK q \in Ranges(U) : Same(T, r, U, q) /\ Only(U, q, x)
    BY <2>1, <1>1
  <2>3. PortsIn(T, r, "listen") = PortsIn(U, q, "listen")
    BY <2>2 DEF Same
  <2> QED BY <2>1, <2>2, <2>3
<1>4. \E q \in Ranges(U) : Only(U, q, x) /\ b \in PortsIn(U, q, "proxy")
  <2>1. PICK r \in Ranges(T) : Only(T, r, x) /\ b \in PortsIn(T, r, "proxy")
    BY DEF Holds
  <2>2. PICK q \in Ranges(U) : Same(T, r, U, q) /\ Only(U, q, x)
    BY <2>1, <1>1
  <2>3. PortsIn(T, r, "proxy") = PortsIn(U, q, "proxy")
    BY <2>2 DEF Same
  <2> QED BY <2>1, <2>2, <2>3
<1> QED BY <1>2, <1>3, <1>4 DEF Holds

\* One change keeps this.
LEMMA SwappedKeeps ==
  ASSUME NEW T, NEW U, NEW N, NEW a, NEW m, Swapped(T, U, N, a, m), NEW name,
         HoleOf(T, a, m, name), One(T, name), OneMark(N, name)
  PROVE  Keeps(T, U, name)
<1>1. \A r \in Ranges(T) : ~Bears(T, r, name) => \E q \in Ranges(U) : Same(T, r, U, q)
  BY RangesKept
<1>2. Strangers(T, name) \subseteq Strangers(U, name)
  BY StrangersKept
<1>3. Rules(T) \subseteq Rules(U)
  BY RulesKept
<1>4. \A x : One(T, x) => One(U, x)
  BY OneKept
<1>5. Tame(U)
  BY SwappedIsGood DEF Good
<1> QED BY <1>1, <1>2, <1>3, <1>4, <1>5 DEF Keeps

\* A block is written.
LEMMA ReplacedKeeps ==
  ASSUME NEW T, Good(T), NEW name, One(T, name), NEW N, NEW f, NEW b, NewText(N, name, f, b),
         Sane(ReplaceOrAppend(T, name, N))
  PROVE  /\ Keeps(T, ReplaceOrAppend(T, name, N), name)
         /\ Holds(ReplaceOrAppend(T, name, N), name, f, b)
<1>1. IsText(T) /\ IsText(N) /\ Matched(N) /\ Tame(N)
  BY DEF Good, Sane, NewText
<1>2. PICK a \in Nat, m \in Nat : a + m <= Len(T) /\ HoleOf(T, a, m, name) /\ Hole(T, a, m)
  BY <1>1, HoleExists
<1>3. PICK U : U = ReplaceOrAppend(T, name, N)
  OBVIOUS
<1>4. U = Splice(T, a, m, N)
  BY <1>1, <1>2, <1>3, ReplacedIsSpliced
<1>5. Swapped(T, U, N, a, m)
  BY <1>1, <1>2, <1>3, <1>4 DEF Swapped
<1>6. OneMark(N, name)
  BY DEF NewText, MarkedAt, OneMark
<1>7. Keeps(T, U, name)
  BY <1>2, <1>5, <1>6, SwappedKeeps
<1>8. Holds(U, name, f, b)
  BY <1>5, NewHolds
<1> QED BY <1>3, <1>7, <1>8

\* Blocks are removed.
LEMMA RemovedKeeps ==
  ASSUME NEW T, Good(T), NEW name, One(T, name), Sane(RemoveBlocks(T, name))
  PROVE  Keeps(T, RemoveBlocks(T, name), name)
<1>1. IsText(T)
  BY DEF Good, Sane
<1>2. PICK a \in Nat, m \in Nat : a + m <= Len(T) /\ HoleOf(T, a, m, name) /\ Hole(T, a, m)
  BY <1>1, HoleExists
<1>3. PICK U : U = RemoveBlocks(T, name)
  OBVIOUS
<1>4. PICK N : N = <<>> /\ IsText(N) /\ Len(N) = 0 /\ Matched(N)
  BY EmptyText
<1>9. Tame(N)
  BY <1>4 DEF Tame, Server, Block
<1>5. U = Splice(T, a, m, N)
  BY <1>1, <1>2, <1>3, <1>4, RemovedIsSpliced
<1>6. Swapped(T, U, N, a, m)
  BY <1>2, <1>3, <1>4, <1>5, <1>9 DEF Swapped
<1>7. OneMark(N, name)
  <2>1. \A l \in 1..Len(N) : FALSE
    BY <1>4
  <2> QED BY <2>1 DEF OneMark
<1>8. Keeps(T, U, name)
  BY <1>2, <1>6, <1>7, SwappedKeeps
<1> QED BY <1>3, <1>8

-----------------------------------------------------------------------------
(* Which texts are written.                                                *)

\* The default text is a text, whatever the name.
LEMMA GeneratedText ==
  ASSUME NEW name, NEW f, NEW b
  PROVE  IsText(Generated(name, f, b))
<1> DEFINE N == Generated(name, f, b)
<1>1. /\ N = [k \in 1..7 |-> N[k]]
      /\ N[1] = Line("server", None) /\ N[2] = Line("listen", f) /\ N[3] = Line("mark", Safe[name])
      /\ N[4] = Line("location", None) /\ N[5] = Line("proxy", b)
      /\ N[6] = Line("close", None) /\ N[7] = Line("close", None)
  BY DEF Generated
<1>2. \A kind, of : Line(kind, of).is = kind /\ Line(kind, of).of = of
  BY DEF Line
<1> HIDE DEF N
<1>3. \A kind \in {"server", "listen", "mark", "location", "proxy", "close"} :
        kind \in LineKinds /\ kind # "include"
  BY DEF LineKinds, Opening, Opens, Closes, Scanner
<1>4. IsLine(Line("server", None))
  BY <1>2, <1>3 DEF IsLine
<1>5. \A of : \A kind \in {"listen", "mark", "location", "proxy", "close"} : IsLine(Line(kind, of))
  BY <1>2, <1>3 DEF IsLine
<1>6. \A k \in 1..7 : k \in {1, 2, 3, 4, 5, 6, 7}
  OBVIOUS
<1>7. \A k \in 1..7 : IsLine(N[k])
  BY <1>1, <1>4, <1>5, <1>6
<1> QED BY <1>1, <1>7, MadeOfLines DEF N

\* So is what is made of a text that is confirmed.
LEMMA MarkedText ==
  ASSUME NEW t, IsText(t), NEW name, NEW f, NEW b, Confirmable(t, f, b)
  PROVE  IsText(Marked(t, name))
<1> DEFINE mark == Line("mark", Safe[name])
           legacy == LinesOf(t, Line("legacy", Safe[name]))
           servers == LinesOf(t, Line("server", None))
<1>1. /\ Len(t) \in Nat /\ DOMAIN t = 1..Len(t) /\ t = [k \in 1..Len(t) |-> t[k]]
      /\ \A k \in 1..Len(t) : IsLine(t[k])
  BY TextLines
<1>2. IsLine(mark)
  BY DEF IsLine, Line, LineKinds
<1>3. CASE legacy # {}
  <2>1. PICK k \in legacy : k = Min(legacy)
    BY <1>3, MinLine
  <2> DEFINE N == [l \in 1..Len(t) |-> IF l = k THEN mark ELSE t[l]]
  <2>2. Marked(t, name) = N
    <3>1. Marked(t, name) = [t EXCEPT ![k] = mark]
      BY <1>3, <2>1 DEF Marked
    <3> HIDE DEF mark
    <3> QED BY <3>1, <1>1
  <2> HIDE DEF mark
  <2>3. N = [l \in 1..Len(t) |-> N[l]] /\ \A l \in 1..Len(t) : IsLine(N[l])
    BY <1>1, <1>2
  <2> HIDE DEF N
  <2> QED BY <2>2, <2>3, <1>1, MadeOfLines
<1>4. CASE legacy = {} /\ LinesOf(t, mark) # {}
  <2>1. Marked(t, name) = t
    BY <1>4 DEF Marked
  <2> QED BY <2>1
<1>5. CASE legacy = {} /\ LinesOf(t, mark) = {}
  <2>1. servers # {}
    <3>1. PICK r \in Ranges(t) : TRUE
      BY DEF Confirmable
    <3>2. Server(t, Scanner, r[1], r[2])
      BY RangesAre
    <3>3. r[1] \in 1..Len(t) /\ t[r[1]].is = "server"
      BY <3>2 DEF Server, Block
    <3>4. t[r[1]] = Line("server", None)
      BY <3>3, <1>1 DEF IsLine
    <3> QED BY <3>3, <3>4, <1>1 DEF LinesOf
  <2>2. PICK s \in servers : s = Min(servers)
    BY <2>1, MinLine
  <2>3. s \in Nat /\ s + 0 <= Len(t)
    BY <1>1 DEF LinesOf
  <2> DEFINE M == <<mark>>
  <2>4. Marked(t, name) = SubSeq(t, 1, (s + 1) - 1) \o M \o SubSeq(t, s + 1, Len(t))
    BY <1>5, <2>2 DEF Marked, InsertAt
  <2>5. IsText(M)
    <3>1. M = [k \in 1..1 |-> M[k]] /\ M[1] = mark
      OBVIOUS
    <3> HIDE DEF mark
    <3>2. \A k \in 1..1 : IsLine(M[k])
      BY <3>1, <1>2
    <3> HIDE DEF M
    <3> QED BY <3>1, <3>2, MadeOfLines
  <2> HIDE DEF M
  <2>6. PICK z \in Nat : z = 0
    OBVIOUS
  <2>7. s + z <= Len(t) /\ (s + 1) - 1 = s /\ s + 1 = s + z + 1
    BY <2>3, <2>6
  <2>8. SubSeq(t, 1, s) \o M \o SubSeq(t, s + z + 1, Len(t)) = Splice(t, s, z, M)
    BY <2>3, <2>5, <2>7, SplicedBetween
  <2>9. IsText(Splice(t, s, z, M))
    BY <2>3, <2>5, <2>7, Spliced
  <2> QED BY <2>4, <2>7, <2>8, <2>9
<1> QED BY <1>3, <1>4, <1>5

\* Whatever is written for a project is a text.
LEMMA TextsWritten ==
  ASSUME NEW p \in Projects, NEW w \in Chosen[p], NEW N \in SetTexts(p, w[2], w[3])
  PROVE  IsText(N)
<1>1. CASE N = Generated(NameOf[p], w[2], w[3])
  BY <1>1, GeneratedText
<1>2. CASE \E t \in Edits(p, w[2], w[3]) : Confirmable(t, w[2], w[3]) /\ N = Marked(t, NameOf[p])
  <2>1. PICK t \in Edits(p, w[2], w[3]) : Confirmable(t, w[2], w[3]) /\ N = Marked(t, NameOf[p])
    BY <1>2
  <2>2. IsText(t)
    BY BlockConstants
  <2> QED BY <2>1, <2>2, MarkedText
<1> QED BY <1>1, <1>2 DEF SetTexts

\* If users confirm ordinary texts, it has the mark and the ports.
LEMMA OrdinaryWritten ==
  ASSUME TextsAreOrdinary,
         NEW p \in Projects, NEW w \in Chosen[p], NEW N \in SetTexts(p, w[2], w[3])
  PROVE  NewText(N, NameOf[p], w[2], w[3])
<1>1. Safe[NameOf[p]] = NameOf[p]
  BY DEF TextsAreOrdinary
<1>2. CASE N = Generated(NameOf[p], w[2], w[3])
  BY <1>1, <1>2, GeneratedIsNew
<1>3. CASE \E t \in Edits(p, w[2], w[3]) : Confirmable(t, w[2], w[3]) /\ N = Marked(t, NameOf[p])
  <2>1. PICK t \in Edits(p, w[2], w[3]) : Confirmable(t, w[2], w[3]) /\ N = Marked(t, NameOf[p])
    BY <1>3
  <2>2. IsText(t)
    BY BlockConstants
  <2>3. Ordinary(t, NameOf[p])
    BY <2>2, TameIs DEF Ordinary, TextsAreOrdinary
  <2> QED BY <1>1, <2>1, <2>3, MarkedIsNew
<1> QED BY <1>2, <1>3 DEF SetTexts

-----------------------------------------------------------------------------
(* What a step does to the files and to the rows.                          *)

\* The text T of file d becomes U in a request for project p.
Turned(d, T, U, p) ==
  \/ U = T
  \/ U = RemoveBlocks(T, NameOf[p]) /\ Accepts(d, U)
  \/ \E w \in Chosen[p] : \E N \in SetTexts(p, w[2], w[3]) :
       U = ReplaceOrAppend(T, NameOf[p], N) /\ Accepts(d, U)
  \/ \E w \in Chosen[p] : \E N \in SetTexts(p, w[2], w[3]) : \E V :
       /\ V = ReplaceOrAppend(T, NameOf[p], N) /\ Accepts(d, V)
       /\ U = RemoveBlocks(V, NameOf[p]) /\ Accepts(d, U)

\* It is a text that Nginx accepts.
LEMMA TurnedText ==
  ASSUME NEW d, NEW T, IsText(T), Accepts(d, T), NEW p \in Projects, NEW U, Turned(d, T, U, p)
  PROVE  IsText(U) /\ Accepts(d, U)
<1>1. CASE U = T
  BY <1>1
<1>2. CASE U = RemoveBlocks(T, NameOf[p]) /\ Accepts(d, U)
  BY <1>2, RemovedText
<1>3. CASE \E w \in Chosen[p] : \E N \in SetTexts(p, w[2], w[3]) :
             U = ReplaceOrAppend(T, NameOf[p], N) /\ Accepts(d, U)
  BY <1>3, TextsWritten, ReplacedText
<1>4. CASE \E w \in Chosen[p] : \E N \in SetTexts(p, w[2], w[3]) : \E V :
             /\ V = ReplaceOrAppend(T, NameOf[p], N) /\ Accepts(d, V)
             /\ U = RemoveBlocks(V, NameOf[p]) /\ Accepts(d, U)
  BY <1>4, TextsWritten, ReplacedText, RemovedText
<1> QED BY <1>1, <1>2, <1>3, <1>4 DEF Turned

\* It keeps what has no mark of the project.
LEMMA TurnedKeeps ==
  ASSUME TextsAreOrdinary,
         NEW d, NEW T, IsText(T), Accepts(d, T), NEW p \in Projects, NEW U, Turned(d, T, U, p),
         One(T, NameOf[p]), CommentsClose(T)
  PROVE  Keeps(T, U, NameOf[p])
<1>1. Good(T)
  BY AcceptedIsSane, TameIs DEF Good
<1>2. CASE U = T
  BY <1>2, KeepsItself
<1>3. CASE U = RemoveBlocks(T, NameOf[p]) /\ Accepts(d, U)
  <2>1. Sane(U)
    BY <1>3, RemovedText, AcceptedIsSane
  <2> QED BY <1>1, <1>3, <2>1, RemovedKeeps
<1>4. CASE \E w \in Chosen[p] : \E N \in SetTexts(p, w[2], w[3]) :
             U = ReplaceOrAppend(T, NameOf[p], N) /\ Accepts(d, U)
  <2>0. PICK w \in Chosen[p] : \E N \in SetTexts(p, w[2], w[3]) :
          U = ReplaceOrAppend(T, NameOf[p], N) /\ Accepts(d, U)
    BY <1>4
  <2>1. PICK N \in SetTexts(p, w[2], w[3]) :
          U = ReplaceOrAppend(T, NameOf[p], N) /\ Accepts(d, U)
    BY <2>0
  <2>2. IsText(N) /\ NewText(N, NameOf[p], w[2], w[3])
    BY TextsWritten, OrdinaryWritten
  <2>3. Sane(U)
    BY <2>1, <2>2, ReplacedText, AcceptedIsSane
  <2> QED BY <1>1, <2>1, <2>2, <2>3, ReplacedKeeps
<1>5. CASE \E w \in Chosen[p] : \E N \in SetTexts(p, w[2], w[3]) : \E V :
             /\ V = ReplaceOrAppend(T, NameOf[p], N) /\ Accepts(d, V)
             /\ U = RemoveBlocks(V, NameOf[p]) /\ Accepts(d, U)
  <2> DEFINE Undone(N, V) == /\ V = ReplaceOrAppend(T, NameOf[p], N) /\ Accepts(d, V)
                             /\ U = RemoveBlocks(V, NameOf[p]) /\ Accepts(d, U)
  <2>8. PICK w \in Chosen[p] : \E N \in SetTexts(p, w[2], w[3]) : \E V : Undone(N, V)
    BY <1>5
  <2>9. PICK N \in SetTexts(p, w[2], w[3]) : \E V : Undone(N, V)
    BY <2>8
  <2>1. PICK V : Undone(N, V)
    BY <2>9
  <2>2. IsText(N) /\ NewText(N, NameOf[p], w[2], w[3])
    BY TextsWritten, OrdinaryWritten
  <2>3. Sane(V) /\ IsText(V)
    BY <2>1, <2>2, ReplacedText, AcceptedIsSane
  <2>4. Sane(U)
    BY <2>1, <2>3, RemovedText, AcceptedIsSane
  <2>5. Keeps(T, V, NameOf[p])
    BY <1>1, <2>1, <2>2, <2>3, ReplacedKeeps
  <2>6. One(V, NameOf[p]) /\ Good(V)
    BY <1>1, <2>3, <2>5 DEF Keeps, Good
  <2>7. Keeps(V, U, NameOf[p])
    BY <2>1, <2>3, <2>4, <2>6, RemovedKeeps
  <2> QED BY <2>5, <2>7, KeepsTwice
<1> QED BY <1>2, <1>3, <1>4, <1>5 DEF Turned

\* Files and rows are what is known of the files and projects that there are.
Shape == file = [c \in Confs |-> file[c]] /\ row = [p \in Projects |-> row[p]]

\* The rows of others stay, and so does what is known of them.
OthersStay(p) ==
  /\ \A q \in Projects : q # p => row'[q] = row[q] /\ (q \in written' <=> q \in written)
  /\ written' \subseteq written \cup {p}

Stays(p) ==
  /\ row'[p] = row[p] /\ (p \in written' <=> p \in written)
  /\ p \in written => file'[row[p].conf] = file[row[p].conf]

\* The row names no block that the platform wrote.
Gone(p) ==
  /\ p \notin written'
  /\ \/ row'[p] \in {NoRow, Unbound}
     \/ \E w \in Chosen[p] : row'[p] = Fields(w[1], w[2], w[3])

Writes(p) ==
  \E w \in Chosen[p] :
    /\ Selectable(w[1]) /\ PortsFit(p, w[2], w[3])
    /\ row'[p] = Fields(w[1], w[2], w[3]) /\ p \in written'
    /\ \E N \in SetTexts(p, w[2], w[3]) :
         file'[w[1]] = ReplaceOrAppend(file[w[1]], NameOf[p], N) /\ Accepts(w[1], file'[w[1]])

Step(p) ==
  /\ Shape' /\ local' = local
  /\ \A d \in Confs : Turned(d, file[d], file'[d], p)
  /\ OthersStay(p)
  /\ Stays(p) \/ Gone(p) \/ Writes(p)

\* What a new row changes.
LEMMA Bound ==
  ASSUME Shape, NEW p \in Projects, NEW fields, Bind(p, fields)
  PROVE  /\ row' = [q \in Projects |-> row'[q]] /\ row'[p] = fields
         /\ \A q \in Projects : q # p => row'[q] = row[q]
<1>1. row' = [q \in Projects |-> IF q = p THEN fields ELSE row[q]]
  BY DEF Shape, Bind
<1> QED BY <1>1

\* What a new text changes.
LEMMA Applied ==
  ASSUME Shape, NEW c \in Confs, NEW U, Apply(c, U)
  PROVE  /\ file' = [d \in Confs |-> file'[d]] /\ file'[c] = U /\ Accepts(c, U)
         /\ \A d \in Confs : d # c => file'[d] = file[d]
<1>1. file' = [d \in Confs |-> IF d = c THEN U ELSE file[d]]
  BY DEF Shape, Apply
<1> QED BY <1>1 DEF Apply

\* A row names a file, if it names one.
LEMMA RowConf ==
  ASSUME TypeOK, NEW p \in Projects, row[p] # NoRow, row[p].conf # None
  PROVE  row[p].conf \in Confs
<1>1. row[p] # Unbound
  BY DEF Unbound, Fields
<1>2. <<row[p].conf, row[p].front, row[p].back>> \in Chosen[p]
  BY <1>1 DEF TypeOK
<1>3. PICK w \in Chosen[p] : w = <<row[p].conf, row[p].front, row[p].back>>
  BY <1>2
<1>4. w[1] \in Confs /\ w[1] = row[p].conf
  BY <1>3, BlockConstants
<1> QED BY <1>4

\* A creation with Nginx.
LEMMA CreateIsStep ==
  ASSUME TypeOK, Shape, NEW p \in Projects, NEW w \in Chosen[p],
         Selectable(w[1]), PortsFit(p, w[2], w[3]), Create(p, w[1], w[2], w[3])
  PROVE  Step(p)
<1>1. w[1] \in Confs
  BY BlockConstants
<1>2. PICK text \in Edits(p, w[2], w[3]) :
        /\ Confirmable(text, w[2], w[3])
        /\ Apply(w[1], ReplaceOrAppend(file[w[1]], NameOf[p], Marked(text, NameOf[p])))
  BY DEF Create
<1>3. PICK N \in SetTexts(p, w[2], w[3]) : N = Marked(text, NameOf[p])
  BY <1>2 DEF SetTexts
<1>4. PICK U : U = ReplaceOrAppend(file[w[1]], NameOf[p], N)
  OBVIOUS
<1>5. Apply(w[1], U)
  BY <1>2, <1>3, <1>4
<1>6. /\ file' = [d \in Confs |-> file'[d]] /\ file'[w[1]] = U /\ Accepts(w[1], U)
      /\ \A d \in Confs : d # w[1] => file'[d] = file[d]
  BY <1>1, <1>5, Applied
<1>7. Bind(p, Fields(w[1], w[2], w[3])) /\ written' = written \cup {p} /\ local' = local
  BY DEF Create
<1>8. /\ row' = [q \in Projects |-> row'[q]] /\ row'[p] = Fields(w[1], w[2], w[3])
      /\ \A q \in Projects : q # p => row'[q] = row[q]
  BY <1>7, Bound
<1>9. \A d \in Confs : Turned(d, file[d], file'[d], p)
  BY <1>4, <1>6 DEF Turned
<1>10. OthersStay(p)
  BY <1>7, <1>8 DEF OthersStay
<1>11. Writes(p)
  BY <1>4, <1>6, <1>7, <1>8 DEF Writes
<1> QED BY <1>6, <1>7, <1>8, <1>9, <1>10, <1>11 DEF Step, Shape

\* A creation that is rolled back.
LEMMA CreateUndoneIsStep ==
  ASSUME TypeOK, Shape, NEW p \in Projects, NEW w \in Chosen[p],
         CreateUndone(p, w[1], w[2], w[3])
  PROVE  Step(p)
<1>1. w[1] \in Confs
  BY BlockConstants
<1>2. PICK text \in Edits(p, w[2], w[3]) :
        LET made == ReplaceOrAppend(file[w[1]], NameOf[p], Marked(text, NameOf[p])) IN
          /\ Confirmable(text, w[2], w[3]) /\ Accepts(w[1], made)
          /\ Apply(w[1], RemoveBlocks(made, NameOf[p]))
  BY DEF CreateUndone
<1>3. PICK N \in SetTexts(p, w[2], w[3]) : N = Marked(text, NameOf[p])
  BY <1>2 DEF SetTexts
<1>4. PICK V : V = ReplaceOrAppend(file[w[1]], NameOf[p], N)
  OBVIOUS
<1>5. PICK U : U = RemoveBlocks(V, NameOf[p])
  OBVIOUS
<1>6. Accepts(w[1], V) /\ Apply(w[1], U)
  BY <1>2, <1>3, <1>4, <1>5
<1>7. /\ file' = [d \in Confs |-> file'[d]] /\ file'[w[1]] = U /\ Accepts(w[1], U)
      /\ \A d \in Confs : d # w[1] => file'[d] = file[d]
  BY <1>1, <1>6, Applied
<1>8. row[p] = NoRow /\ row' = row /\ written' = written /\ local' = local
  BY DEF CreateUndone
<1>9. \A d \in Confs : Turned(d, file[d], file'[d], p)
  BY <1>4, <1>5, <1>6, <1>7 DEF Turned
<1>10. p \notin written
  BY <1>8 DEF TypeOK
<1> QED BY <1>7, <1>8, <1>9, <1>10 DEF Step, Shape, OthersStay, Stays

\* Settings with Nginx on: one file written, the old one cleaned, or not.
LEMMA SetIsStep ==
  ASSUME TypeOK, Shape, NEW p \in Projects, NEW w \in Chosen[p],
         Selectable(w[1]), PortsFit(p, w[2], w[3]),
         NEW drop, Set(p, w[1], w[2], w[3], drop)
  PROVE  Step(p)
<1> DEFINE old == IF drop /\ row[p].conf \notin {None, w[1]} THEN row[p].conf ELSE w[1]
           made(N) == [file EXCEPT ![w[1]] = ReplaceOrAppend(@, NameOf[p], N)]
           left(N) == IF old = w[1] THEN made(N)
                      ELSE [made(N) EXCEPT ![old] = RemoveBlocks(@, NameOf[p])]
<1>1. w[1] \in Confs /\ row[p] # NoRow /\ local' = local
  BY BlockConstants DEF Set
<1>2. old \in Confs
  BY <1>1, RowConf
<1>3. PICK N \in SetTexts(p, w[2], w[3]) :
        /\ Accepts(w[1], made(N)[w[1]])
        /\ \/ /\ Accepts(old, left(N)[old]) /\ file' = left(N)
              /\ Bind(p, Fields(w[1], w[2], w[3])) /\ written' = written \cup {p}
           \/ old # w[1] /\ file' = made(N) /\ UNCHANGED <<row, written>>
  BY DEF Set
<1>4. PICK U : U = ReplaceOrAppend(file[w[1]], NameOf[p], N)
  OBVIOUS
<1>5. made(N) = [d \in Confs |-> IF d = w[1] THEN U ELSE file[d]]
  BY <1>4 DEF Shape
<1>6. Accepts(w[1], U)
  <2>1. made(N)[w[1]] = U
    BY <1>1, <1>5
  <2> QED BY <2>1, <1>3
<1>7. CASE /\ Accepts(old, left(N)[old]) /\ file' = left(N)
           /\ Bind(p, Fields(w[1], w[2], w[3])) /\ written' = written \cup {p}
  <2>1. /\ row' = [q \in Projects |-> row'[q]] /\ row'[p] = Fields(w[1], w[2], w[3])
        /\ \A q \in Projects : q # p => row'[q] = row[q]
    BY <1>7, Bound
  <2>2. /\ file' = [d \in Confs |-> file'[d]] /\ file'[w[1]] = U
        /\ \A d \in Confs : Turned(d, file[d], file'[d], p)
    <3>1. CASE old = w[1]
      <4>1. file' = [d \in Confs |-> IF d = w[1] THEN U ELSE file[d]]
        BY <3>1, <1>5, <1>7
      <4>2. \A d \in Confs : file'[d] = IF d = w[1] THEN U ELSE file[d]
        BY <4>1
      <4>3. \A d \in Confs : Turned(d, file[d], file'[d], p)
        BY <4>2, <1>4, <1>6 DEF Turned
      <4> QED BY <4>1, <4>2, <4>3, <1>1
    <3>2. CASE old # w[1]
      <4>1. PICK R : R = RemoveBlocks(file[old], NameOf[p])
        OBVIOUS
      <4>2. made(N)[old] = file[old]
        BY <3>2, <1>2, <1>5
      <4>3. left(N) = [made(N) EXCEPT ![old] = R]
        BY <3>2, <4>1, <4>2
      <4>4. left(N) = [d \in Confs |-> IF d = old THEN R ELSE IF d = w[1] THEN U ELSE file[d]]
        BY <4>3, <1>5
      <4>5. \A d \in Confs :
              file'[d] = IF d = old THEN R ELSE IF d = w[1] THEN U ELSE file[d]
        BY <4>4, <1>7
      <4>6. Accepts(old, R)
        BY <4>5, <1>2, <1>7
      <4>7. \A d \in Confs : Turned(d, file[d], file'[d], p)
        BY <4>1, <4>5, <4>6, <1>4, <1>6 DEF Turned
      <4>8. file' = [d \in Confs |-> file'[d]]
        BY <4>4, <1>7
      <4>9. file'[w[1]] = U
        BY <4>5, <3>2, <1>1
      <4> QED BY <4>7, <4>8, <4>9
    <3> QED BY <3>1, <3>2
  <2>3. OthersStay(p)
    BY <2>1, <1>7 DEF OthersStay
  <2>4. Writes(p)
    <3>1. p \in written'
      BY <1>7
    <3>2. /\ row'[p] = Fields(w[1], w[2], w[3])
          /\ file'[w[1]] = ReplaceOrAppend(file[w[1]], NameOf[p], N) /\ Accepts(w[1], file'[w[1]])
      BY <2>1, <2>2, <1>4, <1>6
    <3> QED BY <3>1, <3>2, <1>1 DEF Writes
  <2> QED BY <2>1, <2>2, <2>3, <2>4, <1>1 DEF Step, Shape
<1>8. CASE old # w[1] /\ file' = made(N) /\ UNCHANGED <<row, written>>
  <2>1. \A d \in Confs : file'[d] = IF d = w[1] THEN U ELSE file[d]
    BY <1>5, <1>8
  <2>2. \A d \in Confs : Turned(d, file[d], file'[d], p)
    BY <2>1, <1>4, <1>6 DEF Turned
  <2>3. file'[row[p].conf] = file[row[p].conf]
    BY <2>1, <1>2, <1>8
  <2>4. Stays(p) /\ OthersStay(p)
    BY <2>3, <1>8 DEF Stays, OthersStay
  <2>5. file' = [d \in Confs |-> file'[d]]
    BY <1>5, <1>8
  <2> QED BY <2>2, <2>4, <2>5, <1>1, <1>8 DEF Step, Shape
<1> QED BY <1>3, <1>7, <1>8

\* A request that takes the blocks of a file away, or leaves it, and the row.
LEMMA DropIsStep ==
  ASSUME TypeOK, Shape, NEW p \in Projects, NEW c \in Confs,
         file' = file \/ Apply(c, RemoveBlocks(file[c], NameOf[p])),
         NEW fields \in {NoRow, Unbound}, Bind(p, fields), written' = written \ {p}, local' = local
  PROVE  Step(p)
<1>1. /\ row' = [q \in Projects |-> row'[q]] /\ row'[p] = fields
      /\ \A q \in Projects : q # p => row'[q] = row[q]
  BY Bound
<1>2. OthersStay(p) /\ Gone(p)
  BY <1>1 DEF OthersStay, Gone
<1>3. CASE file' = file
  <2>1. \A d \in Confs : Turned(d, file[d], file'[d], p)
    BY <1>3 DEF Turned
  <2> QED BY <2>1, <1>1, <1>2, <1>3 DEF Step, Shape
<1>4. CASE Apply(c, RemoveBlocks(file[c], NameOf[p]))
  <2>1. PICK R : R = RemoveBlocks(file[c], NameOf[p])
    OBVIOUS
  <2>2. /\ file' = [d \in Confs |-> file'[d]] /\ file'[c] = R /\ Accepts(c, R)
        /\ \A d \in Confs : d # c => file'[d] = file[d]
    BY <2>1, <1>4, Applied
  <2>3. \A d \in Confs : Turned(d, file[d], file'[d], p)
    BY <2>1, <2>2 DEF Turned
  <2> QED BY <2>2, <2>3, <1>1, <1>2 DEF Step, Shape
<1> QED BY <1>3, <1>4

\* Every request.
LEMMA ActIsStep ==
  ASSUME TypeOK, Shape, NEW p \in Projects, Act(p)
  PROVE  Step(p)
<1>1. CASE CreatePlain(p)
  <2>1. Bind(p, Unbound) /\ file' = file /\ written' = written /\ local' = local /\ row[p] = NoRow
    BY <1>1 DEF CreatePlain
  <2>2. /\ row' = [q \in Projects |-> row'[q]] /\ row'[p] = Unbound
        /\ \A q \in Projects : q # p => row'[q] = row[q]
    BY <2>1, Bound
  <2>3. p \notin written
    BY <2>1 DEF TypeOK
  <2>4. OthersStay(p) /\ Gone(p)
    BY <2>1, <2>2, <2>3 DEF OthersStay, Gone
  <2>5. \A d \in Confs : Turned(d, file[d], file'[d], p)
    BY <2>1 DEF Turned
  <2> QED BY <2>1, <2>2, <2>4, <2>5 DEF Step, Shape
<1>2. CASE \E drop \in BOOLEAN : Unset(p, drop)
  <2>1. PICK drop \in BOOLEAN : Unset(p, drop)
    BY <1>2
  <2>2. PICK c \in Confs : file' = file \/ Apply(c, RemoveBlocks(file[c], NameOf[p]))
    <3>1. CASE drop /\ row[p].conf # None
      BY <3>1, <2>1, RowConf DEF Unset
    <3>2. CASE ~(drop /\ row[p].conf # None)
      BY <3>2, <2>1, BlockConstants DEF Unset
    <3> QED BY <3>1, <3>2
  <2>3. Bind(p, Unbound) /\ written' = written \ {p} /\ local' = local
    BY <2>1 DEF Unset, Forget
  <2>4. PICK fields \in {NoRow, Unbound} : fields = Unbound
    OBVIOUS
  <2> QED BY <2>2, <2>3, <2>4, DropIsStep
<1>3. CASE \E whole \in BOOLEAN : Delete(p, whole)
  <2>1. PICK whole \in BOOLEAN : Delete(p, whole)
    BY <1>3
  <2>2. PICK c \in Confs : file' = file \/ Apply(c, RemoveBlocks(file[c], NameOf[p]))
    <3>1. PICK c : c = IF row[p].conf = None THEN MainConf ELSE row[p].conf
      OBVIOUS
    <3>2. c \in Confs
      BY <3>1, <2>1, RowConf, BlockConstants DEF Delete
    <3>3. file' = file \/ Apply(c, RemoveBlocks(file[c], NameOf[p]))
      BY <3>1, <2>1 DEF Delete
    <3> QED BY <3>2, <3>3
  <2>3. Bind(p, NoRow) /\ written' = written \ {p} /\ local' = local
    BY <2>1 DEF Delete
  <2>4. PICK fields \in {NoRow, Unbound} : fields = NoRow
    OBVIOUS
  <2> QED BY <2>2, <2>3, <2>4, DropIsStep
<1>4. CASE \E w \in Chosen[p] : Sync(p, w[1], w[2], w[3])
  <2>1. PICK w \in Chosen[p] : Sync(p, w[1], w[2], w[3])
    BY <1>4
  <2>2. /\ Bind(p, Fields(w[1], w[2], w[3])) /\ row[p] = NoRow
        /\ file' = file /\ written' = written /\ local' = local
    BY <2>1 DEF Sync
  <2>3. /\ row' = [q \in Projects |-> row'[q]] /\ row'[p] = Fields(w[1], w[2], w[3])
        /\ \A q \in Projects : q # p => row'[q] = row[q]
    BY <2>2, Bound
  <2>4. p \notin written
    BY <2>2 DEF TypeOK
  <2>5. OthersStay(p) /\ Gone(p)
    BY <2>2, <2>3, <2>4 DEF OthersStay, Gone
  <2>6. \A d \in Confs : Turned(d, file[d], file'[d], p)
    BY <2>2 DEF Turned
  <2> QED BY <2>2, <2>3, <2>5, <2>6 DEF Step, Shape
<1>5. CASE \E w \in Chosen[p] : WriteBlock(p, w[1], w[2], w[3])
  BY <1>5, CreateIsStep, CreateUndoneIsStep, SetIsStep DEF WriteBlock
<1> QED BY <1>1, <1>2, <1>3, <1>4, <1>5 DEF Act

-----------------------------------------------------------------------------
(* Types, and what Nginx accepts.                                          *)

Accepted == \A c \in Confs : Accepts(c, file[c])

Sound == TypeOK /\ Shape /\ Accepted

\* At first.
LEMMA InitIsSound ==
  ASSUME Init
  PROVE  Sound
<1>1. file = [c \in Confs |-> Installed[c]] /\ \A c \in Confs : file[c] = Installed[c]
  BY BlockConstants DEF Init
<1>2. row = [p \in Projects |-> NoRow] /\ \A p \in Projects : row[p] = NoRow
  BY DEF Init
<1>3. TypeOK
  BY <1>1, <1>2, BlockConstants DEF Init, TypeOK
<1>4. Shape /\ Accepted
  BY <1>1, <1>2, BlockConstants DEF Shape, Accepted
<1> QED BY <1>3, <1>4 DEF Sound

\* A row that a request binds is one of those that users choose.
LEMMA ChosenRow ==
  ASSUME NEW p \in Projects, NEW w \in Chosen[p], NEW r, r = Fields(w[1], w[2], w[3])
  PROVE  /\ r.conf = w[1] /\ r.front = w[2] /\ r.back = w[3] /\ w[1] \in Confs
         /\ <<r.conf, r.front, r.back>> \in Chosen[p]
         /\ r \notin {NoRow, Unbound}
<1>1. w = <<w[1], w[2], w[3]>> /\ w[1] \in Confs /\ NoRow # Fields(w[1], w[2], w[3])
      /\ None \notin Confs
  BY BlockConstants
<1>2. r.conf = w[1] /\ r.front = w[2] /\ r.back = w[3] /\ Unbound.conf = None
  BY DEF Fields, Unbound
<1> QED BY <1>1, <1>2

\* A step leaves texts that Nginx accepts, and rows that users chose.
LEMMA StepIsSound ==
  ASSUME Sound, NEW p \in Projects, Step(p)
  PROVE  Sound'
<1>1. ASSUME NEW d \in Confs PROVE IsText(file'[d]) /\ Accepts(d, file'[d])
  <2>1. IsText(file[d]) /\ Accepts(d, file[d]) /\ Turned(d, file[d], file'[d], p)
    BY DEF Sound, TypeOK, Accepted, Step
  <2> QED BY <2>1, TurnedText
<1>2. /\ \A q \in Projects : q # p => row'[q] = row[q] /\ (q \in written' <=> q \in written)
      /\ written' \subseteq written \cup {p} /\ local' = local /\ Shape'
  BY DEF Step, OthersStay
<1>3. /\ local \in BOOLEAN /\ written \subseteq Projects
      /\ \A q \in Projects : row[q] \notin {NoRow, Unbound} =>
           <<row[q].conf, row[q].front, row[q].back>> \in Chosen[q]
      /\ \A q \in written : row[q] \notin {NoRow, Unbound}
  BY DEF Sound, TypeOK
<1> DEFINE Fine(q) == /\ row'[q] \notin {NoRow, Unbound} =>
                           <<row'[q].conf, row'[q].front, row'[q].back>> \in Chosen[q]
                      /\ q \in written' => row'[q] \notin {NoRow, Unbound}
<1>4. Fine(p)
  <2>1. CASE Stays(p)
    BY <2>1, <1>3 DEF Stays
  <2>2. CASE Gone(p)
    BY <2>2, ChosenRow DEF Gone
  <2>3. CASE Writes(p)
    <3>1. PICK w \in Chosen[p] : row'[p] = Fields(w[1], w[2], w[3])
      BY <2>3 DEF Writes
    <3> QED BY <3>1, ChosenRow
  <2> QED BY <2>1, <2>2, <2>3 DEF Step
<1>5. \A q \in Projects : Fine(q)
  BY <1>2, <1>3, <1>4
<1>6. TypeOK'
  BY <1>1, <1>2, <1>3, <1>5 DEF TypeOK
<1>7. Accepted'
  BY <1>1 DEF Accepted
<1> QED BY <1>2, <1>6, <1>7 DEF Sound

\* Where nothing changes.
LEMMA StutterIsSound ==
  ASSUME Sound, UNCHANGED vars
  PROVE  Sound'
<1>1. local' = local /\ file' = file /\ row' = row /\ written' = written
  BY DEF vars
<1> QED BY <1>1 DEF Sound, TypeOK, Shape, Accepted

\* Both together.
LEMMA SoundNext ==
  ASSUME Sound, [Next]_vars
  PROVE  Sound'
<1>1. CASE Next
  <2>1. PICK p \in Projects : Act(p)
    BY <1>1 DEF Next
  <2>2. Step(p)
    BY <2>1, ActIsStep DEF Sound
  <2> QED BY <2>2, StepIsSound
<1>2. CASE UNCHANGED vars
  BY <1>2, StutterIsSound
<1> QED BY <1>1, <1>2

\* Every file is a text, every row has what a user chose, and what the platform wrote
\* has a row (nginx_server_blocks.py, project_update.py), whatever texts users confirm.
THEOREM TypeCorrect == Spec => []TypeOK
<1>1. Init => Sound
  BY InitIsSound
<1>2. Sound /\ [Next]_vars => Sound'
  BY SoundNext
<1>3. Sound => TypeOK
  BY DEF Sound
<1> QED BY <1>1, <1>2, <1>3, PTL DEF Spec

-----------------------------------------------------------------------------
(* One block for each mark, and nothing of others.                         *)

\* The range of each server is within it.
Closing == \A c \in Confs : CommentsClose(file[c])

Single == Sound /\ OneBlockPerMark /\ Closing

\* At first no file has two blocks with one mark.
LEMMA InitIsSingle ==
  ASSUME TextsAreOrdinary, Init
  PROVE  Single
<1>1. Sound
  BY InitIsSound
<1>2. \A c \in Confs : file[c] = Installed[c]
  BY DEF Init
<1> QED BY <1>1, <1>2 DEF Single, OneBlockPerMark, Closing, TextsAreOrdinary

\* A request keeps everything but what has the mark of one project.
LEMMA FilesKept ==
  ASSUME TextsAreOrdinary, Single, NEW p \in Projects, Step(p), NEW c \in Confs
  PROVE  Keeps(file[c], file'[c], NameOf[p])
<1>1. /\ IsText(file[c]) /\ Accepts(c, file[c]) /\ Turned(c, file[c], file'[c], p)
      /\ CommentsClose(file[c])
  BY DEF Single, Closing, Sound, TypeOK, Accepted, Step
<1>2. One(file[c], NameOf[p])
  BY DEF Single, OneBlockPerMark, One
<1> QED BY <1>1, <1>2, TurnedKeeps

\* A step makes no second block with a mark.
LEMMA StepIsSingle ==
  ASSUME TextsAreOrdinary, Single, NEW p \in Projects, Step(p)
  PROVE  Single'
<1>1. Sound'
  BY StepIsSound DEF Single
<1>2. ASSUME NEW c \in Confs, NEW q \in Projects PROVE One(file'[c], NameOf[q])
  <2>1. Keeps(file[c], file'[c], NameOf[p])
    BY FilesKept
  <2>2. One(file[c], NameOf[q])
    BY DEF Single, OneBlockPerMark, One
  <2> QED BY <2>1, <2>2 DEF Keeps
<1>3. OneBlockPerMark'
  BY <1>2 DEF OneBlockPerMark, One
<1>4. Closing'
  <2> SUFFICES ASSUME NEW c \in Confs PROVE CommentsClose(file'[c])
    BY DEF Closing
  <2>1. IsText(file[c]) /\ IsText(file'[c]) /\ CommentsClose(file[c])
    BY <1>1 DEF Single, Closing, Sound, TypeOK
  <2>2. Keeps(file[c], file'[c], NameOf[p])
    BY FilesKept
  <2>3. Tame(file'[c])
    BY <2>1, <2>2, TameIs DEF Keeps
  <2> QED BY <2>1, <2>3, TameIs
<1> QED BY <1>1, <1>3, <1>4 DEF Single

\* Nor does a stutter.
LEMMA SingleNext ==
  ASSUME TextsAreOrdinary, Single, [Next]_vars
  PROVE  Single'
<1>1. CASE Next
  <2>1. PICK p \in Projects : Act(p)
    BY <1>1 DEF Next
  <2>2. Step(p)
    BY <2>1, ActIsStep DEF Single, Sound
  <2> QED BY <2>2, StepIsSingle
<1>2. CASE UNCHANGED vars
  <2>1. Sound'
    BY <1>2, StutterIsSound DEF Single
  <2>2. file' = file
    BY <1>2 DEF vars
  <2> QED BY <2>1, <2>2 DEF Single, OneBlockPerMark, Closing
<1> QED BY <1>1, <1>2

\* No request ever makes a second block with one mark (nginx_server_blocks.py:173-186), if
\* the marks in texts that users confirm are their own project's and no comment in a
\* server opens a brace that it does not close (34-43).
THEOREM OneBlock == ASSUME TextsAreOrdinary PROVE Spec => []OneBlockPerMark
<1>1. Init => Single
  BY InitIsSingle
<1>2. Single /\ [Next]_vars => Single'
  BY SingleNext
<1>3. Single => OneBlockPerMark
  BY DEF Single
<1> QED BY <1>1, <1>2, <1>3, PTL DEF Spec

\* A request leaves every block without the mark of its project as Nginx reads it
\* (nginx_server_blocks.py:50-51, 178), if no comment or string in a server opens a brace
\* that none closes (34-43): otherwise its range takes in what follows, see OthersUntouched.
THEOREM OthersLeft == ASSUME TextsAreOrdinary PROVE Spec => OthersUntouched
<1> DEFINE Untouched ==
      \E n \in DOMAIN Safe : \A c \in Confs : file[c]' # file[c] =>
        Strangers(file[c], n) \subseteq Strangers(file[c], n)'
<1>1. Init => Single
  BY InitIsSingle
<1>2. Single /\ [Next]_vars => Single'
  BY SingleNext
<1>3. ASSUME Single, Next PROVE Untouched
  <2>1. PICK p \in Projects : Act(p)
    BY <1>3 DEF Next
  <2>2. Step(p)
    BY <2>1, <1>3, ActIsStep DEF Single, Sound
  <2>3. NameOf[p] \in DOMAIN Safe
    BY BlockConstants
  <2>4. ASSUME NEW c \in Confs
        PROVE  Strangers(file[c], NameOf[p]) \subseteq Strangers(file'[c], NameOf[p])
    BY <2>2, <1>3, FilesKept DEF Keeps
  <2> QED BY <2>3, <2>4
<1>4. Single /\ [Next]_vars => [Untouched]_file
  BY <1>3 DEF vars
<1>5. Spec => [][Untouched]_file
  <2> HIDE DEF Untouched
  <2> QED BY <1>1, <1>2, <1>4, PTL DEF Spec
<1> QED BY <1>5 DEF OthersUntouched

-----------------------------------------------------------------------------
(* What was written is found again, and no port is given away twice.       *)

\* With these include rules the inventory reaches this file, if it is there.
Reached(rules, c) == c = MainConf \/ \E i \in rules : c \in Pattern[i].files

Placed ==
  \A p \in written :
    /\ Holds(file[row[p].conf], NameOf[p], row[p].front, row[p].back)
    /\ Reached(Includes, row[p].conf)

Found == Single /\ Placed /\ PortsApart

\* Include rules are rules.
LEMMA RulesAreRules ==
  ASSUME Sound, NEW i \in Includes
  PROVE  i \in DOMAIN Pattern
<1> DEFINE t == file[MainConf]
<1>1. IsText(t)
  BY BlockConstants DEF Sound, TypeOK
<1> HIDE DEF t
<1>2. i \in Rules(t)
  BY DEF Includes, Rules, t
<1>3. ASSUME NEW s, IsText(s), i \in Direct(s) PROVE i \in DOMAIN Pattern
  <2>1. PICK k : RuleAt(s, k, 0, i)
    BY <1>3, DirectRules
  <2>2. IsLine(s[k])
    BY <2>1, <1>3, TextLines DEF RuleAt
  <2> QED BY <2>1, <2>2 DEF RuleAt, IsLine
<1>4. CASE i \in Direct(t)
  BY <1>1, <1>3, <1>4
<1>5. CASE \E r \in BlocksOf(t, "http", Nginx) : i \in Direct(SubSeq(t, r[1] + 1, r[2] - 1))
  <2>1. PICK r \in BlocksOf(t, "http", Nginx) : i \in Direct(SubSeq(t, r[1] + 1, r[2] - 1))
    BY <1>5
  <2>2. Block(t, Nginx, r[1], r[2])
    BY <1>1, BothClose, Blocks
  <2>3. PICK x \in Nat, y \in Nat : x = r[1] /\ y = r[2] /\ x < y /\ y <= Len(t)
    BY <2>2, <1>1, TextLines DEF Block
  <2>4. IsText(SubSeq(t, x + 1, y - 1))
    BY <1>1, <2>3, PartOfText
  <2> QED BY <2>1, <2>3, <2>4, <1>3
<1> QED BY <1>2, <1>4, <1>5 DEF Rules

\* A file that may be written is reached.
LEMMA SelectableIsReached ==
  ASSUME RulesAreWhole, Sound, NEW c \in Confs, Selectable(c)
  PROVE  Reached(Includes, c)
<1>1. CASE c \in ListedFiles
  BY <1>1 DEF ListedFiles, Reached
<1>2. CASE DirOf[c] \in NewDirs
  <2>1. PICK i \in Includes : Pattern[i].conf /\ DirOf[c] = Pattern[i].dir
    BY <1>2 DEF NewDirs
  <2>2. i \in DOMAIN Pattern
    BY RulesAreRules
  <2> QED BY <2>1, <2>2 DEF RulesAreWhole, Reached
<1> QED BY <1>1, <1>2 DEF Selectable

\* A file with a block is there.
LEMMA HoldsIsThere ==
  ASSUME NEW t, IsText(t), NEW r \in Ranges(t)
  PROVE  t # <<>>
<1>1. Server(t, Scanner, r[1], r[2])
  BY RangesAre
<1>2. r[1] \in 1..Len(t) /\ Len(t) \in Nat
  BY <1>1, TextLines DEF Server, Block
<1>3. Len(t) # 0
  BY <1>2
<1> QED BY <1>3, EmptyText

\* What was written is in the inventory.
LEMMA PlacedIsListed ==
  ASSUME Sound, Placed, NEW p \in written
  PROVE  /\ row[p].conf \in Confs /\ row[p].conf \in ListedFiles
         /\ Holds(file[row[p].conf], NameOf[p], row[p].front, row[p].back)
<1>1. p \in Projects /\ row[p] \notin {NoRow, Unbound}
  BY DEF Sound, TypeOK
<1>2. <<row[p].conf, row[p].front, row[p].back>> \in Chosen[p]
  BY <1>1 DEF Sound, TypeOK
<1>3. PICK w \in Chosen[p] : w = <<row[p].conf, row[p].front, row[p].back>>
  BY <1>2
<1>4. row[p].conf \in Confs
  BY <1>1, <1>3, BlockConstants
<1>5. PICK c \in Confs : c = row[p].conf
  BY <1>4
<1>6. Holds(file[c], NameOf[p], row[p].front, row[p].back) /\ Reached(Includes, c)
  BY <1>5 DEF Placed
<1>7. IsText(file[c])
  BY DEF Sound, TypeOK
<1>8. Exists(c)
  BY <1>6, <1>7, HoldsIsThere DEF Exists, Holds
<1>9. c \in ListedFiles
  BY <1>6, <1>8 DEF Reached, ListedFiles
<1> QED BY <1>4, <1>5, <1>6, <1>9

\* The ports of others are seen.
LEMMA PortsSeen ==
  ASSUME NamesAreApart, Sound, Placed, NEW p \in Projects, NEW q \in written, q # p
  PROVE  row[q].front \in TakenPorts(NameOf[p]) /\ row[q].back \in TakenPorts(NameOf[p])
<1>1. PICK c \in ListedFiles : c = row[q].conf
  BY PlacedIsListed
<1>2. Holds(file[c], NameOf[q], row[q].front, row[q].back)
  BY <1>1, PlacedIsListed
<1>3. NameOf[p] # NameOf[q]
  BY DEF NamesAreApart, Sound, TypeOK
<1>4. \A r : Only(file[c], r, NameOf[q]) => ~Bears(file[c], r, NameOf[p])
  BY <1>3 DEF Only
<1>5. row[q].front \in PortsOf(c, NameOf[p])
  <2>1. PICK r \in Ranges(file[c]) :
          Only(file[c], r, NameOf[q]) /\ row[q].front \in PortsIn(file[c], r, "listen")
    BY <1>2 DEF Holds
  <2> QED BY <2>1, <1>4 DEF PortsOf
<1>6. row[q].back \in PortsOf(c, NameOf[p])
  <2>1. PICK r \in Ranges(file[c]) :
          Only(file[c], r, NameOf[q]) /\ row[q].back \in PortsIn(file[c], r, "proxy")
    BY <1>2 DEF Holds
  <2> QED BY <2>1, <1>4 DEF PortsOf
<1> QED BY <1>5, <1>6 DEF TakenPorts

\* Files stay reached.
LEMMA ReachedStays ==
  ASSUME TextsAreOrdinary, Single, NEW p \in Projects, Step(p), NEW c, Reached(Includes, c)
  PROVE  Reached(Includes', c)
<1>1. Keeps(file[MainConf], file'[MainConf], NameOf[p])
  BY FilesKept, BlockConstants
<1>2. Rules(file[MainConf]) \subseteq Rules(file'[MainConf])
  BY <1>1 DEF Keeps
<1>3. Includes \subseteq Includes'
  BY <1>2 DEF Includes, Rules
<1> QED BY <1>3 DEF Reached

\* What this project writes stands.
LEMMA WritesHolds ==
  ASSUME TextsAreOrdinary, RulesAreWhole, Single, NEW p \in Projects, Step(p), Writes(p)
  PROVE  /\ Holds(file'[row'[p].conf], NameOf[p], row'[p].front, row'[p].back)
         /\ Reached(Includes', row'[p].conf)
         /\ {row'[p].front, row'[p].back} \cap TakenPorts(NameOf[p]) = {}
<1>1. PICK w \in Chosen[p] :
        /\ Selectable(w[1]) /\ PortsFit(p, w[2], w[3])
        /\ row'[p] = Fields(w[1], w[2], w[3])
        /\ \E N \in SetTexts(p, w[2], w[3]) :
             file'[w[1]] = ReplaceOrAppend(file[w[1]], NameOf[p], N) /\ Accepts(w[1], file'[w[1]])
  BY DEF Writes
<1>2. PICK N \in SetTexts(p, w[2], w[3]) :
        file'[w[1]] = ReplaceOrAppend(file[w[1]], NameOf[p], N) /\ Accepts(w[1], file'[w[1]])
  BY <1>1
<1>3. row'[p].conf = w[1] /\ row'[p].front = w[2] /\ row'[p].back = w[3] /\ w[1] \in Confs
  BY <1>1, ChosenRow
<1>4. Good(file[w[1]]) /\ One(file[w[1]], NameOf[p])
  <2>1. IsText(file[w[1]]) /\ Accepts(w[1], file[w[1]]) /\ CommentsClose(file[w[1]])
    BY <1>3 DEF Single, Closing, Sound, TypeOK, Accepted
  <2>2. Good(file[w[1]])
    BY <2>1, AcceptedIsSane, TameIs DEF Good
  <2> QED BY <2>2, <1>3 DEF Single, OneBlockPerMark, One
<1>5. Sane(file'[w[1]])
  BY <1>3, StepIsSound, AcceptedIsSane DEF Single, Sound, TypeOK, Accepted
<1>6. NewText(N, NameOf[p], w[2], w[3])
  BY OrdinaryWritten
<1>7. Holds(file'[w[1]], NameOf[p], w[2], w[3])
  BY <1>2, <1>4, <1>5, <1>6, ReplacedKeeps
<1>8. Reached(Includes, w[1])
  BY <1>1, <1>3, SelectableIsReached DEF Single
<1>9. Reached(Includes', w[1])
  BY <1>8, ReachedStays
<1>10. {w[2], w[3]} \cap TakenPorts(NameOf[p]) = {}
  BY <1>1 DEF PortsFit
<1>11. Reached(Includes', row'[p].conf)
  BY <1>3, <1>9 DEF Reached
<1> QED BY <1>3, <1>7, <1>10, <1>11

\* A step loses no block that was written, and gives no port away twice.
LEMMA StepIsFound ==
  ASSUME TextsAreOrdinary, NamesAreApart, RulesAreWhole, Found, NEW p \in Projects, Step(p)
  PROVE  Found'
<1>1. Single'
  BY StepIsSingle DEF Found
<1>2. Single /\ Sound /\ Placed /\ PortsApart /\ written \subseteq Projects
  BY DEF Found, Single, Sound, TypeOK
<1>3. ASSUME NEW q \in written', q # p
      PROVE  q \in written /\ q \in Projects /\ row'[q] = row[q]
  BY <1>2, <1>3 DEF Step, OthersStay
<1>4. ASSUME NEW q \in written'
      PROVE  Holds(file'[row'[q].conf], NameOf[q], row'[q].front, row'[q].back)
             /\ Reached(Includes', row'[q].conf)
  <2>1. CASE q # p
    <3>1. q \in written /\ q \in Projects /\ row'[q] = row[q]
      BY <2>1, <1>3
    <3>2. PICK c \in Confs : c = row[q].conf
      BY <3>1, <1>2, PlacedIsListed
    <3>3. Holds(file[c], NameOf[q], row[q].front, row[q].back) /\ Reached(Includes, c)
      BY <3>1, <3>2, <1>2 DEF Placed
    <3>4. Keeps(file[c], file'[c], NameOf[p])
      BY <1>2, FilesKept
    <3>5. NameOf[q] # NameOf[p]
      BY <2>1, <3>1 DEF NamesAreApart
    <3>6. Holds(file'[c], NameOf[q], row[q].front, row[q].back)
      BY <3>3, <3>4, <3>5, HoldsKept
    <3>7. Reached(Includes', c)
      BY <3>3, <1>2, ReachedStays
    <3>8. row'[q].conf = c
      BY <3>1, <3>2
    <3>9. Reached(Includes', row'[q].conf)
      BY <3>7, <3>8 DEF Reached
    <3> QED BY <3>1, <3>6, <3>8, <3>9
  <2>2. CASE q = p /\ Stays(p)
    <3>1. p \in written /\ row'[p] = row[p] /\ file'[row[p].conf] = file[row[p].conf]
      BY <2>2 DEF Stays
    <3>2. Holds(file[row[p].conf], NameOf[p], row[p].front, row[p].back) /\ Reached(Includes, row[p].conf)
      BY <3>1, <1>2 DEF Placed
    <3>3. PICK c : c = row[p].conf
      OBVIOUS
    <3>4. Reached(Includes', c)
      BY <3>2, <3>3, <1>2, ReachedStays
    <3>5. Reached(Includes', row'[p].conf)
      BY <3>1, <3>3, <3>4 DEF Reached
    <3> QED BY <2>2, <3>1, <3>2, <3>5
  <2>3. CASE q = p /\ Writes(p)
    BY <2>3, <1>2, WritesHolds
  <2> QED BY <2>1, <2>2, <2>3 DEF Step, Gone
<1>5. Placed'
  <2>1. \A q \in written' : Holds(file'[row'[q].conf], NameOf[q], row'[q].front, row'[q].back)
                            /\ Reached(Includes', row'[q].conf)
    BY <1>4
  <2> QED BY <2>1 DEF Placed
<1>6. ASSUME NEW q \in written', q # p, p \in written'
      PROVE  {row'[p].front, row'[p].back} \cap {row'[q].front, row'[q].back} = {}
  <2>1. q \in written /\ row'[q] = row[q]
    BY <1>3, <1>6
  <2>2. CASE Stays(p)
    <3>1. p \in written /\ row'[p] = row[p]
      BY <2>2, <1>6 DEF Stays
    <3> QED BY <2>1, <3>1, <1>2, <1>6 DEF PortsApart
  <2>3. CASE Writes(p)
    <3>1. {row'[p].front, row'[p].back} \cap TakenPorts(NameOf[p]) = {}
      BY <2>3, <1>2, WritesHolds
    <3>2. row[q].front \in TakenPorts(NameOf[p]) /\ row[q].back \in TakenPorts(NameOf[p])
      BY <2>1, <1>2, <1>6, PortsSeen
    <3> QED BY <2>1, <3>1, <3>2
  <2> QED BY <2>2, <2>3, <1>6 DEF Step, Gone
<1>7. ASSUME NEW q \in written', NEW o \in written', q # o
      PROVE  {row'[q].front, row'[q].back} \cap {row'[o].front, row'[o].back} = {}
  <2>1. CASE q = p
    BY <2>1, <1>6, <1>7
  <2>2. CASE o = p
    BY <2>2, <1>6, <1>7
  <2>3. CASE q # p /\ o # p
    BY <2>3, <1>2, <1>3, <1>7 DEF PortsApart
  <2> QED BY <2>1, <2>2, <2>3
<1>8. PortsApart'
  BY <1>7 DEF PortsApart
<1> QED BY <1>1, <1>5, <1>8 DEF Found

\* Nor does a stutter.
LEMMA FoundNext ==
  ASSUME TextsAreOrdinary, NamesAreApart, RulesAreWhole, Found, [Next]_vars
  PROVE  Found'
<1>1. CASE Next
  <2>1. PICK p \in Projects : Act(p)
    BY <1>1 DEF Next
  <2>2. Step(p)
    BY <2>1, ActIsStep DEF Found, Single, Sound
  <2> QED BY <2>2, StepIsFound
<1>2. CASE UNCHANGED vars
  <2>1. Single'
    BY <1>2, SingleNext DEF Found
  <2>2. file' = file /\ row' = row /\ written' = written
    BY <1>2 DEF vars
  <2> QED BY <2>1, <2>2 DEF Found, Placed, PortsApart, Reached, Includes
<1> QED BY <1>1, <1>2

\* At first nothing was written.
LEMMA InitIsFound ==
  ASSUME TextsAreOrdinary, Init
  PROVE  Found
<1>1. Single /\ written = {}
  BY InitIsSingle DEF Init
<1> QED BY <1>1 DEF Found, Placed, PortsApart

\* The inductive invariant: Nginx accepts each file, the program sees no more of a server
\* than Nginx (nginx_server_blocks.py:26-47), no mark stands in two blocks of one file, and what the platform wrote has its blocks, with mark and ports, in a file that the
\* include rules reach, apart from those of others.
THEOREM Invariance ==
  ASSUME TextsAreOrdinary, NamesAreApart, RulesAreWhole
  PROVE  Spec => []Found
<1>1. Init => Found
  BY InitIsFound
<1>2. Found /\ [Next]_vars => Found'
  BY FoundNext
<1> QED BY <1>1, <1>2, PTL DEF Spec

\* A block that the platform wrote stays where the row says, with its mark, and the
\* inventory lists that file (nginx_server_blocks.py:165), whatever other requests do, if
\* the comments in confirmed texts and in the files close the braces they open (34-43).
THEOREM BlocksFoundAgain ==
  ASSUME TextsAreOrdinary, NamesAreApart, RulesAreWhole
  PROVE  Spec => []FoundAgain
<1>1. Found => FoundAgain
  <2> SUFFICES ASSUME Found, NEW p \in written
               PROVE  Own(file[row[p].conf], NameOf[p]) # {} /\ row[p].conf \in ListedFiles
    BY DEF FoundAgain
  <2>1. /\ row[p].conf \in ListedFiles
        /\ Holds(file[row[p].conf], NameOf[p], row[p].front, row[p].back)
    BY PlacedIsListed DEF Found, Single
  <2> QED BY <2>1 DEF Holds, Own
<1> QED BY <1>1, Invariance, PTL

\* No two projects whose blocks the platform wrote have a port in common
\* (nginx_utils.py:238-279), through all moves, deletions and requests cut short, if the
\* comments in texts and files close the braces they open: a block in the range of
\* another counts as its part (nginx_server_blocks.py:34-43).
THEOREM PortsStayApart ==
  ASSUME TextsAreOrdinary, NamesAreApart, RulesAreWhole
  PROVE  Spec => []PortsApart
<1>1. Found => PortsApart
  BY DEF Found
<1> QED BY <1>1, Invariance, PTL
=============================================================================
