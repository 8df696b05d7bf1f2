-------------------------- MODULE ProjectPlansProofs --------------------------
(***************************************************************************)
(* Deletion, settings and the status of a project, for any rows, bodies    *)
(* and requests: what a deletion promises when it succeeds and when it is  *)
(* repeated, and what a change of settings keeps.  The argument is about   *)
(* the plans: what a request that runs alone has still to do is in the     *)
(* rest of its plan, and everything else in it has been done.              *)
(***************************************************************************)
EXTENDS ProjectLifecycleProofs, FiniteSetTheorems

\* A sequence, whatever it is a sequence of.
IsSeq(s) == s \in Seq(ToSet(s))

\* Every step labelled u comes before every step labelled v.
Before(s, u, v) == \A j, k \in DOMAIN s : s[j][1] = u /\ s[k][1] = v => j < k

-----------------------------------------------------------------------------
(* Sequences.                                                              *)

\* A sequence over some set is one over its elements.
LEMMA SeqIsSeq ==
  ASSUME NEW S, NEW s \in Seq(S)
  PROVE  IsSeq(s) /\ ToSet(s) \subseteq S /\ DOMAIN s = 1..Len(s) /\ Len(s) \in Nat
<1>1. DOMAIN s = 1..Len(s) /\ Len(s) \in Nat /\ \A k \in 1..Len(s) : s[k] \in S
  BY LenProperties, ElementOfSeq
<1>2. s = [k \in 1..Len(s) |-> s[k]]
  OBVIOUS
<1>3. \A k \in 1..Len(s) : s[k] \in ToSet(s)
  BY <1>1 DEF ToSet
<1>4. s \in [1..Len(s) -> ToSet(s)]
  BY <1>2, <1>3
<1>5. s \in Seq(ToSet(s))
  BY <1>1, <1>4
<1> QED BY <1>1, <1>5 DEF IsSeq, ToSet

\* What two sequences have in common with their concatenation.
LEMMA ConcatSteps ==
  ASSUME NEW s, NEW t, IsSeq(s), IsSeq(t)
  PROVE  /\ IsSeq(s \o t) /\ ToSet(s \o t) = ToSet(s) \cup ToSet(t)
         /\ Len(s \o t) = Len(s) + Len(t) /\ Len(s) \in Nat /\ Len(t) \in Nat
         /\ s \o t = <<>> <=> s = <<>> /\ t = <<>>
<1> DEFINE S == ToSet(s) \cup ToSet(t)
           c == s \o t
<1>1. s \in Seq(S) /\ t \in Seq(S)
  <2>1. s \in Seq(ToSet(s)) /\ t \in Seq(ToSet(t))  BY DEF IsSeq
  <2>2. /\ s \in [1..Len(s) -> S] /\ Len(s) \in Nat
        /\ t \in [1..Len(t) -> S] /\ Len(t) \in Nat
    BY <2>1, LenProperties, ElementOfSeq
  <2> QED BY <2>2
<1> HIDE DEF S
<1>2. /\ c \in Seq(S) /\ Len(c) = Len(s) + Len(t)
      /\ \A k \in 1..Len(c) : c[k] = IF k <= Len(s) THEN s[k] ELSE t[k - Len(s)]
  BY <1>1, ConcatProperties
<1>3. /\ DOMAIN s = 1..Len(s) /\ DOMAIN t = 1..Len(t) /\ DOMAIN c = 1..Len(c)
      /\ Len(s) \in Nat /\ Len(t) \in Nat /\ Len(c) \in Nat
  BY <1>1, <1>2, LenProperties
<1> HIDE DEF c
<1>4. ToSet(c) \subseteq ToSet(s) \cup ToSet(t)
  <2> SUFFICES ASSUME NEW k \in 1..Len(c) PROVE c[k] \in ToSet(s) \cup ToSet(t)
    BY <1>3 DEF ToSet
  <2>1. CASE k <= Len(s)  BY <2>1, <1>2, <1>3 DEF ToSet
  <2>2. CASE k > Len(s)
    <3>1. k - Len(s) \in 1..Len(t)  BY <2>2, <1>2, <1>3
    <3> QED BY <3>1, <2>2, <1>2, <1>3 DEF ToSet
  <2> QED BY <2>1, <2>2, <1>3
<1>5. ToSet(s) \subseteq ToSet(c)
  <2> SUFFICES ASSUME NEW k \in 1..Len(s) PROVE s[k] \in ToSet(c)
    BY <1>3 DEF ToSet
  <2>1. k \in 1..Len(c) /\ c[k] = s[k]  BY <1>2, <1>3
  <2> QED BY <2>1, <1>3 DEF ToSet
<1>6. ToSet(t) \subseteq ToSet(c)
  <2> SUFFICES ASSUME NEW k \in 1..Len(t) PROVE t[k] \in ToSet(c)
    BY <1>3 DEF ToSet
  <2>1. k + Len(s) \in 1..Len(c) /\ ~(k + Len(s) <= Len(s)) /\ (k + Len(s)) - Len(s) = k
    BY <1>2, <1>3
  <2>2. c[k + Len(s)] = t[k]  BY <2>1, <1>2
  <2> QED BY <2>1, <2>2, <1>3 DEF ToSet
<1>7. IsSeq(c)  BY <1>2, SeqIsSeq
<1>8. c = <<>> <=> s = <<>> /\ t = <<>>
  BY <1>1, <1>2, <1>3, EmptySeq
<1> QED BY <1>2, <1>3, <1>4, <1>5, <1>6, <1>7, <1>8 DEF c

\* Order in a concatenation, if the later label is not in the first part, or the
\* earlier one not in the second.
LEMMA ConcatBefore ==
  ASSUME NEW s, NEW t, IsSeq(s), IsSeq(t), NEW u, NEW v,
         Before(s, u, v), Before(t, u, v),
         (\A x \in ToSet(s) : x[1] # v) \/ (\A x \in ToSet(t) : x[1] # u)
  PROVE  Before(s \o t, u, v)
<1> DEFINE c == s \o t
           S == ToSet(s) \cup ToSet(t)
<1>1. s \in Seq(S) /\ t \in Seq(S)
  <2>1. s \in Seq(ToSet(s)) /\ t \in Seq(ToSet(t))  BY DEF IsSeq
  <2>2. /\ s \in [1..Len(s) -> S] /\ Len(s) \in Nat
        /\ t \in [1..Len(t) -> S] /\ Len(t) \in Nat
    BY <2>1, LenProperties, ElementOfSeq
  <2> QED BY <2>2
<1> HIDE DEF S
<1>2. /\ c \in Seq(S) /\ Len(c) = Len(s) + Len(t)
      /\ \A k \in 1..Len(c) : c[k] = IF k <= Len(s) THEN s[k] ELSE t[k - Len(s)]
  BY <1>1, ConcatProperties
<1>3. /\ DOMAIN s = 1..Len(s) /\ DOMAIN t = 1..Len(t) /\ DOMAIN c = 1..Len(c)
      /\ Len(s) \in Nat /\ Len(t) \in Nat
  BY <1>1, <1>2, LenProperties
<1> HIDE DEF c
<1> SUFFICES ASSUME NEW j \in 1..Len(c), NEW k \in 1..Len(c), c[j][1] = u, c[k][1] = v
             PROVE  j < k
  BY <1>3 DEF Before, c
<1>4. CASE j <= Len(s) /\ k <= Len(s)
  <2>1. c[j] = s[j] /\ c[k] = s[k] /\ j \in DOMAIN s /\ k \in DOMAIN s
    BY <1>2, <1>3, <1>4
  <2> QED BY <2>1 DEF Before
<1>5. CASE j <= Len(s) /\ k > Len(s)
  BY <1>2, <1>3, <1>5
<1>6. CASE j > Len(s) /\ k <= Len(s)
  <2>1. c[j] = t[j - Len(s)] /\ c[k] = s[k] /\ j - Len(s) \in DOMAIN t /\ k \in DOMAIN s
    BY <1>2, <1>3, <1>6
  <2> QED BY <2>1 DEF ToSet
<1>7. CASE j > Len(s) /\ k > Len(s)
  <2>1. /\ c[j] = t[j - Len(s)] /\ c[k] = t[k - Len(s)]
        /\ j - Len(s) \in DOMAIN t /\ k - Len(s) \in DOMAIN t
    BY <1>2, <1>3, <1>7
  <2>2. j - Len(s) < k - Len(s)  BY <2>1 DEF Before
  <2> QED BY <2>2, <1>2, <1>3
<1> QED BY <1>3, <1>4, <1>5, <1>6, <1>7

\* The rest of a plan: its head is all that it lost, and the order stays.
LEMMA RestOfSteps ==
  ASSUME NEW s, IsSeq(s), s # <<>>
  PROVE  /\ IsSeq(Tail(s)) /\ Head(s) \in ToSet(s)
         /\ ToSet(s) = {Head(s)} \cup ToSet(Tail(s))
         /\ Len(s) \in Nat \ {0}
         /\ Len(s) = 1 => ToSet(Tail(s)) = {}
         /\ Len(s) # 1 => Tail(s) # <<>>
         /\ \A u, v : Before(s, u, v) => /\ Before(Tail(s), u, v)
                                         /\ Head(s)[1] = v => \A x \in ToSet(s) : x[1] # u
<1> DEFINE S == ToSet(s)
           t == Tail(s)
<1>1. s \in Seq(S)  BY DEF IsSeq
<1> HIDE DEF S
<1>2. /\ t \in Seq(S) /\ Len(t) = Len(s) - 1 /\ Len(s) \in Nat /\ Len(s) # 0
      /\ \A i \in 1..Len(t) : t[i] = s[i + 1]
  BY <1>1, HeadTailProperties, LenProperties, EmptySeq
<1>3. /\ Head(s) = s[1] /\ DOMAIN s = 1..Len(s) /\ DOMAIN t = 1..Len(t)
      /\ Len(t) \in Nat /\ 1 \in 1..Len(s)
  BY <1>1, <1>2, LenProperties
<1> HIDE DEF t
<1>4. IsSeq(t)  BY <1>2, SeqIsSeq
<1>5. Head(s) \in ToSet(s)  BY <1>3 DEF ToSet
<1>6. ToSet(t) \subseteq ToSet(s)
  <2> SUFFICES ASSUME NEW i \in 1..Len(t) PROVE t[i] \in ToSet(s)
    BY <1>3 DEF ToSet
  <2>1. i + 1 \in 1..Len(s) /\ t[i] = s[i + 1]  BY <1>2, <1>3
  <2> QED BY <2>1, <1>3 DEF ToSet
<1>7. ToSet(s) \subseteq {Head(s)} \cup ToSet(t)
  <2> SUFFICES ASSUME NEW i \in 1..Len(s), i # 1 PROVE s[i] \in ToSet(t)
    BY <1>3 DEF ToSet
  <2>1. i - 1 \in 1..Len(t) /\ (i - 1) + 1 = i  BY <1>2
  <2>2. t[i - 1] = s[i]  BY <2>1, <1>2
  <2> QED BY <2>1, <2>2, <1>3 DEF ToSet
<1>8. Len(s) = 1 => ToSet(t) = {}
  BY <1>2, <1>3 DEF ToSet
<1>9. Len(s) # 1 => t # <<>>
  BY <1>2, <1>3, EmptySeq
<1>10. ASSUME NEW u, NEW v, Before(s, u, v)
       PROVE  Before(t, u, v) /\ (Head(s)[1] = v => \A x \in ToSet(s) : x[1] # u)
  <2>1. Before(t, u, v)
    <3> SUFFICES ASSUME NEW j \in 1..Len(t), NEW k \in 1..Len(t), t[j][1] = u, t[k][1] = v
                 PROVE  j < k
      BY <1>3 DEF Before
    <3>1. j + 1 \in DOMAIN s /\ k + 1 \in DOMAIN s /\ t[j] = s[j + 1] /\ t[k] = s[k + 1]
      BY <1>2, <1>3
    <3>2. j + 1 < k + 1  BY <3>1, <1>10 DEF Before
    <3> QED BY <3>2
  <2>2. ASSUME Head(s)[1] = v, NEW i \in DOMAIN s, s[i][1] = u PROVE FALSE
    <3>1. i < 1  BY <2>2, <1>3, <1>10 DEF Before
    <3> QED BY <3>1, <1>3
  <2> QED BY <2>1, <2>2 DEF ToSet
<1> QED BY <1>2, <1>3, <1>4, <1>5, <1>6, <1>7, <1>8, <1>9, <1>10 DEF t

\* Steps that are taken under a condition.
LEMMA WhenOne ==
  ASSUME NEW c \in BOOLEAN, NEW x
  PROVE  LET s == When(c, << x >>) IN
         /\ IsSeq(s) /\ ToSet(s) = (IF c THEN {x} ELSE {})
         /\ \A u, v : u # v => Before(s, u, v)
<1>1. << x >> \in Seq({x}) /\ Len(<< x >>) = 1 /\ << x >>[1] = x /\ DOMAIN << x >> = {1}
  OBVIOUS
<1>2. <<>> \in Seq({x}) /\ DOMAIN <<>> = {}
  OBVIOUS
<1>3. IsSeq(<< x >>) /\ IsSeq(<<>>)
  BY <1>1, <1>2, SeqIsSeq
<1>4. ToSet(<< x >>) = {x} /\ ToSet(<<>>) = {}
  BY <1>1, <1>2 DEF ToSet
<1>5. \A u, v : u # v => Before(<< x >>, u, v) /\ Before(<<>>, u, v)
  BY <1>1, <1>2 DEF Before
<1> QED BY <1>3, <1>4, <1>5 DEF When

\* The same for two steps, of which the first comes first.
LEMMA WhenTwo ==
  ASSUME NEW c \in BOOLEAN, NEW x, NEW y
  PROVE  LET s == When(c, << x, y >>) IN
         /\ IsSeq(s) /\ ToSet(s) = (IF c THEN {x, y} ELSE {})
         /\ \A u, v : u # v /\ (x[1] # v \/ y[1] # u) => Before(s, u, v)
<1> DEFINE d == << x, y >>
<1>1. d \in Seq({x, y}) /\ d[1] = x /\ d[2] = y /\ DOMAIN d = {1, 2}
  OBVIOUS
<1>2. <<>> \in Seq({x}) /\ DOMAIN <<>> = {}
  OBVIOUS
<1> HIDE DEF d
<1>3. IsSeq(d) /\ IsSeq(<<>>)
  BY <1>1, <1>2, SeqIsSeq
<1>4. ToSet(d) = {x, y} /\ ToSet(<<>>) = {}
  BY <1>1, <1>2 DEF ToSet
<1>5. \A u, v : u # v /\ (x[1] # v \/ y[1] # u) => Before(d, u, v) /\ Before(<<>>, u, v)
  BY <1>1, <1>2 DEF Before
<1> QED BY <1>3, <1>4, <1>5 DEF When, d

\* A conditional part of a plan.
LEMMA WhenSome ==
  ASSUME NEW c \in BOOLEAN, NEW s, IsSeq(s)
  PROVE  IsSeq(When(c, s)) /\ ToSet(When(c, s)) = (IF c THEN ToSet(s) ELSE {})
<1>1. <<>> \in Seq({}) /\ DOMAIN <<>> = {}
  OBVIOUS
<1>2. IsSeq(<<>>) /\ ToSet(<<>>) = {}
  BY <1>1, SeqIsSeq DEF ToSet
<1> QED BY <1>2 DEF When

-----------------------------------------------------------------------------
(* The plan of a deletion.                                                 *)

\* Counting up to a place numbers the places, from 1 and one after the other.
LEMMA Ranks ==
  ASSUME NEW P, P \subseteq Nat, IsFiniteSet(P)
  PROVE  /\ Cardinality(P) \in Nat
         /\ \A k \in P : Rank(k, P) \in 1..Cardinality(P)
         /\ \A k, l \in P : Rank(k, P) = Rank(l, P) => k = l
<1> DEFINE Upto(k) == {m \in P : m <= k}
<1>1. Cardinality(P) \in Nat  BY FS_CardinalityType
<1>2. ASSUME NEW k \in P
      PROVE  /\ IsFiniteSet(Upto(k)) /\ Cardinality(Upto(k)) \in Nat
             /\ Cardinality(Upto(k)) <= Cardinality(P) /\ Cardinality(Upto(k)) # 0
             /\ k \in Upto(k)
  <2>1. Upto(k) \in SUBSET P /\ k \in Upto(k)  OBVIOUS
  <2> HIDE DEF Upto
  <2>2. IsFiniteSet(Upto(k)) /\ Cardinality(Upto(k)) <= Cardinality(P)
    BY <2>1, FS_Subset
  <2> QED BY <2>1, <2>2, FS_CardinalityType, FS_EmptySet
<1>3. ASSUME NEW k \in P, NEW l \in P, k < l, Cardinality(Upto(k)) = Cardinality(Upto(l))
      PROVE  FALSE
  <2>1. Upto(k) \in SUBSET Upto(l) /\ l \notin Upto(k)
    <3>1. \A m \in P : m <= k => m <= l  BY <1>3, P \subseteq Nat
    <3>2. ~(l <= k)  BY <1>3, P \subseteq Nat
    <3> QED BY <3>1, <3>2
  <2>2. IsFiniteSet(Upto(l)) /\ l \in Upto(l)  BY <1>2
  <2> HIDE DEF Upto
  <2>3. Upto(l) = Upto(k)  BY <2>1, <2>2, <1>3, FS_Subset
  <2> QED BY <2>1, <2>2, <2>3
<1>4. \A k, l \in P : Cardinality(Upto(k)) = Cardinality(Upto(l)) => k = l
  BY <1>3
<1> QED BY <1>1, <1>2, <1>4 DEF Rank

\* One step for each id whose row has the field, and all have the same label.
LEMMA EachSteps ==
  ASSUME NEW label, NEW ids \in Seq(Nat), NEW t, NEW f
  PROVE  LET e == Each(label, ids, t, f) IN
         /\ IsSeq(e) /\ \A x \in ToSet(e) : x[1] = label
         /\ \A i \in ToSet(ids) : t[i][f] # None => <<label, i>> \in ToSet(e)
<1> DEFINE P == Places(ids, t, f)
           e == Each(label, ids, t, f)
           G(j) == <<label, ids[CHOOSE k \in P : Rank(k, P) = j]>>
<1>1. P \subseteq 1..Len(ids) /\ Len(ids) \in Nat
  BY LenProperties DEF Places
<1>2. IsFiniteSet(P) /\ P \subseteq Nat
  <2>1. IsFiniteSet(1..Len(ids)) /\ P \in SUBSET (1..Len(ids))  BY <1>1, FS_Interval
  <2> HIDE DEF P
  <2>2. IsFiniteSet(P)  BY <2>1, FS_Subset
  <2>3. P \subseteq Nat  BY <1>1
  <2> QED BY <2>2, <2>3
<1>3. /\ Cardinality(P) \in Nat
      /\ \A k \in P : Rank(k, P) \in 1..Cardinality(P)
      /\ \A k, l \in P : Rank(k, P) = Rank(l, P) => k = l
  <2> HIDE DEF P
  <2> QED BY <1>2, Ranks
<1>4. e = [j \in 1..Cardinality(P) |-> G(j)]
  BY DEF Each
<1> HIDE DEF e
<1>5. \A k \in DOMAIN ids : t[ids[k]][f] # None => k \in P
  BY DEF Places
<1> HIDE DEF P
<1>6. e \in Seq({G(j) : j \in 1..Cardinality(P)})
  <2> DEFINE S == {G(j) : j \in 1..Cardinality(P)}
  <2>1. \A j \in 1..Cardinality(P) : G(j) \in S  OBVIOUS
  <2> HIDE DEF G, S
  <2>2. e \in [1..Cardinality(P) -> S]  BY <1>4, <2>1
  <2>3. e \in Seq(S)  BY <1>3, <2>2
  <2> QED BY <2>3 DEF S
<1>7. IsSeq(e)  BY <1>6, SeqIsSeq
<1>8. \A j \in 1..Cardinality(P) : e[j] = G(j) /\ e[j][1] = label
  BY <1>4
<1>9. DOMAIN e = 1..Cardinality(P)  BY <1>4
<1>10. \A x \in ToSet(e) : x[1] = label
  <2> HIDE DEF G
  <2> QED BY <1>8, <1>9 DEF ToSet
<1>11. ASSUME NEW k \in DOMAIN ids, t[ids[k]][f] # None
       PROVE  <<label, ids[k]>> \in ToSet(e)
  <2>1. k \in P /\ Rank(k, P) \in 1..Cardinality(P)  BY <1>11, <1>3, <1>5
  <2>2. (CHOOSE l \in P : Rank(l, P) = Rank(k, P)) = k
    BY <2>1, <1>3
  <2>3. e[Rank(k, P)] = <<label, ids[k]>>
    BY <2>1, <2>2, <1>8
  <2> QED BY <2>1, <2>3, <1>9 DEF ToSet
<1>12. \A i \in ToSet(ids) : t[i][f] # None => <<label, i>> \in ToSet(e)
  BY <1>11 DEF ToSet
<1> QED BY <1>7, <1>10, <1>12 DEF e

\* So it is in a part of the plan that depends on the scope.
LEMMA WhenEach ==
  ASSUME NEW part, NEW scope, NEW label, NEW ids \in Seq(Nat), NEW t, NEW f
  PROVE  LET e == When(part \in scope, Each(label, ids, t, f)) IN
         /\ IsSeq(e) /\ \A x \in ToSet(e) : x[1] = label
         /\ part \in scope =>
              \A i \in ToSet(ids) : t[i][f] # None => <<label, i>> \in ToSet(e)
<1> DEFINE e == Each(label, ids, t, f)
           w == When(part \in scope, e)
<1>1. /\ IsSeq(e) /\ \A x \in ToSet(e) : x[1] = label
      /\ \A i \in ToSet(ids) : t[i][f] # None => <<label, i>> \in ToSet(e)
  BY EachSteps
<1> HIDE DEF e
<1>2. CASE part \in scope
  <2>1. w = e  BY <1>2 DEF When
  <2> QED BY <2>1, <1>1, <1>2 DEF e
<1>3. CASE part \notin scope
  <2>1. w = <<>>  BY <1>3 DEF When
  <2>2. <<>> \in Seq({}) /\ DOMAIN <<>> = {}  OBVIOUS
  <2>3. IsSeq(<<>>) /\ ToSet(<<>>) = {}  BY <2>2, SeqIsSeq DEF ToSet
  <2> QED BY <2>1, <2>3, <1>3 DEF e
<1> QED BY <1>2, <1>3

\* The rows are deleted in the last step, and in no other.
EndsWithRows(s) == \A k \in DOMAIN s : s[k][1] = "delrows" <=> k = Len(s)

\* The rest of such a plan ends in the same way.
LEMMA RestEndsWithRows ==
  ASSUME NEW s, IsSeq(s), s # <<>>, EndsWithRows(s)
  PROVE  /\ Head(s)[1] = "delrows" <=> Len(s) = 1
         /\ EndsWithRows(Tail(s))
<1> DEFINE S == ToSet(s)
           t == Tail(s)
<1>1. s \in Seq(S)  BY DEF IsSeq
<1> HIDE DEF S
<1>2. /\ t \in Seq(S) /\ Len(t) = Len(s) - 1 /\ Len(s) \in Nat /\ Len(s) # 0
      /\ \A i \in 1..Len(t) : t[i] = s[i + 1]
  BY <1>1, HeadTailProperties, LenProperties, EmptySeq
<1>3. Head(s) = s[1] /\ DOMAIN s = 1..Len(s) /\ DOMAIN t = 1..Len(t) /\ 1 \in 1..Len(s)
  BY <1>1, <1>2, LenProperties
<1> HIDE DEF t
<1>4. \A k \in 1..Len(t) : t[k][1] = "delrows" <=> k = Len(t)
  <2> TAKE k \in 1..Len(t)
  <2>1. k + 1 \in 1..Len(s) /\ (k + 1 = Len(s) <=> k = Len(t))  BY <1>2
  <2> QED BY <2>1, <1>2, <1>3 DEF EndsWithRows
<1> QED BY <1>3, <1>4 DEF EndsWithRows, t

\* What is removed of a project, by scope: the label of the step and the field.
Removals(b) ==
  {<<"rmdir", "dir">>}
    \cup (IF "env" \in b.scope THEN {<<"rmenv", "env">>} ELSE {})
    \cup (IF "db" \in b.scope THEN {<<"rmdb", "db">>} ELSE {})
    \cup (IF "nginx" \in b.scope THEN {<<"rmblock", "name">>} ELSE {})

\* A deletion has a step for all that its scope removes, and ends with the rows.
LEMMA DeletePlanSteps ==
  ASSUME NEW b, NEW t, b.ids \in Seq(Nat)
  PROVE  LET s == DeletePlan(b, t) IN
         /\ IsSeq(s) /\ s # <<>> /\ EndsWithRows(s)
         /\ \A i \in ToSet(b.ids), m \in Removals(b) :
              t[i][m[2]] # None => <<m[1], i>> \in ToSet(s)
<1> DEFINE A == Each("rmdir", b.ids, t, "dir")
           B == When("env" \in Scope(b), Each("rmenv", b.ids, t, "env"))
           C == When("db" \in Scope(b), Each("rmdb", b.ids, t, "db"))
           D == When("nginx" \in Scope(b), Each("rmblock", b.ids, t, "name"))
           Z == << <<"delrows", None>> >>
           AB == A \o B
           ABC == AB \o C
           ABCD == ABC \o D
           s == ABCD \o Z
<1>1. /\ IsSeq(A) /\ \A x \in ToSet(A) : x[1] # "delrows"
      /\ \A i \in ToSet(b.ids) : t[i]["dir"] # None => <<"rmdir", i>> \in ToSet(A)
  BY EachSteps
<1>2. /\ IsSeq(B) /\ \A x \in ToSet(B) : x[1] # "delrows"
      /\ "env" \in b.scope =>
           \A i \in ToSet(b.ids) : t[i]["env"] # None => <<"rmenv", i>> \in ToSet(B)
  BY WhenEach DEF Scope
<1>3. /\ IsSeq(C) /\ \A x \in ToSet(C) : x[1] # "delrows"
      /\ "db" \in b.scope =>
           \A i \in ToSet(b.ids) : t[i]["db"] # None => <<"rmdb", i>> \in ToSet(C)
  BY WhenEach DEF Scope
<1>4. /\ IsSeq(D) /\ \A x \in ToSet(D) : x[1] # "delrows"
      /\ "nginx" \in b.scope =>
           \A i \in ToSet(b.ids) : t[i]["name"] # None => <<"rmblock", i>> \in ToSet(D)
  BY WhenEach DEF Scope
<1>5. s = DeletePlan(b, t)
  BY DEF DeletePlan
<1> HIDE DEF A, B, C, D
<1>6. IsSeq(AB) /\ ToSet(AB) = ToSet(A) \cup ToSet(B)
  BY <1>1, <1>2, ConcatSteps
<1> HIDE DEF AB
<1>7. IsSeq(ABC) /\ ToSet(ABC) = ToSet(AB) \cup ToSet(C)
  BY <1>3, <1>6, ConcatSteps
<1> HIDE DEF ABC
<1>8. IsSeq(ABCD) /\ ToSet(ABCD) = ToSet(ABC) \cup ToSet(D)
  BY <1>4, <1>7, ConcatSteps
<1>9. \A x \in ToSet(ABCD) : x[1] # "delrows"
  BY <1>1, <1>2, <1>3, <1>4, <1>6, <1>7, <1>8
<1> HIDE DEF ABCD
<1>10. Z \in Seq({<<"delrows", None>>}) /\ Len(Z) = 1 /\ Z[1][1] = "delrows"
  OBVIOUS
<1>11. IsSeq(Z)  BY <1>10, SeqIsSeq
<1>12. /\ IsSeq(s) /\ ToSet(s) = ToSet(ABCD) \cup ToSet(Z)
       /\ Len(s) = Len(ABCD) + 1 /\ Len(ABCD) \in Nat
  BY <1>8, <1>10, <1>11, ConcatSteps
<1>13. /\ \A k \in DOMAIN s : s[k] = IF k <= Len(ABCD) THEN ABCD[k] ELSE Z[k - Len(ABCD)]
       /\ DOMAIN s = 1..Len(s) /\ DOMAIN ABCD = 1..Len(ABCD)
  <2> DEFINE S == ToSet(ABCD) \cup {<<"delrows", None>>}
  <2>1. ABCD \in Seq(ToSet(ABCD))  BY <1>8 DEF IsSeq
  <2>2. ABCD \in [1..Len(ABCD) -> S] /\ Z \in [1..1 -> S]
    BY <2>1, <1>10, LenProperties, ElementOfSeq
  <2>3. ABCD \in Seq(S) /\ Z \in Seq(S)
    BY <2>2, <1>12
  <2> HIDE DEF S
  <2>4. s \in Seq(S) /\ ABCD \in Seq(S)  BY <2>3, ConcatProperties
  <2> QED BY <2>3, <2>4, ConcatProperties, LenProperties
<1> HIDE DEF Z, s
<1>14. EndsWithRows(s)
  <2> SUFFICES ASSUME NEW k \in 1..Len(s) PROVE s[k][1] = "delrows" <=> k = Len(s)
    BY <1>13 DEF EndsWithRows
  <2>1. CASE k <= Len(ABCD)
    <3>1. s[k] \in ToSet(ABCD)  BY <2>1, <1>12, <1>13 DEF ToSet
    <3> QED BY <2>1, <3>1, <1>9, <1>12
  <2>2. CASE k > Len(ABCD)
    <3>1. k = Len(s) /\ k - Len(ABCD) = 1  BY <2>2, <1>12
    <3> QED BY <3>1, <2>2, <1>10, <1>12, <1>13
  <2> QED BY <2>1, <2>2, <1>12
<1>15. s # <<>>
  <2>1. Len(<<>>) = 0  OBVIOUS
  <2> QED BY <2>1, <1>12
<1>16. \A i \in ToSet(b.ids), m \in Removals(b) : t[i][m[2]] # None => <<m[1], i>> \in ToSet(s)
  <2> SUFFICES ASSUME NEW i \in ToSet(b.ids), NEW m \in Removals(b), t[i][m[2]] # None
               PROVE  <<m[1], i>> \in ToSet(s)
    OBVIOUS
  <2>1. CASE m = <<"rmdir", "dir">>  BY <2>1, <1>1, <1>6, <1>7, <1>8, <1>12
  <2>2. CASE m = <<"rmenv", "env">> /\ "env" \in b.scope
    BY <2>2, <1>2, <1>6, <1>7, <1>8, <1>12
  <2>3. CASE m = <<"rmdb", "db">> /\ "db" \in b.scope
    BY <2>3, <1>3, <1>7, <1>8, <1>12
  <2>4. CASE m = <<"rmblock", "name">> /\ "nginx" \in b.scope
    BY <2>4, <1>4, <1>8, <1>12
  <2> QED BY <2>1, <2>2, <2>3, <2>4 DEF Removals
<1> QED BY <1>5, <1>12, <1>14, <1>15, <1>16

-----------------------------------------------------------------------------
(* The plan of a change of settings.                                       *)

\* What a step may be: a new environment and a new database are those of the body,
\* and what is dropped is what the row had, if the body names another.
SettingStep(b, v, x) ==
  /\ x[1] = "mkenv" => x[2] = b.env /\ EnvChanges(b, v)
  /\ x[1] = "dropenv" => x[2] = v.env /\ EnvChanges(b, v)
  /\ x[1] = "mkdb" => x[2] = b.db /\ DbChanges(b, v) /\ b.db # None
  /\ x[1] = "dropdb" => x[2] = v.db /\ DbChanges(b, v)
  /\ x[1] = "mkblock" => x[2] = WantedFile(b, v) /\ b.nginx = "on"
  /\ x[1] = "unblock" => /\ x[2] = FileOf(v) /\ v.conf # None
                         /\ b.nginx = "on" => v.conf # WantedConf(b, v)

\* The two orders that matter.
Ordered(s) == Before(s, "mkdb", "dropdb") /\ Before(s, "mkenv", "dropenv")

\* A part of the plan, with steps of the labels in L only.
PartOf(s, b, v, L) ==
  IsSeq(s) /\ Ordered(s) /\ \A x \in ToSet(s) : x[1] \in L /\ SettingStep(b, v, x)

\* Parts one after the other, if no label has to come before one of the part before.
LEMMA JoinParts ==
  ASSUME NEW b, NEW v, NEW s, NEW t, NEW L, NEW M, PartOf(s, b, v, L), PartOf(t, b, v, M),
         "mkdb" \notin M \/ "dropdb" \notin L, "mkenv" \notin M \/ "dropenv" \notin L
  PROVE  PartOf(s \o t, b, v, L \cup M) /\ ToSet(s \o t) = ToSet(s) \cup ToSet(t)
<1>1. IsSeq(s \o t) /\ ToSet(s \o t) = ToSet(s) \cup ToSet(t)
  BY ConcatSteps DEF PartOf
<1>2. Before(s \o t, "mkdb", "dropdb")
  BY ConcatBefore DEF PartOf, Ordered
<1>3. Before(s \o t, "mkenv", "dropenv")
  BY ConcatBefore DEF PartOf, Ordered
<1> QED BY <1>1, <1>2, <1>3 DEF PartOf, Ordered

\* The part about the environment makes the new one before it drops the old one.
LEMMA CondaPart ==
  ASSUME NEW b, NEW v
  PROVE  /\ PartOf(CondaPlan(b, v), b, v, {"envfree", "mkenv", "dropenv"})
         /\ EnvChanges(b, v) /\ b.mkEnv => <<"mkenv", b.env>> \in ToSet(CondaPlan(b, v))
<1> DEFINE c == EnvChanges(b, v) /\ b.mkEnv
           d == EnvChanges(b, v) /\ b.dropEnv /\ v.env # None
           s == When(c, << <<"envfree", b.env>>, <<"mkenv", b.env>> >>)
           t == When(d, << <<"dropenv", v.env>> >>)
           L == {"envfree", "mkenv"}
           M == {"dropenv"}
<1>1. /\ IsSeq(s) /\ ToSet(s) = (IF c THEN {<<"envfree", b.env>>, <<"mkenv", b.env>>} ELSE {})
      /\ Ordered(s)
  <2>1. c \in BOOLEAN  OBVIOUS
  <2> HIDE DEF c
  <2> QED BY <2>1, WhenTwo DEF Ordered
<1>2. /\ IsSeq(t) /\ ToSet(t) = (IF d THEN {<<"dropenv", v.env>>} ELSE {})
      /\ Ordered(t)
  <2>1. d \in BOOLEAN  OBVIOUS
  <2> HIDE DEF d
  <2> QED BY <2>1, WhenOne DEF Ordered
<1>3. CondaPlan(b, v) = s \o t  BY DEF CondaPlan
<1> HIDE DEF s, t
<1>4. PartOf(s, b, v, L)
  BY <1>1 DEF PartOf, SettingStep
<1>5. PartOf(t, b, v, M)
  BY <1>2 DEF PartOf, SettingStep
<1>6. PartOf(s \o t, b, v, L \cup M) /\ ToSet(s \o t) = ToSet(s) \cup ToSet(t)
  <2>1. "mkdb" \notin M /\ "mkenv" \notin M  OBVIOUS
  <2> HIDE DEF L, M
  <2> QED BY <2>1, <1>4, <1>5, JoinParts
<1>7. L \cup M = {"envfree", "mkenv", "dropenv"}
  OBVIOUS
<1> QED BY <1>1, <1>3, <1>6, <1>7

\* So does the part about the database.
LEMMA DbPart ==
  ASSUME NEW b, NEW v
  PROVE  /\ PartOf(DbPlan(b, v), b, v, {"dbfree", "mkdb", "dropdb"})
         /\ DbChanges(b, v) /\ b.db # None => <<"mkdb", b.db>> \in ToSet(DbPlan(b, v))
<1> DEFINE c == DbChanges(b, v) /\ b.db # None
           d == DbChanges(b, v) /\ b.dropDb /\ v.db # None
           s == When(c, << <<"dbfree", b.db>>, <<"mkdb", b.db>> >>)
           t == When(d, << <<"dropdb", v.db>> >>)
           L == {"dbfree", "mkdb"}
           M == {"dropdb"}
<1>1. /\ IsSeq(s) /\ ToSet(s) = (IF c THEN {<<"dbfree", b.db>>, <<"mkdb", b.db>>} ELSE {})
      /\ Ordered(s)
  <2>1. c \in BOOLEAN  OBVIOUS
  <2> HIDE DEF c
  <2> QED BY <2>1, WhenTwo DEF Ordered
<1>2. /\ IsSeq(t) /\ ToSet(t) = (IF d THEN {<<"dropdb", v.db>>} ELSE {})
      /\ Ordered(t)
  <2>1. d \in BOOLEAN  OBVIOUS
  <2> HIDE DEF d
  <2> QED BY <2>1, WhenOne DEF Ordered
<1>3. DbPlan(b, v) = s \o t  BY DEF DbPlan
<1> HIDE DEF s, t
<1>4. PartOf(s, b, v, L)
  BY <1>1 DEF PartOf, SettingStep
<1>5. PartOf(t, b, v, M)
  BY <1>2 DEF PartOf, SettingStep
<1>6. PartOf(s \o t, b, v, L \cup M) /\ ToSet(s \o t) = ToSet(s) \cup ToSet(t)
  <2>1. "mkdb" \notin M /\ "mkenv" \notin M  OBVIOUS
  <2> HIDE DEF L, M
  <2> QED BY <2>1, <1>4, <1>5, JoinParts
<1>7. L \cup M = {"dbfree", "mkdb", "dropdb"}
  OBVIOUS
<1> QED BY <1>1, <1>3, <1>6, <1>7

\* The part about Nginx has a step for the block to write, if there is one, and one
\* for the original block, if that is to go.
LEMMA NginxPart ==
  ASSUME NEW b, NEW v
  PROVE  LET s == NginxPlan(b, v) IN
         /\ PartOf(s, b, v, {"nginxup", "portfree", "mkblock", "unblock"})
         /\ BlockWanted(b, v) => <<"mkblock", WantedFile(b, v)>> \in ToSet(s)
         /\ BlockGoes(b, v) => <<"unblock", FileOf(v)>> \in ToSet(s)
<1> DEFINE on == b.nginx = "on"
           wanted == BlockWanted(b, v)
           c == wanted /\ b.dropBlock /\ v.conf \notin {None, WantedConf(b, v)}
           d == b.nginx = "off" /\ b.dropBlock /\ v.conf # None
           u == <<"nginxup", WantedHost(b, v)>>
           x == <<"portfree", WantedPort(b, v)>>
           y == <<"mkblock", WantedFile(b, v)>>
           z == <<"unblock", FileOf(v)>>
           A == When(on, << u >>)
           B == When(wanted, << x, y >>)
           C == When(c, << z >>)
           D == When(d, << z >>)
           AB == A \o B
           ABC == AB \o C
           LA == {"nginxup"}
           LB == {"portfree", "mkblock"}
           LC == {"unblock"}
<1>1. NginxPlan(b, v) = ABC \o D
  <2>1. When(BlockWanted(b, v), OriginalBlock(b, v, WantedConf(b, v))) = C
    BY DEF OriginalBlock, When
  <2>2. When(b.nginx = "off", OriginalBlock(b, v, None)) = D
    BY DEF OriginalBlock, When
  <2> HIDE DEF C, D
  <2> QED BY <2>1, <2>2 DEF NginxPlan
<1>2. on \in BOOLEAN /\ wanted \in BOOLEAN /\ c \in BOOLEAN /\ d \in BOOLEAN
  BY DEF BlockWanted
<1>3. wanted => on  BY DEF BlockWanted
<1>4. (c \/ d => v.conf # None) /\ (c \/ d => (on => v.conf # WantedConf(b, v)))
  OBVIOUS
<1>5. BlockGoes(b, v) => c \/ d  BY DEF BlockGoes
<1>6. IsSeq(A) /\ ToSet(A) = (IF on THEN {u} ELSE {}) /\ Ordered(A)
  <2> HIDE DEF on, u
  <2> QED BY <1>2, WhenOne DEF Ordered
<1>7. IsSeq(B) /\ ToSet(B) = (IF wanted THEN {x, y} ELSE {}) /\ Ordered(B)
  <2>1. x[1] # "dropdb" /\ x[1] # "dropenv" /\ x[1] # "mkdb" /\ x[1] # "mkenv"
    OBVIOUS
  <2>2. y[1] # "dropdb" /\ y[1] # "dropenv" /\ y[1] # "mkdb" /\ y[1] # "mkenv"
    OBVIOUS
  <2> HIDE DEF wanted, x, y
  <2> QED BY <1>2, <2>1, <2>2, WhenTwo DEF Ordered
<1>8. IsSeq(C) /\ ToSet(C) = (IF c THEN {z} ELSE {}) /\ Ordered(C)
  <2> HIDE DEF c, z
  <2> QED BY <1>2, WhenOne DEF Ordered
<1>9. IsSeq(D) /\ ToSet(D) = (IF d THEN {z} ELSE {}) /\ Ordered(D)
  <2> HIDE DEF d, z
  <2> QED BY <1>2, WhenOne DEF Ordered
<1> HIDE DEF A, B, C, D, c, d, wanted
<1>10. PartOf(A, b, v, LA)
  BY <1>6 DEF PartOf, SettingStep
<1>11. PartOf(B, b, v, LB)
  BY <1>3, <1>7 DEF PartOf, SettingStep
<1>12. PartOf(C, b, v, LC)
  BY <1>4, <1>8 DEF PartOf, SettingStep
<1>13. PartOf(D, b, v, LC)
  BY <1>4, <1>9 DEF PartOf, SettingStep
<1>14. "mkdb" \notin LB /\ "mkenv" \notin LB /\ "mkdb" \notin LC /\ "mkenv" \notin LC
  OBVIOUS
<1>15. ((LA \cup LB) \cup LC) \cup LC = {"nginxup", "portfree", "mkblock", "unblock"}
  OBVIOUS
<1> HIDE DEF LA, LB, LC
<1>16. PartOf(AB, b, v, LA \cup LB) /\ ToSet(AB) = ToSet(A) \cup ToSet(B)
  BY <1>10, <1>11, <1>14, JoinParts
<1> DEFINE LAB == LA \cup LB
<1> HIDE DEF AB, LAB
<1>17. PartOf(ABC, b, v, LAB \cup LC) /\ ToSet(ABC) = ToSet(AB) \cup ToSet(C)
  <2>1. PartOf(AB, b, v, LAB)  BY <1>16 DEF LAB
  <2> QED BY <2>1, <1>12, <1>14, JoinParts
<1> DEFINE LABC == LAB \cup LC
<1> HIDE DEF ABC, LABC
<1>18. PartOf(ABC \o D, b, v, LABC \cup LC) /\ ToSet(ABC \o D) = ToSet(ABC) \cup ToSet(D)
  <2>1. PartOf(ABC, b, v, LABC)  BY <1>17 DEF LABC
  <2> QED BY <2>1, <1>13, <1>14, JoinParts
<1>19. LABC \cup LC = {"nginxup", "portfree", "mkblock", "unblock"}
  BY <1>15 DEF LABC, LAB
<1> HIDE DEF y, z
<1>20. /\ wanted => y \in ToSet(ABC \o D)
       /\ BlockGoes(b, v) => z \in ToSet(ABC \o D)
  BY <1>5, <1>7, <1>8, <1>9, <1>16, <1>17, <1>18
<1> QED BY <1>1, <1>18, <1>19, <1>20 DEF wanted, y, z

\* The whole plan has a step for everything that was asked, in order.
LEMMA SettingPlanSteps ==
  ASSUME NEW b, NEW v
  PROVE  LET s == SettingPlan(b, v) IN
         /\ IsSeq(s) /\ Ordered(s) /\ \A x \in ToSet(s) : SettingStep(b, v, x)
         /\ EnvChanges(b, v) /\ b.mkEnv => <<"mkenv", b.env>> \in ToSet(s)
         /\ DbChanges(b, v) /\ b.db # None => <<"mkdb", b.db>> \in ToSet(s)
         /\ BlockWanted(b, v) => <<"mkblock", WantedFile(b, v)>> \in ToSet(s)
         /\ BlockGoes(b, v) => <<"unblock", FileOf(v)>> \in ToSet(s)
<1> DEFINE A == CondaPlan(b, v)
           B == DbPlan(b, v)
           C == NginxPlan(b, v)
           u == ChangedFields(b, v) # {}
           D == When(u, << <<"update", None>> >>)
           AB == A \o B
           ABC == AB \o C
           s == ABC \o D
           l == \E x \in ToSet(s) : x[1] # "nginxup"
           E == When(l, << <<"log", None>> >>)
           LA == {"envfree", "mkenv", "dropenv"}
           LB == {"dbfree", "mkdb", "dropdb"}
           LC == {"nginxup", "portfree", "mkblock", "unblock"}
           LD == {"update"}
           LE == {"log"}
<1>1. SettingPlan(b, v) = s \o E
  BY DEF SettingPlan
<1>2. PartOf(D, b, v, LD)
  <2>1. u \in BOOLEAN  OBVIOUS
  <2> HIDE DEF u
  <2>2. /\ IsSeq(D) /\ ToSet(D) = (IF u THEN {<<"update", None>>} ELSE {}) /\ Ordered(D)
    BY <2>1, WhenOne DEF Ordered
  <2> HIDE DEF D
  <2> QED BY <2>2 DEF PartOf, SettingStep
<1>3. PartOf(E, b, v, LE)
  <2>1. l \in BOOLEAN  OBVIOUS
  <2> HIDE DEF l
  <2>2. /\ IsSeq(E) /\ ToSet(E) = (IF l THEN {<<"log", None>>} ELSE {}) /\ Ordered(E)
    BY <2>1, WhenOne DEF Ordered
  <2> HIDE DEF E
  <2> QED BY <2>2 DEF PartOf, SettingStep
<1>4. PartOf(A, b, v, LA) /\ PartOf(B, b, v, LB) /\ PartOf(C, b, v, LC)
  BY CondaPart, DbPart, NginxPart
<1>5. /\ EnvChanges(b, v) /\ b.mkEnv => <<"mkenv", b.env>> \in ToSet(A)
      /\ DbChanges(b, v) /\ b.db # None => <<"mkdb", b.db>> \in ToSet(B)
      /\ BlockWanted(b, v) => <<"mkblock", WantedFile(b, v)>> \in ToSet(C)
      /\ BlockGoes(b, v) => <<"unblock", FileOf(v)>> \in ToSet(C)
  BY CondaPart, DbPart, NginxPart
<1> HIDE DEF A, B, C, D, E
<1>6. /\ "dropdb" \notin LA /\ "mkenv" \notin LB
      /\ "mkdb" \notin LC /\ "mkenv" \notin LC
      /\ "mkdb" \notin LD /\ "mkenv" \notin LD /\ "mkdb" \notin LE /\ "mkenv" \notin LE
  OBVIOUS
<1> HIDE DEF LA, LB, LC, LD, LE
<1>7. PartOf(AB, b, v, LA \cup LB) /\ ToSet(AB) = ToSet(A) \cup ToSet(B)
  BY <1>4, <1>6, JoinParts
<1> DEFINE LAB == LA \cup LB
<1> HIDE DEF AB, LAB
<1>8. PartOf(ABC, b, v, LAB \cup LC) /\ ToSet(ABC) = ToSet(AB) \cup ToSet(C)
  <2>1. PartOf(AB, b, v, LAB)  BY <1>7 DEF LAB
  <2>2. PartOf(C, b, v, LC) /\ "mkdb" \notin LC /\ "mkenv" \notin LC  BY <1>4, <1>6
  <2> QED BY <2>1, <2>2, JoinParts
<1> DEFINE LABC == LAB \cup LC
<1> HIDE DEF ABC, LABC
<1>9. PartOf(s, b, v, LABC \cup LD) /\ ToSet(s) = ToSet(ABC) \cup ToSet(D)
  <2>1. PartOf(ABC, b, v, LABC)  BY <1>8 DEF LABC
  <2> QED BY <2>1, <1>2, <1>6, JoinParts
<1> DEFINE LS == LABC \cup LD
<1> HIDE DEF s, LS
<1>10. PartOf(s \o E, b, v, LS \cup LE) /\ ToSet(s \o E) = ToSet(s) \cup ToSet(E)
  <2>1. PartOf(s, b, v, LS)  BY <1>9 DEF LS
  <2> QED BY <2>1, <1>3, <1>6, JoinParts
<1>11. IsSeq(s \o E) /\ Ordered(s \o E) /\ \A x \in ToSet(s \o E) : SettingStep(b, v, x)
  BY <1>10 DEF PartOf
<1>12. ToSet(A) \cup ToSet(B) \cup ToSet(C) \subseteq ToSet(s \o E)
  BY <1>7, <1>8, <1>9, <1>10
<1> QED BY <1>1, <1>5, <1>11, <1>12

\* What the removal of the original database does: it makes nothing.
LEMMA OriginalDbPlanSteps ==
  ASSUME NEW v
  PROVE  LET s == OriginalDbPlan(v) IN
         IsSeq(s) /\ \A x \in ToSet(s) : x[1] \notin {"mkenv", "mkdb", "update"}
<1> DEFINE d == << <<"dropdb", v.db>>, <<"clear", None>>, <<"log", None>> >>
<1>1. /\ d \in Seq({<<"dropdb", v.db>>, <<"clear", None>>, <<"log", None>>})
      /\ <<>> \in Seq({<<"log", None>>})
  OBVIOUS
<1>2. /\ IsSeq(d) /\ ToSet(d) \subseteq {<<"dropdb", v.db>>, <<"clear", None>>, <<"log", None>>}
      /\ IsSeq(<<>>) /\ ToSet(<<>>) \subseteq {<<"log", None>>}
  BY <1>1, SeqIsSeq
<1>3. OriginalDbPlan(v) \in {d, <<>>}
  BY DEF OriginalDbPlan, When
<1> HIDE DEF d
<1> QED BY <1>2, <1>3

-----------------------------------------------------------------------------
(* The invariant.                                                          *)

\* What the plan of a body b, made from the table t, is and what its rest is.
PlanShape(b, t, s) ==
  /\ IsSeq(s)
  /\ b.kind = "delete" => EndsWithRows(s)
  /\ b.kind = "setting" => Ordered(s) /\ \A x \in ToSet(s) : SettingStep(b, t[b.id], x)
  /\ b.kind = "originalDb" => \A x \in ToSet(s) : x[1] \notin {"mkenv", "mkdb", "update"}
  /\ b.kind = "status" => \A x \in ToSet(s) : x[2] \in {0, 1}

GoodRow(v) ==
  /\ v.status \in {-1, 0, 1} /\ v.name \in Names /\ v.server \in Servers
  /\ v.host \in Servers \cup {None} /\ v.conf \in Confs \cup {None}

PlanInv(r) ==
  pc[r] = "run" =>
    /\ plan[r] # <<>> /\ PlanShape(op[r], seen[r], plan[r])
    /\ \A i \in Targets(op[r]) : GoodRow(seen[r][i])

RowsGood == \A i \in DOMAIN rows : GoodRow(rows[i])
BlocksInv == blocks = [f \in Files |-> [n \in Names |-> blocks[f][n]]]
NothingIsNone == None \notin dbs /\ \A x \in dirs \cup envs : x[2] # None

\* What is to do, of the steps that r has still to take, or has been done.
ToDo(r, step) == step \in ToSet(plan[r])

\* What a step of a deletion with this label removes of the project of row v.
Gone(label, v) ==
  /\ label = "rmdir" => <<Here, v.dir>> \notin dirs
  /\ label = "rmenv" => <<Here, v.env>> \notin envs
  /\ label = "rmdb" => v.db \notin dbs
  /\ label = "rmblock" => BlockIn(blocks, v) = None

\* As long as a deletion runs alone its projects are listed, and what it does not
\* remove any more is gone.
Deleting(r) ==
  pc[r] = "run" /\ Kind(r, "delete") /\ Alone(r) =>
    \A i \in Targets(op[r]) :
      /\ Listed(rows, i)
      /\ \A m \in Removals(op[r]) : ToDo(r, <<m[1], i>>) \/ Gone(m[1], seen[r][i])

\* The new environment, the new database and the blocks of a setting that runs alone.
Made(r, b, v) ==
  /\ EnvChanges(b, v) /\ b.mkEnv => ToDo(r, <<"mkenv", b.env>>) \/ <<v.server, b.env>> \in envs
  /\ DbChanges(b, v) /\ b.db # None => ToDo(r, <<"mkdb", b.db>>) \/ b.db \in dbs
  /\ BlockWanted(b, v) => \/ ToDo(r, <<"mkblock", WantedFile(b, v)>>)
                          \/ blocks[WantedFile(b, v)][v.name] = WantedPort(b, v)
  /\ BlockGoes(b, v) => ToDo(r, <<"unblock", FileOf(v)>>) \/ blocks[FileOf(v)][v.name] = None

Changing(r) == pc[r] = "run" /\ Kind(r, "setting") /\ Alone(r) => Made(r, op[r], Row(r))

\* Where a deletion may have stopped although nothing of it failed.
Stop(r) ==
  LET label == Head(plan[r])[1]
      s == seen[r][Arg(r)]
  IN \/ label = "rmenv"
     \/ label = "rmdir" /\ s.dir \in Unsafe
     \/ label = "rmblock" /\ ~CanChange(op[r].user, NginxOf(s))
     \/ label = "delrows" /\ ~Alone(r)

JInv ==
  /\ RowsGood /\ BlocksInv /\ NothingIsNone
  /\ \A r \in Requests : PlanInv(r) /\ Deleting(r) /\ Changing(r)
  /\ RepeatedDeletionGetsThrough

\* Every plan has its shape when it is made ...
LEMMA PlanOfShape ==
  ASSUME NEW b \in Bodies, NEW t
  PROVE  PlanShape(b, t, PlanOf(b, t))
<1>1. b.kind \in Kinds /\ (b.kind = "delete" => b.ids \in Seq(Nat))
      /\ (b.kind = "status" => b.running \in {0, 1})
  BY LifecycleConstants
<1>2. CASE b.kind = "delete"
  <2>1. PlanOf(b, t) = DeletePlan(b, t)  BY <1>2 DEF PlanOf
  <2>2. b.ids \in Seq(Nat)  BY <1>1, <1>2
  <2>3. IsSeq(DeletePlan(b, t)) /\ EndsWithRows(DeletePlan(b, t))
    BY <2>2, DeletePlanSteps
  <2> QED BY <2>1, <2>3, <1>2 DEF PlanShape
<1>3. CASE b.kind = "setting"
  <2>1. PlanOf(b, t) = SettingPlan(b, t[b.id])  BY <1>3 DEF PlanOf
  <2>2. /\ IsSeq(SettingPlan(b, t[b.id])) /\ Ordered(SettingPlan(b, t[b.id]))
        /\ \A x \in ToSet(SettingPlan(b, t[b.id])) : SettingStep(b, t[b.id], x)
    BY SettingPlanSteps
  <2> QED BY <2>1, <2>2, <1>3 DEF PlanShape
<1>4. CASE b.kind = "originalDb"
  <2>1. PlanOf(b, t) = OriginalDbPlan(t[b.id])  BY <1>4 DEF PlanOf
  <2> QED BY <2>1, <1>4, OriginalDbPlanSteps DEF PlanShape
<1>5. CASE b.kind = "sync"
  <2>1. PlanOf(b, t) = SyncPlan(b)  BY <1>5 DEF PlanOf
  <2>2. SyncPlan(b) \in Seq(SyncLabels \X Fields(b))  BY SyncPlanShape DEF Plans
  <2>3. IsSeq(SyncPlan(b))  BY <2>2, SeqIsSeq
  <2> QED BY <2>1, <2>3, <1>5 DEF PlanShape
<1>6. CASE b.kind = "record"
  <2>1. PlanOf(b, t) = << <<"namefree", b.name>>, <<"insert", None>> >>  BY <1>6 DEF PlanOf
  <2>2. PlanOf(b, t) \in Seq(SyncLabels \X Fields(b))  BY <2>1, RecordPlanShape DEF Plans
  <2>3. IsSeq(PlanOf(b, t))  BY <2>2, SeqIsSeq
  <2> QED BY <2>3, <1>6 DEF PlanShape
<1>7. CASE b.kind = "status"
  <2> DEFINE x == <<"status", b.running>>
  <2>1. PlanOf(b, t) = << x >>  BY <1>7 DEF PlanOf
  <2>2. << x >> \in Seq({x})  OBVIOUS
  <2>3. x[2] \in {0, 1}  BY <1>1, <1>7
  <2>4. IsSeq(<< x >>) /\ ToSet(<< x >>) \subseteq {x}  BY <2>2, SeqIsSeq
  <2> HIDE DEF x
  <2> QED BY <2>1, <2>3, <2>4, <1>7 DEF PlanShape
<1>8. CASE b.kind = "transfer"
  <2> DEFINE x == <<"transfer", None>>
  <2>1. PlanOf(b, t) = << x >>  BY <1>8 DEF PlanOf
  <2>2. << x >> \in Seq({x})  OBVIOUS
  <2>3. IsSeq(<< x >>)  BY <2>2, SeqIsSeq
  <2> HIDE DEF x
  <2> QED BY <2>1, <2>3, <1>8 DEF PlanShape
<1> QED BY <1>1, <1>2, <1>3, <1>4, <1>5, <1>6, <1>7, <1>8 DEF Kinds

\* ... and keeps it with every step.
LEMMA RestOfShape ==
  ASSUME NEW b, NEW t, NEW s, PlanShape(b, t, s), s # <<>>
  PROVE  /\ PlanShape(b, t, Tail(s)) /\ Head(s) \in ToSet(s)
         /\ ToSet(s) = {Head(s)} \cup ToSet(Tail(s))
         /\ Len(s) = 1 => ToSet(Tail(s)) = {}
         /\ Len(s) # 1 => Tail(s) # <<>>
         /\ b.kind = "delete" => (Head(s)[1] = "delrows" <=> Len(s) = 1)
         /\ b.kind = "setting" =>
              /\ Head(s)[1] = "dropdb" => \A x \in ToSet(s) : x[1] # "mkdb"
              /\ Head(s)[1] = "dropenv" => \A x \in ToSet(s) : x[1] # "mkenv"
<1>1. IsSeq(s)  BY DEF PlanShape
<1>2. /\ IsSeq(Tail(s)) /\ Head(s) \in ToSet(s)
      /\ ToSet(s) = {Head(s)} \cup ToSet(Tail(s))
      /\ Len(s) = 1 => ToSet(Tail(s)) = {}
      /\ Len(s) # 1 => Tail(s) # <<>>
  BY <1>1, RestOfSteps
<1>3. ASSUME b.kind = "delete"
      PROVE  EndsWithRows(Tail(s)) /\ (Head(s)[1] = "delrows" <=> Len(s) = 1)
  BY <1>1, <1>3, RestEndsWithRows DEF PlanShape
<1>4. ASSUME b.kind = "setting"
      PROVE  /\ Ordered(Tail(s))
             /\ Head(s)[1] = "dropdb" => \A x \in ToSet(s) : x[1] # "mkdb"
             /\ Head(s)[1] = "dropenv" => \A x \in ToSet(s) : x[1] # "mkenv"
  <2>1. Before(s, "mkdb", "dropdb") /\ Before(s, "mkenv", "dropenv")
    BY <1>4 DEF PlanShape, Ordered
  <2> QED BY <2>1, <1>1, RestOfSteps DEF Ordered
<1>5. \A x \in ToSet(Tail(s)) : x \in ToSet(s)  BY <1>2
<1>6. PlanShape(b, t, Tail(s))
  BY <1>2, <1>3, <1>4, <1>5 DEF PlanShape
<1> QED BY <1>2, <1>3, <1>4, <1>6

-----------------------------------------------------------------------------
(* What the steps do to directories, environments, databases and blocks.   *)

\* A deletion only removes, and a step of it that goes on has removed what it was for.
Removes(r) ==
  /\ dirs' \subseteq dirs /\ envs' \subseteq envs /\ dbs' \subseteq dbs
  /\ \A f \in Files, n \in Names : blocks'[f][n] \in {blocks[f][n], None}
  /\ Head(plan[r])[1] # "delrows" => rows' = rows
  /\ pc'[r] # "failed" /\ Head(plan[r])[1] = "delrows" =>
       \A i \in Targets(op[r]) : ~Listed(rows', i)

LEMMA DeleteRemoves ==
  ASSUME Types, RowsInv, BlocksInv, NEW r \in Requests, Delete(r)
  PROVE  Removes(r) /\ BlocksInv'
<1> DEFINE h == Head(plan[r])[1]
<1> USE DEF Step, At
<1>1. CASE RemoveDir(r) \/ RemoveEnv(r) \/ RemoveDb(r)
  <2>1. h # "delrows"  BY <1>1 DEF RemoveDir, RemoveEnv, RemoveDb
  <2>2. /\ dirs' \subseteq dirs /\ envs' \subseteq envs /\ dbs' \subseteq dbs
        /\ blocks' = blocks /\ rows' = rows
    BY <1>1 DEF RemoveDir, RemoveEnv, RemoveDb, SetDirs, SetEnvs, SetDbs, resources
  <2> QED BY <2>1, <2>2 DEF Removes, BlocksInv
<1>2. CASE RemoveBlock(r)
  <2>1. h # "delrows"  BY <1>2 DEF RemoveBlock
  <2>2. dirs' = dirs /\ envs' = envs /\ dbs' = dbs /\ rows' = rows
    BY <1>2 DEF RemoveBlock, SetBlock, resources
  <2>3. blocks' = blocks \/ \E c, n : blocks' = [blocks EXCEPT ![c][n] = None]
    BY <1>2 DEF RemoveBlock, SetBlock, resources
  <2>4. (\A f \in Files, n \in Names : blocks'[f][n] \in {blocks[f][n], None}) /\ BlocksInv'
    <3>1. CASE blocks' = blocks  BY <3>1 DEF BlocksInv
    <3>2. ASSUME NEW c, NEW n, blocks' = [blocks EXCEPT ![c][n] = None]
          PROVE  (\A d \in Files, m \in Names : blocks'[d][m] \in {blocks[d][m], None}) /\ BlocksInv'
      BY <3>2 DEF BlocksInv
    <3> QED BY <2>3, <3>1, <3>2
  <2> QED BY <2>1, <2>2, <2>4 DEF Removes
<1>3. CASE DeleteRows(r)
  <2> DEFINE gone == {i \in Targets(op[r]) : Listed(rows, i)}
  <2>1. h = "delrows"  BY <1>3 DEF DeleteRows
  <2>2. dirs' = dirs /\ envs' = envs /\ dbs' = dbs /\ blocks' = blocks
    BY <1>3 DEF DeleteRows, SetRows, resources
  <2>3. pc'[r] # "failed" =>
          rows' = [i \in DOMAIN rows |-> IF i \in gone THEN [rows[i] EXCEPT !.status = -1]
                                         ELSE rows[i]]
    BY <1>3 DEF DeleteRows, SetRows, Fails, Types
  <2>4. ASSUME pc'[r] # "failed", NEW i \in Targets(op[r]), Listed(rows', i) PROVE FALSE
    <3>1. i \in DOMAIN rows  BY <2>3, <2>4 DEF Listed
    <3>2. CASE i \in gone
      <4>1. rows'[i] = [rows[i] EXCEPT !.status = -1]  BY <2>3, <2>4, <3>1, <3>2
      <4>2. rows'[i].status \in {0, 1}  BY <2>4 DEF Listed
      <4>3. DOMAIN rows[i] = RowFields  BY <3>1 DEF RowsInv, IsRow
      <4> QED BY <4>1, <4>2, <4>3 DEF RowFields
    <3>3. CASE i \notin gone
      <4>1. rows'[i] = rows[i]  BY <2>3, <2>4, <3>1, <3>3
      <4> QED BY <4>1, <3>1, <3>3, <2>4 DEF Listed
    <3> QED BY <3>2, <3>3
  <2> QED BY <2>1, <2>2, <2>4 DEF Removes, BlocksInv
<1> QED BY <1>1, <1>2, <1>3 DEF Delete

\* The places of the block of a row.
LEMMA BlockPlace ==
  ASSUME NEW v, GoodRow(v)
  PROVE  FileOf(v) \in Files /\ v.name \in Names /\ v.name # None
<1>1. v.name \in Names /\ v.name # None  BY LifecycleNames DEF GoodRow
<1>2. NginxOf(v) \in Servers  BY DEF GoodRow, NginxOf
<1>3. MainConf[NginxOf(v)] \in Confs  BY <1>2, LifecycleNames
<1> QED BY <1>1, <1>2, <1>3 DEF FileOf, Files, GoodRow

\* What a deletion has removed stays away while it goes on.
LEMMA GoneStays ==
  ASSUME NEW r \in Requests, Removes(r), NEW v, GoodRow(v), NEW label, Gone(label, v)
  PROVE  Gone(label, v)'
<1> DEFINE c == FileOf(v)
<1>1. c \in Files /\ v.name \in Names  BY BlockPlace
<1> HIDE DEF c
<1>2. blocks'[c][v.name] \in {blocks[c][v.name], None}  BY <1>1 DEF Removes
<1>3. BlockIn(blocks, v) = blocks[c][v.name] /\ BlockIn(blocks', v) = blocks'[c][v.name]
  BY DEF BlockIn, c
<1>4. BlockIn(blocks, v) = None => BlockIn(blocks', v) = None
  BY <1>2, <1>3
<1> QED BY <1>4 DEF Gone, Removes

\* The step that removes something, if it goes on, has removed it.
LEMMA StepRemoves ==
  ASSUME Types, BlocksInv, NEW r \in Requests, Delete(r), pc'[r] # "failed",
         NEW label \in {"rmdir", "rmenv", "rmdb", "rmblock"}, NEW i,
         Head(plan[r]) = <<label, i>>, NEW v, v = seen[r][i], GoodRow(v)
  PROVE  Gone(label, v)'
<1>1. Arg(r) = i /\ Head(plan[r])[1] = label /\ ~Fails(r)
  BY DEF Arg, Fails, Types
<1> USE DEF Step, At
<1>2. CASE label = "rmdir"
  <2>1. RemoveDir(r)
    BY <1>1, <1>2 DEF Delete, RemoveEnv, RemoveDb, RemoveBlock, DeleteRows
  <2>2. dirs' = dirs \ {<<Here, v.dir>>}
    BY <2>1, <1>1 DEF RemoveDir, SetDirs
  <2> QED BY <2>2, <1>2 DEF Gone
<1>3. CASE label = "rmenv"
  <2>1. RemoveEnv(r)
    BY <1>1, <1>3 DEF Delete, RemoveDir, RemoveDb, RemoveBlock, DeleteRows
  <2>2. envs' = envs \ {<<Here, v.env>>}
    BY <2>1, <1>1 DEF RemoveEnv, SetEnvs
  <2> QED BY <2>2, <1>3 DEF Gone
<1>4. CASE label = "rmdb"
  <2>1. RemoveDb(r)
    BY <1>1, <1>4 DEF Delete, RemoveDir, RemoveEnv, RemoveBlock, DeleteRows
  <2>2. dbs' = dbs \ {v.db}
    BY <2>1, <1>1 DEF RemoveDb, SetDbs
  <2> QED BY <2>2, <1>4 DEF Gone
<1>5. CASE label = "rmblock"
  <2> DEFINE c == FileOf(v)
  <2>1. RemoveBlock(r)
    BY <1>1, <1>5 DEF Delete, RemoveDir, RemoveEnv, RemoveDb, DeleteRows
  <2>2. blocks' = [blocks EXCEPT ![c][v.name] = None]
    BY <2>1, <1>1 DEF RemoveBlock, SetBlock
  <2>3. c \in Files /\ v.name \in Names  BY BlockPlace
  <2> HIDE DEF c
  <2>4. blocks'[c][v.name] = None  BY <2>2, <2>3 DEF BlocksInv
  <2>5. BlockIn(blocks', v) = None  BY <2>4 DEF BlockIn, c
  <2> QED BY <2>5, <1>5 DEF Gone
<1> QED BY <1>2, <1>3, <1>4, <1>5

\* What a change of settings does to environments, databases and blocks: only the
\* step at the head of its plan, and all of it if it goes on.
EnvsChange(r) ==
  LET h == Head(plan[r])
      e == <<Row(r).server, h[2]>>
  IN /\ \/ envs' = envs
        \/ h[1] = "mkenv" /\ envs' = envs \cup {e}
        \/ h[1] = "dropenv" /\ envs' = envs \ {e}
     /\ pc'[r] # "failed" /\ h[1] = "mkenv" => envs' = envs \cup {e}

DbsChange(r) ==
  LET h == Head(plan[r])
  IN /\ \/ dbs' = dbs
        \/ h[1] = "mkdb" /\ dbs' = dbs \cup {h[2]}
        \/ h[1] = "dropdb" /\ dbs' = dbs \ {h[2]}
     /\ pc'[r] # "failed" /\ h[1] = "mkdb" => dbs' = dbs \cup {h[2]}

BlocksChange(r) ==
  LET h == Head(plan[r])
      made == [blocks EXCEPT ![h[2]][Row(r).name] = WantedPort(op[r], Row(r))]
      dropped == [blocks EXCEPT ![h[2]][Row(r).name] = None]
  IN /\ \/ blocks' = blocks
        \/ h[1] = "mkblock" /\ blocks' = made
        \/ h[1] = "unblock" /\ blocks' = dropped
     /\ pc'[r] # "failed" /\ h[1] = "mkblock" => blocks' = made
     /\ pc'[r] # "failed" /\ h[1] = "unblock" => blocks' = dropped

LEMMA SettingChanges ==
  ASSUME Types, NEW r \in Requests, Setting(r)
  PROVE  EnvsChange(r) /\ DbsChange(r) /\ BlocksChange(r) /\ dirs' = dirs
<1>1. Fails(r) => pc'[r] = "failed"  BY DEF Fails, Types
<1> USE DEF Step, At, Arg
<1>2. CASE EnvFree(r) \/ DbFree(r) \/ NginxUp(r) \/ PortFree(r) \/ Log(r)
  BY <1>2, <1>1 DEF EnvFree, DbFree, NginxUp, PortFree, Log, Nothing, resources, EnvsChange, DbsChange,
                    BlocksChange
<1>3. CASE MakeEnv(r)
  BY <1>3, <1>1 DEF MakeEnv, SetEnvs, resources, EnvsChange, DbsChange, BlocksChange
<1>4. CASE DropEnv(r)
  BY <1>4, <1>1 DEF DropEnv, SetEnvs, resources, EnvsChange, DbsChange, BlocksChange
<1>5. CASE MakeDb(r)
  BY <1>5, <1>1 DEF MakeDb, SetDbs, resources, EnvsChange, DbsChange, BlocksChange
<1>6. CASE DropDb(r)
  BY <1>6, <1>1 DEF DropDb, SetDbs, resources, EnvsChange, DbsChange, BlocksChange
<1>7. CASE MakeBlock(r)
  BY <1>7, <1>1 DEF MakeBlock, SetBlock, resources, EnvsChange, DbsChange, BlocksChange
<1>8. CASE DropBlock(r)
  BY <1>8, <1>1 DEF DropBlock, SetBlock, resources, EnvsChange, DbsChange, BlocksChange
<1>9. CASE UpdateRow(r)
  BY <1>9, <1>1 DEF UpdateRow, SetRows, resources, EnvsChange, DbsChange, BlocksChange
<1>10. CASE ClearDb(r)
  BY <1>10, <1>1 DEF ClearDb, SetRows, resources, EnvsChange, DbsChange, BlocksChange
<1> QED BY <1>2, <1>3, <1>4, <1>5, <1>6, <1>7, <1>8, <1>9, <1>10 DEF Setting

\* Registering a project, writing a status and a transfer leave all of them alone.
LEMMA OthersLeaveThem ==
  ASSUME NEW r \in Requests, Sync(r) \/ UpdateStatus(r) \/ Transfer(r)
  PROVE  dirs' = dirs /\ envs' = envs /\ dbs' = dbs /\ blocks' = blocks
<1> USE DEF Step, At
<1>1. CASE Insert(r)
  BY <1>1 DEF Insert, resources
<1>2. CASE UpdateStatus(r)
  BY <1>2 DEF UpdateStatus, SetRows, resources
<1>3. CASE \/ DirThere(r) \/ NameFree(r) \/ EnvThere(r) \/ DbThere(r) \/ BlockThere(r)
           \/ Log(r)
  BY <1>3 DEF DirThere, NameFree, EnvThere, DbThere, BlockThere, Log, Nothing, resources
<1>4. CASE Transfer(r)
  BY <1>4 DEF Transfer, resources
<1> QED BY <1>1, <1>2, <1>3, <1>4 DEF Sync

-----------------------------------------------------------------------------
(* The invariant is inductive.                                             *)

\* The file that a setting writes into is a file of a server.
LEMMA WantedIsFile ==
  ASSUME NEW b \in Bodies, b.kind = "setting", NEW v, GoodRow(v)
  PROVE  /\ WantedFile(b, v) \in Files
         /\ Wanted(b, v).conf \in Confs \cup {None} /\ Wanted(b, v).host \in Servers \cup {None}
<1>1. /\ b.conf \in Confs \cup {None, Keep} /\ b.host \in Servers \cup {None, Keep}
      /\ MainConf \in [Servers -> Confs]
  BY LifecycleNames
<1>2. v.conf \in Confs \cup {None} /\ v.host \in Servers \cup {None} /\ v.server \in Servers
  BY DEF GoodRow
<1>3. WantedHost(b, v) \in Servers  BY <1>1, <1>2 DEF WantedHost, NginxOf
<1>4. WantedConf(b, v) \in Confs
  <2>1. MainConf[WantedHost(b, v)] \in Confs  BY <1>1, <1>3
  <2> QED BY <2>1, <1>1, <1>2 DEF WantedConf
<1> DEFINE Bound(f, new) == CASE b.nginx = "off" -> None
                              [] BlockWanted(b, v) -> new
                              [] b.nginx = "on" /\ Unchanged(b, v) -> v[f]
                              [] OTHER -> IF b[f] = Keep THEN v[f] ELSE b[f]
<1>5. /\ Wanted(b, v).conf = Bound("conf", WantedConf(b, v))
      /\ Wanted(b, v).host = Bound("host", WantedHost(b, v))
  BY DEF Wanted
<1>6. \A f, new : Bound(f, new) \in {None, new, v[f]} \cup (IF b[f] = Keep THEN {} ELSE {b[f]})
  BY DEF BlockWanted
<1> HIDE DEF Bound
<1>7. WantedFile(b, v) \in Files  BY <1>3, <1>4 DEF WantedFile, Files
<1>8. Wanted(b, v).conf \in {None, WantedConf(b, v), v.conf} \cup (IF b.conf = Keep THEN {} ELSE {b.conf})
  BY <1>5, <1>6
<1>9. Wanted(b, v).host \in {None, WantedHost(b, v), v.host} \cup (IF b.host = Keep THEN {} ELSE {b.host})
  BY <1>5, <1>6
<1> QED BY <1>1, <1>2, <1>3, <1>4, <1>7, <1>8, <1>9

\* The rows keep a status, a name, servers and a file that rows may have.
LEMMA WorkKeepsGood ==
  ASSUME IInv, JInv, NEW r \in Requests, Work(r)
  PROVE  RowsGood'
<1> USE DEF Step, At
<1>1. /\ IsTable(rows) /\ \A i \in DOMAIN rows : DOMAIN rows[i] = RowFields /\ GoodRow(rows[i])
      /\ op[r] \in Bodies
  BY DEF IInv, Types, RowsInv, IsRow, JInv, RowsGood
<1>2. CASE rows' = rows  BY <1>1, <1>2 DEF RowsGood
<1>3. CASE DeleteRows(r) /\ rows' # rows
  <2>1. PICK gone : rows' = [i \in DOMAIN rows |-> IF i \in gone
                               THEN [rows[i] EXCEPT !.status = -1] ELSE rows[i]]
    BY <1>3 DEF DeleteRows, SetRows, resources
  <2>2. ASSUME NEW i \in DOMAIN rows' PROVE GoodRow(rows'[i])
    <3>1. i \in DOMAIN rows  BY <2>1
    <3>2. CASE i \in gone
      <4>1. rows'[i] = [rows[i] EXCEPT !.status = -1]  BY <2>1, <3>1, <3>2
      <4>2. /\ rows'[i].status = -1 /\ rows'[i].name = rows[i].name
            /\ rows'[i].server = rows[i].server /\ rows'[i].host = rows[i].host
            /\ rows'[i].conf = rows[i].conf
        BY <4>1, <3>1, <1>1 DEF RowFields
      <4> QED BY <4>2, <3>1, <1>1 DEF GoodRow
    <3>3. CASE i \notin gone  BY <2>1, <3>1, <3>3, <1>1
    <3> QED BY <3>2, <3>3
  <2> QED BY <2>2 DEF RowsGood
<1>4. CASE UpdateRow(r) /\ Setting(r) /\ rows' # rows
  <2> DEFINE b == op[r]
             v == Row(r)
             C == ChangedFields(b, v)
             W == Wanted(b, v)
             new == [f \in DOMAIN rows[b.id] |-> IF f \in C THEN W[f] ELSE rows[b.id][f]]
  <2>1. /\ rows' = [rows EXCEPT ![b.id] = new] /\ pc[r] = "run"
        /\ Head(plan[r])[1] = "update"
    BY <1>4 DEF UpdateRow, SetRows, resources
  <2>2. PlanShape(b, seen[r], plan[r]) /\ plan[r] # <<>> /\ \A i \in Targets(b) : GoodRow(seen[r][i])
    BY <2>1 DEF JInv, PlanInv
  <2>3. Head(plan[r]) \in ToSet(plan[r])  BY <2>2, RestOfShape
  <2>4. b.kind = "setting"
    BY <2>1, <2>2, <2>3, <1>4 DEF Setting, Kind, PlanShape
  <2>5. GoodRow(v)
    BY <2>2, <2>4 DEF Targets, Row
  <2>6. W.conf \in Confs \cup {None} /\ W.host \in Servers \cup {None}
    BY <1>1, <2>4, <2>5, WantedIsFile
  <2>7. "name" \notin C /\ "status" \notin C /\ "server" \notin C
    BY DEF ChangedFields, Wanted
  <2> HIDE DEF C, W
  <2>8. ASSUME NEW i \in DOMAIN rows' PROVE GoodRow(rows'[i])
    <3>1. i \in DOMAIN rows  BY <2>1
    <3>2. CASE i = b.id
      <4>1. rows'[i] = new /\ DOMAIN rows[b.id] = RowFields  BY <2>1, <3>1, <3>2, <1>1
      <4>2. /\ new.name = rows[i].name /\ new.status = rows[i].status
            /\ new.server = rows[i].server
            /\ new.conf \in {W.conf, rows[i].conf} /\ new.host \in {W.host, rows[i].host}
        BY <4>1, <2>7, <3>2 DEF RowFields
      <4> HIDE DEF new
      <4>3. GoodRow(rows[i])  BY <3>1, <1>1
      <4> QED BY <4>1, <4>2, <4>3, <2>6 DEF GoodRow
    <3>3. CASE i # b.id  BY <2>1, <3>1, <3>3, <1>1
    <3> QED BY <3>2, <3>3
  <2> QED BY <2>8 DEF RowsGood
<1>5. CASE ClearDb(r) /\ rows' # rows
  <2>1. rows' = [rows EXCEPT ![op[r].id].db = None]
    BY <1>5 DEF ClearDb, SetRows, resources
  <2>2. ASSUME NEW i \in DOMAIN rows' PROVE GoodRow(rows'[i])
    <3>1. i \in DOMAIN rows  BY <2>1
    <3>2. /\ rows'[i].name = rows[i].name /\ rows'[i].status = rows[i].status
          /\ rows'[i].server = rows[i].server /\ rows'[i].host = rows[i].host
          /\ rows'[i].conf = rows[i].conf
      BY <2>1, <3>1, <1>1 DEF RowFields
    <3> QED BY <3>1, <3>2, <1>1 DEF GoodRow
  <2> QED BY <2>2 DEF RowsGood
<1>6. CASE Insert(r) /\ Sync(r) /\ rows' # rows
  <2> DEFINE new == [owner |-> op[r].user, server |-> op[r].server, name |-> op[r].name,
                     dir |-> op[r].dir, env |-> op[r].env, db |-> op[r].db,
                     host |-> HostOf(op[r]), conf |-> op[r].conf, port |-> op[r].port,
                     text |-> op[r].text, status |-> 0]
  <2>1. PICK i \in Ids : rows' = [j \in DOMAIN rows \cup {i} |-> IF j # i THEN rows[j] ELSE new]
    BY <1>6 DEF Insert, resources
  <2>2. /\ op[r].name \in Names /\ op[r].conf \in Confs \cup {None}
        /\ op[r].server \in Servers /\ op[r].host \in Servers \cup {None}
    BY <1>1, <1>6, LifecycleNames DEF Sync, Kind
  <2>3. HostOf(op[r]) \in Servers \cup {None}  BY <2>2 DEF HostOf, NginxOf
  <2>4. GoodRow(new)  BY <2>2, <2>3 DEF GoodRow
  <2> HIDE DEF new
  <2>5. ASSUME NEW j \in DOMAIN rows' PROVE GoodRow(rows'[j])
    BY <2>1, <2>4, <1>1
  <2> QED BY <2>5 DEF RowsGood
<1>7. CASE UpdateStatus(r) /\ Kind(r, "status") /\ rows' # rows
  <2>1. /\ rows' = [rows EXCEPT ![op[r].id].status = Arg(r)] /\ pc[r] = "run"
    BY <1>7 DEF UpdateStatus, SetRows, resources
  <2>2. PlanShape(op[r], seen[r], plan[r]) /\ plan[r] # <<>>
    BY <2>1 DEF JInv, PlanInv
  <2>3. Head(plan[r]) \in ToSet(plan[r])  BY <2>2, RestOfShape
  <2>4. Arg(r) \in {0, 1}
    BY <2>2, <2>3, <1>7 DEF PlanShape, Kind, Arg
  <2>5. ASSUME NEW i \in DOMAIN rows' PROVE GoodRow(rows'[i])
    <3>1. i \in DOMAIN rows  BY <2>1
    <3>2. /\ rows'[i].name = rows[i].name /\ rows'[i].conf = rows[i].conf
          /\ rows'[i].server = rows[i].server /\ rows'[i].host = rows[i].host
          /\ rows'[i].status \in {rows[i].status, Arg(r)}
      BY <2>1, <3>1, <1>1 DEF RowFields
    <3> QED BY <3>1, <3>2, <2>4, <1>1 DEF GoodRow
  <2> QED BY <2>5 DEF RowsGood
<1>8. CASE Delete(r)
  <2>1. DeleteRows(r) \/ rows' = rows
    BY <1>8 DEF Delete, RemoveDir, RemoveEnv, RemoveDb, RemoveBlock, SetDirs, SetEnvs, SetDbs,
                SetBlock, resources
  <2> QED BY <2>1, <1>2, <1>3
<1>9. CASE Setting(r)
  <2>1. UpdateRow(r) \/ ClearDb(r) \/ rows' = rows
    BY <1>9 DEF Setting, EnvFree, MakeEnv, DropEnv, DbFree, MakeDb, DropDb, NginxUp, PortFree,
                MakeBlock, DropBlock, Log, SetEnvs, SetDbs, SetBlock, Nothing, resources
  <2> QED BY <2>1, <1>2, <1>4, <1>5, <1>9
<1>10. CASE Sync(r)
  <2>1. Insert(r) \/ rows' = rows
    BY <1>10 DEF Sync, DirThere, NameFree, EnvThere, DbThere, BlockThere, Log, Nothing, resources
  <2> QED BY <2>1, <1>2, <1>6, <1>10
<1>11. CASE Transfer(r) /\ rows' # rows
  <2>1. PICK theirs : rows' = [i \in DOMAIN rows |-> IF i \in theirs
                                 THEN [rows[i] EXCEPT !.owner = op[r].user] ELSE rows[i]]
    BY <1>11 DEF Transfer, resources
  <2>2. ASSUME NEW i \in DOMAIN rows' PROVE GoodRow(rows'[i])
    <3>1. i \in DOMAIN rows  BY <2>1
    <3>2. CASE i \in theirs
      <4>1. rows'[i] = [rows[i] EXCEPT !.owner = op[r].user]  BY <2>1, <3>1, <3>2
      <4>2. /\ rows'[i].status = rows[i].status /\ rows'[i].name = rows[i].name
            /\ rows'[i].server = rows[i].server /\ rows'[i].host = rows[i].host
            /\ rows'[i].conf = rows[i].conf
        BY <4>1, <3>1, <1>1 DEF RowFields
      <4> QED BY <4>2, <3>1, <1>1 DEF GoodRow
    <3>3. CASE i \notin theirs  BY <2>1, <3>1, <3>3, <1>1
    <3> QED BY <3>2, <3>3
  <2> QED BY <2>2 DEF RowsGood
<1> QED BY <1>2, <1>7, <1>8, <1>9, <1>10, <1>11 DEF Work

\* A step goes on along the plan, to its end or not, or it fails.
TakesStep(r) ==
  \/ /\ pc'[r] \in {"run", "done"} /\ plan'[r] = Tail(plan[r])
     /\ pc'[r] = "done" <=> Len(plan[r]) = 1
  \/ pc'[r] = "failed" /\ plan'[r] = plan[r]

\* A request whose step is taken: its plan, and that of the others.
LEMMA WorkPlans ==
  ASSUME IInv, JInv, NEW r \in Requests, Work(r)
  PROVE  /\ pc[r] = "run" /\ plan[r] # <<>> /\ PlanShape(op[r], seen[r], plan[r])
         /\ op' = op /\ seen' = seen /\ overlap' = overlap
         /\ TakesStep(r)
         /\ \A q \in Requests : q # r =>
              /\ pc'[q] = pc[q] /\ plan'[q] = plan[q]
              /\ pc[q] = "run" => overlap[q] # {}
<1>1. Moves(r)  BY WorkMoves
<1>2. pc[r] = "run" /\ op' = op /\ seen' = seen /\ overlap' = overlap
  BY <1>1 DEF Moves
<1>3. plan[r] # <<>> /\ PlanShape(op[r], seen[r], plan[r])
  BY <1>2 DEF JInv, PlanInv
<1>4. TakesStep(r)
  BY <1>1 DEF Moves, Goes, Fails, IInv, Types, TakesStep
<1>5. ASSUME NEW q \in Requests, q # r
      PROVE  pc'[q] = pc[q] /\ plan'[q] = plan[q] /\ (pc[q] = "run" => overlap[q] # {})
  <2>1. pc'[q] = pc[q] /\ plan'[q] = plan[q]
    BY <1>1, <1>5 DEF Moves, Goes, Fails, IInv, Types
  <2>2. pc[q] = "run" => r \in overlap[q]
    BY <1>2, <1>5 DEF IInv, Mutual
  <2> QED BY <2>1, <2>2
<1> QED BY <1>2, <1>3, <1>4, <1>5

\* Nothing that is there is called by the empty name, and the blocks keep their places.
LEMMA WorkKeepsThings ==
  ASSUME IInv, JInv, NEW r \in Requests, Work(r)
  PROVE  BlocksInv' /\ NothingIsNone'
<1>1. /\ Types /\ RowsInv /\ BlocksInv /\ NothingIsNone
      /\ pc[r] = "run" /\ plan[r] # <<>> /\ PlanShape(op[r], seen[r], plan[r])
  BY WorkPlans DEF IInv, JInv
<1>2. CASE Delete(r)
  <2>1. Removes(r) /\ BlocksInv'  BY <1>1, <1>2, DeleteRemoves
  <2>2. dirs' \subseteq dirs /\ envs' \subseteq envs /\ dbs' \subseteq dbs
    BY <2>1 DEF Removes
  <2> QED BY <1>1, <2>1, <2>2 DEF NothingIsNone
<1>3. CASE Setting(r)
  <2> DEFINE h == Head(plan[r])
             v == Row(r)
  <2>1. EnvsChange(r) /\ DbsChange(r) /\ BlocksChange(r) /\ dirs' = dirs
    BY <1>1, <1>3, SettingChanges
  <2>2. h \in ToSet(plan[r])  BY <1>1, RestOfShape
  <2>3. Kind(r, "setting") \/ Kind(r, "originalDb")  BY <1>3 DEF Setting
  <2>4. h[1] = "mkenv" => h[2] # None
    BY <1>1, <2>2, <2>3 DEF PlanShape, Kind, SettingStep, EnvChanges
  <2>5. h[1] = "mkdb" => h[2] # None
    BY <1>1, <2>2, <2>3 DEF PlanShape, Kind, SettingStep
  <2>6. \A x \in envs' : x[2] # None
    <3>1. envs' \subseteq envs \cup {<<v.server, h[2]>>} /\ (h[1] # "mkenv" => envs' \subseteq envs)
      BY <2>1 DEF EnvsChange
    <3>2. \A x \in envs : x[2] # None  BY <1>1 DEF NothingIsNone
    <3>3. <<v.server, h[2]>>[2] = h[2]  OBVIOUS
    <3> QED BY <3>1, <3>2, <3>3, <2>4
  <2>7. None \notin dbs'
    <3>1. dbs' \subseteq dbs \cup {h[2]} /\ (h[1] # "mkdb" => dbs' \subseteq dbs)
      BY <2>1 DEF DbsChange
    <3> QED BY <3>1, <2>5, <1>1 DEF NothingIsNone
  <2>8. NothingIsNone'  BY <2>1, <2>6, <2>7, <1>1 DEF NothingIsNone
  <2>9. BlocksInv'
    <3>1. ASSUME NEW c, NEW n, NEW p, blocks' = [blocks EXCEPT ![c][n] = p] PROVE BlocksInv'
      BY <3>1, <1>1 DEF BlocksInv
    <3>2. blocks' = blocks => BlocksInv'  BY <1>1 DEF BlocksInv
    <3>3. CASE blocks' = [blocks EXCEPT ![h[2]][v.name] = WantedPort(op[r], v)]  BY <3>1, <3>3
    <3>4. CASE blocks' = [blocks EXCEPT ![h[2]][v.name] = None]  BY <3>1, <3>4
    <3> QED BY <2>1, <3>2, <3>3, <3>4 DEF BlocksChange
  <2> QED BY <2>8, <2>9
<1>4. CASE Sync(r) \/ UpdateStatus(r) \/ Transfer(r)
  BY <1>1, <1>4, OthersLeaveThem DEF NothingIsNone, BlocksInv
<1> QED BY <1>2, <1>3, <1>4 DEF Work

\* The rest of a plan has the shape of the plan.
LEMMA WorkKeepsPlans ==
  ASSUME IInv, JInv, NEW r \in Requests, Work(r), NEW q \in Requests
  PROVE  PlanInv(q)'
<1>1. PlanInv(q)  BY DEF JInv
<1>2. /\ op' = op /\ seen' = seen
      /\ TakesStep(r)
      /\ q # r => pc'[q] = pc[q] /\ plan'[q] = plan[q]
      /\ pc[r] = "run" /\ plan[r] # <<>> /\ PlanShape(op[r], seen[r], plan[r])
  BY WorkPlans
<1>3. PlanShape(op[r], seen[r], Tail(plan[r])) /\ (Len(plan[r]) # 1 => Tail(plan[r]) # <<>>)
  BY <1>2, RestOfShape
<1>4. CASE q = r
  BY <1>1, <1>2, <1>3, <1>4 DEF PlanInv, PlanShape, Targets, TakesStep
<1>5. CASE q # r
  BY <1>1, <1>2, <1>5 DEF PlanInv, PlanShape, Targets
<1> QED BY <1>4, <1>5

\* A deletion that runs alone gets nearer to what it promises.
LEMMA WorkKeepsDeleting ==
  ASSUME IInv, JInv, NEW r \in Requests, Work(r), NEW q \in Requests
  PROVE  Deleting(q)'
<1>1. /\ op' = op /\ seen' = seen /\ overlap' = overlap
      /\ TakesStep(r)
      /\ q # r => pc'[q] = pc[q] /\ (pc[q] = "run" => overlap[q] # {})
      /\ pc[r] = "run" /\ plan[r] # <<>> /\ PlanShape(op[r], seen[r], plan[r])
  BY WorkPlans
<1>2. CASE q # r
  BY <1>1, <1>2 DEF Deleting, Alone
<1>3. CASE q = r
  <2> SUFFICES ASSUME pc'[r] = "run", Kind(r, "delete"), overlap[r] = {},
                      NEW i, i \in Targets(op[r])
               PROVE  /\ Listed(rows', i)
                      /\ \A m \in Removals(op[r]) :
                           <<m[1], i>> \in ToSet(plan'[r]) \/ Gone(m[1], seen[r][i])'
    BY <1>1, <1>3 DEF Deleting, Kind, Alone, ToDo, Targets, Removals
  <2>1. Delete(r)
    BY <1>1 DEF Work, Setting, Sync, Kind
  <2>2. /\ Listed(rows, i) /\ GoodRow(seen[r][i])
        /\ \A m \in Removals(op[r]) : <<m[1], i>> \in ToSet(plan[r]) \/ Gone(m[1], seen[r][i])
    BY <1>1 DEF JInv, Deleting, PlanInv, Alone, ToDo
  <2>3. Removes(r)  BY <2>1, DeleteRemoves DEF IInv, JInv
  <2>4. /\ plan'[r] = Tail(plan[r]) /\ Len(plan[r]) # 1
        /\ Head(plan[r])[1] = "delrows" <=> Len(plan[r]) = 1
        /\ ToSet(plan[r]) = {Head(plan[r])} \cup ToSet(Tail(plan[r]))
    <3>1. op[r].kind = "delete"  BY DEF Kind
    <3>2. plan'[r] = Tail(plan[r]) /\ Len(plan[r]) # 1  BY <1>1 DEF TakesStep
    <3>3. /\ Head(plan[r])[1] = "delrows" <=> Len(plan[r]) = 1
          /\ ToSet(plan[r]) = {Head(plan[r])} \cup ToSet(Tail(plan[r]))
      BY <3>1, <1>1, RestOfShape
    <3> QED BY <3>2, <3>3
  <2>5. Listed(rows', i)
    <3>1. rows' = rows  BY <2>3, <2>4 DEF Removes
    <3> QED BY <3>1, <2>2
  <2>6. ASSUME NEW m \in Removals(op[r])
        PROVE  <<m[1], i>> \in ToSet(plan'[r]) \/ Gone(m[1], seen[r][i])'
    <3> DEFINE v == seen[r][i]
    <3>1. PICK u : u = v  OBVIOUS
    <3>2. v' = v  BY <1>1
    <3>3. m[1] \in {"rmdir", "rmenv", "rmdb", "rmblock"}  BY DEF Removals
    <3>4. PICK l \in {"rmdir", "rmenv", "rmdb", "rmblock"} : l = m[1]  BY <3>3
    <3>5. GoodRow(u)  BY <2>2, <3>1
    <3>6. CASE Gone(m[1], v)
      <4>1. Gone(l, u)'  BY <2>3, <3>1, <3>4, <3>5, <3>6, GoneStays
      <4> QED BY <4>1, <3>1, <3>2, <3>4 DEF Gone
    <3>7. CASE <<m[1], i>> \in ToSet(plan[r])
      <4>1. CASE <<m[1], i>> \in ToSet(Tail(plan[r]))  BY <4>1, <2>4
      <4>2. CASE Head(plan[r]) = <<m[1], i>>
        <5>1. Gone(l, u)'
          BY <4>2, <1>1, <2>1, <3>1, <3>4, <3>5, StepRemoves DEF IInv, JInv
        <5> QED BY <5>1, <3>1, <3>2, <3>4 DEF Gone
      <4> QED BY <4>1, <4>2, <3>7, <2>4
    <3> QED BY <3>6, <3>7, <2>2
  <2> QED BY <2>5, <2>6
<1> QED BY <1>2, <1>3

\* A step of a setting that runs alone, unless it fails, makes what it was for, and
\* takes away nothing that was made before.
MadeAfter(r, b, v) ==
  /\ EnvChanges(b, v) /\ b.mkEnv =>
       <<"mkenv", b.env>> \in ToSet(Tail(plan[r])) \/ <<v.server, b.env>> \in envs'
  /\ DbChanges(b, v) /\ b.db # None =>
       <<"mkdb", b.db>> \in ToSet(Tail(plan[r])) \/ b.db \in dbs'
  /\ BlockWanted(b, v) => \/ <<"mkblock", WantedFile(b, v)>> \in ToSet(Tail(plan[r]))
                          \/ blocks'[WantedFile(b, v)][v.name] = WantedPort(b, v)
  /\ BlockGoes(b, v) => \/ <<"unblock", FileOf(v)>> \in ToSet(Tail(plan[r]))
                        \/ blocks'[FileOf(v)][v.name] = None

LEMMA SettingMakes ==
  ASSUME IInv, JInv, NEW r \in Requests, Work(r), Kind(r, "setting"), Alone(r),
         pc'[r] # "failed", NEW b, b = op[r], NEW v, v = Row(r)
  PROVE  MadeAfter(r, b, v)
<1> DEFINE s == plan[r]
           h == Head(s)
           W == WantedFile(b, v)
           F == FileOf(v)
           P == WantedPort(b, v)
<1>1. /\ Setting(r) /\ b.kind = "setting" /\ b \in Bodies /\ BlocksInv /\ Types
      /\ pc[r] = "run" /\ s # <<>> /\ PlanShape(op[r], seen[r], s)
  BY WorkPlans DEF Work, Delete, Sync, Kind, IInv, JInv, Types
<1>2. EnvsChange(r) /\ DbsChange(r) /\ BlocksChange(r)
  BY <1>1, SettingChanges
<1>3. /\ h \in ToSet(s) /\ ToSet(s) = {h} \cup ToSet(Tail(s))
      /\ SettingStep(b, v, h)
  BY <1>1, RestOfShape DEF PlanShape, Row
<1>4. Made(r, b, v)
  BY <1>1 DEF JInv, Changing
<1>5. GoodRow(v)
  BY <1>1 DEF JInv, PlanInv, Targets, Row
<1>6. W \in Files /\ F \in Files /\ v.name \in Names
  BY <1>1, <1>5, WantedIsFile, BlockPlace
<1>7. ASSUME EnvChanges(b, v), b.mkEnv, <<"mkenv", b.env>> \notin ToSet(Tail(s))
      PROVE  <<v.server, b.env>> \in envs'
  <2>1. h = <<"mkenv", b.env>> \/ <<v.server, b.env>> \in envs
    BY <1>3, <1>4, <1>7 DEF Made, ToDo
  <2>2. h[1] = "dropenv" => h[2] # b.env
    BY <1>3, <1>7 DEF SettingStep, EnvChanges
  <2>3. CASE h = <<"mkenv", b.env>>
    <3>1. h[1] = "mkenv" /\ h[2] = b.env  BY <2>3
    <3> QED BY <3>1, <1>2 DEF EnvsChange
  <2>4. CASE <<v.server, b.env>> \in envs
    BY <2>2, <2>4, <1>2 DEF EnvsChange
  <2> QED BY <2>1, <2>3, <2>4
<1>8. ASSUME DbChanges(b, v), b.db # None, <<"mkdb", b.db>> \notin ToSet(Tail(s))
      PROVE  b.db \in dbs'
  <2>1. h = <<"mkdb", b.db>> \/ b.db \in dbs
    BY <1>3, <1>4, <1>8 DEF Made, ToDo
  <2>2. h[1] = "dropdb" => h[2] # b.db
    BY <1>3, <1>8 DEF SettingStep, DbChanges
  <2>3. CASE h = <<"mkdb", b.db>>
    <3>1. h[1] = "mkdb" /\ h[2] = b.db  BY <2>3
    <3> QED BY <3>1, <1>2 DEF DbsChange
  <2>4. CASE b.db \in dbs
    BY <2>2, <2>4, <1>2 DEF DbsChange
  <2> QED BY <2>1, <2>3, <2>4
<1>9. /\ \/ blocks' = blocks
         \/ h[1] = "mkblock" /\ blocks' = [blocks EXCEPT ![W][v.name] = P]
         \/ h[1] = "unblock" /\ blocks' = [blocks EXCEPT ![F][v.name] = None]
      /\ h[1] = "mkblock" => b.nginx = "on" /\ blocks' = [blocks EXCEPT ![W][v.name] = P]
      /\ h[1] = "unblock" => blocks' = [blocks EXCEPT ![F][v.name] = None]
  BY <1>2, <1>3 DEF BlocksChange, SettingStep
<1>10. v.conf # None /\ v.conf # WantedConf(b, v) => F # W
  BY DEF FileOf, WantedFile
<1>11. h[1] = "unblock" /\ BlockWanted(b, v) => F # W
  BY <1>3, <1>10 DEF SettingStep, BlockWanted
<1>12. BlockGoes(b, v) /\ b.nginx = "on" => F # W
  BY <1>10 DEF BlockGoes
<1> HIDE DEF W, F, P, h
<1>13. ASSUME BlockWanted(b, v), <<"mkblock", W>> \notin ToSet(Tail(s))
       PROVE  blocks'[W][v.name] = P
  <2>1. h = <<"mkblock", W>> \/ blocks[W][v.name] = P
    BY <1>3, <1>4, <1>13 DEF Made, ToDo, W, P
  <2>2. CASE h[1] = "mkblock"
    BY <2>2, <1>1, <1>6, <1>9 DEF BlocksInv
  <2>3. CASE h[1] = "unblock"
    <3>1. F # W  BY <2>3, <1>11, <1>13
    <3>2. blocks'[W] = blocks[W]  BY <3>1, <2>3, <1>1, <1>6, <1>9 DEF BlocksInv
    <3> QED BY <3>2, <2>1, <2>3
  <2>4. CASE h[1] \notin {"mkblock", "unblock"}
    BY <2>1, <2>4, <1>9
  <2> QED BY <2>2, <2>3, <2>4
<1>14. ASSUME BlockGoes(b, v), <<"unblock", F>> \notin ToSet(Tail(s))
       PROVE  blocks'[F][v.name] = None
  <2>1. h = <<"unblock", F>> \/ blocks[F][v.name] = None
    BY <1>3, <1>4, <1>14 DEF Made, ToDo, F
  <2>2. CASE h[1] = "unblock"
    BY <2>2, <1>1, <1>6, <1>9 DEF BlocksInv
  <2>3. CASE h[1] = "mkblock"
    <3>1. F # W  BY <2>3, <1>9, <1>12, <1>14
    <3>2. blocks'[F] = blocks[F]  BY <3>1, <2>3, <1>1, <1>6, <1>9 DEF BlocksInv
    <3> QED BY <3>2, <2>1, <2>3
  <2>4. CASE h[1] \notin {"mkblock", "unblock"}
    BY <2>1, <2>4, <1>9
  <2> QED BY <2>2, <2>3, <2>4
<1> QED BY <1>7, <1>8, <1>13, <1>14 DEF MadeAfter, W, F, P

\* What a setting that runs alone has made stays made.
LEMMA WorkKeepsChanging ==
  ASSUME IInv, JInv, NEW r \in Requests, Work(r), NEW q \in Requests
  PROVE  Changing(q)'
<1>1. /\ op' = op /\ seen' = seen /\ overlap' = overlap /\ TakesStep(r)
      /\ q # r => pc'[q] = pc[q] /\ (pc[q] = "run" => overlap[q] # {})
  BY WorkPlans
<1>2. CASE q # r
  BY <1>1, <1>2 DEF Changing, Alone
<1>3. CASE q = r
  <2> SUFFICES ASSUME pc'[r] = "run", Kind(r, "setting"), Alone(r)
               PROVE  Made(r, op[r], Row(r))'
    BY <1>1, <1>3 DEF Changing, Kind, Alone
  <2>1. PICK b : b = op[r]  OBVIOUS
  <2>2. PICK v : v = Row(r)  OBVIOUS
  <2>3. MadeAfter(r, b, v)  BY <2>1, <2>2, SettingMakes
  <2>4. plan'[r] = Tail(plan[r]) /\ b = op'[r] /\ v = Row(r)'
    BY <2>1, <2>2, <1>1 DEF TakesStep, Row
  <2>5. Made(r, b, v)'
    BY <2>3, <2>4 DEF MadeAfter, Made, ToDo
  <2> QED BY <2>4, <2>5
<1> QED BY <1>2, <1>3

\* A deletion without faults fails only where it may stop.
LEMMA WorkKeepsRepeating ==
  ASSUME IInv, JInv, NEW r \in Requests, Work(r)
  PROVE  RepeatedDeletionGetsThrough'
<1>1. /\ op' = op /\ overlap' = overlap /\ seen' = seen /\ TakesStep(r) /\ pc[r] = "run"
      /\ \A q \in Requests : q # r => pc'[q] = pc[q] /\ plan'[q] = plan[q]
  BY WorkPlans
<1>2. ASSUME NEW q \in Requests, Kind(q, "delete"), q \notin Faulty, pc'[q] = "failed"
      PROVE  Stop(q) /\ plan'[q] = plan[q]
  <2>1. CASE q # r
    BY <1>1, <1>2, <2>1 DEF JInv, RepeatedDeletionGetsThrough, Stop
  <2>2. CASE q = r
    <3>1. Delete(r) /\ plan'[r] = plan[r]
      BY <1>1, <1>2, <2>2 DEF Work, Setting, Sync, Kind, TakesStep
    <3>2. ~Goes(r)
      BY <1>2, <2>2 DEF Goes, IInv, Types
    <3>3. CASE RemoveDir(r)
      BY <3>1, <3>2, <3>3, <1>2, <2>2 DEF RemoveDir, Step, At, Stop
    <3>4. CASE RemoveDb(r)
      BY <3>2, <3>4, <1>2, <2>2 DEF RemoveDb, Step
    <3>5. CASE RemoveBlock(r)
      BY <3>1, <3>2, <3>5, <1>2, <2>2 DEF RemoveBlock, Step, At, Stop
    <3>6. CASE RemoveEnv(r)
      BY <3>1, <3>6, <2>2 DEF RemoveEnv, Step, At, Stop
    <3>7. CASE DeleteRows(r)
      <4>1. Head(plan[r])[1] = "delrows" /\ \A i \in Targets(op[r]) : ~Listed(rows, i)
        BY <3>2, <3>7, <1>2, <2>2 DEF DeleteRows, Step, At
      <4>2. Targets(op[r]) # {}
        BY <1>2, <2>2, LifecycleConstants DEF Targets, Kind, IInv, Types
      <4>3. ~Alone(r)
        BY <4>1, <4>2, <1>1, <1>2, <2>2 DEF JInv, Deleting
      <4> QED BY <3>1, <4>1, <4>3, <2>2 DEF Stop
    <3> QED BY <3>1, <3>3, <3>4, <3>5, <3>6, <3>7, <2>2 DEF Delete
  <2> QED BY <2>1, <2>2
<1> SUFFICES ASSUME NEW q \in Requests, Kind(q, "delete"), q \notin Faulty, pc'[q] = "failed"
             PROVE  Stop(q)'
  BY <1>1 DEF RepeatedDeletionGetsThrough, Kind, Stop
<1> QED BY <1>1, <1>2 DEF Stop, Arg, Alone, CanChange, Usable, NginxOf

\* A request that loads its rows has everything to do, or nothing is there to be done.
LEMMA LoadKeepsPlans ==
  ASSUME IInv, JInv, NEW r \in Requests, Load(r)
  PROVE  JInv'
<1>1. /\ op' = op /\ rows' = rows /\ dirs' = dirs /\ envs' = envs /\ dbs' = dbs
      /\ blocks' = blocks /\ pc[r] = "idle"
  BY DEF Load, resources
<1>2. /\ pc'[r] \in {"run", "done", "refused"} /\ seen'[r] = rows
      /\ pc'[r] = "run" =>
           /\ plan'[r] # <<>> /\ plan'[r] = PlanOf(op[r], rows)
           /\ \A i \in Targets(op[r]) : Listed(rows, i)
      /\ \A q \in Requests : q # r =>
           pc'[q] = pc[q] /\ plan'[q] = plan[q] /\ seen'[q] = seen[q]
  BY DEF Load, IInv, Types, Allowed
<1>3. \A q \in Requests : q # r =>
        /\ overlap[q] \subseteq overlap'[q]
        /\ pc[q] = "run" => overlap'[q] # {}
  BY DEF Load, Overlaps
<1>4. RowsGood' /\ BlocksInv' /\ NothingIsNone'
  BY <1>1 DEF JInv, RowsGood, BlocksInv, NothingIsNone
<1>5. RowsGood /\ NothingIsNone /\ op[r] \in Bodies
  BY DEF JInv, IInv, Types
<1>6. \A i \in Targets(op[r]) : pc'[r] = "run" => GoodRow(rows[i])
  BY <1>2, <1>5 DEF Listed, RowsGood
<1>7. ASSUME NEW q \in Requests PROVE PlanInv(q)'
  <2>1. CASE q = r
    <3>1. PlanShape(op[r], rows, PlanOf(op[r], rows))  BY <1>5, PlanOfShape
    <3> QED BY <2>1, <3>1, <1>1, <1>2, <1>6 DEF PlanInv, PlanShape, Targets
  <2>2. CASE q # r
    <3>1. PlanInv(q)  BY DEF JInv
    <3> QED BY <2>2, <3>1, <1>1, <1>2 DEF PlanInv, PlanShape, Targets
  <2> QED BY <2>1, <2>2
<1>8. ASSUME NEW q \in Requests PROVE Deleting(q)'
  <2>1. CASE q # r
    BY <2>1, <1>2, <1>3 DEF Deleting, Alone
  <2>2. CASE q = r
    <3> SUFFICES ASSUME pc'[r] = "run", op[r].kind = "delete", NEW i, i \in Targets(op[r]),
                        NEW m \in Removals(op[r])
                 PROVE  <<m[1], i>> \in ToSet(plan'[r]) \/ Gone(m[1], rows[i])
      BY <2>2, <1>1, <1>2 DEF Deleting, Kind, ToDo, Targets, Removals, Gone
    <3>1. op[r].ids \in Seq(Nat) /\ i \in ToSet(op[r].ids)
      BY <1>5, LifecycleConstants DEF Targets
    <3>2. plan'[r] = DeletePlan(op[r], rows)
      BY <1>2 DEF PlanOf
    <3>3. rows[i][m[2]] # None => <<m[1], i>> \in ToSet(plan'[r])
      BY <3>1, <3>2, DeletePlanSteps
    <3>4. GoodRow(rows[i])  BY <1>6
    <3>5. rows[i].name # None  BY <3>4, BlockPlace
    <3>6. ASSUME rows[i][m[2]] = None PROVE Gone(m[1], rows[i])
      <4>1. CASE m = <<"rmdir", "dir">>
        <5>1. rows[i].dir = None  BY <4>1, <3>6
        <5>2. <<Here, None>> \notin dirs  BY <1>5 DEF NothingIsNone
        <5> QED BY <4>1, <5>1, <5>2 DEF Gone
      <4>2. CASE m = <<"rmenv", "env">>
        <5>1. rows[i].env = None  BY <4>2, <3>6
        <5>2. <<Here, None>> \notin envs  BY <1>5 DEF NothingIsNone
        <5> QED BY <4>2, <5>1, <5>2 DEF Gone
      <4>3. CASE m = <<"rmdb", "db">>
        <5>1. rows[i].db = None  BY <4>3, <3>6
        <5> QED BY <4>3, <5>1, <1>5 DEF Gone, NothingIsNone
      <4>4. CASE m = <<"rmblock", "name">>
        BY <4>4, <3>5, <3>6
      <4> QED BY <4>1, <4>2, <4>3, <4>4 DEF Removals
    <3> QED BY <3>3, <3>6
  <2> QED BY <2>1, <2>2
<1>9. ASSUME NEW q \in Requests PROVE Changing(q)'
  <2>1. CASE q # r
    BY <2>1, <1>2, <1>3 DEF Changing, Alone
  <2>2. CASE q = r
    <3> SUFFICES ASSUME pc'[r] = "run", op[r].kind = "setting"
                 PROVE  Made(r, op[r], Row(r))'
      BY <2>2, <1>1 DEF Changing, Kind
    <3>1. PICK b : b = op[r]  OBVIOUS
    <3>2. PICK v : v = rows[b.id]  OBVIOUS
    <3>3. plan'[r] = SettingPlan(b, v)
      BY <1>2, <3>1, <3>2 DEF PlanOf
    <3>4. b = op'[r] /\ v = Row(r)'
      BY <1>1, <1>2, <3>1, <3>2 DEF Row
    <3>5. Made(r, b, v)'
      BY <3>3, SettingPlanSteps DEF Made, ToDo
    <3> QED BY <3>4, <3>5
  <2> QED BY <2>1, <2>2
<1>10. RepeatedDeletionGetsThrough'
  <2> SUFFICES ASSUME NEW q \in Requests, Kind(q, "delete"), q \notin Faulty, pc'[q] = "failed"
               PROVE  Stop(q)'
    BY <1>1 DEF RepeatedDeletionGetsThrough, Kind, Stop
  <2>1. /\ q # r /\ pc[q] = "failed" /\ plan'[q] = plan[q] /\ seen'[q] = seen[q]
        /\ overlap[q] \subseteq overlap'[q]
    BY <1>2, <1>3
  <2>2. Stop(q)  BY <2>1 DEF JInv, RepeatedDeletionGetsThrough, Stop
  <2> QED BY <2>1, <2>2, <1>1 DEF Stop, Arg, Alone, CanChange, Usable, NginxOf
<1> QED BY <1>4, <1>7, <1>8, <1>9, <1>10 DEF JInv

\* Nothing is planned at first.
LEMMA InitPlans == Init => JInv
<1> SUFFICES ASSUME Init PROVE JInv
  OBVIOUS
<1>1. RowsGood
  BY LifecycleConstants, LifecycleNames DEF Init, RowsGood, GoodRow
<1>2. BlocksInv
  BY LifecycleNames DEF Init, BlocksInv
<1>3. NothingIsNone
  BY LifecycleNames DEF Init, NothingIsNone
<1>4. \A r \in Requests : pc[r] = "idle"
  BY DEF Init
<1>5. \A r \in Requests : PlanInv(r) /\ Deleting(r) /\ Changing(r)
  BY <1>4 DEF PlanInv, Deleting, Changing
<1>6. RepeatedDeletionGetsThrough
  BY <1>4 DEF RepeatedDeletionGetsThrough
<1> QED BY <1>1, <1>2, <1>3, <1>5, <1>6 DEF JInv

\* Every step keeps the two invariants.
LEMMA NextKeepsPlans == IInv /\ JInv /\ [Next]_vars => JInv'
<1> SUFFICES ASSUME IInv, JInv, [Next]_vars PROVE JInv'
  OBVIOUS
<1>1. ASSUME NEW r \in Requests, Work(r) PROVE JInv'
  <2>1. \A q \in Requests : PlanInv(q)' /\ Deleting(q)' /\ Changing(q)'
    BY <1>1, WorkKeepsPlans, WorkKeepsDeleting, WorkKeepsChanging
  <2> QED BY <1>1, <2>1, WorkKeepsGood, WorkKeepsThings, WorkKeepsRepeating DEF JInv
<1>2. ASSUME NEW r \in Requests, Load(r) PROVE JInv'
  BY <1>2, LoadKeepsPlans
<1>3. CASE UNCHANGED vars
  <2>1. RowsGood' /\ BlocksInv' /\ NothingIsNone'
    BY <1>3 DEF JInv, vars, resources, RowsGood, BlocksInv, NothingIsNone
  <2>2. ASSUME NEW r \in Requests PROVE PlanInv(r)' /\ Deleting(r)' /\ Changing(r)'
    <3>1. PlanInv(r) /\ Deleting(r) /\ Changing(r)  BY DEF JInv
    <3>2. UNCHANGED <<op, pc, plan, seen, rows, dirs, envs, dbs, blocks, overlap>>
      BY <1>3 DEF vars, resources
    <3>3. PlanInv(r)'  BY <3>1, <3>2 DEF PlanInv
    <3>4. Deleting(r)'  BY <3>1, <3>2 DEF Deleting, Kind, Alone, Listed, ToDo, Gone
    <3>5. Changing(r)'  BY <3>1, <3>2 DEF Changing, Kind, Alone, ToDo, Made, Row
    <3> QED BY <3>3, <3>4, <3>5
  <2>3. RepeatedDeletionGetsThrough'
    BY <1>3 DEF JInv, vars, RepeatedDeletionGetsThrough, Kind, Alone, Arg
  <2> QED BY <2>1, <2>2, <2>3 DEF JInv
<1> QED BY <1>1, <1>2, <1>3 DEF Next, Work

\* Both invariants hold in every state that the handlers can reach.
THEOREM PlansInvariance == Spec => [](IInv /\ JInv)
<1>1. Init => IInv /\ JInv  BY InitInv, InitPlans
<1>2. IInv /\ JInv /\ [Next]_vars => (IInv /\ JInv)'  BY NextKeeps, NextKeepsPlans
<1> QED BY <1>1, <1>2, PTL DEF Spec

-----------------------------------------------------------------------------
(* What the invariants say of deletion and settings.                       *)

\* The state has its types: a request in flight has a step to take, and the rows
\* have their fields and a status.
THEOREM TypeCorrect == Spec => []TypeOK
<1>1. IInv /\ JInv => TypeOK
  <2> SUFFICES ASSUME IInv, JInv PROVE TypeOK
    OBVIOUS
  <2>1. \A r \in Requests : pc[r] = "run" => plan[r] # <<>>
    BY DEF JInv, PlanInv
  <2>2. \A i \in DOMAIN rows : DOMAIN rows[i] = RowFields /\ rows[i].status \in {-1, 0, 1}
    BY DEF IInv, RowsInv, IsRow, JInv, RowsGood, GoodRow
  <2> QED BY <2>1, <2>2 DEF TypeOK, IInv, Types
<1> QED BY <1>1, PlansInvariance, PTL

\* A deletion that failed can be repeated: what stops it is an environment that is
\* gone, a directory that may not be removed, a block on a server whose files cannot
\* be changed, or rows that another request has deleted meanwhile (project_delete.py).
THEOREM RepeatGetsThrough == Spec => []RepeatedDeletionGetsThrough
<1>1. IInv /\ JInv => RepeatedDeletionGetsThrough  BY DEF JInv
<1> QED BY <1>1, PlansInvariance, PTL

\* A deletion that ends with success has deleted its rows in this step, and what its
\* other steps were for is gone.
LEMMA LastStepOfDeletion ==
  ASSUME IInv, JInv, [Next]_vars, NEW r \in Requests, Kind(r, "delete"), Alone(r),
         pc[r] = "run", pc'[r] = "done", NEW i, i \in Targets(op[r]),
         NEW v, v = seen[r][i]
  PROVE  ~Listed(rows', i) /\ \A m \in Removals(op[r]) : Gone(m[1], v)'
<1>1. Work(r)
  <2>1. PICK q \in Requests : Load(q) \/ Work(q)
    BY DEF Next, Work, vars
  <2>2. q = r
    <3>1. CASE Load(q)  BY <3>1 DEF Load, IInv, Types
    <3>2. CASE Work(q)  BY <3>2, WorkPlans
    <3> QED BY <2>1, <3>1, <3>2
  <2>3. ~Load(r)  BY DEF Load
  <2> QED BY <2>1, <2>2, <2>3
<1>2. /\ plan[r] # <<>> /\ PlanShape(op[r], seen[r], plan[r])
      /\ Len(plan[r]) = 1
  BY <1>1, WorkPlans DEF TakesStep
<1>3. Delete(r)  BY <1>1 DEF Work, Setting, Sync, Kind
<1>4. Removes(r)  BY <1>3, DeleteRemoves DEF IInv, JInv
<1>5. /\ Head(plan[r])[1] = "delrows" /\ ToSet(plan[r]) = {Head(plan[r])} \cup ToSet(Tail(plan[r]))
      /\ ToSet(Tail(plan[r])) = {}
  <2>1. op[r].kind = "delete"  BY DEF Kind
  <2> QED BY <2>1, <1>2, RestOfShape
<1>6. ~Listed(rows', i)  BY <1>4, <1>5 DEF Removes
<1>7. /\ GoodRow(v)
      /\ \A m \in Removals(op[r]) : ToDo(r, <<m[1], i>>) \/ Gone(m[1], v)
  BY DEF JInv, PlanInv, Deleting
<1>8. ASSUME NEW m \in Removals(op[r]) PROVE Gone(m[1], v)'
  <2>1. m[1] # "delrows"  BY DEF Removals
  <2>2. ~ToDo(r, <<m[1], i>>)  BY <2>1, <1>5 DEF ToDo
  <2>3. PICK l : l = m[1]  OBVIOUS
  <2>4. Gone(l, v)'  BY <2>2, <2>3, <1>4, <1>7, GoneStays
  <2> QED BY <2>3, <2>4 DEF Gone
<1> QED BY <1>6, <1>8

\* A deletion that ran alone and answers with success has removed all of its scope,
\* of every project it names (project_delete.py).
THEOREM DeletionIsComplete == Spec => DeletionCompletes
<1> DEFINE Completes ==
      \A r \in Requests :
        Kind(r, "delete") /\ Alone(r) /\ pc[r] = "run" /\ pc'[r] = "done"
          => \A i \in Targets(op[r]) : LET s == seen[r][i] IN
               /\ ~Listed(rows', i)
               /\ s.server = Here => /\ <<Here, s.dir>> \notin dirs'
                                     /\ "env" \in op[r].scope => <<Here, s.env>> \notin envs'
               /\ "db" \in op[r].scope => s.db \notin dbs'
               /\ "nginx" \in op[r].scope => BlockIn(blocks', s) = None
<1>1. IInv /\ JInv /\ [Next]_vars => [Completes]_vars
  <2> SUFFICES ASSUME IInv, JInv, [Next]_vars, NEW r \in Requests, Kind(r, "delete"), Alone(r),
                      pc[r] = "run", pc'[r] = "done", NEW i, i \in Targets(op[r])
               PROVE  LET s == seen[r][i] IN
                      /\ ~Listed(rows', i)
                      /\ <<Here, s.dir>> \notin dirs'
                      /\ "env" \in op[r].scope => <<Here, s.env>> \notin envs'
                      /\ "db" \in op[r].scope => s.db \notin dbs'
                      /\ "nginx" \in op[r].scope => BlockIn(blocks', s) = None
    OBVIOUS
  <2>1. PICK v : v = seen[r][i]  OBVIOUS
  <2>2. ~Listed(rows', i) /\ \A m \in Removals(op[r]) : Gone(m[1], v)'
    BY <2>1, LastStepOfDeletion
  <2>3. <<Here, v.dir>> \notin dirs'
    <3>1. <<"rmdir", "dir">> \in Removals(op[r])  BY DEF Removals
    <3> QED BY <3>1, <2>2 DEF Gone
  <2>4. "env" \in op[r].scope => <<Here, v.env>> \notin envs'
    <3>1. "env" \in op[r].scope => <<"rmenv", "env">> \in Removals(op[r])  BY DEF Removals
    <3> QED BY <3>1, <2>2 DEF Gone
  <2>5. "db" \in op[r].scope => v.db \notin dbs'
    <3>1. "db" \in op[r].scope => <<"rmdb", "db">> \in Removals(op[r])  BY DEF Removals
    <3> QED BY <3>1, <2>2 DEF Gone
  <2>6. "nginx" \in op[r].scope => BlockIn(blocks', v) = None
    <3>1. "nginx" \in op[r].scope => <<"rmblock", "name">> \in Removals(op[r])  BY DEF Removals
    <3> QED BY <3>1, <2>2 DEF Gone
  <2> QED BY <2>1, <2>2, <2>3, <2>4, <2>5, <2>6
<1> QED BY <1>1, PlansInvariance, PTL DEF Spec, DeletionCompletes

\* While a request runs alone nobody else takes a step.
LEMMA OnlyItMoves ==
  ASSUME IInv, JInv, [Next]_vars, NEW r \in Requests, pc[r] = "run", overlap'[r] = {}
  PROVE  (Work(r) /\ Alone(r)) \/ UNCHANGED vars
<1> SUFFICES ASSUME NEW q \in Requests, Load(q) \/ Work(q) PROVE Work(r) /\ Alone(r)
  BY DEF Next, Work
<1>1. CASE Load(q)
  <2>1. q # r /\ q \in overlap'[r]
    BY <1>1 DEF Load, Overlaps
  <2> QED BY <2>1
<1>2. CASE Work(q)
  <2>1. overlap' = overlap /\ (r # q => overlap[r] # {})
    BY <1>2, WorkPlans
  <2> QED BY <2>1, <1>2 DEF Alone
<1> QED BY <1>1, <1>2

\* One step of a setting that runs alone, for its body b and its row v.
LEMMA StepOfSetting ==
  ASSUME IInv, JInv, NEW r \in Requests, Work(r), Kind(r, "setting"), Alone(r),
         NEW b, b = op[r], NEW v, v = Row(r)
  PROVE  /\ Wanted(b, v).db \in dbs => Wanted(b, v).db \in dbs'
         /\ b.db # None /\ {v.db, Wanted(b, v).db} \cap dbs # {}
              => {v.db, Wanted(b, v).db} \cap dbs' # {}
         /\ b.mkEnv /\ (\E e \in {v.env, Wanted(b, v).env} : <<v.server, e>> \in envs)
              => \E e \in {v.env, Wanted(b, v).env} : <<v.server, e>> \in envs'
         /\ pc'[r] = "done" =>
              /\ Wanted(b, v).db \notin {None, v.db} => Wanted(b, v).db \in dbs'
              /\ BlockWanted(b, v) => blocks'[WantedFile(b, v)][v.name] = WantedPort(b, v)
              /\ BlockGoes(b, v) => blocks'[FileOf(v)][v.name] = None
<1> DEFINE s == plan[r]
           h == Head(s)
           d == Wanted(b, v).db
           e == Wanted(b, v).env
<1>1. /\ b.kind = "setting" /\ Setting(r) /\ pc[r] = "run" /\ s # <<>>
      /\ PlanShape(b, seen[r], s) /\ TakesStep(r)
  BY WorkPlans DEF Work, Delete, Sync, Kind
<1>2. EnvsChange(r) /\ DbsChange(r)
  BY <1>1, SettingChanges DEF IInv
<1>3. /\ h \in ToSet(s) /\ SettingStep(b, v, h)
      /\ h[1] = "dropdb" => \A x \in ToSet(s) : x[1] # "mkdb"
      /\ h[1] = "dropenv" => \A x \in ToSet(s) : x[1] # "mkenv"
      /\ Len(s) = 1 => ToSet(Tail(s)) = {}
  BY <1>1, RestOfShape DEF PlanShape, Row
<1>4. Made(r, b, v)
  BY <1>1 DEF JInv, Changing
<1>5. /\ d = IF b.db = Keep THEN v.db ELSE b.db
      /\ e = IF b.env = Keep THEN v.env ELSE b.env
  BY DEF Wanted
<1> HIDE DEF d, e, h, s
<1>6. \/ dbs \subseteq dbs'
      \/ h[1] = "dropdb" /\ dbs' = dbs \ {v.db} /\ d = b.db /\ d # v.db
  BY <1>2, <1>3, <1>5 DEF DbsChange, SettingStep, DbChanges, h, s
<1>7. h[1] = "dropdb" /\ b.db # None => b.db \in dbs
  BY <1>3, <1>4 DEF Made, ToDo, SettingStep, s
<1>8. \/ envs \subseteq envs'
      \/ h[1] = "dropenv" /\ envs' = envs \ {<<v.server, v.env>>} /\ e = b.env /\ e # v.env
  BY <1>2, <1>3, <1>5 DEF EnvsChange, SettingStep, EnvChanges, h, s
<1>9. h[1] = "dropenv" /\ b.mkEnv => <<v.server, b.env>> \in envs
  BY <1>3, <1>4 DEF Made, ToDo, SettingStep, s
<1>10. d \in dbs => d \in dbs'
  BY <1>6
<1>11. b.db # None /\ {v.db, d} \cap dbs # {} => {v.db, d} \cap dbs' # {}
  BY <1>6, <1>7
<1>12. b.mkEnv /\ (\E x \in {v.env, e} : <<v.server, x>> \in envs)
         => \E x \in {v.env, e} : <<v.server, x>> \in envs'
  BY <1>8, <1>9
<1>13. ASSUME pc'[r] = "done"
       PROVE  /\ d \notin {None, v.db} => d \in dbs'
              /\ BlockWanted(b, v) => blocks'[WantedFile(b, v)][v.name] = WantedPort(b, v)
              /\ BlockGoes(b, v) => blocks'[FileOf(v)][v.name] = None
  <2>1. MadeAfter(r, b, v)  BY <1>13, SettingMakes
  <2>2. ToSet(Tail(s)) = {}  BY <1>1, <1>3, <1>13 DEF TakesStep, s
  <2>3. d \notin {None, v.db} => DbChanges(b, v) /\ d = b.db /\ b.db # None
    BY <1>5 DEF DbChanges
  <2> QED BY <2>1, <2>2, <2>3 DEF MadeAfter, s
<1> QED BY <1>10, <1>11, <1>12, <1>13 DEF d, e

\* Wherever a change of settings that runs alone fails, or the backend dies, the old
\* or the wanted database and environment are there (project_setting.py).
THEOREM ChangeLosesNothing == Spec => ChangeKeepsOne
<1> DEFINE Keeps ==
      \A r \in Requests :
        Kind(r, "setting") /\ Alone(r)' /\ pc[r] = "run"
          => /\ op[r].db # None /\ SomeDb(r, dbs) => SomeDb(r, dbs')
             /\ op[r].mkEnv /\ SomeEnv(r, envs) => SomeEnv(r, envs')
<1>1. IInv /\ JInv /\ [Next]_vars => [Keeps]_vars
  <2> SUFFICES ASSUME IInv, JInv, [Next]_vars, NEW r \in Requests, Kind(r, "setting"),
                      overlap'[r] = {}, pc[r] = "run"
               PROVE  /\ op[r].db # None /\ SomeDb(r, dbs) => SomeDb(r, dbs')
                      /\ op[r].mkEnv /\ SomeEnv(r, envs) => SomeEnv(r, envs')
    BY DEF Alone
  <2>1. CASE UNCHANGED vars
    <3>1. dbs' = dbs /\ envs' = envs  BY <2>1 DEF vars, resources
    <3> QED BY <3>1
  <2>2. CASE Work(r) /\ Alone(r)
    <3>1. PICK b : b = op[r]  OBVIOUS
    <3>2. PICK v : v = Row(r)  OBVIOUS
    <3>3. /\ b.db # None /\ {v.db, Wanted(b, v).db} \cap dbs # {}
               => {v.db, Wanted(b, v).db} \cap dbs' # {}
          /\ b.mkEnv /\ (\E e \in {v.env, Wanted(b, v).env} : <<v.server, e>> \in envs)
               => \E e \in {v.env, Wanted(b, v).env} : <<v.server, e>> \in envs'
      BY <2>2, <3>1, <3>2, StepOfSetting
    <3> QED BY <3>1, <3>2, <3>3 DEF SomeDb, SomeEnv
  <2> QED BY <2>1, <2>2, OnlyItMoves
<1> QED BY <1>1, PlansInvariance, PTL DEF Spec, ChangeKeepsOne

\* A change of settings that runs alone never takes away the database that its row
\* will name, and has made a new one when it succeeds (project_setting.py).
THEOREM DataKept == Spec => SettingsKeepData
<1> DEFINE Keeps ==
      \A r \in Requests :
        Kind(r, "setting") /\ Alone(r)' /\ pc[r] = "run"
          => LET d == Wanted(op[r], Row(r)).db IN
               /\ d \in dbs => d \in dbs'
               /\ pc'[r] = "done" /\ d \notin {None, Row(r).db} => d \in dbs'
<1>1. IInv /\ JInv /\ [Next]_vars => [Keeps]_vars
  <2> SUFFICES ASSUME IInv, JInv, [Next]_vars, NEW r \in Requests, Kind(r, "setting"),
                      overlap'[r] = {}, pc[r] = "run", NEW d, d = Wanted(op[r], Row(r)).db
               PROVE  /\ d \in dbs => d \in dbs'
                      /\ pc'[r] = "done" /\ d \notin {None, Row(r).db} => d \in dbs'
    BY DEF Alone
  <2>1. CASE UNCHANGED vars
    <3>1. dbs' = dbs /\ pc' = pc  BY <2>1 DEF vars, resources
    <3> QED BY <3>1
  <2>2. CASE Work(r) /\ Alone(r)
    <3>1. PICK b : b = op[r]  OBVIOUS
    <3>2. PICK v : v = Row(r)  OBVIOUS
    <3>3. /\ Wanted(b, v).db \in dbs => Wanted(b, v).db \in dbs'
          /\ (pc'[r] = "done" /\ Wanted(b, v).db \notin {None, v.db}) => Wanted(b, v).db \in dbs'
      BY <2>2, <3>1, <3>2, StepOfSetting
    <3> QED BY <3>1, <3>2, <3>3
  <2> QED BY <2>1, <2>2, OnlyItMoves
<1> QED BY <1>1, PlansInvariance, PTL DEF Spec, SettingsKeepData

\* A change of settings that ran alone and succeeds has written the block it was to
\* write on the server it was to be on, and removed the original one that was to go,
\* but for one of the same path (project_setting.py).
THEOREM BlockKept == Spec => SettingsKeepTheBlock
<1> DEFINE Keeps ==
      \A r \in Requests :
        Kind(r, "setting") /\ Alone(r)' /\ pc[r] = "run" /\ pc'[r] = "done"
          => LET b == op[r]
                 s == Row(r)
             IN /\ BlockWanted(b, s) => blocks'[WantedFile(b, s)][s.name] = WantedPort(b, s)
                /\ BlockGoes(b, s) => BlockIn(blocks', s) = None
<1>1. IInv /\ JInv /\ [Next]_vars => [Keeps]_vars
  <2> SUFFICES ASSUME IInv, JInv, [Next]_vars, NEW r \in Requests, Kind(r, "setting"),
                      overlap'[r] = {}, pc[r] = "run", pc'[r] = "done",
                      NEW b, b = op[r], NEW s, s = Row(r)
               PROVE  /\ BlockWanted(b, s) => blocks'[WantedFile(b, s)][s.name] = WantedPort(b, s)
                      /\ BlockGoes(b, s) => BlockIn(blocks', s) = None
    BY DEF Alone
  <2>1. Work(r) /\ Alone(r)
    BY OnlyItMoves DEF vars
  <2>2. /\ BlockWanted(b, s) => blocks'[WantedFile(b, s)][s.name] = WantedPort(b, s)
        /\ BlockGoes(b, s) => blocks'[FileOf(s)][s.name] = None
    BY <2>1, StepOfSetting
  <2> QED BY <2>2 DEF BlockIn
<1> QED BY <1>1, PlansInvariance, PTL DEF Spec, SettingsKeepTheBlock
=============================================================================
