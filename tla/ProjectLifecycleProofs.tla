------------------------ MODULE ProjectLifecycleProofs ------------------------
(***************************************************************************)
(* A deleted project stays deleted, and a name is given twice only by      *)
(* requests in flight together or by a transfer, for any rows, bodies and  *)
(* requests.  The argument follows a request that inserts a row: from the  *)
(* look at the names to the insertion its plan still holds the insertion,  *)
(* and whoever inserts the same name meanwhile overlaps with it.           *)
(***************************************************************************)
EXTENDS ProjectLifecycle, SequenceTheorems, TLAPS

Inserts(r) == Kind(r, "sync") \/ Kind(r, "record")
Same(u, v) == u.owner = v.owner /\ u.name = v.name

Types ==
  /\ op \in [Requests -> Bodies]
  /\ pc \in [Requests -> {"idle", "run"} \cup Ended]
  /\ plan = [r \in Requests |-> plan[r]]
  /\ seen = [r \in Requests |-> seen[r]]
  /\ by \in [Ids -> Requests \cup {None}]
  /\ moved \subseteq Ids
  /\ overlap \in [Requests -> SUBSET Requests]

IsRow(v) == v = [f \in RowFields |-> v[f]]
IsTable(t) == t = [i \in DOMAIN t |-> t[i]]

RowsInv ==
  /\ DOMAIN rows \subseteq Ids
  /\ IsTable(rows)
  /\ \A i \in DOMAIN rows : IsRow(rows[i])

\* Who is in flight together knows of each other.
Mutual ==
  \A r, q \in Requests :
    /\ q \in overlap[r] => r \in overlap[q]
    /\ q # r /\ pc[q] = "run" /\ pc[r] = "run" => q \in overlap[r]

\* A listed row was listed when r loaded, or is of r, or of a request beside it, or
\* has been transferred.
SinceLoad(r) ==
  pc[r] = "run" =>
    \A i \in DOMAIN rows : Listed(rows, i) =>
      \/ by[i] \in overlap[r] \cup {r}
      \/ Listed(seen[r], i) /\ Same(seen[r][i], rows[i])
      \/ i \in moved

SyncLabels == {"dirthere", "namefree", "envthere", "dbthere", "blockthere", "insert", "log"}
Fields(b) == {b.dir, b.name, b.env, b.db, b.conf, None}
Plans(b) == Seq(SyncLabels \X Fields(b))

InsertAt1(s, k) == k \in 1..Len(s) /\ s[k][1] = "insert"
InsertsOnce(s) == \A k, l : InsertAt1(s, k) /\ InsertAt1(s, l) => k = l
NamesArgument(s, n) == \A k \in 1..Len(s) : s[k][1] = "namefree" => s[k][2] = n
LooksBefore(s, k) == \E j \in 1..Len(s) : j < k /\ s[j][1] = "namefree"

\* No row has the name that r wants, except those of requests beside it and those
\* that were transferred.
Cleared(r) ==
  \A i \in DOMAIN rows :
    Listed(rows, i) /\ rows[i].owner = op[r].user /\ rows[i].name = op[r].name
      => by[i] \in overlap[r] \/ i \in moved

\* An insertion that r has still to make comes once, after a look at the names
\* that is still to come or has found nothing.
Inserting(r) ==
  pc[r] = "run" /\ Inserts(r) =>
    /\ plan[r] \in Plans(op[r]) /\ plan[r] # <<>>
    /\ InsertsOnce(plan[r]) /\ NamesArgument(plan[r], op[r].name)
    /\ \A k : InsertAt1(plan[r], k) =>
         /\ \A i \in Ids : by[i] # r
         /\ LooksBefore(plan[r], k) \/ Cleared(r)

Unborn(r) == pc[r] = "idle" => overlap[r] = {} /\ \A i \in Ids : by[i] # r

IInv ==
  /\ Types /\ RowsInv /\ Mutual
  /\ \A r \in Requests : Unborn(r) /\ SinceLoad(r) /\ Inserting(r)
  /\ NamesUniqueSerially

-----------------------------------------------------------------------------
(* Plans.                                                                  *)

\* The plan of a synchronisation looks at the name before it inserts, once.
LEMMA SyncPlanShape ==
  ASSUME NEW b
  PROVE  /\ SyncPlan(b) \in Plans(b)
         /\ InsertsOnce(SyncPlan(b)) /\ NamesArgument(SyncPlan(b), b.name)
         /\ \A k : InsertAt1(SyncPlan(b), k) => LooksBefore(SyncPlan(b), k)
<1> DEFINE S == SyncLabels \X Fields(b)
           A == << <<"dirthere", b.dir>>, <<"namefree", b.name>>, <<"envthere", b.env>> >>
           W == When(b.db # None, << <<"dbthere", b.db>> >>)
           V == When(b.conf # None, << <<"blockthere", b.conf>> >>)
           Z == << <<"insert", None>>, <<"log", None>> >>
           AW == A \o W
           AWV == AW \o V
           P == AWV \o Z
<1>1. A \in Seq(S) /\ Len(A) = 3 /\ Z \in Seq(S) /\ Len(Z) = 2
  BY DEF SyncLabels, Fields
<1>2. /\ W \in Seq(S) /\ \A k \in 1..Len(W) : W[k][1] = "dbthere"
      /\ V \in Seq(S) /\ \A k \in 1..Len(V) : V[k][1] = "blockthere"
  BY DEF SyncLabels, Fields, When
<1> HIDE DEF W, V, S
<1>3. /\ AW \in Seq(S) /\ Len(AW) = 3 + Len(W)
      /\ \A k \in 1..Len(AW) : AW[k] = IF k <= 3 THEN A[k] ELSE W[k - 3]
  BY <1>1, <1>2, ConcatProperties
<1> HIDE DEF AW
<1>4. /\ AWV \in Seq(S) /\ Len(AWV) = Len(AW) + Len(V)
      /\ \A k \in 1..Len(AWV) : AWV[k] = IF k <= Len(AW) THEN AW[k] ELSE V[k - Len(AW)]
  <2>1. AW \in Seq(S) /\ V \in Seq(S)  BY <1>2, <1>3
  <2> QED BY <2>1, ConcatProperties
<1> HIDE DEF AWV
<1>5. /\ P \in Seq(S) /\ Len(P) = Len(AWV) + 2
      /\ \A k \in 1..Len(P) : P[k] = IF k <= Len(AWV) THEN AWV[k] ELSE Z[k - Len(AWV)]
  BY <1>1, <1>4, ConcatProperties
<1>6. /\ Len(W) \in Nat /\ Len(V) \in Nat
      /\ A[1][1] = "dirthere" /\ A[2] = <<"namefree", b.name>> /\ A[3][1] = "envthere"
      /\ Z[1][1] = "insert" /\ Z[2][1] = "log"
  BY <1>2, LenProperties
<1>7. P = SyncPlan(b)
  BY DEF SyncPlan, AW, AWV, W, V
<1> HIDE DEF A, Z, P
<1>8. \A k \in 1..Len(W) + 3 : AW[k][1] # "insert" /\ (AW[k][1] = "namefree" => k = 2)
  <2> TAKE k \in 1..Len(W) + 3
  <2>1. CASE k <= 3  BY <2>1, <1>3, <1>6, k \in {1, 2, 3}
  <2>2. CASE k > 3
    <3>1. k - 3 \in 1..Len(W)  BY <2>2, <1>6
    <3> QED BY <3>1, <2>2, <1>2, <1>3, <1>6
  <2> QED BY <2>1, <2>2
<1>9. \A k \in 1..Len(AWV) : AWV[k][1] # "insert" /\ (AWV[k][1] = "namefree" => k = 2)
  <2> TAKE k \in 1..Len(AWV)
  <2>1. CASE k <= Len(AW)  BY <2>1, <1>3, <1>4, <1>6, <1>8
  <2>2. CASE k > Len(AW)
    <3>1. k - Len(AW) \in 1..Len(V)  BY <2>2, <1>3, <1>4, <1>6
    <3> QED BY <3>1, <2>2, <1>2, <1>3, <1>4, <1>6
  <2> QED BY <2>1, <2>2, <1>3, <1>6
<1>10. \A k \in 1..Len(P) : /\ P[k][1] = "insert" => k = Len(P) - 1
                            /\ P[k][1] = "namefree" => k = 2
  <2> TAKE k \in 1..Len(P)
  <2>1. CASE k <= Len(AWV)  BY <2>1, <1>5, <1>9, <1>3, <1>4, <1>6
  <2>2. CASE k > Len(AWV)
    <3>1. k - Len(AWV) \in {1, 2}
      <4>1. Len(AWV) \in Nat  BY <1>3, <1>4, <1>6
      <4> QED BY <4>1, <2>2, <1>5
    <3> QED BY <3>1, <2>2, <1>3, <1>4, <1>5, <1>6
  <2> QED BY <2>1, <2>2, <1>3, <1>4, <1>6
<1>11. Len(P) \in Nat /\ Len(P) >= 5 /\ P[2] = <<"namefree", b.name>>
  BY <1>3, <1>4, <1>5, <1>6
<1>12. P \in Plans(b)  BY <1>5 DEF Plans, S
<1>13. InsertsOnce(P)  BY <1>10, <1>11 DEF InsertsOnce, InsertAt1
<1>14. NamesArgument(P, b.name)  BY <1>10, <1>11 DEF NamesArgument
<1>15. \A k : InsertAt1(P, k) => LooksBefore(P, k)
  BY <1>10, <1>11 DEF InsertAt1, LooksBefore
<1> QED BY <1>7, <1>12, <1>13, <1>14, <1>15

\* So does the plan of a bare row.
LEMMA RecordPlanShape ==
  ASSUME NEW b, NEW s, s = << <<"namefree", b.name>>, <<"insert", None>> >>
  PROVE  /\ s \in Plans(b)
         /\ InsertsOnce(s) /\ NamesArgument(s, b.name)
         /\ \A k : InsertAt1(s, k) => LooksBefore(s, k)
<1>1. Len(s) = 2 /\ s[1] = <<"namefree", b.name>> /\ s[2] = <<"insert", None>>
  OBVIOUS
<1>2. s \in Plans(b)  BY DEF Plans, SyncLabels, Fields
<1>3. \A k \in 1..Len(s) : k \in {1, 2}  BY <1>1
<1>4. InsertsOnce(s)  BY <1>1, <1>3 DEF InsertsOnce, InsertAt1
<1>5. NamesArgument(s, b.name)  BY <1>1, <1>3 DEF NamesArgument
<1>6. \A k : InsertAt1(s, k) => LooksBefore(s, k)
  BY <1>1, <1>3 DEF InsertAt1, LooksBefore
<1> QED BY <1>2, <1>4, <1>5, <1>6

\* What the plan promises is also promised by its rest, but for a look at the
\* names that was its first step.
LEMMA RestOfPlan ==
  ASSUME NEW b, NEW s \in Plans(b), s # <<>>
  PROVE  /\ Tail(s) \in Plans(b) /\ Head(s) = s[1]
         /\ InsertsOnce(s) => InsertsOnce(Tail(s))
         /\ NamesArgument(s, b.name) => NamesArgument(Tail(s), b.name)
         /\ \A k : InsertAt1(Tail(s), k) =>
              /\ InsertAt1(s, k + 1) /\ k # 0
              /\ LooksBefore(s, k + 1) =>
                   Head(s)[1] = "namefree" \/ LooksBefore(Tail(s), k)
<1> DEFINE S == SyncLabels \X Fields(b)
           t == Tail(s)
<1>1. s \in Seq(S)  BY DEF Plans
<1> HIDE DEF S
<1>2. /\ t \in Seq(S) /\ Len(t) = Len(s) - 1 /\ Len(s) \in Nat
      /\ \A i \in 1..Len(t) : t[i] = s[i + 1]
  BY <1>1, HeadTailProperties, LenProperties
<1>3. Head(s) = s[1]  BY <1>1
<1>4. t \in Plans(b)  BY <1>2 DEF Plans, S
<1> HIDE DEF t
<1>5. \A k \in 1..Len(t) : k + 1 \in 1..Len(s)  BY <1>2
<1>6. InsertsOnce(s) => InsertsOnce(t)
  <2> SUFFICES ASSUME InsertsOnce(s), NEW k, NEW l, InsertAt1(t, k), InsertAt1(t, l)
               PROVE  k = l
    BY DEF InsertsOnce
  <2>1. InsertAt1(s, k + 1) /\ InsertAt1(s, l + 1)  BY <1>2, <1>5 DEF InsertAt1
  <2>2. k \in Nat /\ l \in Nat  BY DEF InsertAt1
  <2> QED BY <2>1, <2>2 DEF InsertsOnce
<1>7. NamesArgument(s, b.name) => NamesArgument(t, b.name)
  BY <1>2, <1>5 DEF NamesArgument
<1>8. \A k : InsertAt1(t, k) =>
        /\ InsertAt1(s, k + 1) /\ k # 0
        /\ LooksBefore(s, k + 1) => Head(s)[1] = "namefree" \/ LooksBefore(t, k)
  <2> SUFFICES ASSUME NEW k, InsertAt1(t, k)
               PROVE  /\ InsertAt1(s, k + 1) /\ k # 0
                      /\ LooksBefore(s, k + 1) => Head(s)[1] = "namefree" \/ LooksBefore(t, k)
    OBVIOUS
  <2>1. InsertAt1(s, k + 1) /\ k \in 1..Len(t)  BY <1>2, <1>5 DEF InsertAt1
  <2>2. ASSUME NEW j \in 1..Len(s), j < k + 1, s[j][1] = "namefree"
        PROVE  Head(s)[1] = "namefree" \/ LooksBefore(t, k)
    <3>1. CASE j = 1  BY <3>1, <2>2, <1>3
    <3>2. CASE j # 1
      <4>1. j - 1 \in 1..Len(t) /\ j - 1 < k /\ (j - 1) + 1 = j  BY <3>2, <2>1, <2>2, <1>2
      <4>2. t[j - 1] = s[j]  BY <4>1, <1>2
      <4> QED BY <4>1, <4>2, <2>2 DEF LooksBefore
    <3> QED BY <3>1, <3>2
  <2> QED BY <2>1, <2>2, <1>2 DEF LooksBefore
<1> QED BY <1>3, <1>4, <1>6, <1>7, <1>8 DEF t

-----------------------------------------------------------------------------
(* What a step does.                                                       *)

\* A step of r moves r only.
Moves(r) ==
  /\ pc[r] = "run" /\ (Goes(r) \/ Fails(r))
  /\ UNCHANGED <<op, seen, overlap>>

Work(r) ==
  \/ Delete(r) \/ Setting(r) \/ Sync(r)
  \/ Kind(r, "status") /\ UpdateStatus(r)
  \/ Kind(r, "transfer") /\ Transfer(r)

\* No row is inserted, brought back, or given another name; another owner only
\* by a transfer.
RowsKept ==
  /\ by' = by /\ DOMAIN rows' = DOMAIN rows /\ IsTable(rows')
  /\ moved \subseteq moved' /\ moved' \subseteq Ids
  /\ \A i \in DOMAIN rows : /\ IsRow(rows'[i])
                            /\ Same(rows'[i], rows[i]) \/ i \in moved'
                            /\ Listed(rows', i) => Listed(rows, i)

RowInserted(r) ==
  /\ moved' = moved
  /\ Inserts(r) /\ Head(plan[r])[1] = "insert"
  /\ \E i \in Ids \ DOMAIN rows :
       /\ by' = [by EXCEPT ![i] = r]
       /\ DOMAIN rows' = DOMAIN rows \cup {i} /\ IsTable(rows')
       /\ \A j \in DOMAIN rows : rows'[j] = rows[j]
       /\ IsRow(rows'[i]) /\ rows'[i].owner = op[r].user /\ rows'[i].name = op[r].name

\* A look at the names that goes on has found nothing, then or when r loaded.
Looked(r) ==
  Inserts(r) /\ Head(plan[r])[1] = "namefree" /\ pc'[r] # "failed" =>
    \E t \in {rows, seen[r]} :
      \A i \in Ids : ~(Listed(t, i) /\ t[i].owner = op[r].user /\ t[i].name = Arg(r))

LEMMA WorkMoves == ASSUME NEW r \in Requests, Work(r) PROVE Moves(r)
<1> USE DEF Moves, Step, At
<1>1. CASE Delete(r)
  BY <1>1 DEF Delete, RemoveDir, RemoveEnv, RemoveDb, RemoveBlock, DeleteRows
<1>2. CASE Setting(r)
  BY <1>2 DEF Setting, EnvFree, MakeEnv, DropEnv, DbFree, MakeDb, DropDb, PortFree,
              NginxUp, MakeBlock, DropBlock, UpdateRow, ClearDb, Log
<1>3. CASE Sync(r)
  BY <1>3 DEF Sync, DirThere, NameFree, EnvThere, DbThere, BlockThere, Insert, Log
<1>4. CASE UpdateStatus(r)
  BY <1>4 DEF UpdateStatus
<1>5. CASE Transfer(r)
  BY <1>5 DEF Transfer
<1> QED BY <1>1, <1>2, <1>3, <1>4, <1>5 DEF Work

LEMMA SameRows ==
  ASSUME Types, RowsInv, rows' = rows, by' = by, moved' = moved PROVE RowsKept
  BY DEF Types, RowsInv, RowsKept, Same, IsRow

\* A row of which other fields than owner, name and status changed, or the status
\* of a listed one, or to "deleted".
LEMMA FieldsChanged ==
  ASSUME Types, RowsInv, by' = by, moved' = moved, DOMAIN rows' = DOMAIN rows,
         IsTable(rows'),
         \A i \in DOMAIN rows :
           /\ IsRow(rows'[i])
           /\ rows'[i].owner = rows[i].owner /\ rows'[i].name = rows[i].name
           /\ rows'[i].status \in {rows[i].status, -1} \/ Listed(rows, i)
  PROVE  RowsKept
  BY DEF Types, RowsKept, Same, Listed

LEMMA WorkRows ==
  ASSUME Types, RowsInv, NEW r \in Requests, Work(r)
  PROVE  RowsKept \/ RowInserted(r)
<1> USE DEF Step, At
<1>1. CASE Delete(r)
  <2>1. CASE DeleteRows(r)
    <3>1. CASE UNCHANGED resources  BY <3>1, SameRows DEF resources
    <3>2. CASE /\ rows' = [i \in DOMAIN rows |->
                            IF i \in {k \in Targets(op[r]) : Listed(rows, k)}
                            THEN [rows[i] EXCEPT !.status = -1] ELSE rows[i]]
               /\ by' = by /\ moved' = moved
      <4>1. DOMAIN rows' = DOMAIN rows /\ IsTable(rows')
        BY <3>2 DEF IsTable
      <4>2. ASSUME NEW i \in DOMAIN rows
            PROVE  /\ IsRow(rows'[i])
                   /\ rows'[i].owner = rows[i].owner /\ rows'[i].name = rows[i].name
                   /\ rows'[i].status \in {rows[i].status, -1}
        <5>1. IsRow(rows[i])  BY DEF RowsInv
        <5> QED BY <5>1, <3>2 DEF IsRow, RowFields
      <4> QED BY <3>2, <4>1, <4>2, FieldsChanged
    <3> QED BY <2>1, <3>1, <3>2 DEF DeleteRows, SetRows
  <2>2. CASE RemoveDir(r) \/ RemoveEnv(r) \/ RemoveDb(r) \/ RemoveBlock(r)
    BY <2>2, SameRows DEF RemoveDir, RemoveEnv, RemoveDb, RemoveBlock, SetDirs, SetEnvs,
                          SetDbs, SetBlock, resources
  <2> QED BY <1>1, <2>1, <2>2 DEF Delete
<1>2. CASE Setting(r)
  <2>1. CASE UpdateRow(r)
    <3> DEFINE b == op[r]
               C == ChangedFields(b, Row(r))
               new == [f \in DOMAIN rows[b.id] |-> IF f \in C THEN Wanted(b, Row(r))[f]
                                                  ELSE rows[b.id][f]]
    <3>1. CASE UNCHANGED resources  BY <3>1, SameRows DEF resources
    <3>2. CASE rows' = [rows EXCEPT ![b.id] = new] /\ by' = by /\ moved' = moved
      <4>1. C \subseteq {"env", "db", "host", "conf", "port", "text"}  BY DEF ChangedFields, Wanted
      <4> HIDE DEF C
      <4>2. DOMAIN rows' = DOMAIN rows /\ IsTable(rows')
        BY <3>2 DEF IsTable
      <4>3. ASSUME NEW i \in DOMAIN rows
            PROVE  /\ IsRow(rows'[i])
                   /\ rows'[i].owner = rows[i].owner /\ rows'[i].name = rows[i].name
                   /\ rows'[i].status = rows[i].status
        <5>1. IsRow(rows[i])  BY DEF RowsInv
        <5>2. CASE i # b.id  BY <5>1, <5>2, <3>2
        <5>3. CASE i = b.id
          <6>1. rows'[i] = new  BY <5>3, <3>2
          <6>2. DOMAIN rows[b.id] = RowFields  BY <5>1, <5>3 DEF IsRow
          <6>3. IsRow(new)  BY <6>2 DEF IsRow
          <6>4. /\ new.owner = rows[i].owner /\ new.name = rows[i].name
                /\ new.status = rows[i].status
            BY <6>2, <5>3, <4>1 DEF RowFields
          <6> QED BY <6>1, <6>3, <6>4
        <5> QED BY <5>2, <5>3
      <4> QED BY <3>2, <4>2, <4>3, FieldsChanged
    <3> QED BY <2>1, <3>1, <3>2 DEF UpdateRow, SetRows
  <2>2. CASE ClearDb(r)
    <3>1. CASE UNCHANGED resources  BY <3>1, SameRows DEF resources
    <3>2. CASE rows' = [rows EXCEPT ![op[r].id].db = None] /\ by' = by /\ moved' = moved
      <4>1. DOMAIN rows' = DOMAIN rows /\ IsTable(rows')
        BY <3>2 DEF IsTable
      <4>2. ASSUME NEW i \in DOMAIN rows
            PROVE  /\ IsRow(rows'[i])
                   /\ rows'[i].owner = rows[i].owner /\ rows'[i].name = rows[i].name
                   /\ rows'[i].status = rows[i].status
        <5>1. IsRow(rows[i])  BY DEF RowsInv
        <5> QED BY <5>1, <3>2 DEF IsRow, RowFields
      <4> QED BY <3>2, <4>1, <4>2, FieldsChanged
    <3> QED BY <2>2, <3>1, <3>2 DEF ClearDb, SetRows
  <2>3. CASE \/ EnvFree(r) \/ MakeEnv(r) \/ DropEnv(r) \/ DbFree(r) \/ MakeDb(r) \/ DropDb(r)
             \/ NginxUp(r) \/ PortFree(r) \/ MakeBlock(r) \/ DropBlock(r) \/ Log(r)
    BY <2>3, SameRows DEF EnvFree, MakeEnv, DropEnv, DbFree, MakeDb, DropDb, PortFree,
       NginxUp, MakeBlock, DropBlock, Log, SetEnvs, SetDbs, SetBlock, Nothing, resources
  <2> QED BY <1>2, <2>1, <2>2, <2>3 DEF Setting
<1>3. CASE Sync(r)
  <2>1. CASE Insert(r)
    <3>1. CASE UNCHANGED resources  BY <3>1, SameRows DEF resources
    <3>2. ASSUME NEW i \in Ids, i \notin DOMAIN rows, by' = [by EXCEPT ![i] = r],
                 rows' = [j \in DOMAIN rows \cup {i} |->
                   IF j # i THEN rows[j] ELSE
                   [owner |-> op[r].user, server |-> op[r].server, name |-> op[r].name,
                    dir |-> op[r].dir, env |-> op[r].env, db |-> op[r].db,
                    host |-> HostOf(op[r]), conf |-> op[r].conf, port |-> op[r].port,
                    text |-> op[r].text, status |-> 0]],
                 moved' = moved, Head(plan[r])[1] = "insert"
          PROVE  RowInserted(r)
      <4> DEFINE new == [owner |-> op[r].user, server |-> op[r].server, name |-> op[r].name,
                         dir |-> op[r].dir, env |-> op[r].env, db |-> op[r].db,
                         host |-> HostOf(op[r]), conf |-> op[r].conf, port |-> op[r].port,
                         text |-> op[r].text, status |-> 0]
      <4>1. Inserts(r)  BY <1>3 DEF Sync, Inserts
      <4>2. /\ DOMAIN rows' = DOMAIN rows \cup {i}
            /\ IsTable(rows')
            /\ \A j \in DOMAIN rows : rows'[j] = rows[j]
            /\ rows'[i] = new
        BY <3>2 DEF IsTable
      <4>3. IsRow(new) /\ new.owner = op[r].user /\ new.name = op[r].name
        BY DEF IsRow, RowFields
      <4> QED BY <3>2, <4>1, <4>2, <4>3 DEF RowInserted
    <3> QED BY <2>1, <3>1, <3>2 DEF Insert
  <2>2. CASE \/ DirThere(r) \/ NameFree(r) \/ EnvThere(r) \/ DbThere(r) \/ BlockThere(r)
             \/ Log(r)
    BY <2>2, SameRows DEF DirThere, NameFree, EnvThere, DbThere, BlockThere, Log, Nothing,
       resources
  <2> QED BY <1>3, <2>1, <2>2 DEF Sync
<1>4. CASE UpdateStatus(r)
  <2>1. CASE rows' = rows /\ by' = by /\ moved' = moved  BY <2>1, SameRows
  <2>2. CASE /\ Listed(rows, op[r].id) /\ by' = by /\ moved' = moved
             /\ rows' = [rows EXCEPT ![op[r].id].status = Arg(r)]
    <3>1. DOMAIN rows' = DOMAIN rows /\ IsTable(rows')
      BY <2>2 DEF IsTable
    <3>2. ASSUME NEW i \in DOMAIN rows
          PROVE  /\ IsRow(rows'[i])
                 /\ rows'[i].owner = rows[i].owner /\ rows'[i].name = rows[i].name
                 /\ rows'[i].status = rows[i].status \/ Listed(rows, i)
      <4>1. IsRow(rows[i])  BY DEF RowsInv
      <4> QED BY <4>1, <2>2 DEF IsRow, RowFields
    <3> QED BY <2>2, <3>1, <3>2, FieldsChanged
  <2> QED BY <1>4, <2>1, <2>2 DEF UpdateStatus, SetRows, resources
<1>5. CASE Transfer(r)
  <2> DEFINE theirs == {i \in DOMAIN rows : Listed(rows, i) /\ rows[i].owner \in op[r].from}
  <2>1. CASE UNCHANGED resources  BY <2>1, SameRows DEF resources
  <2>2. CASE /\ rows' = [i \in DOMAIN rows |-> IF i \in theirs
                           THEN [rows[i] EXCEPT !.owner = op[r].user] ELSE rows[i]]
             /\ moved' = moved \cup theirs /\ by' = by
    <3>1. DOMAIN rows' = DOMAIN rows /\ IsTable(rows')
      BY <2>2 DEF IsTable
    <3>2. ASSUME NEW i \in DOMAIN rows
          PROVE  /\ IsRow(rows'[i])
                 /\ Same(rows'[i], rows[i]) \/ i \in moved'
                 /\ Listed(rows', i) => Listed(rows, i)
      <4>1. IsRow(rows[i])  BY DEF RowsInv
      <4>2. CASE i \in theirs
        <5>1. rows'[i] = [rows[i] EXCEPT !.owner = op[r].user]  BY <2>2, <4>2
        <5>2. IsRow(rows'[i])  BY <4>1, <5>1 DEF IsRow, RowFields
        <5> QED BY <2>2, <4>2, <5>2
      <4>3. CASE i \notin theirs
        BY <2>2, <3>1, <4>1, <4>3 DEF Same, Listed
      <4> QED BY <4>2, <4>3
    <3>3. moved' \subseteq Ids  BY <2>2 DEF Types, RowsInv
    <3> QED BY <2>2, <3>1, <3>2, <3>3 DEF RowsKept
  <2> QED BY <1>5, <2>1, <2>2 DEF Transfer
<1> QED BY <1>1, <1>2, <1>3, <1>4, <1>5 DEF Work

LEMMA WorkLooks ==
  ASSUME Types, NEW r \in Requests, Work(r)
  PROVE  Looked(r)
<1> SUFFICES ASSUME Inserts(r), Head(plan[r])[1] = "namefree", pc'[r] # "failed"
             PROVE  \E t \in {rows, seen[r]} :
                      \A i \in Ids : ~(/\ Listed(t, i) /\ t[i].owner = op[r].user
                                       /\ t[i].name = Arg(r))
  BY DEF Looked
<1>1. Sync(r)
  BY DEF Work, Inserts, Kind, Delete, Setting, Transfer
<1>2. NameFree(r)
  BY <1>1 DEF Sync, DirThere, EnvThere, DbThere, BlockThere, Insert, Log, Step, At
<1>3. PICK t \in {rows, seen[r]} : Step(r, "namefree", ~Uses(t, r), Nothing)
  BY <1>2 DEF NameFree
<1>4. ~Fails(r)
  BY DEF Fails, Types
<1>5. ~Uses(t, r)
  BY <1>3, <1>4 DEF Step
<1> QED BY <1>5 DEF Uses

-----------------------------------------------------------------------------
(* The invariant.                                                          *)

LEMMA WorkKeepsTypes ==
  ASSUME IInv, NEW r \in Requests, Work(r)
  PROVE  Types' /\ RowsInv' /\ Mutual' /\ \A q \in Requests : Unborn(q)'
<1>1. Moves(r) /\ (RowsKept \/ RowInserted(r))
  BY WorkMoves, WorkRows DEF IInv
<1>2. \A q \in Requests : /\ pc'[q] = "run" => pc[q] = "run"
                          /\ pc'[q] = "idle" => pc[q] = "idle" /\ q # r
  BY <1>1 DEF Moves, Goes, Fails, IInv, Types
<1>3. by' = by \/ \E i \in Ids : by' = [by EXCEPT ![i] = r]
  BY <1>1 DEF RowsKept, RowInserted
<1>4. Types'
  <2>1. pc' \in [Requests -> {"idle", "run"} \cup Ended] /\ plan' = [q \in Requests |-> plan'[q]]
    BY <1>1 DEF Moves, Goes, Fails, IInv, Types, Ended
  <2>2. moved' \subseteq Ids  BY <1>1 DEF RowsKept, RowInserted, IInv, Types
  <2> QED BY <2>1, <2>2, <1>1, <1>3 DEF Moves, IInv, Types
<1>5. RowsInv'
  <2>1. CASE RowsKept
    BY <2>1 DEF RowsKept, IInv, RowsInv
  <2>2. CASE RowInserted(r)
    <3>1. PICK i \in Ids \ DOMAIN rows :
            /\ DOMAIN rows' = DOMAIN rows \cup {i} /\ IsTable(rows')
            /\ \A j \in DOMAIN rows : rows'[j] = rows[j]
            /\ IsRow(rows'[i])
      BY <2>2 DEF RowInserted
    <3>2. \A j \in DOMAIN rows' : IsRow(rows'[j])
      BY <3>1 DEF IInv, RowsInv
    <3> QED BY <3>1, <3>2 DEF IInv, RowsInv
  <2> QED BY <1>1, <2>1, <2>2
<1>6. Mutual'
  <2>1. overlap' = overlap  BY <1>1 DEF Moves
  <2> QED BY <2>1, <1>2 DEF IInv, Mutual
<1>7. \A q \in Requests : Unborn(q)'
  BY <1>1, <1>2, <1>3 DEF Moves, IInv, Unborn, Types
<1> QED BY <1>4, <1>5, <1>6, <1>7

\* A row that appears belongs to a request beside those in flight.
LEMMA WorkKeepsSince ==
  ASSUME IInv, NEW r \in Requests, Work(r), NEW q \in Requests
  PROVE  SinceLoad(q)'
<1>1. Moves(r) /\ (RowsKept \/ RowInserted(r))
  BY WorkMoves, WorkRows DEF IInv
<1> SUFFICES ASSUME pc'[q] = "run", NEW i \in DOMAIN rows', Listed(rows', i)
             PROVE  \/ by'[i] \in overlap[q] \cup {q}
                    \/ Listed(seen[q], i) /\ Same(seen[q][i], rows'[i])
                    \/ i \in moved'
  BY <1>1 DEF SinceLoad, Moves, Listed
<1>2. pc[q] = "run" /\ pc[r] = "run"
  BY <1>1 DEF Moves, Goes, Fails, IInv, Types
<1>3. CASE RowsKept
  <2>1. /\ i \in DOMAIN rows /\ Listed(rows, i) /\ by' = by /\ moved \subseteq moved'
        /\ Same(rows'[i], rows[i]) \/ i \in moved'
    BY <1>3 DEF RowsKept
  <2> QED BY <2>1, <1>2 DEF IInv, SinceLoad, Same
<1>4. CASE RowInserted(r)
  <2>1. PICK k \in Ids \ DOMAIN rows :
          /\ by' = [by EXCEPT ![k] = r] /\ DOMAIN rows' = DOMAIN rows \cup {k}
          /\ \A j \in DOMAIN rows : rows'[j] = rows[j]
    BY <1>4 DEF RowInserted
  <2>2. CASE i = k
    <3>1. by'[i] = r  BY <2>1, <2>2 DEF IInv, Types
    <3> QED BY <3>1, <1>2 DEF IInv, Mutual
  <2>3. CASE i # k
    <3>1. i \in DOMAIN rows /\ rows'[i] = rows[i] /\ by'[i] = by[i]
      BY <2>1, <2>3 DEF IInv, Types, RowsInv
    <3>2. Listed(rows, i)  BY <3>1 DEF Listed
    <3>3. moved' = moved  BY <1>4 DEF RowInserted
    <3> QED BY <3>1, <3>2, <3>3, <1>2 DEF IInv, SinceLoad
  <2> QED BY <2>2, <2>3
<1> QED BY <1>1, <1>3, <1>4

\* What has been cleared stays cleared.
LEMMA ClearedKept ==
  ASSUME IInv, NEW r \in Requests, Work(r), NEW q \in Requests, q # r \/ RowsKept,
         pc[q] = "run", Cleared(q)
  PROVE  Cleared(q)'
<1>1. Moves(r) /\ (RowsKept \/ RowInserted(r))
  BY WorkMoves, WorkRows DEF IInv
<1> SUFFICES ASSUME NEW i \in DOMAIN rows', Listed(rows', i),
                    rows'[i].owner = op[q].user, rows'[i].name = op[q].name,
                    i \notin moved'
             PROVE  by'[i] \in overlap[q]
  BY <1>1 DEF Cleared, Moves, Listed
<1>2. CASE RowsKept
  <2>1. /\ i \in DOMAIN rows /\ Listed(rows, i) /\ by' = by /\ i \notin moved
        /\ Same(rows'[i], rows[i])
    BY <1>2 DEF RowsKept
  <2> QED BY <2>1 DEF Cleared, Same
<1>3. CASE RowInserted(r) /\ q # r
  <2>1. PICK k \in Ids \ DOMAIN rows :
          /\ by' = [by EXCEPT ![k] = r] /\ DOMAIN rows' = DOMAIN rows \cup {k}
          /\ \A j \in DOMAIN rows : rows'[j] = rows[j]
    BY <1>3 DEF RowInserted
  <2>2. CASE i = k
    <3>1. by'[i] = r  BY <2>1, <2>2 DEF IInv, Types
    <3> QED BY <3>1, <1>1, <1>3 DEF IInv, Mutual, Moves
  <2>3. CASE i # k
    <3>1. i \in DOMAIN rows /\ rows'[i] = rows[i] /\ by'[i] = by[i]
      BY <2>1, <2>3 DEF IInv, Types, RowsInv
    <3>2. i \notin moved  BY <1>3 DEF RowInserted
    <3> QED BY <3>1, <3>2 DEF Cleared, Listed
  <2> QED BY <2>2, <2>3
<1> QED BY <1>1, <1>2, <1>3

\* Before its last look at the names a request has it to come; after it, no row
\* has the name that was not there when it loaded, or is of a request beside it.
LEMMA WorkKeepsInserting ==
  ASSUME IInv, NEW r \in Requests, Work(r), NEW q \in Requests
  PROVE  Inserting(q)'
<1>1. Moves(r) /\ (RowsKept \/ RowInserted(r)) /\ Looked(r)
  BY WorkMoves, WorkRows, WorkLooks DEF IInv
<1> SUFFICES ASSUME pc'[q] = "run", Inserts(q)'
             PROVE  /\ plan'[q] \in Plans(op[q]) /\ plan'[q] # <<>>
                    /\ InsertsOnce(plan'[q]) /\ NamesArgument(plan'[q], op[q].name)
                    /\ \A k : InsertAt1(plan'[q], k) =>
                         /\ \A i \in Ids : by'[i] # q
                         /\ LooksBefore(plan'[q], k) \/ Cleared(q)'
  BY <1>1 DEF Inserting, Moves
<1>2. pc[q] = "run" /\ Inserts(q)
  BY <1>1 DEF Moves, Goes, Fails, IInv, Types, Inserts, Kind
<1>3. /\ plan[q] \in Plans(op[q]) /\ plan[q] # <<>>
      /\ InsertsOnce(plan[q]) /\ NamesArgument(plan[q], op[q].name)
      /\ \A k : InsertAt1(plan[q], k) =>
           /\ \A i \in Ids : by[i] # q
           /\ LooksBefore(plan[q], k) \/ Cleared(q)
  BY <1>2 DEF IInv, Inserting
<1>4. by' = by \/ \E i \in Ids : by' = [by EXCEPT ![i] = r]
  BY <1>1 DEF RowsKept, RowInserted
<1>5. CASE q # r
  <2>1. plan'[q] = plan[q]
    BY <1>1, <1>5 DEF Moves, Goes, Fails, IInv, Types
  <2>2. (\A i \in Ids : by[i] # q) => \A i \in Ids : by'[i] # q
    BY <1>4, <1>5 DEF IInv, Types
  <2>3. Cleared(q) => Cleared(q)'
    BY <1>2, <1>5, ClearedKept
  <2> QED BY <1>3, <2>1, <2>2, <2>3
<1>6. CASE q = r
  <2> DEFINE s == plan[r]
  <2>1. Goes(r) /\ Len(s) # 1 /\ plan'[r] = Tail(s)
    BY <1>1, <1>6 DEF Moves, Goes, Fails, IInv, Types
  <2>2. /\ Tail(s) \in Plans(op[r]) /\ Head(s) = s[1]
        /\ InsertsOnce(Tail(s)) /\ NamesArgument(Tail(s), op[r].name)
        /\ \A k : InsertAt1(Tail(s), k) =>
             /\ InsertAt1(s, k + 1) /\ k # 0
             /\ LooksBefore(s, k + 1) =>
                  Head(s)[1] = "namefree" \/ LooksBefore(Tail(s), k)
    BY <1>3, <1>6, RestOfPlan
  <2>3. 1 \in 1..Len(s) /\ Tail(s) # <<>>
    <3>1. s \in Seq(SyncLabels \X Fields(op[r])) /\ s # <<>>  BY <1>3, <1>6 DEF Plans
    <3>2. Len(Tail(s)) = Len(s) - 1 /\ Len(s) \in Nat /\ Len(s) # 0
      BY <3>1, HeadTailProperties, LenProperties, EmptySeq
    <3>3. Len(s) # 1  BY <2>1
    <3>4. 1 \in 1..Len(s) /\ Len(Tail(s)) # 0  BY <3>2, <3>3
    <3>5. Len(<<>>) = 0  OBVIOUS
    <3> QED BY <3>4, <3>5
  <2>4. ASSUME NEW k, InsertAt1(Tail(s), k)
        PROVE  (\A i \in Ids : by'[i] # r) /\ (LooksBefore(Tail(s), k) \/ Cleared(r)')
    <3>1. /\ InsertAt1(s, k + 1) /\ k # 0
          /\ LooksBefore(s, k + 1) => Head(s)[1] = "namefree" \/ LooksBefore(Tail(s), k)
      BY <2>2, <2>4
    <3>2. (\A i \in Ids : by[i] # r) /\ (LooksBefore(s, k + 1) \/ Cleared(r))
      BY <3>1, <1>3, <1>6
    <3>3. RowsKept
      <4> SUFFICES ASSUME RowInserted(r) PROVE FALSE
        BY <1>1
      <4>1. InsertAt1(s, 1)  BY <2>2, <2>3 DEF RowInserted, InsertAt1
      <4>2. k + 1 = 1  BY <4>1, <3>1, <1>3, <1>6 DEF InsertsOnce
      <4>3. k \in Nat  BY <2>4 DEF InsertAt1
      <4> QED BY <4>2, <4>3, <3>1
    <3>4. \A i \in Ids : by'[i] # r  BY <3>2, <3>3 DEF RowsKept
    <3>5. CASE Cleared(r)
      BY <3>5, <3>4, <3>3, <1>2, <1>6, ClearedKept
    <3>6. CASE Head(s)[1] = "namefree"
      <4>1. Arg(r) = op[r].name
        BY <3>6, <2>2, <2>3, <1>3, <1>6 DEF NamesArgument, Arg
      <4>2. pc'[r] # "failed"  BY <1>6
      <4>3. PICK t \in {rows, seen[r]} :
              \A i \in Ids : ~(Listed(t, i) /\ t[i].owner = op[r].user /\ t[i].name = op[r].name)
        BY <4>1, <4>2, <3>6, <1>1, <1>2, <1>6 DEF Looked
      <4>4. ASSUME NEW i \in DOMAIN rows', Listed(rows', i),
                   rows'[i].owner = op[r].user, rows'[i].name = op[r].name,
                   i \notin moved'
            PROVE  by'[i] \in overlap[r]
        <5>1. /\ i \in DOMAIN rows /\ Listed(rows, i) /\ by'[i] = by[i] /\ i \notin moved
              /\ rows[i].owner = op[r].user /\ rows[i].name = op[r].name
          BY <4>4, <3>3 DEF RowsKept, Same
        <5>2. i \in Ids  BY <5>1 DEF IInv, RowsInv
        <5>3. SinceLoad(r)  BY DEF IInv
        <5>4. by[i] \in overlap[r] \cup {r} \/ (Listed(seen[r], i) /\ Same(seen[r][i], rows[i]))
          BY <5>1, <5>3, <1>2, <1>6 DEF SinceLoad
        <5> QED BY <4>3, <5>1, <5>2, <5>4, <3>2 DEF Same
      <4>5. Cleared(r)'
        BY <4>4, <1>1 DEF Cleared, Moves, Listed
      <4> QED BY <4>5, <3>4
    <3> QED BY <3>1, <3>2, <3>4, <3>5, <3>6
  <2> QED BY <1>6, <2>1, <2>2, <2>3, <2>4
<1> QED BY <1>5, <1>6

\* The name of a new row is, if at all, that of a row of a request beside it.
LEMMA WorkKeepsNames ==
  ASSUME IInv, NEW r \in Requests, Work(r)
  PROVE  NamesUniqueSerially'
<1>1. Moves(r) /\ (RowsKept \/ RowInserted(r))
  BY WorkMoves, WorkRows DEF IInv
<1>2. overlap' = overlap /\ pc[r] = "run"  BY <1>1 DEF Moves
<1> SUFFICES ASSUME NEW i \in Ids, NEW j \in Ids, i # j, Listed(rows', i), Listed(rows', j),
                    rows'[i].owner = rows'[j].owner, rows'[i].name = rows'[j].name,
                    i \notin moved', j \notin moved'
             PROVE  by'[i] # None /\ by'[j] # None /\ by'[j] \in overlap[by'[i]]
  BY <1>2 DEF NamesUniqueSerially, Listed
<1>3. i \in DOMAIN rows' /\ j \in DOMAIN rows'  BY DEF Listed
<1>4. ASSUME NEW m \in Ids, NEW n \in Ids, m # n, Listed(rows, m), Listed(rows, n),
             Same(rows[m], rows[n]), m \notin moved, n \notin moved
      PROVE  by[m] # None /\ by[n] # None /\ by[n] \in overlap[by[m]]
  BY <1>4 DEF IInv, NamesUniqueSerially, Same
<1>5. CASE RowsKept
  <2>1. /\ Listed(rows, i) /\ Listed(rows, j) /\ by' = by /\ Same(rows[i], rows[j])
        /\ i \notin moved /\ j \notin moved
    BY <1>3, <1>5 DEF RowsKept, Same
  <2> QED BY <2>1, <1>4
<1>6. CASE RowInserted(r)
  <2> DEFINE s == plan[r]
  <2>1. PICK k \in Ids \ DOMAIN rows :
          /\ by' = [by EXCEPT ![k] = r] /\ DOMAIN rows' = DOMAIN rows \cup {k}
          /\ \A m \in DOMAIN rows : rows'[m] = rows[m]
          /\ rows'[k].owner = op[r].user /\ rows'[k].name = op[r].name
    BY <1>6 DEF RowInserted
  <2>2. Inserts(r) /\ Head(s)[1] = "insert"  BY <1>6 DEF RowInserted
  <2>3. Inserting(r)  BY DEF IInv
  <2>4. s \in Seq(SyncLabels \X Fields(op[r])) /\ s # <<>>
    BY <1>2, <2>2, <2>3 DEF Inserting, Plans
  <2>5. Len(s) \in Nat /\ Len(s) # 0 /\ Head(s) = s[1]
    BY <2>4, LenProperties, EmptySeq
  <2>6. InsertAt1(s, 1)  BY <2>2, <2>5 DEF InsertAt1
  <2>7. ~LooksBefore(s, 1)  BY <2>5 DEF LooksBefore
  <2>8. Cleared(r)  BY <1>2, <2>2, <2>3, <2>6, <2>7 DEF Inserting
  <2>9. ASSUME NEW m \in DOMAIN rows, Listed(rows', m), rows'[m].owner = op[r].user,
               rows'[m].name = op[r].name, m \notin moved'
        PROVE  /\ by'[m] \in overlap[r] /\ r \in overlap[by'[m]]
               /\ by'[m] # None
    <3>1. m \in Ids /\ m # k /\ by'[m] = by[m] /\ rows'[m] = rows[m]
      BY <2>1 DEF IInv, RowsInv, Types
    <3>2. Listed(rows, m)  BY <3>1, <2>9 DEF Listed
    <3>3. by[m] \in overlap[r]  BY <3>1, <3>2, <2>8, <2>9, <1>6 DEF Cleared, RowInserted
    <3>4. by[m] \in Requests  BY <3>3 DEF IInv, Types
    <3> QED BY <3>1, <3>3, <3>4, LifecycleConstants DEF IInv, Mutual
  <2>10. r # None  BY LifecycleConstants
  <2>11. by'[k] = r  BY <2>1 DEF IInv, Types
  <2>12. CASE i = k
    BY <2>12, <2>1, <2>9, <2>10, <2>11, <1>3
  <2>13. CASE j = k
    BY <2>13, <2>1, <2>9, <2>10, <2>11, <1>3
  <2>14. CASE i # k /\ j # k
    <3>1. /\ i \in DOMAIN rows /\ rows'[i] = rows[i] /\ by'[i] = by[i]
          /\ j \in DOMAIN rows /\ rows'[j] = rows[j] /\ by'[j] = by[j]
      BY <2>1, <2>14, <1>3 DEF IInv, Types
    <3>2. Listed(rows, i) /\ Listed(rows, j)  BY <3>1 DEF Listed
    <3>3. Same(rows[i], rows[j])  BY <3>1 DEF Same
    <3>4. i \notin moved /\ j \notin moved  BY <1>6 DEF RowInserted
    <3> QED BY <3>1, <3>2, <3>3, <3>4, <1>4
  <2> QED BY <2>12, <2>13, <2>14
<1> QED BY <1>1, <1>5, <1>6

\* A request that begins has no rows, knows all that run and is known by them.
LEMMA LoadKeeps ==
  ASSUME IInv, NEW r \in Requests, Load(r)
  PROVE  IInv'
<1> DEFINE now == {q \in Requests \ {r} : pc[q] = "run"}
<1>1. /\ pc[r] = "idle" /\ overlap[r] = {} /\ \A i \in Ids : by[i] # r
      /\ op' = op /\ rows' = rows /\ by' = by /\ moved' = moved
  BY DEF Load, IInv, Unborn, resources
<1>2. /\ seen' = [seen EXCEPT ![r] = rows]
      /\ overlap' = [q \in Requests |-> IF q = r THEN now
                                        ELSE IF q \in now THEN overlap[q] \cup {r}
                                        ELSE overlap[q]]
  BY DEF Load, Overlaps
<1>3. /\ pc' \in [Requests -> {"idle", "run"} \cup Ended] /\ pc'[r] # "idle"
      /\ \A q \in Requests : q # r => pc'[q] = pc[q]
      /\ plan' = [q \in Requests |-> plan'[q]]
      /\ \A q \in Requests : q # r => plan'[q] = plan[q]
  BY DEF Load, IInv, Types, Ended
<1>4. pc'[r] = "run" => plan'[r] # <<>> /\ plan'[r] = PlanOf(op[r], rows)
  BY DEF Load, IInv, Types
<1>5. /\ overlap'[r] = now
      /\ \A q \in Requests : /\ q \in now => overlap'[q] = overlap[q] \cup {r}
                             /\ q \notin now /\ q # r => overlap'[q] = overlap[q]
                             /\ q # r => overlap[q] \subseteq overlap'[q]
  BY <1>2
<1>6. \A q \in Requests : overlap[q] \subseteq overlap'[q]
  BY <1>1, <1>5
<1>7. Types'
  <2>1. overlap' \in [Requests -> SUBSET Requests]
    BY <1>2 DEF IInv, Types
  <2>2. seen' = [q \in Requests |-> seen'[q]]
    BY <1>2 DEF IInv, Types
  <2> QED BY <2>1, <2>2, <1>1, <1>3 DEF IInv, Types
<1>8. RowsInv'
  BY <1>1 DEF IInv, RowsInv
<1>9. Mutual'
  <2> SUFFICES ASSUME NEW a \in Requests, NEW q \in Requests
               PROVE  /\ q \in overlap'[a] => a \in overlap'[q]
                      /\ q # a /\ pc'[q] = "run" /\ pc'[a] = "run" => q \in overlap'[a]
    BY DEF Mutual
  <2>1. /\ q \in overlap[a] => a \in overlap[q]
        /\ a \in overlap[q] => q \in overlap[a]
        /\ q # a /\ pc[q] = "run" /\ pc[a] = "run" => q \in overlap[a]
    BY DEF IInv, Mutual
  <2>2. CASE a = r
    BY <2>2, <1>3, <1>5
  <2>3. CASE a # r /\ q = r
    BY <2>1, <2>3, <1>1, <1>3, <1>5
  <2>4. CASE a # r /\ q # r
    BY <2>1, <2>4, <1>3, <1>5
  <2> QED BY <2>2, <2>3, <2>4
<1>10. \A q \in Requests : Unborn(q)'
  BY <1>1, <1>3, <1>5 DEF IInv, Unborn
<1>11. ASSUME NEW q \in Requests PROVE SinceLoad(q)'
  <2>1. CASE q = r
    <3>1. seen'[r] = rows  BY <1>2 DEF IInv, Types
    <3> QED BY <2>1, <3>1, <1>1 DEF SinceLoad, Same
  <2>2. CASE q # r
    <3>1. seen'[q] = seen[q]  BY <2>2, <1>2 DEF IInv, Types
    <3>2. SinceLoad(q)  BY DEF IInv
    <3> QED BY <2>2, <3>1, <3>2, <1>1, <1>3, <1>6 DEF SinceLoad, Listed
  <2> QED BY <2>1, <2>2
<1>12. ASSUME NEW q \in Requests PROVE Inserting(q)'
  <2>1. CASE q = r
    <3> SUFFICES ASSUME pc'[r] = "run", Inserts(r)
                 PROVE  /\ plan'[r] \in Plans(op[r]) /\ plan'[r] # <<>>
                        /\ InsertsOnce(plan'[r]) /\ NamesArgument(plan'[r], op[r].name)
                        /\ \A k : InsertAt1(plan'[r], k) =>
                             /\ \A i \in Ids : by'[i] # r
                             /\ LooksBefore(plan'[r], k) \/ Cleared(r)'
      BY <2>1, <1>1 DEF Inserting, Inserts, Kind
    <3>1. CASE op[r].kind = "sync"
      <4>1. plan'[r] = SyncPlan(op[r])  BY <3>1, <1>4 DEF PlanOf
      <4> QED BY <4>1, <1>1, <1>4, SyncPlanShape
    <3>2. CASE op[r].kind = "record"
      <4>1. plan'[r] = << <<"namefree", op[r].name>>, <<"insert", None>> >>
        BY <3>2, <1>4 DEF PlanOf
      <4> QED BY <4>1, <1>1, <1>4, RecordPlanShape
    <3> QED BY <3>1, <3>2 DEF Inserts, Kind
  <2>2. CASE q # r
    <3>1. Cleared(q) => Cleared(q)'
      BY <1>1, <1>6 DEF Cleared, Listed
    <3>2. Inserting(q)  BY DEF IInv
    <3> QED BY <2>2, <3>1, <3>2, <1>1, <1>3 DEF Inserting, Inserts, Kind
  <2> QED BY <2>1, <2>2
<1>13. NamesUniqueSerially'
  <2> SUFFICES ASSUME NEW i \in Ids, NEW j \in Ids, i # j, Listed(rows, i), Listed(rows, j),
                      rows[i].owner = rows[j].owner, rows[i].name = rows[j].name,
                      i \notin moved, j \notin moved
               PROVE  by[i] # None /\ by[j] # None /\ by[j] \in overlap'[by[i]]
    BY <1>1 DEF NamesUniqueSerially, Listed
  <2>1. by[i] # None /\ by[j] # None /\ by[j] \in overlap[by[i]]
    BY DEF IInv, NamesUniqueSerially
  <2>2. by[i] \in Requests  BY <2>1 DEF IInv, Types
  <2> QED BY <2>1, <2>2, <1>6
<1> QED BY <1>7, <1>8, <1>9, <1>10, <1>11, <1>12, <1>13 DEF IInv

\* Nothing is in flight at first, and the installed rows have their names apart.
LEMMA InitInv == Init => IInv
<1> SUFFICES ASSUME Init PROVE IInv
  OBVIOUS
<1>1. Types
  BY DEF Init, Types, Ended
<1>2. RowsInv
  BY LifecycleConstants DEF Init, RowsInv, IsTable, IsRow
<1>3. Mutual
  BY DEF Init, Mutual
<1>4. \A r \in Requests : Unborn(r) /\ SinceLoad(r) /\ Inserting(r)
  BY LifecycleConstants DEF Init, Unborn, SinceLoad, Inserting
<1>5. NamesUniqueSerially
  BY LifecycleConstants DEF Init, NamesUniqueSerially, Listed
<1> QED BY <1>1, <1>2, <1>3, <1>4, <1>5 DEF IInv

\* The invariant is inductive.
LEMMA NextKeeps == IInv /\ [Next]_vars => IInv'
<1> SUFFICES ASSUME IInv, [Next]_vars PROVE IInv'
  OBVIOUS
<1>1. ASSUME NEW r \in Requests, Work(r) PROVE IInv'
  <2>1. \A q \in Requests : SinceLoad(q)' /\ Inserting(q)'
    BY <1>1, WorkKeepsSince, WorkKeepsInserting
  <2> QED BY <1>1, <2>1, WorkKeepsTypes, WorkKeepsNames DEF IInv
<1>2. ASSUME NEW r \in Requests, Load(r) PROVE IInv'
  BY <1>2, LoadKeeps
<1>3. CASE UNCHANGED vars
  BY <1>3 DEF vars, resources, IInv, Types, RowsInv, IsTable, IsRow, Mutual, Unborn, SinceLoad,
              Inserting, Inserts, Kind, Cleared, Same, Listed, NamesUniqueSerially
<1> QED BY <1>1, <1>2, <1>3 DEF Next, Work

\* The invariant holds in every state that the handlers can reach.
THEOREM Invariance == Spec => []IInv
<1> QED BY InitInv, NextKeeps, PTL DEF Spec

\* Two listed projects of one owner have one name only if the requests that
\* inserted them were in flight together (project_sync.py, project_create.py), or
\* one of them was transferred (transfer_owner of crud/pspm_project.py).
THEOREM NamesStayApart == Spec => []NamesUniqueSerially
<1>1. IInv => NamesUniqueSerially  BY DEF IInv
<1> QED BY <1>1, Invariance, PTL

-----------------------------------------------------------------------------
(* Deletion.                                                               *)

\* No step lists a row again that is not listed.
LEMMA NothingComesBack ==
  IInv /\ [Next]_vars => [\A i \in DOMAIN rows : ~Listed(rows, i) => ~Listed(rows', i)]_rows
<1> SUFFICES ASSUME IInv, [Next]_vars, rows' # rows, NEW i \in DOMAIN rows, Listed(rows', i)
             PROVE  Listed(rows, i)
  OBVIOUS
<1>1. PICK r \in Requests : Work(r)
  BY DEF Next, Work, Load, vars, resources
<1>2. RowsKept \/ RowInserted(r)
  BY <1>1, WorkRows DEF IInv
<1>3. CASE RowsKept  BY <1>3 DEF RowsKept
<1>4. CASE RowInserted(r)  BY <1>4 DEF RowInserted, Listed
<1> QED BY <1>2, <1>3, <1>4

\* A status written by a start or stop that loaded its row before the deletion, and
\* a setting that ends after it, do not bring the project back.
THEOREM NoResurrection == Spec => DeletedStaysDeleted
<1> QED BY Invariance, NothingComesBack, PTL DEF Spec, DeletedStaysDeleted
=============================================================================
