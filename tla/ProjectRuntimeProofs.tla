------------------------- MODULE ProjectRuntimeProofs -------------------------
(***************************************************************************)
(* Proofs about ProjectRuntime: for any projects, requests, pids and ports *)
(* a record identifies a process of its project or of its port, a stop     *)
(* signals no other, and the files and the status agree between requests.  *)
(***************************************************************************)
EXTENDS ProjectRuntime, TLAPS

USE DEF row

\* Process v may stand in a record of project p with this port.
Belongs(p, v, port) == v.cwd = p \/ (port # NoPort /\ v.port = port) \/ Named(p, v)

\* The start times of living processes have passed on the clock.
Past == \A i \in Pids : Alive(i) => procs[i].start <= starts

\* Each kind of request has its own positions.
Place(h) ==
  /\ op[h].at \in {"check", "launch", "detect"} => op[h].kind = "start"
  /\ op[h].at = "ready" => op[h].kind = "finalize"
  /\ op[h].at = "probe" => op[h].kind = "watch"
  /\ op[h].at \in {"stop", "kill"} => op[h].kind = "stop"
  /\ op[h].at \in {"stamp", "writePid", "writeMeta"} => op[h].kind \notin {"stop", "inspect"}
  /\ op[h].at = "look" => op[h].kind = "inspect"
  /\ op[h].at \in {"idle", "look"} /\ op[h].kind = "inspect" => op[h].port = NoPort
  /\ op[h].at \in {"idle", "ready", "stamp"} /\ op[h].kind = "finalize" => op[h].start = 0

\* A handler waits for its script until it gives up, which disturbs the project.
Waits(h) == op[h].at = "idle" \/ op[h].proj \notin disturbed
              => op[h].waiting \/ op[h].at = "done"

\* The process whose pid a script holds is the one that it found.
Held(h) ==
  /\ op[h].at \in {"ready", "stamp", "writePid", "writeMeta"} => op[h].pid \in Pids
  /\ op[h].at \in {"stamp", "writePid", "writeMeta"} /\ Alive(op[h].pid) =>
       /\ \/ Belongs(op[h].proj, procs[op[h].pid], op[h].port)
          \/ op[h].at = "stamp" /\ op[h].kind = "finalize"
       /\ op[h].kind = "start" => procs[op[h].pid].cwd = op[h].proj
  /\ op[h].at \in {"writePid", "writeMeta"} => op[h].start \in 1 .. starts
  /\ op[h].at = "kill" /\ op[h].proj \notin disturbed /\ Alive(op[h].pid) =>
       Belongs(op[h].proj, procs[op[h].pid], op[h].port)
  /\ op[h].kind = "inspect" /\ op[h].at = "update" /\ op[h].port # NoPort
       /\ op[h].proj \notin disturbed /\ Alive(op[h].pid) =>
       Belongs(op[h].proj, procs[op[h].pid], op[h].port)

\* Only a stop that came to its first signal has victims, and they are fit.
Struck(h) ==
  /\ victims[h] # {} => op[h].kind = "stop" /\ op[h].at \in {"kill", "update", "done"}
  /\ op[h].proj \notin disturbed =>
       \A v \in victims[h] : Belongs(op[h].proj, v, op[h].port)

OpInv(h) == Place(h) /\ Waits(h) /\ Held(h) /\ Struck(h)

\* Two requests at work on one project disturb it.
OneAtWork ==
  \A h, g \in Ops :
    /\ h # g /\ op[h].proj = op[g].proj
    /\ op[h].at \in Running /\ op[g].at \in Running
    => op[h].proj \in disturbed

\* A record that matches a living process is about a process of the project.
MetaTrue(p) ==
  meta[p] # NoMeta =>
    /\ meta[p].start <= starts
    /\ Alive(meta[p].pid) /\ procs[meta[p].pid].start = meta[p].start =>
         /\ Belongs(p, procs[meta[p].pid], meta[p].port)
         /\ Background(p) => procs[meta[p].pid].cwd = p

\* The request of project p that is at one of the positions.
SomeAt(p, set) == \E h \in Ops : op[h].proj = p /\ op[h].at \in set

\* Files and status of an undisturbed project, with a request between its writes.
Orderly(p) ==
  p \notin disturbed =>
    /\ \A h \in Ops : op[h].proj = p =>
         /\ op[h].at = "writeMeta" => pidFile[p] = op[h].pid
         /\ op[h].at = "update" /\ op[h].kind = "stop" => pidFile[p] = NoPid
    /\ pidFile[p] # NoPid =>
         /\ (meta[p] # NoMeta /\ meta[p].pid = pidFile[p]) \/ SomeAt(p, {"writeMeta"})
         /\ \/ status[p] = 1 \/ p \in hungUp
            \/ SomeAt(p, {"writeMeta", "update"}) \/ Inspected(p)

ProjInv(p) == MetaTrue(p) /\ Orderly(p)

IInv ==
  /\ TypeOK
  /\ Past
  /\ OneAtWork
  /\ \A h \in Ops : OpInv(h)
  /\ \A p \in Projects : ProjInv(p)

-----------------------------------------------------------------------------
(* How a step looks from outside.                                          *)

\* Processes end, open a port, or are started under a pid that no script holds.
ProcsGo ==
  /\ starts <= starts'
  /\ \A j \in Pids :
       \/ procs'[j] = procs[j]
       \/ procs'[j] = Dead
       \/ /\ procs[j] # Dead /\ procs[j].port = NoPort
          /\ procs'[j].cwd = procs[j].cwd /\ procs'[j].start = procs[j].start
       \/ Free(j) /\ procs'[j].start = starts + 1 /\ starts' = starts + 1

\* What a finalize was told to record stays named.
NamesStay ==
  \A f \in Ops :
    /\ op'[f].kind = op[f].kind /\ op'[f].proj = op[f].proj
    /\ op[f].kind = "finalize" /\ op[f].start # 0 => op'[f].start = op[f].start

\* Request h moves on its own and touches only its own project.
StepOf(h) ==
  /\ op'[h].kind = op[h].kind /\ op'[h].proj = op[h].proj /\ op'[h].at # "idle"
  /\ \A q \in Ops \ {h} : op'[q] = op[q] /\ victims'[q] = victims[q]
  /\ \A p \in Projects \ {op[h].proj} :
       /\ pidFile'[p] = pidFile[p] /\ meta'[p] = meta[p] /\ status'[p] = status[p]
       /\ p \in hungUp => p \in hungUp'
  /\ disturbed \subseteq disturbed'
  /\ op[h].kind = "finalize" /\ op[h].start # 0 => op'[h].start = op[h].start
  /\ op'[h].at \in Running =>
       op[h].at \in Running \/ Active(op[h].proj) = {} \/ op[h].proj \in disturbed'

\* Request h has become another record of its type.
LEMMA OpBecomes ==
  ASSUME TypeOK, NEW h \in Ops, NEW r \in Request, op' = [op EXCEPT ![h] = r]
  PROVE  /\ op' \in [Ops -> Request] /\ op'[h] = r
         /\ \A q \in Ops \ {h} : op'[q] = op[q]
BY DEF TypeOK

LEMMA GoToShape ==
  ASSUME TypeOK, NEW h \in Ops, NEW label \in Running \cup {"idle", "done"}, GoTo(h, label)
  PROVE  /\ op' \in [Ops -> Request]
         /\ op'[h].at = label
         /\ op'[h].kind = op[h].kind /\ op'[h].proj = op[h].proj /\ op'[h].pid = op[h].pid
         /\ op'[h].port = op[h].port /\ op'[h].start = op[h].start
         /\ op'[h].waiting = op[h].waiting
         /\ \A q \in Ops \ {h} : op'[q] = op[q]
<1> DEFINE r == [op[h] EXCEPT !.at = label]
<1>1. op[h] \in Request
  BY DEF TypeOK
<1>2. r \in Request
  BY <1>1 DEF Request
<1>3. op' = [op EXCEPT ![h] = r]
  BY DEF GoTo
<1>4. /\ r.at = label /\ r.kind = op[h].kind /\ r.proj = op[h].proj /\ r.pid = op[h].pid
      /\ r.port = op[h].port /\ r.start = op[h].start /\ r.waiting = op[h].waiting
  BY <1>1 DEF Request
<1> HIDE DEF r
<1> QED
  BY <1>2, <1>3, <1>4, OpBecomes

LEMMA FoundShape ==
  ASSUME TypeOK, NEW h \in Ops, NEW i \in Pids, NEW port \in Ports \cup {NoPort},
         Found(h, i, port)
  PROVE  /\ op' \in [Ops -> Request]
         /\ op'[h].at = "stamp"
         /\ op'[h].kind = op[h].kind /\ op'[h].proj = op[h].proj /\ op'[h].pid = i
         /\ op'[h].port = port /\ op'[h].start = op[h].start
         /\ op'[h].waiting = op[h].waiting
         /\ \A q \in Ops \ {h} : op'[q] = op[q]
<1> DEFINE r == [op[h] EXCEPT !.at = "stamp", !.pid = i, !.port = port]
<1>1. op[h] \in Request
  BY DEF TypeOK
<1>2. r \in Request
  BY <1>1 DEF Request, Running
<1>3. op' = [op EXCEPT ![h] = r]
  BY DEF Found
<1>4. /\ r.at = "stamp" /\ r.kind = op[h].kind /\ r.proj = op[h].proj /\ r.pid = i
      /\ r.port = port /\ r.start = op[h].start /\ r.waiting = op[h].waiting
  BY <1>1 DEF Request
<1> HIDE DEF r
<1> QED
  BY <1>2, <1>3, <1>4, OpBecomes

LEMMA PastKept ==
  ASSUME TypeOK, Past, ProcsGo, starts' \in Nat
  PROVE  Past'
BY DEF Past, ProcsGo, TypeOK, Alive, Free, Process

LEMMA HeldKept ==
  ASSUME TypeOK, ProcsGo, NamesStay, disturbed \subseteq disturbed', starts' \in Nat,
         NEW h \in Ops, Held(h), op'[h] = op[h]
  PROVE  Held(h)'
<1> DEFINE i == op[h].pid
<1>1. op[h].at \in {"stamp", "writePid", "writeMeta", "kill", "update"} => ~Free(i)
  BY DEF Free, Running
<1>2. ASSUME op[h].at \in {"stamp", "writePid", "writeMeta", "kill", "update"}, Alive(i)'
      PROVE  Alive(i) /\ i \in Pids
  BY <1>1, <1>2 DEF ProcsGo, Alive
<1>3. starts \in Nat /\ starts <= starts'
  BY RuntimeConstants DEF TypeOK, ProcsGo
<1>4. op[h].at \in {"writePid", "writeMeta"} => op[h].start \in 1 .. starts'
  BY <1>3 DEF Held
<1>5. ASSUME op[h].at \in {"stamp", "writePid", "writeMeta", "kill", "update"}, Alive(i)',
             NEW p, NEW port, Belongs(p, procs[i], port)
      PROVE  procs'[i].cwd = procs[i].cwd /\ Belongs(p, procs[i], port)'
  <2>1. PICK j \in Pids : j = i /\ Alive(j) /\ ~Free(j) /\ procs'[j] # Dead
    BY <1>1, <1>2, <1>5 DEF Alive
  <2>2. /\ procs'[j].cwd = procs[j].cwd /\ procs'[j].start = procs[j].start
        /\ procs[j].port # NoPort => procs'[j].port = procs[j].port
    BY <2>1 DEF ProcsGo, Alive
  <2>3. \/ procs'[j].cwd = p \/ (port # NoPort /\ procs'[j].port = port)
        \/ \E f \in Ops : /\ op'[f].kind = "finalize" /\ op'[f].proj = p
                          /\ op'[f].start # 0 /\ op'[f].start = procs'[j].start
    BY <1>5, <2>1, <2>2 DEF Belongs, Named, NamesStay
  <2> QED BY <2>1, <2>2, <2>3 DEF Belongs, Named
<1>6. ASSUME op[h].at \in {"stamp", "writePid", "writeMeta", "kill", "update"}, Alive(i)'
      PROVE  procs'[i].cwd = procs[i].cwd
  BY <1>1, <1>2, <1>6 DEF ProcsGo, Alive
<1> QED
  BY <1>2, <1>4, <1>5, <1>6 DEF Held

LEMMA StruckKept ==
  ASSUME NamesStay, NEW h \in Ops, Struck(h), victims'[h] = victims[h],
         op'[h].port = op[h].port \/ victims[h] = {}, disturbed \subseteq disturbed',
         victims[h] # {} => op'[h].at \in {"kill", "update", "done"}
  PROVE  Struck(h)'
<1>1. \A v : Named(op[h].proj, v) =>
        \E f \in Ops : /\ op'[f].kind = "finalize" /\ op'[f].proj = op[h].proj
                      /\ op'[f].start # 0 /\ op'[f].start = v.start
  BY DEF Named, NamesStay
<1>2. op'[h].kind = op[h].kind /\ op'[h].proj = op[h].proj
  BY DEF NamesStay
<1> QED BY <1>1, <1>2 DEF Struck, Belongs, Named

LEMMA OpInvKept ==
  ASSUME TypeOK, ProcsGo, NamesStay, disturbed \subseteq disturbed', starts' \in Nat,
         NEW h \in Ops, OpInv(h), op'[h] = op[h], victims'[h] = victims[h]
  PROVE  OpInv(h)'
<1>1. Held(h)'
  BY HeldKept DEF OpInv
<1>2. Place(h)' /\ Waits(h)'
  BY DEF OpInv, Place, Waits
<1>3. Struck(h)'
  BY StruckKept DEF OpInv, Struck
<1> QED
  BY <1>1, <1>2, <1>3 DEF OpInv

LEMMA MetaTrueKept ==
  ASSUME TypeOK, ProcsGo, NamesStay, starts' \in Nat, NEW p \in Projects, MetaTrue(p),
         meta'[p] = meta[p]
  PROVE  MetaTrue(p)'
<1> SUFFICES ASSUME meta[p] # NoMeta PROVE MetaTrue(p)'
  BY DEF MetaTrue
<1> DEFINE m == meta[p]
<1>1. m \in Meta /\ m.pid \in Pids /\ m.start \in Nat
  BY DEF TypeOK, Meta
<1>2. starts \in Nat /\ starts <= starts' /\ m.start <= starts
  BY DEF TypeOK, ProcsGo, MetaTrue
<1>3. Background(p)' <=> Background(p)
  BY DEF Background, NamesStay
<1>4. ASSUME Alive(m.pid)', procs'[m.pid].start = m.start
      PROVE  /\ Alive(m.pid) /\ procs[m.pid].start = m.start /\ ~Free(m.pid)
             /\ procs'[m.pid].cwd = procs[m.pid].cwd
  BY <1>1, <1>2, <1>4 DEF ProcsGo, Alive, Free
<1>5. m.start <= starts'
  BY <1>1, <1>2
<1>6. ASSUME Alive(m.pid)', procs'[m.pid].start = m.start
      PROVE  /\ Belongs(p, procs[meta[p].pid], meta[p].port)'
             /\ Background(p) => procs'[m.pid].cwd = p
  <2>1. Belongs(p, procs[m.pid], m.port) /\ (Background(p) => procs[m.pid].cwd = p)
    BY <1>4, <1>6 DEF MetaTrue
  <2>2. PICK j \in Pids : j = m.pid
    BY <1>1
  <2>3. /\ procs'[j].cwd = procs[j].cwd /\ procs'[j].start = procs[j].start
        /\ procs[j].port # NoPort => procs'[j].port = procs[j].port
    BY <1>4, <1>6, <2>2 DEF ProcsGo, Alive
  <2>4. \/ procs'[j].cwd = p \/ (m.port # NoPort /\ procs'[j].port = m.port)
        \/ \E f \in Ops : /\ op'[f].kind = "finalize" /\ op'[f].proj = p
                          /\ op'[f].start # 0 /\ op'[f].start = procs'[j].start
    BY <2>1, <2>2, <2>3 DEF Belongs, Named, NamesStay
  <2> QED BY <2>1, <2>2, <2>3, <2>4 DEF Belongs, Named
<1> QED
  BY <1>3, <1>5, <1>6 DEF MetaTrue

LEMMA OrderlyKept ==
  ASSUME NEW p \in Projects, Orderly(p), disturbed \subseteq disturbed',
         pidFile'[p] = pidFile[p], meta'[p] = meta[p],
         status'[p] = status[p] \/ p \in hungUp', p \in hungUp => p \in hungUp',
         \A h \in Ops : op'[h].proj = op[h].proj,
         \A h \in Ops : op[h].proj = p => op'[h] = op[h]
  PROVE  Orderly(p)'
<1> SUFFICES ASSUME p \notin disturbed' PROVE Orderly(p)'
  BY DEF Orderly
<1>1. \A set : SomeAt(p, set)' <=> SomeAt(p, set)
  BY DEF SomeAt
<1>2. Inspected(p) => Inspected(p)'
  BY DEF Inspected
<1> QED
  BY <1>1, <1>2 DEF Orderly, SomeAt

LEMMA StepNames ==
  ASSUME NEW h \in Ops, StepOf(h)
  PROVE  NamesStay
BY DEF StepOf, NamesStay

\* A step of one request keeps the invariant if it keeps its own part of it.
LEMMA StepKeeps ==
  ASSUME IInv, TypeOK', NEW h \in Ops, StepOf(h), ProcsGo,
         OpInv(h)', ProjInv(op[h].proj)'
  PROVE  IInv'
<1> USE DEF IInv
<1>0. NamesStay
  BY StepNames
<1>1. starts' \in Nat
  BY DEF TypeOK
<1>2. Past'
  BY <1>1, PastKept
<1>3. \A q \in Ops : OpInv(q)'
  <2> SUFFICES ASSUME NEW q \in Ops, q # h PROVE OpInv(q)'
    OBVIOUS
  <2> QED
    BY <1>1, <1>0, OpInvKept DEF StepOf
<1>4. \A q \in Ops : op'[q].kind = op[q].kind /\ op'[q].proj = op[q].proj
  BY DEF StepOf
<1>5. \A p \in Projects : ProjInv(p)'
  <2> SUFFICES ASSUME NEW p \in Projects, p # op[h].proj PROVE ProjInv(p)'
    BY DEF StepOf
  <2>1. /\ pidFile'[p] = pidFile[p] /\ meta'[p] = meta[p] /\ status'[p] = status[p]
        /\ p \in hungUp => p \in hungUp'
    BY DEF StepOf
  <2>2. MetaTrue(p)'
    BY <1>0, <1>1, <2>1, MetaTrueKept DEF ProjInv
  <2>3. \A q \in Ops : op[q].proj = p => op'[q] = op[q]
    BY DEF StepOf
  <2>4. disturbed \subseteq disturbed' /\ \A q \in Ops : op'[q].proj = op[q].proj
    BY <1>4 DEF StepOf
  <2>5. Orderly(p)'
    BY <2>1, <2>3, <2>4, OrderlyKept DEF ProjInv
  <2> QED
    BY <2>2, <2>5 DEF ProjInv
<1>6. OneAtWork'
  <2> SUFFICES ASSUME NEW g \in Ops, NEW q \in Ops, g # q, op'[g].proj = op'[q].proj,
                      op'[g].at \in Running, op'[q].at \in Running
               PROVE  op'[g].proj \in disturbed'
    BY DEF OneAtWork
  <2>1. CASE op[g].at \in Running /\ op[q].at \in Running
    BY <2>1, <1>4 DEF OneAtWork, StepOf
  <2>2. CASE op[h].at \notin Running /\ h \in {g, q}
    BY <2>2, <1>4 DEF StepOf, Active
  <2> QED
    BY <2>1, <2>2 DEF StepOf
<1> QED
  BY <1>2, <1>3, <1>5, <1>6

\* The requests of an undisturbed project wait for the one at work.
LEMMA AtWorkAlone ==
  ASSUME OneAtWork, NEW h \in Ops, op[h].at \in Running, op[h].proj \notin disturbed
  PROVE  \A q \in Ops : op[q].proj = op[h].proj /\ op[q].at \in Running => q = h
BY DEF OneAtWork

\* A record that is left as it is stays true in a step of a request.
LEMMA StepMeta ==
  ASSUME IInv, TypeOK', ProcsGo, NEW h \in Ops, StepOf(h),
         meta'[op[h].proj] = meta[op[h].proj]
  PROVE  MetaTrue(op[h].proj)'
<1>1. starts' \in Nat /\ op[h].proj \in Projects
  BY DEF IInv, TypeOK, Request
<1>2. op'[h].proj = op[h].proj
  BY DEF StepOf
<1> QED
  BY <1>1, <1>2, StepNames, MetaTrueKept DEF IInv, ProjInv

\* What the invariant says of the files when the one request at work has not
\* come to its writes.
LEMMA BeforeWrites ==
  ASSUME IInv, NEW h \in Ops, op[h].proj \notin disturbed,
         op[h].at \in Running \ {"writeMeta", "update"}
  PROVE  LET p == op[h].proj IN
           pidFile[p] # NoPid =>
             /\ meta[p] # NoMeta /\ meta[p].pid = pidFile[p]
             /\ status[p] = 1 \/ Inspected(p) \/ p \in hungUp
<1>1. op[h].proj \in Projects
  BY DEF IInv, TypeOK, Request
<1>2. \A q \in Ops : op[q].proj = op[h].proj => op[q].at \notin {"writeMeta", "update"}
  BY AtWorkAlone DEF IInv, Running
<1>3. Orderly(op[h].proj)
  BY <1>1 DEF IInv, ProjInv
<1> QED
  BY <1>2, <1>3 DEF Orderly, SomeAt

\* When the one request at work leaves files and status, or ends, they must agree.
LEMMA StepOrderly ==
  ASSUME IInv, NEW h \in Ops, StepOf(h), op[h].proj \notin disturbed',
         op[h].at \in Running,
         LET p == op[h].proj IN
           /\ op'[h].at = "writeMeta" => pidFile'[p] = op'[h].pid
           /\ op'[h].at = "update" /\ op[h].kind = "stop" => pidFile'[p] = NoPid
           /\ pidFile'[p] # NoPid =>
                /\ (meta'[p] # NoMeta /\ meta'[p].pid = pidFile'[p])
                     \/ op'[h].at = "writeMeta"
                /\ \/ status'[p] = 1 \/ op'[h].at \in {"writeMeta", "update"}
                   \/ op[h].kind = "inspect"
                   \/ /\ op[h].at \notin {"writeMeta", "update"}
                      /\ pidFile'[p] = pidFile[p] /\ status'[p] = status[p]
                      /\ hungUp' = hungUp
  PROVE  Orderly(op[h].proj)'
<1> DEFINE p == op[h].proj
<1>1. \A q \in Ops \ {h} : op[q].proj = p => op'[q].at \notin Running
  BY AtWorkAlone DEF IInv, StepOf
<1>2. \A q \in Ops \ {h} : op'[q].proj = p => op'[q].at \notin {"writeMeta", "update"}
  BY <1>1 DEF StepOf, Running
<1>3. \A set : op'[h].at \in set => SomeAt(p, set)'
  BY DEF SomeAt, StepOf
<1>4. Inspected(p) \/ op[h].kind = "inspect" => Inspected(p)'
  BY DEF StepOf, Inspected
<1>5. op[h].at \notin {"writeMeta", "update"} /\ pidFile[p] # NoPid =>
        status[p] = 1 \/ Inspected(p) \/ p \in hungUp
  BY BeforeWrites DEF StepOf
<1>6. pidFile'[p] # NoPid =>
        \/ status'[p] = 1 \/ op'[h].at \in {"writeMeta", "update"}
        \/ Inspected(p)' \/ p \in hungUp'
  BY <1>4, <1>5
<1> QED
  BY <1>2, <1>3, <1>6 DEF Orderly, StepOf

-----------------------------------------------------------------------------
(* The invariant holds at first, and the processes of the server keep it.  *)

LEMMA InitInv == Init => IInv
<1> SUFFICES ASSUME Init PROVE IInv
  OBVIOUS
<1>1. PICK kind \in [Ops -> OpKinds], proj \in [Ops -> Projects] :
        op = [h \in Ops |->
                [kind |-> kind[h], proj |-> proj[h], at |-> "idle", pid |-> NoPid,
                 port |-> NoPort, start |-> 0, waiting |-> TRUE]]
  BY DEF Init
<1>2. op \in [Ops -> Request] /\ \A h \in Ops : op[h].at = "idle" /\ op[h].waiting
  <2>1. 0 \in 0 .. MaxStarts
    BY RuntimeConstants
  <2> QED
    BY <1>1, <2>1 DEF Request
<1>3. TypeOK
  BY <1>2, RuntimeConstants DEF Init, TypeOK
<1>4. Past
  BY DEF Init, Past, Alive
<1>5. OneAtWork
  BY <1>2 DEF OneAtWork, Running
<1>6. ASSUME NEW h \in Ops PROVE OpInv(h)
  BY <1>2 DEF Init, OpInv, Place, Waits, Held, Struck
<1>7. ASSUME NEW p \in Projects PROVE ProjInv(p)
  BY <1>2 DEF Init, ProjInv, MetaTrue, Orderly
<1> QED
  BY <1>3, <1>4, <1>5, <1>6, <1>7 DEF IInv

\* A process is started, opens its port or ends, under every record and script.
LEMMA ProcessKeeps ==
  ASSUME IInv, NEW i \in Pids, Spawn(i) \/ Listen(i) \/ Exit(i)
  PROVE  IInv'
<1> USE DEF IInv
<1>1. UNCHANGED <<pidFile, meta, status, hungUp, op, victims, disturbed>> /\ NamesStay
  BY DEF Spawn, Listen, Exit, files, NamesStay
<1>2. /\ procs' \in [Pids -> Process \cup {Dead}]
      /\ starts' \in 0 .. MaxStarts
      /\ ProcsGo
  <2>1. CASE Spawn(i)
    <3>1. PICK dir \in Projects \cup {Stranger}, port \in Ports \cup {NoPort} :
            Fork(i, dir, port)
      BY <2>1 DEF Spawn
    <3>2. starts' = starts + 1 /\ starts' \in 1 .. MaxStarts /\ Free(i)
      BY <3>1, RuntimeConstants DEF Fork, TypeOK
    <3>3. [cwd |-> dir, port |-> port, start |-> starts + 1] \in Process
      BY <3>2 DEF Process
    <3> QED
      BY <3>1, <3>2, <3>3 DEF Fork, ProcsGo, TypeOK
  <2>2. CASE Listen(i)
    <3>1. PICK port \in Binds[procs[i].cwd] : procs' = [procs EXCEPT ![i].port = port]
      BY <2>2 DEF Listen
    <3>2. procs[i] \in Process /\ procs[i].cwd \in Projects /\ procs[i].port = NoPort
      BY <2>2 DEF Listen, Alive, TypeOK
    <3>3. port \in Ports
      BY <3>1, <3>2, RuntimeConstants
    <3> QED
      BY <2>2, <3>1, <3>2, <3>3 DEF Listen, ProcsGo, TypeOK, Process, Alive
  <2>3. CASE Exit(i)
    BY <2>3 DEF Exit, ProcsGo, TypeOK
  <2> QED
    BY <2>1, <2>2, <2>3
<1>3. TypeOK' /\ starts' \in Nat
  BY <1>1, <1>2 DEF TypeOK
<1>4. Past'
  BY <1>2, <1>3, PastKept
<1>5. ASSUME NEW h \in Ops PROVE OpInv(h)'
  BY <1>1, <1>2, <1>3, OpInvKept
<1>6. ASSUME NEW p \in Projects PROVE ProjInv(p)'
  <2>1. MetaTrue(p)'
    BY <1>1, <1>2, <1>3, MetaTrueKept DEF ProjInv
  <2>2. Orderly(p)'
    BY <1>1, OrderlyKept DEF ProjInv
  <2> QED
    BY <2>1, <2>2 DEF ProjInv
<1>7. OneAtWork'
  BY <1>1 DEF OneAtWork
<1> QED
  BY <1>3, <1>4, <1>5, <1>6, <1>7

-----------------------------------------------------------------------------
(* The steps of a request.                                                 *)

\* A request only moves to its end or to its update.
LEMMA MoveKeeps ==
  ASSUME IInv, NEW h \in Ops, op[h].at \in Running \ {"writeMeta", "update"},
         NEW label \in {"done", "update"}, GoTo(h, label),
         label = "update" /\ op[h].kind = "stop" => pidFile[op[h].proj] = NoPid,
         label = "done" \/ op[h].kind \in {"stop", "watch"}
           \/ (op[h].kind = "inspect" /\ op[h].port = NoPort),
         UNCHANGED <<procs, starts, files, status, hungUp, victims, disturbed>>
  PROVE  IInv'
<1> DEFINE p == op[h].proj
<1>1. /\ op' \in [Ops -> Request] /\ op'[h].at = label
      /\ op'[h].kind = op[h].kind /\ op'[h].proj = p
      /\ op'[h].port = op[h].port /\ op'[h].waiting = op[h].waiting
      /\ op'[h].start = op[h].start
      /\ \A q \in Ops \ {h} : op'[q] = op[q]
  BY GoToShape DEF IInv, Running
<1>2. TypeOK'
  BY <1>1 DEF IInv, TypeOK, files
<1>3. ProcsGo
  BY DEF IInv, TypeOK, ProcsGo
<1>4. StepOf(h)
  BY <1>1 DEF StepOf, files
<1>5. OpInv(h)'
  <2>1. OpInv(h)
    BY DEF IInv
  <2>2. Place(h)' /\ Held(h)'
    BY <1>1 DEF Place, Held
  <2>3. Waits(h)'
    BY <1>1, <2>1 DEF OpInv, Waits, Running
  <2>4. Struck(h)'
    BY <1>1, <1>4, <2>1, StepNames, StruckKept DEF OpInv, Struck
  <2> QED
    BY <2>2, <2>3, <2>4 DEF OpInv
<1>6. MetaTrue(p)'
  BY <1>2, <1>3, <1>4, StepMeta DEF files
<1>7. Orderly(p)'
  <2> SUFFICES ASSUME p \notin disturbed' PROVE Orderly(p)'
    BY <1>1 DEF Orderly
  <2>1. pidFile[p] # NoPid => meta[p] # NoMeta /\ meta[p].pid = pidFile[p]
    BY BeforeWrites
  <2> QED
    BY <1>1, <1>4, <2>1, StepOrderly DEF files, Running
<1>8. ProjInv(op[h].proj)'
  BY <1>6, <1>7 DEF ProjInv
<1> QED
  BY <1>2, <1>3, <1>4, <1>5, <1>8, StepKeeps

LEMMA BeginKeeps ==
  ASSUME IInv, NEW h \in Ops, Begin(h)
  PROVE  IInv'
<1> DEFINE p == op[h].proj
<1>0. op[h] \in Request /\ p \in Projects
  BY DEF IInv, TypeOK, Request
<1>1. /\ op' \in [Ops -> Request]
      /\ op'[h].at \in {"check", "stop", "probe", "look", "ready"}
      /\ op'[h].kind = op[h].kind /\ op'[h].proj = p
      /\ op'[h].waiting = op[h].waiting
      /\ \A q \in Ops \ {h} : op'[q] = op[q]
      /\ op'[h].at = "check" => op[h].kind = "start"
      /\ op'[h].at = "stop" => op[h].kind = "stop"
      /\ op'[h].at = "probe" => op[h].kind = "watch"
      /\ op'[h].at = "look" => op[h].kind = "inspect" /\ op'[h].port = op[h].port
      /\ op'[h].at = "ready" => op[h].kind = "finalize" /\ op'[h].pid \in Pids
      /\ op'[h].start = op[h].start
  <2>1. CASE op[h].kind = "start" /\ GoTo(h, "check")
    BY <2>1, GoToShape DEF IInv, Running
  <2>2. CASE op[h].kind = "stop" /\ GoTo(h, "stop")
    BY <2>2, GoToShape DEF IInv, Running
  <2>3. CASE op[h].kind = "watch" /\ GoTo(h, "probe")
    BY <2>3, GoToShape DEF IInv, Running
  <2>5. CASE op[h].kind = "inspect" /\ GoTo(h, "look")
    BY <2>5, GoToShape DEF IInv, Running
  <2>4. ASSUME op[h].kind = "finalize", NEW i \in Pids, NEW port \in Ports \cup {NoPort},
               op' = [op EXCEPT ![h].at = "ready", ![h].pid = i, ![h].port = port]
        PROVE  /\ op' \in [Ops -> Request]
               /\ op'[h].at = "ready" /\ op'[h].pid = i /\ op'[h].start = op[h].start
               /\ op'[h].kind = op[h].kind /\ op'[h].proj = p
               /\ op'[h].waiting = op[h].waiting
               /\ \A q \in Ops \ {h} : op'[q] = op[q]
    <3> DEFINE r == [op[h] EXCEPT !.at = "ready", !.pid = i, !.port = port]
    <3>1. r \in Request
      BY <1>0 DEF Request, Running
    <3>2. op' = [op EXCEPT ![h] = r]
      BY <2>4
    <3>3. /\ r.at = "ready" /\ r.pid = i /\ r.kind = op[h].kind /\ r.proj = p
          /\ r.waiting = op[h].waiting /\ r.start = op[h].start
      BY <1>0 DEF Request
    <3> HIDE DEF r
    <3> QED
      BY <3>1, <3>2, <3>3, OpBecomes DEF IInv
  <2> QED
    BY <2>1, <2>2, <2>3, <2>4, <2>5 DEF Begin
<1>2. TypeOK'
  BY <1>0, <1>1 DEF IInv, TypeOK, Begin, files
<1>3. ProcsGo
  <2>1. UNCHANGED <<procs, starts>>  BY DEF Begin
  <2> QED BY <2>1 DEF IInv, TypeOK, ProcsGo
<1>4. StepOf(h)
  BY <1>0, <1>1 DEF StepOf, Begin, files
<1>5. OpInv(h)'
  <2>1. OpInv(h) /\ op[h].at = "idle"
    BY DEF IInv, Begin, At
  <2>2. Place(h)'
    BY <1>1, <2>1 DEF OpInv, Place
  <2>3. Waits(h)'
    BY <1>1, <2>1 DEF OpInv, Waits
  <2>4. Struck(h)'
    BY <1>1, <2>1 DEF OpInv, Struck, Begin
  <2>5. Held(h)'
    BY <1>1 DEF Held
  <2> QED
    BY <2>2, <2>3, <2>4, <2>5 DEF OpInv
<1>6. MetaTrue(p)'
  BY <1>2, <1>3, <1>4, StepMeta DEF files, Begin
<1>7. Orderly(p)'
  <2> SUFFICES ASSUME p \notin disturbed' PROVE Orderly(p)'
    BY <1>1 DEF Orderly
  <2>1. Active(p) = {} /\ p \notin disturbed
    BY <1>0 DEF Begin
  <2>2. \A q \in Ops : op[q].proj = p => op[q].at \notin {"writeMeta", "update"}
    BY <2>1 DEF Active, Running
  <2>3. \A q \in Ops : op'[q].proj = p => op'[q].at \notin {"writeMeta", "update"}
    BY <1>1, <2>2
  <2>4. Orderly(p)
    BY <1>0 DEF IInv, ProjInv
  <2>5. Inspected(p) => Inspected(p)'
    BY <1>4 DEF StepOf, Inspected
  <2> QED
    BY <2>1, <2>2, <2>3, <2>4, <2>5, <1>1 DEF Orderly, SomeAt, Begin, files
<1>8. ProjInv(op[h].proj)'
  BY <1>1, <1>6, <1>7 DEF ProjInv
<1> QED
  BY <1>2, <1>3, <1>4, <1>5, <1>8, StepKeeps

\* A service was found: its pid is held, and what it is was just looked at.
LEMMA FoundKeeps ==
  ASSUME IInv, NEW h \in Ops, op[h].at \in {"detect", "ready", "probe"},
         NEW i \in Pids, NEW port \in Ports \cup {NoPort}, Found(h, i, port),
         Alive(i) => /\ Belongs(op[h].proj, procs[i], port) \/ op[h].kind = "finalize"
                     /\ op[h].kind = "start" => procs[i].cwd = op[h].proj,
         UNCHANGED <<procs, starts, files, status, hungUp, victims, disturbed>>
  PROVE  IInv'
<1> DEFINE p == op[h].proj
<1>1. /\ op' \in [Ops -> Request] /\ op'[h].at = "stamp"
      /\ op'[h].kind = op[h].kind /\ op'[h].proj = p
      /\ op'[h].pid = i /\ op'[h].port = port /\ op'[h].waiting = op[h].waiting
      /\ op'[h].start = op[h].start
      /\ \A q \in Ops \ {h} : op'[q] = op[q]
  BY FoundShape DEF IInv
<1>2. TypeOK'
  BY <1>1 DEF IInv, TypeOK, files
<1>3. ProcsGo
  BY DEF IInv, TypeOK, ProcsGo
<1>4. StepOf(h) /\ op[h].at \in Running \ {"writeMeta", "update"}
  BY <1>1 DEF StepOf, files, Running
<1>5. OpInv(h)'
  <2>1. OpInv(h)
    BY DEF IInv
  <2>2. Place(h)'
    BY <1>1, <2>1 DEF OpInv, Place
  <2>3. Waits(h)'
    BY <1>1, <2>1 DEF OpInv, Waits
  <2>4. victims[h] = {}
    BY <2>1 DEF OpInv, Struck
  <2>5. Struck(h)'
    BY <2>4 DEF Struck
  <2>6. Held(h)'
    <3>1. Alive(i)' => /\ Belongs(p, procs[i], port)' \/ op[h].kind = "finalize"
                       /\ op[h].kind = "start" => procs'[i].cwd = p
      BY <1>4, StepNames DEF Alive, Belongs, Named, NamesStay
    <3> QED BY <1>1, <3>1 DEF Held, Alive, Belongs, Named
  <2> QED
    BY <2>2, <2>3, <2>5, <2>6 DEF OpInv
<1>6. MetaTrue(p)'
  BY <1>2, <1>3, <1>4, StepMeta DEF files
<1>7. Orderly(p)'
  <2> SUFFICES ASSUME p \notin disturbed' PROVE Orderly(p)'
    BY <1>1 DEF Orderly
  <2>1. pidFile[p] # NoPid => meta[p] # NoMeta /\ meta[p].pid = pidFile[p]
    BY <1>4, BeforeWrites
  <2> QED
    BY <1>1, <1>4, <2>1, StepOrderly DEF files, Running
<1>8. ProjInv(op[h].proj)'
  BY <1>1, <1>6, <1>7 DEF ProjInv
<1> QED
  BY <1>2, <1>3, <1>4, <1>5, <1>8, StepKeeps

LEMMA DetectKeeps ==
  ASSUME IInv, NEW h \in Ops, Detect(h)
  PROVE  IInv'
<1> DEFINE p == op[h].proj
           onPort == Own(p) \cap Listeners(Selected[p])
           anywhere == {i \in Own(p) : procs[i].port # NoPort}
<1>1. op[h].at = "detect" /\ UNCHANGED <<procs, starts, files, status, hungUp, victims, disturbed>>
  BY DEF Detect, At
<1>2. p \in Projects /\ Selected[p] \in Ports \cup {NoPort}
  BY RuntimeConstants DEF IInv, TypeOK, Request
<1>3. ASSUME NEW i \in Own(p), NEW port \in Ports \cup {NoPort}, Found(h, i, port)
      PROVE  IInv'
  <2>1. i \in Pids /\ procs[i].cwd = p
    BY DEF Own
  <2> QED
    BY <1>1, <1>3, <2>1, FoundKeeps DEF Belongs
<1>4. ASSUME NEW i \in onPort, Found(h, i, Selected[p]) PROVE IInv'
  BY <1>2, <1>3, <1>4
<1>5. ASSUME NEW i \in anywhere,
             Found(h, i, IF Selected[p] = NoPort THEN procs[i].port ELSE Selected[p])
      PROVE  IInv'
  <2>1. i \in Own(p) /\ procs[i].port \in Ports \cup {NoPort}
    BY DEF IInv, TypeOK, Process, Own, Alive
  <2> QED
    BY <1>2, <1>3, <1>5, <2>1
<1>6. ASSUME GoTo(h, "done") PROVE IInv'
  BY <1>1, <1>6, MoveKeeps DEF Running
<1> QED
  BY <1>4, <1>5, <1>6 DEF Detect

LEMMA ProbeKeeps ==
  ASSUME IInv, NEW h \in Ops, Probe(h)
  PROVE  IInv'
<1> DEFINE p == op[h].proj
<1>1. op[h].at = "probe" /\ UNCHANGED <<procs, starts, files, status, hungUp, victims, disturbed>>
  BY DEF Probe, At
<1>2. op[h].kind # "start"
  BY <1>1 DEF IInv, OpInv, Place
<1>3. ASSUME NEW i \in Reported(p), Found(h, i, procs[i].port) PROVE IInv'
  <2>1. /\ i \in Pids /\ procs[i].port \in Ports \cup {NoPort}
        /\ procs[i].cwd = p \/ procs[i].port # NoPort
    BY DEF IInv, TypeOK, Process, Reported, Own, Listeners, Alive
  <2> QED
    BY <1>1, <1>2, <1>3, <2>1, FoundKeeps DEF Belongs
<1>4. ASSUME GoTo(h, "done") PROVE IInv'
  BY <1>1, <1>4, MoveKeeps DEF Running
<1> QED
  BY <1>3, <1>4 DEF Probe

\* A request goes on inside its script without a write to files or status.
LEMMA OnwardKeeps ==
  ASSUME IInv, NEW h \in Ops, TypeOK', ProcsGo, StepOf(h), OpInv(h)',
         op[h].at \in Running \ {"writeMeta", "update"},
         op'[h].at \notin {"writeMeta", "update"},
         UNCHANGED <<meta, status, hungUp>>,
         pidFile'[op[h].proj] \in {pidFile[op[h].proj], NoPid}
  PROVE  IInv'
<1> DEFINE p == op[h].proj
<1>1. MetaTrue(p)'
  BY StepMeta
<1>2. Orderly(p)'
  <2> SUFFICES ASSUME p \notin disturbed' PROVE Orderly(p)'
    BY DEF Orderly, StepOf
  <2>1. p \notin disturbed
    BY DEF StepOf
  <2>2. pidFile[p] # NoPid => meta[p] # NoMeta /\ meta[p].pid = pidFile[p]
    BY <2>1, BeforeWrites
  <2> QED
    BY <2>2, StepOrderly DEF Running
<1>3. ProjInv(op[h].proj)'
  BY <1>1, <1>2 DEF ProjInv, StepOf
<1> QED
  BY <1>3, StepKeeps

LEMMA StartCheckKeeps ==
  ASSUME IInv, NEW h \in Ops, StartCheck(h)
  PROVE  IInv'
<1> DEFINE p == op[h].proj
<1>1. op[h].at = "check" /\ UNCHANGED <<procs, starts, meta, status, hungUp, victims, disturbed>>
  BY DEF StartCheck, At
<1>2. CASE GoTo(h, "done") /\ UNCHANGED pidFile
  BY <1>1, <1>2, MoveKeeps DEF Running, files
<1>3. CASE GoTo(h, "launch") /\ pidFile' = [pidFile EXCEPT ![p] = NoPid]
  <2>1. /\ op' \in [Ops -> Request] /\ op'[h].at = "launch"
        /\ op'[h].kind = op[h].kind /\ op'[h].proj = p /\ op'[h].waiting = op[h].waiting
        /\ op'[h].start = op[h].start
        /\ \A q \in Ops \ {h} : op'[q] = op[q]
    BY <1>3, GoToShape DEF IInv, Running
  <2>2. pidFile' \in [Projects -> Pids \cup {NoPid}] /\ pidFile'[p] = NoPid
        /\ \A x \in Projects \ {p} : pidFile'[x] = pidFile[x]
    BY <1>3 DEF IInv, TypeOK, Request
  <2>3. TypeOK'
    BY <1>1, <2>1, <2>2 DEF IInv, TypeOK
  <2>4. ProcsGo
    BY <1>1 DEF IInv, TypeOK, ProcsGo
  <2>5. StepOf(h)
    BY <1>1, <2>1, <2>2 DEF StepOf, Running
  <2>6. OpInv(h)'
    BY <1>1, <2>1 DEF IInv, OpInv, Place, Waits, Held, Struck
  <2> QED
    BY <1>1, <2>1, <2>2, <2>3, <2>4, <2>5, <2>6, OnwardKeeps DEF Running
<1> QED
  BY <1>2, <1>3 DEF StartCheck

LEMMA LaunchKeeps ==
  ASSUME IInv, NEW h \in Ops, Launch(h)
  PROVE  IInv'
<1> DEFINE p == op[h].proj
<1>1. op[h].at = "launch" /\ UNCHANGED <<files, status, hungUp, victims, disturbed>>
  BY DEF Launch, At
<1>2. CASE GoTo(h, "done") /\ UNCHANGED <<procs, starts>>
  BY <1>1, <1>2, MoveKeeps DEF Running
<1>3. ASSUME NEW i \in Pids, Fork(i, p, NoPort),
             op' = [op EXCEPT ![h].at = "detect", ![h].pid = i]
      PROVE  IInv'
  <2>1. op[h] \in Request /\ p \in Projects
    BY DEF IInv, TypeOK, Request
  <2>2. /\ op' \in [Ops -> Request] /\ op'[h].at = "detect"
        /\ op'[h].kind = op[h].kind /\ op'[h].proj = p /\ op'[h].waiting = op[h].waiting
        /\ op'[h].start = op[h].start
        /\ \A q \in Ops \ {h} : op'[q] = op[q]
    <3> DEFINE r == [op[h] EXCEPT !.at = "detect", !.pid = i]
    <3>1. r \in Request
      BY <2>1 DEF Request, Running
    <3>2. op' = [op EXCEPT ![h] = r]
      BY <1>3
    <3>3. /\ r.at = "detect" /\ r.kind = op[h].kind /\ r.proj = p /\ r.waiting = op[h].waiting
          /\ r.start = op[h].start
      BY <2>1 DEF Request
    <3> HIDE DEF r
    <3> QED
      BY <3>1, <3>2, <3>3, OpBecomes DEF IInv
  <2>3. starts' = starts + 1 /\ starts' \in 1 .. MaxStarts /\ Free(i)
    BY <1>3, RuntimeConstants DEF Fork, IInv, TypeOK
  <2>4. [cwd |-> p, port |-> NoPort, start |-> starts + 1] \in Process
    BY <2>1, <2>3 DEF Process
  <2>5. procs' \in [Pids -> Process \cup {Dead}] /\ starts' \in 0 .. MaxStarts
    BY <1>3, <2>3, <2>4 DEF Fork, IInv, TypeOK
  <2>6. ProcsGo
    BY <1>3, <2>3 DEF Fork, ProcsGo, IInv, TypeOK
  <2>7. TypeOK'
    BY <1>1, <2>2, <2>5 DEF IInv, TypeOK, files
  <2>8. StepOf(h)
    BY <1>1, <2>2 DEF StepOf, files, Running
  <2>9. OpInv(h)'
    BY <1>1, <2>2 DEF IInv, OpInv, Place, Waits, Held, Struck
  <2> QED
    BY <1>1, <2>2, <2>6, <2>7, <2>8, <2>9, OnwardKeeps DEF Running, files
<1> QED
  BY <1>2, <1>3 DEF Launch

\* Processes that die leave the others as they are.
LEMMA KillShape ==
  ASSUME TypeOK, NEW set, Kill(set), starts' = starts
  PROVE  procs' \in [Pids -> Process \cup {Dead}] /\ ProcsGo
BY DEF Kill, TypeOK, ProcsGo

\* A request ends or goes to its update with both files of its project removed.
LEMMA CleanKeeps ==
  ASSUME IInv, NEW h \in Ops, op[h].at \in Running \ {"writeMeta", "update"},
         NEW label \in {"done", "update"}, GoTo(h, label), RemoveFiles(op[h].proj),
         label = "update" => op[h].kind = "stop",
         procs' \in [Pids -> Process \cup {Dead}], ProcsGo,
         UNCHANGED <<starts, status, hungUp, victims, disturbed>>
  PROVE  IInv'
<1> DEFINE p == op[h].proj
<1>1. /\ op' \in [Ops -> Request] /\ op'[h].at = label
      /\ op'[h].kind = op[h].kind /\ op'[h].proj = p
      /\ op'[h].port = op[h].port /\ op'[h].waiting = op[h].waiting
      /\ op'[h].start = op[h].start
      /\ \A q \in Ops \ {h} : op'[q] = op[q]
  BY GoToShape DEF IInv, Running
<1>2. /\ pidFile' \in [Projects -> Pids \cup {NoPid}] /\ pidFile'[p] = NoPid
      /\ meta' \in [Projects -> Meta \cup {NoMeta}] /\ meta'[p] = NoMeta
      /\ \A x \in Projects \ {p} : pidFile'[x] = pidFile[x] /\ meta'[x] = meta[x]
  BY DEF RemoveFiles, IInv, TypeOK, Request
<1>3. TypeOK'
  BY <1>1, <1>2 DEF IInv, TypeOK
<1>4. StepOf(h)
  BY <1>1, <1>2 DEF StepOf
<1>5. OpInv(h)'
  <2>1. OpInv(h)
    BY DEF IInv
  <2>2. Place(h)' /\ Held(h)'
    BY <1>1 DEF Place, Held
  <2>3. Waits(h)'
    BY <1>1, <2>1 DEF OpInv, Waits, Running
  <2>4. Struck(h)'
    BY <1>1, <1>4, <2>1, StepNames, StruckKept DEF OpInv, Struck
  <2> QED
    BY <2>2, <2>3, <2>4 DEF OpInv
<1>6. MetaTrue(p)'
  BY <1>1, <1>2 DEF MetaTrue
<1>7. Orderly(p)'
  <2> SUFFICES ASSUME p \notin disturbed' PROVE Orderly(p)'
    BY <1>1 DEF Orderly
  <2> QED
    BY <1>1, <1>2, <1>4, StepOrderly
<1>8. ProjInv(op[h].proj)'
  BY <1>1, <1>6, <1>7 DEF ProjInv
<1> QED
  BY <1>3, <1>4, <1>5, <1>8, StepKeeps

LEMMA ReadyKeeps ==
  ASSUME IInv, NEW h \in Ops, Ready(h)
  PROVE  IInv'
<1> DEFINE p == op[h].proj
           i == op[h].pid
<1>1. op[h].at = "ready" /\ UNCHANGED <<starts, status, hungUp, victims, disturbed>>
  BY DEF Ready, At
<1>2. p \in Projects /\ i \in Pids /\ op[h].kind = "finalize" /\ op[h].port \in Ports \cup {NoPort}
  BY <1>1 DEF IInv, TypeOK, Request, OpInv, Held, Place
<1>3. CASE ReadyPort(h) # NoPort /\ Found(h, i, ReadyPort(h)) /\ UNCHANGED <<procs, files>>
  <2>1. Alive(i) /\ procs[i] \in Process
    BY <1>2, <1>3 DEF ReadyPort, IInv, TypeOK, Alive
  <2>2. ReadyPort(h) \in Ports \cup {NoPort}
    BY <1>2, <1>3, <2>1 DEF ReadyPort, Process
  <2> QED
    BY <1>1, <1>2, <1>3, <2>2, FoundKeeps
<1>4. CASE RemoveFiles(p) /\ GoTo(h, "done") /\ (Kill({i}) \/ UNCHANGED procs)
  <2>1. procs' \in [Pids -> Process \cup {Dead}] /\ ProcsGo
    <3>1. CASE Kill({i})
      BY <1>1, <3>1, KillShape DEF IInv
    <3>2. CASE UNCHANGED procs
      BY <1>1, <3>2 DEF IInv, TypeOK, ProcsGo
    <3> QED
      BY <1>4, <3>1, <3>2
  <2> QED
    BY <1>1, <1>4, <2>1, CleanKeeps DEF Running
<1> QED
  BY <1>3, <1>4 DEF Ready, RemoveFiles

LEMMA StampKeeps ==
  ASSUME IInv, NEW h \in Ops, Stamp(h)
  PROVE  IInv'
<1> DEFINE p == op[h].proj
           i == op[h].pid
<1>1. op[h].at = "stamp" /\ UNCHANGED <<procs, starts, files, status, hungUp, victims, disturbed>>
  BY DEF Stamp, At
<1>2. OpInv(h) /\ i \in Pids /\ op[h] \in Request /\ op[h].kind # "stop"
  BY <1>1 DEF IInv, OpInv, Held, TypeOK, Place
<1>3. CASE ~Alive(i)
  <2>1. CASE op[h].kind = "watch"
    BY <1>1, <1>3, <2>1, MoveKeeps DEF Stamp, Running
  <2>2. CASE op[h].kind # "watch"
    BY <1>1, <1>3, <2>2, MoveKeeps DEF Stamp, Running
  <2> QED
    BY <2>1, <2>2
<1>4. CASE Alive(i)
  <2> DEFINE r == [op[h] EXCEPT !.at = "writePid", !.start = procs[i].start]
  <2>1. procs[i] \in Process /\ procs[i].start <= starts /\ starts \in Nat
    BY <1>4 DEF IInv, TypeOK, Past, Alive
  <2>2. procs[i].start \in 0 .. MaxStarts /\ procs[i].start \in 1 .. starts
    BY <2>1, RuntimeConstants DEF Process
  <2>3. r \in Request
    BY <1>2, <2>2 DEF Request, Running
  <2>4. op' = [op EXCEPT ![h] = r]
    BY <1>4 DEF Stamp
  <2>5. /\ r.at = "writePid" /\ r.kind = op[h].kind /\ r.proj = p /\ r.pid = i
        /\ r.port = op[h].port /\ r.start = procs[i].start /\ r.waiting = op[h].waiting
    BY <1>2 DEF Request
  <2> HIDE DEF r
  <2>6. /\ op' \in [Ops -> Request] /\ op'[h] = r
        /\ \A q \in Ops \ {h} : op'[q] = op[q]
    BY <2>3, <2>4, OpBecomes DEF IInv
  <2>7. TypeOK'
    BY <1>1, <2>6 DEF IInv, TypeOK, files
  <2>8. ProcsGo
    BY <1>1 DEF IInv, TypeOK, ProcsGo
  <2>9. StepOf(h)
    BY <1>1, <1>2, <2>5, <2>6 DEF StepOf, files, Running, OpInv, Place
  <2>10. Held(h)'
    <3>1. procs[i].start # 0 /\ procs' = procs /\ starts' = starts
      BY <1>1, <2>2, <2>1
    <3>2. /\ op'[h].kind = op[h].kind /\ op'[h].proj = p /\ op'[h].at = "writePid"
          /\ op'[h].pid = i /\ op'[h].port = op[h].port /\ op'[h].start = procs[i].start
      BY <2>5, <2>6
    <3>3. Belongs(p, procs[i], op[h].port) \/ op[h].kind = "finalize"
      BY <1>1, <1>2, <1>4 DEF OpInv, Held
    <3>4. op[h].kind = "start" => procs[i].cwd = p
      BY <1>1, <1>2, <1>4 DEF OpInv, Held
    <3>5. (Belongs(op[h].proj, procs[op[h].pid], op[h].port))'
      BY <2>9, <3>1, <3>2, <3>3, StepNames DEF Belongs, Named, NamesStay
    <3> QED BY <1>2, <2>2, <3>1, <3>2, <3>4, <3>5 DEF Held
  <2>11. Place(h)' /\ Waits(h)' /\ Struck(h)'
    BY <1>1, <1>2, <2>5, <2>6 DEF OpInv, Place, Waits, Struck
  <2>12. OpInv(h)'
    BY <2>10, <2>11 DEF OpInv
  <2> QED
    BY <1>1, <2>5, <2>6, <2>7, <2>8, <2>9, <2>12, OnwardKeeps DEF files, Running
<1> QED
  BY <1>3, <1>4

LEMMA WritePidKeeps ==
  ASSUME IInv, NEW h \in Ops, WritePid(h)
  PROVE  IInv'
<1> DEFINE p == op[h].proj
<1>1. op[h].at = "writePid" /\ UNCHANGED <<procs, starts, meta, status, hungUp, victims, disturbed>>
  BY DEF WritePid, At
<1>2. OpInv(h) /\ op[h].pid \in Pids /\ p \in Projects
  BY <1>1 DEF IInv, OpInv, Held, TypeOK, Request
<1>3. /\ op' \in [Ops -> Request] /\ op'[h].at = "writeMeta"
      /\ op'[h].kind = op[h].kind /\ op'[h].proj = p /\ op'[h].pid = op[h].pid
      /\ op'[h].port = op[h].port /\ op'[h].start = op[h].start
      /\ op'[h].waiting = op[h].waiting
      /\ \A q \in Ops \ {h} : op'[q] = op[q]
  BY GoToShape DEF IInv, WritePid, Running
<1>4. /\ pidFile' \in [Projects -> Pids \cup {NoPid}] /\ pidFile'[p] = op[h].pid
      /\ \A x \in Projects \ {p} : pidFile'[x] = pidFile[x]
  BY <1>2 DEF WritePid, IInv, TypeOK
<1>5. TypeOK'
  BY <1>1, <1>3, <1>4 DEF IInv, TypeOK
<1>6. ProcsGo
  BY <1>1 DEF IInv, TypeOK, ProcsGo
<1>7. StepOf(h)
  BY <1>1, <1>3, <1>4 DEF StepOf, Running
<1>8. OpInv(h)'
  <2>1. Held(h)'
    <3>1. Alive(op[h].pid) => Belongs(p, procs[op[h].pid], op[h].port)
                                /\ (op[h].kind = "start" => procs[op[h].pid].cwd = p)
      BY <1>1, <1>2 DEF OpInv, Held
    <3>2. Alive(op[h].pid) => (Belongs(op[h].proj, procs[op[h].pid], op[h].port))'
      BY <1>1, <1>3, <1>7, <3>1, StepNames DEF Belongs, Named, NamesStay
    <3> QED BY <1>1, <1>2, <1>3, <3>1, <3>2 DEF OpInv, Held, Alive
  <2>2. Place(h)' /\ Waits(h)' /\ Struck(h)'
    BY <1>1, <1>2, <1>3 DEF OpInv, Place, Waits, Struck
  <2> QED
    BY <2>1, <2>2 DEF OpInv
<1>9. MetaTrue(p)'
  BY <1>1, <1>5, <1>6, <1>7, StepMeta
<1>10. Orderly(p)'
  <2> SUFFICES ASSUME p \notin disturbed' PROVE Orderly(p)'
    BY <1>3 DEF Orderly
  <2> QED
    BY <1>1, <1>3, <1>4, <1>7, StepOrderly DEF Running
<1>11. ProjInv(op[h].proj)'
  BY <1>3, <1>9, <1>10 DEF ProjInv
<1> QED
  BY <1>5, <1>6, <1>7, <1>8, <1>11, StepKeeps

LEMMA WriteMetaKeeps ==
  ASSUME IInv, NEW h \in Ops, WriteMeta(h)
  PROVE  IInv'
<1> DEFINE p == op[h].proj
           m == [pid |-> op[h].pid, start |-> op[h].start, port |-> op[h].port]
<1>1. /\ op[h].at = "writeMeta"
      /\ UNCHANGED <<procs, starts, pidFile, status, hungUp, victims, disturbed>>
  BY DEF WriteMeta, At
<1>2. /\ OpInv(h) /\ op[h].pid \in Pids /\ p \in Projects
      /\ op[h].start \in 1 .. starts /\ starts \in 0 .. MaxStarts
      /\ op[h].port \in Ports \cup {NoPort} /\ op[h].kind \notin {"stop", "inspect"}
  BY <1>1 DEF IInv, OpInv, Held, TypeOK, Request, Place
<1>3. /\ op' \in [Ops -> Request] /\ op'[h].at = "update"
      /\ op'[h].kind = op[h].kind /\ op'[h].proj = p /\ op'[h].waiting = op[h].waiting
      /\ op'[h].start = op[h].start
      /\ \A q \in Ops \ {h} : op'[q] = op[q]
  BY GoToShape DEF IInv, WriteMeta, Running
<1>4. op[h].start \in 1 .. MaxStarts /\ op[h].start <= starts
  BY <1>2, RuntimeConstants
<1>5. m \in Meta /\ m # NoMeta
  BY <1>2, <1>4, NothingIsNoRecord DEF Meta
<1>6. m.pid = op[h].pid /\ m.start = op[h].start /\ m.port = op[h].port
  OBVIOUS
<1> HIDE DEF m
<1>7. /\ meta' \in [Projects -> Meta \cup {NoMeta}] /\ meta'[p] = m
      /\ \A x \in Projects \ {p} : meta'[x] = meta[x]
  BY <1>2, <1>5 DEF WriteMeta, IInv, TypeOK, m
<1>8. TypeOK'
  BY <1>1, <1>3, <1>7 DEF IInv, TypeOK
<1>9. ProcsGo
  BY <1>1 DEF IInv, TypeOK, ProcsGo
<1>10. StepOf(h)
  BY <1>1, <1>3, <1>7 DEF StepOf, Running
<1>11. OpInv(h)'
  <2>1. Held(h)' /\ Place(h)'
    BY <1>2, <1>3 DEF Held, Place
  <2>2. Waits(h)' /\ Struck(h)'
    BY <1>1, <1>2, <1>3 DEF OpInv, Waits, Struck
  <2> QED
    BY <2>1, <2>2 DEF OpInv
<1>12. MetaTrue(p)'
  <2>1. Background(p)' => op[h].kind = "start"
    BY <1>2, <1>3 DEF Background
  <2>2. Alive(op[h].pid) =>
          /\ Belongs(p, procs[op[h].pid], op[h].port)
          /\ op[h].kind = "start" => procs[op[h].pid].cwd = p
    BY <1>1, <1>2 DEF OpInv, Held
  <2>3. Alive(op[h].pid) => Belongs(p, procs[meta[p].pid], meta[p].port)'
    BY <1>1, <1>6, <1>7, <1>10, <2>2, StepNames DEF Belongs, Named, NamesStay
  <2> QED
    BY <1>1, <1>3, <1>4, <1>6, <1>7, <2>1, <2>2, <2>3 DEF MetaTrue, Alive
<1>13. Orderly(p)'
  <2> SUFFICES ASSUME p \notin disturbed' PROVE Orderly(p)'
    BY <1>3 DEF Orderly
  <2>1. pidFile[p] = op[h].pid
    BY <1>1, <1>2 DEF IInv, ProjInv, Orderly
  <2> QED
    BY <1>1, <1>2, <1>3, <1>5, <1>6, <1>7, <1>10, <2>1, StepOrderly DEF Running
<1>14. ProjInv(op[h].proj)'
  BY <1>3, <1>12, <1>13 DEF ProjInv
<1> QED
  BY <1>8, <1>9, <1>10, <1>11, <1>14, StepKeeps

LEMMA UpdateKeeps ==
  ASSUME IInv, NEW h \in Ops, Update(h)
  PROVE  IInv'
<1> DEFINE p == op[h].proj
<1>1. op[h].at = "update" /\ UNCHANGED <<procs, starts, files, victims, disturbed>>
  BY DEF Update, At
<1>2. OpInv(h) /\ p \in Projects
  BY DEF IInv, TypeOK, Request
<1>3. /\ op' \in [Ops -> Request] /\ op'[h].at = "done"
      /\ op'[h].kind = op[h].kind /\ op'[h].proj = p
      /\ op'[h].port = op[h].port /\ op'[h].waiting = op[h].waiting
      /\ op'[h].start = op[h].start
      /\ \A q \in Ops \ {h} : op'[q] = op[q]
  BY GoToShape DEF IInv, Update, Running
<1>4. /\ status' \in [Projects -> {0, 1}]
      /\ op[h].waiting /\ op[h].kind \notin {"stop", "inspect"} => status'[p] = 1
      /\ \A x \in Projects \ {p} : status'[x] = status[x] /\ (x \in hungUp => x \in hungUp')
      /\ hungUp' \subseteq Projects
  BY <1>2 DEF Update, NewStatus, IInv, TypeOK
<1>5. TypeOK'
  BY <1>1, <1>3, <1>4 DEF IInv, TypeOK, files
<1>6. ProcsGo
  BY <1>1 DEF IInv, TypeOK, ProcsGo
<1>7. StepOf(h)
  BY <1>1, <1>3, <1>4 DEF StepOf, files, Running
<1>8. OpInv(h)'
  <2>1. Held(h)' /\ Place(h)' /\ Waits(h)'
    BY <1>3 DEF Held, Place, Waits
  <2>2. Struck(h)'
    BY <1>1, <1>2, <1>3, <1>7, StepNames, StruckKept DEF OpInv, Struck
  <2> QED
    BY <2>1, <2>2 DEF OpInv
<1>9. MetaTrue(p)'
  BY <1>1, <1>5, <1>6, <1>7, StepMeta DEF files
<1>10. Orderly(p)'
  <2> SUFFICES ASSUME p \notin disturbed' PROVE Orderly(p)'
    BY <1>3 DEF Orderly
  <2>1. p \notin disturbed
    BY <1>1
  <2>2. op[h].waiting
    BY <1>1, <1>2, <2>1 DEF OpInv, Waits
  <2>3. op[h].at \in Running
    BY <1>1 DEF Running
  <2>4. \A q \in Ops : op[q].proj = p => op[q].at # "writeMeta"
    BY <1>1, <2>1, <2>3, AtWorkAlone DEF IInv, Running
  <2>5. Orderly(p)
    BY <1>2 DEF IInv, ProjInv
  <2>6. op[h].kind = "stop" => pidFile[p] = NoPid
    BY <1>1, <2>1, <2>5 DEF Orderly
  <2>7. pidFile[p] # NoPid => meta[p] # NoMeta /\ meta[p].pid = pidFile[p]
    BY <2>1, <2>4, <2>5 DEF Orderly, SomeAt
  <2> QED
    BY <1>1, <1>3, <1>4, <1>7, <2>2, <2>3, <2>6, <2>7, StepOrderly DEF files
<1>11. ProjInv(op[h].proj)'
  BY <1>3, <1>9, <1>10 DEF ProjInv
<1> QED
  BY <1>5, <1>6, <1>7, <1>8, <1>11, StepKeeps

\* The first signals of a stop go to the process that the record identifies and to
\* the listener of its port.
LEMMA StopKeeps ==
  ASSUME IInv, NEW h \in Ops, Stop(h)
  PROVE  IInv'
<1> DEFINE p == op[h].proj
           targets == {i \in Pids : Alive(i) /\ i = pidFile[p]} \cup Listeners(MetaPort(p))
<1>1. op[h].at = "stop" /\ UNCHANGED <<starts, status, hungUp, disturbed>>
  BY DEF Stop, At
<1>2. /\ OpInv(h) /\ op[h].kind = "stop" /\ op[h] \in Request /\ p \in Projects
      /\ op[h].at \in Running \ {"writeMeta", "update"}
  BY <1>1 DEF IInv, OpInv, Place, TypeOK, Request, Running
<1>3. CASE pidFile[p] = NoPid /\ GoTo(h, "update") /\ UNCHANGED <<procs, files, victims>>
  BY <1>1, <1>2, <1>3, MoveKeeps DEF files
<1>4. CASE GoTo(h, "done") /\ UNCHANGED <<procs, files, victims>>
  BY <1>1, <1>2, <1>4, MoveKeeps DEF files
<1>5. CASE RemoveFiles(p) /\ GoTo(h, "update") /\ UNCHANGED <<procs, victims>>
  <2>1. procs' \in [Pids -> Process \cup {Dead}] /\ ProcsGo
    BY <1>1, <1>5 DEF IInv, TypeOK, ProcsGo
  <2> QED
    BY <1>1, <1>2, <1>5, <2>1, CleanKeeps
<1>6. ASSUME pidFile[p] # NoPid, ~Refused(p), NEW dying \in SUBSET targets, Kill(dying),
             Signal(h, targets), UNCHANGED files,
             op' = [op EXCEPT ![h].at = "kill", ![h].pid = pidFile[p], ![h].port = MetaPort(p)]
      PROVE  IInv'
  <2> DEFINE r == [op[h] EXCEPT !.at = "kill", !.pid = pidFile[p], !.port = MetaPort(p)]
  <2>1. pidFile[p] \in Pids /\ MetaPort(p) \in Ports \cup {NoPort}
    BY <1>2, <1>6 DEF IInv, TypeOK, MetaPort, Meta
  <2>2. r \in Request
    BY <1>2, <2>1 DEF Request, Running
  <2>3. op' = [op EXCEPT ![h] = r]
    BY <1>6
  <2>4. /\ r.at = "kill" /\ r.kind = op[h].kind /\ r.proj = p /\ r.pid = pidFile[p]
        /\ r.port = MetaPort(p) /\ r.waiting = op[h].waiting
    BY <1>2 DEF Request
  <2> HIDE DEF r
  <2>5. /\ op' \in [Ops -> Request] /\ op'[h] = r
        /\ \A q \in Ops \ {h} : op'[q] = op[q]
    BY <2>2, <2>3, OpBecomes DEF IInv
  <2>6. /\ victims'[h] = victims[h] \cup {procs[i] : i \in targets}
        /\ \A q \in Ops \ {h} : victims'[q] = victims[q]
        /\ victims' \in [Ops -> SUBSET Process]
    <3>1. \A i \in targets : procs[i] \in Process
      BY DEF IInv, TypeOK, Listeners, Alive
    <3> QED
      BY <1>6, <3>1 DEF Signal, IInv, TypeOK
  <2>7. procs' \in [Pids -> Process \cup {Dead}] /\ ProcsGo
    BY <1>1, <1>6, KillShape DEF IInv
  <2>8. TypeOK'
    BY <1>1, <1>6, <2>5, <2>6, <2>7 DEF IInv, TypeOK, files
  <2>9. StepOf(h)
    BY <1>1, <1>2, <1>6, <2>4, <2>5, <2>6 DEF StepOf, files
  <2>10. p \notin disturbed =>
           \A i \in targets : Belongs(p, procs[i], MetaPort(p))
    <3> SUFFICES ASSUME p \notin disturbed, NEW i \in targets
                 PROVE  Belongs(p, procs[i], MetaPort(p))
      OBVIOUS
    <3>1. CASE i \in Listeners(MetaPort(p))
      BY <3>1 DEF Listeners, Belongs
    <3>2. CASE Alive(i) /\ i = pidFile[p]
      <4>1. meta[p] # NoMeta /\ meta[p].pid = pidFile[p]
        BY <1>2, <1>6, BeforeWrites
      <4>2. procs[i].start = meta[p].start
        BY <1>6, <3>2, <4>1 DEF Refused
      <4> QED
        BY <1>2, <3>2, <4>1, <4>2 DEF IInv, ProjInv, MetaTrue, MetaPort
    <3> QED
      BY <3>1, <3>2
  <2>11. Held(h)'
    <3>1. procs'[pidFile[p]] # Dead =>
            Alive(pidFile[p]) /\ procs'[pidFile[p]] = procs[pidFile[p]]
      BY <1>6, <2>1 DEF Kill, Alive
    <3>2. Alive(pidFile[p]) => pidFile[p] \in targets
      BY <2>1
    <3>3. p \notin disturbed /\ procs'[pidFile[p]] # Dead =>
            Belongs(p, procs[pidFile[p]], MetaPort(p))
      BY <2>10, <3>1, <3>2
    <3>4. /\ op'[h].at = "kill" /\ op'[h].proj = p /\ op'[h].pid = pidFile[p]
          /\ op'[h].port = MetaPort(p) /\ disturbed' = disturbed
      BY <1>1, <2>4, <2>5
    <3> HIDE DEF p
    <3>5. p \notin disturbed /\ procs'[pidFile[p]] # Dead =>
            (Belongs(op[h].proj, procs[op[h].pid], op[h].port))'
      BY <2>9, <3>1, <3>3, <3>4, StepNames DEF Belongs, Named, NamesStay
    <3> QED
      BY <3>4, <3>5 DEF Held, Alive
  <2>12. victims[h] = {}
    BY <1>1, <1>2 DEF OpInv, Struck
  <2>13. Struck(h)'
    <3>1. \A v \in victims'[h] : p \notin disturbed => Belongs(p, v, MetaPort(p))
      BY <2>6, <2>10, <2>12
    <3>2. NamesStay  BY <2>9, StepNames
    <3> HIDE DEF p
    <3>3. \A v : Named(p, v) =>
            \E f \in Ops : /\ op'[f].kind = "finalize" /\ op'[f].proj = p
                          /\ op'[f].start # 0 /\ op'[f].start = v.start
      BY <3>2 DEF Named, NamesStay
    <3>4. /\ op'[h].at = "kill" /\ op'[h].proj = p /\ op'[h].kind = "stop"
          /\ op'[h].port = MetaPort(p) /\ disturbed' = disturbed
      BY <1>1, <1>2, <2>4, <2>5 DEF p
    <3> QED BY <3>1, <3>3, <3>4 DEF Struck, Belongs, Named
  <2>14. Place(h)' /\ Waits(h)'
    BY <1>1, <1>2, <2>4, <2>5 DEF OpInv, Place, Waits
  <2>15. OpInv(h)'
    BY <2>11, <2>13, <2>14 DEF OpInv
  <2> QED
    BY <1>1, <1>2, <1>6, <2>4, <2>5, <2>7, <2>8, <2>9, <2>15, OnwardKeeps DEF files
<1> QED
  BY <1>3, <1>4, <1>5, <1>6 DEF Stop

LEMMA KillRemainingKeeps ==
  ASSUME IInv, NEW h \in Ops, KillRemaining(h)
  PROVE  IInv'
<1> DEFINE p == op[h].proj
<1>1. op[h].at = "kill" /\ UNCHANGED <<starts, files, status, hungUp, op, disturbed>>
  BY DEF KillRemaining, At
<1>2. OpInv(h) /\ op[h].kind = "stop" /\ op[h].at \in Running \ {"writeMeta", "update"}
  BY <1>1 DEF IInv, OpInv, Place, Running
<1>3. /\ victims'[h] = victims[h] \cup {procs[i] : i \in Remaining(h)}
      /\ \A q \in Ops \ {h} : victims'[q] = victims[q]
      /\ victims' \in [Ops -> SUBSET Process]
  <2>1. \A i \in Remaining(h) : procs[i] \in Process
    BY DEF IInv, TypeOK, Listeners, Alive, Remaining
  <2> QED
    BY <2>1 DEF KillRemaining, Signal, IInv, TypeOK
<1>4. procs' \in [Pids -> Process \cup {Dead}] /\ ProcsGo
  BY <1>1, KillShape DEF IInv, KillRemaining
<1>5. TypeOK'
  BY <1>1, <1>3, <1>4 DEF IInv, TypeOK, files
<1>6. StepOf(h)
  BY <1>1, <1>2, <1>3 DEF StepOf, files
<1>7. p \notin disturbed => \A i \in Remaining(h) : Belongs(p, procs[i], op[h].port)
  BY <1>1, <1>2 DEF Remaining, Listeners, Belongs, OpInv, Held
<1>8. OpInv(h)'
  <2>1. Held(h)'
    BY <1>1, <1>2, <1>4, <1>5, <1>6, StepNames, HeldKept DEF OpInv, IInv, TypeOK
  <2>2. Struck(h)'
    BY <1>1, <1>2, <1>3, <1>7 DEF OpInv, Struck, Belongs, Named
  <2>3. Place(h)' /\ Waits(h)'
    BY <1>1, <1>2 DEF OpInv, Place, Waits
  <2> QED
    BY <2>1, <2>2, <2>3 DEF OpInv
<1> QED
  BY <1>1, <1>2, <1>4, <1>5, <1>6, <1>8, OnwardKeeps DEF files

\* What an inspection finds running is the process of a true record.
LEMMA InspectKeeps ==
  ASSUME IInv, NEW h \in Ops, Inspect(h)
  PROVE  IInv'
<1> DEFINE p == op[h].proj
           i == pidFile[p]
<1>1. op[h].at = "look" /\ UNCHANGED <<procs, starts, files, status, hungUp, victims, disturbed>>
  BY DEF Inspect, At
<1>2. /\ OpInv(h) /\ op[h].kind = "inspect" /\ op[h].port = NoPort
      /\ op[h] \in Request /\ p \in Projects
      /\ op[h].at \in Running \ {"writeMeta", "update"}
  BY <1>1 DEF IInv, OpInv, Place, TypeOK, Request, Running
<1>3. CASE GoTo(h, "update")
  BY <1>1, <1>2, <1>3, MoveKeeps
<1>4. ASSUME RunningPort(p) # NoPort,
             op' = [op EXCEPT ![h].at = "update", ![h].pid = i, ![h].port = RunningPort(p)]
      PROVE  IInv'
  <2> DEFINE r == [op[h] EXCEPT !.at = "update", !.pid = i, !.port = RunningPort(p)]
  <2>1. /\ Alive(i) /\ i \in Pids /\ ~Refused(p) /\ procs[i] \in Process
        /\ RunningPort(p) \in Ports \cup {NoPort}
    BY <1>2, <1>4 DEF RunningPort, Alive, MetaPort, Meta, Process, IInv, TypeOK
  <2>2. r \in Request
    BY <1>2, <2>1 DEF Request, Running
  <2>3. op' = [op EXCEPT ![h] = r]
    BY <1>4
  <2>4. /\ r.at = "update" /\ r.kind = op[h].kind /\ r.proj = p /\ r.pid = i
        /\ r.port = RunningPort(p) /\ r.waiting = op[h].waiting
    BY <1>2 DEF Request
  <2> HIDE DEF r
  <2>5. /\ op' \in [Ops -> Request] /\ op'[h] = r
        /\ \A q \in Ops \ {h} : op'[q] = op[q]
    BY <2>2, <2>3, OpBecomes DEF IInv
  <2>6. TypeOK'
    BY <1>1, <2>5 DEF IInv, TypeOK, files
  <2>7. ProcsGo
    BY <1>1 DEF IInv, TypeOK, ProcsGo
  <2>8. StepOf(h)
    BY <1>1, <1>2, <2>4, <2>5 DEF StepOf, files
  <2>9. p \notin disturbed => Belongs(p, procs[i], RunningPort(p))
    <3> SUFFICES ASSUME p \notin disturbed PROVE Belongs(p, procs[i], RunningPort(p))
      OBVIOUS
    <3>1. i # NoPid
      BY <2>1, RuntimeConstants
    <3>2. meta[p] # NoMeta /\ meta[p].pid = i
      BY <1>2, <3>1, BeforeWrites
    <3>3. procs[i].start = meta[p].start
      BY <2>1, <3>2 DEF Refused
    <3>4. Belongs(p, procs[i], meta[p].port)
      BY <1>2, <2>1, <3>2, <3>3 DEF IInv, ProjInv, MetaTrue
    <3> QED
      BY <2>1, <3>2, <3>4 DEF RunningPort, MetaPort, Belongs
  <2>10. Held(h)'
    <3>1. p \notin disturbed => (Belongs(op[h].proj, procs[op[h].pid], op[h].port))'
      BY <1>1, <2>4, <2>5, <2>8, <2>9, StepNames DEF Belongs, Named, NamesStay
    <3> QED BY <1>1, <1>2, <2>4, <2>5, <3>1 DEF Held
  <2>11. victims[h] = {}
    BY <1>1, <1>2 DEF OpInv, Struck
  <2>12. Place(h)' /\ Waits(h)' /\ Struck(h)'
    BY <1>1, <1>2, <2>4, <2>5, <2>11 DEF OpInv, Place, Waits, Struck
  <2>13. OpInv(h)'
    BY <2>10, <2>12 DEF OpInv
  <2>14. MetaTrue(p)'
    BY <1>1, <2>6, <2>7, <2>8, StepMeta DEF files
  <2>15. Orderly(p)'
    <3> SUFFICES ASSUME p \notin disturbed' PROVE Orderly(p)'
      BY <2>4, <2>5 DEF Orderly
    <3>1. pidFile[p] # NoPid => meta[p] # NoMeta /\ meta[p].pid = pidFile[p]
      BY <1>1, <1>2, BeforeWrites
    <3> QED
      BY <1>1, <1>2, <2>4, <2>5, <2>8, <3>1, StepOrderly DEF files
  <2>16. ProjInv(op[h].proj)'
    BY <2>4, <2>5, <2>14, <2>15 DEF ProjInv
  <2> QED
    BY <2>6, <2>7, <2>8, <2>13, <2>16, StepKeeps
<1> QED
  BY <1>3, <1>4 DEF Inspect

LEMMA GiveUpKeeps ==
  ASSUME IInv, NEW h \in Ops, GiveUp(h)
  PROVE  IInv'
<1> DEFINE p == op[h].proj
<1>1. /\ op[h].at \in Running /\ disturbed' = disturbed \cup {p}
      /\ UNCHANGED <<procs, starts, files, status, hungUp, victims>>
  BY DEF GiveUp
<1>2. OpInv(h) /\ op[h] \in Request /\ p \in Projects
  BY DEF IInv, TypeOK, Request
<1>3. ASSUME NEW r \in Request, op' = [op EXCEPT ![h] = r],
             r.at \in {op[h].at, "done"}, r.kind = op[h].kind, r.proj = p,
             r.pid = op[h].pid, r.port = op[h].port, r.start = op[h].start
      PROVE  IInv'
  <2>1. /\ op' \in [Ops -> Request] /\ op'[h] = r
        /\ \A q \in Ops \ {h} : op'[q] = op[q]
    BY <1>3, OpBecomes DEF IInv
  <2>2. TypeOK'
    BY <1>1, <1>2, <2>1 DEF IInv, TypeOK, files
  <2>3. ProcsGo
    BY <1>1 DEF IInv, TypeOK, ProcsGo
  <2>4. StepOf(h)
    BY <1>1, <1>3, <2>1 DEF StepOf, files, Running
  <2>5. OpInv(h)'
    <3>1. Held(h)'
      <4>1. \A q, port : Belongs(q, procs[op[h].pid], port) =>
              (Belongs(q, procs[op[h].pid], port))'
        BY <1>1, <1>3, <2>1, <2>4, StepNames DEF Belongs, Named, NamesStay
      <4> QED BY <1>1, <1>2, <1>3, <2>1, <4>1 DEF OpInv, Held, Alive
    <3>2. Place(h)' /\ Struck(h)'
      BY <1>1, <1>2, <1>3, <2>1 DEF OpInv, Place, Struck
    <3>3. Waits(h)'
      BY <1>1, <1>3, <2>1 DEF Waits, Running
    <3> QED
      BY <3>1, <3>2, <3>3 DEF OpInv
  <2>6. MetaTrue(p)'
    BY <1>1, <2>2, <2>3, <2>4, <2>1, <1>3, StepMeta DEF files
  <2>7. ProjInv(op[h].proj)'
    BY <1>1, <1>3, <2>1, <2>6 DEF ProjInv, Orderly
  <2> QED
    BY <2>2, <2>3, <2>4, <2>5, <2>7, StepKeeps
<1>4. CASE op' = [op EXCEPT ![h].waiting = FALSE]
  <2> DEFINE r == [op[h] EXCEPT !.waiting = FALSE]
  <2>1. r \in Request
    BY <1>2 DEF Request
  <2>2. op' = [op EXCEPT ![h] = r]
    BY <1>4
  <2>3. /\ r.at = op[h].at /\ r.kind = op[h].kind /\ r.proj = p
        /\ r.pid = op[h].pid /\ r.port = op[h].port /\ r.start = op[h].start
    BY <1>2 DEF Request
  <2> HIDE DEF r
  <2> QED
    BY <1>3, <2>1, <2>2, <2>3
<1>5. CASE op' = [op EXCEPT ![h].waiting = FALSE, ![h].at = "done"]
  <2> DEFINE r == [op[h] EXCEPT !.waiting = FALSE, !.at = "done"]
  <2>1. r \in Request
    BY <1>2 DEF Request
  <2>2. op' = [op EXCEPT ![h] = r]
    BY <1>5
  <2>3. /\ r.at = "done" /\ r.kind = op[h].kind /\ r.proj = p
        /\ r.pid = op[h].pid /\ r.port = op[h].port /\ r.start = op[h].start
    BY <1>2 DEF Request
  <2> HIDE DEF r
  <2> QED
    BY <1>3, <2>1, <2>2, <2>3
<1> QED
  BY <1>4, <1>5 DEF GiveUp

\* A terminal that is closed writes a status, and nothing else.
LEMMA CloseTerminalKeeps ==
  ASSUME IInv, NEW c \in Projects, CloseTerminal(c)
  PROVE  IInv'
<1> USE DEF IInv
<1>1. /\ UNCHANGED <<procs, starts, pidFile, meta, op, victims, disturbed>>
      /\ status' = [status EXCEPT ![c] = 0] /\ hungUp' = hungUp \cup {c}
  BY DEF CloseTerminal, files
<1>2. TypeOK'
  BY <1>1 DEF TypeOK
<1>3. ProcsGo /\ NamesStay
  BY <1>1 DEF TypeOK, ProcsGo, NamesStay
<1>4. starts' \in Nat
  BY <1>2 DEF TypeOK
<1>5. Past' /\ OneAtWork'
  BY <1>1, <1>3, <1>4, PastKept DEF OneAtWork
<1>6. ASSUME NEW h \in Ops PROVE OpInv(h)'
  BY <1>1, <1>3, <1>4, OpInvKept
<1>7. ASSUME NEW p \in Projects PROVE ProjInv(p)'
  <2>1. MetaTrue(p)'
    BY <1>1, <1>3, <1>4, MetaTrueKept DEF ProjInv
  <2>2. Orderly(p)'
    <3>1. status'[p] = status[p] \/ p \in hungUp'
      BY <1>1 DEF TypeOK
    <3> QED BY <1>1, <3>1, OrderlyKept DEF ProjInv
  <2> QED
    BY <2>1, <2>2 DEF ProjInv
<1> QED
  BY <1>2, <1>5, <1>6, <1>7

-----------------------------------------------------------------------------
(* The theorems.                                                           *)

LEMMA NextKeeps == IInv /\ [Next]_vars => IInv'
<1> SUFFICES ASSUME IInv, [Next]_vars PROVE IInv'
  OBVIOUS
<1>1. ASSUME NEW h \in Ops, Step(h) PROVE IInv'
  <2>1. ASSUME StillRunning(h) PROVE IInv'
    BY <2>1, MoveKeeps DEF StillRunning, At, Running
  <2>2. ASSUME StopEnd(h) PROVE IInv'
    <3>1. op[h].at = "kill" /\ op[h].kind = "stop"
      BY <2>2 DEF StopEnd, At, IInv, OpInv, Place
    <3>2. procs' \in [Pids -> Process \cup {Dead}] /\ ProcsGo
      BY <2>2 DEF StopEnd, IInv, TypeOK, ProcsGo
    <3> QED
      BY <2>2, <3>1, <3>2, CleanKeeps DEF StopEnd, Running
  <2> QED
    BY <1>1, <2>1, <2>2, StartCheckKeeps, LaunchKeeps, DetectKeeps, ReadyKeeps, ProbeKeeps,
       StampKeeps, WritePidKeeps, WriteMetaKeeps, UpdateKeeps, StopKeeps, KillRemainingKeeps,
       InspectKeeps
    DEF Step
<1>2. CASE UNCHANGED vars
  <2>1. UNCHANGED <<procs, starts, pidFile, meta, status, hungUp, op, victims, disturbed>>
    BY <1>2 DEF vars, files
  <2> USE <2>1 DEF IInv, Named
  <2>2. TypeOK' /\ Past' /\ OneAtWork'
    BY DEF TypeOK, Past, OneAtWork, Alive
  <2>3. ASSUME NEW h \in Ops PROVE OpInv(h)'
    BY DEF OpInv, Place, Waits, Held, Struck, Alive, Belongs
  <2>4. ASSUME NEW p \in Projects PROVE ProjInv(p)'
    BY DEF ProjInv, MetaTrue, Orderly, SomeAt, Inspected, Alive, Belongs, Background
  <2> QED
    BY <2>2, <2>3, <2>4
<1> QED
  BY <1>1, <1>2, BeginKeeps, GiveUpKeeps, CloseTerminalKeeps, ProcessKeeps DEF Next

\* The invariant holds in every reachable state.
THEOREM Invariance == Spec => []IInv
<1>1. Init => IInv
  BY InitInv
<1>2. IInv /\ [Next]_vars => IInv'
  BY NextKeeps
<1> QED
  BY <1>1, <1>2, PTL DEF Spec

\* Every variable keeps its type.
THEOREM TypeCorrect == Spec => []TypeOK
<1>1. IInv => TypeOK
  BY DEF IInv
<1> QED
  BY <1>1, Invariance, PTL

\* A stop of an undisturbed project signals processes of the project and listeners
\* of the recorded port only, whatever pids came round again.
THEOREM StopIsConfined == Spec => []StopSparesStrangers
<1>1. IInv => StopSparesStrangers
  BY DEF IInv, OpInv, Struck, Belongs, StopSparesStrangers
<1> QED
  BY <1>1, Invariance, PTL

\* A record made in the background names a process of its own project.
THEOREM RecordIsOwn == Spec => []RecordIdentifiesOwn
<1>1. IInv => RecordIdentifiesOwn
  BY DEF IInv, ProjInv, MetaTrue, RecordIdentifiesOwn
<1> QED
  BY <1>1, Invariance, PTL

\* Between requests the two files agree.
THEOREM FilesStayTogether == Spec => []FilesAgree
<1>1. IInv => FilesAgree
  BY DEF IInv, ProjInv, Orderly, SomeAt, FilesAgree, Active, Running
<1> QED
  BY <1>1, Invariance, PTL

\* Between requests a project with a record is listed as running.
THEOREM RecordIsListed == Spec => []RecordedIsListed
<1>1. IInv => RecordedIsListed
  BY DEF IInv, ProjInv, Orderly, SomeAt, RecordedIsListed, Active, Running
<1> QED
  BY <1>1, Invariance, PTL

\* What an inspection lists as running is the service, whatever pids came round.
THEOREM InspectionIsTrue == Spec => []InspectionFindsTheService
<1>1. IInv => InspectionFindsTheService
  BY DEF IInv, OpInv, Held, Belongs, InspectionFindsTheService
<1> QED
  BY <1>1, Invariance, PTL
=============================================================================
