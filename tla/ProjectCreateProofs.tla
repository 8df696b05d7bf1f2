------------------------- MODULE ProjectCreateProofs -------------------------
(***************************************************************************)
(* Proofs about ProjectCreate, for any set of requests and bodies.         *)
(***************************************************************************)
EXTENDS ProjectCreate, TLAPS

\* Where request r is, it asks for what it is about to make, and only what it
\* asked for is flagged or left to undo.
Fits(r) ==
  /\ pc[r] \in {"createDb"} => UsesDb(r)
  /\ pc[r] \in {"applyNginx"} => UsesNginx(r)
  /\ flags[r] \subseteq Asked(r)
  /\ undo[r] \subseteq flags[r]
  /\ pc[r] \in Checks \cup {"idle", "refused", "mkdir"} => flags[r] = {} /\ late[r] = {}

\* What must be flagged when request r is at its present step.
Reached(r) ==
  {k \in Asked(r) :
     \/ k = "dir" /\ pc[r] \in {"mkdist", "condaCreate", "python", "createDb",
                                "applyNginx", "insert", "log", "created"}
     \/ k = "conda" /\ pc[r] \in {"python", "createDb", "applyNginx", "insert",
                                  "log", "created"}
     \/ k = "db" /\ pc[r] \in {"applyNginx", "insert", "log", "created"}
     \/ k = "nginx" /\ pc[r] \in {"insert", "log", "created"}
     \/ k = "record" /\ pc[r] \in {"log", "created"}}

Forth == Makes \cup {"created"}

\* A request that makes things has flagged what it passed, and what it flagged
\* is there as long as it goes forward.
Progress(r) ==
  /\ pc[r] \in Forth => Reached(r) \subseteq flags[r]
  /\ Exclusive(r) /\ pc[r] \in Forth => \A k \in flags[r] : Has(r, k)

\* A row exists only from Insert on, and while it is still to be undone no other
\* resource has been.
RowInv(r) ==
  r \in records =>
    /\ pc[r] \in {"log", "created", "lost", "rollback", "failed", "broken"}
    /\ "record" \notin errors[r] \cup late[r] =>
         /\ pc[r] \notin {"failed", "broken"}
         /\ pc[r] = "rollback" => "record" \in undo[r]
         /\ Exclusive(r) => \A k \in Asked(r) : Has(r, k)

\* Everything there of an exclusive request is accounted for.
LeftInv(r) ==
  Exclusive(r) =>
    \A k \in Kinds : Has(r, k) =>
      /\ k \in flags[r] \cup late[r]
      /\ pc[r] = "rollback" => k \in undo[r] \cup errors[r] \cup late[r]
      /\ pc[r] = "failed" => k \in errors[r] \cup late[r]
      /\ pc[r] = "broken" => k \in errors[r] \cup late[r] \cup {"conda", "dir"}

Parts(r) == Fits(r) /\ Progress(r) /\ RowInv(r) /\ LeftInv(r)

IInv == /\ TypeOK
        /\ \A r \in Requests : Parts(r)
        /\ DatabaseHasOneHolder

-----------------------------------------------------------------------------
(* How a step of request q looks from outside.                             *)

\* A resource that belongs to q is made or removed, and nothing else changes.
TouchesOwn(q) ==
  \/ UNCHANGED resources
  \/ /\ dirs' \in {dirs \cup {payload[q].dir}, dirs \ {payload[q].dir}}
     /\ UNCHANGED <<envs, dbs, blocks, records>>
  \/ /\ envs' \in {envs \cup {payload[q].env}, envs \ {payload[q].env}}
     /\ UNCHANGED <<dirs, dbs, blocks, records>>
  \/ /\ UsesDb(q)
     /\ dbs' \in {dbs \cup {payload[q].db}, dbs \ {payload[q].db}}
     /\ UNCHANGED <<dirs, envs, blocks, records>>
  \/ /\ UsesNginx(q)
     /\ \E p \in {payload[q].port, NoPort} :
          blocks' = [blocks EXCEPT ![payload[q].name] = p]
     /\ UNCHANGED <<dirs, envs, dbs, records>>
  \/ /\ records' \in {records \cup {q}, records \ {q}}
     /\ UNCHANGED <<dirs, envs, dbs, blocks>>

\* The state of every other request stays as it is.
KeepsOthers(q) ==
  \A r \in Requests \ {q} :
    /\ pc'[r] = pc[r] /\ flags'[r] = flags[r] /\ undo'[r] = undo[r]
    /\ errors'[r] = errors[r] /\ late'[r] = late[r]

\* Types and ownership: every step of q changes q's own entries and a resource
\* that q's body names.
LEMMA StepShape ==
  ASSUME TypeOK, NEW q \in Requests, Fits(q), Submit(q) \/ Handle(q)
  PROVE  payload' = payload /\ TouchesOwn(q) /\ KeepsOthers(q) /\ TypeOK'
<1> USE DEF TypeOK, GoTo, resources
<1>a. /\ payload[q].dir \in Dirs
      /\ payload[q].env \in Envs
      /\ payload[q].name \in Names
      /\ payload[q].port \in Ports \cup {NoPort}
      /\ UsesDb(q) => payload[q].db \in Dbs
  BY PayloadShape DEF UsesDb
<1>1. CASE Submit(q)
  <2>1. payload' = payload /\ KeepsOthers(q)
    BY <1>1 DEF Submit, KeepsOthers, Fail
  <2>2. TouchesOwn(q)
    BY <1>1 DEF Submit, TouchesOwn, Fail
  <2>3. TypeOK'
    <3>1. /\ payload' \in [Requests -> Payloads]
          /\ overlap' \in [Requests -> SUBSET Requests]
      BY <1>1 DEF Submit, Fail
    <3>2. pc' \in [Requests -> InFlight \cup Ended \cup {"idle"}]
      BY <1>1 DEF Submit, Fail, InFlight, Ended, Checks, Makes
    <3>3. /\ flags' \in [Requests -> SUBSET Kinds]
          /\ undo' \in [Requests -> SUBSET Kinds]
          /\ errors' \in [Requests -> SUBSET Kinds]
          /\ late' \in [Requests -> SUBSET Kinds]
      BY <1>1 DEF Submit, Fail, Kinds
    <3>4. /\ dirs' \subseteq Dirs /\ envs' \subseteq Envs /\ dbs' \subseteq Dbs
          /\ blocks' \in [Names -> Ports \cup {NoPort}] /\ records' \subseteq Requests
      BY <1>1, <1>a DEF Submit, Fail
    <3>5. QED
      BY <3>1, <3>2, <3>3, <3>4
  <2>4. QED
    BY <2>1, <2>2, <2>3
<1>2. CASE Preflight(q)
  <2>1. payload' = payload /\ KeepsOthers(q)
    BY <1>2 DEF Preflight, CheckAccess, CheckName, CheckConda, CheckDb,
       CheckPorts, Check, AfterConda, AfterDb, KeepsOthers, Fail
  <2>2. TouchesOwn(q)
    BY <1>2 DEF Preflight, CheckAccess, CheckName, CheckConda, CheckDb,
       CheckPorts, Check, AfterConda, AfterDb, TouchesOwn, Fail
  <2>3. TypeOK'
    <3>1. /\ payload' \in [Requests -> Payloads]
          /\ overlap' \in [Requests -> SUBSET Requests]
      BY <1>2 DEF Preflight, CheckAccess, CheckName, CheckConda, CheckDb,
         CheckPorts, Check, AfterConda, AfterDb, Fail
    <3>2. pc' \in [Requests -> InFlight \cup Ended \cup {"idle"}]
      BY <1>2 DEF Preflight, CheckAccess, CheckName, CheckConda, CheckDb,
         CheckPorts, Check, AfterConda, AfterDb, Fail, InFlight, Ended,
         Checks, Makes
    <3>3. /\ flags' \in [Requests -> SUBSET Kinds]
          /\ undo' \in [Requests -> SUBSET Kinds]
          /\ errors' \in [Requests -> SUBSET Kinds]
          /\ late' \in [Requests -> SUBSET Kinds]
      BY <1>2 DEF Preflight, CheckAccess, CheckName, CheckConda, CheckDb,
         CheckPorts, Check, AfterConda, AfterDb, Fail, Kinds
    <3>4. /\ dirs' \subseteq Dirs /\ envs' \subseteq Envs /\ dbs' \subseteq Dbs
          /\ blocks' \in [Names -> Ports \cup {NoPort}] /\ records' \subseteq Requests
      BY <1>2, <1>a DEF Preflight, CheckAccess, CheckName, CheckConda,
         CheckDb, CheckPorts, Check, AfterConda, AfterDb, Fail
    <3>5. QED
      BY <3>1, <3>2, <3>3, <3>4
  <2>4. QED
    BY <2>1, <2>2, <2>3
<1>3. CASE MkdirDist(q) \/ CheckPython(q) \/ Log(q)
  <2>1. payload' = payload /\ KeepsOthers(q)
    BY <1>3 DEF MkdirDist, CheckPython, Log, Pass, AfterPython,
       KeepsOthers, Fail
  <2>2. TouchesOwn(q)
    BY <1>3 DEF MkdirDist, CheckPython, Log, Pass, AfterPython, TouchesOwn, Fail
  <2>3. TypeOK'
    <3>1. /\ payload' \in [Requests -> Payloads]
          /\ overlap' \in [Requests -> SUBSET Requests]
      BY <1>3 DEF MkdirDist, CheckPython, Log, Pass, AfterPython, Fail
    <3>2. pc' \in [Requests -> InFlight \cup Ended \cup {"idle"}]
      BY <1>3 DEF MkdirDist, CheckPython, Log, Pass, AfterPython, Fail,
         InFlight, Ended, Checks, Makes
    <3>3. /\ flags' \in [Requests -> SUBSET Kinds]
          /\ undo' \in [Requests -> SUBSET Kinds]
          /\ errors' \in [Requests -> SUBSET Kinds]
          /\ late' \in [Requests -> SUBSET Kinds]
      BY <1>3 DEF MkdirDist, CheckPython, Log, Pass, AfterPython, Fail, Kinds
    <3>4. /\ dirs' \subseteq Dirs /\ envs' \subseteq Envs /\ dbs' \subseteq Dbs
          /\ blocks' \in [Names -> Ports \cup {NoPort}] /\ records' \subseteq Requests
      BY <1>3, <1>a DEF MkdirDist, CheckPython, Log, Pass, AfterPython, Fail
    <3>5. QED
      BY <3>1, <3>2, <3>3, <3>4
  <2>4. QED
    BY <2>1, <2>2, <2>3
<1>4. CASE Mkdir(q)
  <2>1. payload' = payload /\ KeepsOthers(q)
    BY <1>4 DEF Mkdir, Attempt, MakeDir, AfterMkdir, KeepsOthers, Fail
  <2>2. TouchesOwn(q)
    BY <1>4 DEF Mkdir, Attempt, MakeDir, AfterMkdir, TouchesOwn, Fail
  <2>3. TypeOK'
    <3>1. /\ payload' \in [Requests -> Payloads]
          /\ overlap' \in [Requests -> SUBSET Requests]
      BY <1>4 DEF Mkdir, Attempt, MakeDir, AfterMkdir, Fail
    <3>2. pc' \in [Requests -> InFlight \cup Ended \cup {"idle"}]
      BY <1>4 DEF Mkdir, Attempt, MakeDir, AfterMkdir, Fail, InFlight,
         Ended, Checks, Makes
    <3>3. /\ flags' \in [Requests -> SUBSET Kinds]
          /\ undo' \in [Requests -> SUBSET Kinds]
          /\ errors' \in [Requests -> SUBSET Kinds]
          /\ late' \in [Requests -> SUBSET Kinds]
      BY <1>4 DEF Mkdir, Attempt, MakeDir, AfterMkdir, Fail, Kinds
    <3>4. /\ dirs' \subseteq Dirs /\ envs' \subseteq Envs /\ dbs' \subseteq Dbs
          /\ blocks' \in [Names -> Ports \cup {NoPort}] /\ records' \subseteq Requests
      BY <1>4, <1>a DEF Mkdir, Attempt, MakeDir, AfterMkdir, Fail
    <3>5. QED
      BY <3>1, <3>2, <3>3, <3>4
  <2>4. QED
    BY <2>1, <2>2, <2>3
<1>5. CASE CondaCreate(q)
  <2>1. payload' = payload /\ KeepsOthers(q)
    BY <1>5 DEF CondaCreate, Attempt, MakeEnv, KeepsOthers, Fail
  <2>2. TouchesOwn(q)
    BY <1>5 DEF CondaCreate, Attempt, MakeEnv, TouchesOwn, Fail
  <2>3. TypeOK'
    <3>1. /\ payload' \in [Requests -> Payloads]
          /\ overlap' \in [Requests -> SUBSET Requests]
      BY <1>5 DEF CondaCreate, Attempt, MakeEnv, Fail
    <3>2. pc' \in [Requests -> InFlight \cup Ended \cup {"idle"}]
      BY <1>5 DEF CondaCreate, Attempt, MakeEnv, Fail, InFlight, Ended,
         Checks, Makes
    <3>3. /\ flags' \in [Requests -> SUBSET Kinds]
          /\ undo' \in [Requests -> SUBSET Kinds]
          /\ errors' \in [Requests -> SUBSET Kinds]
          /\ late' \in [Requests -> SUBSET Kinds]
      BY <1>5 DEF CondaCreate, Attempt, MakeEnv, Fail, Kinds
    <3>4. /\ dirs' \subseteq Dirs /\ envs' \subseteq Envs /\ dbs' \subseteq Dbs
          /\ blocks' \in [Names -> Ports \cup {NoPort}] /\ records' \subseteq Requests
      BY <1>5, <1>a DEF CondaCreate, Attempt, MakeEnv, Fail
    <3>5. QED
      BY <3>1, <3>2, <3>3, <3>4
  <2>4. QED
    BY <2>1, <2>2, <2>3
<1>6. CASE CreateDb(q)
  <2>1. payload' = payload /\ KeepsOthers(q)
    BY <1>6 DEF CreateDb, Attempt, MakeDb, AfterCreateDb, Fits,
       KeepsOthers, Fail
  <2>2. TouchesOwn(q)
    BY <1>6 DEF CreateDb, Attempt, MakeDb, AfterCreateDb, Fits, TouchesOwn, Fail
  <2>3. TypeOK'
    <3>1. /\ payload' \in [Requests -> Payloads]
          /\ overlap' \in [Requests -> SUBSET Requests]
      BY <1>6 DEF CreateDb, Attempt, MakeDb, AfterCreateDb, Fits, Fail
    <3>2. pc' \in [Requests -> InFlight \cup Ended \cup {"idle"}]
      BY <1>6 DEF CreateDb, Attempt, MakeDb, AfterCreateDb, Fits, Fail,
         InFlight, Ended, Checks, Makes
    <3>3. /\ flags' \in [Requests -> SUBSET Kinds]
          /\ undo' \in [Requests -> SUBSET Kinds]
          /\ errors' \in [Requests -> SUBSET Kinds]
          /\ late' \in [Requests -> SUBSET Kinds]
      BY <1>6 DEF CreateDb, Attempt, MakeDb, AfterCreateDb, Fits, Fail, Kinds
    <3>4. /\ dirs' \subseteq Dirs /\ envs' \subseteq Envs /\ dbs' \subseteq Dbs
          /\ blocks' \in [Names -> Ports \cup {NoPort}] /\ records' \subseteq Requests
      BY <1>6, <1>a DEF CreateDb, Attempt, MakeDb, AfterCreateDb, Fits, Fail
    <3>5. QED
      BY <3>1, <3>2, <3>3, <3>4
  <2>4. QED
    BY <2>1, <2>2, <2>3
<1>7. CASE ApplyNginx(q)
  <2>1. payload' = payload /\ KeepsOthers(q)
    BY <1>7 DEF ApplyNginx, Attempt, MakeBlock, Fits, KeepsOthers, Fail
  <2>2. TouchesOwn(q)
    BY <1>7 DEF ApplyNginx, Attempt, MakeBlock, Fits, TouchesOwn, Fail
  <2>3. TypeOK'
    <3>1. /\ payload' \in [Requests -> Payloads]
          /\ overlap' \in [Requests -> SUBSET Requests]
      BY <1>7 DEF ApplyNginx, Attempt, MakeBlock, Fits, Fail
    <3>2. pc' \in [Requests -> InFlight \cup Ended \cup {"idle"}]
      BY <1>7 DEF ApplyNginx, Attempt, MakeBlock, Fits, Fail, InFlight,
         Ended, Checks, Makes
    <3>3. /\ flags' \in [Requests -> SUBSET Kinds]
          /\ undo' \in [Requests -> SUBSET Kinds]
          /\ errors' \in [Requests -> SUBSET Kinds]
          /\ late' \in [Requests -> SUBSET Kinds]
      BY <1>7 DEF ApplyNginx, Attempt, MakeBlock, Fits, Fail, Kinds
    <3>4. /\ dirs' \subseteq Dirs /\ envs' \subseteq Envs /\ dbs' \subseteq Dbs
          /\ blocks' \in [Names -> Ports \cup {NoPort}] /\ records' \subseteq Requests
      BY <1>7, <1>a DEF ApplyNginx, Attempt, MakeBlock, Fits, Fail
    <3>5. QED
      BY <3>1, <3>2, <3>3, <3>4
  <2>4. QED
    BY <2>1, <2>2, <2>3
<1>8. CASE Insert(q)
  <2>1. payload' = payload /\ KeepsOthers(q)
    BY <1>8 DEF Insert, Attempt, MakeRecord, KeepsOthers, Fail
  <2>2. TouchesOwn(q)
    BY <1>8 DEF Insert, Attempt, MakeRecord, TouchesOwn, Fail
  <2>3. TypeOK'
    <3>1. /\ payload' \in [Requests -> Payloads]
          /\ overlap' \in [Requests -> SUBSET Requests]
      BY <1>8 DEF Insert, Attempt, MakeRecord, Fail
    <3>2. pc' \in [Requests -> InFlight \cup Ended \cup {"idle"}]
      BY <1>8 DEF Insert, Attempt, MakeRecord, Fail, InFlight, Ended,
         Checks, Makes
    <3>3. /\ flags' \in [Requests -> SUBSET Kinds]
          /\ undo' \in [Requests -> SUBSET Kinds]
          /\ errors' \in [Requests -> SUBSET Kinds]
          /\ late' \in [Requests -> SUBSET Kinds]
      BY <1>8 DEF Insert, Attempt, MakeRecord, Fail, Kinds
    <3>4. /\ dirs' \subseteq Dirs /\ envs' \subseteq Envs /\ dbs' \subseteq Dbs
          /\ blocks' \in [Names -> Ports \cup {NoPort}] /\ records' \subseteq Requests
      BY <1>8, <1>a DEF Insert, Attempt, MakeRecord, Fail
    <3>5. QED
      BY <3>1, <3>2, <3>3, <3>4
  <2>4. QED
    BY <2>1, <2>2, <2>3
<1>9. CASE UndoRecord(q)
  <2>1. payload' = payload /\ KeepsOthers(q)
    BY <1>9 DEF UndoRecord, Undo, NextUndo, Escape, KeepsOthers, Fail
  <2>2. TouchesOwn(q)
    BY <1>9 DEF UndoRecord, Undo, NextUndo, Escape, TouchesOwn, Fail
  <2>3. TypeOK'
    <3>1. /\ payload' \in [Requests -> Payloads]
          /\ overlap' \in [Requests -> SUBSET Requests]
      BY <1>9 DEF UndoRecord, Undo, NextUndo, Escape, Fail
    <3>2. pc' \in [Requests -> InFlight \cup Ended \cup {"idle"}]
      BY <1>9 DEF UndoRecord, Undo, NextUndo, Escape, Fail, InFlight, Ended, Checks, Makes
    <3>3. /\ flags' \in [Requests -> SUBSET Kinds]
          /\ undo' \in [Requests -> SUBSET Kinds]
          /\ errors' \in [Requests -> SUBSET Kinds]
          /\ late' \in [Requests -> SUBSET Kinds]
      BY <1>9 DEF UndoRecord, Undo, NextUndo, Escape, Fail, Kinds
    <3>4. /\ dirs' \subseteq Dirs /\ envs' \subseteq Envs /\ dbs' \subseteq Dbs
          /\ blocks' \in [Names -> Ports \cup {NoPort}] /\ records' \subseteq Requests
      BY <1>9, <1>a DEF UndoRecord, Undo, NextUndo, Escape, Fail
    <3>5. QED
      BY <3>1, <3>2, <3>3, <3>4
  <2>4. QED
    BY <2>1, <2>2, <2>3
<1>10. CASE UndoDb(q)
  <2>1. payload' = payload /\ KeepsOthers(q)
    BY <1>10 DEF UndoDb, Undo, NextUndo, Escape, Fits, Asked, KeepsOthers, Fail
  <2>2. TouchesOwn(q)
    BY <1>10 DEF UndoDb, Undo, NextUndo, Escape, Fits, Asked, TouchesOwn, Fail
  <2>3. TypeOK'
    <3>1. /\ payload' \in [Requests -> Payloads]
          /\ overlap' \in [Requests -> SUBSET Requests]
      BY <1>10 DEF UndoDb, Undo, NextUndo, Escape, Fits, Asked, Fail
    <3>2. pc' \in [Requests -> InFlight \cup Ended \cup {"idle"}]
      BY <1>10 DEF UndoDb, Undo, NextUndo, Escape, Fits, Asked, Fail, InFlight, Ended,
         Checks, Makes
    <3>3. /\ flags' \in [Requests -> SUBSET Kinds]
          /\ undo' \in [Requests -> SUBSET Kinds]
          /\ errors' \in [Requests -> SUBSET Kinds]
          /\ late' \in [Requests -> SUBSET Kinds]
      BY <1>10 DEF UndoDb, Undo, NextUndo, Escape, Fits, Asked, Fail, Kinds
    <3>4. /\ dirs' \subseteq Dirs /\ envs' \subseteq Envs /\ dbs' \subseteq Dbs
          /\ blocks' \in [Names -> Ports \cup {NoPort}] /\ records' \subseteq Requests
      BY <1>10, <1>a DEF UndoDb, Undo, NextUndo, Escape, Fits, Asked, Fail
    <3>5. QED
      BY <3>1, <3>2, <3>3, <3>4
  <2>4. QED
    BY <2>1, <2>2, <2>3
<1>11. CASE UndoNginx(q)
  <2>1. payload' = payload /\ KeepsOthers(q)
    BY <1>11 DEF UndoNginx, Undo, NextUndo, Escape, Fits, Asked, KeepsOthers, Fail
  <2>2. TouchesOwn(q)
    BY <1>11 DEF UndoNginx, Undo, NextUndo, Escape, Fits, Asked, TouchesOwn, Fail
  <2>3. TypeOK'
    <3>1. /\ payload' \in [Requests -> Payloads]
          /\ overlap' \in [Requests -> SUBSET Requests]
      BY <1>11 DEF UndoNginx, Undo, NextUndo, Escape, Fits, Asked, Fail
    <3>2. pc' \in [Requests -> InFlight \cup Ended \cup {"idle"}]
      BY <1>11 DEF UndoNginx, Undo, NextUndo, Escape, Fits, Asked, Fail, InFlight, Ended,
         Checks, Makes
    <3>3. /\ flags' \in [Requests -> SUBSET Kinds]
          /\ undo' \in [Requests -> SUBSET Kinds]
          /\ errors' \in [Requests -> SUBSET Kinds]
          /\ late' \in [Requests -> SUBSET Kinds]
      BY <1>11 DEF UndoNginx, Undo, NextUndo, Escape, Fits, Asked, Fail, Kinds
    <3>4. /\ dirs' \subseteq Dirs /\ envs' \subseteq Envs /\ dbs' \subseteq Dbs
          /\ blocks' \in [Names -> Ports \cup {NoPort}] /\ records' \subseteq Requests
      BY <1>11, <1>a DEF UndoNginx, Undo, NextUndo, Escape, Fits, Asked, Fail
    <3>5. QED
      BY <3>1, <3>2, <3>3, <3>4
  <2>4. QED
    BY <2>1, <2>2, <2>3
<1>12. CASE UndoConda(q)
  <2>1. payload' = payload /\ KeepsOthers(q)
    BY <1>12 DEF UndoConda, Undo, NextUndo, Escape, KeepsOthers, Fail
  <2>2. TouchesOwn(q)
    BY <1>12 DEF UndoConda, Undo, NextUndo, Escape, TouchesOwn, Fail
  <2>3. TypeOK'
    <3>1. /\ payload' \in [Requests -> Payloads]
          /\ overlap' \in [Requests -> SUBSET Requests]
      BY <1>12 DEF UndoConda, Undo, NextUndo, Escape, Fail
    <3>2. pc' \in [Requests -> InFlight \cup Ended \cup {"idle"}]
      BY <1>12 DEF UndoConda, Undo, NextUndo, Escape, Fail, InFlight, Ended, Checks, Makes
    <3>3. /\ flags' \in [Requests -> SUBSET Kinds]
          /\ undo' \in [Requests -> SUBSET Kinds]
          /\ errors' \in [Requests -> SUBSET Kinds]
          /\ late' \in [Requests -> SUBSET Kinds]
      BY <1>12 DEF UndoConda, Undo, NextUndo, Escape, Fail, Kinds
    <3>4. /\ dirs' \subseteq Dirs /\ envs' \subseteq Envs /\ dbs' \subseteq Dbs
          /\ blocks' \in [Names -> Ports \cup {NoPort}] /\ records' \subseteq Requests
      BY <1>12, <1>a DEF UndoConda, Undo, NextUndo, Escape, Fail
    <3>5. QED
      BY <3>1, <3>2, <3>3, <3>4
  <2>4. QED
    BY <2>1, <2>2, <2>3
<1>13. CASE UndoDir(q)
  <2>1. payload' = payload /\ KeepsOthers(q)
    BY <1>13 DEF UndoDir, Undo, NextUndo, Escape, KeepsOthers, Fail
  <2>2. TouchesOwn(q)
    BY <1>13 DEF UndoDir, Undo, NextUndo, Escape, TouchesOwn, Fail
  <2>3. TypeOK'
    <3>1. /\ payload' \in [Requests -> Payloads]
          /\ overlap' \in [Requests -> SUBSET Requests]
      BY <1>13 DEF UndoDir, Undo, NextUndo, Escape, Fail
    <3>2. pc' \in [Requests -> InFlight \cup Ended \cup {"idle"}]
      BY <1>13 DEF UndoDir, Undo, NextUndo, Escape, Fail, InFlight, Ended, Checks, Makes
    <3>3. /\ flags' \in [Requests -> SUBSET Kinds]
          /\ undo' \in [Requests -> SUBSET Kinds]
          /\ errors' \in [Requests -> SUBSET Kinds]
          /\ late' \in [Requests -> SUBSET Kinds]
      BY <1>13 DEF UndoDir, Undo, NextUndo, Escape, Fail, Kinds
    <3>4. /\ dirs' \subseteq Dirs /\ envs' \subseteq Envs /\ dbs' \subseteq Dbs
          /\ blocks' \in [Names -> Ports \cup {NoPort}] /\ records' \subseteq Requests
      BY <1>13, <1>a DEF UndoDir, Undo, NextUndo, Escape, Fail
    <3>5. QED
      BY <3>1, <3>2, <3>3, <3>4
  <2>4. QED
    BY <2>1, <2>2, <2>3
<1>14. QED
  BY <1>1, <1>2, <1>3, <1>4, <1>5, <1>6, <1>7, <1>8, <1>9, <1>10, <1>11,
     <1>12, <1>13
     DEF Handle, Forward, Backward

-----------------------------------------------------------------------------
(* The parts of the invariant, for the other requests and for q itself.    *)

\* No step of q makes or removes what a request r asks for that shares nothing with it.
LEMMA HasFrame ==
  ASSUME TypeOK, NEW q \in Requests, NEW r \in Requests \ {q},
         payload' = payload, TouchesOwn(q), ~Shares(payload[q], payload[r])
  PROVE  \A k \in Kinds : Has(r, k)' <=> Has(r, k)
<1>1. /\ payload[q].dir # payload[r].dir
      /\ payload[q].env # payload[r].env
      /\ UsesDb(q) => payload[q].db # payload[r].db
      /\ UsesNginx(q) /\ UsesNginx(r) => payload[q].name # payload[r].name
  BY DEF Shares, UsesDb, UsesNginx
<1>2. CASE UNCHANGED resources
  BY <1>2 DEF resources, Has, UsesNginx
<1>3. CASE /\ dirs' \in {dirs \cup {payload[q].dir}, dirs \ {payload[q].dir}}
           /\ UNCHANGED <<envs, dbs, blocks, records>>
  BY <1>1, <1>3 DEF Has, UsesNginx
<1>4. CASE /\ envs' \in {envs \cup {payload[q].env}, envs \ {payload[q].env}}
           /\ UNCHANGED <<dirs, dbs, blocks, records>>
  BY <1>1, <1>4 DEF Has, UsesNginx
<1>5. CASE /\ UsesDb(q)
           /\ dbs' \in {dbs \cup {payload[q].db}, dbs \ {payload[q].db}}
           /\ UNCHANGED <<dirs, envs, blocks, records>>
  BY <1>1, <1>5 DEF Has, UsesNginx
<1>6. CASE /\ UsesNginx(q)
           /\ \E p \in {payload[q].port, NoPort} :
                blocks' = [blocks EXCEPT ![payload[q].name] = p]
           /\ UNCHANGED <<dirs, envs, dbs, records>>
  <2>1. payload[r].name \in Names
    BY PayloadShape DEF TypeOK
  <2>2. UsesNginx(r) => blocks'[payload[r].name] = blocks[payload[r].name]
    BY <1>1, <1>6, <2>1 DEF TypeOK
  <2>3. QED
    BY <1>6, <2>2 DEF Has, UsesNginx
<1>7. CASE /\ records' \in {records \cup {q}, records \ {q}}
           /\ UNCHANGED <<dirs, envs, dbs, blocks>>
  BY <1>7 DEF Has, UsesNginx
<1>8. QED
  BY <1>2, <1>3, <1>4, <1>5, <1>6, <1>7 DEF TouchesOwn

\* A step of q keeps the parts of the invariant that speak of another request.
LEMMA OthersKept ==
  ASSUME TypeOK, NEW q \in Requests, NEW r \in Requests \ {q},
         payload' = payload, TouchesOwn(q), KeepsOthers(q), Parts(r)
  PROVE  Parts(r)'
<1>1. /\ pc'[r] = pc[r] /\ flags'[r] = flags[r] /\ undo'[r] = undo[r]
      /\ errors'[r] = errors[r] /\ late'[r] = late[r]
  BY DEF KeepsOthers
<1>2. /\ Exclusive(r)' <=> Exclusive(r)
      /\ Asked(r)' = Asked(r)
      /\ UsesDb(r)' <=> UsesDb(r)
      /\ UsesNginx(r)' <=> UsesNginx(r)
  BY DEF Exclusive, Asked, UsesDb, UsesNginx
<1>3. Exclusive(r) => \A k \in Kinds : Has(r, k)' <=> Has(r, k)
  BY HasFrame DEF Exclusive
<1>4. r \in records' <=> r \in records
  BY DEF TouchesOwn, resources
<1>5. Asked(r) \subseteq Kinds /\ flags[r] \subseteq Kinds
  BY DEF Asked, Kinds, TypeOK
<1>6. Fits(r)'
  BY <1>1, <1>2 DEF Parts, Fits, Checks
<1>7. Reached(r)' = Reached(r)
  BY <1>1, <1>2 DEF Reached
<1>8. Progress(r)'
  BY <1>1, <1>2, <1>3, <1>5, <1>7 DEF Parts, Progress, Forth, Makes
<1>9. RowInv(r)'
  BY <1>1, <1>2, <1>3, <1>4, <1>5 DEF Parts, RowInv
<1>10. LeftInv(r)'
  BY <1>1, <1>2, <1>3 DEF Parts, LeftInv, Kinds
<1>11. QED
  BY <1>6, <1>8, <1>9, <1>10 DEF Parts

\* A step of q keeps the parts of the invariant that speak of q.
LEMMA OwnKept ==
  ASSUME TypeOK, NEW q \in Requests, Parts(q), Submit(q) \/ Handle(q)
  PROVE  Parts(q)'
<1> USE DEF GoTo, resources
<1>a. payload' = payload
  BY StepShape DEF Parts
<1>b. /\ Exclusive(q)' <=> Exclusive(q)
      /\ Asked(q)' = Asked(q)
      /\ UsesDb(q)' <=> UsesDb(q)
      /\ UsesNginx(q)' <=> UsesNginx(q)
  BY <1>a DEF Exclusive, Asked, UsesDb, UsesNginx
<1>c. /\ pc \in [Requests -> InFlight \cup Ended \cup {"idle"}]
      /\ flags \in [Requests -> SUBSET Kinds]
      /\ undo \in [Requests -> SUBSET Kinds]
      /\ errors \in [Requests -> SUBSET Kinds]
      /\ late \in [Requests -> SUBSET Kinds]
      /\ blocks \in [Names -> Ports \cup {NoPort}]
      /\ payload[q].name \in Names
  BY PayloadShape DEF TypeOK
<1>d. Fits(q) /\ Progress(q) /\ RowInv(q) /\ LeftInv(q)
  BY DEF Parts
<1>1. CASE Submit(q)
  <2>1. Fits(q)'
    BY <1>a, <1>b, <1>c, <1>d, <1>1 DEF Submit, Fail, Fits, Checks, Asked, Kinds
  <2>2. Progress(q)'
    BY <1>a, <1>b, <1>c, <1>d, <1>1 DEF Submit, Fail, Fits, Progress,
       Reached, Forth, Makes, Checks, Has, Asked
  <2>3. RowInv(q)'
    BY <1>a, <1>b, <1>c, <1>d, <1>1 DEF Submit, Fail, Fits, Progress,
       RowInv, Reached, Forth, Makes, Checks, Has, Asked
  <2>4. LeftInv(q)'
    BY <1>a, <1>b, <1>c, <1>d, <1>1 DEF Submit, Fail, Fits, LeftInv,
       Checks, Has, Kinds
  <2>5. QED
    BY <2>1, <2>2, <2>3, <2>4 DEF Parts
<1>2. CASE Preflight(q)
  <2>1. Fits(q)'
    BY <1>a, <1>b, <1>c, <1>d, <1>2 DEF Preflight, CheckAccess, CheckName,
       CheckConda, CheckDb, CheckPorts, Check, AfterConda, AfterDb, Fail,
       Fits, Checks, Asked, Kinds
  <2>2. Progress(q)'
    BY <1>a, <1>b, <1>c, <1>d, <1>2 DEF Preflight, CheckAccess, CheckName,
       CheckConda, CheckDb, CheckPorts, Check, AfterConda, AfterDb, Fail,
       Fits, Progress, Reached, Forth, Makes, Checks, Has, Asked
  <2>3. RowInv(q)'
    BY <1>a, <1>b, <1>c, <1>d, <1>2 DEF Preflight, CheckAccess, CheckName,
       CheckConda, CheckDb, CheckPorts, Check, AfterConda, AfterDb, Fail,
       Fits, Progress, RowInv, Reached, Forth, Makes, Checks, Has, Asked
  <2>4. LeftInv(q)'
    BY <1>a, <1>b, <1>c, <1>d, <1>2 DEF Preflight, CheckAccess, CheckName,
       CheckConda, CheckDb, CheckPorts, Check, AfterConda, AfterDb, Fail,
       Fits, LeftInv, Checks, Has, Kinds
  <2>5. QED
    BY <2>1, <2>2, <2>3, <2>4 DEF Parts
<1>3. CASE MkdirDist(q) \/ CheckPython(q) \/ Log(q)
  <2>1. Fits(q)'
    BY <1>a, <1>b, <1>c, <1>d, <1>3 DEF MkdirDist, CheckPython, Log, Pass,
       AfterPython, Fail, Fits, Checks, Asked, Kinds
  <2>2. Progress(q)'
    BY <1>a, <1>b, <1>c, <1>d, <1>3 DEF MkdirDist, CheckPython, Log, Pass,
       AfterPython, Fail, Fits, Progress, Reached, Forth, Makes, Checks,
       Has, Asked
  <2>3. RowInv(q)'
    BY <1>a, <1>b, <1>c, <1>d, <1>3 DEF MkdirDist, CheckPython, Log, Pass,
       AfterPython, Fail, Fits, Progress, RowInv, Reached, Forth, Makes,
       Checks, Has, Asked
  <2>4. LeftInv(q)'
    BY <1>a, <1>b, <1>c, <1>d, <1>3 DEF MkdirDist, CheckPython, Log, Pass,
       AfterPython, Fail, Fits, LeftInv, Checks, Has, Kinds
  <2>5. QED
    BY <2>1, <2>2, <2>3, <2>4 DEF Parts
<1>4. CASE Mkdir(q)
  <2>1. Fits(q)'
    BY <1>a, <1>b, <1>c, <1>d, <1>4 DEF Mkdir, Attempt, MakeDir,
       AfterMkdir, Fail, Fits, Checks, Asked, Kinds
  <2>2. Progress(q)'
    BY <1>a, <1>b, <1>c, <1>d, <1>4 DEF Mkdir, Attempt, MakeDir,
       AfterMkdir, Fail, Fits, Progress, Reached, Forth, Makes, Checks,
       Has, Asked
  <2>3. RowInv(q)'
    BY <1>a, <1>b, <1>c, <1>d, <1>4 DEF Mkdir, Attempt, MakeDir,
       AfterMkdir, Fail, Fits, Progress, RowInv, Reached, Forth, Makes,
       Checks, Has, Asked
  <2>4. LeftInv(q)'
    BY <1>a, <1>b, <1>c, <1>d, <1>4 DEF Mkdir, Attempt, MakeDir,
       AfterMkdir, Fail, Fits, LeftInv, Checks, Has, Kinds
  <2>5. QED
    BY <2>1, <2>2, <2>3, <2>4 DEF Parts
<1>5. CASE CondaCreate(q)
  <2>1. Fits(q)'
    BY <1>a, <1>b, <1>c, <1>d, <1>5 DEF CondaCreate, Attempt, MakeEnv,
       Fail, Fits, Checks, Asked, Kinds
  <2>2. Progress(q)'
    BY <1>a, <1>b, <1>c, <1>d, <1>5 DEF CondaCreate, Attempt, MakeEnv,
       Fail, Fits, Progress, Reached, Forth, Makes, Checks, Has, Asked
  <2>3. RowInv(q)'
    BY <1>a, <1>b, <1>c, <1>d, <1>5 DEF CondaCreate, Attempt, MakeEnv,
       Fail, Fits, Progress, RowInv, Reached, Forth, Makes, Checks, Has,
       Asked
  <2>4. LeftInv(q)'
    BY <1>a, <1>b, <1>c, <1>d, <1>5 DEF CondaCreate, Attempt, MakeEnv,
       Fail, Fits, LeftInv, Checks, Has, Kinds
  <2>5. QED
    BY <2>1, <2>2, <2>3, <2>4 DEF Parts
<1>6. CASE CreateDb(q)
  <2>1. Fits(q)'
    BY <1>a, <1>b, <1>c, <1>d, <1>6 DEF CreateDb, Attempt, MakeDb,
       AfterCreateDb, Fail, Fits, Checks, Asked, Kinds
  <2>2. Progress(q)'
    BY <1>a, <1>b, <1>c, <1>d, <1>6 DEF CreateDb, Attempt, MakeDb,
       AfterCreateDb, Fail, Fits, Progress, Reached, Forth, Makes, Checks,
       Has, Asked
  <2>3. RowInv(q)'
    BY <1>a, <1>b, <1>c, <1>d, <1>6 DEF CreateDb, Attempt, MakeDb,
       AfterCreateDb, Fail, Fits, Progress, RowInv, Reached, Forth, Makes,
       Checks, Has, Asked
  <2>4. LeftInv(q)'
    BY <1>a, <1>b, <1>c, <1>d, <1>6 DEF CreateDb, Attempt, MakeDb,
       AfterCreateDb, Fail, Fits, LeftInv, Checks, Has, Kinds
  <2>5. QED
    BY <2>1, <2>2, <2>3, <2>4 DEF Parts
<1>7. CASE ApplyNginx(q)
  <2>1. Fits(q)'
    BY <1>a, <1>b, <1>c, <1>d, <1>7 DEF ApplyNginx, Attempt, MakeBlock,
       Fail, Fits, Checks, Asked, Kinds
  <2>2. Progress(q)'
    BY <1>a, <1>b, <1>c, <1>d, <1>7 DEF ApplyNginx, Attempt, MakeBlock,
       Fail, Fits, Progress, Reached, Forth, Makes, Checks, Has, Asked
  <2>3. RowInv(q)'
    BY <1>a, <1>b, <1>c, <1>d, <1>7 DEF ApplyNginx, Attempt, MakeBlock,
       Fail, Fits, Progress, RowInv, Reached, Forth, Makes, Checks, Has,
       Asked
  <2>4. LeftInv(q)'
    BY <1>a, <1>b, <1>c, <1>d, <1>7 DEF ApplyNginx, Attempt, MakeBlock,
       Fail, Fits, LeftInv, Checks, Has, Kinds
  <2>5. QED
    BY <2>1, <2>2, <2>3, <2>4 DEF Parts
<1>8. CASE Insert(q)
  <2>1. Fits(q)'
    BY <1>a, <1>b, <1>c, <1>d, <1>8 DEF Insert, Attempt, MakeRecord, Fail,
       Fits, Checks, Asked, Kinds
  <2>2. Progress(q)'
    BY <1>a, <1>b, <1>c, <1>d, <1>8 DEF Insert, Attempt, MakeRecord, Fail,
       Fits, Progress, Reached, Forth, Makes, Checks, Has, Asked
  <2>3. RowInv(q)'
    BY <1>a, <1>b, <1>c, <1>d, <1>8 DEF Insert, Attempt, MakeRecord, Fail,
       Fits, Progress, RowInv, Reached, Forth, Makes, Checks, Has, Asked
  <2>4. LeftInv(q)'
    BY <1>a, <1>b, <1>c, <1>d, <1>8 DEF Insert, Attempt, MakeRecord, Fail,
       Fits, LeftInv, Checks, Has, Kinds
  <2>5. QED
    BY <2>1, <2>2, <2>3, <2>4 DEF Parts
<1>9. CASE UndoRecord(q)
  <2>1. Fits(q)'
    BY <1>a, <1>b, <1>c, <1>d, <1>9 DEF UndoRecord, Undo, NextUndo, Escape, RollbackRank,
       Fail, Fits, Checks, Asked, Kinds
  <2>2. Progress(q)'
    BY <1>a, <1>b, <1>c, <1>d, <1>9 DEF UndoRecord, Undo, NextUndo, Escape, RollbackRank,
       Fail, Fits, Progress, Reached, Forth, Makes, Checks, Has, Asked
  <2>3. RowInv(q)'
    BY <1>a, <1>b, <1>c, <1>d, <1>9 DEF UndoRecord, Undo, NextUndo, Escape, RollbackRank,
       Fail, Fits, Progress, RowInv, Reached, Forth, Makes, Checks, Has,
       Asked
  <2>4. LeftInv(q)'
    BY <1>a, <1>b, <1>c, <1>d, <1>9 DEF UndoRecord, Undo, NextUndo, Escape, RollbackRank,
       Fail, Fits, LeftInv, Checks, Has, Kinds
  <2>5. QED
    BY <2>1, <2>2, <2>3, <2>4 DEF Parts
<1>10. CASE UndoDb(q)
  <2>1. Fits(q)'
    BY <1>a, <1>b, <1>c, <1>d, <1>10 DEF UndoDb, Undo, NextUndo, Escape, RollbackRank, Fail,
       Fits, Checks, Asked, Kinds
  <2>2. Progress(q)'
    BY <1>a, <1>b, <1>c, <1>d, <1>10 DEF UndoDb, Undo, NextUndo, Escape, RollbackRank, Fail,
       Fits, Progress, Reached, Forth, Makes, Checks, Has, Asked
  <2>3. RowInv(q)'
    BY <1>a, <1>b, <1>c, <1>d, <1>10 DEF UndoDb, Undo, NextUndo, Escape, RollbackRank, Fail,
       Fits, Progress, RowInv, Reached, Forth, Makes, Checks, Has, Asked
  <2>4. LeftInv(q)'
    BY <1>a, <1>b, <1>c, <1>d, <1>10 DEF UndoDb, Undo, NextUndo, Escape, RollbackRank, Fail,
       Fits, LeftInv, Checks, Has, Kinds
  <2>5. QED
    BY <2>1, <2>2, <2>3, <2>4 DEF Parts
<1>11. CASE UndoNginx(q)
  <2>1. Fits(q)'
    BY <1>a, <1>b, <1>c, <1>d, <1>11 DEF UndoNginx, Undo, NextUndo, Escape, RollbackRank,
       Fail, Fits, Checks, Asked, Kinds
  <2>2. Progress(q)'
    BY <1>a, <1>b, <1>c, <1>d, <1>11 DEF UndoNginx, Undo, NextUndo, Escape, RollbackRank,
       Fail, Fits, Progress, Reached, Forth, Makes, Checks, Has, Asked
  <2>3. RowInv(q)'
    BY <1>a, <1>b, <1>c, <1>d, <1>11 DEF UndoNginx, Undo, NextUndo, Escape, RollbackRank,
       Fail, Fits, Progress, RowInv, Reached, Forth, Makes, Checks, Has,
       Asked
  <2>4. LeftInv(q)'
    BY <1>a, <1>b, <1>c, <1>d, <1>11 DEF UndoNginx, Undo, NextUndo, Escape, RollbackRank,
       Fail, Fits, LeftInv, Checks, Has, Kinds, UsesNginx
  <2>5. QED
    BY <2>1, <2>2, <2>3, <2>4 DEF Parts
<1>12. CASE UndoConda(q)
  <2>1. Fits(q)'
    BY <1>a, <1>b, <1>c, <1>d, <1>12 DEF UndoConda, Undo, NextUndo, Escape, RollbackRank,
       Fail, Fits, Checks, Asked, Kinds
  <2>2. Progress(q)'
    BY <1>a, <1>b, <1>c, <1>d, <1>12 DEF UndoConda, Undo, NextUndo, Escape, RollbackRank,
       Fail, Fits, Progress, Reached, Forth, Makes, Checks, Has, Asked
  <2>3. RowInv(q)'
    BY <1>a, <1>b, <1>c, <1>d, <1>12 DEF UndoConda, Undo, NextUndo, Escape, RollbackRank,
       Fail, Fits, Progress, RowInv, Reached, Forth, Makes, Checks, Has,
       Asked
  <2>4. LeftInv(q)'
    BY <1>a, <1>b, <1>c, <1>d, <1>12 DEF UndoConda, Undo, NextUndo, Escape, RollbackRank,
       Fail, Fits, LeftInv, Checks, Has, Kinds
  <2>5. QED
    BY <2>1, <2>2, <2>3, <2>4 DEF Parts
<1>13. CASE UndoDir(q)
  <2>1. Fits(q)'
    BY <1>a, <1>b, <1>c, <1>d, <1>13 DEF UndoDir, Undo, NextUndo, Escape, RollbackRank, Fail,
       Fits, Checks, Asked, Kinds
  <2>2. Progress(q)'
    BY <1>a, <1>b, <1>c, <1>d, <1>13 DEF UndoDir, Undo, NextUndo, Escape, RollbackRank, Fail,
       Fits, Progress, Reached, Forth, Makes, Checks, Has, Asked
  <2>3. RowInv(q)'
    BY <1>a, <1>b, <1>c, <1>d, <1>13 DEF UndoDir, Undo, NextUndo, Escape, RollbackRank, Fail,
       Fits, Progress, RowInv, Reached, Forth, Makes, Checks, Has, Asked
  <2>4. LeftInv(q)'
    BY <1>a, <1>b, <1>c, <1>d, <1>13 DEF UndoDir, Undo, NextUndo, Escape, RollbackRank, Fail,
       Fits, LeftInv, Checks, Has, Kinds
  <2>5. QED
    BY <2>1, <2>2, <2>3, <2>4 DEF Parts
<1>14. QED
  BY <1>1, <1>2, <1>3, <1>4, <1>5, <1>6, <1>7, <1>8, <1>9, <1>10, <1>11,
     <1>12, <1>13
     DEF Handle, Forward, Backward

-----------------------------------------------------------------------------
(* The holder of a database.                                               *)

\* Steps that drop no database and make no holder.
LEMMA HolderFrame ==
  ASSUME DatabaseHasOneHolder, payload' = payload, dbs \subseteq dbs',
         \A r \in Requests : HoldsDb(r)' => HoldsDb(r)
  PROVE  DatabaseHasOneHolder'
BY DEF DatabaseHasOneHolder

\* Only CREATE DATABASE makes a holder, and only a holder drops its database.
LEMMA HolderKept ==
  ASSUME TypeOK, DatabaseHasOneHolder, NEW q \in Requests, Parts(q),
         Submit(q) \/ Handle(q)
  PROVE  DatabaseHasOneHolder'
<1> USE DEF GoTo, resources
<1>a. payload' = payload /\ KeepsOthers(q)
  BY StepShape DEF Parts
<1>b. \A r \in Requests \ {q} : HoldsDb(r)' <=> HoldsDb(r)
  BY <1>a DEF HoldsDb, KeepsOthers
<1>c. Fits(q)
  BY DEF Parts
<1>d. /\ pc \in [Requests -> InFlight \cup Ended \cup {"idle"}]
      /\ flags \in [Requests -> SUBSET Kinds]
      /\ undo \in [Requests -> SUBSET Kinds]
  BY DEF TypeOK
<1>1. CASE Submit(q) \/ Preflight(q)
  <2>1. ~HoldsDb(q)'
    BY <1>1, <1>c, <1>d DEF Submit, Preflight, CheckAccess, CheckName,
       CheckConda,
       CheckDb, CheckPorts, Check, AfterConda, AfterDb, HoldsDb, Fits, Checks, Makes
  <2>2. dbs' = dbs
    BY <1>1 DEF Submit, Preflight, CheckAccess, CheckName, CheckConda, CheckDb,
       CheckPorts, Check
  <2>3. QED
    BY <1>a, <1>b, <2>1, <2>2, HolderFrame
<1>2. CASE MkdirDist(q) \/ CheckPython(q) \/ Log(q)
  <2>1. HoldsDb(q)' => HoldsDb(q)
    BY <1>2, <1>d DEF MkdirDist, CheckPython, Log, Pass, Fail, HoldsDb, Makes
  <2>2. dbs' = dbs
    BY <1>2 DEF MkdirDist, CheckPython, Log, Pass
  <2>3. QED
    BY <1>a, <1>b, <2>1, <2>2, HolderFrame
<1>3. CASE Mkdir(q) \/ CondaCreate(q) \/ ApplyNginx(q) \/ Insert(q)
  <2>1. HoldsDb(q)' => HoldsDb(q)
    BY <1>3, <1>d DEF Mkdir, CondaCreate, ApplyNginx, Insert, Attempt,
       Fail, HoldsDb,
       Makes
  <2>2. dbs' = dbs
    BY <1>3 DEF Mkdir, CondaCreate, ApplyNginx, Insert, Attempt, MakeDir,
       MakeEnv,
       MakeBlock, MakeRecord
  <2>3. QED
    BY <1>a, <1>b, <2>1, <2>2, HolderFrame
<1>4. CASE CreateDb(q)
  <2>1. CASE flags'[q] = flags[q] \cup {"db"} /\ MakeDb(q)
    BY <1>4, <1>a, <1>b, <2>1 DEF DatabaseHasOneHolder, MakeDb
  <2>2. CASE Fail(q) /\ dbs \subseteq dbs'
    <3>1. HoldsDb(q)' => HoldsDb(q)
      BY <1>4, <1>d, <2>2 DEF CreateDb, Attempt, Fail, HoldsDb, Makes
    <3>2. QED
      BY <1>a, <1>b, <2>2, <3>1, HolderFrame
  <2>3. QED
    BY <1>4, <1>d, <2>1, <2>2 DEF CreateDb, Attempt, MakeDb
<1>5. CASE UndoDb(q)
  <2>1. HoldsDb(q) /\ ~HoldsDb(q)'
    BY <1>5, <1>c, <1>d DEF UndoDb, Undo, NextUndo, Escape, HoldsDb, Fits, Makes
  <2>2. dbs' = dbs \/ dbs' = dbs \ {payload[q].db}
    BY <1>5 DEF UndoDb, Undo, NextUndo, Escape
  <2>3. QED
    BY <1>a, <1>b, <2>1, <2>2 DEF DatabaseHasOneHolder
<1>6. CASE UndoRecord(q) \/ UndoNginx(q) \/ UndoConda(q) \/ UndoDir(q)
  <2>1. HoldsDb(q)' => HoldsDb(q)
    BY <1>6, <1>d DEF UndoRecord, UndoNginx, UndoConda, UndoDir, Undo, NextUndo, Escape,
       HoldsDb, Makes
  <2>2. dbs' = dbs
    BY <1>6 DEF UndoRecord, UndoNginx, UndoConda, UndoDir, Undo, NextUndo, Escape
  <2>3. QED
    BY <1>a, <1>b, <2>1, <2>2, HolderFrame
<1>7. QED
  BY <1>1, <1>2, <1>3, <1>4, <1>5, <1>6 DEF Handle, Forward, Backward

-----------------------------------------------------------------------------
(* The invariant.                                                          *)

\* The invariant holds at first.
LEMMA InitInv == Init => IInv
<1> SUFFICES ASSUME Init PROVE IInv
  OBVIOUS
<1>1. TypeOK
  BY DEF Init, TypeOK, Kinds
<1>2. ASSUME NEW r \in Requests PROVE Parts(r)
  <2>1. /\ payload[r].port \in Ports \cup {NoPort}
        /\ payload[r].name \in Names
        /\ pc[r] = "idle" /\ flags[r] = {} /\ undo[r] = {} /\ late[r] = {}
    BY PayloadShape DEF Init
  <2>2. Fits(r)
    BY <2>1 DEF Fits
  <2>3. Progress(r) /\ RowInv(r)
    BY <2>1 DEF Init, Progress, RowInv, Forth, Makes
  <2>4. LeftInv(r)
    BY <2>1 DEF Init, LeftInv, Has, UsesNginx
  <2>5. QED
    BY <2>2, <2>3, <2>4 DEF Parts
<1>3. DatabaseHasOneHolder
  BY DEF Init, DatabaseHasOneHolder, HoldsDb
<1>4. QED
  BY <1>1, <1>2, <1>3 DEF IInv

\* A restart strands the requests in flight: they no longer make or remove.
LEMMA RestartKeeps ==
  ASSUME IInv, Restart
  PROVE  IInv'
<1>a. UNCHANGED <<payload, flags, undo, errors, dirs, envs, dbs, blocks, records,
                  late, overlap>>
  BY DEF Restart, resources
<1>b. pc' = [r \in Requests |-> IF pc[r] \in InFlight THEN "lost" ELSE pc[r]]
  BY DEF Restart
<1>1. TypeOK'
  <2>1. pc' \in [Requests -> InFlight \cup Ended \cup {"idle"}]
    BY <1>b DEF IInv, TypeOK, Ended
  <2>2. QED
    BY <1>a, <2>1 DEF IInv, TypeOK
<1>2. ASSUME NEW r \in Requests PROVE Parts(r)'
  <2>1. /\ pc'[r] = pc[r] \/ pc'[r] = "lost"
        /\ pc'[r] # "lost" => pc'[r] = pc[r]
    BY <1>b
  <2>2. /\ Exclusive(r)' <=> Exclusive(r)
        /\ Asked(r)' = Asked(r) /\ UsesDb(r)' = UsesDb(r)
        /\ UsesNginx(r)' = UsesNginx(r)
        /\ \A k \in Kinds : Has(r, k)' <=> Has(r, k)
    BY <1>a DEF Exclusive, Asked, UsesDb, UsesNginx, Has
  <2>3. Parts(r) /\ Asked(r) \subseteq Kinds /\ flags[r] \subseteq Kinds
    BY DEF IInv, TypeOK, Asked, Kinds
  <2>4. Fits(r)'
    BY <1>a, <2>1, <2>2, <2>3 DEF Parts, Fits, Checks
  <2>5. Progress(r)'
    BY <1>a, <2>1, <2>2, <2>3 DEF Parts, Progress, Reached, Forth, Makes
  <2>6. RowInv(r)'
    BY <1>a, <2>1, <2>2, <2>3 DEF Parts, RowInv
  <2>7. LeftInv(r)'
    BY <1>a, <2>1, <2>2, <2>3 DEF Parts, LeftInv, Kinds
  <2>8. QED
    BY <2>4, <2>5, <2>6, <2>7 DEF Parts
<1>3. DatabaseHasOneHolder'
  <2>1. \A r \in Requests : HoldsDb(r)' => HoldsDb(r)
    BY <1>a, <1>b DEF HoldsDb, Makes
  <2>2. QED
    BY <1>a, <2>1, HolderFrame DEF IInv
<1>4. QED
  BY <1>1, <1>2, <1>3 DEF IInv

\* Every step keeps it.
LEMMA NextKeeps == IInv /\ [Next]_vars => IInv'
<1> SUFFICES ASSUME IInv, [Next]_vars PROVE IInv'
  OBVIOUS
<1>1. ASSUME NEW q \in Requests, Submit(q) \/ Handle(q) PROVE IInv'
  <2>1. TypeOK /\ Parts(q) /\ Fits(q)
    BY DEF IInv, Parts
  <2>2. payload' = payload /\ TouchesOwn(q) /\ KeepsOthers(q) /\ TypeOK'
    BY <1>1, <2>1, StepShape
  <2>3. \A r \in Requests \ {q} : Parts(r)'
    BY <2>1, <2>2, OthersKept DEF IInv
  <2>4. Parts(q)'
    BY <1>1, <2>1, OwnKept
  <2>5. DatabaseHasOneHolder'
    BY <1>1, <2>1, HolderKept DEF IInv
  <2>6. QED
    BY <2>2, <2>3, <2>4, <2>5 DEF IInv
<1>2. CASE UNCHANGED vars
  <2>1. TypeOK' /\ DatabaseHasOneHolder'
    BY <1>2 DEF vars, resources, IInv, TypeOK, DatabaseHasOneHolder, HoldsDb
  <2>2. ASSUME NEW r \in Requests PROVE Parts(r)'
    <3>1. Parts(r)
      BY DEF IInv
    <3>2. QED
      BY <1>2, <3>1 DEF vars, resources, Parts, Fits, Progress, RowInv, LeftInv,
         Reached, Exclusive, Asked, Has, UsesDb, UsesNginx
  <2>3. QED
    BY <2>1, <2>2 DEF IInv
<1>3. QED
  BY <1>1, <1>2, RestartKeeps DEF Next, Done

\* The inductive invariant holds in every reachable state.
THEOREM Invariance == Spec => []IInv
BY InitInv, NextKeeps, PTL DEF Spec

\* The variables keep their types, whatever the bodies ask for.
THEOREM TypeCorrect == Spec => []TypeOK
<1>1. IInv => TypeOK
  BY DEF IInv
<1>2. QED
  BY <1>1, Invariance, PTL

\* A listed project that shares nothing with another request is complete at
\* every moment, also in the middle of a rollback and after a restart.
THEOREM RowComesLastAndGoesFirst == Spec => []RecordLastInFirstOut
<1>1. IInv => RecordLastInFirstOut
  BY DEF IInv, Parts, RowInv, RecordLastInFirstOut
<1>2. QED
  BY <1>1, Invariance, PTL

\* A request that failed or was refused leaves nothing it did not report, except
\* what a step made while it reported a failure; a rollback that an exception cut
\* short leaves the environment and the directory besides, and nothing else.
THEOREM NothingIsLeftUnsaid == Spec => []LeftoversAreReported
<1>1. IInv => LeftoversAreReported
  <2> SUFFICES ASSUME IInv, NEW r \in Requests, Exclusive(r), NEW k \in Kinds, Has(r, k)
               PROVE  /\ pc[r] \in {"failed", "refused"} => k \in errors[r] \cup late[r]
                      /\ pc[r] = "broken" => k \in errors[r] \cup late[r] \cup {"conda", "dir"}
    BY DEF LeftoversAreReported, LeftOnly
  <2>1. QED
    BY DEF IInv, Parts, LeftInv, Fits
<1>2. QED
  BY <1>1, Invariance, PTL

\* A database has at most one request that may drop it, and is there as long as
\* that request counts on it, whatever the requests share.
THEOREM OneHolder == Spec => []DatabaseHasOneHolder
<1>1. IInv => DatabaseHasOneHolder
  BY DEF IInv
<1>2. QED
  BY <1>1, Invariance, PTL

-----------------------------------------------------------------------------
(* Requests that do not run together.                                      *)

\* Requests in flight at one moment know of each other.
Together(r) ==
  pc[r] \in InFlight => \A q \in Requests \ {r} : pc[q] \in InFlight => q \in overlap[r]

\* r shares nothing with those it ran together with.
Strangers(r) == \A q \in overlap[r] : ~Shares(payload[q], payload[r])

\* What such a request flagged on its way forward is there.
Kept(r) ==
  Strangers(r) /\ pc[r] \in Forth => \A k \in flags[r] \ Contested(r) : Has(r, k)

\* q has not come past the check that finds what r made, and never will.
Stopped(q, r) ==
  /\ UsesNginx(q) /\ UsesNginx(r) /\ payload[q].name = payload[r].name
       => pc[q] \in {"access", "checkName"} \/ payload[q].owner # payload[r].owner
  /\ payload[q].dir = payload[r].dir => pc[q] \in {"access", "checkName"}
  /\ payload[q].env = payload[r].env => pc[q] \in {"access", "checkName", "checkConda"}
  /\ payload[q].db = payload[r].db /\ UsesDb(q)
       => pc[q] \in {"access", "checkName", "checkConda", "checkDb"}

\* Whoever is in flight and did not run together with a created request is stopped.
Later(r) ==
  Strangers(r) /\ pc[r] = "created" =>
    \A q \in Requests \ {r} : pc[q] \in InFlight /\ q \notin overlap[r] => Stopped(q, r)

Apart(r) == Together(r) /\ Kept(r) /\ Later(r)

SInv == \A r \in Requests : Apart(r)

\* A step of the handler is one of a request in flight and changes nobody's history;
\* a submission changes only histories and its own label.
LEMMA StepHistory ==
  ASSUME TypeOK, NEW q \in Requests
  PROVE  /\ Handle(q) => pc[q] \in InFlight /\ overlap' = overlap
         /\ Submit(q) => /\ pc[q] = "idle" /\ pc'[q] = "access" /\ resources' = resources
                         /\ \A r \in Requests \ {q} : overlap[r] \subseteq overlap'[r]
                         /\ \A r \in Requests \ {q} : pc[r] \notin InFlight => overlap'[r] = overlap[r]
                         /\ \A r \in Requests \ {q} :
                              pc[r] \in InFlight => q \in overlap'[r] /\ r \in overlap'[q]
<1>1. Handle(q) => pc[q] \in InFlight /\ overlap' = overlap
  <2>1. Preflight(q) => pc[q] \in InFlight /\ overlap' = overlap
    BY DEF Preflight, CheckAccess, CheckName, CheckConda, CheckDb, CheckPorts, Check,
       InFlight, Checks
  <2>2. Forward(q) => pc[q] \in InFlight /\ overlap' = overlap
    BY DEF Forward, Mkdir, MkdirDist, CondaCreate, CheckPython, CreateDb, ApplyNginx,
       Insert, Log, Attempt, Pass, InFlight, Makes
  <2>3. Backward(q) => pc[q] \in InFlight /\ overlap' = overlap
    BY DEF Backward, UndoRecord, UndoDb, UndoNginx, UndoConda, UndoDir, Undo, NextUndo, Escape, InFlight
  <2> QED BY <2>1, <2>2, <2>3 DEF Handle
<1>2. ASSUME Submit(q)
      PROVE  /\ pc[q] = "idle" /\ pc'[q] = "access" /\ resources' = resources
             /\ \A r \in Requests \ {q} : overlap[r] \subseteq overlap'[r]
             /\ \A r \in Requests \ {q} : pc[r] \notin InFlight => overlap'[r] = overlap[r]
             /\ \A r \in Requests \ {q} :
                  pc[r] \in InFlight => q \in overlap'[r] /\ r \in overlap'[q]
  <2> DEFINE now == {r \in Requests \ {q} : pc[r] \in InFlight}
  <2>1. overlap' = [r \in Requests |->
                     IF r = q THEN now ELSE IF r \in now THEN overlap[r] \cup {q} ELSE overlap[r]]
    BY <1>2 DEF Submit
  <2>2. pc[q] = "idle" /\ pc'[q] = "access" /\ resources' = resources
    BY <1>2 DEF Submit, GoTo, TypeOK
  <2>3. \A r \in Requests \ {q} :
          /\ pc[r] \notin InFlight => overlap'[r] = overlap[r]
          /\ overlap[r] \subseteq overlap'[r]
          /\ pc[r] \in InFlight => q \in overlap'[r] /\ r \in overlap'[q]
    BY <2>1
  <2> QED BY <2>2, <2>3
<1> QED BY <1>1, <1>2

\* The two bodies name one directory, one environment, one database or, for one owner,
\* one server block.
Meets(q, r) == \/ payload[q].dir = payload[r].dir
               \/ payload[q].env = payload[r].env
               \/ payload[q].db = payload[r].db /\ UsesDb(q)
               \/ /\ payload[q].name = payload[r].name /\ payload[q].owner = payload[r].owner
                  /\ UsesNginx(q) /\ UsesNginx(r)

\* A step of q changes only the contested block of a request r that it does not meet.
LEMMA MeetFrame ==
  ASSUME TypeOK, NEW q \in Requests, NEW r \in Requests \ {q},
         payload' = payload, TouchesOwn(q), ~Meets(q, r)
  PROVE  \A k \in Kinds \ Contested(r) : Has(r, k)' <=> Has(r, k)
<1>1. CASE UNCHANGED resources
  BY <1>1 DEF Has, UsesNginx, resources
<1>2. CASE dirs' \in {dirs \cup {payload[q].dir}, dirs \ {payload[q].dir}}
           /\ UNCHANGED <<envs, dbs, blocks, records>>
  BY <1>2 DEF Has, Meets, UsesNginx
<1>3. CASE envs' \in {envs \cup {payload[q].env}, envs \ {payload[q].env}}
           /\ UNCHANGED <<dirs, dbs, blocks, records>>
  BY <1>3 DEF Has, Meets, UsesNginx
<1>4. CASE UsesDb(q) /\ dbs' \in {dbs \cup {payload[q].db}, dbs \ {payload[q].db}}
           /\ UNCHANGED <<dirs, envs, blocks, records>>
  BY <1>4 DEF Has, Meets, UsesNginx
<1>5. CASE records' \in {records \cup {q}, records \ {q}} /\ UNCHANGED <<dirs, envs, dbs, blocks>>
  BY <1>5 DEF Has, UsesNginx
<1>6. CASE /\ UsesNginx(q)
           /\ \E p \in {payload[q].port, NoPort} :
                blocks' = [blocks EXCEPT ![payload[q].name] = p]
           /\ UNCHANGED <<dirs, envs, dbs, records>>
  <2>1. payload[r].name \in Names
    BY PayloadShape DEF TypeOK
  <2>2. UsesNginx(r) /\ Contested(r) = {} => payload[q].name # payload[r].name
    BY <1>6 DEF Contested, Namesake, Meets
  <2>3. UsesNginx(r) /\ Contested(r) = {} => blocks'[payload[r].name] = blocks[payload[r].name]
    BY <1>6, <2>1, <2>2 DEF TypeOK
  <2>4. UsesNginx(r)' <=> UsesNginx(r)
    BY DEF UsesNginx
  <2>5. "nginx" \notin Contested(r) => Contested(r) = {}
    BY DEF Contested
  <2> QED BY <1>6, <2>3, <2>4, <2>5 DEF Has, Kinds
<1> QED BY <1>1, <1>2, <1>3, <1>4, <1>5, <1>6 DEF TouchesOwn

\* q, which meets r, stops at the check that finds what r made, and changes nothing.
LEMMA CheckStops ==
  ASSUME TypeOK, NEW q \in Requests, NEW r \in Requests \ {q}, Handle(q), Stopped(q, r),
         Meets(q, r), payload' = payload,
         payload[r].dir \in dirs, payload[r].env \in envs, UsesDb(r) => payload[r].db \in dbs,
         r \in records
  PROVE  /\ resources' = resources
         /\ pc'[q] \in InFlight => Stopped(q, r)'
<1>1. pc[q] \in {"access", "checkName", "checkConda", "checkDb"}
  BY DEF Stopped, Meets
<1>2. /\ UsesDb(q)' = UsesDb(q) /\ UsesNginx(q)' = UsesNginx(q) /\ UsesNginx(r)' = UsesNginx(r)
      /\ payload[q].db = payload[r].db /\ UsesDb(q) => UsesDb(r)
  BY DEF UsesDb, UsesNginx
<1>3. CASE CheckAccess(q)
  BY <1>2, <1>3 DEF CheckAccess, Check, GoTo, TypeOK, Stopped, InFlight, Checks, Makes
<1>4. CASE CheckName(q)
  BY <1>2, <1>4 DEF CheckName, NameTaken, Check, GoTo, TypeOK, Stopped, InFlight, Checks, Makes
<1>5. CASE CheckConda(q)
  BY <1>2, <1>5 DEF CheckConda, AfterConda, Check, GoTo, TypeOK, Stopped, Meets, InFlight,
     Checks, Makes
<1>6. CASE CheckDb(q)
  BY <1>2, <1>6 DEF CheckDb, Check, GoTo, TypeOK, Stopped, Meets, InFlight, Checks, Makes
<1>7. CASE CheckPorts(q) \/ Forward(q) \/ Backward(q)
  BY <1>1, <1>7 DEF CheckPorts, Check, Forward, Mkdir, MkdirDist, CondaCreate, CheckPython,
     CreateDb, ApplyNginx, Insert, Log, Attempt, Pass, Backward, UndoRecord, UndoDb,
     UndoNginx, UndoConda, UndoDir, Undo, NextUndo, Escape
<1> QED BY <1>3, <1>4, <1>5, <1>6, <1>7 DEF Handle, Preflight

\* On its way forward a request makes what it flags, and loses nothing of it.
LEMMA OwnFlags ==
  ASSUME TypeOK, NEW q \in Requests, Fits(q), Submit(q) \/ Handle(q), pc'[q] \in Forth,
         pc[q] \in Forth => \A k \in flags[q] \ Contested(q) : Has(q, k)
  PROVE  \A k \in flags'[q] \ Contested(q) : Has(q, k)'
<1> USE DEF GoTo, resources
<1>a. /\ pc \in [Requests -> InFlight \cup Ended \cup {"idle"}]
      /\ flags \in [Requests -> SUBSET Kinds]
  BY DEF TypeOK
<1>b. payload' = payload /\ (UsesNginx(q)' <=> UsesNginx(q))
  BY StepShape DEF UsesNginx
<1>c. blocks \in [Names -> Ports \cup {NoPort}] /\ payload[q].name \in Names
  BY PayloadShape DEF TypeOK
<1>1. CASE Submit(q) \/ Preflight(q)
  BY <1>a, <1>b, <1>1 DEF Submit, Preflight, CheckAccess, CheckName, CheckConda, CheckDb, CheckPorts,
     Check, Fits, Checks, Forth, Makes
<1>2. CASE MkdirDist(q) \/ CheckPython(q) \/ Log(q)
  BY <1>a, <1>b, <1>2 DEF MkdirDist, CheckPython, Log, Pass, Fail, Forth, Makes, Has
<1>3. CASE Mkdir(q)
  BY <1>a, <1>b, <1>3 DEF Mkdir, Attempt, MakeDir, Fail, Forth, Makes, Has
<1>4. CASE CondaCreate(q)
  BY <1>a, <1>b, <1>4 DEF CondaCreate, Attempt, MakeEnv, Fail, Forth, Makes, Has
<1>5. CASE CreateDb(q)
  BY <1>a, <1>b, <1>5 DEF CreateDb, Attempt, MakeDb, Fail, Forth, Makes, Has
<1>6. CASE ApplyNginx(q)
  BY <1>a, <1>b, <1>c, <1>6 DEF Fits, ApplyNginx, Attempt, MakeBlock, Fail, Forth, Makes, Has
<1>7. CASE Insert(q)
  BY <1>a, <1>b, <1>7 DEF Insert, Attempt, MakeRecord, Fail, Forth, Makes, Has
<1>8. CASE Backward(q)
  BY <1>a, <1>b, <1>8 DEF Backward, UndoRecord, UndoDb, UndoNginx, UndoConda, UndoDir, Undo, NextUndo, Escape, Forth, Makes
<1> QED BY <1>1, <1>2, <1>3, <1>4, <1>5, <1>6, <1>7, <1>8 DEF Handle, Forward

\* What the parts of the invariant say of a created request, in the terms of CheckStops.
LEMMA CreatedHas ==
  ASSUME IInv, SInv, NEW r \in Requests, pc[r] = "created", Strangers(r)
  PROVE  \A k \in Asked(r) \ Contested(r) : Has(r, k)
<1>1. Parts(r) /\ Apart(r)
  BY DEF IInv, SInv
<1>2. Asked(r) \subseteq Reached(r)
  BY DEF Reached, Asked
<1>3. Asked(r) \subseteq flags[r]
  BY <1>1, <1>2 DEF Parts, Progress, Forth
<1> QED BY <1>1, <1>3 DEF Apart, Kept, Forth

\* A step of q keeps what r knows of those it did not run together with.
LEMMA OthersApart ==
  ASSUME IInv, SInv, NEW q \in Requests, NEW r \in Requests \ {q}, Submit(q) \/ Handle(q)
  PROVE  Apart(r)'
<1>1. TypeOK /\ Fits(q) /\ Apart(r) /\ Apart(q)
  BY DEF IInv, SInv, Parts
<1>2. payload' = payload /\ TouchesOwn(q) /\ KeepsOthers(q)
  BY <1>1, StepShape
<1>3. pc'[r] = pc[r] /\ flags'[r] = flags[r] /\ (UsesDb(r)' <=> UsesDb(r))
  BY <1>2 DEF KeepsOthers, UsesDb
<1>4. overlap[r] \subseteq overlap'[r] /\ (pc[r] \notin InFlight => overlap'[r] = overlap[r])
  BY <1>1, StepHistory
<1>5. Strangers(r)' => Strangers(r)
  BY <1>2, <1>4 DEF Strangers
<1>6. Together(r)'
  <2> SUFFICES ASSUME pc[r] \in InFlight, NEW p \in Requests \ {r}, pc'[p] \in InFlight
               PROVE  p \in overlap'[r]
    BY <1>3 DEF Together
  <2>1. CASE p = q
    BY <2>1, <1>1, <1>4, StepHistory DEF Apart, Together
  <2>2. CASE p # q
    BY <2>2, <1>1, <1>2, <1>4 DEF Apart, Together, KeepsOthers
  <2> QED BY <2>1, <2>2
<1>7. ASSUME Strangers(r), pc[r] \in Forth
      PROVE  \A k \in flags[r] \ Contested(r) : Has(r, k)'
  <2>1. \A k \in flags[r] \ Contested(r) : k \in Kinds \ Contested(r) /\ Has(r, k)
    BY <1>1, <1>7 DEF Apart, Kept, TypeOK
  <2>2. CASE resources' = resources
    BY <1>2, <2>1, <2>2 DEF resources, Has, Kinds, UsesNginx
  <2>3. CASE ~Meets(q, r)
    BY <1>1, <1>2, <2>1, <2>3, MeetFrame
  <2>4. CASE Meets(q, r) /\ Handle(q)
    <3>1. Shares(payload[q], payload[r])
      BY <2>4 DEF Meets, Shares, UsesDb, UsesNginx
    <3>2. q \notin overlap[r] /\ pc[q] \in InFlight
      BY <1>1, <1>7, <2>4, <3>1, StepHistory DEF Strangers
    <3>3. pc[r] = "created"
      BY <1>1, <1>7, <3>2 DEF Apart, Together, Forth, InFlight
    <3>4. Stopped(q, r)
      BY <1>1, <1>7, <3>2, <3>3 DEF Apart, Later
    <3>5. \A k \in Asked(r) \ Contested(r) : Has(r, k)
      BY <1>7, <3>3, CreatedHas
    <3>6. payload[r].dir \in dirs /\ payload[r].env \in envs /\ (UsesDb(r) => payload[r].db \in dbs)
         /\ r \in records
      BY <3>5 DEF Asked, Has, Contested
    <3>7. resources' = resources
      BY <1>1, <1>2, <2>4, <3>4, <3>6, CheckStops
    <3> QED BY <2>2, <3>7
  <2>5. Submit(q) => resources' = resources
    BY <1>1, StepHistory
  <2> QED BY <2>2, <2>3, <2>4, <2>5
<1>8. Kept(r)'
  BY <1>2, <1>3, <1>5, <1>7 DEF Kept, Contested, Namesake, UsesNginx
<1>9. Later(r)'
  <2> SUFFICES ASSUME Strangers(r)', pc[r] = "created", NEW p \in Requests \ {r},
                      pc'[p] \in InFlight, p \notin overlap'[r]
               PROVE  Stopped(p, r)'
    BY <1>3 DEF Later
  <2>1. Strangers(r) /\ p \notin overlap[r]
    BY <1>4, <1>5
  <2>2. CASE p # q
    <3>1. /\ pc'[p] = pc[p] /\ (UsesDb(p)' <=> UsesDb(p))
          /\ (UsesNginx(p)' <=> UsesNginx(p)) /\ (UsesNginx(r)' <=> UsesNginx(r))
      BY <1>2, <2>2 DEF KeepsOthers, UsesDb, UsesNginx
    <3>2. Stopped(p, r)
      BY <1>1, <2>1, <3>1 DEF Apart, Later
    <3> QED BY <1>2, <3>1, <3>2 DEF Stopped
  <2>3. CASE p = q /\ Submit(q)
    BY <1>1, <2>3, StepHistory DEF Stopped
  <2>4. CASE p = q /\ Handle(q)
    <3>1. Stopped(q, r)
      BY <1>1, <2>1, <2>4, StepHistory DEF Apart, Later
    <3>2. \A k \in Asked(r) \ Contested(r) : Has(r, k)
      BY <2>1, CreatedHas
    <3>3. payload[r].dir \in dirs /\ payload[r].env \in envs /\ (UsesDb(r) => payload[r].db \in dbs)
         /\ r \in records
      BY <3>2 DEF Asked, Has, Contested
    <3>4. CASE Meets(q, r)
      BY <1>1, <1>2, <2>4, <3>1, <3>3, <3>4, CheckStops
    <3>5. CASE ~Meets(q, r)
      BY <1>2, <2>4, <3>5 DEF Meets, Stopped, UsesDb, UsesNginx
    <3> QED BY <3>4, <3>5
  <2> QED BY <2>2, <2>3, <2>4
<1> QED BY <1>6, <1>8, <1>9 DEF Apart

\* A step of q keeps what q knows of the others; at the moment it is created, those in
\* flight are those it ran together with.
LEMMA OwnApart ==
  ASSUME IInv, SInv, NEW q \in Requests, Submit(q) \/ Handle(q)
  PROVE  Apart(q)'
<1>1. TypeOK /\ Fits(q) /\ Apart(q)
  BY DEF IInv, SInv, Parts
<1>2. payload' = payload /\ KeepsOthers(q)
  BY <1>1, StepShape
<1>3. Together(q)'
  <2> SUFFICES ASSUME NEW p \in Requests \ {q}, pc[p] \in InFlight PROVE p \in overlap'[q]
    BY <1>2 DEF Together, KeepsOthers
  <2> QED BY <1>1, StepHistory DEF Apart, Together
<1>4. CASE Submit(q)
  <2>1. pc'[q] = "access"
    BY <1>1, <1>4, StepHistory
  <2> QED BY <1>3, <2>1 DEF Apart, Kept, Later, Forth, Makes
<1>5. CASE Handle(q)
  <2>1. pc[q] \in InFlight /\ overlap' = overlap
    BY <1>1, <1>5, StepHistory
  <2>2. Strangers(q)' <=> Strangers(q)
    BY <1>2, <2>1 DEF Strangers
  <2>3. Strangers(q) /\ pc[q] \in Forth => \A k \in flags[q] \ Contested(q) : Has(q, k)
    BY <1>1 DEF Apart, Kept
  <2>4. Kept(q)'
    BY <1>1, <1>2, <1>5, <2>2, <2>3, OwnFlags DEF Kept, Contested, Namesake, UsesNginx
  <2>5. Later(q)'
    BY <1>1, <1>2, <2>1 DEF Later, Apart, Together, KeepsOthers
  <2> QED BY <1>3, <2>4, <2>5 DEF Apart
<1> QED BY <1>4, <1>5

\* A restart takes the requests in flight away.
LEMMA RestartApart ==
  ASSUME TypeOK, SInv, Restart
  PROVE  SInv'
<1> SUFFICES ASSUME NEW r \in Requests PROVE Apart(r)'
  BY DEF SInv
<1>1. /\ payload' = payload /\ flags' = flags /\ overlap' = overlap
      /\ dirs' = dirs /\ envs' = envs /\ dbs' = dbs /\ records' = records /\ blocks' = blocks
      /\ \A q \in Requests : pc'[q] \notin InFlight /\ (pc'[q] \in Forth => pc'[q] = pc[q])
  BY DEF Restart, resources, TypeOK, InFlight, Checks, Makes, Forth
<1>2. Strangers(r)' <=> Strangers(r)
  BY <1>1 DEF Strangers
<1>3. Together(r)' /\ Later(r)'
  BY <1>1 DEF Together, Later
<1>4. Kept(r)'
  BY <1>1, <1>2 DEF SInv, Apart, Kept, Has, Contested, Namesake, UsesNginx, TypeOK, Kinds
<1> QED BY <1>3, <1>4 DEF Apart

\* The invariant about requests that do not run together holds in every reachable state.
THEOREM ApartInvariance == Spec => [](IInv /\ SInv)
<1>1. Init => SInv
  BY DEF Init, SInv, Apart, Together, Kept, Later, InFlight, Checks, Makes, Forth
<1>2. IInv /\ SInv /\ [Next]_vars => SInv'
  <2> SUFFICES ASSUME IInv, SInv, [Next]_vars PROVE SInv'
    OBVIOUS
  <2>1. ASSUME NEW q \in Requests, Submit(q) \/ Handle(q) PROVE SInv'
    BY <2>1, OthersApart, OwnApart DEF SInv
  <2>2. CASE Restart
    BY <2>2, RestartApart DEF IInv
  <2>3. CASE UNCHANGED vars
    BY <2>3 DEF vars, resources, SInv, Apart, Together, Kept, Later, Strangers, Stopped, Has,
       Contested, Namesake, UsesDb, UsesNginx
  <2> QED BY <2>1, <2>2, <2>3 DEF Next, Done
<1> QED BY <1>1, <1>2, InitInv, NextKeeps, PTL DEF Spec

\* A request that was created, and shared nothing with those it ran together with, keeps
\* its directory, environment, database and row, and its server block unless another owner
\* asks for one under its name, whoever comes after it.
THEOREM LaterRequestsAreStopped == Spec => []SerialRequestsKeepApart
<1>1. IInv /\ SInv => SerialRequestsKeepApart
  BY CreatedHas DEF SerialRequestsKeepApart, Strangers
<1> QED BY <1>1, ApartInvariance, PTL
=============================================================================
