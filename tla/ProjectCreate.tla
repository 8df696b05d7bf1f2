---------------------------- MODULE ProjectCreate ----------------------------
(***************************************************************************)
(* "Create project" as a saga: create_project_real_service in              *)
(* services/pspm/project_create.py.                                        *)
(*                                                                         *)
(* The service runs in one asyncio event loop, so requests interleave only *)
(* at an await.  Every action below is the code between two awaits whose   *)
(* order matters: a check that refuses the request, a step that makes one  *)
(* resource, or a step of rollback_all that removes one.                   *)
(*                                                                         *)
(* A step that makes a resource has three outcomes: it works ("ok"); it    *)
(* fails and leaves nothing; or it reports a failure after it took effect  *)
(* (a shell that ran into its timeout, a connection lost after COMMIT),    *)
(* and then the flag that rollback_all looks at stays unset.               *)
(***************************************************************************)
EXTENDS Naturals

CONSTANTS
  Requests,   \* the POST /create-real requests of a behaviour
  Faulty,     \* bound: the requests whose steps may take effect and report a
              \* failure, and whose rollback steps may fail or raise
  Payloads,   \* what a request may ask for
  Owners, Names, Dirs, Envs, Dbs, Ports,
  NoDb,       \* use_database is false
  NoPort      \* use_nginx is false

ASSUME PayloadShape ==
  /\ Payloads \subseteq [owner : Owners, name : Names, dir : Dirs, env : Envs,
                         db : Dbs \cup {NoDb}, port : Ports \cup {NoPort}]
  /\ NoDb \notin Dbs
  /\ NoPort \notin Ports

VARIABLES
  payload,    \* payload[r]: the body of request r
  pc,         \* pc[r]: where request r is
  flags,      \* flags[r]: the *_created flags that are set
  undo,       \* undo[r]: what rollback_all has still to remove
  errors,     \* errors[r]: rollback_errors, what rollback_all could not remove
  dirs,       \* the project directories that exist
  envs,       \* the Conda environments that exist
  dbs,        \* the databases that exist
  blocks,     \* blocks[n]: the port of the server block marked n, or NoPort
  records,    \* the requests whose row is in the project table
  late,       \* history: late[r], what took effect although its step failed
  overlap     \* history: overlap[r], the requests in flight together with r

resources == <<dirs, envs, dbs, blocks, records>>
vars == <<payload, pc, flags, undo, errors, resources, late, overlap>>

Kinds == {"dir", "conda", "db", "nginx", "record"}

Checks == {"access", "checkName", "checkConda", "checkDb", "checkPorts"}
Makes == {"mkdir", "mkdist", "condaCreate", "python", "createDb", "applyNginx",
          "insert", "log"}
InFlight == Checks \cup Makes \cup {"rollback"}
Ended == {"refused", "created", "failed", "broken", "lost"}

UsesDb(r) == payload[r].db # NoDb
UsesNginx(r) == payload[r].port # NoPort

\* The kinds of resource that request r asks for.
Asked(r) == {"dir", "conda", "record"}
              \cup (IF UsesDb(r) THEN {"db"} ELSE {})
              \cup (IF UsesNginx(r) THEN {"nginx"} ELSE {})

\* Mutant: the order of creation, not the one in which rollback_all goes.
RankOfCreation == [record |-> 5, db |-> 3, nginx |-> 4, conda |-> 2, dir |-> 1]

\* The order in which rollback_all goes through the flags.
RollbackRank == [record |-> 1, db |-> 2, nginx |-> 3, conda |-> 4, dir |-> 5]

-----------------------------------------------------------------------------
Init ==
  /\ payload \in [Requests -> Payloads]
  /\ pc = [r \in Requests |-> "idle"]
  /\ flags = [r \in Requests |-> {}]
  /\ undo = [r \in Requests |-> {}]
  /\ errors = [r \in Requests |-> {}]
  /\ dirs = {} /\ envs = {} /\ dbs = {} /\ records = {}
  /\ blocks = [n \in Names |-> NoPort]
  /\ late = [r \in Requests |-> {}]
  /\ overlap = [r \in Requests |-> {}]

GoTo(r, label) == pc' = [pc EXCEPT ![r] = label]

\* Normalisation of the body, up to the first await.
Submit(r) ==
  /\ pc[r] = "idle"
  /\ GoTo(r, "access")
  /\ LET now == {q \in Requests \ {r} : pc[q] \in InFlight} IN
       overlap' = [q \in Requests |->
                     IF q = r THEN now
                     ELSE IF q \in now THEN overlap[q] \cup {r} ELSE overlap[q]]
  /\ UNCHANGED <<payload, flags, undo, errors, resources, late>>

\* A check lets the request pass on, or refuses it before anything is made.
Check(r, label, ok, next) ==
  /\ pc[r] = label
  /\ \/ ok /\ GoTo(r, next)
     \/ GoTo(r, "refused")
  /\ UNCHANGED <<payload, flags, undo, errors, resources, late, overlap>>

AfterConda(r) == IF UsesDb(r) THEN "checkDb"
                 ELSE IF UsesNginx(r) THEN "checkPorts" ELSE "mkdir"
AfterDb(r) == IF UsesNginx(r) THEN "checkPorts" ELSE "mkdir"

\* Server permission, and for Nginx that it is reachable, running and that the
\* conf file may be written: it reads only what no request changes.
CheckAccess(r) == Check(r, "access", TRUE, "checkName")

NameTaken(r) == \E q \in records : /\ payload[q].owner = payload[r].owner
                                   /\ payload[q].name = payload[r].name

\* Mutant: the directory is not looked at, since mkdir -p tolerates it.
CheckNameOnly(r) == Check(r, "checkName", ~NameTaken(r), "checkConda")

\* The uniqueness query, then os.path.exists without an await between them.
CheckName(r) ==
  Check(r, "checkName", ~NameTaken(r) /\ payload[r].dir \notin dirs, "checkConda")

\* conda env list: refused when it fails or the environment is there.
CheckConda(r) == Check(r, "checkConda", payload[r].env \notin envs, AfterConda(r))

CheckDb(r) == Check(r, "checkDb", payload[r].db \notin dbs, AfterDb(r))

\* Ports listened on or proxied to by a block that is not marked with this name.
CheckPorts(r) ==
  Check(r, "checkPorts",
        \A n \in Names \ {payload[r].name} : blocks[n] # payload[r].port, "mkdir")

-----------------------------------------------------------------------------
(* The steps that make a resource.                                         *)

\* The except branches: rollback_all sees the flags as they are now.
Fail(r) ==
  /\ GoTo(r, IF flags[r] = {} THEN "failed" ELSE "rollback")
  /\ undo' = [undo EXCEPT ![r] = flags[r]]
  /\ UNCHANGED flags

Attempt(r, label, kind, effect, next) ==
  /\ pc[r] = label
  /\ \/ /\ effect
        /\ flags' = [flags EXCEPT ![r] = @ \cup {kind}]
        /\ GoTo(r, next)
        /\ UNCHANGED <<undo, late>>
     \/ Fail(r) /\ UNCHANGED <<resources, late>>
     \/ r \in Faulty /\ effect /\ Fail(r) /\ late' = [late EXCEPT ![r] = @ \cup {kind}]
  /\ UNCHANGED <<payload, errors, overlap>>

MakeDir(r) == /\ dirs' = dirs \cup {payload[r].dir}
              /\ UNCHANGED <<envs, dbs, blocks, records>>
MakeEnv(r) == /\ envs' = envs \cup {payload[r].env}
              /\ UNCHANGED <<dirs, dbs, blocks, records>>
\* Mutant: CREATE DATABASE IF NOT EXISTS.
MakeDbIfNotExists(r) == /\ dbs' = dbs \cup {payload[r].db}
                        /\ UNCHANGED <<dirs, envs, blocks, records>>
MakeDb(r) == /\ payload[r].db \notin dbs
             /\ dbs' = dbs \cup {payload[r].db}
             /\ UNCHANGED <<dirs, envs, blocks, records>>
MakeBlock(r) == /\ blocks' = [blocks EXCEPT ![payload[r].name] = payload[r].port]
                /\ UNCHANGED <<dirs, envs, dbs, records>>
\* Mutant: the row is keyed by the project's name.
MakeRecordByName(r) == /\ records' = records \cup {payload[r].name}
                       /\ UNCHANGED <<dirs, envs, dbs, blocks>>
MakeRecord(r) == /\ records' = records \cup {r}
                 /\ UNCHANGED <<dirs, envs, dbs, blocks>>

AfterMkdir(r) == IF UsesNginx(r) THEN "mkdist" ELSE "condaCreate"
AfterPython(r) == IF UsesDb(r) THEN "createDb"
                  ELSE IF UsesNginx(r) THEN "applyNginx" ELSE "insert"
AfterCreateDb(r) == IF UsesNginx(r) THEN "applyNginx" ELSE "insert"

\* mkdir -p succeeds on a directory that another request has just made.
Mkdir(r) == Attempt(r, "mkdir", "dir", MakeDir(r), AfterMkdir(r))

\* A step that makes nothing rollback_all would remove.
Pass(r, label, ok, next) ==
  /\ pc[r] = label
  /\ \/ ok /\ GoTo(r, next) /\ UNCHANGED <<flags, undo>>
     \/ Fail(r)
  /\ UNCHANGED <<payload, errors, resources, late, overlap>>

\* The owner's frontend base directory: shared by the owner's projects, kept.
MkdirDist(r) == Pass(r, "mkdist", TRUE, "condaCreate")

\* conda create -y replaces an environment of the same name.
CondaCreate(r) == Attempt(r, "condaCreate", "conda", MakeEnv(r), "python")

CheckPython(r) == Pass(r, "python", payload[r].env \in envs, AfterPython(r))

\* CREATE DATABASE refuses a name that exists.
CreateDb(r) == Attempt(r, "createDb", "db", MakeDb(r), AfterCreateDb(r))

\* One whole _apply_nginx_conf_change_on_server with replace_or_append.
ApplyNginx(r) == Attempt(r, "applyNginx", "nginx", MakeBlock(r), "insert")

Insert(r) == Attempt(r, "insert", "record", MakeRecord(r), "log")

\* Mutant: the operation log is written after the try block.
LogOutsideTry(r) ==
  /\ pc[r] = "log"
  /\ GoTo(r, "created") \/ GoTo(r, "failed")
  /\ UNCHANGED <<payload, flags, undo, errors, resources, late, overlap>>

\* record_project_operation is inside the try block: its failure rolls back.
Log(r) == Pass(r, "log", TRUE, "created")

-----------------------------------------------------------------------------
(* rollback_all: one action per flag, in the order of RollbackRank.        *)

\* The removal of the given kind is the next one of the rollback.
NextUndo(r, kind) ==
  /\ pc[r] = "rollback"
  /\ kind \in undo[r]
  /\ \A k \in undo[r] : RollbackRank[kind] <= RollbackRank[k]

Undo(r, kind, possible, effect) ==
  /\ NextUndo(r, kind)
  /\ \/ possible /\ effect /\ UNCHANGED errors
     \/ /\ ~possible \/ r \in Faulty
        /\ effect \/ UNCHANGED resources
        /\ errors' = [errors EXCEPT ![r] = @ \cup {kind}]
  /\ undo' = [undo EXCEPT ![r] = @ \ {kind}]
  /\ IF undo[r] = {kind} THEN GoTo(r, "failed") ELSE UNCHANGED pc
  /\ UNCHANGED <<payload, flags, late, overlap>>

\* The last two branches have no try of their own: where conda cannot be found
\* within its timeout, or no process can be started, the exception ends the whole
\* rollback, and the answer is that of the exception.
Escape(r, kind) ==
  /\ r \in Faulty
  /\ NextUndo(r, kind)
  /\ GoTo(r, "broken")
  /\ UNCHANGED <<payload, flags, undo, errors, resources, late, overlap>>

UndoRecord(r) ==
  Undo(r, "record", r \in records,
       records' = records \ {r} /\ UNCHANGED <<dirs, envs, dbs, blocks>>)

\* DROP DATABASE IF EXISTS.
UndoDb(r) ==
  Undo(r, "db", TRUE,
       dbs' = dbs \ {payload[r].db} /\ UNCHANGED <<dirs, envs, blocks, records>>)

\* _remove_project_server_blocks takes every block marked with the name.
UndoNginx(r) ==
  Undo(r, "nginx", TRUE,
       /\ blocks' = [blocks EXCEPT ![payload[r].name] = NoPort]
       /\ UNCHANGED <<dirs, envs, dbs, records>>)

\* conda env remove fails on an environment that is not there.
UndoConda(r) ==
  \/ Undo(r, "conda", payload[r].env \in envs,
          envs' = envs \ {payload[r].env} /\ UNCHANGED <<dirs, dbs, blocks, records>>)
  \/ Escape(r, "conda")

\* rm -rf is content with a directory that is not there.
UndoDir(r) ==
  \/ Undo(r, "dir", TRUE,
          dirs' = dirs \ {payload[r].dir} /\ UNCHANGED <<envs, dbs, blocks, records>>)
  \/ Escape(r, "dir")

\* The backend process dies and is started again: no except branch runs.
Restart ==
  /\ \E r \in Requests : pc[r] \in InFlight
  /\ pc' = [r \in Requests |-> IF pc[r] \in InFlight THEN "lost" ELSE pc[r]]
  /\ UNCHANGED <<payload, flags, undo, errors, resources, late, overlap>>

-----------------------------------------------------------------------------
Preflight(r) == \/ CheckAccess(r) \/ CheckName(r) \/ CheckConda(r)
                \/ CheckDb(r) \/ CheckPorts(r)
Forward(r) == \/ Mkdir(r) \/ MkdirDist(r) \/ CondaCreate(r) \/ CheckPython(r)
              \/ CreateDb(r) \/ ApplyNginx(r) \/ Insert(r) \/ Log(r)
Backward(r) == \/ UndoRecord(r) \/ UndoDb(r) \/ UndoNginx(r)
               \/ UndoConda(r) \/ UndoDir(r)
Handle(r) == Preflight(r) \/ Forward(r) \/ Backward(r)

Done == (\A r \in Requests : pc[r] \in Ended) /\ UNCHANGED vars

Next == \/ \E r \in Requests : Submit(r) \/ Handle(r)
        \/ Restart
        \/ Done

Spec == Init /\ [][Next]_vars

-----------------------------------------------------------------------------
(* Correctness.                                                            *)

TypeOK ==
  /\ payload \in [Requests -> Payloads]
  /\ pc \in [Requests -> InFlight \cup Ended \cup {"idle"}]
  /\ flags \in [Requests -> SUBSET Kinds]
  /\ undo \in [Requests -> SUBSET Kinds]
  /\ errors \in [Requests -> SUBSET Kinds]
  /\ dirs \subseteq Dirs
  /\ envs \subseteq Envs
  /\ dbs \subseteq Dbs
  /\ blocks \in [Names -> Ports \cup {NoPort}]
  /\ records \subseteq Requests
  /\ late \in [Requests -> SUBSET Kinds]
  /\ overlap \in [Requests -> SUBSET Requests]

\* The resource of the given kind that request r asks for is there.
Has(r, kind) ==
  \/ kind = "dir" /\ payload[r].dir \in dirs
  \/ kind = "conda" /\ payload[r].env \in envs
  \/ kind = "db" /\ payload[r].db \in dbs
  \/ kind = "nginx" /\ UsesNginx(r) /\ blocks[payload[r].name] = payload[r].port
  \/ kind = "record" /\ r \in records

\* Two bodies name a resource in common.
Shares(p, q) == \/ p.dir = q.dir
                \/ p.env = q.env
                \/ p.db = q.db /\ p.db # NoDb
                \/ p.name = q.name /\ p.port # NoPort /\ q.port # NoPort

Exclusive(r) == \A q \in Requests \ {r} : ~Shares(payload[q], payload[r])

\* The row is written last and removed first, so at every moment, also after a
\* crash of the backend in the middle of a rollback, a project that is listed
\* has its directory, environment, database and server block: unless the row's
\* own removal failed, or its insertion succeeded while reporting a failure.
RecordLastInFirstOut ==
  \A r \in Requests :
    Exclusive(r) /\ r \in records /\ "record" \notin errors[r] \cup late[r]
      => \A k \in Asked(r) : Has(r, k)

\* What is left of request r is among the given kinds.
LeftOnly(r, kinds) == \A k \in Kinds : Has(r, k) => k \in kinds

\* "Both succeed or both fail": what is left of a request that failed was either
\* named in the rollback errors of its answer, or was made by a step that had
\* reported a failure.  A refused request leaves nothing.  Where an exception cut
\* the rollback short, environment and directory may be left too, and no others:
\* the answer is silent about them and about the errors noted before.
LeftoversAreReported ==
  \A r \in Requests : Exclusive(r) =>
    /\ pc[r] \in {"failed", "refused"} => LeftOnly(r, errors[r] \cup late[r])
    /\ pc[r] = "broken" => LeftOnly(r, errors[r] \cup late[r] \cup {"conda", "dir"})

\* The request holds a database that it created and has not dropped.
HoldsDb(r) == /\ "db" \in flags[r]
              /\ \/ pc[r] \in Makes \cup {"created"}
                 \/ pc[r] = "rollback" /\ "db" \in undo[r]

\* CREATE DATABASE decides races that the existence check lets through: whatever
\* requests run together, a database has one request that may drop it, and it
\* exists as long as that request counts on it.
DatabaseHasOneHolder ==
  \A r \in Requests :
    HoldsDb(r) => /\ payload[r].db \in dbs
                  /\ \A q \in Requests \ {r} :
                       HoldsDb(q) => payload[q].db # payload[r].db

\* q is of another owner and puts a block under the mark of r, which is its name.
Namesake(q, r) == /\ payload[q].name = payload[r].name
                  /\ payload[q].owner # payload[r].owner
                  /\ UsesNginx(q)

\* What another request may take from r although the two never ran together.
Contested(r) == IF \E q \in Requests \ {r} : Namesake(q, r) THEN {"nginx"} ELSE {}

\* Requests that do not run together cannot harm each other: the checks stop the
\* later one before its rollback could remove what the earlier one made.  One thing
\* is excluded: names are unique within an owner only and a block is found by the
\* name alone, so a project of another owner with that name may replace the block.
SerialRequestsKeepApart ==
  \A r \in Requests :
    /\ pc[r] = "created"
    /\ \A q \in overlap[r] : ~Shares(payload[q], payload[r])
    => \A k \in Asked(r) \ Contested(r) : Has(r, k)

-----------------------------------------------------------------------------
(* What the documentation says and the code does not keep.                 *)

\* README: directory, environment, database and Nginx configuration of a create
\* are handled as one whole.  Here: a request answered "created" has them all.
CreatedIsWhole ==
  \A r \in Requests : pc[r] = "created" => \A k \in Asked(r) : Has(r, k)
=============================================================================
