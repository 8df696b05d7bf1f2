--------------------------- MODULE ProjectLifecycle ---------------------------
(***************************************************************************)
(* What happens to a project after its creation: deletion, the settings    *)
(* dialogue, the removal of the original database, the registration of a   *)
(* project that exists already (sync), the creation of a bare row, the     *)
(* status that a start or a stop writes, and the transfer of the projects  *)
(* of users that are deleted.  services/pspm/project_delete.py,            *)
(* project_setting.py and project_sync.py over the table of projects.      *)
(*                                                                         *)
(* Each of these handlers loads its row once, and everything it decides    *)
(* later it decides from that snapshot and its body.  A handler is         *)
(* therefore a plan, the sequence of its awaited steps, made when the row  *)
(* is loaded.  None of them undoes anything: the first step that fails     *)
(* ends the request.  A step of a request in Faulty may fail, before or    *)
(* after it took effect; ending there is also what a crash of the backend  *)
(* does.                                                                   *)
(***************************************************************************)
EXTENDS Integers, Sequences, SequencesExt

CONSTANTS
  Requests,
  Faulty,     \* bound: the requests whose steps and services may fail
  Bodies,     \* what a request may ask for
  Roots,      \* the users with the role root
  MayUse,     \* who else may use which server: a set of <<user, server>>
  Servers,    \* the servers
  Here,       \* the one the platform runs on
  Serving,    \* the servers whose Nginx runs
  Confs,      \* the paths of Nginx files; each server has its own files
  MainConf,   \* MainConf[s]: the path of the main file on server s
  Plain,      \* server blocks without a mark: a set of [host, conf, port]
  Unsafe,     \* directories that a deletion refuses to remove: "/", "/root", "/opt"
  Built,      \* the text of a block that the platform writes itself
  Ids,        \* bound: the ids that rows may take
  None,       \* an empty field
  Keep,       \* a field that the body of a settings request leaves out
  Installed   \* what exists at first: [rows, dirs, envs, dbs, blocks]

\* host, conf, port, text: the Nginx server, the file and the text of the block.
RowFields == {"owner", "server", "name", "dir", "env", "db",
              "host", "conf", "port", "text", "status"}

Kinds == {"delete", "setting", "originalDb", "sync", "record", "status", "transfer"}
Files == Servers \X Confs
Names == DOMAIN Installed.blocks[<<Here, MainConf[Here]>>]   \* names projects may have

\* A deletion names a project; a start or a stop writes 0 or 1; no two of the
\* listed projects of one owner have one name at first.
ASSUME LifecycleConstants ==
  /\ Ids \subseteq Nat \ {0} /\ None \notin Requests
  /\ \A b \in Bodies : /\ b.kind \in Kinds
                       /\ b.kind = "delete" => b.ids \in Seq(Nat) /\ ToSet(b.ids) # {}
                       /\ b.kind = "status" => b.running \in {0, 1}
  /\ DOMAIN Installed.rows \subseteq Ids
  /\ Installed.rows = [i \in DOMAIN Installed.rows |-> [f \in RowFields |-> Installed.rows[i][f]]]
  /\ \A i \in DOMAIN Installed.rows : Installed.rows[i].status \in {-1, 0, 1}
  /\ \A i, j \in DOMAIN Installed.rows :
       i # j => \/ -1 \in {Installed.rows[i].status, Installed.rows[j].status}
                \/ Installed.rows[i].owner # Installed.rows[j].owner
                \/ Installed.rows[i].name # Installed.rows[j].name

\* Files, names of projects, and nothing that is there, are not the empty field.
ASSUME LifecycleNames ==
  /\ Here \in Servers /\ MainConf \in [Servers -> Confs]
  /\ None \notin Servers \cup Confs \cup Names
  /\ Installed.blocks = [f \in Files |-> [n \in Names |-> Installed.blocks[f][n]]]
  /\ \A i \in DOMAIN Installed.rows : LET v == Installed.rows[i] IN
       /\ v.name \in Names /\ v.server \in Servers
       /\ v.host \in Servers \cup {None} /\ v.conf \in Confs \cup {None}
  /\ \A b \in Bodies :
       /\ b.kind \in {"sync", "record"} =>
            /\ b.name \in Names /\ b.server \in Servers
            /\ b.host \in Servers \cup {None} /\ b.conf \in Confs \cup {None}
       /\ b.kind = "setting" => /\ b.host \in Servers \cup {None, Keep}
                               /\ b.conf \in Confs \cup {None, Keep}
  /\ None \notin Installed.dbs
  /\ \A x \in Installed.dirs \cup Installed.envs : x[2] # None

VARIABLES
  op,         \* op[r]: the body of request r
  pc,         \* pc[r]: "idle", "run", or how r ended
  plan,       \* plan[r]: the steps r has still to take
  seen,       \* seen[r]: the table when r loaded its rows
  rows,       \* rows[i]: the project with id i, for the ids in the table
  dirs, envs, \* the directories and Conda environments, as <<server, name>>
  dbs,        \* the databases that exist
  blocks,     \* blocks[f][n]: the port of the block marked n in file f
  by,         \* history: by[i], the request that inserted row i
  moved,      \* history: the rows that a transfer gave to another owner
  overlap     \* history: overlap[r], the requests in flight together with r

resources == <<rows, dirs, envs, dbs, blocks, by, moved>>
vars == <<op, pc, plan, seen, resources, overlap>>

Ended == {"done", "failed", "refused"}

\* status IN (0, 1): the row was not deleted.
Listed(t, i) == i \in DOMAIN t /\ t[i].status \in {0, 1}

\* _find_project_nginx_server_row: the recorded Nginx server, or the project's own.
NginxOf(v) == IF v.host = None THEN v.server ELSE v.host

\* The file of a project's block: the recorded path, or the main file.
FileOf(v) == <<NginxOf(v), IF v.conf = None THEN MainConf[NginxOf(v)] ELSE v.conf>>

\* _list_allowed_server_rows.
Usable(user, server) == user \in Roots \/ <<user, server>> \in MayUse

\* When _apply_nginx_conf_change_on_server can succeed: the user may use the server,
\* nginx is there to be reloaded, and the server is the platform's own, since the
\* script sent to another one imports nothing of what it uses.
CanChange(user, server) == Usable(user, server) /\ server \in Serving /\ server = Here

Init ==
  /\ op \in [Requests -> Bodies]
  /\ pc = [r \in Requests |-> "idle"]
  /\ plan = [r \in Requests |-> <<>>]
  /\ seen = [r \in Requests |-> Installed.rows]
  /\ rows = Installed.rows
  /\ dirs = Installed.dirs
  /\ envs = Installed.envs
  /\ dbs = Installed.dbs
  /\ blocks = Installed.blocks
  /\ by = [i \in Ids |-> None]
  /\ moved = {}
  /\ overlap = [r \in Requests |-> {}]

-----------------------------------------------------------------------------
(* The plans.  A step is a pair of a label and its argument.               *)

When(condition, steps) == IF condition THEN steps ELSE <<>>

\* One step for each id of the request, in their order, whose row has this field:
\* the j-th step is for the j-th of the places in ids with such a row.
Places(ids, t, f) == {k \in DOMAIN ids : t[ids[k]][f] # None}
Rank(k, places) == Cardinality({m \in places : m <= k})
Each(label, ids, t, f) ==
  LET places == Places(ids, t, f) IN
    [j \in 1..Cardinality(places) |->
       <<label, ids[CHOOSE k \in places : Rank(k, places) = j]>>]

\* Mutant: the scope "project, Conda and Nginx" is forgotten for environments.
ScopeForgotten(b) == IF b.scope = {"env", "nginx"} THEN {"nginx"} ELSE b.scope

\* The scopes: nothing more, conda, conda and db, conda and nginx, all three.
Scope(b) == b.scope

\* All directories, then all environments, all databases, all blocks, the rows.
DeletePlan(b, t) ==
  Each("rmdir", b.ids, t, "dir")
    \o When("env" \in Scope(b), Each("rmenv", b.ids, t, "env"))
    \o When("db" \in Scope(b), Each("rmdb", b.ids, t, "db"))
    \o When("nginx" \in Scope(b), Each("rmblock", b.ids, t, "name"))
    \o << <<"delrows", None>> >>

EnvChanges(b, s) == b.env \notin {Keep, None} /\ b.env # s.env

CondaPlan(b, s) ==
  When(EnvChanges(b, s) /\ b.mkEnv, << <<"envfree", b.env>>, <<"mkenv", b.env>> >>)
    \o When(EnvChanges(b, s) /\ b.dropEnv /\ s.env # None, << <<"dropenv", s.env>> >>)

DbChanges(b, s) == b.db # Keep /\ b.db # s.db

\* Mutant: the flag alone decides that the original database is dropped.
DbPlanDropsAnyway(b, s) ==
  When(DbChanges(b, s) /\ b.db # None, << <<"dbfree", b.db>>, <<"mkdb", b.db>> >>)
    \o When(b.db # Keep /\ b.dropDb /\ s.db # None, << <<"dropdb", s.db>> >>)

\* Mutant: the original goes before the new database is made.
DbPlanDropsFirst(b, s) ==
  When(DbChanges(b, s) /\ b.dropDb /\ s.db # None, << <<"dropdb", s.db>> >>)
    \o When(DbChanges(b, s) /\ b.db # None, << <<"dbfree", b.db>>, <<"mkdb", b.db>> >>)

DbPlan(b, s) ==
  When(DbChanges(b, s) /\ b.db # None, << <<"dbfree", b.db>>, <<"mkdb", b.db>> >>)
    \o When(DbChanges(b, s) /\ b.dropDb /\ s.db # None, << <<"dropdb", s.db>> >>)

\* The server, file and port of an enabled Nginx: from the body, or else as they were.
WantedHost(b, s) == IF b.host \notin {Keep, None} THEN b.host ELSE NginxOf(s)
WantedConf(b, s) == IF b.conf \notin {Keep, None} THEN b.conf
                    ELSE IF s.conf # None THEN s.conf ELSE MainConf[WantedHost(b, s)]
WantedFile(b, s) == <<WantedHost(b, s), WantedConf(b, s)>>
WantedPort(b, s) == IF b.port # Keep THEN b.port ELSE s.port
Confirmed(b) == b.text \notin {Keep, None}

\* target_tuple = original_tuple, or same_nginx_binding without the wish to delete the
\* original.  A confirmed text ends with a newline and a stored one does not, so the
\* tuples are equal only if there is neither; then even the wish is not looked at.
Unchanged(b, s) ==
  /\ WantedFile(b, s) = <<s.host, s.conf>> /\ WantedPort(b, s) = s.port
  /\ ~b.dropBlock \/ (~Confirmed(b) /\ s.text = None)

BlockWanted(b, s) == b.nginx = "on" /\ ~Unchanged(b, s)

\* Mutant: the file that was just written is not skipped.
OriginalBlockAlways(b, s, written) ==
  When(b.dropBlock /\ s.conf # None, << <<"unblock", FileOf(s)>> >>)

\* remove_original_block_if_needed: skipped if the path is that of the written file,
\* whatever the servers.
OriginalBlock(b, s, written) ==
  When(b.dropBlock /\ s.conf \notin {None, written}, << <<"unblock", FileOf(s)>> >>)

\* An enabled Nginx is looked at even if nothing is to be written.
NginxPlan(b, s) ==
  When(b.nginx = "on", << <<"nginxup", WantedHost(b, s)>> >>)
    \o When(BlockWanted(b, s),
            << <<"portfree", WantedPort(b, s)>>, <<"mkblock", WantedFile(b, s)>> >>)
    \o When(BlockWanted(b, s), OriginalBlock(b, s, WantedConf(b, s)))
    \o When(b.nginx = "off", OriginalBlock(b, s, None))

\* The fields of the row as the request wants them.
Wanted(b, s) ==
  LET Given(f) == IF b[f] = Keep THEN s[f] ELSE b[f]
      Bound(f, new) == CASE b.nginx = "off" -> None
                         [] BlockWanted(b, s) -> new
                         [] b.nginx = "on" /\ Unchanged(b, s) -> s[f]
                         [] OTHER -> Given(f)
  IN [env |-> Given("env"), db |-> Given("db"),
      host |-> Bound("host", WantedHost(b, s)), conf |-> Bound("conf", WantedConf(b, s)),
      port |-> Bound("port", WantedPort(b, s)),
      text |-> Bound("text", IF Confirmed(b) THEN b.text ELSE Built)]

\* _changed_fields_for_update: the fields that differ from the loaded row.
ChangedFields(b, s) == {f \in DOMAIN Wanted(b, s) : Wanted(b, s)[f] # s[f]}

\* The log is written if anything was done or changed; to look is not to do.
SettingPlan(b, s) ==
  LET steps == CondaPlan(b, s) \o DbPlan(b, s) \o NginxPlan(b, s)
                 \o When(ChangedFields(b, s) # {}, << <<"update", None>> >>)
  IN steps \o When(\E x \in ToSet(steps) : x[1] # "nginxup", << <<"log", None>> >>)

\* delete_original_project_database_service.
OriginalDbPlan(s) ==
  When(s.db # None, << <<"dropdb", s.db>>, <<"clear", None>>, <<"log", None>> >>)

SyncPlan(b) ==
  << <<"dirthere", b.dir>>, <<"namefree", b.name>>, <<"envthere", b.env>> >>
    \o When(b.db # None, << <<"dbthere", b.db>> >>)
    \o When(b.conf # None, << <<"blockthere", b.conf>> >>)
    \o << <<"insert", None>>, <<"log", None>> >>

PlanOf(b, t) ==
  CASE b.kind = "delete" -> DeletePlan(b, t)
    [] b.kind = "setting" -> SettingPlan(b, t[b.id])
    [] b.kind = "originalDb" -> OriginalDbPlan(t[b.id])
    [] b.kind = "sync" -> SyncPlan(b)
    [] b.kind = "record" -> << <<"namefree", b.name>>, <<"insert", None>> >>
    [] b.kind = "status" -> << <<"status", b.running>> >>
    [] b.kind = "transfer" -> << <<"transfer", None>> >>

-----------------------------------------------------------------------------
(* The beginning of a request.                                             *)

\* The ids a request works on.
Targets(b) == CASE b.kind = "delete" -> ToSet(b.ids)
                [] b.kind \in {"sync", "record", "transfer"} -> {}
                [] OTHER -> {b.id}

\* load_deletable_projects and get_project_for_user; the settings and sync also want
\* the right to use the server.
Allowed(b) ==
  /\ \A i \in Targets(b) : Listed(rows, i) /\ (b.user \in Roots \/ rows[i].owner = b.user)
  /\ b.kind = "setting" => Usable(b.user, rows[b.id].server)
  /\ b.kind = "sync" => Usable(b.user, b.server)

Overlaps(r) ==
  LET now == {q \in Requests \ {r} : pc[q] = "run"} IN
    overlap' = [q \in Requests |-> IF q = r THEN now
                                   ELSE IF q \in now THEN overlap[q] \cup {r}
                                   ELSE overlap[q]]

\* Submit and load: refused, nothing to do (no original database), or a plan.
Load(r) ==
  /\ pc[r] = "idle"
  /\ LET steps == IF Allowed(op[r]) THEN PlanOf(op[r], rows) ELSE <<>> IN
       /\ plan' = [plan EXCEPT ![r] = steps]
       /\ pc' = [pc EXCEPT ![r] = IF steps # <<>> THEN "run"
                                  ELSE IF Allowed(op[r]) THEN "done" ELSE "refused"]
  /\ seen' = [seen EXCEPT ![r] = rows]
  /\ Overlaps(r)
  /\ UNCHANGED <<op, resources>>

-----------------------------------------------------------------------------
(* The steps.                                                              *)

At(r, label) == pc[r] = "run" /\ Head(plan[r])[1] = label
Arg(r) == Head(plan[r])[2]
Row(r) == seen[r][op[r].id]     \* the row of a request that works on one

\* Mutant: the last step does not end the request.
GoesOn(r) == plan' = [plan EXCEPT ![r] = Tail(@)] /\ UNCHANGED pc

Goes(r) == /\ plan' = [plan EXCEPT ![r] = Tail(@)]
           /\ pc' = [pc EXCEPT ![r] = IF Len(plan[r]) = 1 THEN "done" ELSE "run"]
Fails(r) == pc' = [pc EXCEPT ![r] = "failed"] /\ UNCHANGED plan

\* A step goes on if it is possible; otherwise, and if the request is faulty,
\* it ends the request, which then may still have taken effect.
Step(r, label, possible, effect) ==
  /\ At(r, label)
  /\ \/ possible /\ effect /\ Goes(r)
     \/ ~(possible /\ r \notin Faulty) /\ Fails(r) /\ UNCHANGED resources
     \/ possible /\ r \in Faulty /\ effect /\ Fails(r)
  /\ UNCHANGED <<op, seen, overlap>>

SetDirs(new) == dirs' = new /\ UNCHANGED <<rows, envs, dbs, blocks, by, moved>>
SetEnvs(new) == envs' = new /\ UNCHANGED <<rows, dirs, dbs, blocks, by, moved>>
SetDbs(new) == dbs' = new /\ UNCHANGED <<rows, dirs, envs, blocks, by, moved>>
SetBlock(f, n, p) == /\ blocks' = [blocks EXCEPT ![f][n] = p]
                     /\ UNCHANGED <<rows, dirs, envs, dbs, by, moved>>
SetRows(new) == rows' = new /\ UNCHANGED <<dirs, envs, dbs, blocks, by, moved>>
Nothing == UNCHANGED resources

\* rm -rf, by the shell of the platform itself whatever server the project has, and
\* not of a directory that ensure_safe_project_delete_path refuses.
RemoveDir(r) ==
  LET d == seen[r][Arg(r)].dir IN
    Step(r, "rmdir", d \notin Unsafe, SetDirs(dirs \ {<<Here, d>>}))

\* conda env remove, also local; it fails on an environment that is not there.
RemoveEnv(r) ==
  LET e == <<Here, seen[r][Arg(r)].env>> IN
    Step(r, "rmenv", e \in envs, SetEnvs(envs \ {e}))

\* Mutant: DROP DATABASE without IF EXISTS.
RemoveDbStrict(r) ==
  LET d == seen[r][Arg(r)].db IN Step(r, "rmdb", d \in dbs, SetDbs(dbs \ {d}))

RemoveDb(r) == LET d == seen[r][Arg(r)].db IN Step(r, "rmdb", TRUE, SetDbs(dbs \ {d}))

\* In the file of the row, or the running one; no block removed is a success.
RemoveBlock(r) ==
  LET s == seen[r][Arg(r)] IN
    Step(r, "rmblock", CanChange(op[r].user, NginxOf(s)), SetBlock(FileOf(s), s.name, None))

\* remove_multi: status -1 for the rows of the request that are still listed.
DeleteRows(r) ==
  LET gone == {i \in Targets(op[r]) : Listed(rows, i)} IN
    Step(r, "delrows", gone # {},
         SetRows([i \in DOMAIN rows |-> IF i \in gone THEN [rows[i] EXCEPT !.status = -1]
                                        ELSE rows[i]]))

\* Settings use the shell of the project's own server.
EnvFree(r) == Step(r, "envfree", <<Row(r).server, Arg(r)>> \notin envs, Nothing)
MakeEnv(r) == Step(r, "mkenv", TRUE, SetEnvs(envs \cup {<<Row(r).server, Arg(r)>>}))
DropEnv(r) ==
  LET e == <<Row(r).server, Arg(r)>> IN
    Step(r, "dropenv", e \in envs, SetEnvs(envs \ {e}))

\* _check_database_exists, and CREATE DATABASE, which refuses a name that exists.
DbFree(r) == Step(r, "dbfree", Arg(r) \notin dbs, Nothing)
MakeDb(r) == Step(r, "mkdb", Arg(r) \notin dbs, SetDbs(dbs \cup {Arg(r)}))
DropDb(r) == Step(r, "dropdb", TRUE, SetDbs(dbs \ {Arg(r)}))

\* There is a port, the user may use the Nginx server, and its Nginx runs.
NginxUp(r) ==
  Step(r, "nginxup",
       /\ WantedPort(op[r], Row(r)) # None
       /\ Usable(op[r].user, Arg(r)) /\ Arg(r) \in Serving,
       Nothing)

\* No block of any file of this server without the project's mark has the port.
\* This is looked at when environment and database have been changed already.
PortFree(r) ==
  LET host == WantedHost(op[r], Row(r)) IN
    Step(r, "portfree",
         /\ \A x \in Plain : x.host = host => x.port # Arg(r)
         /\ \A c \in Confs : \A n \in Names \ {Row(r).name} : blocks[<<host, c>>][n] # Arg(r),
         Nothing)

\* _apply_nginx_conf_change_on_server, with replace-or-append and with remove.
MakeBlock(r) ==
  Step(r, "mkblock", CanChange(op[r].user, Arg(r)[1]),
       SetBlock(Arg(r), Row(r).name, WantedPort(op[r], Row(r))))
DropBlock(r) ==
  Step(r, "unblock", CanChange(op[r].user, Arg(r)[1]), SetBlock(Arg(r), Row(r).name, None))

\* UPDATE by id alone, of the fields that differ from the loaded row.
UpdateRow(r) ==
  LET b == op[r]
      new == [f \in DOMAIN rows[b.id] |->
                IF f \in ChangedFields(b, Row(r)) THEN Wanted(b, Row(r))[f]
                ELSE rows[b.id][f]]
  IN Step(r, "update", TRUE, SetRows([rows EXCEPT ![b.id] = new]))

ClearDb(r) == Step(r, "clear", TRUE, SetRows([rows EXCEPT ![op[r].id].db = None]))

\* Mutant: the status is written whatever became of the row.
UpdateStatusAlways(r) ==
  Step(r, "status", TRUE, SetRows([rows EXCEPT ![op[r].id].status = Arg(r)]))

\* update_status of a start or stop that loaded its row before.
UpdateStatus(r) ==
  LET i == op[r].id IN
    Step(r, "status", TRUE,
         SetRows(IF Listed(rows, i) THEN [rows EXCEPT ![i].status = Arg(r)] ELSE rows))

\* sync: what it registers has to be there.
DirThere(r) == Step(r, "dirthere", <<op[r].server, Arg(r)>> \in dirs, Nothing)
EnvThere(r) == Step(r, "envthere", <<op[r].server, Arg(r)>> \in envs, Nothing)
DbThere(r) == Step(r, "dbthere", Arg(r) \in dbs, Nothing)
BlockThere(r) ==
  LET host == NginxOf(op[r]) IN
    Step(r, "blockthere",
         /\ Usable(op[r].user, host) /\ host \in Serving
         /\ \/ [host |-> host, conf |-> Arg(r), port |-> op[r].port] \in Plain
            \/ \E n \in Names : blocks[<<host, Arg(r)>>][n] = op[r].port,
         Nothing)

\* Mutant: only running projects keep their name.
UsesRunning(t, r) ==
  \E i \in Ids : /\ Listed(t, i) /\ t[i].status = 1
                 /\ t[i].owner = op[r].user /\ t[i].name = Arg(r)

\* crud.projects.get with owner, name and status IN (0, 1).
Uses(t, r) ==
  \E i \in Ids : Listed(t, i) /\ t[i].owner = op[r].user /\ t[i].name = Arg(r)

\* The query sees the table as it is, or as it was at the beginning of the session:
\* the code leaves the isolation of transactions to the database.
NameFree(r) == \E t \in {rows, seen[r]} : Step(r, "namefree", ~Uses(t, r), Nothing)

\* The Nginx server of a new row: that of the body, or, if sync found a block, of it.
HostOf(b) == IF b.kind = "sync" /\ b.conf # None THEN NginxOf(b) ELSE b.host

\* The new row, under the next id; a deleted row keeps its id.
Insert(r) ==
  \E i \in Ids :
    /\ i \notin DOMAIN rows /\ \A j \in Ids : j < i => j \in DOMAIN rows
    /\ LET b == op[r] IN
         Step(r, "insert", TRUE,
              /\ rows' = [j \in DOMAIN rows \cup {i} |->
                   IF j # i THEN rows[j] ELSE
                   [owner |-> b.user, server |-> b.server, name |-> b.name,
                    dir |-> b.dir, env |-> b.env, db |-> b.db, host |-> HostOf(b),
                    conf |-> b.conf, port |-> b.port, text |-> b.text, status |-> 0]]
              /\ by' = [by EXCEPT ![i] = r]
              /\ UNCHANGED <<dirs, envs, dbs, blocks, moved>>)

\* transfer_owner, when users are deleted: one UPDATE, and nobody looks at the names.
Transfer(r) ==
  LET theirs == {i \in DOMAIN rows : Listed(rows, i) /\ rows[i].owner \in op[r].from} IN
    Step(r, "transfer", TRUE,
         /\ rows' = [i \in DOMAIN rows |-> IF i \in theirs
                       THEN [rows[i] EXCEPT !.owner = op[r].user] ELSE rows[i]]
         /\ moved' = moved \cup theirs
         /\ UNCHANGED <<dirs, envs, dbs, blocks, by>>)

\* record_project_operation: a row of another table, committed on its own.
Log(r) == Step(r, "log", TRUE, Nothing)

Kind(r, kind) == op[r].kind = kind
Delete(r) ==
  /\ Kind(r, "delete")
  /\ RemoveDir(r) \/ RemoveEnv(r) \/ RemoveDb(r) \/ RemoveBlock(r) \/ DeleteRows(r)
Setting(r) ==
  /\ Kind(r, "setting") \/ Kind(r, "originalDb")
  /\ \/ EnvFree(r) \/ MakeEnv(r) \/ DropEnv(r) \/ DbFree(r) \/ MakeDb(r) \/ DropDb(r)
     \/ NginxUp(r) \/ PortFree(r) \/ MakeBlock(r) \/ DropBlock(r)
     \/ UpdateRow(r) \/ ClearDb(r) \/ Log(r)
Sync(r) ==
  /\ Kind(r, "sync") \/ Kind(r, "record")
  /\ \/ DirThere(r) \/ NameFree(r) \/ EnvThere(r) \/ DbThere(r) \/ BlockThere(r)
     \/ Insert(r) \/ Log(r)

Next == \E r \in Requests :
          \/ Load(r) \/ Delete(r) \/ Setting(r) \/ Sync(r)
          \/ Kind(r, "status") /\ UpdateStatus(r)
          \/ Kind(r, "transfer") /\ Transfer(r)

Spec == Init /\ [][Next]_vars

-----------------------------------------------------------------------------
(* Correctness.                                                            *)

TypeOK ==
  /\ op \in [Requests -> Bodies]
  /\ pc \in [Requests -> {"idle", "run"} \cup Ended]
  /\ \A r \in Requests : pc[r] = "run" => plan[r] # <<>>
  /\ \A i \in DOMAIN rows : DOMAIN rows[i] = RowFields /\ rows[i].status \in {-1, 0, 1}
  /\ by \in [Ids -> Requests \cup {None}]
  /\ moved \subseteq Ids
  /\ overlap \in [Requests -> SUBSET Requests]

\* A start or stop that loaded its row before the deletion and writes its status
\* after it does not bring the project back, and neither does a setting.
DeletedStaysDeleted ==
  [][\A i \in DOMAIN rows : ~Listed(rows, i) => ~Listed(rows', i)]_rows

Alone(r) == overlap[r] = {}
BlockIn(t, s) == t[FileOf(s)][s.name]

\* A deletion that ran alone and answers with success has removed everything in
\* its scope of every project it names; directory and environment only if the
\* project is on the server of the platform, since both are removed locally.
DeletionCompletes ==
  [][\A r \in Requests :
       Kind(r, "delete") /\ Alone(r) /\ pc[r] = "run" /\ pc'[r] = "done"
         => \A i \in Targets(op[r]) : LET s == seen[r][i] IN
              /\ ~Listed(rows', i)
              /\ s.server = Here => /\ <<Here, s.dir>> \notin dirs'
                                    /\ "env" \in op[r].scope => <<Here, s.env>> \notin envs'
              /\ "db" \in op[r].scope => s.db \notin dbs'
              /\ "nginx" \in op[r].scope => BlockIn(blocks', s) = None]_vars

\* A failed deletion can be repeated: directory, database and block that are gone
\* already do not stop it.  What stops it, and then for good, is an environment that
\* is gone, a directory that may not be removed, and a block on a server that the
\* user may not use, whose Nginx does not run, or that is not the platform's own;
\* and once, rows that another deletion has taken in the meantime.
RepeatedDeletionGetsThrough ==
  \A r \in Requests :
    Kind(r, "delete") /\ r \notin Faulty /\ pc[r] = "failed"
      => LET label == Head(plan[r])[1]
             s == seen[r][Arg(r)]
         IN \/ label = "rmenv"
            \/ label = "rmdir" /\ s.dir \in Unsafe
            \/ label = "rmblock" /\ ~CanChange(op[r].user, NginxOf(s))
            \/ label = "delrows" /\ ~Alone(r)

\* At every step of a setting that runs alone, and so wherever it fails or the
\* backend dies, the old or the wanted database is there, and the old or the
\* wanted environment if a new one is to be made.
SomeDb(r, there) == {Row(r).db, Wanted(op[r], Row(r)).db} \cap there # {}
SomeEnv(r, there) ==
  \E e \in {Row(r).env, Wanted(op[r], Row(r)).env} : <<Row(r).server, e>> \in there
ChangeKeepsOne ==
  [][\A r \in Requests :
       Kind(r, "setting") /\ Alone(r)' /\ pc[r] = "run"
         => /\ op[r].db # None /\ SomeDb(r, dbs) => SomeDb(r, dbs')
            /\ op[r].mkEnv /\ SomeEnv(r, envs) => SomeEnv(r, envs')]_vars

\* A setting that runs alone never takes away the database its row will name,
\* and when it is answered with success a database it was to make is there.
SettingsKeepData ==
  [][\A r \in Requests :
       Kind(r, "setting") /\ Alone(r)' /\ pc[r] = "run"
         => LET d == Wanted(op[r], Row(r)).db IN
              /\ d \in dbs => d \in dbs'
              /\ pc'[r] = "done" /\ d \notin {None, Row(r).db} => d \in dbs']_vars

\* The original block that is to go, by the path of its file.
BlockGoes(b, s) ==
  /\ b.dropBlock /\ s.conf # None
  /\ b.nginx = "off" \/ (BlockWanted(b, s) /\ s.conf # WantedConf(b, s))

\* A setting that ran alone and is answered with success leaves the block it was to
\* write in its file, and none in the original file if that was to go and has another
\* path; under the same path the code leaves it alone, be it on another server.
SettingsKeepTheBlock ==
  [][\A r \in Requests :
       Kind(r, "setting") /\ Alone(r)' /\ pc[r] = "run" /\ pc'[r] = "done"
         => LET b == op[r]
                s == Row(r)
            IN /\ BlockWanted(b, s) => blocks'[WantedFile(b, s)][s.name] = WantedPort(b, s)
               /\ BlockGoes(b, s) => BlockIn(blocks', s) = None]_vars

\* The table has no unique key: two listed projects of one owner have one name
\* only if the requests that inserted them were in flight together, or if one of
\* them came to its owner with the projects of a deleted user.
NamesUniqueSerially ==
  \A i, j \in Ids :
    i # j /\ Listed(rows, i) /\ Listed(rows, j)
      => \/ rows[i].owner # rows[j].owner \/ rows[i].name # rows[j].name
         \/ by[i] # None /\ by[j] # None /\ by[j] \in overlap[by[i]]
         \/ i \in moved \/ j \in moved
=============================================================================
