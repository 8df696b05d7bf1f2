------------------------------- MODULE Accounts -------------------------------
(***************************************************************************)
(* Who may use the platform, and which servers: user accounts and their    *)
(* roles, the servers with the text of the users assigned to them, and the *)
(* owners of projects.  api/pspm/users.py, api/rbac/users.py,              *)
(* api/auth/login.py, api/pspm/servers.py and the crud modules below them. *)
(*                                                                         *)
(* A request reads what it decides by and then takes its steps, of which   *)
(* each commits on its own; the first that fails ends it and nothing is    *)
(* undone.  A step of a request in Faulty may fail before or after it took *)
(* effect; ending there is also what a crash of the backend does.          *)
(***************************************************************************)
EXTENDS Integers, Sequences, FiniteSets, FiniteSetsExt, SequencesExt

CONSTANTS
  Requests,
  Faulty,       \* bound: the requests whose steps may fail
  Bodies,       \* what a request may ask for
  Ids,          \* bound: the ids that users may get, 1..n
  ServerIds,    \* bound: the ids that servers may get, 1..n
  Projects,
  Names,        \* of users and of Linux accounts
  Addresses,    \* of servers
  Installed,    \* what exists at first: [users, roles, servers, linux, owner]
  None

Server == [ip : Addresses, listed : BOOLEAN, assigned : SUBSET Names]

\* The platform is installed with a user of the role root; ids count up from 1, and the
\* text of a server names accounts that were made, and root.
ASSUME InstalledPlatform ==
  LET I == Installed IN
    /\ Ids \subseteq Nat /\ ServerIds \subseteq Nat
    /\ None \notin Server /\ "root" \in Names
    /\ \E n \in (DOMAIN I.users) \cap Ids : DOMAIN I.users \subseteq 1..n
    /\ \A i \in DOMAIN I.users : DOMAIN I.users[i] = {"name", "number"}
    /\ \A i, j \in DOMAIN I.users :
         i # j => I.users[i].name # I.users[j].name /\ I.users[i].number # I.users[j].number
    /\ I.roles \subseteq (DOMAIN I.users) \X {"root", "user"}
    /\ \E i \in DOMAIN I.users : <<i, "root">> \in I.roles
    /\ I.servers \in [ServerIds -> Server \cup {None}]
    /\ \E n \in ServerIds \cup {0} : {s \in ServerIds : I.servers[s] # None} = 1..n
    /\ \A s \in ServerIds : I.servers[s] # None =>
         /\ "root" \in I.servers[s].assigned
         /\ I.servers[s].assigned \subseteq I.linux \cup {"root"}
    /\ I.owner \in [Projects -> (DOMAIN I.users) \cup {None}]

VARIABLES
  users,        \* users[i]: [name, number], for the ids i in the table
  lastId,       \* the AUTO_INCREMENT of the table of users
  roles,        \* the enabled bindings, as <<user id, role>>
  servers,      \* servers[s]: [ip, listed, assigned], or None
  linux,        \* the Linux accounts of the server of the platform
  owner,        \* owner[p]: the owner of a listed project, or None
  op,           \* op[r]: the body of request r
  todo,         \* todo[r]: the steps r has still to take
  state,        \* state[r]: "idle", "run", or how r ended
  seen,         \* seen[r]: [users, servers] when r began
  made,         \* made[r]: the user that r inserted
  overlap       \* history: overlap[r], the requests in flight together with r

tables == <<users, lastId, roles, servers, linux, owner>>
requestVars == <<op, todo, state, seen, made, overlap>>
accountVars == <<tables, requestVars>>

AccountsInit ==
  /\ users = Installed.users
  /\ lastId = Max(DOMAIN Installed.users)
  /\ roles = Installed.roles
  /\ servers = Installed.servers
  /\ linux = Installed.linux
  /\ owner = Installed.owner
  /\ op = [r \in Requests |-> None]
  /\ todo = [r \in Requests |-> <<>>]
  /\ state = [r \in Requests |-> "idle"]
  /\ seen = [r \in Requests |-> None]
  /\ made = [r \in Requests |-> None]
  /\ overlap = [r \in Requests |-> {}]

-----------------------------------------------------------------------------
(* Permissions.                                                            *)

Named(t, n) == \E i \in DOMAIN t : t[i].name = n
Holds(i, role) == <<i, role>> \in roles

\* A token names a user by id, who is looked up in each request, as are the
\* permissions of his roles: root has all, user those of projects.
Permitted(i, menu) ==
  i \in DOMAIN users /\ (Holds(i, "root") \/ (Holds(i, "user") /\ menu = "project"))

Present(s) == s \in DOMAIN servers /\ servers[s] # None /\ servers[s].listed

\* _list_allowed_servers: all for the role root, else by the name in the text.
MayUse(i, s) == Present(s) /\ (Holds(i, "root") \/ users[i].name \in servers[s].assigned)

-----------------------------------------------------------------------------
(* The beginning of a request.                                             *)

NewUser == {"register", "create", "add"}
Accounts == {"addAccount", "dropAccount"}
Kinds == NewUser \cup Accounts
           \cup {"rename", "delete", "purge", "addServer", "dropServer", "insertProject"}

\* Whatever role a creation names, but root, is taken for user (users.py:94).
ASSUME RequestsAsk ==
  \A b \in Bodies :
    /\ b.kind \in Kinds
    /\ b.kind = "create" => b.role \in {"root", "user"}
    /\ b.kind = "delete" => b.transfer \in BOOLEAN
    /\ b.kind \in Accounts => b.name \in Names
    /\ b.kind = "addServer" => b.ip \in Addresses

\* delete_user never deletes the one who asks for it; the other page does.
Doomed(b) == IF b.kind = "delete" THEN b.ids \ {b.by} ELSE b.ids

\* Mutant: who may not be deleted is not looked up.
AnyoneButOneself(b) == Doomed(b) # {}

\* Everyone else but users with the role root.
Deletable(b) == Doomed(b) # {} /\ \A i \in Doomed(b) : ~Holds(i, "root")

Acceptable(b) ==
  CASE b.kind \in NewUser -> ~Named(users, b.name)
    [] b.kind = "rename" -> /\ b.id \in DOMAIN users
                            /\ \A i \in DOMAIN users \ {b.id} : users[i].name # b.name
    [] b.kind = "delete" -> Deletable(b)
    [] b.kind = "addServer" -> ~\E s \in ServerIds : Present(s) /\ servers[s].ip = b.ip
    [] b.kind \in Accounts -> Present(b.server) /\ b.name # "root"
    [] OTHER -> TRUE

\* Mutant: the projects are handed over when their owners are gone.
DeletionRemovesFirst(b) ==
  IF b.transfer THEN <<"removeUsers", "unbind", "transfer">> ELSE <<"removeUsers", "unbind">>

DeletionSteps(b) ==
  IF b.transfer THEN <<"transfer", "removeUsers", "unbind">> ELSE <<"removeUsers", "unbind">>

Steps(b) ==
  CASE b.kind \in NewUser -> <<"insertUser", "bindRole">>
    [] b.kind = "delete" -> DeletionSteps(b)
    [] b.kind = "purge" -> <<"removeUsers">>
    [] b.kind = "addServer" -> <<"reach", "insertServer">>
    [] b.kind = "addAccount" -> <<"absent", "useradd", "assign">>
    [] b.kind = "dropAccount" -> <<"there", "userdel", "unassign">>
    [] OTHER -> <<b.kind>>

Menu(b) == IF b.kind = "insertProject" THEN "project" ELSE "administration"

Begin(r) ==
  /\ state[r] = "idle"
  /\ \E b \in Bodies :
       LET goes == Acceptable(b) /\ (b.kind # "register" => Permitted(b.by, Menu(b)))
           now == {q \in Requests \ {r} : state[q] = "run"}
       IN /\ op' = [op EXCEPT ![r] = b]
          /\ state' = [state EXCEPT ![r] = IF goes THEN "run" ELSE "refused"]
          /\ todo' = [todo EXCEPT ![r] = IF goes THEN Steps(b) ELSE <<>>]
          /\ overlap' = [q \in Requests |-> CASE q = r -> now
                                              [] q \in now -> overlap[q] \cup {r}
                                              [] OTHER -> overlap[q]]
  /\ seen' = [seen EXCEPT ![r] = [users |-> users, servers |-> servers]]
  /\ UNCHANGED <<tables, made>>

-----------------------------------------------------------------------------
(* The steps.                                                              *)

At(r, label) == state[r] = "run" /\ Head(todo[r]) = label

Goes(r) == /\ todo' = [todo EXCEPT ![r] = Tail(@)]
           /\ state' = [state EXCEPT ![r] = IF Len(todo[r]) = 1 THEN "done" ELSE "run"]
Fails(r) == state' = [state EXCEPT ![r] = "failed"] /\ UNCHANGED todo

\* A step goes on if it is possible; otherwise, and if the request is faulty,
\* it ends the request, which then may still have taken effect.
Step(r, label, possible, effect) ==
  /\ At(r, label)
  /\ \/ possible /\ effect /\ Goes(r)
     \/ ~(possible /\ r \notin Faulty) /\ Fails(r) /\ UNCHANGED <<tables, made>>
     \/ possible /\ r \in Faulty /\ effect /\ Fails(r)
  /\ UNCHANGED <<op, seen, overlap>>

SetUsers(new) == users' = new /\ UNCHANGED <<lastId, roles, servers, linux, owner, made>>
SetRoles(new) == roles' = new /\ UNCHANGED <<users, lastId, servers, linux, owner, made>>
SetServers(new) == servers' = new /\ UNCHANGED <<users, lastId, roles, linux, owner, made>>
SetLinux(new) == linux' = new /\ UNCHANGED <<users, lastId, roles, servers, owner, made>>
SetOwner(new) == owner' = new /\ UNCHANGED <<users, lastId, roles, servers, linux, made>>

\* Mutant: the number is not a unique key.
UniqueName(name, number) == ~Named(users, name)

Unique(name, number) == ~Named(users, name) /\ \A i \in DOMAIN users : users[i].number # number

\* The number was computed from the users that were read; name and number are
\* unique keys, so a second request that took either is an error.
InsertUser(r) ==
  LET number == 1 + Max({seen[r].users[i].number : i \in DOMAIN seen[r].users} \cup {0})
      i == lastId + 1
  IN /\ i \in Ids
     /\ Step(r, "insertUser", Unique(op[r].name, number),
          /\ users' = [j \in DOMAIN users \cup {i} |->
                         IF j = i THEN [name |-> op[r].name, number |-> number] ELSE users[j]]
          /\ lastId' = i /\ made' = [made EXCEPT ![r] = i]
          /\ UNCHANGED <<roles, servers, linux, owner>>)

\* bind_user_role, for whatever became of the user.
BindRole(r) ==
  Step(r, "bindRole", TRUE,
       SetRoles(roles \cup {<<made[r], IF op[r].kind = "create" THEN op[r].role ELSE "user">>}))

Rename(r) ==
  LET b == op[r] IN
    Step(r, "rename",
         /\ b.id \in DOMAIN users
         /\ \A i \in DOMAIN users \ {b.id} : users[i].name # b.name,
         SetUsers([users EXCEPT ![b.id].name = b.name]))

Transfer(r) ==
  Step(r, "transfer", TRUE,
       SetOwner([p \in Projects |-> IF owner[p] \in Doomed(op[r]) THEN op[r].by ELSE owner[p]]))

RemoveUsers(r) ==
  LET gone == Doomed(op[r]) IN
    Step(r, "removeUsers", op[r].kind = "purge" => gone \cap DOMAIN users # {},
         SetUsers([i \in DOMAIN users \ gone |-> users[i]]))

Unbind(r) == Step(r, "unbind", TRUE, SetRoles({x \in roles : x[1] \notin Doomed(op[r])}))

\* ping, and a login with the password of root.
Reach(r) == \/ Step(r, "reach", TRUE, UNCHANGED <<tables, made>>)
            \/ At(r, "reach") /\ Fails(r) /\ UNCHANGED <<tables, made, op, seen, overlap>>

InsertServer(r) ==
  LET s == 1 + Cardinality({s \in ServerIds : servers[s] # None}) IN
    /\ s \in ServerIds
    /\ Step(r, "insertServer", TRUE,
            SetServers([servers EXCEPT ![s] =
                          [ip |-> op[r].ip, listed |-> TRUE, assigned |-> {"root"}]]))

DropServer(r) ==
  LET s == op[r].server IN
    Step(r, "dropServer", Present(s), SetServers([servers EXCEPT ![s].listed = FALSE]))

\* The accounts are those of the platform's own server, whichever was chosen.
Absent(r) == Step(r, "absent", op[r].name \notin linux, UNCHANGED <<tables, made>>)
Useradd(r) == Step(r, "useradd", op[r].name \notin linux, SetLinux(linux \cup {op[r].name}))
There(r) == Step(r, "there", op[r].name \in linux, UNCHANGED <<tables, made>>)
Userdel(r) == Step(r, "userdel", op[r].name \in linux, SetLinux(linux \ {op[r].name}))

\* The text is that of the row the request read first: the session keeps its rows,
\* and a second query for one that is still held does not renew it.
Text(r) == seen[r].servers[op[r].server].assigned

\* Whether that query still finds a server that was deleted meanwhile depends on
\* the isolation of the database; if it does not, nothing is written.
Write(r, text) ==
  LET s == op[r].server IN
    \/ SetServers([servers EXCEPT ![s].assigned = text])
    \/ ~Present(s) /\ UNCHANGED <<tables, made>>

\* Mutant: the new name replaces the others.
AddedAlone(text, n) == {"root", n}

\* add_assigned_user, remove_assigned_user: root is always in the text.
Added(text, n) == text \cup {"root", n}
Removed(text, n) == (text \ {n}) \cup {"root"}

Assign(r) == Step(r, "assign", TRUE, Write(r, Added(Text(r), op[r].name)))
Unassign(r) == Step(r, "unassign", TRUE, Write(r, Removed(Text(r), op[r].name)))

\* The end of a creation (ProjectCreate) that has made everything else.
InsertProject(r) ==
  LET p == op[r].project IN
    Step(r, "insertProject", owner[p] = None, SetOwner([owner EXCEPT ![p] = op[r].by]))

AccountsStep(r) ==
  \/ InsertUser(r) \/ BindRole(r) \/ Rename(r)
  \/ Transfer(r) \/ RemoveUsers(r) \/ Unbind(r)
  \/ Reach(r) \/ InsertServer(r) \/ DropServer(r)
  \/ Absent(r) \/ Useradd(r) \/ Assign(r) \/ There(r) \/ Userdel(r) \/ Unassign(r)
  \/ InsertProject(r)

AccountsNext == \E r \in Requests : Begin(r) \/ AccountsStep(r)

-----------------------------------------------------------------------------
(* Correctness.                                                            *)

AccountsTypeOK ==
  /\ DOMAIN users \subseteq 1..lastId /\ lastId \in Ids
  /\ \A i, j \in DOMAIN users :
       i # j => users[i].name # users[j].name /\ users[i].number # users[j].number
  /\ \A x \in roles : x[1] \in 1..lastId /\ x[2] \in {"root", "user"}
  /\ \A s \in ServerIds : servers[s] # None => "root" \in servers[s].assigned
  /\ owner \in [Projects -> 1..lastId \cup {None}]

Began(r) == state[r] \notin {"idle", "refused"}

\* Request r deletes user u, whom project p is left with because it hands nothing over,
\* or because beside it p was created by u, or handed to u in another deletion.
Leaves(r, p, u) ==
  /\ Began(r) /\ op[r].kind \in {"delete", "purge"} /\ u \in Doomed(op[r])
  /\ \/ op[r].kind = "purge" \/ ~op[r].transfer
     \/ \E q \in overlap[r] :
          \/ op[q].kind = "insertProject" /\ op[q].project = p
          \/ op[q].kind = "delete" /\ op[q].transfer /\ op[q].by = u

\* A listed project belongs to a user who exists, at every moment of a deletion
\* that hands projects over, also if it fails or the backend dies in the middle:
\* unless it came to its owner while he was being deleted, or its owner was
\* deleted without handing over (users.py:127-130).
ProjectsHaveOwners ==
  \A p \in Projects :
    owner[p] \in DOMAIN users \cup {None} \/ \E r \in Requests : Leaves(r, p, owner[p])

\* The project pages never leave the platform without a user of the role root, even
\* if those users delete each other at the same time (users.py:122-125); only the
\* RBAC page can (rbac/users.py:133-144).
SomebodyAdministers ==
  \/ \E i \in DOMAIN users : Holds(i, "root")
  \/ \E r \in Requests : Began(r) /\ op[r].kind = "purge"

\* The requests about accounts, and those about accounts of server s or named n.
Assigning == {r \in Requests : Began(r) /\ op[r].kind \in Accounts}
Concerning(s, n) == {r \in Assigning : op[r].server = s \/ op[r].name = n}

\* The accounts that were assigned to server s at first, or that requests asked for.
Managed(s) ==
  {op[r].name : r \in {r \in Assigning : op[r].server = s}}
    \cup (IF Installed.servers[s] = None THEN {} ELSE Installed.servers[s].assigned \ {"root"})

\* The text of a server names exactly the accounts that were made for it, when the
\* requests about it are over and none failed in the middle, ran beside another one
\* (of which one is lost), or used the account through another server
\* (servers.py:174, 213; crud/pspm_server.py:105-110).
TextNamesTheAccounts ==
  \A s \in {s \in ServerIds : Present(s)} : \A n \in Managed(s) :
    (\A q \in Concerning(s, n) : /\ state[q] = "done" /\ op[q].server = s
                                 /\ overlap[q] \cap Concerning(s, n) = {})
      => (n \in servers[s].assigned <=> n \in linux)
=============================================================================
