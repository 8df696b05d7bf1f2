------------------------- MODULE TerminalAccessProofs -------------------------
(***************************************************************************)
(* For any requests, calls, users, servers, sessions and tickets:          *)
(* somebody administers the platform, a project that was handed over has   *)
(* an owner, the text of a server names the accounts made for it, a ticket *)
(* serves one download, and nothing closed comes back.  The first part is  *)
(* about the steps of Accounts alone; the second composes them with        *)
(* terminals and tickets, and has the theorems.                            *)
(***************************************************************************)
EXTENDS TerminalAccess, FiniteSetTheorems, TLAPS

-----------------------------------------------------------------------------
(* Part 1: users, roles, servers and owners.                               *)

Runs(r) == state[r] = "run"

-----------------------------------------------------------------------------
(* Requests and tables.                                                    *)

\* What a request that asks for b may still have to do.
Ahead(b) ==
  CASE b.kind \in NewUser -> {<<"insertUser", "bindRole">>, <<"bindRole">>}
    [] b.kind = "delete" ->
         (IF b.transfer THEN {<<"transfer", "removeUsers", "unbind">>} ELSE {})
           \cup {<<"removeUsers", "unbind">>, <<"unbind">>}
    [] b.kind = "purge" -> {<<"removeUsers">>}
    [] b.kind = "addServer" -> {<<"reach", "insertServer">>, <<"insertServer">>}
    [] b.kind = "addAccount" ->
         {<<"absent", "useradd", "assign">>, <<"useradd", "assign">>, <<"assign">>}
    [] b.kind = "dropAccount" ->
         {<<"there", "userdel", "unassign">>, <<"userdel", "unassign">>, <<"unassign">>}
    [] OTHER -> {<<b.kind>>}

\* A request asked for something it may, has some of its steps ahead, and knows of
\* every other one in flight.
RequestInv(r) ==
  /\ state[r] \in {"idle", "run", "refused", "failed", "done"}
  /\ state[r] # "idle" => op[r] \in Bodies
  /\ Runs(r) => todo[r] \in Ahead(op[r])
  /\ Runs(r) => \A q \in Requests \ {r} : Runs(q) => q \in overlap[r]
  /\ overlap[r] \subseteq {q \in Requests \ {r} : state[q] # "idle"}
  /\ Runs(r) /\ op[r].kind # "register" => op[r].by \in 1..lastId
  /\ Runs(r) /\ Head(todo[r]) = "bindRole" => made[r] \in 1..lastId
  /\ Began(r) /\ op[r].kind \in Accounts =>
       /\ op[r].server \in ServerIds /\ servers[op[r].server] # None /\ op[r].name # "root"
  /\ Runs(r) /\ op[r].kind \in Accounts =>
       /\ seen[r].servers \in [ServerIds -> Server \cup {None}]
       /\ seen[r].servers[op[r].server] # None

\* The ids of servers count up, and a server stays.
TablesInv ==
  /\ AccountsTypeOK
  /\ \A i \in DOMAIN users : DOMAIN users[i] = {"name", "number"}
  /\ servers \in [ServerIds -> Server \cup {None}]
  /\ \E n \in ServerIds \cup {0} : {s \in ServerIds : servers[s] # None} = 1..n
  /\ \A s \in ServerIds : Installed.servers[s] # None => servers[s] # None
  /\ DOMAIN made = Requests /\ DOMAIN overlap = Requests /\ DOMAIN op = Requests
  /\ DOMAIN state = Requests /\ DOMAIN todo = Requests /\ DOMAIN seen = Requests

Sound == TablesInv /\ \A r \in Requests : RequestInv(r)

-----------------------------------------------------------------------------
(* The parts of the invariant.                                             *)

\* Some user of the role root is not on the list of any deletion at work.
AdminInv ==
  \/ \E i \in DOMAIN users :
       Holds(i, "root") /\ \A r \in Requests : Runs(r) /\ op[r].kind = "delete" => i \notin Doomed(op[r])
  \/ \E r \in Requests : Began(r) /\ op[r].kind = "purge"

Deletes(r, u) == Began(r) /\ op[r].kind \in {"delete", "purge"} /\ u \in Doomed(op[r])

\* The user behind a request is there, or was deleted beside it; and a deletion that has
\* handed the projects over leaves only those that came to their owner beside it.
OwnersInv ==
  /\ ProjectsHaveOwners
  /\ \A q \in Requests : Runs(q) /\ op[q].kind # "register" =>
       op[q].by \in DOMAIN users \/ \E r \in Requests : Deletes(r, op[q].by) /\ q \in overlap[r]
  /\ \A r \in Requests : Runs(r) /\ op[r].kind = "delete" /\ Head(todo[r]) # "transfer" =>
       \A p \in Projects : owner[p] \in Doomed(op[r]) => Leaves(r, p, owner[p])

\* The requests about server s or the account n have nothing that went wrong so far.
Calm(s, n) ==
  \A q \in Concerning(s, n) : /\ state[q] \in {"run", "done"} /\ op[q].server = s
                              /\ overlap[q] \cap Concerning(s, n) = {}

\* Request r is at work on the account n.
On(r, n) == Runs(r) /\ op[r].kind \in Accounts /\ op[r].name = n

\* The text agrees with the accounts, but for the request at work between the two.
TextInv(s, n) ==
  Present(s) /\ n \in Managed(s) /\ Calm(s, n) =>
    /\ \A r \in Requests : On(r, n) =>
         /\ Head(todo[r]) \in {"absent", "there"} /\ n \in servers[s].assigned => n \in linux
         /\ Head(todo[r]) \in {"assign", "userdel"} => n \in linux
         /\ Head(todo[r]) \in {"useradd", "unassign"} => n \notin linux
    /\ (\A r \in Requests : ~On(r, n)) => (n \in servers[s].assigned <=> n \in linux)

NamesInv ==
  /\ \A s \in ServerIds : servers[s] # None => servers[s].assigned \ {"root"} \subseteq Managed(s)
  /\ \A r \in Requests : Runs(r) /\ op[r].kind \in Accounts =>
       /\ Text(r) \ {"root"} \subseteq Managed(op[r].server)
       /\ \A n \in Names : Calm(op[r].server, n) => Text(r) = servers[op[r].server].assigned
  /\ \A s \in ServerIds, n \in Names : TextInv(s, n)

IInv == Sound /\ AdminInv /\ OwnersInv /\ NamesInv

-----------------------------------------------------------------------------
(* The steps ahead of a request.                                           *)

\* A request begins with all of its steps ahead.
LEMMA StepsAhead ==
  ASSUME NEW b \in Bodies
  PROVE  Steps(b) \in Ahead(b)
<1>1. b.kind \in Kinds /\ (b.kind = "delete" => b.transfer \in BOOLEAN)
  BY RequestsAsk
<1>2. CASE b.kind = "delete"
  BY <1>1, <1>2 DEF Steps, DeletionSteps, Ahead, NewUser
<1>3. CASE b.kind # "delete"
  BY <1>1, <1>3 DEF Steps, Ahead, NewUser, Kinds, Accounts
<1> QED BY <1>2, <1>3

\* The parts of short sequences.
LEMMA Singles == \A x : Len(<<x>>) = 1 /\ Head(<<x>>) = x
OBVIOUS

\* The same of two.
LEMMA Pairs == \A x, y : /\ Len(<<x, y>>) = 2 /\ Head(<<x, y>>) = x
                         /\ Tail(<<x, y>>) = <<y>>
OBVIOUS

\* The same of three.
LEMMA Triples == \A x, y, z : /\ Len(<<x, y, z>>) = 3 /\ Head(<<x, y, z>>) = x
                              /\ Tail(<<x, y, z>>) = <<y, z>>
OBVIOUS

\* What is next, what comes after it, and what that says about the request.
Shape(b, t) ==
  /\ Len(t) # 1 => Tail(t) \in Ahead(b)
  /\ Len(t) # 1 /\ Head(Tail(t)) = "bindRole" => Head(t) = "insertUser"
  /\ Head(t) = "absent" => Len(t) # 1 /\ Head(Tail(t)) = "useradd"
  /\ Head(t) = "useradd" => Len(t) # 1 /\ Head(Tail(t)) = "assign"
  /\ Head(t) = "there" => Len(t) # 1 /\ Head(Tail(t)) = "userdel"
  /\ Head(t) = "userdel" => Len(t) # 1 /\ Head(Tail(t)) = "unassign"
  /\ Head(t) \in {"assign", "unassign"} => Len(t) = 1
  /\ b.kind = "purge" => Len(t) = 1
  /\ Head(t) \in {"insertUser", "bindRole"} => b.kind \in NewUser
  /\ Head(t) = "transfer" => b.kind = "delete" /\ b.transfer
  /\ Head(t) = "removeUsers" => b.kind \in {"delete", "purge"}
  /\ Head(t) = "unbind" => b.kind = "delete"
  /\ Head(t) = "insertServer" => b.kind = "addServer"
  /\ Head(t) \in {"absent", "useradd", "assign"} <=> b.kind = "addAccount"
  /\ Head(t) \in {"there", "userdel", "unassign"} <=> b.kind = "dropAccount"
  /\ Head(t) \in {"insertProject", "rename", "dropServer"} => b.kind = Head(t)

\* Whatever a request has ahead has that shape.
LEMMA AheadShape ==
  ASSUME NEW b \in Bodies, NEW t \in Ahead(b)
  PROVE  Shape(b, t)
<1>1. b.kind \in Kinds  BY RequestsAsk
<1>2. ASSUME NEW x, t = <<x>>,
             \/ x = "bindRole" /\ b.kind \in NewUser
             \/ x = "unbind" /\ b.kind = "delete"
             \/ x = "removeUsers" /\ b.kind = "purge"
             \/ x = "insertServer" /\ b.kind = "addServer"
             \/ x = "assign" /\ b.kind = "addAccount"
             \/ x = "unassign" /\ b.kind = "dropAccount"
             \/ x = b.kind /\ b.kind \in {"rename", "dropServer", "insertProject"}
      PROVE  Shape(b, t)
  BY <1>2, Singles DEF Shape, NewUser
<1>3. ASSUME NEW x, NEW y, t = <<x, y>>, <<y>> \in Ahead(b),
             \/ x = "insertUser" /\ y = "bindRole" /\ b.kind \in NewUser
             \/ x = "removeUsers" /\ y = "unbind" /\ b.kind = "delete"
             \/ x = "reach" /\ y = "insertServer" /\ b.kind = "addServer"
             \/ x = "useradd" /\ y = "assign" /\ b.kind = "addAccount"
             \/ x = "userdel" /\ y = "unassign" /\ b.kind = "dropAccount"
      PROVE  Shape(b, t)
  BY <1>3, Singles, Pairs DEF Shape, NewUser
<1>4. ASSUME NEW x, NEW y, NEW z, t = <<x, y, z>>, <<y, z>> \in Ahead(b),
             \/ x = "transfer" /\ y = "removeUsers" /\ b.kind = "delete" /\ b.transfer
             \/ x = "absent" /\ y = "useradd" /\ b.kind = "addAccount"
             \/ x = "there" /\ y = "userdel" /\ b.kind = "dropAccount"
      PROVE  Shape(b, t)
  BY <1>4, Pairs, Triples DEF Shape, NewUser
<1>5. CASE b.kind \in NewUser
  <2>1. Ahead(b) = {<<"insertUser", "bindRole">>, <<"bindRole">>}
    BY <1>5 DEF Ahead, NewUser
  <2>2. CASE t = <<"bindRole">>  BY <1>2, <1>5, <2>2
  <2>3. CASE t = <<"insertUser", "bindRole">>
    <3>1. <<"bindRole">> \in Ahead(b)  BY <2>1
    <3> QED BY <1>3, <1>5, <2>3, <3>1
  <2> QED BY <2>1, <2>2, <2>3
<1>6. CASE b.kind = "delete"
  <2>1. /\ <<"removeUsers", "unbind">> \in Ahead(b) /\ <<"unbind">> \in Ahead(b)
        /\ \/ t = <<"transfer", "removeUsers", "unbind">> /\ b.transfer
           \/ t = <<"removeUsers", "unbind">> \/ t = <<"unbind">>
    BY <1>6 DEF Ahead, NewUser
  <2> QED BY <1>2, <1>3, <1>4, <1>6, <2>1
<1>7. CASE b.kind = "purge"
  <2>1. Ahead(b) = {<<"removeUsers">>}
    BY <1>7 DEF Ahead, NewUser
  <2> QED BY <1>2, <1>7, <2>1
<1>8. CASE b.kind = "addServer"
  <2>1. Ahead(b) = {<<"reach", "insertServer">>, <<"insertServer">>}
    BY <1>8 DEF Ahead, NewUser
  <2>2. CASE t = <<"insertServer">>  BY <1>2, <1>8, <2>2
  <2>3. CASE t = <<"reach", "insertServer">>
    <3>1. <<"insertServer">> \in Ahead(b)  BY <2>1
    <3> QED BY <1>3, <1>8, <2>3, <3>1
  <2> QED BY <2>1, <2>2, <2>3
<1>9. CASE b.kind = "addAccount"
  <2>1. Ahead(b) = {<<"absent", "useradd", "assign">>, <<"useradd", "assign">>, <<"assign">>}
    BY <1>9 DEF Ahead, NewUser
  <2>2. CASE t = <<"assign">>  BY <1>2, <1>9, <2>2
  <2>3. CASE t = <<"useradd", "assign">>
    <3>1. <<"assign">> \in Ahead(b)  BY <2>1
    <3> QED BY <1>3, <1>9, <2>3, <3>1
  <2>4. CASE t = <<"absent", "useradd", "assign">>
    <3>1. <<"useradd", "assign">> \in Ahead(b)  BY <2>1
    <3> QED BY <1>4, <1>9, <2>4, <3>1
  <2> QED BY <2>1, <2>2, <2>3, <2>4
<1>10. CASE b.kind = "dropAccount"
  <2>1. Ahead(b) = {<<"there", "userdel", "unassign">>, <<"userdel", "unassign">>, <<"unassign">>}
    BY <1>10 DEF Ahead, NewUser
  <2>2. CASE t = <<"unassign">>  BY <1>2, <1>10, <2>2
  <2>3. CASE t = <<"userdel", "unassign">>
    <3>1. <<"unassign">> \in Ahead(b)  BY <2>1
    <3> QED BY <1>3, <1>10, <2>3, <3>1
  <2>4. CASE t = <<"there", "userdel", "unassign">>
    <3>1. <<"userdel", "unassign">> \in Ahead(b)  BY <2>1
    <3> QED BY <1>4, <1>10, <2>4, <3>1
  <2> QED BY <2>1, <2>2, <2>3, <2>4
<1>11. CASE b.kind \in {"rename", "dropServer", "insertProject"}
  <2>1. Ahead(b) = {<<b.kind>>}
    BY <1>11 DEF Ahead, NewUser
  <2> QED BY <1>2, <1>11, <2>1
<1> QED BY <1>1, <1>5, <1>6, <1>7, <1>8, <1>9, <1>10, <1>11 DEF Kinds, Accounts

-----------------------------------------------------------------------------
(* What a step does.                                                       *)

\* Request r takes the step label, or ends at it.
Moved(r, label) ==
  /\ Runs(r) /\ Head(todo[r]) = label /\ UNCHANGED <<op, seen, overlap>>
  /\ DOMAIN state' = Requests /\ DOMAIN todo' = Requests
  /\ \A q \in Requests \ {r} : state'[q] = state[q] /\ todo'[q] = todo[q]
  /\ state'[r] \in {"run", "done", "failed"}
  /\ state'[r] = "run" => Len(todo[r]) # 1 /\ todo'[r] = Tail(todo[r])
  /\ state'[r] = "done" => Len(todo[r]) = 1

UsersEffect(r, label) ==
  /\ 1..lastId \subseteq 1..lastId'
  /\ \A i \in DOMAIN users : i \in DOMAIN users' \/ (label = "removeUsers" /\ i \in Doomed(op[r]))
  /\ \A q \in Requests \ {r} : made'[q] = made[q]
  /\ label = "insertUser" /\ state'[r] = "run" => made'[r] \in 1..lastId'

RolesEffect(r, label) ==
  \A x \in roles : x \in roles' \/ (label = "unbind" /\ x[1] \in Doomed(op[r]))

OwnerEffect(r, label) ==
  /\ \A p \in Projects :
       \/ owner'[p] = owner[p]
       \/ label = "transfer" /\ owner'[p] = op[r].by
       \/ label = "insertProject" /\ p = op[r].project /\ owner'[p] = op[r].by
  /\ label = "transfer" /\ state'[r] # "failed" => \A p \in Projects : owner'[p] \notin Doomed(op[r])

NewText(r, label) ==
  IF label = "assign" THEN Added(Text(r), op[r].name) ELSE Removed(Text(r), op[r].name)

ServersEffect(r, label) ==
  \A s \in ServerIds :
    LET writes == label \in {"assign", "unassign"} /\ s = op[r].server IN
    /\ servers[s] # None =>
         /\ servers'[s] # None /\ (Present(s)' => Present(s))
         /\ \/ servers'[s].assigned = servers[s].assigned
            \/ writes /\ servers'[s].assigned = NewText(r, label)
         /\ writes /\ state'[r] # "failed" /\ Present(s)' => servers'[s].assigned = NewText(r, label)
    /\ servers[s] = None /\ servers'[s] # None => servers'[s].assigned = {"root"}

LinuxEffect(r, label) ==
  /\ \A n \in Names : (n \in linux' <=> n \in linux)
                        \/ (label \in {"useradd", "userdel"} /\ n = op[r].name)
  /\ state'[r] # "failed" => /\ label \in {"there", "useradd"} => op[r].name \in linux'
                             /\ label \in {"absent", "userdel"} => op[r].name \notin linux'

Effects(r, label) ==
  /\ UsersEffect(r, label) /\ RolesEffect(r, label) /\ OwnerEffect(r, label)
  /\ ServersEffect(r, label) /\ LinuxEffect(r, label)

\* A step that goes on, and one that ends its request.
LEMMA StepMoves ==
  ASSUME Sound, NEW r \in Requests, NEW label, At(r, label), UNCHANGED <<op, seen, overlap>>,
         Goes(r) \/ Fails(r)
  PROVE  Moved(r, label) /\ (Fails(r) => state'[r] = "failed")
<1>1. DOMAIN state = Requests /\ DOMAIN todo = Requests  BY DEF Sound, TablesInv
<1> QED BY <1>1 DEF Moved, At, Goes, Fails, Runs

\* A step that changes no table.
LEMMA IdleEffects ==
  ASSUME Sound, NEW r \in Requests, NEW label, Moved(r, label), UNCHANGED <<tables, made>>,
         \/ state'[r] = "failed"
         \/ label = "reach"
         \/ label = "absent" /\ op[r].name \notin linux
         \/ label = "there" /\ op[r].name \in linux
  PROVE  Effects(r, label) /\ TablesInv'
<1>1. UNCHANGED <<users, lastId, roles, servers, linux, owner, made>>  BY DEF tables
<1>2. UsersEffect(r, label) /\ RolesEffect(r, label) /\ OwnerEffect(r, label) /\ LinuxEffect(r, label)
  BY <1>1 DEF UsersEffect, RolesEffect, OwnerEffect, LinuxEffect, Moved
<1>3. ServersEffect(r, label)
  <2>1. label \in {"assign", "unassign"} => state'[r] = "failed"  OBVIOUS
  <2> QED BY <1>1, <2>1 DEF ServersEffect, Present
<1>4. TablesInv'
  BY <1>1 DEF Sound, TablesInv, AccountsTypeOK, Moved
<1> QED BY <1>2, <1>3, <1>4 DEF Effects

\* The steps that look only.
LEMMA LookDoes ==
  ASSUME Sound, NEW r \in Requests, Reach(r) \/ Absent(r) \/ There(r)
  PROVE  \E label : Moved(r, label) /\ Effects(r, label) /\ TablesInv'
<1>1. CASE Reach(r)
  <2>1. /\ At(r, "reach") /\ UNCHANGED <<op, seen, overlap>> /\ UNCHANGED <<tables, made>>
        /\ Goes(r) \/ Fails(r)
    BY <1>1 DEF Reach, Step
  <2>2. Moved(r, "reach")  BY <2>1, StepMoves
  <2> QED BY <2>1, <2>2, IdleEffects
<1>2. CASE Absent(r)
  <2>1. /\ At(r, "absent") /\ UNCHANGED <<op, seen, overlap>> /\ UNCHANGED <<tables, made>>
        /\ \/ Goes(r) /\ op[r].name \notin linux
           \/ Fails(r)
    BY <1>2 DEF Absent, Step
  <2>2. Moved(r, "absent") /\ (Fails(r) => state'[r] = "failed")  BY <2>1, StepMoves
  <2> QED BY <2>1, <2>2, IdleEffects
<1>3. CASE There(r)
  <2>1. /\ At(r, "there") /\ UNCHANGED <<op, seen, overlap>> /\ UNCHANGED <<tables, made>>
        /\ \/ Goes(r) /\ op[r].name \in linux
           \/ Fails(r)
    BY <1>3 DEF There, Step
  <2>2. Moved(r, "there") /\ (Fails(r) => state'[r] = "failed")  BY <2>1, StepMoves
  <2> QED BY <2>1, <2>2, IdleEffects
<1> QED BY <1>1, <1>2, <1>3

\* The steps that write users and roles.
LEMMA InsertUserDoes ==
  ASSUME Sound, NEW r \in Requests, InsertUser(r)
  PROVE  \E label : Moved(r, label) /\ Effects(r, label) /\ TablesInv'
<1> DEFINE number == 1 + Max({seen[r].users[i].number : i \in DOMAIN seen[r].users} \cup {0})
           i == lastId + 1
<1>1. /\ At(r, "insertUser") /\ UNCHANGED <<op, seen, overlap>> /\ i \in Ids
      /\ Goes(r) \/ Fails(r)
      /\ \/ Fails(r) /\ UNCHANGED <<tables, made>>
         \/ /\ Unique(op[r].name, number)
            /\ users' = [j \in DOMAIN users \cup {i} |->
                           IF j = i THEN [name |-> op[r].name, number |-> number] ELSE users[j]]
            /\ lastId' = i /\ made' = [made EXCEPT ![r] = i]
            /\ UNCHANGED <<roles, servers, linux, owner>>
  BY DEF InsertUser, Step
<1>2. Moved(r, "insertUser") /\ (Fails(r) => state'[r] = "failed")  BY <1>1, StepMoves
<1> HIDE DEF number
<1>3. CASE Fails(r) /\ UNCHANGED <<tables, made>>
  BY <1>2, <1>3, IdleEffects
<1>4. CASE /\ Unique(op[r].name, number)
           /\ users' = [j \in DOMAIN users \cup {i} |->
                          IF j = i THEN [name |-> op[r].name, number |-> number] ELSE users[j]]
           /\ lastId' = i /\ made' = [made EXCEPT ![r] = i]
           /\ UNCHANGED <<roles, servers, linux, owner>>
  <2>1. /\ lastId \in Nat /\ DOMAIN made = Requests /\ DOMAIN users \subseteq 1..lastId
        /\ 1..lastId \subseteq 1..i /\ i \in 1..i /\ i \notin DOMAIN users
    BY InstalledPlatform DEF Sound, TablesInv, AccountsTypeOK
  <2>2. DOMAIN users' = DOMAIN users \cup {i} /\ \A j \in DOMAIN users : users'[j] = users[j]
    BY <1>4, <2>1
  <2>3. users'[i] = [name |-> op[r].name, number |-> number]  BY <1>4
  <2>4. /\ users'[i].name = op[r].name /\ users'[i].number = number
        /\ DOMAIN users'[i] = {"name", "number"}
    BY <2>3
  <2>5. /\ DOMAIN made' = Requests /\ made'[r] = i
        /\ \A q \in Requests \ {r} : made'[q] = made[q]
    BY <1>4, <2>1
  <2>6. UsersEffect(r, "insertUser")
    BY <1>4, <2>1, <2>2, <2>5 DEF UsersEffect
  <2>7. RolesEffect(r, "insertUser") /\ OwnerEffect(r, "insertUser") /\ ServersEffect(r, "insertUser")
          /\ LinuxEffect(r, "insertUser")
    BY <1>4 DEF RolesEffect, OwnerEffect, ServersEffect, LinuxEffect, Present
  <2>8. AccountsTypeOK'
    <3>1. DOMAIN users' \subseteq 1..lastId' /\ lastId' \in Ids
      BY <1>1, <1>4, <2>1, <2>2
    <3>2. \A j, k \in DOMAIN users' :
            j # k => users'[j].name # users'[k].name /\ users'[j].number # users'[k].number
      <4>1. \A j \in DOMAIN users : users[j].name # op[r].name /\ users[j].number # number
        BY <1>4 DEF Unique, Named
      <4>2. \A j, k \in DOMAIN users :
              j # k => users[j].name # users[k].name /\ users[j].number # users[k].number
        BY DEF Sound, TablesInv, AccountsTypeOK
      <4> QED BY <2>2, <2>4, <4>1, <4>2
    <3>3. /\ \A x \in roles' : x[1] \in 1..lastId' /\ x[2] \in {"root", "user"}
          /\ \A s \in ServerIds : servers'[s] # None => "root" \in servers'[s].assigned
          /\ owner' \in [Projects -> 1..lastId' \cup {None}]
      BY <1>4, <2>1 DEF Sound, TablesInv, AccountsTypeOK
    <3> QED BY <3>1, <3>2, <3>3 DEF AccountsTypeOK
  <2>9. TablesInv'
    BY <1>2, <1>4, <2>2, <2>4, <2>5, <2>8 DEF Sound, TablesInv, Moved
  <2> QED BY <1>2, <2>6, <2>7, <2>9 DEF Effects
<1> QED BY <1>1, <1>3, <1>4

LEMMA RolesDo ==
  ASSUME Sound, NEW r \in Requests, BindRole(r) \/ Unbind(r)
  PROVE  \E label : Moved(r, label) /\ Effects(r, label) /\ TablesInv'
<1>1. ASSUME NEW label, NEW new, Moved(r, label), SetRoles(new), label \notin {"absent", "there"},
             \A x \in roles : x \in new \/ (label = "unbind" /\ x[1] \in Doomed(op[r])),
             \A x \in new : x[1] \in 1..lastId /\ x[2] \in {"root", "user"},
             label \notin {"insertUser", "transfer", "assign", "unassign", "useradd", "userdel"}
      PROVE  Effects(r, label) /\ TablesInv'
  <2>1. UNCHANGED <<users, lastId, servers, linux, owner, made>> /\ roles' = new
    BY <1>1 DEF SetRoles
  <2>2. UsersEffect(r, label) /\ RolesEffect(r, label)
    BY <1>1, <2>1 DEF UsersEffect, RolesEffect
  <2>3. OwnerEffect(r, label)  BY <1>1, <2>1 DEF OwnerEffect
  <2>4. ServersEffect(r, label)  BY <1>1, <2>1 DEF ServersEffect, Present
  <2>5. LinuxEffect(r, label)  BY <1>1, <2>1 DEF LinuxEffect
  <2>6. AccountsTypeOK'  BY <1>1, <2>1 DEF Sound, TablesInv, AccountsTypeOK
  <2>7. TablesInv'  BY <1>1, <2>1, <2>6 DEF Sound, TablesInv, Moved
  <2> QED BY <2>2, <2>3, <2>4, <2>5, <2>7 DEF Effects
<1>2. RequestInv(r) /\ \A x \in roles : x[1] \in 1..lastId /\ x[2] \in {"root", "user"}
  BY DEF Sound, TablesInv, AccountsTypeOK
<1>3. CASE BindRole(r)
  <2> DEFINE x == <<made[r], IF op[r].kind = "create" THEN op[r].role ELSE "user">>
  <2>1. /\ At(r, "bindRole") /\ UNCHANGED <<op, seen, overlap>> /\ (Goes(r) \/ Fails(r))
        /\ \/ Fails(r) /\ UNCHANGED <<tables, made>>
           \/ SetRoles(roles \cup {x})
    BY <1>3 DEF BindRole, Step
  <2>2. Moved(r, "bindRole") /\ (Fails(r) => state'[r] = "failed")  BY <2>1, StepMoves
  <2>3. x[1] \in 1..lastId /\ x[2] \in {"root", "user"}
    BY <1>2, <2>2, RequestsAsk DEF RequestInv, Moved, Runs
  <2> HIDE DEF x
  <2>4. CASE SetRoles(roles \cup {x})
    <3>1. \A y \in roles \cup {x} : y[1] \in 1..lastId /\ y[2] \in {"root", "user"}
      BY <1>2, <2>3
    <3> QED BY <1>1, <2>2, <2>4, <3>1
  <2> QED BY <2>1, <2>2, <2>4, IdleEffects
<1>4. CASE Unbind(r)
  <2> DEFINE new == {x \in roles : x[1] \notin Doomed(op[r])}
  <2>1. /\ At(r, "unbind") /\ UNCHANGED <<op, seen, overlap>> /\ (Goes(r) \/ Fails(r))
        /\ \/ Fails(r) /\ UNCHANGED <<tables, made>>
           \/ SetRoles(new)
    BY <1>4 DEF Unbind, Step
  <2>2. Moved(r, "unbind") /\ (Fails(r) => state'[r] = "failed")  BY <2>1, StepMoves
  <2>3. \A x \in roles : x \in new \/ x[1] \in Doomed(op[r])
    OBVIOUS
  <2>4. \A x \in new : x[1] \in 1..lastId /\ x[2] \in {"root", "user"}
    BY <1>2
  <2> HIDE DEF new
  <2>5. CASE SetRoles(new)
    BY <1>1, <2>2, <2>3, <2>4, <2>5
  <2> QED BY <2>1, <2>2, <2>5, IdleEffects
<1> QED BY <1>3, <1>4

LEMMA UsersDo ==
  ASSUME Sound, NEW r \in Requests, Rename(r) \/ RemoveUsers(r)
  PROVE  \E label : Moved(r, label) /\ Effects(r, label) /\ TablesInv'
<1>1. ASSUME NEW label \in {"rename", "removeUsers"}, NEW new, Moved(r, label), SetUsers(new),
             \A i \in DOMAIN users :
               i \in DOMAIN new \/ (label = "removeUsers" /\ i \in Doomed(op[r])),
             DOMAIN new \subseteq DOMAIN users,
             \A i, j \in DOMAIN new :
               i # j => new[i].name # new[j].name /\ new[i].number # new[j].number,
             \A i \in DOMAIN new : DOMAIN new[i] = {"name", "number"}
      PROVE  Effects(r, label) /\ TablesInv'
  <2>1. UNCHANGED <<lastId, roles, servers, linux, owner, made>> /\ users' = new
    BY <1>1 DEF SetUsers
  <2>2. UsersEffect(r, label) /\ RolesEffect(r, label)
    BY <1>1, <2>1 DEF UsersEffect, RolesEffect
  <2>3. OwnerEffect(r, label)  BY <1>1, <2>1 DEF OwnerEffect
  <2>4. ServersEffect(r, label)  BY <1>1, <2>1 DEF ServersEffect, Present
  <2>5. LinuxEffect(r, label)  BY <1>1, <2>1 DEF LinuxEffect
  <2>6. AccountsTypeOK'  BY <1>1, <2>1 DEF Sound, TablesInv, AccountsTypeOK
  <2>7. TablesInv'  BY <1>1, <2>1, <2>6 DEF Sound, TablesInv, Moved
  <2> QED BY <2>2, <2>3, <2>4, <2>5, <2>7 DEF Effects
<1>2. /\ \A i, j \in DOMAIN users :
           i # j => users[i].name # users[j].name /\ users[i].number # users[j].number
      /\ \A i \in DOMAIN users : DOMAIN users[i] = {"name", "number"}
  BY DEF Sound, TablesInv, AccountsTypeOK
<1>3. CASE Rename(r)
  <2> DEFINE b == op[r]
             new == [users EXCEPT ![b.id].name = b.name]
  <2>1. /\ At(r, "rename") /\ UNCHANGED <<op, seen, overlap>> /\ (Goes(r) \/ Fails(r))
        /\ \/ Fails(r) /\ UNCHANGED <<tables, made>>
           \/ /\ SetUsers(new) /\ b.id \in DOMAIN users
              /\ \A i \in DOMAIN users \ {b.id} : users[i].name # b.name
    BY <1>3 DEF Rename, Step
  <2>2. Moved(r, "rename") /\ (Fails(r) => state'[r] = "failed")  BY <2>1, StepMoves
  <2>3. CASE /\ SetUsers(new) /\ b.id \in DOMAIN users
             /\ \A i \in DOMAIN users \ {b.id} : users[i].name # b.name
    <3>1. /\ DOMAIN new = DOMAIN users
          /\ \A i \in DOMAIN users \ {b.id} : new[i] = users[i]
          /\ new[b.id] = [users[b.id] EXCEPT !.name = b.name]
      BY <2>3
    <3>2. /\ new[b.id].name = b.name /\ new[b.id].number = users[b.id].number
          /\ DOMAIN new[b.id] = {"name", "number"}
      BY <1>2, <2>3, <3>1
    <3> HIDE DEF new
    <3>3. \A i, j \in DOMAIN new :
            i # j => new[i].name # new[j].name /\ new[i].number # new[j].number
      BY <1>2, <2>3, <3>1, <3>2
    <3>4. \A i \in DOMAIN new : DOMAIN new[i] = {"name", "number"}
      BY <1>2, <3>1, <3>2
    <3> QED BY <1>1, <2>2, <2>3, <3>1, <3>3, <3>4
  <2> QED BY <2>1, <2>2, <2>3, IdleEffects
<1>4. CASE RemoveUsers(r)
  <2> DEFINE new == [i \in DOMAIN users \ Doomed(op[r]) |-> users[i]]
  <2>1. /\ At(r, "removeUsers") /\ UNCHANGED <<op, seen, overlap>> /\ (Goes(r) \/ Fails(r))
        /\ \/ Fails(r) /\ UNCHANGED <<tables, made>>
           \/ SetUsers(new)
    BY <1>4 DEF RemoveUsers, Step
  <2>2. Moved(r, "removeUsers") /\ (Fails(r) => state'[r] = "failed")  BY <2>1, StepMoves
  <2>3. DOMAIN new = DOMAIN users \ Doomed(op[r]) /\ \A i \in DOMAIN new : new[i] = users[i]
    OBVIOUS
  <2> HIDE DEF new
  <2>4. CASE SetUsers(new)
    BY <1>1, <1>2, <2>2, <2>3, <2>4
  <2> QED BY <2>1, <2>2, <2>4, IdleEffects
<1> QED BY <1>3, <1>4

\* The steps that write owners.
LEMMA OwnersDo ==
  ASSUME Sound, NEW r \in Requests, Transfer(r) \/ InsertProject(r)
  PROVE  \E label : Moved(r, label) /\ Effects(r, label) /\ TablesInv'
<1>1. ASSUME NEW label \in {"transfer", "insertProject"}, NEW new, Moved(r, label), SetOwner(new),
             new \in [Projects -> 1..lastId \cup {None}], OwnerEffect(r, label)
      PROVE  Effects(r, label) /\ TablesInv'
  <2>1. UNCHANGED <<users, lastId, roles, servers, linux, made>> /\ owner' = new
    BY <1>1 DEF SetOwner
  <2>2. UsersEffect(r, label) /\ RolesEffect(r, label)
    BY <1>1, <2>1 DEF UsersEffect, RolesEffect
  <2>4. ServersEffect(r, label)  BY <1>1, <2>1 DEF ServersEffect, Present
  <2>5. LinuxEffect(r, label)  BY <1>1, <2>1 DEF LinuxEffect
  <2>6. AccountsTypeOK'  BY <1>1, <2>1 DEF Sound, TablesInv, AccountsTypeOK
  <2>7. TablesInv'  BY <1>1, <2>1, <2>6 DEF Sound, TablesInv, Moved
  <2> QED BY <1>1, <2>2, <2>4, <2>5, <2>7 DEF Effects
<1>2. RequestInv(r) /\ owner \in [Projects -> 1..lastId \cup {None}]
  BY DEF Sound, TablesInv, AccountsTypeOK
<1>3. ASSUME NEW label \in {"transfer", "insertProject"}, Moved(r, label)
      PROVE  op[r].by \in 1..lastId /\ (label = "transfer" => op[r].kind = "delete")
  <2>1. Runs(r) /\ op[r] \in Bodies /\ todo[r] \in Ahead(op[r]) /\ Head(todo[r]) = label
    BY <1>2, <1>3 DEF Moved, RequestInv, Runs
  <2>2. Shape(op[r], todo[r])  BY <2>1, AheadShape
  <2>3. op[r].kind \in {"delete", "insertProject"} /\ (label = "transfer" => op[r].kind = "delete")
    BY <2>1, <2>2 DEF Shape
  <2> QED BY <1>2, <2>1, <2>3 DEF RequestInv
<1>4. CASE Transfer(r)
  <2> DEFINE new == [p \in Projects |-> IF owner[p] \in Doomed(op[r]) THEN op[r].by ELSE owner[p]]
  <2>1. /\ At(r, "transfer") /\ UNCHANGED <<op, seen, overlap>> /\ (Goes(r) \/ Fails(r))
        /\ \/ Fails(r) /\ UNCHANGED <<tables, made>>
           \/ SetOwner(new)
    BY <1>4 DEF Transfer, Step
  <2>2. Moved(r, "transfer") /\ (Fails(r) => state'[r] = "failed")  BY <2>1, StepMoves
  <2>3. op[r].by \in 1..lastId /\ op[r].by \notin Doomed(op[r])
    BY <1>3, <2>2 DEF Doomed
  <2>4. CASE SetOwner(new)
    <3>1. new \in [Projects -> 1..lastId \cup {None}]  BY <1>2, <2>3
    <3>2. OwnerEffect(r, "transfer")  BY <2>3, <2>4 DEF SetOwner, OwnerEffect
    <3> HIDE DEF new
    <3> QED BY <1>1, <2>2, <2>4, <3>1, <3>2
  <2> QED BY <2>1, <2>2, <2>4, IdleEffects
<1>5. CASE InsertProject(r)
  <2> DEFINE new == [owner EXCEPT ![op[r].project] = op[r].by]
  <2>1. /\ At(r, "insertProject") /\ UNCHANGED <<op, seen, overlap>> /\ (Goes(r) \/ Fails(r))
        /\ \/ Fails(r) /\ UNCHANGED <<tables, made>>
           \/ SetOwner(new)
    BY <1>5 DEF InsertProject, Step
  <2>2. Moved(r, "insertProject") /\ (Fails(r) => state'[r] = "failed")  BY <2>1, StepMoves
  <2>3. op[r].by \in 1..lastId
    BY <1>3, <2>2
  <2>4. CASE SetOwner(new)
    <3>1. new \in [Projects -> 1..lastId \cup {None}]  BY <1>2, <2>3
    <3>2. OwnerEffect(r, "insertProject")  BY <1>2, <2>4 DEF SetOwner, OwnerEffect
    <3> HIDE DEF new
    <3> QED BY <1>1, <2>2, <2>4, <3>1, <3>2
  <2> QED BY <2>1, <2>2, <2>4, IdleEffects
<1> QED BY <1>4, <1>5

\* The steps that write servers.
LEMMA ServersWritten ==
  ASSUME Sound, NEW r \in Requests,
         NEW label \in {"insertServer", "dropServer", "assign", "unassign"}, NEW new,
         Moved(r, label), SetServers(new), new \in [ServerIds -> Server \cup {None}],
         \A s \in ServerIds : new[s] # None => "root" \in new[s].assigned,
         \A s \in ServerIds : servers[s] # None => new[s] # None,
         \E n \in ServerIds \cup {0} : {s \in ServerIds : new[s] # None} = 1..n,
         ServersEffect(r, label)
  PROVE  Effects(r, label) /\ TablesInv'
<1>1. UNCHANGED <<users, lastId, roles, linux, owner, made>> /\ servers' = new
  BY DEF SetServers
<1>2. UsersEffect(r, label) /\ RolesEffect(r, label) /\ OwnerEffect(r, label)
  BY <1>1 DEF UsersEffect, RolesEffect, OwnerEffect
<1>3. LinuxEffect(r, label)  BY <1>1 DEF LinuxEffect
<1>4. AccountsTypeOK'  BY <1>1 DEF Sound, TablesInv, AccountsTypeOK
<1>5. TablesInv'  BY <1>1, <1>4 DEF Sound, TablesInv, Moved
<1> QED BY <1>2, <1>3, <1>5 DEF Effects

\* The registration of a server takes the next id.
LEMMA InsertServerDoes ==
  ASSUME Sound, NEW r \in Requests, InsertServer(r)
  PROVE  \E label : Moved(r, label) /\ Effects(r, label) /\ TablesInv'
<1> DEFINE s == 1 + Cardinality({t \in ServerIds : servers[t] # None})
           v == [ip |-> op[r].ip, listed |-> TRUE, assigned |-> {"root"}]
           new == [servers EXCEPT ![s] = v]
<1>1. /\ At(r, "insertServer") /\ UNCHANGED <<op, seen, overlap>> /\ (Goes(r) \/ Fails(r))
      /\ s \in ServerIds
      /\ \/ Fails(r) /\ UNCHANGED <<tables, made>>
         \/ SetServers(new)
  BY DEF InsertServer, Step
<1>2. Moved(r, "insertServer") /\ (Fails(r) => state'[r] = "failed")  BY <1>1, StepMoves
<1>3. op[r] \in Bodies /\ op[r].kind = "addServer"
  <2>1. Runs(r) /\ op[r] \in Bodies /\ todo[r] \in Ahead(op[r]) /\ Head(todo[r]) = "insertServer"
    BY <1>2 DEF Moved, Sound, RequestInv, Runs
  <2>2. Shape(op[r], todo[r])  BY <2>1, AheadShape
  <2> QED BY <2>1, <2>2 DEF Shape
<1>4. v \in Server /\ v # None /\ v.assigned = {"root"}
  <2>1. None \notin Server /\ "root" \in Names  BY InstalledPlatform
  <2>2. op[r].ip \in Addresses  BY <1>3, RequestsAsk
  <2>3. v \in Server  BY <2>1, <2>2 DEF Server
  <2> QED BY <2>1, <2>3
<1>5. PICK n \in ServerIds \cup {0} : {t \in ServerIds : servers[t] # None} = 1..n
  BY DEF Sound, TablesInv
<1>6. n \in Nat /\ s = n + 1
  <2>1. n \in Nat  BY InstalledPlatform
  <2>2. Cardinality(1..n) = n  BY <2>1, FS_Interval
  <2>3. s = 1 + Cardinality(1..n)  BY <1>5, Zenon
  <2> QED BY <2>1, <2>2, <2>3
<1>7. servers[s] = None
  BY <1>1, <1>5, <1>6
<1>8. servers \in [ServerIds -> Server \cup {None}]
  BY DEF Sound, TablesInv
<1> HIDE DEF s, v
<1>9. CASE SetServers(new)
  <2>1. /\ new \in [ServerIds -> Server \cup {None}] /\ new[s] = v
        /\ \A t \in ServerIds \ {s} : new[t] = servers[t]
    BY <1>1, <1>4, <1>8
  <2>2. servers' = new  BY <1>9 DEF SetServers
  <2> HIDE DEF new
  <2>3. {t \in ServerIds : new[t] # None} = 1..s
    <3>1. ServerIds \subseteq Nat  BY InstalledPlatform
    <3>2. \A t \in ServerIds : servers[t] # None <=> t \in 1..n  BY <1>5
    <3>3. 1..n \subseteq ServerIds  BY <1>5
    <3>4. \A t \in ServerIds : new[t] # None <=> t \in 1..s
      BY <1>1, <1>4, <1>6, <2>1, <3>1, <3>2
    <3>5. 1..s \subseteq ServerIds  BY <1>1, <1>6, <3>3
    <3> QED BY <3>4, <3>5
  <2>4. \A t \in ServerIds : new[t] # None => "root" \in new[t].assigned
    BY <1>4, <2>1 DEF Sound, TablesInv, AccountsTypeOK
  <2>5. \A t \in ServerIds : servers[t] # None => new[t] = servers[t]
    BY <1>7, <2>1
  <2>6. ServersEffect(r, "insertServer")
    <3>1. \A t \in ServerIds : servers[t] # None => servers'[t] = servers[t]  BY <2>2, <2>5
    <3>2. \A t \in ServerIds : servers[t] = None /\ servers'[t] # None => servers'[t].assigned = {"root"}
      BY <1>4, <2>1, <2>2
    <3>3. DOMAIN servers' = ServerIds /\ DOMAIN servers = ServerIds  BY <1>8, <2>1, <2>2
    <3>4. \A t \in ServerIds : servers[t] # None /\ Present(t)' => Present(t)
      BY <3>1, <3>3 DEF Present
    <3> QED BY <3>1, <3>2, <3>4 DEF ServersEffect
  <2> QED BY <1>1, <1>2, <1>9, <2>1, <2>3, <2>4, <2>5, <2>6, ServersWritten
<1> QED BY <1>1, <1>2, <1>9, IdleEffects

\* The removal of a server only hides it.
LEMMA DropServerDoes ==
  ASSUME Sound, NEW r \in Requests, DropServer(r)
  PROVE  \E label : Moved(r, label) /\ Effects(r, label) /\ TablesInv'
<1> DEFINE s == op[r].server
           new == [servers EXCEPT ![s].listed = FALSE]
<1>1. /\ At(r, "dropServer") /\ UNCHANGED <<op, seen, overlap>> /\ (Goes(r) \/ Fails(r))
      /\ \/ Fails(r) /\ UNCHANGED <<tables, made>>
         \/ Present(s) /\ SetServers(new)
  BY DEF DropServer, Step
<1>2. Moved(r, "dropServer") /\ (Fails(r) => state'[r] = "failed")  BY <1>1, StepMoves
<1>3. servers \in [ServerIds -> Server \cup {None}] /\ None \notin Server
  BY InstalledPlatform DEF Sound, TablesInv
<1>4. CASE Present(s) /\ SetServers(new)
  <2>1. s \in ServerIds /\ servers[s] \in Server
    BY <1>3, <1>4 DEF Present
  <2>2. /\ [servers[s] EXCEPT !.listed = FALSE] \in Server
        /\ [servers[s] EXCEPT !.listed = FALSE].assigned = servers[s].assigned
        /\ [servers[s] EXCEPT !.listed = FALSE].listed = FALSE
    BY <2>1 DEF Server
  <2>3. /\ new \in [ServerIds -> Server \cup {None}] /\ new[s] = [servers[s] EXCEPT !.listed = FALSE]
        /\ \A t \in ServerIds \ {s} : new[t] = servers[t]
    BY <1>3, <2>1, <2>2
  <2>4. servers' = new /\ DOMAIN servers' = ServerIds  BY <1>4, <2>3 DEF SetServers
  <2> HIDE DEF new, s
  <2>5. /\ new[s] # None /\ new[s].assigned = servers[s].assigned /\ new[s].listed = FALSE
        /\ servers[s] # None
    BY <1>3, <2>1, <2>2, <2>3
  <2>6. \A t \in ServerIds : /\ new[t] # None <=> servers[t] # None
                             /\ servers[t] # None => new[t].assigned = servers[t].assigned
    BY <2>3, <2>5
  <2>7. \A t \in ServerIds : new[t] # None => "root" \in new[t].assigned
    BY <2>6 DEF Sound, TablesInv, AccountsTypeOK
  <2>8. \E n \in ServerIds \cup {0} : {t \in ServerIds : new[t] # None} = 1..n
    <3>1. {t \in ServerIds : new[t] # None} = {t \in ServerIds : servers[t] # None}
      BY <2>6
    <3> QED BY <3>1 DEF Sound, TablesInv
  <2>9. \A t \in ServerIds : Present(t)' => Present(t)
    <3>1. SUFFICES ASSUME NEW t \in ServerIds, Present(t)' PROVE Present(t)
      OBVIOUS
    <3>2. CASE t = s  BY <2>4, <2>5, <3>1, <3>2 DEF Present
    <3>3. CASE t # s  BY <1>3, <2>3, <2>4, <3>1, <3>3 DEF Present
    <3> QED BY <3>2, <3>3
  <2>10. ServersEffect(r, "dropServer")
    BY <2>4, <2>6, <2>9 DEF ServersEffect
  <2> QED BY <1>2, <1>4, <2>3, <2>6, <2>7, <2>8, <2>10, ServersWritten
<1> QED BY <1>1, <1>2, <1>4, IdleEffects

\* The steps that write the text of a server.
LEMMA AssignDoes ==
  ASSUME Sound, NEW r \in Requests, Assign(r) \/ Unassign(r)
  PROVE  \E label : Moved(r, label) /\ Effects(r, label) /\ TablesInv'
<1> DEFINE s == op[r].server
           new(label) == [servers EXCEPT ![s].assigned = NewText(r, label)]
<1>1. PICK label \in {"assign", "unassign"} :
        /\ At(r, label) /\ UNCHANGED <<op, seen, overlap>> /\ (Goes(r) \/ Fails(r))
        /\ \/ Fails(r) /\ UNCHANGED <<tables, made>>
           \/ SetServers(new(label))
           \/ ~Present(s) /\ UNCHANGED <<tables, made>>
  BY DEF Assign, Unassign, Step, Write, NewText
<1>2. Moved(r, label) /\ (Fails(r) => state'[r] = "failed")  BY <1>1, StepMoves
<1>3. servers \in [ServerIds -> Server \cup {None}] /\ None \notin Server
  BY InstalledPlatform DEF Sound, TablesInv
<1>4. /\ s \in ServerIds /\ servers[s] \in Server
      /\ NewText(r, label) \subseteq Names /\ "root" \in NewText(r, label)
  <2>1. Runs(r) /\ op[r] \in Bodies /\ todo[r] \in Ahead(op[r]) /\ Head(todo[r]) = label
    BY <1>2 DEF Moved, Sound, RequestInv, Runs
  <2>2. Shape(op[r], todo[r])  BY <2>1, AheadShape
  <2>3. op[r].kind \in Accounts  BY <2>1, <2>2 DEF Shape, Accounts
  <2>4. Began(r)  BY <2>1 DEF Began, Runs
  <2>5. s \in ServerIds /\ servers[s] # None  BY <2>3, <2>4 DEF Sound, RequestInv
  <2>6. seen[r].servers[s] \in Server  BY <2>1, <2>3, <2>5 DEF Sound, RequestInv
  <2>7. op[r].name \in Names /\ "root" \in Names  BY <2>1, <2>3, RequestsAsk, InstalledPlatform
  <2>8. Text(r) \subseteq Names  BY <2>6 DEF Text, Server
  <2> QED BY <1>3, <2>5, <2>7, <2>8 DEF NewText, Added, Removed
<1>5. CASE SetServers(new(label))
  <2> DEFINE w == [servers[s] EXCEPT !.assigned = NewText(r, label)]
             v == new(label)
  <2>1. w \in Server /\ w.assigned = NewText(r, label) /\ w.listed = servers[s].listed
    BY <1>4 DEF Server
  <2>2. v = [servers EXCEPT ![s] = w]  OBVIOUS
  <2> HIDE DEF w
  <2>3. /\ v \in [ServerIds -> Server \cup {None}] /\ v[s] = w
        /\ \A t \in ServerIds \ {s} : v[t] = servers[t]
    BY <1>3, <1>4, <2>1, <2>2
  <2>4. servers' = v /\ DOMAIN servers' = ServerIds  BY <1>5, <2>3 DEF SetServers
  <2>5. SetServers(v)  BY <1>5
  <2> HIDE DEF v, new, s
  <2>6. v[s] # None /\ servers[s] # None  BY <1>3, <1>4, <2>1, <2>3
  <2>7. \A t \in ServerIds : v[t] # None <=> servers[t] # None
    BY <2>3, <2>6
  <2>8. \A t \in ServerIds : v[t] # None => "root" \in v[t].assigned
    BY <1>4, <2>1, <2>3, <2>7 DEF Sound, TablesInv, AccountsTypeOK
  <2>9. \E n \in ServerIds \cup {0} : {t \in ServerIds : v[t] # None} = 1..n
    <3>1. {t \in ServerIds : v[t] # None} = {t \in ServerIds : servers[t] # None}
      BY <2>7
    <3> QED BY <3>1 DEF Sound, TablesInv
  <2>10. \A t \in ServerIds : Present(t)' => Present(t)
    <3>1. SUFFICES ASSUME NEW t \in ServerIds, Present(t)' PROVE Present(t)
      OBVIOUS
    <3>2. CASE t = s  BY <1>3, <2>1, <2>3, <2>4, <2>6, <3>1, <3>2 DEF Present
    <3>3. CASE t # s  BY <1>3, <2>3, <2>4, <3>1, <3>3 DEF Present
    <3> QED BY <3>2, <3>3
  <2>11. ServersEffect(r, label)
    <3>1. \A t \in ServerIds : t # s => servers'[t] = servers[t]  BY <2>3, <2>4
    <3>2. servers'[s].assigned = NewText(r, label)  BY <2>1, <2>3, <2>4
    <3> QED BY <2>4, <2>6, <2>7, <2>10, <3>1, <3>2 DEF ServersEffect, s
  <2> QED BY <1>1, <1>2, <2>3, <2>5, <2>7, <2>8, <2>9, <2>11, ServersWritten
<1>6. CASE ~Present(s) /\ UNCHANGED <<tables, made>>
  <2>1. UNCHANGED <<users, lastId, roles, servers, linux, owner, made>>  BY <1>6 DEF tables
  <2>2. UsersEffect(r, label) /\ RolesEffect(r, label) /\ OwnerEffect(r, label) /\ LinuxEffect(r, label)
    BY <2>1, <1>1 DEF UsersEffect, RolesEffect, OwnerEffect, LinuxEffect
  <2>3. ServersEffect(r, label)
    BY <1>6, <2>1 DEF ServersEffect, Present
  <2>4. TablesInv'
    BY <1>2, <2>1 DEF Sound, TablesInv, AccountsTypeOK, Moved
  <2> QED BY <1>2, <2>2, <2>3, <2>4 DEF Effects
<1> QED BY <1>1, <1>2, <1>5, <1>6, IdleEffects

\* The steps that make and remove Linux accounts.
LEMMA LinuxDo ==
  ASSUME Sound, NEW r \in Requests, Useradd(r) \/ Userdel(r)
  PROVE  \E label : Moved(r, label) /\ Effects(r, label) /\ TablesInv'
<1>1. PICK label \in {"useradd", "userdel"} :
        /\ At(r, label) /\ UNCHANGED <<op, seen, overlap>> /\ (Goes(r) \/ Fails(r))
        /\ \/ Fails(r) /\ UNCHANGED <<tables, made>>
           \/ SetLinux(IF label = "useradd" THEN linux \cup {op[r].name} ELSE linux \ {op[r].name})
  BY DEF Useradd, Userdel, Step
<1>2. Moved(r, label) /\ (Fails(r) => state'[r] = "failed")  BY <1>1, StepMoves
<1>3. CASE SetLinux(IF label = "useradd" THEN linux \cup {op[r].name} ELSE linux \ {op[r].name})
  <2>1. /\ UNCHANGED <<users, lastId, roles, servers, owner, made>>
        /\ linux' = IF label = "useradd" THEN linux \cup {op[r].name} ELSE linux \ {op[r].name}
    BY <1>3 DEF SetLinux
  <2>2. UsersEffect(r, label) /\ RolesEffect(r, label) /\ OwnerEffect(r, label)
    BY <2>1, <1>1 DEF UsersEffect, RolesEffect, OwnerEffect
  <2>3. ServersEffect(r, label)  BY <2>1, <1>1 DEF ServersEffect, Present
  <2>4. LinuxEffect(r, label)  BY <2>1, <1>1 DEF LinuxEffect
  <2>5. TablesInv'
    BY <1>2, <2>1 DEF Sound, TablesInv, AccountsTypeOK, Moved
  <2> QED BY <1>2, <2>2, <2>3, <2>4, <2>5 DEF Effects
<1> QED BY <1>1, <1>2, <1>3, IdleEffects

\* Every step of a request has its effects.
LEMMA StepDoes ==
  ASSUME Sound, NEW r \in Requests, AccountsStep(r)
  PROVE  \E label : Moved(r, label) /\ Effects(r, label) /\ TablesInv'
BY LookDoes, InsertUserDoes, RolesDo, UsersDo, OwnersDo, InsertServerDoes, DropServerDoes,
   AssignDoes, LinuxDo DEF AccountsStep

-----------------------------------------------------------------------------
(* How a request begins, and what stays of those that have.                *)

\* Request r begins, and asks for b.
Begins(r, b) ==
  /\ b \in Bodies /\ op'[r] = b /\ state[r] = "idle" /\ state'[r] \in {"run", "refused"}
  /\ UNCHANGED <<users, lastId, roles, servers, linux, owner, made>>
  /\ \A q \in Requests \ {r} : /\ op'[q] = op[q] /\ state'[q] = state[q]
                               /\ todo'[q] = todo[q] /\ seen'[q] = seen[q]
                               /\ overlap'[q] = IF Runs(q) THEN overlap[q] \cup {r} ELSE overlap[q]
  /\ overlap'[r] = {q \in Requests \ {r} : Runs(q)}
  /\ seen'[r].servers = servers
  /\ state'[r] = "run" => /\ todo'[r] = Steps(b) /\ Acceptable(b)
                          /\ b.kind # "register" => Permitted(b.by, Menu(b))

\* A request that begins leaves the tables and the other requests alone.
LEMMA BeginDoes ==
  ASSUME Sound, NEW r \in Requests, Begin(r)
  PROVE  TablesInv' /\ \E b : Begins(r, b)
<1>1. PICK b \in Bodies :
        LET goes == Acceptable(b) /\ (b.kind # "register" => Permitted(b.by, Menu(b)))
            inFlight == {q \in Requests \ {r} : state[q] = "run"}
        IN /\ op' = [op EXCEPT ![r] = b]
           /\ state' = [state EXCEPT ![r] = IF goes THEN "run" ELSE "refused"]
           /\ todo' = [todo EXCEPT ![r] = IF goes THEN Steps(b) ELSE <<>>]
           /\ overlap' = [q \in Requests |-> CASE q = r -> inFlight
                                               [] q \in inFlight -> overlap[q] \cup {r}
                                               [] OTHER -> overlap[q]]
  BY DEF Begin
<1> DEFINE goes == Acceptable(b) /\ (b.kind # "register" => Permitted(b.by, Menu(b)))
           inFlight == {q \in Requests \ {r} : state[q] = "run"}
<1>2. /\ state[r] = "idle" /\ seen' = [seen EXCEPT ![r] = [users |-> users, servers |-> servers]]
      /\ UNCHANGED <<users, lastId, roles, servers, linux, owner, made>>
  BY DEF Begin, tables
<1>3. /\ DOMAIN op = Requests /\ DOMAIN state = Requests /\ DOMAIN todo = Requests
      /\ DOMAIN seen = Requests
  BY DEF Sound, TablesInv
<1>4. /\ op' = [op EXCEPT ![r] = b]
      /\ state' = [state EXCEPT ![r] = IF goes THEN "run" ELSE "refused"]
      /\ todo' = [todo EXCEPT ![r] = IF goes THEN Steps(b) ELSE <<>>]
  BY <1>1
<1>5. overlap' = [q \in Requests |-> CASE q = r -> inFlight
                                       [] q \in inFlight -> overlap[q] \cup {r}
                                       [] OTHER -> overlap[q]]
  BY <1>1
<1>6. /\ DOMAIN op' = Requests /\ DOMAIN state' = Requests /\ DOMAIN todo' = Requests
      /\ DOMAIN overlap' = Requests /\ DOMAIN seen' = Requests
  BY <1>2, <1>3, <1>4, <1>5
<1>7. TablesInv'
  BY <1>2, <1>6 DEF Sound, TablesInv, AccountsTypeOK
<1>8. overlap'[r] = inFlight /\ \A q \in Requests \ {r} :
        overlap'[q] = IF Runs(q) THEN overlap[q] \cup {r} ELSE overlap[q]
  BY <1>5 DEF Runs
<1>9. state'[r] \in {"run", "refused"} /\ (state'[r] = "run" => goes /\ todo'[r] = Steps(b))
  <2> HIDE DEF goes
  <2> QED BY <1>3, <1>4
<1>10. seen'[r].servers = servers
  BY <1>2, <1>3
<1>11. \A q \in Requests \ {r} : /\ op'[q] = op[q] /\ state'[q] = state[q]
                                 /\ todo'[q] = todo[q] /\ seen'[q] = seen[q]
  <2> HIDE DEF goes
  <2> QED BY <1>2, <1>3, <1>4
<1>12. op'[r] = b  BY <1>3, <1>4
<1>13. Begins(r, b)
  <2> HIDE DEF goes
  <2>1. state'[r] = "run" => /\ todo'[r] = Steps(b) /\ Acceptable(b)
                             /\ b.kind # "register" => Permitted(b.by, Menu(b))
    BY <1>9 DEF goes
  <2> QED BY <1>2, <1>8, <1>9, <1>10, <1>11, <1>12, <2>1 DEF Begins, Runs
<1> QED BY <1>7, <1>13

\* What is said of requests that have begun stays so.
Continues ==
  \A q \in Requests :
    /\ state[q] # "idle" => state'[q] # "idle" /\ op'[q] = op[q] /\ overlap[q] \subseteq overlap'[q]
    /\ Began(q) => Began(q)'

\* So it does through a step.
LEMMA StepContinues ==
  ASSUME NEW r \in Requests, NEW label, Moved(r, label)
  PROVE  Continues
BY DEF Moved, Continues, Began, Runs

\* And when a request begins.
LEMMA BeginContinues ==
  ASSUME NEW r \in Requests, NEW b, Begins(r, b)
  PROVE  Continues
BY DEF Begins, Continues, Began

-----------------------------------------------------------------------------
(* The requests stay as they should.                                       *)

\* Through a step of any of them.
LEMMA StepKeepsRequests ==
  ASSUME Sound, NEW r \in Requests, NEW label, Moved(r, label), Effects(r, label), TablesInv',
         NEW q \in Requests
  PROVE  RequestInv(q)'
<1>1. RequestInv(q) /\ RequestInv(r)  BY DEF Sound
<1>2. UsersEffect(r, label) /\ ServersEffect(r, label)  BY DEF Effects
<1>3. /\ op' = op /\ seen' = seen /\ overlap' = overlap
      /\ \A x \in Requests : /\ Runs(x)' => Runs(x)
                             /\ state'[x] = "idle" <=> state[x] = "idle"
                             /\ Began(x)' <=> Began(x)
  BY DEF Moved, Runs, Began
<1>4. /\ state'[q] \in {"idle", "run", "refused", "failed", "done"}
      /\ state'[q] # "idle" => op'[q] \in Bodies
  BY <1>1, <1>3 DEF RequestInv, Moved
<1>5. op[r] \in Bodies /\ todo[r] \in Ahead(op[r]) /\ Head(todo[r]) = label
  BY <1>1 DEF RequestInv, Moved, Runs
<1>6. Shape(op[r], todo[r])  BY <1>5, AheadShape
<1>7. Runs(q)' => todo'[q] \in Ahead(op'[q])
  BY <1>1, <1>3, <1>6 DEF RequestInv, Moved, Runs, Shape
<1>8. Runs(q)' => \A x \in Requests \ {q} : Runs(x)' => x \in overlap'[q]
  BY <1>1, <1>3 DEF RequestInv
<1>9. overlap'[q] \subseteq {x \in Requests \ {q} : state'[x] # "idle"}
  BY <1>1, <1>3 DEF RequestInv
<1>10. Runs(q)' /\ op'[q].kind # "register" => op'[q].by \in 1..lastId'
  BY <1>1, <1>2, <1>3 DEF RequestInv, UsersEffect
<1>11. Runs(q)' /\ Head(todo'[q]) = "bindRole" => made'[q] \in 1..lastId'
  <2>1. CASE q # r
    BY <1>1, <1>2, <1>3, <2>1 DEF RequestInv, UsersEffect, Moved
  <2>2. CASE q = r
    BY <1>2, <1>5, <1>6, <2>2 DEF UsersEffect, Moved, Shape, Runs
  <2> QED BY <2>1, <2>2
<1>12. Began(q)' /\ op'[q].kind \in Accounts =>
         op'[q].server \in ServerIds /\ servers'[op'[q].server] # None /\ op'[q].name # "root"
  BY <1>1, <1>2, <1>3 DEF RequestInv, ServersEffect
<1>13. Runs(q)' /\ op'[q].kind \in Accounts =>
         /\ seen'[q].servers \in [ServerIds -> Server \cup {None}]
         /\ seen'[q].servers[op'[q].server] # None
  BY <1>1, <1>3 DEF RequestInv
<1> QED BY <1>4, <1>7, <1>8, <1>9, <1>10, <1>11, <1>12, <1>13 DEF RequestInv

\* And when one of them begins.
LEMMA BeginKeepsRequests ==
  ASSUME Sound, NEW r \in Requests, NEW b, Begins(r, b), TablesInv', NEW q \in Requests
  PROVE  RequestInv(q)'
<1>1. RequestInv(q)  BY DEF Sound
<1>2. /\ servers \in [ServerIds -> Server \cup {None}] /\ DOMAIN users \subseteq 1..lastId
      /\ lastId' = lastId /\ servers' = servers /\ made' = made /\ b \in Bodies
  BY DEF Sound, TablesInv, AccountsTypeOK, Begins
<1>3. CASE q # r
  <2>1. /\ op'[q] = op[q] /\ state'[q] = state[q] /\ todo'[q] = todo[q] /\ seen'[q] = seen[q]
        /\ overlap'[q] = IF Runs(q) THEN overlap[q] \cup {r} ELSE overlap[q]
        /\ Runs(q)' <=> Runs(q)
        /\ Began(q)' <=> Began(q)
    BY <1>3 DEF Begins, Runs, Began
  <2>2. \A x \in Requests \ {r} : (Runs(x)' <=> Runs(x)) /\ state'[x] = state[x]
    BY DEF Begins, Runs
  <2>3. Runs(q)' => \A x \in Requests \ {q} : Runs(x)' => x \in overlap'[q]
    BY <1>1, <2>1, <2>2 DEF RequestInv
  <2>4. overlap'[q] \subseteq {x \in Requests \ {q} : state'[x] # "idle"}
    <3>1. state'[r] # "idle"  BY DEF Begins
    <3>2. overlap[q] \subseteq {x \in Requests \ {q} : state[x] # "idle"}
      BY <1>1 DEF RequestInv
    <3> QED BY <1>3, <2>1, <2>2, <3>1, <3>2
  <2> QED BY <1>1, <1>2, <2>1, <2>3, <2>4 DEF RequestInv
<1>4. CASE q = r
  <2>1. op'[q] = b /\ state'[q] \in {"run", "refused"} /\ seen'[q].servers = servers
    BY <1>4 DEF Begins
  <2>2. ASSUME Runs(q)'
        PROVE  /\ todo'[q] = Steps(b) /\ Acceptable(b)
               /\ b.kind # "register" => Permitted(b.by, Menu(b))
    BY <1>4, <2>2 DEF Begins, Runs
  <2>3. Runs(q)' => todo'[q] \in Ahead(op'[q]) /\ Head(todo'[q]) # "bindRole"
    <3>1. SUFFICES ASSUME Runs(q)' PROVE Steps(b) \in Ahead(b) /\ Head(Steps(b)) # "bindRole"
      BY <2>1, <2>2
    <3>2. Steps(b) \in Ahead(b)  BY <1>2, StepsAhead
    <3>3. Head(Steps(b)) # "bindRole"
      <4>1. b.kind \in Kinds  BY <1>2, RequestsAsk
      <4> QED BY <4>1, Singles, Pairs, Triples DEF Steps, DeletionSteps, Kinds, NewUser, Accounts
    <3> QED BY <3>2, <3>3
  <2>4. Runs(q)' => \A x \in Requests \ {q} : Runs(x)' => x \in overlap'[q]
    BY <1>4 DEF Begins, Runs
  <2>5. overlap'[q] \subseteq {x \in Requests \ {q} : state'[x] # "idle"}
    BY <1>4 DEF Begins, Runs
  <2>6. Runs(q)' /\ op'[q].kind # "register" => op'[q].by \in 1..lastId'
    BY <1>2, <2>1, <2>2 DEF Permitted
  <2>7. Began(q)' /\ op'[q].kind \in Accounts =>
          /\ Runs(q)' /\ op'[q].server \in ServerIds /\ servers[op'[q].server] # None
          /\ op'[q].name # "root"
    <3>1. SUFFICES ASSUME Began(q)', b.kind \in Accounts
                   PROVE  /\ Runs(q)' /\ b.server \in ServerIds /\ servers[b.server] # None
                          /\ b.name # "root"
      BY <2>1
    <3>2. Runs(q)'  BY <2>1, <3>1 DEF Began, Runs
    <3>3. Acceptable(b) /\ b.kind \notin NewUser /\ b.kind \notin {"rename", "delete", "addServer"}
      BY <2>2, <3>1, <3>2 DEF Accounts, NewUser
    <3>4. Present(b.server) /\ b.name # "root"
      BY <3>1, <3>3 DEF Acceptable
    <3> QED BY <1>2, <3>2, <3>4 DEF Present
  <2>8. (Runs(q)' => Began(q)') /\ state'[q] \in {"idle", "run", "refused", "failed", "done"}
    BY <2>1 DEF Runs, Began
  <2> QED BY <1>2, <2>1, <2>3, <2>4, <2>5, <2>6, <2>7, <2>8 DEF RequestInv
<1> QED BY <1>3, <1>4

-----------------------------------------------------------------------------
(* Somebody administers the platform.                                      *)

\* No deletion at work has every user of the role root on its list: a step removes, or
\* unbinds, only those its own request is after.
LEMMA StepKeepsAdmin ==
  ASSUME Sound, AdminInv, NEW r \in Requests, NEW label, Moved(r, label), Effects(r, label)
  PROVE  AdminInv'
<1>1. Continues  BY StepContinues
<1>2. CASE \E q \in Requests : Began(q) /\ op[q].kind = "purge"
  <2>1. PICK q \in Requests : Began(q) /\ op[q].kind = "purge"  BY <1>2
  <2>2. Began(q)' /\ op'[q].kind = "purge"  BY <1>1, <2>1 DEF Continues, Began
  <2> QED BY <2>2 DEF AdminInv
<1>3. CASE ~\E q \in Requests : Began(q) /\ op[q].kind = "purge"
  <2>1. PICK i \in DOMAIN users :
          Holds(i, "root") /\ \A q \in Requests : Runs(q) /\ op[q].kind = "delete" => i \notin Doomed(op[q])
    BY <1>3 DEF AdminInv
  <2>2. op[r] \in Bodies /\ todo[r] \in Ahead(op[r]) /\ Head(todo[r]) = label /\ Runs(r) /\ Began(r)
    BY DEF Sound, RequestInv, Moved, Runs, Began
  <2>3. Shape(op[r], todo[r])  BY <2>2, AheadShape
  <2>4. label \in {"removeUsers", "unbind"} => i \notin Doomed(op[r])
    BY <1>3, <2>1, <2>2, <2>3 DEF Shape
  <2>5. i \in DOMAIN users'  BY <2>1, <2>4 DEF Effects, UsersEffect
  <2>6. <<i, "root">> \in roles'
    <3>1. <<i, "root">> \in roles  BY <2>1 DEF Holds
    <3>2. <<i, "root">>[1] = i  OBVIOUS
    <3> QED BY <2>4, <3>1, <3>2 DEF Effects, RolesEffect
  <2>7. \A q \in Requests : Runs(q)' /\ op'[q].kind = "delete" => i \notin Doomed(op'[q])
    BY <2>1 DEF Moved, Runs
  <2> QED BY <2>5, <2>6, <2>7 DEF AdminInv, Holds
<1> QED BY <1>2, <1>3

\* A deletion that begins has no user of the role root on its list.
LEMMA BeginKeepsAdmin ==
  ASSUME Sound, AdminInv, NEW r \in Requests, NEW b, Begins(r, b)
  PROVE  AdminInv'
<1>1. Continues  BY BeginContinues
<1>2. CASE \E q \in Requests : Began(q) /\ op[q].kind = "purge"
  <2>1. PICK q \in Requests : Began(q) /\ op[q].kind = "purge"  BY <1>2
  <2>2. Began(q)' /\ op'[q].kind = "purge"  BY <1>1, <2>1 DEF Continues, Began
  <2> QED BY <2>2 DEF AdminInv
<1>3. CASE ~\E q \in Requests : Began(q) /\ op[q].kind = "purge"
  <2>1. PICK i \in DOMAIN users :
          Holds(i, "root") /\ \A q \in Requests : Runs(q) /\ op[q].kind = "delete" => i \notin Doomed(op[q])
    BY <1>3 DEF AdminInv
  <2>2. users' = users /\ roles' = roles  BY DEF Begins
  <2>3. ASSUME NEW q \in Requests, Runs(q)', op'[q].kind = "delete"
        PROVE  i \notin Doomed(op'[q])
    <3>1. CASE q # r  BY <2>1, <2>3, <3>1 DEF Begins, Runs
    <3>2. CASE q = r
      <4>1. b.kind = "delete" /\ Acceptable(b) /\ op'[q] = b
        BY <2>3, <3>2 DEF Begins, Runs
      <4>2. Deletable(b)  BY <4>1 DEF Acceptable, NewUser, Accounts
      <4> QED BY <2>1, <4>1, <4>2 DEF Deletable
    <3> QED BY <3>1, <3>2
  <2> QED BY <2>1, <2>2, <2>3 DEF AdminInv, Holds
<1> QED BY <1>2, <1>3

-----------------------------------------------------------------------------
(* Projects have owners.                                                   *)

\* What left a project with a user who is gone, or may leave it so, is not undone.
LEMMA ExcusesStay ==
  ASSUME Sound, Continues, NEW r \in Requests, NEW u
  PROVE  /\ Deletes(r, u) => Deletes(r, u)'
         /\ \A p \in Projects : Leaves(r, p, u) => Leaves(r, p, u)'
<1>1. Began(r) => /\ Began(r)' /\ op'[r] = op[r]
                  /\ overlap[r] \subseteq overlap'[r]
  BY DEF Continues, Began
<1>2. \A q \in overlap[r] : op'[q] = op[q]
  BY DEF Sound, RequestInv, Continues
<1>3. Deletes(r, u) => Deletes(r, u)'
  BY <1>1 DEF Deletes
<1>4. ASSUME NEW p \in Projects, Leaves(r, p, u)
      PROVE  Leaves(r, p, u)'
  BY <1>1, <1>2, <1>4 DEF Leaves
<1> QED BY <1>3, <1>4

\* A request that gives a project to its user while he is being deleted beside it.
LEMMA GivenBeside ==
  ASSUME NEW r \in Requests, NEW q, NEW p, NEW u, Deletes(r, u), q \in overlap[r],
         \/ op[q].kind = "insertProject" /\ op[q].project = p
         \/ op[q].kind = "delete" /\ op[q].transfer /\ op[q].by = u
  PROVE  Leaves(r, p, u)
BY DEF Deletes, Leaves

\* Only a deletion takes the owner of a project away, and it has handed over what it could.
LEMMA StepKeepsOwners ==
  ASSUME Sound, OwnersInv, NEW r \in Requests, NEW label, Moved(r, label), Effects(r, label)
  PROVE  OwnersInv'
<1>1. Continues  BY StepContinues
<1>2. /\ op' = op /\ overlap' = overlap
      /\ Runs(r) /\ Began(r) /\ \A q \in Requests : Runs(q)' => Runs(q)
  BY DEF Moved, Runs, Began
<1>3. op[r] \in Bodies /\ todo[r] \in Ahead(op[r]) /\ Head(todo[r]) = label
  BY DEF Sound, RequestInv, Moved, Runs
<1>4. Shape(op[r], todo[r])  BY <1>3, AheadShape
<1>5. UsersEffect(r, label) /\ OwnerEffect(r, label)  BY DEF Effects
<1>6. ASSUME NEW u \in DOMAIN users, u \notin DOMAIN users'
      PROVE  label = "removeUsers" /\ op[r].kind \in {"delete", "purge"} /\ Deletes(r, u)
  <2>1. label = "removeUsers" /\ u \in Doomed(op[r])  BY <1>5, <1>6 DEF UsersEffect
  <2>2. op[r].kind \in {"delete", "purge"}  BY <1>3, <1>4, <2>1 DEF Shape
  <2> QED BY <1>2, <2>1, <2>2 DEF Deletes
<1>7. \A q \in Requests \ {r} : Runs(q) => q \in overlap[r] /\ r \in overlap[q]
  BY <1>2 DEF Sound, RequestInv
<1>8. ASSUME NEW p \in Projects, owner'[p] # owner[p]
      PROVE  /\ owner'[p] = op[r].by /\ op[r].kind # "register" /\ label # "removeUsers"
             /\ \/ op[r].kind = "insertProject" /\ op[r].project = p /\ label # "transfer"
                \/ op[r].kind = "delete" /\ op[r].transfer /\ label = "transfer"
  BY <1>3, <1>4, <1>5, <1>8 DEF OwnerEffect, Shape
<1>9. ASSUME NEW p \in Projects, NEW u, u = owner'[p], u \notin DOMAIN users' \cup {None}
      PROVE  \E x \in Requests : Leaves(x, p, u)'
  <2>1. SUFFICES \E x \in Requests : Leaves(x, p, u)
    BY <1>1, ExcusesStay
  <2>2. CASE u = owner[p]
    <3>1. CASE u \in DOMAIN users
      <4>1. label = "removeUsers" /\ op[r].kind \in {"delete", "purge"} /\ Deletes(r, u)
        BY <1>6, <1>9, <3>1
      <4>2. CASE op[r].kind = "purge"  BY <4>1, <4>2 DEF Deletes, Leaves
      <4>3. CASE op[r].kind = "delete"
        BY <1>2, <1>3, <2>2, <4>1, <4>3 DEF OwnersInv, Deletes
      <4> QED BY <4>1, <4>2, <4>3
    <3>2. CASE u \notin DOMAIN users
      BY <1>9, <2>2, <3>2 DEF OwnersInv, ProjectsHaveOwners
    <3> QED BY <3>1, <3>2
  <2>3. CASE u # owner[p]
    <3>1. /\ u = op[r].by /\ op[r].kind # "register" /\ label # "removeUsers"
          /\ \/ op[r].kind = "insertProject" /\ op[r].project = p
             \/ op[r].kind = "delete" /\ op[r].transfer
      BY <1>8, <1>9, <2>3
    <3>2. u \notin DOMAIN users  BY <1>6, <1>9, <3>1
    <3>3. PICK x \in Requests : Deletes(x, u) /\ r \in overlap[x]
      BY <1>2, <3>1, <3>2 DEF OwnersInv
    <3> QED BY <3>1, <3>3, GivenBeside
  <2> QED BY <2>2, <2>3
<1>10. ASSUME NEW q \in Requests, Runs(q)', NEW u, u = op'[q].by, op'[q].kind # "register",
              u \notin DOMAIN users'
       PROVE  \E x \in Requests : Deletes(x, u)' /\ q \in overlap'[x]
  <2>1. SUFFICES \E x \in Requests : Deletes(x, u) /\ q \in overlap[x]
    BY <1>1, <1>2, ExcusesStay
  <2>2. Runs(q) /\ op[q].kind # "register" /\ u = op[q].by  BY <1>2, <1>10
  <2>3. CASE u \in DOMAIN users
    <3>1. label = "removeUsers" /\ op[r].kind \in {"delete", "purge"} /\ Deletes(r, u)
      BY <1>6, <1>10, <2>3
    <3>2. q # r
      <4> SUFFICES ASSUME q = r PROVE FALSE
        OBVIOUS
      <4>1. CASE op[r].kind = "delete"  BY <2>2, <3>1, <4>1 DEF Deletes, Doomed
      <4>2. CASE op[r].kind = "purge"
        <5>1. Len(todo[r]) = 1  BY <1>4, <4>2 DEF Shape
        <5> QED BY <1>10, <5>1 DEF Moved, Runs
      <4> QED BY <3>1, <4>1, <4>2
    <3> QED BY <1>7, <2>2, <3>1, <3>2
  <2>4. CASE u \notin DOMAIN users
    BY <2>2, <2>4 DEF OwnersInv
  <2> QED BY <2>3, <2>4
<1>11. ASSUME NEW q \in Requests, Runs(q)', op'[q].kind = "delete", Head(todo'[q]) # "transfer",
              NEW p \in Projects, NEW u, u = owner'[p], u \in Doomed(op'[q])
       PROVE  Leaves(q, p, u)'
  <2>1. SUFFICES Leaves(q, p, u)
    BY <1>1, ExcusesStay
  <2>2. Runs(q) /\ op[q].kind = "delete" /\ u \in Doomed(op[q]) /\ Began(q)
    BY <1>2, <1>11 DEF Runs, Began
  <2>3. CASE q # r
    <3>1. Head(todo[q]) # "transfer"  BY <1>11, <2>3 DEF Moved
    <3>2. CASE u = owner[p]
      BY <2>2, <3>1, <3>2 DEF OwnersInv
    <3>3. CASE u # owner[p]
      <4>1. /\ u = op[r].by
            /\ \/ op[r].kind = "insertProject" /\ op[r].project = p
               \/ op[r].kind = "delete" /\ op[r].transfer
        BY <1>8, <1>11, <3>3
      <4>2. r \in overlap[q]  BY <1>7, <2>2, <2>3
      <4>3. Deletes(q, u)  BY <2>2 DEF Deletes
      <4> QED BY <4>1, <4>2, <4>3, GivenBeside
    <3> QED BY <3>2, <3>3
  <2>4. CASE q = r
    <3>1. state'[r] # "failed"  BY <1>11, <2>4 DEF Runs
    <3>2. label # "transfer"
      BY <1>2, <1>5, <1>11, <2>4, <3>1 DEF OwnerEffect
    <3>3. u = owner[p]
      BY <1>8, <1>11, <2>2, <2>4, <3>2
    <3> QED BY <1>3, <2>2, <2>4, <3>2, <3>3 DEF OwnersInv
  <2> QED BY <2>3, <2>4
<1>12. ProjectsHaveOwners'  BY <1>9 DEF ProjectsHaveOwners, Leaves, Began
<1> QED BY <1>10, <1>11, <1>12 DEF OwnersInv, Deletes, Leaves, Runs, Began

\* A request that begins is of a user who is there.
LEMMA BeginKeepsOwners ==
  ASSUME Sound, OwnersInv, NEW r \in Requests, NEW b, Begins(r, b)
  PROVE  OwnersInv'
<1>1. Continues  BY BeginContinues
<1>2. users' = users /\ owner' = owner  BY DEF Begins
<1>3. \A q \in Requests \ {r} : /\ op'[q] = op[q] /\ todo'[q] = todo[q]
                                /\ Runs(q)' <=> Runs(q)
  BY DEF Begins, Runs
<1>4. ASSUME NEW p \in Projects, NEW u, u = owner'[p], u \notin DOMAIN users' \cup {None}
      PROVE  \E x \in Requests : Leaves(x, p, u)'
  <2>1. PICK x \in Requests : Leaves(x, p, u)
    BY <1>2, <1>4 DEF OwnersInv, ProjectsHaveOwners
  <2> QED BY <1>1, <2>1, ExcusesStay
<1>5. ASSUME NEW q \in Requests, Runs(q)', NEW u, u = op'[q].by, op'[q].kind # "register",
             u \notin DOMAIN users'
      PROVE  \E x \in Requests : Deletes(x, u)' /\ q \in overlap'[x]
  <2>1. CASE q = r
    BY <1>2, <1>5, <2>1 DEF Begins, Permitted, Runs
  <2>2. CASE q # r
    <3>1. Runs(q) /\ op'[q] = op[q]  BY <1>3, <1>5, <2>2
    <3>2. PICK x \in Requests : Deletes(x, u) /\ q \in overlap[x]
      BY <1>2, <1>5, <3>1 DEF OwnersInv
    <3>3. Deletes(x, u)'  BY <1>1, <3>2, ExcusesStay
    <3>4. q \in overlap'[x]  BY <1>1, <3>2 DEF Continues, Deletes, Began
    <3> QED BY <3>3, <3>4
  <2> QED BY <2>1, <2>2
<1>6. ASSUME NEW q \in Requests, Runs(q)', op'[q].kind = "delete", Head(todo'[q]) # "transfer",
             NEW p \in Projects, NEW u, u = owner'[p], u \in Doomed(op'[q])
      PROVE  Leaves(q, p, u)'
  <2>1. CASE q # r
    <3>1. Leaves(q, p, u)  BY <1>2, <1>3, <1>6, <2>1 DEF OwnersInv
    <3> QED BY <1>1, <3>1, ExcusesStay
  <2>2. CASE q = r
    <3>1. op'[q] = b /\ b \in Bodies /\ todo'[q] = Steps(b) /\ b.kind = "delete"
      BY <1>6, <2>2 DEF Begins, Runs
    <3>2. Steps(b) = DeletionSteps(b)  BY <3>1 DEF Steps, NewUser
    <3>3. ~b.transfer
      BY <1>6, <3>1, <3>2, Triples DEF DeletionSteps
    <3>4. Began(q)'  BY <1>6 DEF Runs, Began
    <3> QED BY <1>6, <3>1, <3>3, <3>4 DEF Leaves
  <2> QED BY <2>1, <2>2
<1>7. ProjectsHaveOwners'  BY <1>4 DEF ProjectsHaveOwners, Leaves, Began
<1> QED BY <1>5, <1>6, <1>7 DEF OwnersInv, Deletes, Leaves, Runs, Began

-----------------------------------------------------------------------------
(* The text of a server names its accounts.                                *)

\* What a server manages are names of accounts, never root, of a server that was made.
LEMMA ManagedNames ==
  ASSUME Sound, NEW s \in ServerIds, NEW n \in Managed(s)
  PROVE  n # "root" /\ servers[s] # None
<1>1. CASE Installed.servers[s] # None /\ n \in Installed.servers[s].assigned \ {"root"}
  BY <1>1 DEF Sound, TablesInv
<1>2. CASE \E r \in Requests : Began(r) /\ op[r].kind \in Accounts /\ op[r].server = s /\ op[r].name = n
  BY <1>2 DEF Sound, RequestInv
<1> QED BY <1>1, <1>2 DEF Managed, Assigning

\* A request about accounts that began is about its server, and its name is managed there.
LEMMA Concerned ==
  ASSUME Sound, NEW r \in Requests, Began(r), op[r].kind \in Accounts
  PROVE  /\ op[r].server \in ServerIds /\ op[r].name \in Managed(op[r].server)
         /\ \A s, n : r \in Concerning(s, n) <=> (op[r].server = s \/ op[r].name = n)
<1>1. op[r].server \in ServerIds  BY DEF Sound, RequestInv
<1>2. r \in Assigning  BY DEF Assigning
<1> QED BY <1>1, <1>2 DEF Managed, Concerning

\* Of the requests about one server, or one account, at most one is at work if all is calm.
LEMMA CalmIsAlone ==
  ASSUME Sound, NEW s, NEW n, Calm(s, n),
         NEW q \in Requests, q \in Concerning(s, n), Runs(q),
         NEW r \in Requests, r \in Concerning(s, n), Runs(r)
  PROVE  q = r
<1> SUFFICES ASSUME q # r PROVE FALSE
  OBVIOUS
<1>1. r \in overlap[q]  BY DEF Sound, RequestInv
<1> QED BY <1>1 DEF Calm

\* A step changes nothing about which requests concern what.
LEMMA StepConcerns ==
  ASSUME NEW r \in Requests, NEW label, Moved(r, label)
  PROVE  /\ Assigning' = Assigning
         /\ \A s \in ServerIds : \A n : /\ Concerning(s, n)' = Concerning(s, n)
                                        /\ Managed(s)' = Managed(s)
                                        /\ Calm(s, n)' => Calm(s, n)
<1>1. /\ op' = op /\ overlap' = overlap
      /\ \A q \in Requests : (Began(q)' <=> Began(q)) /\ (Runs(q)' => Runs(q))
      /\ Runs(r) /\ \A q \in Requests \ {r} : state'[q] = state[q]
  BY DEF Moved, Began, Runs
<1>2. Assigning' = Assigning
  BY <1>1 DEF Assigning
<1>3. ASSUME NEW s \in ServerIds, NEW n
      PROVE  Concerning(s, n)' = Concerning(s, n) /\ Managed(s)' = Managed(s)
  BY <1>1, <1>2 DEF Concerning, Managed
<1>4. ASSUME NEW s \in ServerIds, NEW n, Calm(s, n)'
      PROVE  Calm(s, n)
  <2>1. SUFFICES ASSUME NEW q \in Concerning(s, n)
                 PROVE  /\ state[q] \in {"run", "done"} /\ op[q].server = s
                        /\ overlap[q] \cap Concerning(s, n) = {}
    BY DEF Calm
  <2>2. Concerning(s, n) \subseteq Requests  BY DEF Concerning, Assigning
  <2>3. /\ state'[q] \in {"run", "done"} /\ op'[q].server = s
        /\ overlap'[q] \cap Concerning(s, n) = {}
    BY <1>3, <1>4, <2>1 DEF Calm
  <2> QED BY <1>1, <2>2, <2>3 DEF Runs
<1> QED BY <1>2, <1>3, <1>4

\* A step of a request that is about no account leaves texts and accounts alone; one that
\* is about account a on server t changes no other account and no other text.
LEMMA StepSpares ==
  ASSUME Sound, NEW r \in Requests, NEW label, Moved(r, label), Effects(r, label),
         NEW s \in ServerIds, servers[s] # None, NEW n \in Names,
         op[r].kind \in Accounts => r \notin Concerning(s, n)
  PROVE  /\ servers'[s].assigned = servers[s].assigned
         /\ n \in linux' <=> n \in linux
<1>1. op[r] \in Bodies /\ todo[r] \in Ahead(op[r]) /\ Head(todo[r]) = label /\ Began(r)
  BY DEF Sound, RequestInv, Moved, Runs, Began
<1>2. Shape(op[r], todo[r])  BY <1>1, AheadShape
<1>3. label \in {"assign", "unassign", "useradd", "userdel"} => op[r].kind \in Accounts
  BY <1>1, <1>2 DEF Shape, Accounts
<1>4. op[r].kind \in Accounts => op[r].server # s /\ op[r].name # n
  BY <1>1, Concerned
<1> QED BY <1>3, <1>4 DEF Effects, ServersEffect, LinuxEffect

\* A text only gets the name of the request that writes it, and loses no other one.
LEMMA StepKeepsTexts ==
  ASSUME Sound, NamesInv, NEW r \in Requests, NEW label, Moved(r, label), Effects(r, label)
  PROVE  \A s \in ServerIds : servers'[s] # None => servers'[s].assigned \ {"root"} \subseteq Managed(s)'
<1> SUFFICES ASSUME NEW s \in ServerIds, servers'[s] # None
             PROVE  servers'[s].assigned \ {"root"} \subseteq Managed(s)
  BY StepConcerns
<1>1. ServersEffect(r, label)  BY DEF Effects
<1>2. CASE servers[s] = None  BY <1>1, <1>2 DEF ServersEffect
<1>3. CASE servers[s] # None
  <2>1. CASE servers'[s].assigned = servers[s].assigned
    BY <1>3, <2>1 DEF NamesInv
  <2>2. CASE /\ label \in {"assign", "unassign"} /\ s = op[r].server
             /\ servers'[s].assigned = NewText(r, label)
    <3>1. op[r] \in Bodies /\ todo[r] \in Ahead(op[r]) /\ Head(todo[r]) = label /\ Began(r) /\ Runs(r)
      BY DEF Sound, RequestInv, Moved, Runs, Began
    <3>2. Shape(op[r], todo[r])  BY <3>1, AheadShape
    <3>3. op[r].kind \in Accounts  BY <2>2, <3>1, <3>2 DEF Shape, Accounts
    <3>4. op[r].name \in Managed(s)  BY <2>2, <3>1, <3>3, Concerned
    <3>5. Text(r) \ {"root"} \subseteq Managed(s)  BY <2>2, <3>1, <3>3 DEF NamesInv
    <3> QED BY <2>2, <3>4, <3>5 DEF NewText, Added, Removed
  <2> QED BY <1>1, <1>3, <2>1, <2>2 DEF ServersEffect
<1> QED BY <1>2, <1>3

\* While all is calm, nobody writes the text that a request at work read first.
LEMMA StepKeepsRead ==
  ASSUME Sound, NamesInv, NEW r \in Requests, NEW label, Moved(r, label), Effects(r, label),
         NEW q \in Requests, Runs(q)', op'[q].kind \in Accounts, NEW s, s = op'[q].server
  PROVE  /\ Text(q)' \ {"root"} \subseteq Managed(s)'
         /\ \A n \in Names : Calm(s, n)' => Text(q)' = servers'[s].assigned
<1>1. /\ Runs(q) /\ Began(q) /\ op'[q] = op[q] /\ op[q].kind \in Accounts /\ Text(q)' = Text(q)
      /\ Runs(r) /\ Began(r) /\ s = op[q].server /\ s \in ServerIds /\ servers[s] # None
  <2>1. Runs(q) /\ Began(q) /\ op' = op /\ seen' = seen /\ Runs(r) /\ Began(r)
    BY DEF Moved, Runs, Began
  <2> QED BY <2>1 DEF Sound, RequestInv, Text
<1>2. Text(q)' \ {"root"} \subseteq Managed(s)'
  BY <1>1, StepConcerns DEF NamesInv
<1>3. ASSUME NEW n \in Names, Calm(s, n)'
      PROVE  Text(q)' = servers'[s].assigned
  <2>1. Calm(s, n)  BY <1>1, <1>3, StepConcerns
  <2>2. Text(q) = servers[s].assigned  BY <1>1, <2>1 DEF NamesInv
  <2>3. q \in Concerning(s, n)  BY <1>1, Concerned
  <2>4. servers'[s].assigned = servers[s].assigned
    <3>1. CASE op[r].kind \in Accounts /\ r \in Concerning(s, n)
      <4>1. r = q  BY <1>1, <2>1, <2>3, <3>1, CalmIsAlone
      <4>2. op[r] \in Bodies /\ todo[r] \in Ahead(op[r]) /\ Head(todo[r]) = label
        BY <1>1 DEF Sound, RequestInv, Moved, Runs
      <4>3. Shape(op[r], todo[r])  BY <4>2, AheadShape
      <4>4. Len(todo[r]) # 1  BY <4>1 DEF Moved, Runs
      <4>5. label \notin {"assign", "unassign"}  BY <4>2, <4>3, <4>4 DEF Shape
      <4> QED BY <1>1, <4>5 DEF Effects, ServersEffect
    <3>2. CASE op[r].kind \in Accounts => r \notin Concerning(s, n)
      BY <1>1, <3>2, StepSpares
    <3> QED BY <3>1, <3>2
  <2> QED BY <1>1, <2>2, <2>4
<1> QED BY <1>2, <1>3

\* The account and its name in the text follow each other through the steps of the one
\* request that is at work on them.
LEMMA StepKeepsText ==
  ASSUME Sound, NamesInv, NEW r \in Requests, NEW label, Moved(r, label), Effects(r, label),
         NEW s \in ServerIds, NEW n \in Names
  PROVE  TextInv(s, n)'
<1> SUFFICES ASSUME Present(s)', n \in Managed(s)', Calm(s, n)'
             PROVE  /\ \A q \in Requests : On(q, n)' =>
                         /\ Head(todo'[q]) \in {"absent", "there"} /\ n \in servers'[s].assigned => n \in linux'
                         /\ Head(todo'[q]) \in {"assign", "userdel"} => n \in linux'
                         /\ Head(todo'[q]) \in {"useradd", "unassign"} => n \notin linux'
                    /\ (\A q \in Requests : ~On(q, n)') => (n \in servers'[s].assigned <=> n \in linux')
  BY DEF TextInv
<1>1. n \in Managed(s) /\ Calm(s, n) /\ Concerning(s, n)' = Concerning(s, n)
  BY StepConcerns
<1>2. n # "root" /\ servers[s] # None  BY <1>1, ManagedNames
<1>3. Present(s)  BY <1>2 DEF Effects, ServersEffect
<1>4. /\ op[r] \in Bodies /\ todo[r] \in Ahead(op[r]) /\ Head(todo[r]) = label
      /\ Runs(r) /\ Began(r) /\ op' = op
      /\ \A q \in Requests : On(q, n)' => On(q, n)
  BY DEF Sound, RequestInv, Moved, Runs, Began, On
<1>5. Shape(op[r], todo[r])  BY <1>4, AheadShape
<1>6. LinuxEffect(r, label) /\ ServersEffect(r, label)  BY DEF Effects
<1>7. /\ \A q \in Requests : On(q, n) =>
           /\ Head(todo[q]) \in {"absent", "there"} /\ n \in servers[s].assigned => n \in linux
           /\ Head(todo[q]) \in {"assign", "userdel"} => n \in linux
           /\ Head(todo[q]) \in {"useradd", "unassign"} => n \notin linux
      /\ (\A q \in Requests : ~On(q, n)) => (n \in servers[s].assigned <=> n \in linux)
  BY <1>1, <1>3 DEF NamesInv, TextInv
<1>8. \A q \in Requests : On(q, n) => Runs(q) /\ q \in Concerning(s, n)
  BY Concerned DEF On, Runs, Began
<1>9. op[r].kind \in Accounts /\ r \in Concerning(s, n) => op[r].server = s /\ state'[r] # "failed"
  BY <1>1, <1>4 DEF Calm
<1>10. ASSUME NEW q \in Requests, On(q, n)'
       PROVE  /\ Head(todo'[q]) \in {"absent", "there"} /\ n \in servers'[s].assigned => n \in linux'
              /\ Head(todo'[q]) \in {"assign", "userdel"} => n \in linux'
              /\ Head(todo'[q]) \in {"useradd", "unassign"} => n \notin linux'
  <2>1. On(q, n) /\ Runs(q) /\ q \in Concerning(s, n)  BY <1>4, <1>8, <1>10
  <2>2. CASE q = r
    <3>1. /\ Len(todo[r]) # 1 /\ todo'[r] = Tail(todo[r]) /\ state'[r] # "failed"
      BY <1>10, <2>2 DEF On, Runs, Moved
    <3>2. op[r].kind \in Accounts /\ op[r].name = n  BY <2>1, <2>2 DEF On
    <3>3. label \in {"absent", "useradd", "assign", "there", "userdel", "unassign"}
      BY <1>4, <1>5, <3>2 DEF Shape, Accounts
    <3>4. \/ label = "absent" /\ Head(todo'[r]) = "useradd" /\ n \notin linux'
          \/ label = "useradd" /\ Head(todo'[r]) = "assign" /\ n \in linux'
          \/ label = "there" /\ Head(todo'[r]) = "userdel" /\ n \in linux'
          \/ label = "userdel" /\ Head(todo'[r]) = "unassign" /\ n \notin linux'
      BY <1>4, <1>5, <1>6, <3>1, <3>2, <3>3 DEF Shape, LinuxEffect
    <3> QED BY <2>2, <3>4
  <2>3. CASE q # r
    <3>1. op[r].kind \in Accounts => r \notin Concerning(s, n)
      BY <1>1, <1>4, <2>1, <2>3, CalmIsAlone
    <3>2. servers'[s].assigned = servers[s].assigned /\ (n \in linux' <=> n \in linux)
      BY <1>2, <3>1, StepSpares
    <3>3. todo'[q] = todo[q]  BY <2>3 DEF Moved
    <3> QED BY <1>7, <2>1, <3>2, <3>3
  <2> QED BY <2>2, <2>3
<1>11. ASSUME \A q \in Requests : ~On(q, n)'
       PROVE  n \in servers'[s].assigned <=> n \in linux'
  <2>1. CASE op[r].kind \in Accounts => r \notin Concerning(s, n)
    <3>1. servers'[s].assigned = servers[s].assigned /\ (n \in linux' <=> n \in linux)
      BY <1>2, <2>1, StepSpares
    <3>2. \A q \in Requests : ~On(q, n)
      <4> SUFFICES ASSUME NEW q \in Requests, On(q, n) PROVE FALSE
        OBVIOUS
      <4>1. q # r  BY <1>8, <2>1 DEF On
      <4> QED BY <1>11, <4>1 DEF Moved, On, Runs
    <3> QED BY <1>7, <3>1, <3>2
  <2>2. CASE op[r].kind \in Accounts /\ r \in Concerning(s, n)
    <3>1. op[r].server = s /\ state'[r] # "failed"  BY <1>9, <2>2
    <3>2. /\ servers'[s].assigned = servers[s].assigned
             \/ (label \in {"assign", "unassign"} /\ servers'[s].assigned = NewText(r, label))
          /\ label \in {"assign", "unassign"} => servers'[s].assigned = NewText(r, label)
      BY <1>2, <1>6, <3>1 DEF ServersEffect
    <3>3. Text(r) = servers[s].assigned
      BY <1>1, <1>4, <2>2, <3>1 DEF NamesInv
    <3>4. CASE op[r].name # n
      <4>1. \A q \in Requests : ~On(q, n)
        <5> SUFFICES ASSUME NEW q \in Requests, On(q, n) PROVE FALSE
          OBVIOUS
        <5>1. q = r  BY <1>1, <1>4, <1>8, <2>2, CalmIsAlone
        <5> QED BY <3>4, <5>1 DEF On
      <4>2. n \in linux' <=> n \in linux  BY <1>6, <3>4 DEF LinuxEffect
      <4>3. n \in NewText(r, label) <=> n \in Text(r)
        BY <1>2, <3>4 DEF NewText, Added, Removed
      <4> QED BY <1>7, <3>2, <3>3, <4>1, <4>2, <4>3
    <3>5. CASE op[r].name = n
      <4>1. On(r, n)  BY <1>4, <2>2, <3>5 DEF On
      <4>2. state'[r] = "done"
        BY <1>4, <1>11, <2>2, <3>1, <3>5 DEF On, Runs, Moved
      <4>3. Len(todo[r]) = 1  BY <4>2 DEF Moved
      <4>4. label \in {"assign", "unassign"}
        BY <1>4, <1>5, <2>2, <4>3 DEF Shape, Accounts
      <4>5. n \in linux' <=> n \in linux  BY <1>6, <4>4 DEF LinuxEffect
      <4>6. label = "assign" => n \in linux /\ n \in NewText(r, label)
        BY <1>4, <1>7, <3>5, <4>1 DEF NewText, Added
      <4>7. label = "unassign" => n \notin linux /\ n \notin NewText(r, label)
        BY <1>2, <1>4, <1>7, <3>5, <4>1 DEF NewText, Removed
      <4> QED BY <3>2, <4>4, <4>5, <4>6, <4>7
    <3> QED BY <3>4, <3>5
  <2> QED BY <2>1, <2>2
<1> QED BY <1>10, <1>11

\* All of it.
LEMMA StepKeepsNames ==
  ASSUME Sound, NamesInv, NEW r \in Requests, NEW label, Moved(r, label), Effects(r, label)
  PROVE  NamesInv'
<1>1. ASSUME NEW q \in Requests, Runs(q)', op'[q].kind \in Accounts, NEW s, s = op'[q].server
      PROVE  /\ Text(q)' \ {"root"} \subseteq Managed(s)'
             /\ \A n \in Names : Calm(s, n)' => Text(q)' = servers'[s].assigned
  BY <1>1, StepKeepsRead
<1>2. ASSUME NEW q \in Requests, Runs(q)', op'[q].kind \in Accounts
      PROVE  /\ Text(q)' \ {"root"} \subseteq Managed(op[q].server)'
             /\ \A n \in Names : Calm(op[q].server, n)' => Text(q)' = servers[op[q].server].assigned'
  BY <1>1, <1>2 DEF Managed, Calm, Concerning, Assigning, Began
<1> QED BY <1>2, StepKeepsTexts, StepKeepsText DEF NamesInv

\* A request that begins adds itself to those that are about something, and to their
\* overlap.
LEMMA BeginConcerns ==
  ASSUME Sound, NEW r \in Requests, NEW b, Begins(r, b)
  PROVE  \A s \in ServerIds : \A n : /\ Concerning(s, n) \subseteq Concerning(s, n)'
                                     /\ Managed(s) \subseteq Managed(s)'
                                     /\ Calm(s, n)' => Calm(s, n)
<1>1. Continues  BY BeginContinues
<1>2. \A q \in Requests : Began(q) => q # r /\ Began(q)' /\ op'[q] = op[q] /\ state'[q] = state[q]
                                      /\ overlap[q] \subseteq overlap'[q]
  BY <1>1 DEF Continues, Begins, Began
<1>3. Assigning \subseteq Assigning'  BY <1>2 DEF Assigning
<1> SUFFICES ASSUME NEW s \in ServerIds, NEW n
             PROVE  /\ Concerning(s, n) \subseteq Concerning(s, n)'
                    /\ Managed(s) \subseteq Managed(s)'
                    /\ Calm(s, n)' => Calm(s, n)
  OBVIOUS
<1>4. Concerning(s, n) \subseteq Concerning(s, n)'
  BY <1>2, <1>3 DEF Concerning, Assigning
<1>5. Managed(s) \subseteq Managed(s)'
  BY <1>2, <1>3 DEF Managed, Assigning
<1>6. ASSUME Calm(s, n)', NEW q \in Concerning(s, n)
      PROVE  /\ state[q] \in {"run", "done"} /\ op[q].server = s
             /\ overlap[q] \cap Concerning(s, n) = {}
  <2>1. /\ state'[q] \in {"run", "done"} /\ op'[q].server = s
        /\ overlap'[q] \cap Concerning(s, n)' = {}
    BY <1>4, <1>6 DEF Calm
  <2>2. q \in Requests /\ Began(q)  BY DEF Concerning, Assigning
  <2> QED BY <1>2, <1>4, <2>1, <2>2
<1> QED BY <1>4, <1>5, <1>6 DEF Calm

\* A request that begins reads the text as it is, and if all is calm finds the account
\* and its name in agreement.
LEMMA BeginKeepsNames ==
  ASSUME Sound, NamesInv, NEW r \in Requests, NEW b, Begins(r, b), Sound'
  PROVE  NamesInv'
<1>1. /\ servers' = servers /\ linux' = linux /\ DOMAIN servers = ServerIds
      /\ \A q \in Requests \ {r} : /\ op'[q] = op[q] /\ state'[q] = state[q]
                                   /\ todo'[q] = todo[q] /\ seen'[q] = seen[q]
                                   /\ Runs(q)' <=> Runs(q)
                                   /\ \A n : On(q, n)' <=> On(q, n)
  BY DEF Begins, Runs, On, Sound, TablesInv
<1>2. \A s \in ServerIds : servers'[s] # None =>
        servers'[s].assigned \ {"root"} \subseteq Managed(s)'
  BY <1>1, BeginConcerns DEF NamesInv
<1>3. ASSUME NEW q \in Requests, Runs(q)', op'[q].kind \in Accounts, NEW s, s = op'[q].server
      PROVE  /\ Text(q)' \ {"root"} \subseteq Managed(s)'
             /\ \A n \in Names : Calm(s, n)' => Text(q)' = servers'[s].assigned
  <2>1. s \in ServerIds /\ servers'[s] # None /\ seen'[q].servers[s].assigned = Text(q)'
    BY <1>3 DEF Sound, RequestInv, Runs, Began, Text
  <2>2. CASE q # r
    <3>1. Runs(q) /\ op'[q] = op[q] /\ Text(q)' = Text(q) /\ op[q].kind \in Accounts /\ s = op[q].server
      BY <1>1, <1>3, <2>2 DEF Text
    <3> QED BY <1>1, <2>1, <3>1, BeginConcerns DEF NamesInv
  <2>3. CASE q = r
    <3>1. seen'[q].servers = servers  BY <2>3 DEF Begins
    <3> QED BY <1>1, <1>2, <2>1, <3>1
  <2> QED BY <2>2, <2>3
<1>4. ASSUME NEW q \in Requests, Runs(q)', op'[q].kind \in Accounts
      PROVE  /\ Text(q)' \ {"root"} \subseteq Managed(op[q].server)'
             /\ \A n \in Names : Calm(op[q].server, n)' => Text(q)' = servers[op[q].server].assigned'
  BY <1>3, <1>4 DEF Managed, Calm, Concerning, Assigning, Began
<1>5. ASSUME NEW s \in ServerIds, NEW n \in Names, Present(s)', n \in Managed(s)', Calm(s, n)'
      PROVE  /\ \A q \in Requests : On(q, n)' =>
                  /\ Head(todo'[q]) \in {"absent", "there"} /\ n \in servers'[s].assigned => n \in linux'
                  /\ Head(todo'[q]) \in {"assign", "userdel"} => n \in linux'
                  /\ Head(todo'[q]) \in {"useradd", "unassign"} => n \notin linux'
             /\ (\A q \in Requests : ~On(q, n)') => (n \in servers'[s].assigned <=> n \in linux')
  <2>1. Present(s) /\ Calm(s, n) /\ n # "root"
    <3>1. n # "root"
      <4>1. \A m \in Managed(s)' : m # "root"
        BY DEF Sound, RequestInv, Managed, Assigning
      <4> QED BY <1>5, <4>1
    <3> QED BY <1>1, <1>5, <3>1, BeginConcerns DEF Present
  <2>2. ASSUME NEW x \in Requests, On(r, n)', On(x, n)
        PROVE  FALSE
    <3>1. x # r /\ Runs(x)  BY <2>2 DEF On, Begins, Runs
    <3>2. x \in overlap'[r]  BY <3>1 DEF Begins
    <3>3. x \in Concerning(s, n)' /\ r \in Concerning(s, n)'
      BY <1>1, <2>2, <3>1 DEF On, Concerning, Assigning, Began, Runs
    <3> QED BY <1>5, <3>2, <3>3 DEF Calm
  <2>3. CASE n \in Managed(s)
    <3>1. /\ \A q \in Requests : On(q, n) =>
               /\ Head(todo[q]) \in {"absent", "there"} /\ n \in servers[s].assigned => n \in linux
               /\ Head(todo[q]) \in {"assign", "userdel"} => n \in linux
               /\ Head(todo[q]) \in {"useradd", "unassign"} => n \notin linux
          /\ (\A q \in Requests : ~On(q, n)) => (n \in servers[s].assigned <=> n \in linux)
      BY <2>1, <2>3 DEF NamesInv, TextInv
    <3>2. On(r, n)' => Head(todo'[r]) \in {"absent", "there"} /\ (n \in servers[s].assigned => n \in linux)
      <4> SUFFICES ASSUME On(r, n)'
                   PROVE  Head(todo'[r]) \in {"absent", "there"} /\ (n \in servers[s].assigned => n \in linux)
        OBVIOUS
      <4>1. todo'[r] = Steps(b) /\ b.kind \in Accounts
        BY DEF On, Runs, Begins
      <4>2. Head(Steps(b)) \in {"absent", "there"}
        BY <4>1, Triples DEF Steps, Accounts, NewUser
      <4> QED BY <2>2, <3>1, <4>1, <4>2
    <3>3. ~On(r, n)
      BY DEF Begins, On, Runs
    <3> QED BY <1>1, <3>1, <3>2, <3>3
  <2>4. CASE n \notin Managed(s)
    <3>1. On(r, n)' /\ op'[r].server = s
      <4>1. PICK q \in Requests : Began(q)' /\ op'[q].kind \in Accounts /\ op'[q].server = s /\ op'[q].name = n
        BY <1>5, <2>4 DEF Managed, Assigning
      <4>2. q = r
        BY <1>1, <2>4, <4>1 DEF Managed, Assigning, Began
      <4>3. Runs(r)'  BY <4>1, <4>2 DEF Begins, Began, Runs
      <4> QED BY <4>1, <4>2, <4>3 DEF On
    <3>2. n \notin servers[s].assigned  BY <2>1, <2>4 DEF NamesInv, Present
    <3>3. todo'[r] = Steps(b) /\ b.kind \in Accounts
      BY <3>1 DEF On, Runs, Begins
    <3>4. Head(Steps(b)) \in {"absent", "there"}
      BY <3>3, Triples DEF Steps, Accounts, NewUser
    <3>5. \A q \in Requests : On(q, n)' => q = r
      BY <1>1, <2>2, <3>1
    <3> QED BY <1>1, <3>1, <3>2, <3>3, <3>4, <3>5
  <2> QED BY <2>3, <2>4
<1> QED BY <1>2, <1>4, <1>5 DEF NamesInv, TextInv

-----------------------------------------------------------------------------
(* The invariant.                                                          *)

\* The platform is installed as it should be.
LEMMA AccountsInitially ==
  ASSUME AccountsInit
  PROVE  IInv
<1> DEFINE I == Installed
<1>1. PICK n \in (DOMAIN I.users) \cap Ids : DOMAIN I.users \subseteq 1..n
  BY InstalledPlatform
<1>2. Ids \subseteq Nat /\ ServerIds \subseteq Nat  BY InstalledPlatform
<1>3. lastId = n
  <2>1. /\ n \in DOMAIN I.users
        /\ \A x \in DOMAIN I.users : n >= x
        /\ \A x \in DOMAIN I.users : x >= n => x = n
    BY <1>1, <1>2
  <2>2. \E x \in DOMAIN I.users : \A y \in DOMAIN I.users : x >= y  BY <2>1
  <2>3. /\ Max(DOMAIN I.users) \in DOMAIN I.users
        /\ \A y \in DOMAIN I.users : Max(DOMAIN I.users) >= y
    BY <2>2 DEF Max
  <2> QED BY <2>1, <2>3 DEF AccountsInit
<1>4. \A r \in Requests : /\ state[r] = "idle" /\ overlap[r] = {}
                          /\ ~Runs(r) /\ ~Began(r)
  BY DEF AccountsInit, Runs, Began
<1>5. AccountsTypeOK
  <2>1. users = I.users /\ roles = I.roles /\ servers = I.servers /\ owner = I.owner
    BY DEF AccountsInit
  <2>2. DOMAIN users \subseteq 1..lastId /\ lastId \in Ids  BY <1>1, <1>3, <2>1
  <2>3. \A i, j \in DOMAIN users :
          i # j => users[i].name # users[j].name /\ users[i].number # users[j].number
    BY <2>1, InstalledPlatform
  <2>4. \A x \in roles : x[1] \in 1..lastId /\ x[2] \in {"root", "user"}
    <3>1. roles \subseteq (1..lastId) \X {"root", "user"}
      BY <2>1, <2>2, InstalledPlatform
    <3> QED BY <3>1
  <2>5. \A s \in ServerIds : servers[s] # None => "root" \in servers[s].assigned
    BY <2>1, InstalledPlatform
  <2>6. owner \in [Projects -> 1..lastId \cup {None}]
    <3>1. owner \in [Projects -> (DOMAIN users) \cup {None}]  BY <2>1, InstalledPlatform
    <3> QED BY <2>2, <3>1
  <2> QED BY <2>2, <2>3, <2>4, <2>5, <2>6 DEF AccountsTypeOK
<1>6. TablesInv
  <2>1. \A i \in DOMAIN users : DOMAIN users[i] = {"name", "number"}
    BY InstalledPlatform DEF AccountsInit
  <2>2. /\ servers \in [ServerIds -> Server \cup {None}]
        /\ \E m \in ServerIds \cup {0} : {s \in ServerIds : servers[s] # None} = 1..m
        /\ \A s \in ServerIds : Installed.servers[s] # None => servers[s] # None
    BY InstalledPlatform DEF AccountsInit
  <2>3. /\ DOMAIN made = Requests /\ DOMAIN overlap = Requests /\ DOMAIN op = Requests
        /\ DOMAIN state = Requests /\ DOMAIN todo = Requests /\ DOMAIN seen = Requests
    BY DEF AccountsInit
  <2> QED BY <1>5, <2>1, <2>2, <2>3 DEF TablesInv
<1>7. Sound  BY <1>4, <1>6 DEF Sound, RequestInv
<1>8. AdminInv
  <2>1. \E i \in DOMAIN users : <<i, "root">> \in roles
    BY InstalledPlatform DEF AccountsInit
  <2> QED BY <1>4, <2>1 DEF AdminInv, Holds
<1>9. OwnersInv
  <2>1. owner \in [Projects -> (DOMAIN users) \cup {None}]
    BY InstalledPlatform DEF AccountsInit
  <2> QED BY <1>4, <2>1 DEF OwnersInv, ProjectsHaveOwners
<1>10. NamesInv
  <2>1. servers = I.servers /\ linux = I.linux  BY DEF AccountsInit
  <2>2. ASSUME NEW s \in ServerIds
        PROVE  /\ servers[s] # None => servers[s].assigned \ {"root"} = Managed(s)
               /\ servers[s] # None => servers[s].assigned \subseteq linux \cup {"root"}
    <3>1. Assigning = {}  BY <1>4 DEF Assigning
    <3>2. Managed(s) = IF I.servers[s] = None THEN {} ELSE I.servers[s].assigned \ {"root"}
      BY <3>1 DEF Managed
    <3> QED BY <2>1, <3>2, InstalledPlatform
  <2>3. ASSUME NEW s \in ServerIds, NEW a \in Names PROVE TextInv(s, a)
    BY <1>4, <2>2 DEF TextInv, Present, On
  <2> QED BY <1>4, <2>2, <2>3 DEF NamesInv
<1> QED BY <1>7, <1>8, <1>9, <1>10 DEF IInv

\* Every step of the accounts keeps the invariant.
LEMMA AccountsStepKeeps ==
  ASSUME IInv, AccountsNext
  PROVE  IInv'
<1>1. Sound /\ AdminInv /\ OwnersInv /\ NamesInv  BY DEF IInv
<1>2. PICK r \in Requests : Begin(r) \/ AccountsStep(r)  BY DEF AccountsNext
<1>3. CASE Begin(r)
  <2>1. PICK b : Begins(r, b) /\ TablesInv'  BY <1>1, <1>3, BeginDoes
  <2>2. Sound'  BY <1>1, <2>1, BeginKeepsRequests DEF Sound
  <2> QED BY <1>1, <2>1, <2>2, BeginKeepsAdmin, BeginKeepsOwners, BeginKeepsNames DEF IInv
<1>4. CASE AccountsStep(r)
  <2>1. PICK label : Moved(r, label) /\ Effects(r, label) /\ TablesInv'
    BY <1>1, <1>4, StepDoes
  <2>2. Sound'  BY <1>1, <2>1, StepKeepsRequests DEF Sound
  <2> QED BY <1>1, <2>1, <2>2, StepKeepsAdmin, StepKeepsOwners, StepKeepsNames DEF IInv
<1> QED BY <1>2, <1>3, <1>4

\* So does a step that leaves them alone.
LEMMA AccountsStutter ==
  ASSUME IInv, UNCHANGED accountVars
  PROVE  IInv'
<1>1. UNCHANGED <<users, lastId, roles, servers, linux, owner, op, todo, state, seen, made, overlap>>
  BY DEF accountVars, tables, requestVars
<1>2. Sound'
  BY <1>1 DEF IInv, Sound, TablesInv, AccountsTypeOK, RequestInv, Runs, Began
<1>3. AdminInv'
  BY <1>1 DEF IInv, AdminInv, Holds, Runs, Began
<1>4. OwnersInv'
  BY <1>1 DEF IInv, OwnersInv, ProjectsHaveOwners, Leaves, Deletes, Runs, Began
<1>5. NamesInv'
  BY <1>1 DEF IInv, NamesInv, TextInv, Text, Present, Managed, Calm, Concerning, Assigning, On, Runs, Began
<1> QED BY <1>2, <1>3, <1>4, <1>5 DEF IInv

\* Ids of users are not given back, and a server that was registered stays in its table.
LEMMA TablesGrow ==
  ASSUME IInv, AccountsNext
  PROVE  /\ 1..lastId \subseteq 1..lastId'
         /\ \A s \in ServerIds : servers[s] # None => servers'[s] # None
<1>1. Sound  BY DEF IInv
<1>2. PICK r \in Requests : Begin(r) \/ AccountsStep(r)  BY DEF AccountsNext
<1>3. CASE Begin(r)
  <2>1. PICK b : Begins(r, b)  BY <1>1, <1>3, BeginDoes
  <2> QED BY <2>1 DEF Begins
<1>4. CASE AccountsStep(r)
  <2>1. PICK label : Effects(r, label)  BY <1>1, <1>4, StepDoes
  <2> QED BY <2>1 DEF Effects, UsersEffect, ServersEffect
<1> QED BY <1>2, <1>3, <1>4

\* What the invariant says.
LEMMA AccountsSafe ==
  ASSUME IInv
  PROVE  AccountsTypeOK /\ SomebodyAdministers /\ ProjectsHaveOwners /\ TextNamesTheAccounts
<1>1. SomebodyAdministers  BY DEF IInv, AdminInv, SomebodyAdministers
<1>2. ProjectsHaveOwners  BY DEF IInv, OwnersInv
<1>3. ASSUME NEW s \in ServerIds, Present(s), NEW n \in Managed(s),
             \A q \in Concerning(s, n) : /\ state[q] = "done" /\ op[q].server = s
                                         /\ overlap[q] \cap Concerning(s, n) = {}
      PROVE  n \in servers[s].assigned <=> n \in linux
  <2>1. n \in Names
    <3>1. CASE Installed.servers[s] # None /\ n \in Installed.servers[s].assigned
      <4>1. Installed.servers[s] \in Server  BY <3>1, InstalledPlatform
      <4> QED BY <3>1, <4>1 DEF Server
    <3>2. CASE \E r \in Requests : Began(r) /\ op[r].kind \in Accounts /\ op[r].name = n
      BY <3>2, RequestsAsk DEF IInv, Sound, RequestInv, Began
    <3> QED BY <3>1, <3>2 DEF Managed, Assigning
  <2>2. Calm(s, n)  BY <1>3 DEF Calm
  <2>3. \A q \in Requests : ~On(q, n)
    <3> SUFFICES ASSUME NEW q \in Requests, On(q, n) PROVE FALSE
      OBVIOUS
    <3>1. q \in Concerning(s, n)  BY DEF On, Concerning, Assigning, Began, Runs
    <3> QED BY <1>3, <3>1 DEF On, Runs
  <2> QED BY <1>3, <2>1, <2>2, <2>3 DEF IInv, NamesInv, TextInv
<1>4. TextNamesTheAccounts  BY <1>3 DEF TextNamesTheAccounts
<1>5. AccountsTypeOK  BY DEF IInv, Sound, TablesInv
<1> QED BY <1>1, <1>2, <1>4, <1>5

-----------------------------------------------------------------------------
(* Part 2: the accounts together with terminals and tickets.               *)

\* A session belongs to a user and a server that were made, and the one that a call
\* opens will.
SessionInv ==
  /\ DOMAIN sessions \subseteq Sessions /\ ended \cap DOMAIN sessions = {}
  /\ \A i \in DOMAIN sessions : /\ Session(sessions[i]) /\ sessions[i].user \in 1..lastId
                                /\ servers[sessions[i].server] # None
  /\ \A c \in Calls : at[c] = "open" => /\ ask[c].by \in 1..lastId
                                        /\ held[c] \in ServerIds /\ servers[held[c]] # None

\* A ticket that served a download is out of the table for good.
TicketInv ==
  /\ TicketServesOnce
  /\ DOMAIN tickets \subseteq issued
  /\ \A x \in served : x.ticket \in issued \ DOMAIN tickets
  /\ now \in Nat /\ \A t \in DOMAIN tickets : tickets[t].until \in 0..(now + TTL)

CallInv ==
  /\ DOMAIN ask = Calls /\ DOMAIN at = Calls /\ DOMAIN held = Calls
  /\ \A c \in Calls : at[c] # "idle" => ask[c] \in CallBodies

TInv == IInv /\ SessionInv /\ TicketInv /\ CallInv

-----------------------------------------------------------------------------
(* Sessions.                                                               *)

\* A change of a session is a change of one field.
LEMMA OneField ==
  ASSUME NEW b, NEW old
  PROVE  /\ DOMAIN Changed(b, old) = DOMAIN old
         /\ \E f \in {"cwd", "env"} : \A g \in DOMAIN old \ {f} : Changed(b, old)[g] = old[g]
<1>1. CASE b.kind = "cd"
  <2>1. Changed(b, old) = [old EXCEPT !.cwd = b.to]  BY <1>1 DEF Changed
  <2> QED BY <2>1
<1>2. CASE b.kind # "cd"
  <2>1. \E v : Changed(b, old) = [old EXCEPT !.env = v]  BY <1>2 DEF Changed
  <2> QED BY <2>1
<1> QED BY <1>1, <1>2

\* Session i is the same but for one field.
SameButOne(i) ==
  /\ DOMAIN sessions'[i] = DOMAIN sessions[i]
  /\ \E f \in {"cwd", "env"} : \A g \in DOMAIN sessions[i] \ {f} :
       sessions'[i][g] = sessions[i][g]

\* What a step may do to the sessions.
SessionsStep(c) ==
  /\ \A i \in DOMAIN sessions' :
       \/ i \in DOMAIN sessions /\ SameButOne(i)
       \/ /\ i \in Sessions \ (DOMAIN sessions \cup ended)
          /\ at[c] = "open"
          /\ sessions'[i] = [user |-> ask[c].by, server |-> held[c], cwd |-> Home, env |-> Base]
  /\ ended' \subseteq ended \cup (DOMAIN sessions \ DOMAIN sessions')

\* No session changes.
LEMMA SessionsStay ==
  ASSUME sessions' = sessions, ended' = ended, NEW c
  PROVE  SessionsStep(c)
BY DEF SessionsStep, SameButOne

\* A call adds a session, changes a field of one, or ends one.
LEMMA CallChangesSessions ==
  ASSUME NEW c \in Calls, Serve(c)
  PROVE  SessionsStep(c)
<1>1. CASE Call(c) \/ Run(c) \/ MakeTicket(c) \/ SetSize(c) \/ Cleanup(c) \/ Take(c)
  <2>1. sessions' = sessions /\ ended' = ended
    BY <1>1 DEF Call, Run, MakeTicket, SetSize, Cleanup, Take
  <2> QED BY <2>1, SessionsStay
<1>2. CASE Open(c)
  <2>1. CASE sessions' = sessions
    BY <1>2, <2>1, SessionsStay DEF Open
  <2>2. CASE sessions' # sessions
    <3>1. PICK i \in Sessions \ (DOMAIN sessions \cup ended) :
            sessions' = [j \in DOMAIN sessions \cup {i} |->
                           IF j = i THEN [user |-> ask[c].by, server |-> held[c],
                                          cwd |-> Home, env |-> Base] ELSE sessions[j]]
      BY <1>2, <2>2 DEF Open
    <3>2. at[c] = "open" /\ ended' = ended  BY <1>2 DEF Open, Does
    <3>3. /\ DOMAIN sessions' = DOMAIN sessions \cup {i}
          /\ sessions'[i] = [user |-> ask[c].by, server |-> held[c], cwd |-> Home, env |-> Base]
          /\ \A j \in DOMAIN sessions : sessions'[j] = sessions[j]
      BY <3>1
    <3> QED BY <3>2, <3>3 DEF SessionsStep, SameButOne
  <2> QED BY <2>1, <2>2
<1>3. CASE Switch(c)
  <2>1. ended' = ended  BY <1>3 DEF Switch
  <2>2. CASE sessions' = sessions
    BY <2>1, <2>2, SessionsStay
  <2>3. CASE sessions' # sessions
    <3> DEFINE i == ask[c].session
               v == Changed(ask[c], sessions[i])
    <3>1. i \in DOMAIN sessions /\ sessions' = [sessions EXCEPT ![i] = v]
      BY <1>3, <2>3 DEF Switch, Store, Own
    <3>2. /\ DOMAIN v = DOMAIN sessions[i]
          /\ \E f \in {"cwd", "env"} : \A g \in DOMAIN sessions[i] \ {f} : v[g] = sessions[i][g]
      BY OneField
    <3> HIDE DEF v, i
    <3>3. /\ DOMAIN sessions' = DOMAIN sessions /\ sessions'[i] = v
          /\ \A j \in DOMAIN sessions \ {i} : sessions'[j] = sessions[j]
      BY <3>1
    <3>4. SameButOne(i)  BY <3>2, <3>3 DEF SameButOne
    <3>5. \A j \in DOMAIN sessions \ {i} : SameButOne(j)  BY <3>3 DEF SameButOne
    <3> QED BY <2>1, <3>3, <3>4, <3>5 DEF SessionsStep
  <2> QED BY <2>2, <2>3
<1>4. CASE Close(c)
  <2>1. CASE sessions' = sessions /\ ended' = ended
    BY <2>1, SessionsStay
  <2>2. CASE ~(sessions' = sessions /\ ended' = ended)
    <3> DEFINE i == ask[c].session
    <3>1. /\ i \in DOMAIN sessions /\ ended' = ended \cup {i}
          /\ sessions' = [j \in DOMAIN sessions \ {i} |-> sessions[j]]
      BY <1>4, <2>2 DEF Close, Own
    <3> HIDE DEF i
    <3>2. /\ DOMAIN sessions' = DOMAIN sessions \ {i}
          /\ \A j \in DOMAIN sessions' : sessions'[j] = sessions[j]
      BY <3>1
    <3> QED BY <3>1, <3>2 DEF SessionsStep, SameButOne
  <2> QED BY <2>1, <2>2
<1> QED BY <1>1, <1>2, <1>3, <1>4 DEF Serve

\* The invariant of the sessions is kept by a call.
LEMMA CallKeepsSessions ==
  ASSUME IInv, SessionInv, CallInv, NEW c \in Calls, Serve(c), UNCHANGED accountVars,
         SessionsStep(c)
  PROVE  SessionInv'
<1>1. UNCHANGED <<users, lastId, roles, servers>>  BY DEF accountVars, tables
<1>2. DOMAIN sessions' \subseteq Sessions /\ ended' \cap DOMAIN sessions' = {}
  BY DEF SessionInv, SessionsStep
<1>3. ASSUME NEW i \in DOMAIN sessions'
      PROVE  /\ Session(sessions'[i]) /\ sessions'[i].user \in 1..lastId'
             /\ servers'[sessions'[i].server] # None
  <2>1. CASE i \in DOMAIN sessions /\ SameButOne(i)
    <3>1. sessions'[i].user = sessions[i].user /\ sessions'[i].server = sessions[i].server
      BY <2>1 DEF SameButOne, SessionInv, Session
    <3>2. DOMAIN sessions'[i] = DOMAIN sessions[i]  BY <2>1 DEF SameButOne
    <3> QED BY <1>1, <2>1, <3>1, <3>2 DEF SessionInv, Session
  <2>2. CASE /\ at[c] = "open"
             /\ sessions'[i] = [user |-> ask[c].by, server |-> held[c], cwd |-> Home, env |-> Base]
    BY <1>1, <2>2 DEF SessionInv, Session
  <2> QED BY <2>1, <2>2 DEF SessionsStep
<1>4. ASSUME NEW d \in Calls, at'[d] = "open"
      PROVE  /\ ask'[d].by \in 1..lastId' /\ held'[d] \in ServerIds
             /\ servers'[held'[d]] # None
  <2>1. CASE at[d] = "open" /\ ask'[d] = ask[d] /\ held'[d] = held[d]
    BY <1>1, <2>1 DEF SessionInv
  <2>2. CASE Call(c) /\ d = c /\ at[c] = "idle"
    <3>1. PICK b \in CallBodies :
            /\ ask' = [ask EXCEPT ![c] = b]
            /\ CASE b.kind = "download" -> Answer(c, "cleanup") /\ UNCHANGED held
                 [] b.kind = "close" -> Answer(c, IF Permitted(b.by, "project") THEN "close" ELSE "refused")
                                        /\ UNCHANGED held
                 [] Permitted(b.by, "project") /\ Context(b) # {} ->
                      \E x \in Context(b) : held' = [held EXCEPT ![c] = x] /\ Answer(c, b.kind)
                 [] OTHER -> Answer(c, "refused") /\ UNCHANGED held
      BY <2>2 DEF Call
    <3>2. \A how : Answer(c, how) => at'[c] = how  BY DEF Answer, CallInv
    <3>3. /\ b.kind = "open" /\ Permitted(b.by, "project")
          /\ \E x \in Context(b) : held' = [held EXCEPT ![c] = x]
      <4>1. CASE b.kind = "download"
        <5>1. Answer(c, "cleanup") \/ Answer(c, "download")  BY <3>1, <4>1
        <5> QED BY <1>4, <2>2, <3>2, <5>1
      <4>2. CASE b.kind = "close"
        <5>1. Answer(c, "close") \/ Answer(c, "refused")  BY <3>1, <4>2
        <5> QED BY <1>4, <2>2, <3>2, <5>1
      <4>3. CASE b.kind \notin {"download", "close"} /\ Permitted(b.by, "project") /\ Context(b) # {}
        <5>1. \E x \in Context(b) : held' = [held EXCEPT ![c] = x] /\ Answer(c, b.kind)
          BY <3>1, <4>3
        <5> QED BY <1>4, <2>2, <3>2, <4>3, <5>1
      <4>4. CASE b.kind \notin {"download", "close"} /\ ~(Permitted(b.by, "project") /\ Context(b) # {})
        <5>1. Answer(c, "refused")  BY <3>1, <4>4
        <5> QED BY <1>4, <2>2, <3>2, <5>1
      <4> QED BY <4>1, <4>2, <4>3, <4>4
    <3>4. ask'[c] = b  BY <3>1 DEF CallInv
    <3>5. held'[c] \in Context(b)  BY <3>3 DEF CallInv
    <3>6. Context(b) = Reachable(b.by, b.ip)  BY <3>3 DEF Context, InSession, Switches
    <3>7. held'[c] \in ServerIds /\ servers[held'[c]] # None
      BY <3>5, <3>6 DEF Reachable, MayUse, Present
    <3>8. b.by \in 1..lastId
      <4>1. b.by \in DOMAIN users  BY <3>3 DEF Permitted
      <4>2. AccountsTypeOK  BY AccountsSafe
      <4> QED BY <4>1, <4>2 DEF AccountsTypeOK
    <3> QED BY <1>1, <2>2, <3>4, <3>7, <3>8
  <2>3. \/ at[d] = "open" /\ ask'[d] = ask[d] /\ held'[d] = held[d]
        \/ Call(c) /\ d = c /\ at[c] = "idle"
    <3>1. CASE d # c
      BY <1>4, <3>1 DEF CallInv, Serve, Call, Open, Switch, Store, Run, Close, MakeTicket, SetSize,
                        Cleanup, Take, Answer
    <3>2. CASE d = c
      <4>1. CASE Call(c)  BY <3>2, <4>1 DEF Call
      <4>2. CASE Open(c) \/ Switch(c) \/ Run(c) \/ Close(c) \/ MakeTicket(c) \/ SetSize(c)
                 \/ Cleanup(c) \/ Take(c)
        <5>1. Answer(c, "done") \/ Answer(c, "refused") \/ Answer(c, "size") \/ Answer(c, "take")
          BY <4>2 DEF Open, Switch, Store, Run, Close, MakeTicket, SetSize, Cleanup, Take
        <5> QED BY <1>4, <3>2, <5>1 DEF Answer, CallInv
      <4> QED BY <4>1, <4>2 DEF Serve
    <3> QED BY <3>1, <3>2
  <2> QED BY <2>1, <2>2, <2>3
<1> QED BY <1>2, <1>3, <1>4 DEF SessionInv

\* A step of the accounts leaves the sessions with a user and a server.
LEMMA AccountsKeepSessions ==
  ASSUME SessionInv, UNCHANGED terminalVars, 1..lastId \subseteq 1..lastId',
         \A s \in ServerIds : servers[s] # None => servers'[s] # None
  PROVE  SessionInv'
<1>1. UNCHANGED <<sessions, ended, at, ask, held>>  BY DEF terminalVars
<1>2. ASSUME NEW i \in DOMAIN sessions
      PROVE  Session(sessions[i]) /\ sessions[i].user \in 1..lastId' /\ servers'[sessions[i].server] # None
  BY DEF SessionInv, Session
<1> QED BY <1>1, <1>2 DEF SessionInv, Session

-----------------------------------------------------------------------------
(* Tickets.                                                                *)

\* The table of tickets after a step, and the downloads served by it.
LEMMA CallKeepsTickets ==
  ASSUME TicketInv, NEW c \in Calls, Serve(c)
  PROVE  TicketInv'
<1>0. TTL \in Nat /\ now \in Nat  BY FirstTerminals DEF TicketInv
<1>1. CASE Call(c) \/ Open(c) \/ Switch(c) \/ Run(c) \/ Close(c)
  <2>1. UNCHANGED <<tickets, issued, served, now>>
    BY <1>1 DEF Call, Open, Switch, Run, Close
  <2> QED BY <2>1 DEF TicketInv, TicketServesOnce
<1>2. CASE MakeTicket(c)
  <2>1. UNCHANGED <<served, now>>  BY <1>2 DEF MakeTicket
  <2>2. CASE UNCHANGED <<tickets, issued>>
    BY <2>1, <2>2 DEF TicketInv, TicketServesOnce
  <2>3. CASE ~UNCHANGED <<tickets, issued>>
    <3>1. PICK t \in Tickets \ issued :
            /\ tickets' = [u \in Fresh \cup {t} |->
                 IF u = t THEN [user |-> ask[c].by, server |-> held[c].server,
                                path |-> ask[c].path, until |-> now + TTL, size |-> 0]
                 ELSE tickets[u]]
            /\ issued' = issued \cup {t}
      BY <1>2, <2>3 DEF MakeTicket
    <3>2. /\ DOMAIN tickets' = Fresh \cup {t} /\ Fresh \subseteq DOMAIN tickets
          /\ tickets'[t].until = now + TTL
          /\ \A u \in Fresh : u # t => tickets'[u] = tickets[u]
      BY <3>1 DEF Fresh
    <3>3. \A u \in DOMAIN tickets' : tickets'[u].until \in 0..(now + TTL)
      BY <1>0, <3>2 DEF TicketInv
    <3> QED BY <2>1, <3>1, <3>2, <3>3 DEF TicketInv, TicketServesOnce
  <2> QED BY <2>2, <2>3
<1>3. CASE SetSize(c)
  <2>1. UNCHANGED <<issued, served, now>>  BY <1>3 DEF SetSize
  <2>2. DOMAIN tickets' = DOMAIN tickets /\ \A t \in DOMAIN tickets :
          tickets'[t] = tickets[t] \/ tickets'[t] = [tickets[t] EXCEPT !.size = 1]
    BY <1>3 DEF SetSize
  <2>3. \A t \in DOMAIN tickets : [tickets[t] EXCEPT !.size = 1].until = tickets[t].until
    OBVIOUS
  <2>4. \A t \in DOMAIN tickets' : tickets'[t].until = tickets[t].until  BY <2>2, <2>3
  <2> QED BY <2>1, <2>2, <2>4 DEF TicketInv, TicketServesOnce
<1>4. CASE Cleanup(c)
  <2>1. UNCHANGED <<issued, served, now>>  BY <1>4 DEF Cleanup
  <2>2. /\ DOMAIN tickets' \subseteq DOMAIN tickets
        /\ \A t \in DOMAIN tickets' : tickets'[t] = tickets[t]
    BY <1>4 DEF Cleanup, Kept, Fresh
  <2> QED BY <2>1, <2>2 DEF TicketInv, TicketServesOnce
<1>5. CASE Take(c)
  <2> DEFINE t == ask[c].ticket
  <2>1. UNCHANGED <<issued, now>>  BY <1>5 DEF Take
  <2>2. /\ DOMAIN tickets' = DOMAIN tickets \ {t}
        /\ \A u \in DOMAIN tickets' : tickets'[u] = tickets[u]
    BY <1>5 DEF Take, Pop, Kept
  <2>3. CASE t \in Fresh
    <3> DEFINE x == [call |-> c, ticket |-> t, until |-> tickets[t].until, time |-> now]
    <3>1. served' = served \cup {x}  BY <1>5, <2>3 DEF Take
    <3>2. t \in DOMAIN tickets /\ x.ticket = t /\ x.time < x.until  BY <2>3 DEF Fresh
    <3> HIDE DEF x, t
    <3>3. TicketServesOnce'
      BY <3>1, <3>2 DEF TicketInv, TicketServesOnce
    <3>4. \A y \in served' : y.ticket \in issued' \ DOMAIN tickets'
      BY <2>1, <2>2, <3>1, <3>2 DEF TicketInv
    <3> QED BY <2>1, <2>2, <3>3, <3>4 DEF TicketInv
  <2>4. CASE t \notin Fresh
    <3>1. served' = served  BY <1>5, <2>4 DEF Take
    <3> QED BY <2>1, <2>2, <3>1 DEF TicketInv, TicketServesOnce
  <2> QED BY <2>3, <2>4
<1> QED BY <1>1, <1>2, <1>3, <1>4, <1>5 DEF Serve

\* The clock only lets tickets expire.
LEMMA TickKeepsTickets ==
  ASSUME TicketInv, Tick
  PROVE  TicketInv'
<1>1. TTL \in Nat /\ now \in Nat  BY FirstTerminals DEF TicketInv
<1>2. now' = now + 1 /\ UNCHANGED <<tickets, issued, served>>  BY DEF Tick
<1>3. 0..(now + TTL) \subseteq 0..(now' + TTL)  BY <1>1, <1>2
<1> QED BY <1>1, <1>2, <1>3 DEF TicketInv, TicketServesOnce

-----------------------------------------------------------------------------
(* The invariant and the theorems.                                         *)

\* The terminals begin as they should.
LEMMA Initially ==
  ASSUME Init
  PROVE  TInv
<1>1. IInv  BY AccountsInitially DEF Init
<1>2. SessionInv
  <2>1. AccountsTypeOK  BY <1>1, AccountsSafe
  <2>2. users = Installed.users /\ servers = Installed.servers  BY DEF Init, AccountsInit
  <2> QED BY <2>1, <2>2, FirstTerminals DEF Init, SessionInv, AccountsTypeOK
<1>3. TicketInv
  BY FirstTerminals DEF Init, TicketInv, TicketServesOnce
<1>4. CallInv  BY DEF Init, CallInv
<1> QED BY <1>1, <1>2, <1>3, <1>4 DEF TInv

\* A call keeps its own record.
LEMMA CallKeepsCalls ==
  ASSUME CallInv, NEW c \in Calls, Serve(c)
  PROVE  CallInv'
<1>1. /\ at[c] = "idle" => \E b \in CallBodies : ask' = [ask EXCEPT ![c] = b]
      /\ at[c] # "idle" => ask' = ask
  BY DEF Serve, Call, Open, Does, Switch, Switches, Run, Close, MakeTicket, SetSize, Cleanup, Take
<1>2. \E how : Answer(c, how)
  BY DEF Serve, Call, Open, Switch, Store, Run, Close, MakeTicket, SetSize, Cleanup, Take
<1>3. held' = held \/ \E x : held' = [held EXCEPT ![c] = x]
  BY DEF Serve, Call, Open, Switch, Run, Close, MakeTicket, SetSize, Cleanup, Take
<1>4. DOMAIN ask' = Calls /\ DOMAIN at' = Calls /\ DOMAIN held' = Calls
  BY <1>1, <1>2, <1>3 DEF Answer, CallInv
<1>5. \A d \in Calls \ {c} : at'[d] = at[d] /\ ask'[d] = ask[d]
  BY <1>1, <1>2 DEF Answer, CallInv
<1>6. ask'[c] \in CallBodies
  BY <1>1 DEF CallInv
<1> QED BY <1>4, <1>5, <1>6 DEF CallInv

\* Every step keeps the invariant.
LEMMA StepKeeps ==
  ASSUME TInv, [Next]_vars
  PROVE  TInv'
<1>1. IInv /\ SessionInv /\ TicketInv /\ CallInv  BY DEF TInv
<1>2. CASE AccountsNext /\ UNCHANGED terminalVars
  <2>1. UNCHANGED <<sessions, tickets, now, ask, at, held, issued, served>>
    BY <1>2 DEF terminalVars
  <2>2. IInv'  BY <1>1, <1>2, AccountsStepKeeps
  <2>3. SessionInv'  BY <1>1, <1>2, TablesGrow, AccountsKeepSessions
  <2>4. TicketInv' /\ CallInv'  BY <1>1, <2>1 DEF TicketInv, TicketServesOnce, CallInv
  <2> QED BY <2>2, <2>3, <2>4 DEF TInv
<1>3. CASE Tick \/ UNCHANGED vars
  <2>1. UNCHANGED accountVars  BY <1>3 DEF Tick, vars
  <2>2. UNCHANGED <<sessions, ask, at, held, ended, issued, ran, served>>
    BY <1>3 DEF Tick, vars, terminalVars
  <2>3. IInv'  BY <1>1, <2>1, AccountsStutter
  <2>4. UNCHANGED <<users, lastId, roles, servers>>  BY <2>1 DEF accountVars, tables
  <2>5. SessionInv'  BY <1>1, <2>2, <2>4 DEF SessionInv, Session
  <2>6. TicketInv'
    <3>1. CASE Tick  BY <1>1, <3>1, TickKeepsTickets
    <3>2. CASE UNCHANGED vars
      BY <1>1, <3>2 DEF vars, terminalVars, TicketInv, TicketServesOnce
    <3> QED BY <1>3, <3>1, <3>2
  <2>7. CallInv'  BY <1>1, <2>2 DEF CallInv
  <2> QED BY <2>3, <2>5, <2>6, <2>7 DEF TInv
<1>4. ASSUME NEW c \in Calls, Serve(c)
      PROVE  TInv'
  <2>1. UNCHANGED accountVars
    BY <1>4 DEF Serve, Call, Open, Switch, Run, Close, MakeTicket, SetSize, Cleanup, Take
  <2>2. IInv'  BY <1>1, <2>1, AccountsStutter
  <2>3. SessionInv'  BY <1>1, <1>4, <2>1, CallChangesSessions, CallKeepsSessions
  <2>4. TicketInv'  BY <1>1, <1>4, CallKeepsTickets
  <2>5. CallInv'  BY <1>1, <1>4, CallKeepsCalls
  <2> QED BY <2>2, <2>3, <2>4, <2>5 DEF TInv
<1> QED BY <1>2, <1>3, <1>4 DEF Next

\* The invariant holds throughout.
THEOREM Invariance == Spec => []TInv
BY Initially, StepKeeps, PTL DEF Spec

\* Sessions are of users and servers that were made, tickets of the time allowed, and ids
\* of users and servers are never given back.
THEOREM TypeCorrect == Spec => []TypeOK
<1>1. ASSUME TInv PROVE TypeOK
  <2>1. AccountsTypeOK  BY <1>1, AccountsSafe DEF TInv
  <2>2. TTL \in Nat /\ now \in Nat  BY <1>1, FirstTerminals DEF TInv, TicketInv
  <2> QED BY <1>1, <2>1, <2>2 DEF TypeOK, TInv, SessionInv, TicketInv, CallInv
<1> QED BY <1>1, Invariance, PTL

\* However users with the role root delete each other, one of them stays, unless the RBAC
\* page removed users.
THEOREM RootStays == Spec => []SomebodyAdministers
<1>1. TInv => SomebodyAdministers  BY AccountsSafe DEF TInv
<1> QED BY <1>1, Invariance, PTL

\* A project has an owner who exists through every deletion that hands projects over, also
\* if it fails halfway, but for one that came to its owner beside his deletion.
THEOREM HandedOver == Spec => []ProjectsHaveOwners
<1>1. TInv => ProjectsHaveOwners  BY AccountsSafe DEF TInv
<1> QED BY <1>1, Invariance, PTL

\* When the requests about a server and an account are over, and none failed in the middle
\* or ran beside another, its text names the account exactly if it is there.
THEOREM TextIsRight == Spec => []TextNamesTheAccounts
<1>1. TInv => TextNamesTheAccounts  BY AccountsSafe DEF TInv
<1> QED BY <1>1, Invariance, PTL

\* A ticket serves one download, and none once it has expired.
THEOREM OneDownload == Spec => []TicketServesOnce
<1>1. TInv => TicketServesOnce  BY DEF TInv, TicketInv
<1> QED BY <1>1, Invariance, PTL

\* No closed session comes back, and a step changes one field of a session.
THEOREM OneFieldAtATime == Spec => SessionsKeepTheRest
<1> DEFINE Rest == /\ ended \cap DOMAIN sessions' = {}
                   /\ \A i \in DOMAIN sessions \cap DOMAIN sessions' :
                        \E f \in {"cwd", "env"} : \A g \in DOMAIN sessions[i] \ {f} :
                           sessions'[i][g] = sessions[i][g]
<1>1. TInv /\ [Next]_vars => [Rest]_sessions
  <2> SUFFICES ASSUME TInv, [Next]_vars, sessions' # sessions PROVE Rest
    OBVIOUS
  <2>1. PICK c \in Calls : Serve(c)
    BY DEF Next, Tick, terminalVars, vars
  <2>2. SessionsStep(c)  BY <2>1, CallChangesSessions
  <2>3. \A i \in DOMAIN sessions' : i \notin ended
    BY <2>2 DEF SessionsStep, TInv, SessionInv
  <2>4. \A i \in DOMAIN sessions \cap DOMAIN sessions' : SameButOne(i)
    BY <2>2 DEF SessionsStep
  <2> QED BY <2>3, <2>4 DEF SameButOne
<1> QED BY <1>1, Invariance, PTL DEF Spec, SessionsKeepTheRest

=============================================================================
