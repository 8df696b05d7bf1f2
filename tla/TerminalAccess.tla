---------------------------- MODULE TerminalAccess ----------------------------
(***************************************************************************)
(* Terminal sessions without a WebSocket, transfers of files and one-time  *)
(* download tickets, together with the accounts and servers they need:     *)
(* terminal_legacy_session.py, terminal_execute_service.py,                *)
(* terminal_context.py, terminal_access.py, terminal_download_ticket.py    *)
(* and terminal_transfer_service.py.                                       *)
(*                                                                         *)
(* Sessions and tickets are in the memory of the backend, each table under *)
(* a lock, and a call holds no lock while it waits for a server.  The      *)
(* queries for session and permission at its beginning are one step.       *)
(***************************************************************************)
EXTENDS Accounts

CONSTANTS
  Calls,        \* requests to the terminal interfaces
  CallBodies,   \* what a call may ask for
  Sessions,     \* bound: the session ids
  Tickets,      \* bound: the tickets
  Sockets,      \* the WebSocket sessions, open all the time: [id -> [user, server]]
  FirstSessions,\* the sessions at first: [id -> [user, server, cwd, env]]
  FirstTickets, \* the tickets at first: [id -> [user, server, path, until, size]]
  Home,         \* the directory in which a session begins
  Base,         \* the default Conda environment
  TTL,          \* TERMINAL_DOWNLOAD_TICKET_TTL_SECONDS
  MaxTime,      \* bound: the clock
  MaxBegun      \* bound: the requests and calls that begin

Session(x) == DOMAIN x = {"user", "server", "cwd", "env"} /\ x.server \in ServerIds

\* The sessions at first are of users and servers that exist, and no ticket is older
\* than a ticket may get.
ASSUME FirstTerminals ==
  /\ TTL \in Nat
  /\ DOMAIN FirstSessions \subseteq Sessions
  /\ \A i \in DOMAIN FirstSessions :
       /\ Session(FirstSessions[i])
       /\ FirstSessions[i].user \in DOMAIN Installed.users
       /\ Installed.servers[FirstSessions[i].server] # None
  /\ \A t \in DOMAIN FirstTickets : FirstTickets[t].until \in 0..TTL

VARIABLES
  sessions,     \* sessions[i]: [user, server, cwd, env]
  tickets,      \* tickets[t]: [user, server, path, until, size]
  now,
  ask,          \* ask[c]: the body of call c
  at,           \* at[c]: what c does next, or how it ended
  held,         \* held[c]: the session or the ticket as c read it
  ended,        \* history: the sessions that were closed
  issued,       \* history: the tickets that were made
  ran,          \* history: the commands that ran, as [call, server, cwd, env]
  served        \* history: the downloads, as [call, ticket, until, time]

terminalVars == <<sessions, tickets, now, ask, at, held, ended, issued, ran, served>>
vars == <<accountVars, terminalVars>>

Init ==
  /\ AccountsInit
  /\ sessions = FirstSessions /\ tickets = FirstTickets /\ now = 0
  /\ ask = [c \in Calls |-> None]
  /\ at = [c \in Calls |-> "idle"]
  /\ held = [c \in Calls |-> None]
  /\ ended = {} /\ issued = DOMAIN FirstTickets /\ ran = {} /\ served = {}

-----------------------------------------------------------------------------
(* The beginning of a call.                                                *)

Switches == {"cd", "activate"}
InSession == Switches \cup {"deactivate", "command"}

Own(table, i, u) == i \in DOMAIN table /\ table[i].user = u

\* _list_allowed_servers, and the one with the address.
Reachable(u, ip) == {s \in ServerIds : MayUse(u, s) /\ servers[s].ip = ip}

\* What a call works on.  Uploads, downloads, listings and completions fall back to
\* a WebSocket session, with the server it was opened on and no further question.
Context(b) ==
  CASE b.kind = "open" -> Reachable(b.by, b.ip)
    [] b.kind \in InSession \cup {"transfer", "ticket"} /\ Own(sessions, b.session, b.by) ->
         IF MayUse(b.by, sessions[b.session].server) THEN {sessions[b.session]} ELSE {}
    [] b.kind \in {"transfer", "ticket"} /\ Own(Sockets, b.session, b.by) ->
         {[user |-> b.by, server |-> Sockets[b.session].server, cwd |-> Home, env |-> Base]}
    [] OTHER -> {}

Answer(c, how) == at' = [at EXCEPT ![c] = how]

\* Every call but a direct download needs a user with permission for projects.
Call(c) ==
  /\ at[c] = "idle"
  /\ \E b \in CallBodies :
       /\ ask' = [ask EXCEPT ![c] = b]
       /\ CASE b.kind = "download" -> Answer(c, "cleanup") /\ UNCHANGED held
            [] b.kind = "close" -> Answer(c, IF Permitted(b.by, "project") THEN "close" ELSE "refused")
                                   /\ UNCHANGED held
            [] Permitted(b.by, "project") /\ Context(b) # {} ->
                 \E x \in Context(b) : held' = [held EXCEPT ![c] = x] /\ Answer(c, b.kind)
            [] OTHER -> Answer(c, "refused") /\ UNCHANGED held
  /\ UNCHANGED <<accountVars, sessions, tickets, now, ended, issued, ran, served>>

-----------------------------------------------------------------------------
(* Sessions.                                                               *)

Does(c, kind) == at[c] = kind

\* The server answered (or not), and the session gets a random id.
Open(c) ==
  /\ Does(c, "open")
  /\ \/ /\ \E i \in Sessions \ (DOMAIN sessions \cup ended) :
             sessions' = [j \in DOMAIN sessions \cup {i} |->
                            IF j = i THEN [user |-> ask[c].by, server |-> held[c],
                                           cwd |-> Home, env |-> Base] ELSE sessions[j]]
        /\ Answer(c, "done")
     \/ UNCHANGED sessions /\ Answer(c, "refused")
  /\ UNCHANGED <<accountVars, tickets, now, ask, held, ended, issued, ran, served>>

Changed(b, old) ==
  CASE b.kind = "cd" -> [old EXCEPT !.cwd = b.to]
    [] b.kind = "activate" -> [old EXCEPT !.env = b.to]
    [] OTHER -> [old EXCEPT !.env = Base]

\* Mutant: the session is stored as it was read, with the change.
StoresWhatItRead(c) ==
  sessions' = [i \in DOMAIN sessions \cup {ask[c].session} |->
                 IF i = ask[c].session THEN Changed(ask[c], held[c]) ELSE sessions[i]]
  /\ Answer(c, "done")

\* One field of the session is set, if it is still there.
Store(c) ==
  LET i == ask[c].session IN
    IF Own(sessions, i, ask[c].by)
    THEN sessions' = [sessions EXCEPT ![i] = Changed(ask[c], @)] /\ Answer(c, "done")
    ELSE UNCHANGED sessions /\ Answer(c, "refused")

\* cd and conda activate ask the server first; conda deactivate does not.
Switch(c) ==
  /\ at[c] \in Switches \cup {"deactivate"}
  /\ Store(c) \/ (at[c] \in Switches /\ Answer(c, "refused") /\ UNCHANGED sessions)
  /\ UNCHANGED <<accountVars, tickets, now, ask, held, ended, issued, ran, served>>

\* The command runs where the session was when the call began.
Run(c) ==
  /\ at[c] \in {"command", "transfer"} /\ Answer(c, "done")
  /\ ran' = ran \cup {[call |-> c, server |-> held[c].server, cwd |-> held[c].cwd,
                       env |-> held[c].env]}
  /\ UNCHANGED <<accountVars, sessions, tickets, now, ask, held, ended, issued, served>>

\* _remove_session.
Close(c) ==
  /\ Does(c, "close")
  /\ LET i == ask[c].session IN
       IF Own(sessions, i, ask[c].by)
       THEN /\ sessions' = [j \in DOMAIN sessions \ {i} |-> sessions[j]]
            /\ ended' = ended \cup {i} /\ Answer(c, "done")
       ELSE Answer(c, "refused") /\ UNCHANGED <<sessions, ended>>
  /\ UNCHANGED <<accountVars, tickets, now, ask, held, issued, ran, served>>

-----------------------------------------------------------------------------
(* Tickets.                                                                *)

Fresh == {t \in DOMAIN tickets : now < tickets[t].until}
Kept(keys) == [t \in keys |-> tickets[t]]

\* What kind of file it is was asked of the server; expired tickets go first.
MakeTicket(c) ==
  /\ Does(c, "ticket")
  /\ \/ /\ \E t \in Tickets \ issued :
             /\ tickets' = [u \in Fresh \cup {t} |->
                  IF u = t THEN [user |-> ask[c].by, server |-> held[c].server,
                                 path |-> ask[c].path, until |-> now + TTL, size |-> 0]
                  ELSE tickets[u]]
             /\ issued' = issued \cup {t} /\ held' = [held EXCEPT ![c] = t]
        /\ Answer(c, "size")
     \/ Answer(c, "refused") /\ UNCHANGED <<tickets, issued, held>>
  /\ UNCHANGED <<accountVars, sessions, now, ask, ended, ran, served>>

\* The size is added under the lock taken again, to a ticket that is still there.
SetSize(c) ==
  /\ Does(c, "size") /\ Answer(c, "done")
  /\ tickets' = IF held[c] \in DOMAIN tickets THEN [tickets EXCEPT ![held[c]].size = 1] ELSE tickets
  /\ UNCHANGED <<accountVars, sessions, now, ask, held, ended, issued, ran, served>>

Cleanup(c) ==
  /\ Does(c, "cleanup") /\ Answer(c, "take")
  /\ tickets' = Kept(Fresh)
  /\ UNCHANGED <<accountVars, sessions, now, ask, held, ended, issued, ran, served>>

\* Mutant: the ticket is looked up, and stays until it expires.
LookUp(t) == Kept(DOMAIN tickets)

\* The pop under the lock.
Pop(t) == Kept(DOMAIN tickets \ {t})

\* Time may have passed since the cleanup, so expiry is looked at again.
Take(c) ==
  /\ Does(c, "take")
  /\ LET t == ask[c].ticket IN
       /\ tickets' = Pop(t)
       /\ IF t \in Fresh
          THEN /\ served' = served \cup {[call |-> c, ticket |-> t,
                                          until |-> tickets[t].until, time |-> now]}
               /\ Answer(c, "done")
          ELSE UNCHANGED served /\ Answer(c, "refused")
  /\ UNCHANGED <<accountVars, sessions, now, ask, held, ended, issued, ran>>

Tick == /\ now < MaxTime /\ now' = now + 1
        /\ UNCHANGED <<accountVars, sessions, tickets, ask, at, held, ended, issued, ran, served>>

Serve(c) == \/ Call(c) \/ Open(c) \/ Switch(c) \/ Run(c) \/ Close(c)
            \/ MakeTicket(c) \/ SetSize(c) \/ Cleanup(c) \/ Take(c)

Begun == Cardinality({r \in Requests : state[r] # "idle"})
           + Cardinality({c \in Calls : at[c] # "idle"})

Next ==
  /\ \/ AccountsNext /\ UNCHANGED terminalVars
     \/ Tick
     \/ \E c \in Calls : Serve(c)
  /\ Begun' <= MaxBegun

Spec == Init /\ [][Next]_vars

-----------------------------------------------------------------------------
(* Correctness.                                                            *)

TypeOK ==
  /\ AccountsTypeOK
  /\ DOMAIN sessions \subseteq Sessions /\ DOMAIN tickets \subseteq issued
  /\ \A i \in DOMAIN sessions : /\ sessions[i].user \in 1..lastId
                                /\ servers[sessions[i].server] # None
  /\ \A t \in DOMAIN tickets : tickets[t].until <= now + TTL
  /\ \A c \in Calls : at[c] # "idle" => ask[c] \in CallBodies

\* A session that was closed does not come back by a cd or an activation that was
\* waiting for the server, and of two that overlap in one session neither undoes
\* the other: a step changes one field of a session, and never whose it is.
SessionsKeepTheRest ==
  [][/\ ended \cap DOMAIN sessions' = {}
     /\ \A i \in DOMAIN sessions \cap DOMAIN sessions' :
          \E f \in {"cwd", "env"} : \A g \in DOMAIN sessions[i] \ {f} :
             sessions'[i][g] = sessions[i][g]]_sessions

\* However downloads, cleanups and the clock interleave, a ticket serves one
\* download, and none once it has expired (terminal_download_ticket.py:3-5).
TicketServesOnce ==
  /\ \A x, y \in served : x.ticket = y.ticket => x = y
  /\ \A x \in served : x.time < x.until
=============================================================================
