--------------------------- MODULE TerminalSession ---------------------------
(***************************************************************************)
(* The reconnectable WebSocket terminals: the handler in                   *)
(* api/pspm/terminal.py and services/pspm/terminal_ws_session.py.          *)
(*                                                                         *)
(* All of it is one asyncio event loop.  No section under _ws_terminal_lock *)
(* holds an await, so the lock is always free when it is asked for and     *)
(* asking for it never suspends; an action here is the code from one await *)
(* that does suspend (a send, a sleep, a script, a database call, a select *)
(* in a thread, another task's end) to the next.  Any of these may.        *)
(*                                                                         *)
(* The output buffer is written and trimmed but never read, and cwd and    *)
(* conda environment only reach messages: they are left out.               *)
(***************************************************************************)
EXTENDS Naturals, FiniteSets

CONSTANTS
  Sessions,     \* ids that uuid4 hands out; each one is used once
  Conns,        \* WebSocket connections; a page that reconnects uses another
  Closers,      \* calls of POST /sessions/close
  Users,
  UserOf,       \* UserOf[a]: the user behind connection or call a
  Watchers,     \* watcher tasks
  Projects,
  Descriptors,  \* file descriptors of the server process
  None

Actors == Conns \cup Closers

ASSUME TerminalConstants ==
  /\ UserOf \in [Actors -> Users]
  /\ Conns \cap Closers = {}
  /\ Descriptors \subseteq Nat
  /\ None \notin Sessions \cup Projects \cup Users \cup Descriptors

VARIABLES
  table,     \* the ids in _ws_terminal_sessions
  state,     \* state[s]: the state dict of session s
  proc,      \* proc[s]: the shell on the terminal
  reader,    \* reader[s]: the reader task; cancelled[s]: cancel() was called
  cancelled,
  ptyOf,     \* ptyOf[d]: the session whose master_fd is open as d, or None
  threads,   \* sessions whose cancelled reader left a thread in select()
  act,       \* act[a]: the handler of a connection or call
  open,      \* the connections that still accept a send
  watch,     \* watch[w]: a task of _watch_foreground_port_ready
  status,    \* status[p]: 1 when the project row says running
  asked,     \* history: sessions whose user asked for the end
  ran        \* history: ran[s], projects whose command was typed in s

tasks == <<act, watch>>
machine == <<proc, ptyOf, threads>>
history == <<asked, ran>>
vars == <<table, state, machine, reader, cancelled, tasks, open, status, history>>

State == [owner : Users \cup {None}, fd : Descriptors \cup {None},
          clients : SUBSET Conns, foreground : Projects \cup {None}]
Closing == {"notify", "reap", "mark"}
Handler == [at : {"idle", "create", "serve", "typing", "pending", "done"} \cup Closing,
            sess : Sessions \cup {None}, proj : Projects \cup {None}, create : BOOLEAN]
Watcher == [at : {"free", "probe", "mark", "bind", "ended"},
            sess : Sessions \cup {None}, proj : Projects \cup {None},
            tracked : BOOLEAN, cancelled : BOOLEAN]

TypeOK ==
  /\ table \subseteq Sessions /\ asked \subseteq Sessions
  /\ state \in [Sessions -> State]
  /\ proc \in [Sessions -> {"unborn", "run", "closing", "signalled", "dead"}]
  /\ reader \in [Sessions -> {"unborn", "start", "select", "send", "ended"}]
  /\ cancelled \subseteq Sessions /\ threads \subseteq Sessions
  /\ ptyOf \in [Descriptors -> Sessions \cup {None}]
  /\ act \in [Actors -> Handler]
  /\ open \subseteq Conns
  /\ watch \in [Watchers -> Watcher]
  /\ status \in [Projects -> {0, 1}]
  /\ ran \in [Sessions -> SUBSET Projects]
  /\ \A s \in table : proc[s] # "unborn" /\ state[s].fd # None /\ state[s].owner # None

Init ==
  /\ table = {} /\ asked = {} /\ cancelled = {} /\ threads = {} /\ open = Conns
  /\ state = [s \in Sessions |->
                [owner |-> None, fd |-> None, clients |-> {}, foreground |-> None]]
  /\ proc = [s \in Sessions |-> "unborn"]
  /\ reader = [s \in Sessions |-> "unborn"]
  /\ ptyOf = [d \in Descriptors |-> None]
  /\ act = [a \in Actors |-> [at |-> "idle", sess |-> None, proj |-> None, create |-> FALSE]]
  /\ watch = [w \in Watchers |-> [at |-> "free", sess |-> None, proj |-> None,
                                  tracked |-> FALSE, cancelled |-> FALSE]]
  /\ status = [p \in Projects |-> 0]
  /\ ran = [s \in Sessions |-> {}]

At(a, label) == act[a].at = label
Mine(a) == act[a].sess
GoTo(a, label) == act' = [act EXCEPT ![a].at = label]
Reading(s) == reader[s] \in {"start", "select", "send"}
Exited(s) == proc[s] = "dead"

-----------------------------------------------------------------------------
(* _close_ws_terminal_session, in the task of connection or call a.  The   *)
(* dict that is popped keeps the snapshots: nothing writes to it later.    *)

\* Found under the lock, with its owner, and taken out of the table at once.
Found(a, s) == s \in table /\ state[s].owner = UserOf[a]
Pop(a, s, create) ==
  /\ table' = table \ {s}
  /\ act' = [act EXCEPT ![a].at = "notify", ![a].sess = s, ![a].create = create]

Finish(a) == GoTo(a, IF act[a].create THEN "create" ELSE "done")

\* Tells one client after the other, each with a send and a closing handshake.
Notify(a) ==
  /\ At(a, "notify")
  /\ \E c \in state[Mine(a)].clients :
       /\ state' = [state EXCEPT ![Mine(a)].clients = @ \ {c}]
       /\ open' = open \ {c}
  /\ UNCHANGED <<table, machine, reader, cancelled, tasks, status, history>>

\* Mutant: the watchers are not cancelled.
CancellableNone(s) == {}
Cancellable(s) ==
  {w \in Watchers : watch[w].sess = s /\ watch[w].tracked /\ watch[w].at # "ended"}

\* Then cancels the tracked watchers and the reader, and awaits the reader.
Cancel(a) ==
  /\ At(a, "notify")
  /\ state[Mine(a)].clients = {}
  /\ watch' = [w \in Watchers |-> IF w \in Cancellable(Mine(a))
                                    THEN [watch[w] EXCEPT !.cancelled = TRUE] ELSE watch[w]]
  /\ cancelled' = IF Reading(Mine(a)) THEN cancelled \cup {Mine(a)} ELSE cancelled
  /\ GoTo(a, "reap")
  /\ UNCHANGED <<table, state, machine, reader, open, status, history>>

\* Mutant: the cancelled reader is not awaited.
ReaderNotAwaited(s) == TRUE
ReaderAwaited(s) == ~Reading(s)
\* Mutant: the descriptor is closed where the shell is signalled.
CloseMasterWithShell(s) ==
  IF Exited(s) THEN UNCHANGED ptyOf ELSE ptyOf' = [ptyOf EXCEPT ![state[s].fd] = None]
CloseMaster(s) == ptyOf' = [ptyOf EXCEPT ![state[s].fd] = None]

\* SIGHUP to a shell that has not exited, and the descriptor is free again.
Reap(a) ==
  /\ At(a, "reap")
  /\ ReaderAwaited(Mine(a))
  /\ proc' = [proc EXCEPT ![Mine(a)] = IF Exited(Mine(a)) THEN @ ELSE "signalled"]
  /\ CloseMaster(Mine(a))
  /\ IF state[Mine(a)].foreground = None THEN Finish(a) ELSE GoTo(a, "mark")
  /\ UNCHANGED <<table, state, threads, reader, cancelled, watch, open, status, history>>

MarkStopped(a) ==
  /\ At(a, "mark")
  /\ status' = [status EXCEPT ![state[Mine(a)].foreground] = 0]
  /\ Finish(a)
  /\ UNCHANGED <<table, state, machine, reader, cancelled, watch, open, history>>

\* POST /sessions/close, by session id or by the pid of its shell.
CloseCall(a, s) ==
  /\ At(a, "idle")
  /\ IF Found(a, s)
       THEN Pop(a, s, FALSE) /\ asked' = asked \cup {s}
       ELSE GoTo(a, "done") /\ UNCHANGED <<table, asked>>
  /\ UNCHANGED <<state, machine, reader, cancelled, watch, open, status, ran>>

-----------------------------------------------------------------------------
(* The handler of a connection.                                            *)

\* The first packet.  A session that is found and whose shell runs is joined at
\* once; one whose shell has exited is closed before a new one is created.
Open(c, s) ==
  /\ At(c, "idle")
  /\ IF ~Found(c, s)
       THEN GoTo(c, "create") /\ UNCHANGED <<table, state>>
     ELSE IF Exited(s)
       THEN Pop(c, s, TRUE) /\ UNCHANGED state
     ELSE /\ state' = [state EXCEPT ![s].clients = @ \cup {c}]
          /\ act' = [act EXCEPT ![c].at = "serve", ![c].sess = s]
          /\ UNCHANGED table
  /\ UNCHANGED <<machine, reader, cancelled, watch, open, status, history>>

\* openpty takes the lowest descriptor that is free.
FreeDescriptor(d) == ptyOf[d] = None /\ \A e \in Descriptors : e < d => ptyOf[e] # None

\* Mutant: a shell that could not be started is not noticed.
PopenUnchecked(s) == proc' \in {proc, [proc EXCEPT ![s] = "run"]}
Popen(s) == proc' = [proc EXCEPT ![s] = "run"]

\* The server row, command and directory are awaited before; then the terminal,
\* the shell, the dict, the reader task and the client come without a break.
Create(c) ==
  /\ At(c, "create")
  /\ \/ GoTo(c, "done") /\ UNCHANGED <<table, state, machine, reader>>
     \/ \E s \in Sessions, d \in Descriptors :
          /\ proc[s] = "unborn"
          /\ FreeDescriptor(d)
          /\ ptyOf' = [ptyOf EXCEPT ![d] = s]
          /\ Popen(s)
          /\ state' = [state EXCEPT ![s] = [owner |-> UserOf[c], fd |-> d,
                                           clients |-> {c}, foreground |-> None]]
          /\ table' = table \cup {s}
          /\ reader' = [reader EXCEPT ![s] = "start"]
          /\ UNCHANGED threads
          /\ act' = [act EXCEPT ![c].at = "serve", ![c].sess = s]
  /\ UNCHANGED <<cancelled, watch, open, status, history>>

\* finally: the client is taken off the session, if there still is one.
Detached(c) == IF Mine(c) \in table
                 THEN [state EXCEPT ![Mine(c)].clients = @ \ {c}] ELSE state

\* The page is refreshed or the network fails: at first only sends can tell.
Drop(c) ==
  /\ act[c].at \in {"serve", "typing", "pending"}
  /\ open' = open \ {c}
  /\ UNCHANGED <<table, state, machine, reader, cancelled, tasks, status, history>>

\* Mutant: the end of a connection closes its session.
DisconnectCloses(c) ==
  /\ At(c, "serve") /\ c \notin open
  /\ state' = Detached(c)
  /\ IF Mine(c) \in table THEN Pop(c, Mine(c), FALSE) ELSE GoTo(c, "done") /\ UNCHANGED table
  /\ UNCHANGED <<machine, reader, cancelled, watch, open, status, history>>

\* receive_json raises on a closed connection: WebSocketDisconnect.
Disconnect(c) ==
  /\ At(c, "serve") /\ c \notin open
  /\ state' = Detached(c)
  /\ GoTo(c, "done")
  /\ UNCHANGED <<table, machine, reader, cancelled, watch, open, status, history>>

\* Every message looks the session up first.
Present(c) == At(c, "serve") /\ c \in open /\ Mine(c) \in table

Closed(c) ==
  /\ At(c, "serve") /\ c \in open /\ Mine(c) \notin table
  /\ GoTo(c, "done")
  /\ UNCHANGED <<table, state, machine, reader, cancelled, watch, open, status, history>>

Close(c) ==
  /\ Present(c)
  /\ state' = Detached(c)
  /\ Pop(c, Mine(c), FALSE)
  /\ asked' = asked \cup {Mine(c)}
  /\ UNCHANGED <<machine, reader, cancelled, watch, open, status, ran>>

\* run_foreground: cd and conda are typed and followed by a sleep ...
RunForeground(c, p) ==
  /\ Present(c)
  /\ act' = [act EXCEPT ![c].at = "typing", ![c].proj = p]
  /\ UNCHANGED <<table, state, machine, reader, cancelled, watch, open, status, history>>

\* ... the command is typed on the descriptor read before the sleep.  OSError
\* ends the handler when that descriptor is no longer open.
Type(c) ==
  LET s == Mine(c)
      d == state[s].fd
  IN  /\ At(c, "typing")
      /\ IF ptyOf[d] = None
           THEN state' = Detached(c) /\ GoTo(c, "done") /\ UNCHANGED ran
           ELSE /\ state' = IF s \in table
                             THEN [state EXCEPT ![s].foreground = act[c].proj] ELSE state
                /\ GoTo(c, "pending")
                /\ ran' = [ran EXCEPT ![ptyOf[d]] = @ \cup {act[c].proj}]
      /\ UNCHANGED <<table, machine, reader, cancelled, watch, open, status, asked>>

\* The pending message is sent; then the watcher task is created and tracked, in
\* the session's dict if the session still is there.
Tracked(c) == Mine(c) \in table
Pending(c) ==
  /\ At(c, "pending")
  /\ IF c \notin open
       THEN state' = Detached(c) /\ GoTo(c, "done") /\ UNCHANGED watch
       ELSE /\ \E w \in Watchers :
                 /\ watch[w].at = "free"
                 /\ watch' = [watch EXCEPT ![w] =
                      [at |-> "probe", sess |-> Mine(c), proj |-> act[c].proj,
                       tracked |-> Tracked(c), cancelled |-> FALSE]]
            /\ GoTo(c, "serve") /\ UNCHANGED state
  /\ UNCHANGED <<table, machine, reader, cancelled, open, status, history>>

-----------------------------------------------------------------------------
(* _watch_foreground_port_ready.                                           *)

WatchGoes(w, from, to) ==
  /\ watch[w].at = from /\ ~watch[w].cancelled
  /\ watch' = [watch EXCEPT ![w].at = to]

\* The script finds a listener within 30 seconds and the files of the project's
\* runtime directory are written; or it does not.
Probe(w) ==
  /\ \E next \in {"mark", "ended"} : WatchGoes(w, "probe", next)
  /\ UNCHANGED <<table, state, machine, reader, cancelled, act, open, status, history>>

MarkRunning(w) ==
  /\ WatchGoes(w, "mark", "bind")
  /\ status' = [status EXCEPT ![watch[w].proj] = 1]
  /\ UNCHANGED <<table, state, machine, reader, cancelled, act, open, history>>

SetForeground(w) ==
  /\ WatchGoes(w, "bind", "ended")
  /\ state' = IF watch[w].sess \in table
                THEN [state EXCEPT ![watch[w].sess].foreground = watch[w].proj] ELSE state
  /\ UNCHANGED <<table, machine, reader, cancelled, act, open, status, history>>

\* CancelledError ends the task at the await it is in.
WatchCancelled(w) ==
  /\ watch[w].cancelled /\ watch[w].at # "ended"
  /\ watch' = [watch EXCEPT ![w].at = "ended"]
  /\ UNCHANGED <<table, state, machine, reader, cancelled, act, open, status, history>>

-----------------------------------------------------------------------------
(* _ws_terminal_reader_loop, and the shell behind the terminal.            *)

ReaderGoes(s, from, to) ==
  /\ reader[s] = from /\ s \notin cancelled
  /\ reader' = [reader EXCEPT ![s] = to]

\* The top of the loop looks the session up before the next select.
\* Mutant: the reader goes on while somebody is connected.
TurnWhileWatched(s) ==
  IF s \in table /\ state[s].clients # {} THEN "select" ELSE "ended"
Turn(s) == IF s \in table THEN "select" ELSE "ended"
ReadTurn(s) ==
  /\ ReaderGoes(s, "start", Turn(s))
  /\ UNCHANGED <<table, state, machine, cancelled, tasks, open, status, history>>

\* Nothing to read, output to read, or the end of a terminal nobody holds.
Select(s) ==
  /\ \/ ReaderGoes(s, "select", IF Exited(s) THEN "ended" ELSE Turn(s))
     \/ ReaderGoes(s, "select", IF s \in table THEN "send" ELSE Turn(s))
     \/ proc[s] \in {"closing", "dead"} /\ ReaderGoes(s, "select", "ended")
  /\ UNCHANGED <<table, state, machine, cancelled, tasks, open, status, history>>

\* The output goes to every client; those that failed are forgotten.
Broadcast(s) ==
  /\ ReaderGoes(s, "send", Turn(s))
  /\ \E failed \in SUBSET (state[s].clients \ open) :
       state' = IF s \in table THEN [state EXCEPT ![s].clients = @ \ failed] ELSE state
  /\ UNCHANGED <<table, machine, cancelled, tasks, open, status, history>>

\* CancelledError ends the task, not the thread that to_thread has started: that
\* one stays in select() on the descriptor until its 0.2 seconds are over.
ReaderCancelled(s) ==
  /\ s \in cancelled /\ Reading(s)
  /\ reader' = [reader EXCEPT ![s] = "ended"]
  /\ threads' \in {threads} \cup IF reader[s] = "select" THEN {threads \cup {s}} ELSE {}
  /\ UNCHANGED <<table, state, proc, ptyOf, cancelled, tasks, open, status, history>>

\* What select returned, or raised on a descriptor that was closed, goes nowhere.
ThreadReturns(s) ==
  /\ s \in threads
  /\ threads' = threads \ {s}
  /\ UNCHANGED <<table, state, proc, ptyOf, reader, cancelled, tasks, open, status, history>>

\* A shell that ends lets go of its terminal first, then can be waited for.
ShellEnds(s) ==
  /\ \/ proc[s] = "run" /\ proc' = [proc EXCEPT ![s] = "closing"]
     \/ proc[s] \in {"closing", "signalled"} /\ proc' = [proc EXCEPT ![s] = "dead"]
  /\ UNCHANGED <<table, state, reader, cancelled, ptyOf, threads, tasks, open, status, history>>

-----------------------------------------------------------------------------
Closer(a) == Notify(a) \/ Cancel(a) \/ Reap(a) \/ MarkStopped(a)

Handle(c) ==
  \/ \E s \in Sessions \cup {None} : Open(c, s)
  \/ Create(c) \/ Drop(c) \/ Disconnect(c) \/ Closed(c) \/ Close(c)
  \/ \E p \in Projects : RunForeground(c, p)
  \/ Type(c) \/ Pending(c)

Watch(w) == Probe(w) \/ MarkRunning(w) \/ SetForeground(w) \/ WatchCancelled(w)
Reader(s) == ReadTurn(s) \/ Select(s) \/ Broadcast(s) \/ ReaderCancelled(s)

Next ==
  \/ \E a \in Actors : Closer(a)
  \/ \E c \in Conns : Handle(c)
  \/ \E h \in Closers, s \in Sessions : CloseCall(h, s)
  \/ \E w \in Watchers : Watch(w)
  \/ \E s \in Sessions : Reader(s) \/ ThreadReturns(s) \/ ShellEnds(s)

\* The event loop runs every task that is ready, and the keepalive pings of the
\* server end a send that nobody reads.  Users and shells owe nothing.
Fairness ==
  /\ \A a \in Actors : WF_vars(Closer(a))
  /\ \A w \in Watchers : WF_vars(Watch(w))
  /\ \A s \in Sessions : WF_vars(Reader(s)) /\ WF_vars(ThreadReturns(s))

Spec == Init /\ [][Next]_vars /\ Fairness

-----------------------------------------------------------------------------
(* What the terminals promise.                                             *)

\* The descriptor that a session in the table holds, and that its reader task may
\* yet read from, is that session's terminal: it is never closed under either, nor
\* closed twice, which would close what openpty handed to a later session.  Only
\* the thread of a cancelled reader may find its descriptor closed, or another
\* session's: no task waits for it any more, so nothing is read on its word.
DescriptorsOwned ==
  /\ \A s \in Sessions : s \in table \/ Reading(s) => ptyOf[state[s].fd] = s
  /\ \A s \in threads : s \notin table /\ ~Reading(s)

\* While the shell of a session has its terminal the reader task lives, whatever
\* the browsers do, so output never blocks and a page that comes back sees it.
ReaderKeepsReading == \A s \in table : proc[s] = "run" => Reading(s)

\* Only a user who asks for it ends a shell: a refresh, a lost connection or a
\* connection that comes back never sends the signal.
RefreshSparesShell == \A s \in Sessions : proc[s] = "signalled" => s \in asked

Released(s) ==
  /\ proc[s] # "unborn" /\ s \notin table
  /\ \A a \in Actors : Mine(a) = s => act[a].at \notin Closing

\* A project that only one session ever ran, and that session nothing else, is
\* not left marked running when the session is closed: the watchers it tracks
\* cannot outrun the mark.  Watchers it does not track are another matter.
ClosedIsStopped ==
  \A s \in Sessions, p \in Projects :
    /\ Released(s)
    /\ ran[s] = {p} /\ \A t \in Sessions \ {s} : p \notin ran[t]
    /\ \A w \in Watchers : watch[w].proj = p => watch[w].tracked
    /\ \E w \in Watchers : watch[w].sess = s
    => status[p] = 0

\* A session that left the table gives its descriptor back, with its reader and the
\* reader's thread gone and its shell signalled or dead.
ClosedIsReleased ==
  \A s \in Sessions :
    (s \notin table /\ state[s].fd # None)
      ~> (~Reading(s) /\ s \notin threads /\ (\A d \in Descriptors : ptyOf[d] # s)
            /\ proc[s] \in {"signalled", "dead"})
=============================================================================
