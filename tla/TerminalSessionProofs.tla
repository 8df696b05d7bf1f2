------------------------ MODULE TerminalSessionProofs ------------------------
(***************************************************************************)
(* The WebSocket terminals, for any sessions, connections, watchers and    *)
(* descriptors: a descriptor is closed once and by its own session, output *)
(* is always read, only a request to close ends a shell, and a session     *)
(* that was closed leaves nothing marked running.                          *)
(***************************************************************************)
EXTENDS TerminalSession, TLAPS

Born(s) == proc[s] # "unborn"

\* A handler that works on a session works on one that was made.
ActorInv(a) ==
  /\ act[a].at \in {"serve", "typing", "pending"} \cup Closing =>
       Mine(a) \in Sessions /\ Born(Mine(a))
  /\ act[a].at \in {"typing", "pending"} => act[a].proj \in Projects
  /\ act[a].at \in Closing => Mine(a) \notin table
  /\ act[a].at \in {"notify", "reap"} => Mine(a) \in asked \/ Exited(Mine(a))
  /\ At(a, "pending") /\ Mine(a) \in table =>
       act[a].proj \in ran[Mine(a)] /\ state[Mine(a)].foreground # None

\* One handler at most closes a session.
OneCloser ==
  \A a, b \in Actors :
    act[a].at \in {"notify", "reap"} /\ act[b].at \in {"notify", "reap"}
      /\ Mine(a) = Mine(b) => a = b

\* A watcher that nobody tracks belongs to a session that is gone; the project of
\* one that is tracked was run in its session.
WatchInv(w) ==
  IF watch[w].at = "free" THEN watch[w].proj = None /\ ~watch[w].tracked /\ ~watch[w].cancelled
  ELSE /\ watch[w].sess \in Sessions /\ Born(watch[w].sess) /\ watch[w].proj \in Projects
       /\ ~watch[w].tracked => watch[w].sess \notin table
       /\ watch[w].tracked => /\ watch[w].proj \in ran[watch[w].sess]
                              /\ state[watch[w].sess].foreground # None

SessionInv(s) ==
  /\ ~Born(s) => s \notin table /\ reader[s] = "unborn" /\ s \notin cancelled
  /\ s \in cancelled => s \notin table
  /\ state[s].foreground # None => state[s].foreground \in ran[s]

\* Whoever may still use the descriptor of a session.
InUse(s) ==
  \/ s \in table \/ Reading(s)
  \/ \E a \in Actors : act[a].at \in {"notify", "reap"} /\ Mine(a) = s

Held(s) == InUse(s) => state[s].fd \in Descriptors /\ ptyOf[state[s].fd] = s

\* When nobody is left to be told of the end, the tracked watchers are stopped.
Quiet(s) ==
  Born(s) /\ s \notin table /\ (\A a \in Actors : Mine(a) = s => ~At(a, "notify")) =>
    \A w \in Watchers :
      watch[w].sess = s /\ watch[w].tracked => watch[w].cancelled \/ watch[w].at = "ended"

\* Only a watcher marks a project as running.
Marked ==
  \A p \in Projects : status[p] = 1 =>
    \E w \in Watchers : watch[w].proj = p /\ watch[w].at \in {"bind", "ended"}

\* Only session s ever ran project p, and nothing else, and all is tracked.
RanAlone(s, p) ==
  /\ ran[s] = {p} /\ \A t \in Sessions \ {s} : p \notin ran[t]
  /\ \A w \in Watchers : watch[w].proj = p => watch[w].tracked

Stopped == \A s \in Sessions, p \in Projects : Released(s) /\ RanAlone(s, p) => status[p] = 0

\* The thread of a reader outlives it only when the session is out of the table.
Lingering == \A s \in threads : s \notin table /\ reader[s] = "ended"

Core ==
  /\ TypeOK /\ OneCloser
  /\ \A a \in Actors : ActorInv(a)
  /\ \A w \in Watchers : WatchInv(w)
  /\ \A s \in Sessions : SessionInv(s) /\ Held(s) /\ Quiet(s)
  /\ ReaderKeepsReading /\ RefreshSparesShell /\ Marked

IInv == Core /\ Stopped /\ Lingering

-----------------------------------------------------------------------------
(* Types.                                                                  *)

\* The terminals start with nothing open.
LEMMA InitInv == Init => IInv
<1> SUFFICES ASSUME Init PROVE IInv
  OBVIOUS
<1>1. TypeOK
  BY DEF Init, TypeOK, State, Handler, Watcher
<1>2. OneCloser /\ \A a \in Actors : ActorInv(a)
  BY DEF Init, OneCloser, ActorInv, Closing, At
<1>3. \A w \in Watchers : WatchInv(w)
  BY DEF Init, WatchInv
<1>4. \A s \in Sessions : SessionInv(s) /\ Held(s) /\ Quiet(s)
  BY DEF Init, SessionInv, Held, InUse, Quiet, Born, Reading
<1>5. ReaderKeepsReading /\ RefreshSparesShell /\ Marked /\ Stopped /\ Lingering
  BY DEF Init, Lingering, ReaderKeepsReading, RefreshSparesShell, Marked, Stopped, Released
<1> QED BY <1>1, <1>2, <1>3, <1>4, <1>5 DEF IInv, Core

-----------------------------------------------------------------------------
(* What each action does, point by point.                                  *)

\* Apart from who is connected, the sessions are as they were.
SameDicts ==
  \A s \in Sessions : state'[s].fd = state[s].fd /\ state'[s].foreground = state[s].foreground

\* Handler a goes on with these fields, and no other handler moves.
Becomes(a, label, s, p) ==
  /\ act'[a].at = label /\ act'[a].sess = s /\ act'[a].proj = p
  /\ \A b \in Actors \ {a} : act'[b] = act[b]

\* Writing the clients of one session leaves descriptors and foregrounds alone.
LEMMA ClientsChange ==
  ASSUME TypeOK, NEW s \in Sessions, NEW X \in SUBSET Conns,
         state' = [state EXCEPT ![s].clients = X]
  PROVE  /\ state' \in [Sessions -> State] /\ SameDicts
         /\ \A t \in Sessions : state'[t].owner = state[t].owner
<1>1. state[s] \in State  BY DEF TypeOK
<1>2. [state[s] EXCEPT !.clients = X] \in State  BY <1>1 DEF State
<1>3. state' \in [Sessions -> State]  BY <1>2 DEF TypeOK
<1>4. \A t \in Sessions : state'[t] = IF t = s THEN [state[s] EXCEPT !.clients = X] ELSE state[t]
  BY DEF TypeOK
<1> QED BY <1>1, <1>3, <1>4 DEF State, SameDicts

\* Writing the foreground of one session leaves all else in its dict alone.
LEMMA ForegroundChange ==
  ASSUME TypeOK, NEW s \in Sessions, NEW p \in Projects,
         state' = [state EXCEPT ![s].foreground = p]
  PROVE  /\ state' \in [Sessions -> State] /\ state'[s].foreground = p
         /\ \A t \in Sessions : state'[t].owner = state[t].owner /\ state'[t].fd = state[t].fd
         /\ \A t \in Sessions \ {s} : state'[t] = state[t]
<1>1. state[s] \in State  BY DEF TypeOK
<1>2. [state[s] EXCEPT !.foreground = p] \in State  BY <1>1 DEF State
<1>3. state' \in [Sessions -> State]  BY <1>2 DEF TypeOK
<1>4. \A t \in Sessions : state'[t] = IF t = s THEN [state[s] EXCEPT !.foreground = p] ELSE state[t]
  BY DEF TypeOK
<1> QED BY <1>1, <1>3, <1>4 DEF State

Labels == {"idle", "create", "serve", "typing", "pending", "done"} \cup Closing

\* Moving one handler leaves the others where they are.
LEMMA ActChange ==
  ASSUME TypeOK, NEW a \in Actors, NEW v \in Handler, act' = [act EXCEPT ![a] = v]
  PROVE  act' \in [Actors -> Handler] /\ Becomes(a, v.at, v.sess, v.proj)
  BY DEF TypeOK, Becomes

\* GoTo changes where the handler is, and nothing else of it.
LEMMA GoToChange ==
  ASSUME TypeOK, NEW a \in Actors, NEW label \in Labels, GoTo(a, label)
  PROVE  act' \in [Actors -> Handler] /\ Becomes(a, label, Mine(a), act[a].proj)
<1>1. act[a] \in Handler  BY DEF TypeOK
<1>2. [act[a] EXCEPT !.at = label] \in Handler  BY <1>1 DEF Handler, Labels
<1>3. act' = [act EXCEPT ![a] = [act[a] EXCEPT !.at = label]]  BY DEF GoTo
<1> QED BY <1>1, <1>2, <1>3, ActChange DEF Mine, Handler

\* A closer that is through goes back to creating a session, or ends.
LEMMA FinishChange ==
  ASSUME TypeOK, NEW a \in Actors, Finish(a)
  PROVE  /\ act' \in [Actors -> Handler]
         /\ \E label \in {"create", "done"} : Becomes(a, label, Mine(a), act[a].proj)
<1>1. \E label \in {"create", "done"} : GoTo(a, label)  BY DEF Finish
<1> QED BY <1>1, GoToChange DEF Labels

\* Taking a session out of the table makes the handler its closer.
LEMMA PopChange ==
  ASSUME TypeOK, NEW a \in Actors, NEW s \in Sessions, NEW create \in BOOLEAN, Pop(a, s, create)
  PROVE  /\ act' \in [Actors -> Handler] /\ Becomes(a, "notify", s, act[a].proj)
         /\ table' = table \ {s}
<1>1. act[a] \in Handler  BY DEF TypeOK
<1>2. [[[act[a] EXCEPT !.at = "notify"] EXCEPT !.sess = s] EXCEPT !.create = create] \in Handler
  BY <1>1 DEF Handler, Closing
<1>3. act' = [act EXCEPT ![a] = [[[act[a] EXCEPT !.at = "notify"] EXCEPT !.sess = s]
                                   EXCEPT !.create = create]]
  BY DEF Pop, TypeOK
<1> QED BY <1>1, <1>2, <1>3, ActChange DEF Pop, Handler

\* A handler that joins or makes a session serves it.
LEMMA ServeChange ==
  ASSUME TypeOK, NEW a \in Actors, NEW s \in Sessions,
         act' = [act EXCEPT ![a].at = "serve", ![a].sess = s]
  PROVE  act' \in [Actors -> Handler] /\ Becomes(a, "serve", s, act[a].proj)
<1>1. act[a] \in Handler  BY DEF TypeOK
<1>2. [[act[a] EXCEPT !.at = "serve"] EXCEPT !.sess = s] \in Handler
  BY <1>1 DEF Handler
<1>3. act' = [act EXCEPT ![a] = [[act[a] EXCEPT !.at = "serve"] EXCEPT !.sess = s]]
  BY DEF TypeOK
<1> QED BY <1>1, <1>2, <1>3, ActChange DEF Handler

\* Taking a client off its session concerns the clients only.
LEMMA DetachedChange ==
  ASSUME TypeOK, NEW c \in Conns, Mine(c) \in Sessions, state' = Detached(c)
  PROVE  /\ state' \in [Sessions -> State] /\ SameDicts
         /\ \A t \in Sessions : state'[t].owner = state[t].owner
<1>1. CASE Mine(c) \in table
  <2>1. state[Mine(c)].clients \ {c} \in SUBSET Conns
    BY DEF TypeOK, State
  <2> QED BY <1>1, <2>1, ClientsChange DEF Detached
<1>2. CASE Mine(c) \notin table
  BY <1>2 DEF Detached, TypeOK, SameDicts
<1> QED BY <1>1, <1>2

\* Reading a message, closing the page and the network concern nothing else.
Rest(a) == /\ UNCHANGED <<table, proc, ptyOf, reader, cancelled, watch, status, asked, ran>>
           /\ SameDicts

\* Notify: a client is told of the end and forgotten.
LEMMA NotifyDoes ==
  ASSUME TypeOK, NEW a \in Actors, ActorInv(a), Notify(a)
  PROVE  TypeOK' /\ Rest(a) /\ UNCHANGED act
<1>1. Mine(a) \in Sessions  BY DEF Notify, ActorInv, At, Closing
<1>2. PICK c \in state[Mine(a)].clients :
        /\ state' = [state EXCEPT ![Mine(a)].clients = @ \ {c}] /\ open' = open \ {c}
  BY DEF Notify
<1>3. state[Mine(a)].clients \ {c} \in SUBSET Conns
  BY <1>1 DEF TypeOK, State
<1>4. /\ state' \in [Sessions -> State] /\ SameDicts
      /\ \A t \in Sessions : state'[t].owner = state[t].owner
  BY <1>1, <1>2, <1>3, ClientsChange
<1>5. UNCHANGED <<table, machine, reader, cancelled, tasks, status, history>>
  BY DEF Notify
<1>6. TypeOK'
  BY <1>2, <1>4, <1>5 DEF TypeOK, machine, tasks, history, SameDicts
<1> QED BY <1>4, <1>5, <1>6 DEF Rest, machine, tasks, history

\* Cancel: the tracked watchers and the reader are cancelled, nothing has ended yet.
LEMMA CancelDoes ==
  ASSUME TypeOK, NEW a \in Actors, ActorInv(a), Cancel(a)
  PROVE  /\ TypeOK' /\ At(a, "notify") /\ Becomes(a, "reap", Mine(a), act[a].proj)
         /\ UNCHANGED <<table, state, proc, ptyOf, reader, status, asked, ran>>
         /\ \A s \in Sessions : s \in cancelled' => s \in cancelled \/ s = Mine(a)
         /\ \A w \in Watchers :
              /\ watch'[w].at = watch[w].at /\ watch'[w].sess = watch[w].sess
              /\ watch'[w].proj = watch[w].proj /\ watch'[w].tracked = watch[w].tracked
              /\ watch'[w].cancelled <=> watch[w].cancelled \/ w \in Cancellable(Mine(a))
<1>1. Mine(a) \in Sessions  BY DEF Cancel, ActorInv, At, Closing
<1>2. /\ act' \in [Actors -> Handler] /\ Becomes(a, "reap", Mine(a), act[a].proj)
  BY GoToChange DEF Cancel, Labels, Closing
<1>3. ASSUME NEW w \in Watchers
      PROVE  watch[w] \in Watcher /\ [watch[w] EXCEPT !.cancelled = TRUE] \in Watcher
  <2>1. watch[w] \in Watcher  BY DEF TypeOK
  <2> QED BY <2>1 DEF Watcher
<1>4. watch' = [w \in Watchers |-> IF w \in Cancellable(Mine(a))
                                   THEN [watch[w] EXCEPT !.cancelled = TRUE] ELSE watch[w]]
  BY DEF Cancel
<1>5. watch' \in [Watchers -> Watcher]
  BY <1>3, <1>4
<1>6. \A w \in Watchers :
        /\ watch'[w].at = watch[w].at /\ watch'[w].sess = watch[w].sess
        /\ watch'[w].proj = watch[w].proj /\ watch'[w].tracked = watch[w].tracked
        /\ watch'[w].cancelled <=> watch[w].cancelled \/ w \in Cancellable(Mine(a))
  BY <1>3, <1>4 DEF Watcher
<1>7. /\ UNCHANGED <<table, state, machine, reader, open, status, history>> /\ At(a, "notify")
      /\ cancelled' \in {cancelled, cancelled \cup {Mine(a)}}
  BY DEF Cancel
<1>8. TypeOK'
  BY <1>1, <1>2, <1>5, <1>7 DEF TypeOK, machine, history
<1> QED BY <1>2, <1>6, <1>7, <1>8 DEF machine, history

\* Reap: the shell is signalled or was dead, and one descriptor changes hands.
LEMMA ReapDoes ==
  ASSUME TypeOK, NEW a \in Actors, ActorInv(a), Held(Mine(a)), Reap(a)
  PROVE  /\ TypeOK' /\ At(a, "reap") /\ ~Reading(Mine(a)) /\ Mine(a) \in Sessions
         /\ \/ state[Mine(a)].foreground # None /\ Becomes(a, "mark", Mine(a), act[a].proj)
            \/ /\ state[Mine(a)].foreground = None
               /\ \E label \in {"create", "done"} : Becomes(a, label, Mine(a), act[a].proj)
         /\ UNCHANGED <<table, state, reader, cancelled, watch, status, asked, ran>>
         /\ \A s \in Sessions : s # Mine(a) => proc'[s] = proc[s]
         /\ proc'[Mine(a)] = IF Exited(Mine(a)) THEN "dead" ELSE "signalled"
         /\ \A d \in Descriptors : d # state[Mine(a)].fd => ptyOf'[d] = ptyOf[d]
<1>1. Mine(a) \in Sessions  BY DEF Reap, ActorInv, At, Closing
<1>2. /\ act' \in [Actors -> Handler]
      /\ \/ state[Mine(a)].foreground # None /\ Becomes(a, "mark", Mine(a), act[a].proj)
         \/ /\ state[Mine(a)].foreground = None
            /\ \E label \in {"create", "done"} : Becomes(a, label, Mine(a), act[a].proj)
  BY GoToChange, FinishChange DEF Reap, Labels, Closing
<1>3. /\ proc' \in [Sessions -> {"unborn", "run", "closing", "signalled", "dead"}]
      /\ \A s \in Sessions : s # Mine(a) => proc'[s] = proc[s]
      /\ proc'[Mine(a)] = IF Exited(Mine(a)) THEN "dead" ELSE "signalled"
  BY <1>1 DEF TypeOK, Reap, Exited
<1>4. /\ ptyOf' \in [Descriptors -> Sessions \cup {None}]
      /\ \A d \in Descriptors : d # state[Mine(a)].fd => ptyOf'[d] = ptyOf[d]
  BY DEF Reap, CloseMaster, TypeOK
<1>5. /\ UNCHANGED <<table, state, threads, reader, cancelled, watch, open, status, history>>
      /\ At(a, "reap") /\ ~Reading(Mine(a))
  BY DEF Reap, ReaderAwaited
<1>6. TypeOK'
  BY <1>1, <1>2, <1>3, <1>4, <1>5 DEF TypeOK, history
<1> QED BY <1>1, <1>2, <1>3, <1>4, <1>5, <1>6 DEF history

\* MarkStopped: the foreground project is marked, whatever it was.
LEMMA MarkStoppedDoes ==
  ASSUME TypeOK, NEW a \in Actors, ActorInv(a), MarkStopped(a)
  PROVE  /\ TypeOK' /\ At(a, "mark") /\ Mine(a) \in Sessions
         /\ \E label \in {"create", "done"} : Becomes(a, label, Mine(a), act[a].proj)
         /\ UNCHANGED <<table, state, proc, ptyOf, reader, cancelled, watch, asked, ran>>
         /\ \A p \in Projects :
              status'[p] = IF p = state[Mine(a)].foreground THEN 0 ELSE status[p]
<1>1. Mine(a) \in Sessions  BY DEF MarkStopped, ActorInv, At, Closing
<1>2. /\ act' \in [Actors -> Handler]
      /\ \E label \in {"create", "done"} : Becomes(a, label, Mine(a), act[a].proj)
  BY FinishChange DEF MarkStopped
<1>3. /\ status' \in [Projects -> {0, 1}]
      /\ \A p \in Projects :
           status'[p] = IF p = state[Mine(a)].foreground THEN 0 ELSE status[p]
  BY DEF MarkStopped, TypeOK
<1>4. UNCHANGED <<table, state, machine, reader, cancelled, watch, open, history>> /\ At(a, "mark")
  BY DEF MarkStopped
<1> QED BY <1>1, <1>2, <1>3, <1>4 DEF TypeOK, machine, history

\* What a request to close, a message to close and a join find and do.
Pops(a, s, label, new) ==
  /\ s \in table /\ table' = table \ {s} /\ Becomes(a, "notify", s, act[a].proj)
  /\ At(a, label) /\ asked' = new
  /\ UNCHANGED <<proc, ptyOf, reader, cancelled, watch, status, ran>> /\ SameDicts

\* CloseCall: the session is taken out of the table, or the call ends.
LEMMA CloseCallDoes ==
  ASSUME TypeOK, NEW a \in Closers, NEW s \in Sessions, CloseCall(a, s)
  PROVE  /\ TypeOK'
         /\ \/ Pops(a, s, "idle", asked \cup {s})
            \/ At(a, "idle") /\ Becomes(a, "done", Mine(a), act[a].proj) /\ Rest(a)
<1>1. a \in Actors  BY DEF Actors
<1>2. UNCHANGED <<state, machine, reader, cancelled, watch, open, status, ran>> /\ At(a, "idle")
  BY DEF CloseCall
<1>3. CASE Found(a, s)
  <2>1. Pop(a, s, FALSE) /\ asked' = asked \cup {s} /\ s \in table
    BY <1>3 DEF CloseCall, Found
  <2>2. /\ act' \in [Actors -> Handler] /\ Becomes(a, "notify", s, act[a].proj)
        /\ table' = table \ {s}
    BY <2>1, <1>1, PopChange
  <2> QED BY <1>2, <2>1, <2>2 DEF TypeOK, Pops, machine, SameDicts
<1>4. CASE ~Found(a, s)
  <2>1. GoTo(a, "done") /\ UNCHANGED <<table, asked>>
    BY <1>4 DEF CloseCall
  <2>2. act' \in [Actors -> Handler] /\ Becomes(a, "done", Mine(a), act[a].proj)
    BY <2>1, <1>1, GoToChange DEF Labels
  <2> QED BY <1>2, <2>1, <2>2 DEF TypeOK, Rest, machine, SameDicts
<1> QED BY <1>3, <1>4

\* Open: a new session is wanted, a dead one is closed first, or a live one is joined.
LEMMA OpenDoes ==
  ASSUME TypeOK, NEW c \in Conns, NEW s \in Sessions \cup {None}, Open(c, s)
  PROVE  /\ TypeOK'
         /\ \/ At(c, "idle") /\ Becomes(c, "create", Mine(c), act[c].proj) /\ Rest(c)
            \/ s \in Sessions /\ Exited(s) /\ Pops(c, s, "idle", asked)
            \/ /\ At(c, "idle") /\ s \in table /\ Becomes(c, "serve", s, act[c].proj) /\ Rest(c)
<1>1. c \in Actors  BY DEF Actors
<1>2. UNCHANGED <<machine, reader, cancelled, watch, open, status, history>> /\ At(c, "idle")
  BY DEF Open
<1>3. CASE ~Found(c, s)
  <2>1. GoTo(c, "create") /\ UNCHANGED <<table, state>>
    BY <1>3 DEF Open
  <2>2. act' \in [Actors -> Handler] /\ Becomes(c, "create", Mine(c), act[c].proj)
    BY <2>1, <1>1, GoToChange DEF Labels
  <2> QED BY <1>2, <2>1, <2>2 DEF TypeOK, Rest, machine, history, SameDicts
<1>4. CASE Found(c, s) /\ Exited(s)
  <2>1. Pop(c, s, TRUE) /\ UNCHANGED state /\ s \in table /\ s \in Sessions
    BY <1>4 DEF Open, Found, TypeOK
  <2>2. /\ act' \in [Actors -> Handler] /\ Becomes(c, "notify", s, act[c].proj)
        /\ table' = table \ {s}
    BY <2>1, <1>1, PopChange
  <2> QED BY <1>2, <1>4, <2>1, <2>2 DEF TypeOK, Pops, machine, history, SameDicts
<1>5. CASE Found(c, s) /\ ~Exited(s)
  <2>1. /\ state' = [state EXCEPT ![s].clients = @ \cup {c}]
        /\ act' = [act EXCEPT ![c].at = "serve", ![c].sess = s]
        /\ UNCHANGED table /\ s \in table /\ s \in Sessions
    BY <1>5 DEF Open, Found, TypeOK
  <2>2. state[s].clients \cup {c} \in SUBSET Conns
    BY <2>1 DEF TypeOK, State
  <2>3. /\ state' \in [Sessions -> State] /\ SameDicts
        /\ \A t \in Sessions : state'[t].owner = state[t].owner
    BY <2>1, <2>2, ClientsChange
  <2>4. act' \in [Actors -> Handler] /\ Becomes(c, "serve", s, act[c].proj)
    BY <2>1, <1>1, ServeChange
  <2> QED BY <1>2, <2>1, <2>3, <2>4 DEF TypeOK, Rest, machine, history, SameDicts
<1> QED BY <1>3, <1>4, <1>5

\* Session s is made with its terminal on descriptor d.
Makes(c, s, d) ==
  /\ proc[s] = "unborn" /\ FreeDescriptor(d)
  /\ ptyOf' = [ptyOf EXCEPT ![d] = s] /\ Popen(s) /\ UNCHANGED threads
  /\ state' = [state EXCEPT ![s] = [owner |-> UserOf[c], fd |-> d,
                                    clients |-> {c}, foreground |-> None]]
  /\ table' = table \cup {s} /\ reader' = [reader EXCEPT ![s] = "start"]
  /\ act' = [act EXCEPT ![c].at = "serve", ![c].sess = s]

\* Create: a session is made on a free descriptor, or the handler ends.
LEMMA CreateDoes ==
  ASSUME TypeOK, NEW c \in Conns, \A s \in Sessions : SessionInv(s), Create(c)
  PROVE  /\ TypeOK' /\ At(c, "create") /\ UNCHANGED <<cancelled, watch, status, asked, ran>>
         /\ \/ Becomes(c, "done", Mine(c), act[c].proj) /\ Rest(c)
            \/ \E s \in Sessions, d \in Descriptors :
                 /\ ~Born(s) /\ ptyOf[d] = None
                 /\ Becomes(c, "serve", s, act[c].proj)
                 /\ table' = table \cup {s}
                 /\ ptyOf'[d] = s /\ \A e \in Descriptors \ {d} : ptyOf'[e] = ptyOf[e]
                 /\ state'[s].fd = d /\ state'[s].foreground = None
                 /\ proc'[s] = "run" /\ reader'[s] = "start"
                 /\ \A t \in Sessions \ {s} : /\ state'[t] = state[t] /\ proc'[t] = proc[t]
                                              /\ reader'[t] = reader[t]
<1>1. c \in Actors  BY DEF Actors
<1>2. UNCHANGED <<cancelled, watch, open, status, history>> /\ At(c, "create")
  BY DEF Create
<1>3. CASE GoTo(c, "done") /\ UNCHANGED <<table, state, machine, reader>>
  <2>1. act' \in [Actors -> Handler] /\ Becomes(c, "done", Mine(c), act[c].proj)
    BY <1>1, <1>3, GoToChange DEF Labels
  <2> QED BY <1>2, <1>3, <2>1 DEF TypeOK, Rest, machine, history, SameDicts
<1>4. ASSUME NEW s \in Sessions, NEW d \in Descriptors, Makes(c, s, d)
      PROVE  /\ TypeOK' /\ ~Born(s) /\ ptyOf[d] = None /\ table' = table \cup {s}
             /\ Becomes(c, "serve", s, act[c].proj)
             /\ ptyOf'[d] = s /\ \A e \in Descriptors \ {d} : ptyOf'[e] = ptyOf[e]
             /\ state'[s].fd = d /\ state'[s].foreground = None
             /\ proc'[s] = "run" /\ reader'[s] = "start"
             /\ \A t \in Sessions \ {s} : /\ state'[t] = state[t] /\ proc'[t] = proc[t]
                                          /\ reader'[t] = reader[t]
  <2> DEFINE v == [owner |-> UserOf[c], fd |-> d, clients |-> {c}, foreground |-> None]
  <2>1. act' \in [Actors -> Handler] /\ Becomes(c, "serve", s, act[c].proj)
    BY <1>1, <1>4, ServeChange DEF Makes
  <2>2. v \in State /\ v.owner # None /\ v.fd # None
    BY <1>1, TerminalConstants DEF State
  <2>3. /\ v.fd = d /\ v.foreground = None  OBVIOUS
  <2>4. state' = [state EXCEPT ![s] = v] /\ table' = table \cup {s} /\ UNCHANGED threads
    BY <1>4 DEF Makes
  <2> HIDE DEF v
  <2>5. state' \in [Sessions -> State] /\ state'[s] = v /\ \A t \in Sessions \ {s} : state'[t] = state[t]
    BY <2>2, <2>4 DEF TypeOK
  <2>6. /\ ptyOf' \in [Descriptors -> Sessions \cup {None}]
        /\ ptyOf'[d] = s /\ \A e \in Descriptors \ {d} : ptyOf'[e] = ptyOf[e]
    BY <1>4 DEF TypeOK, Makes
  <2>7. /\ proc' \in [Sessions -> {"unborn", "run", "closing", "signalled", "dead"}]
        /\ proc'[s] = "run" /\ \A t \in Sessions \ {s} : proc'[t] = proc[t]
    BY <1>4 DEF TypeOK, Popen, Makes
  <2>8. /\ reader' \in [Sessions -> {"unborn", "start", "select", "send", "ended"}]
        /\ reader'[s] = "start" /\ \A t \in Sessions \ {s} : reader'[t] = reader[t]
    BY <1>4 DEF TypeOK, Makes
  <2>9. ~Born(s) /\ ptyOf[d] = None  BY <1>4 DEF Born, FreeDescriptor, Makes
  <2>10. \A t \in table' : proc'[t] # "unborn" /\ state'[t].fd # None /\ state'[t].owner # None
    BY <2>2, <2>4, <2>5, <2>7 DEF TypeOK
  <2>11. TypeOK'
    BY <1>2, <2>1, <2>4, <2>5, <2>6, <2>7, <2>8, <2>10 DEF TypeOK, history
  <2> QED BY <2>1, <2>2, <2>3, <2>4, <2>5, <2>6, <2>7, <2>8, <2>9, <2>11
<1>5. CASE ~(GoTo(c, "done") /\ UNCHANGED <<table, state, machine, reader>>)
  <2>1. PICK s \in Sessions, d \in Descriptors : Makes(c, s, d)
    BY <1>5 DEF Create, Makes
  <2> QED BY <1>2, <1>4, <2>1 DEF history
<1> QED BY <1>3, <1>5, <1>2 DEF history

\* The end of a connection, or of its handler.
LEMMA LeaveDoes ==
  ASSUME TypeOK, NEW c \in Conns, ActorInv(c), Drop(c) \/ Disconnect(c) \/ Closed(c)
  PROVE  /\ TypeOK' /\ Rest(c)
         /\ \/ act' = act
            \/ At(c, "serve") /\ Becomes(c, "done", Mine(c), act[c].proj)
<1>1. c \in Actors  BY DEF Actors
<1>2. CASE Drop(c)
  <2>1. /\ UNCHANGED <<table, state, machine, reader, cancelled, tasks, status, history>>
        /\ open' = open \ {c}
    BY <1>2 DEF Drop
  <2>2. TypeOK'  BY <2>1 DEF TypeOK, machine, tasks, history
  <2>3. SameDicts /\ act' = act  BY <2>1 DEF SameDicts, tasks
  <2> QED BY <2>1, <2>2, <2>3 DEF Rest, machine, tasks, history
<1>3. CASE Disconnect(c)
  <2>1. Mine(c) \in Sessions  BY <1>3 DEF Disconnect, ActorInv, At
  <2>2. act' \in [Actors -> Handler] /\ Becomes(c, "done", Mine(c), act[c].proj)
    BY <1>1, <1>3, GoToChange DEF Labels, Disconnect
  <2>3. /\ state' \in [Sessions -> State] /\ SameDicts
        /\ \A t \in Sessions : state'[t].owner = state[t].owner
    BY <1>3, <2>1, DetachedChange DEF Disconnect
  <2>4. /\ UNCHANGED <<table, machine, reader, cancelled, watch, open, status, history>>
        /\ At(c, "serve")
    BY <1>3 DEF Disconnect
  <2>5. TypeOK'  BY <2>2, <2>3, <2>4 DEF TypeOK, machine, history, SameDicts
  <2> QED BY <2>2, <2>3, <2>4, <2>5 DEF Rest, machine, history
<1>4. CASE Closed(c)
  <2>1. act' \in [Actors -> Handler] /\ Becomes(c, "done", Mine(c), act[c].proj)
    BY <1>1, <1>4, GoToChange DEF Labels, Closed
  <2>2. /\ UNCHANGED <<table, state, machine, reader, cancelled, watch, open, status, history>>
        /\ At(c, "serve")
    BY <1>4 DEF Closed
  <2>3. TypeOK'  BY <2>1, <2>2 DEF TypeOK, machine, history
  <2> QED BY <2>1, <2>2, <2>3 DEF Rest, SameDicts, machine, history
<1> QED BY <1>2, <1>3, <1>4

\* Close: the session the handler serves is taken out of the table.
LEMMA CloseDoes ==
  ASSUME TypeOK, NEW c \in Conns, ActorInv(c), Close(c)
  PROVE  TypeOK' /\ Pops(c, Mine(c), "serve", asked \cup {Mine(c)})
<1>1. c \in Actors  BY DEF Actors
<1>2. At(c, "serve") /\ Mine(c) \in table /\ Mine(c) \in Sessions
  BY DEF Close, Present, ActorInv, At
<1>3. /\ state' \in [Sessions -> State] /\ SameDicts
      /\ \A t \in Sessions : state'[t].owner = state[t].owner
  BY <1>2, DetachedChange DEF Close
<1>4. /\ act' \in [Actors -> Handler] /\ Becomes(c, "notify", Mine(c), act[c].proj)
      /\ table' = table \ {Mine(c)}
  BY <1>1, <1>2, PopChange DEF Close
<1>5. asked' = asked \cup {Mine(c)} /\ UNCHANGED <<machine, reader, cancelled, watch, open, status, ran>>
  BY DEF Close
<1>6. TypeOK'
  BY <1>2, <1>3, <1>4, <1>5 DEF TypeOK, machine, SameDicts
<1> QED BY <1>2, <1>3, <1>4, <1>5, <1>6 DEF Pops, machine

\* RunForeground: the handler goes on to type, nothing else moves.
LEMMA RunForegroundDoes ==
  ASSUME TypeOK, NEW c \in Conns, NEW p \in Projects, RunForeground(c, p)
  PROVE  /\ TypeOK' /\ At(c, "serve") /\ Rest(c)
         /\ Becomes(c, "typing", Mine(c), p)
<1>1. c \in Actors /\ act[c] \in Handler  BY DEF Actors, TypeOK
<1>2. [[act[c] EXCEPT !.at = "typing"] EXCEPT !.proj = p] \in Handler
  BY <1>1 DEF Handler
<1>3. act' = [act EXCEPT ![c] = [[act[c] EXCEPT !.at = "typing"] EXCEPT !.proj = p]]
  BY <1>1 DEF RunForeground, TypeOK
<1>4. act' \in [Actors -> Handler] /\ Becomes(c, "typing", Mine(c), p)
  BY <1>1, <1>2, <1>3, ActChange DEF Handler, Mine
<1>5. UNCHANGED <<table, state, machine, reader, cancelled, watch, open, status, history>> /\ At(c, "serve")
  BY DEF RunForeground, Present
<1> QED BY <1>4, <1>5 DEF TypeOK, Rest, SameDicts, machine, history

\* The command is typed in the session that has the descriptor now.
LEMMA TypeDoes ==
  ASSUME TypeOK, NEW c \in Conns, ActorInv(c), Type(c), Held(Mine(c))
  PROVE  /\ TypeOK' /\ At(c, "typing")
         /\ UNCHANGED <<table, proc, ptyOf, reader, cancelled, watch, status, asked>>
         /\ \/ Becomes(c, "done", Mine(c), act[c].proj) /\ Rest(c)
            \/ /\ Becomes(c, "pending", Mine(c), act[c].proj)
               /\ \A s \in Sessions : /\ state'[s].fd = state[s].fd
                                      /\ ran[s] \subseteq ran'[s]
                                      /\ s # Mine(c) => state'[s].foreground = state[s].foreground
               /\ IF Mine(c) \in table
                    THEN act[c].proj \in ran'[Mine(c)] /\ state'[Mine(c)].foreground = act[c].proj
                    ELSE state' = state
<1>1. c \in Actors /\ At(c, "typing") /\ Mine(c) \in Sessions /\ act[c].proj \in Projects
  BY DEF Actors, Type, ActorInv, At
<1> DEFINE s == Mine(c)
           d == state[s].fd
<1>2. UNCHANGED <<table, machine, reader, cancelled, watch, open, status, asked>>
  BY DEF Type
<1>3. CASE ptyOf[d] = None
  <2>1. state' = Detached(c) /\ GoTo(c, "done") /\ UNCHANGED ran
    BY <1>3 DEF Type
  <2>2. act' \in [Actors -> Handler] /\ Becomes(c, "done", s, act[c].proj)
    BY <1>1, <2>1, GoToChange DEF Labels
  <2>3. /\ state' \in [Sessions -> State] /\ SameDicts
        /\ \A t \in Sessions : state'[t].owner = state[t].owner
    BY <1>1, <2>1, DetachedChange
  <2>4. TypeOK'  BY <1>2, <2>1, <2>2, <2>3 DEF TypeOK, machine, SameDicts
  <2> QED BY <1>1, <1>2, <2>1, <2>2, <2>3, <2>4 DEF Rest, machine
<1>4. CASE ptyOf[d] # None
  <2>1. /\ state' = IF s \in table THEN [state EXCEPT ![s].foreground = act[c].proj] ELSE state
        /\ GoTo(c, "pending")
        /\ ran' = [ran EXCEPT ![ptyOf[d]] = @ \cup {act[c].proj}]
    BY <1>4 DEF Type
  <2>2. act' \in [Actors -> Handler] /\ Becomes(c, "pending", s, act[c].proj)
    BY <1>1, <2>1, GoToChange DEF Labels
  <2>3. /\ ran' \in [Sessions -> SUBSET Projects]
        /\ \A t \in Sessions : ran[t] \subseteq ran'[t]
        /\ ptyOf[d] \in Sessions => act[c].proj \in ran'[ptyOf[d]]
    BY <1>1, <2>1 DEF TypeOK
  <2>4. CASE s \in table
    <3>1. ptyOf[d] = s  BY <2>4 DEF Held, InUse
    <3>2. /\ state' \in [Sessions -> State] /\ state'[s].foreground = act[c].proj
          /\ \A t \in Sessions : state'[t].owner = state[t].owner /\ state'[t].fd = state[t].fd
          /\ \A t \in Sessions \ {s} : state'[t] = state[t]
      BY <1>1, <2>1, <2>4, ForegroundChange
    <3>3. TypeOK'  BY <1>2, <2>2, <2>3, <3>2 DEF TypeOK, machine
    <3> QED BY <1>1, <1>2, <2>2, <2>3, <2>4, <3>1, <3>2, <3>3 DEF machine
  <2>5. CASE s \notin table
    <3>1. state' = state  BY <2>1, <2>5
    <3>2. TypeOK'  BY <1>2, <2>2, <2>3, <3>1 DEF TypeOK, machine
    <3> QED BY <1>1, <1>2, <2>2, <2>3, <2>5, <3>1, <3>2 DEF machine
  <2> QED BY <2>4, <2>5
<1> QED BY <1>3, <1>4

\* Pending: a watcher starts, tracked if the session is in the table, or the handler ends.
LEMMA PendingDoes ==
  ASSUME TypeOK, NEW c \in Conns, ActorInv(c), Pending(c)
  PROVE  /\ TypeOK' /\ At(c, "pending")
         /\ UNCHANGED <<table, proc, ptyOf, reader, cancelled, status, asked, ran>> /\ SameDicts
         /\ \/ Becomes(c, "done", Mine(c), act[c].proj) /\ UNCHANGED watch
            \/ /\ Becomes(c, "serve", Mine(c), act[c].proj)
               /\ \E w \in Watchers :
                    /\ watch[w].at = "free" /\ watch'[w].at = "probe"
                    /\ watch'[w].sess = Mine(c) /\ watch'[w].proj = act[c].proj
                    /\ watch'[w].tracked = (Mine(c) \in table)
                    /\ \A v \in Watchers \ {w} : watch'[v] = watch[v]
<1>1. c \in Actors /\ At(c, "pending") /\ Mine(c) \in Sessions /\ act[c].proj \in Projects
  BY DEF Actors, Pending, ActorInv, At
<1>2. UNCHANGED <<table, machine, reader, cancelled, open, status, history>>
  BY DEF Pending
<1>3. CASE c \notin open
  <2>1. state' = Detached(c) /\ GoTo(c, "done") /\ UNCHANGED watch
    BY <1>3 DEF Pending
  <2>2. act' \in [Actors -> Handler] /\ Becomes(c, "done", Mine(c), act[c].proj)
    BY <1>1, <2>1, GoToChange DEF Labels
  <2>3. /\ state' \in [Sessions -> State] /\ SameDicts
        /\ \A t \in Sessions : state'[t].owner = state[t].owner
    BY <1>1, <2>1, DetachedChange
  <2>4. TypeOK'  BY <1>2, <2>1, <2>2, <2>3 DEF TypeOK, machine, history, SameDicts
  <2> QED BY <1>1, <1>2, <2>1, <2>2, <2>3, <2>4 DEF machine, history
<1>4. CASE c \in open
  <2> DEFINE v == [at |-> "probe", sess |-> Mine(c), proj |-> act[c].proj,
                   tracked |-> Tracked(c), cancelled |-> FALSE]
  <2>1. PICK w \in Watchers : watch[w].at = "free" /\ watch' = [watch EXCEPT ![w] = v]
    BY <1>4 DEF Pending
  <2>2. GoTo(c, "serve") /\ UNCHANGED state
    BY <1>4 DEF Pending
  <2>3. act' \in [Actors -> Handler] /\ Becomes(c, "serve", Mine(c), act[c].proj)
    BY <1>1, <2>2, GoToChange DEF Labels
  <2>4. v \in Watcher  BY <1>1 DEF Watcher, Tracked
  <2>5. /\ v.at = "probe" /\ v.sess = Mine(c) /\ v.proj = act[c].proj
        /\ v.tracked = (Mine(c) \in table)
    BY DEF Tracked
  <2> HIDE DEF v
  <2>6. /\ watch' \in [Watchers -> Watcher] /\ watch'[w] = v
        /\ \A u \in Watchers \ {w} : watch'[u] = watch[u]
    BY <2>1, <2>4 DEF TypeOK
  <2>7. TypeOK'  BY <1>2, <2>2, <2>3, <2>6 DEF TypeOK, machine, history
  <2>8. SameDicts  BY <2>2 DEF SameDicts
  <2> QED BY <1>1, <1>2, <2>1, <2>3, <2>5, <2>6, <2>7, <2>8 DEF machine, history
<1> QED BY <1>3, <1>4

\* Watch: the watcher moves on; it marks only if it was not cancelled.
LEMMA WatchDoes ==
  ASSUME TypeOK, NEW w \in Watchers, WatchInv(w), Watch(w)
  PROVE  /\ TypeOK' /\ UNCHANGED <<table, proc, ptyOf, reader, cancelled, act, asked, ran>>
         /\ watch[w].at # "free" /\ watch'[w].at \in {"mark", "bind", "ended"}
         /\ watch[w].at = "bind" => watch'[w].at = "ended"
         /\ watch[w].at # "ended"
         /\ watch'[w].sess = watch[w].sess /\ watch'[w].proj = watch[w].proj
         /\ watch'[w].tracked = watch[w].tracked /\ watch'[w].cancelled = watch[w].cancelled
         /\ \A v \in Watchers \ {w} : watch'[v] = watch[v]
         /\ \/ UNCHANGED status
            \/ /\ watch[w].at = "mark" /\ ~watch[w].cancelled /\ watch'[w].at = "bind"
               /\ \A p \in Projects : status'[p] = IF p = watch[w].proj THEN 1 ELSE status[p]
         /\ \/ SameDicts
            \/ /\ watch[w].sess \in table /\ state'[watch[w].sess].foreground = watch[w].proj
               /\ \A t \in Sessions : /\ state'[t].fd = state[t].fd
                                      /\ t # watch[w].sess => state'[t] = state[t]
<1>1. watch[w] \in Watcher  BY DEF TypeOK
<1>2. ASSUME NEW label \in {"mark", "bind", "ended"}, watch' = [watch EXCEPT ![w].at = label]
      PROVE  /\ watch' \in [Watchers -> Watcher] /\ watch'[w].at = label
             /\ watch'[w].sess = watch[w].sess /\ watch'[w].proj = watch[w].proj
             /\ watch'[w].tracked = watch[w].tracked /\ watch'[w].cancelled = watch[w].cancelled
             /\ \A v \in Watchers \ {w} : watch'[v] = watch[v]
  <2>1. [watch[w] EXCEPT !.at = label] \in Watcher  BY <1>1 DEF Watcher
  <2>2. watch' \in [Watchers -> Watcher]  BY <1>2, <2>1 DEF TypeOK
  <2>3. watch'[w] = [watch[w] EXCEPT !.at = label] /\ \A v \in Watchers \ {w} : watch'[v] = watch[v]
    BY <1>2 DEF TypeOK
  <2> QED BY <1>1, <2>2, <2>3 DEF Watcher
<1>3. CASE Probe(w) \/ WatchCancelled(w)
  <2>1. PICK label \in {"mark", "ended"} :
          /\ watch' = [watch EXCEPT ![w].at = label]
          /\ \/ watch[w].at = "probe"
             \/ watch[w].cancelled /\ watch[w].at # "ended" /\ label = "ended"
    BY <1>3 DEF Probe, WatchCancelled, WatchGoes
  <2>2. UNCHANGED <<table, state, machine, reader, cancelled, act, open, status, history>>
    BY <1>3 DEF Probe, WatchCancelled
  <2>3. TypeOK'  BY <2>1, <2>2, <1>2 DEF TypeOK, machine, history
  <2>4. SameDicts  BY <2>2 DEF SameDicts
  <2>5. watch[w].at \notin {"free", "ended"} /\ (watch[w].at = "bind" => label = "ended")
    BY <2>1 DEF WatchInv
  <2>6. label \in {"mark", "bind", "ended"}  OBVIOUS
  <2> QED BY <2>1, <2>2, <2>3, <2>4, <2>5, <2>6, <1>2 DEF machine, history
<1>4. CASE MarkRunning(w)
  <2>1. /\ watch[w].at = "mark" /\ ~watch[w].cancelled /\ watch' = [watch EXCEPT ![w].at = "bind"]
        /\ status' = [status EXCEPT ![watch[w].proj] = 1]
        /\ UNCHANGED <<table, state, machine, reader, cancelled, act, open, history>>
    BY <1>4 DEF MarkRunning, WatchGoes
  <2>2. /\ status' \in [Projects -> {0, 1}]
        /\ \A p \in Projects : status'[p] = IF p = watch[w].proj THEN 1 ELSE status[p]
    BY <2>1 DEF TypeOK
  <2>3. "bind" \in {"mark", "bind", "ended"}  OBVIOUS
  <2>4. /\ watch' \in [Watchers -> Watcher] /\ watch'[w].at = "bind"
        /\ watch'[w].sess = watch[w].sess /\ watch'[w].proj = watch[w].proj
        /\ watch'[w].tracked = watch[w].tracked /\ watch'[w].cancelled = watch[w].cancelled
        /\ \A v \in Watchers \ {w} : watch'[v] = watch[v]
    BY <2>1, <2>3, <1>2
  <2>5. TypeOK'  BY <2>1, <2>2, <2>4 DEF TypeOK, machine, history
  <2>6. SameDicts  BY <2>1 DEF SameDicts
  <2> QED BY <2>1, <2>2, <2>4, <2>5, <2>6 DEF machine, history
<1>5. CASE SetForeground(w)
  <2>1. /\ watch[w].at = "bind" /\ watch' = [watch EXCEPT ![w].at = "ended"]
        /\ state' = IF watch[w].sess \in table
                      THEN [state EXCEPT ![watch[w].sess].foreground = watch[w].proj] ELSE state
        /\ UNCHANGED <<table, machine, reader, cancelled, act, open, status, history>>
    BY <1>5 DEF SetForeground, WatchGoes
  <2>2. "ended" \in {"mark", "bind", "ended"}  OBVIOUS
  <2>3. /\ watch' \in [Watchers -> Watcher] /\ watch'[w].at = "ended"
        /\ watch'[w].sess = watch[w].sess /\ watch'[w].proj = watch[w].proj
        /\ watch'[w].tracked = watch[w].tracked /\ watch'[w].cancelled = watch[w].cancelled
        /\ \A v \in Watchers \ {w} : watch'[v] = watch[v]
    BY <2>1, <2>2, <1>2
  <2>4. watch[w].sess \in Sessions /\ watch[w].proj \in Projects  BY <2>1 DEF WatchInv
  <2>5. CASE watch[w].sess \in table
    <3>1. state' = [state EXCEPT ![watch[w].sess].foreground = watch[w].proj]  BY <2>1, <2>5
    <3>2. /\ state' \in [Sessions -> State] /\ state'[watch[w].sess].foreground = watch[w].proj
          /\ \A t \in Sessions : state'[t].owner = state[t].owner /\ state'[t].fd = state[t].fd
          /\ \A t \in Sessions \ {watch[w].sess} : state'[t] = state[t]
      BY <2>4, <3>1, ForegroundChange
    <3>3. TypeOK'  BY <2>1, <2>3, <3>2 DEF TypeOK, machine, history
    <3> QED BY <2>1, <2>3, <2>5, <3>2, <3>3 DEF machine, history
  <2>6. CASE watch[w].sess \notin table
    <3>1. state' = state  BY <2>1, <2>6
    <3>2. TypeOK'  BY <2>1, <2>3, <3>1 DEF TypeOK, machine, history
    <3>3. SameDicts  BY <3>1 DEF SameDicts
    <3> QED BY <2>1, <2>3, <3>2, <3>3 DEF machine, history
  <2> QED BY <2>5, <2>6
<1> QED BY <1>3, <1>4, <1>5 DEF Watch

\* A reader ends only when it is cancelled, its session is gone, or its shell is.
LEMMA ReaderDoes ==
  ASSUME TypeOK, NEW s \in Sessions, Reader(s)
  PROVE  /\ TypeOK' /\ SameDicts
         /\ UNCHANGED <<table, proc, ptyOf, cancelled, act, watch, status, asked, ran>>
         /\ Reading(s) /\ reader'[s] \in {"select", "send", "ended"}
         /\ reader'[s] = "ended" => s \in cancelled \/ s \notin table \/ proc[s] # "run"
         /\ \A t \in Sessions \ {s} : reader'[t] = reader[t]
<1>1. ASSUME NEW label \in {"select", "send", "ended"}, reader' = [reader EXCEPT ![s] = label]
      PROVE  /\ reader' \in [Sessions -> {"unborn", "start", "select", "send", "ended"}]
             /\ reader'[s] = label /\ \A t \in Sessions \ {s} : reader'[t] = reader[t]
  BY <1>1 DEF TypeOK
<1>2. PICK label \in {"select", "send", "ended"} :
        /\ reader' = [reader EXCEPT ![s] = label] /\ Reading(s)
        /\ label = "ended" => s \in cancelled \/ s \notin table \/ proc[s] # "run"
  BY DEF Reader, ReadTurn, Select, Broadcast, ReaderCancelled, ReaderGoes, Turn, Reading, Exited
<1>3. /\ UNCHANGED <<table, proc, ptyOf, cancelled, tasks, open, status, history>>
      /\ threads' \subseteq Sessions
  BY DEF Reader, ReadTurn, Select, Broadcast, ReaderCancelled, machine, TypeOK
<1>4. /\ state' \in [Sessions -> State] /\ SameDicts
      /\ \A t \in Sessions : state'[t].owner = state[t].owner
  <2>1. CASE UNCHANGED state
    BY <2>1 DEF TypeOK, SameDicts
  <2>2. CASE Broadcast(s) /\ state' # state
    <3>1. PICK failed \in SUBSET (state[s].clients \ open) :
            state' = [state EXCEPT ![s].clients = @ \ failed]
      BY <2>2 DEF Broadcast
    <3>2. state[s].clients \ failed \in SUBSET Conns  BY DEF TypeOK, State
    <3> QED BY <3>1, <3>2, ClientsChange
  <2> QED BY <2>1, <2>2 DEF Reader, ReadTurn, Select, ReaderCancelled
<1>5. /\ reader' \in [Sessions -> {"unborn", "start", "select", "send", "ended"}]
      /\ reader'[s] = label /\ \A t \in Sessions \ {s} : reader'[t] = reader[t]
  BY <1>1, <1>2
<1>6. TypeOK'
  BY <1>3, <1>4, <1>5 DEF TypeOK, tasks, history, SameDicts
<1> QED BY <1>2, <1>3, <1>4, <1>5, <1>6 DEF tasks, history

\* ShellEnds: the shell lets go of its terminal, then is dead.
LEMMA ShellDoes ==
  ASSUME TypeOK, NEW s \in Sessions, ShellEnds(s)
  PROVE  /\ TypeOK' /\ SameDicts
         /\ UNCHANGED <<table, ptyOf, reader, cancelled, act, watch, status, asked, ran>>
         /\ \/ proc[s] = "run" /\ proc'[s] = "closing"
            \/ proc[s] \in {"closing", "signalled"} /\ proc'[s] = "dead"
         /\ \A t \in Sessions \ {s} : proc'[t] = proc[t]
<1>1. UNCHANGED <<table, state, reader, cancelled, ptyOf, threads, tasks, open, status, history>>
  BY DEF ShellEnds
<1>2. /\ proc' \in [Sessions -> {"unborn", "run", "closing", "signalled", "dead"}]
      /\ \/ proc[s] = "run" /\ proc'[s] = "closing"
         \/ proc[s] \in {"closing", "signalled"} /\ proc'[s] = "dead"
      /\ \A t \in Sessions \ {s} : proc'[t] = proc[t]
  BY DEF ShellEnds, TypeOK
<1>3. TypeOK'  BY <1>1, <1>2 DEF TypeOK, tasks, history
<1> QED BY <1>1, <1>2, <1>3 DEF tasks, history, SameDicts

-----------------------------------------------------------------------------
(* Every kind of step keeps the invariant.                                 *)

\* What holds of any step: a session that was made stays so, what was run was run,
\* a watcher keeps its session and project, only a watcher that was not cancelled
\* marks a project, and a closed session is released when its project is marked.
Frame ==
  /\ \A s \in Sessions : ran[s] \subseteq ran'[s] /\ (Born(s) => Born(s)')
  /\ \A v \in Watchers :
       IF watch[v].at = "free" THEN watch'[v].at \in {"free", "probe"}
       ELSE /\ watch'[v].sess = watch[v].sess /\ watch'[v].proj = watch[v].proj
            /\ watch'[v].tracked = watch[v].tracked
            /\ watch[v].at \in {"bind", "ended"} => watch'[v].at \in {"bind", "ended"}
  /\ \A p \in Projects : status'[p] = 1 =>
       \/ status[p] = 1
       \/ \E w \in Watchers : /\ watch[w].proj = p /\ watch[w].at = "mark" /\ ~watch[w].cancelled
                              /\ watch'[w].at = "bind"
  /\ \A s \in Sessions : Born(s) /\ Released(s)' =>
       \/ Released(s) \/ state[s].foreground = None
       \/ status'[state[s].foreground] = 0

\* A handler that closes nothing goes on with a session that is in the table.
Turns(a) ==
  /\ Rest(a)
  /\ \/ act' = act
     \/ /\ act[a].at \notin Closing
        /\ \/ \E label \in {"create", "done"} : Becomes(a, label, Mine(a), act[a].proj)
           \/ \E s \in table : Becomes(a, "serve", s, act[a].proj)
           \/ At(a, "serve") /\ \E p \in Projects : Becomes(a, "typing", Mine(a), p)

\* Steps that only move a handler that closes nothing keep the invariant.
LEMMA TurnsKeep ==
  ASSUME Core, TypeOK', NEW a \in Actors, Turns(a)
  PROVE  Core' /\ Frame
<1>1. /\ UNCHANGED <<table, proc, ptyOf, reader, cancelled, watch, status, asked, ran>> /\ SameDicts
      /\ \A b \in Actors \ {a} : act'[b] = act[b]
  BY DEF Turns, Rest, Becomes
<1>2. /\ act'[a].at \in Closing => act'[a] = act[a]
      /\ act'[a].at = "pending" => act'[a] = act[a]
      /\ act'[a].at \in {"serve", "typing"} =>
           act'[a] = act[a] \/ act'[a].sess \in table \/ (act'[a].sess = Mine(a) /\ At(a, "serve"))
      /\ act'[a].at = "typing" => act'[a] = act[a] \/ act'[a].proj \in Projects
      /\ act[a].at \in Closing => act'[a] = act[a]
  BY DEF Turns, Becomes, Closing
<1>3. OneCloser'
  BY <1>1, <1>2 DEF Core, OneCloser, Mine, Closing
<1>4. ASSUME NEW b \in Actors PROVE ActorInv(b)'
  <2>1. ActorInv(b) /\ \A s \in table : s \in Sessions /\ Born(s)
    BY DEF Core, TypeOK, Born
  <2> QED BY <1>1, <1>2, <2>1 DEF ActorInv, Mine, At, Born, Exited, Closing, SameDicts
<1>5. ASSUME NEW w \in Watchers PROVE WatchInv(w)'
  BY <1>1 DEF Core, WatchInv, Born, SameDicts
<1>6. ASSUME NEW s \in Sessions PROVE SessionInv(s)' /\ Held(s)' /\ Quiet(s)'
  <2>1. SessionInv(s)'  BY <1>1 DEF Core, SessionInv, Born, SameDicts
  <2>2. Held(s)'  BY <1>1, <1>2 DEF Core, Held, InUse, Reading, Mine, SameDicts, Closing
  <2>3. Quiet(s)'  BY <1>1, <1>2 DEF Core, Quiet, Born, Mine, At, Closing
  <2> QED BY <2>1, <2>2, <2>3
<1>7. ReaderKeepsReading' /\ RefreshSparesShell' /\ Marked'
  BY <1>1 DEF Core, ReaderKeepsReading, RefreshSparesShell, Marked, Reading
<1>8. Frame
  <2>1. ASSUME NEW s \in Sessions, Released(s)' PROVE Released(s)
    BY <1>1, <1>2, <2>1 DEF Released, Mine, Closing
  <2> QED BY <1>1, <2>1 DEF Frame, Born, Core, TypeOK
<1> QED BY <1>3, <1>4, <1>5, <1>6, <1>7, <1>8 DEF Core

\* A session that is taken out of the table has one closer from then on.
LEMMA PopsKeep ==
  ASSUME Core, TypeOK', NEW a \in Actors, NEW s \in Sessions, NEW label \in {"idle", "serve"},
         NEW new, asked \subseteq new, s \in new \/ Exited(s), Pops(a, s, label, new)
  PROVE  Core' /\ Frame
<1>1. /\ UNCHANGED <<proc, ptyOf, reader, cancelled, watch, status, ran>> /\ SameDicts
      /\ table' = table \ {s} /\ s \in table /\ asked' = new
      /\ act[a].at \notin Closing
      /\ act'[a].at = "notify" /\ act'[a].sess = s
      /\ \A b \in Actors \ {a} : act'[b] = act[b]
  BY DEF Pops, Becomes, At, Closing
<1>2. \A b \in Actors : ActorInv(b)  BY DEF Core
<1>3. Born(s)  BY <1>1 DEF Core, TypeOK, Born
<1>4. OneCloser'
  BY <1>1, <1>2 DEF Core, OneCloser, Mine, Closing, ActorInv
<1>5. ASSUME NEW b \in Actors PROVE ActorInv(b)'
  BY <1>1, <1>2, <1>3 DEF ActorInv, Mine, At, Born, Exited, Closing, SameDicts
<1>6. ASSUME NEW w \in Watchers PROVE WatchInv(w)'
  BY <1>1 DEF Core, WatchInv, Born, SameDicts
<1>7. ASSUME NEW t \in Sessions PROVE SessionInv(t)' /\ Held(t)' /\ Quiet(t)'
  <2>1. SessionInv(t)'  BY <1>1 DEF Core, SessionInv, Born, SameDicts
  <2>2. Held(t)'  BY <1>1 DEF Core, Held, InUse, Reading, Mine, SameDicts
  <2>3. Quiet(t)'  BY <1>1 DEF Core, Quiet, Born, Mine, At, Closing
  <2> QED BY <2>1, <2>2, <2>3
<1>8. ReaderKeepsReading' /\ RefreshSparesShell' /\ Marked'
  BY <1>1 DEF Core, ReaderKeepsReading, RefreshSparesShell, Marked, Reading
<1>9. Frame
  <2>1. ASSUME NEW t \in Sessions, Released(t)' PROVE Released(t)
    BY <1>1, <2>1 DEF Released, Mine, Closing
  <2> QED BY <1>1, <2>1 DEF Frame, Born, Core, TypeOK
<1> QED BY <1>4, <1>5, <1>6, <1>7, <1>8, <1>9 DEF Core

\* Every watcher that is tracked is told to stop.
LEMMA CancelKeeps ==
  ASSUME Core, NEW a \in Actors, Cancel(a)
  PROVE  Core' /\ Frame
<1>1. /\ TypeOK' /\ At(a, "notify") /\ Becomes(a, "reap", Mine(a), act[a].proj)
      /\ UNCHANGED <<table, state, proc, ptyOf, reader, status, asked, ran>>
      /\ \A s \in Sessions : s \in cancelled' => s \in cancelled \/ s = Mine(a)
      /\ \A w \in Watchers :
           /\ watch'[w].at = watch[w].at /\ watch'[w].sess = watch[w].sess
           /\ watch'[w].proj = watch[w].proj /\ watch'[w].tracked = watch[w].tracked
           /\ watch'[w].cancelled <=> watch[w].cancelled \/ w \in Cancellable(Mine(a))
  BY CancelDoes DEF Core
<1>2. /\ Mine(a) \in Sessions /\ Mine(a) \notin table /\ Born(Mine(a))
      /\ \A b \in Actors : ActorInv(b)
  BY <1>1 DEF Core, ActorInv, At, Closing
<1>3. /\ act[a].at = "notify" /\ act'[a].at = "reap" /\ act'[a].sess = act[a].sess
      /\ \A b \in Actors \ {a} : act'[b] = act[b]
  BY <1>1 DEF At, Becomes, Mine
<1>4. OneCloser'
  BY <1>3 DEF Core, OneCloser, Mine
<1>5. ASSUME NEW b \in Actors PROVE ActorInv(b)'
  BY <1>1, <1>2, <1>3 DEF ActorInv, Mine, At, Born, Exited, Closing
<1>6. ASSUME NEW w \in Watchers PROVE WatchInv(w)'
  <2>1. WatchInv(w)  BY DEF Core
  <2> QED BY <1>1, <2>1 DEF WatchInv, Born, Cancellable
<1>7. ASSUME NEW s \in Sessions PROVE SessionInv(s)' /\ Held(s)' /\ Quiet(s)'
  <2>1. SessionInv(s)'  BY <1>1, <1>2 DEF Core, SessionInv, Born
  <2>2. Held(s)'  BY <1>1, <1>3 DEF Core, Held, InUse, Reading, Mine
  <2>3. CASE s = Mine(a)
    <3>1. Quiet(s)'  BY <1>1, <2>3 DEF Quiet, Cancellable
    <3> QED BY <2>1, <2>2, <3>1
  <2>4. CASE s # Mine(a)
    <3>1. Quiet(s)'  BY <1>1, <1>3, <2>4 DEF Core, Quiet, Born, Mine, At
    <3> QED BY <2>1, <2>2, <3>1
  <2> QED BY <2>3, <2>4
<1>8. ReaderKeepsReading' /\ RefreshSparesShell' /\ Marked'
  BY <1>1 DEF Core, ReaderKeepsReading, RefreshSparesShell, Marked, Reading
<1>9. Frame
  <2>1. ASSUME NEW t \in Sessions, Released(t)' PROVE Released(t)
    BY <1>1, <1>3, <2>1 DEF Released, Mine, Closing
  <2> QED BY <1>1, <2>1 DEF Frame, Born, Core, TypeOK
<1> QED BY <1>1, <1>4, <1>5, <1>6, <1>7, <1>8, <1>9 DEF Core

\* The descriptor that is closed is the session's own, and nobody uses it any more.
LEMMA ReapKeeps ==
  ASSUME Core, NEW a \in Actors, Reap(a)
  PROVE  Core' /\ Frame
<1> DEFINE m == Mine(a)
<1>1. m \in Sessions /\ Held(m)
  BY DEF Core, ActorInv, Reap, At, Closing
<1>2. /\ TypeOK' /\ At(a, "reap") /\ ~Reading(m)
      /\ \/ state[m].foreground # None /\ Becomes(a, "mark", m, act[a].proj)
         \/ /\ state[m].foreground = None
            /\ \E label \in {"create", "done"} : Becomes(a, label, m, act[a].proj)
      /\ UNCHANGED <<table, state, reader, cancelled, watch, status, asked, ran>>
      /\ \A s \in Sessions : s # m => proc'[s] = proc[s]
      /\ proc'[m] = IF Exited(m) THEN "dead" ELSE "signalled"
      /\ \A d \in Descriptors : d # state[m].fd => ptyOf'[d] = ptyOf[d]
  BY <1>1, ReapDoes DEF Core
<1>3. /\ act[a].at = "reap" /\ act'[a].sess = m /\ act'[a].at \in {"mark", "create", "done"}
      /\ act'[a].at \in Closing \/ state[m].foreground = None
      /\ \A b \in Actors \ {a} : act'[b] = act[b]
  BY <1>2 DEF At, Becomes, Closing
<1>4. /\ m \notin table /\ Born(m) /\ (m \in asked \/ Exited(m))
      /\ state[m].fd \in Descriptors /\ ptyOf[state[m].fd] = m
      /\ \A b \in Actors : ActorInv(b)
  BY <1>1, <1>3 DEF Core, ActorInv, Closing, Held, InUse
<1>5. /\ \A s \in Sessions : (Born(s) <=> Born(s)') /\ (Exited(s) => Exited(s)')
      /\ \A s \in table : s \in Sessions /\ s # m /\ proc'[s] = proc[s]
  BY <1>2, <1>4 DEF Born, Exited, Core, TypeOK
<1> HIDE DEF m
<1>6. OneCloser'
  BY <1>3 DEF Core, OneCloser, Mine
<1>7. ASSUME NEW b \in Actors PROVE ActorInv(b)'
  <2>1. CASE b = a
    BY <1>1, <1>2, <1>3, <1>4, <1>5, <2>1 DEF ActorInv, Mine, At, Closing
  <2>2. CASE b # a
    <3>1. act'[b] = act[b] /\ ActorInv(b)  BY <1>3, <1>4, <2>2
    <3> QED BY <1>2, <1>5, <3>1 DEF ActorInv, Mine, At, Closing
  <2> QED BY <2>1, <2>2
<1>8. ASSUME NEW w \in Watchers PROVE WatchInv(w)'
  BY <1>2, <1>5 DEF Core, WatchInv
<1>9. ASSUME NEW s \in Sessions PROVE SessionInv(s)' /\ Held(s)' /\ Quiet(s)'
  <2>1. SessionInv(s)'  BY <1>2, <1>5 DEF Core, SessionInv
  <2>2. Quiet(s)'  BY <1>2, <1>3, <1>5 DEF Core, Quiet, Mine, At
  <2>3. CASE s = m
    <3>1. ~InUse(s)'
      BY <1>2, <1>3, <1>4, <2>3 DEF InUse, Reading, Core, OneCloser, Mine, m
    <3> QED BY <2>1, <2>2, <3>1 DEF Held
  <2>4. CASE s # m
    <3>1. InUse(s)' => InUse(s)
      BY <1>2, <1>3, <2>4 DEF InUse, Reading, Mine
    <3>2. InUse(s) => state[s].fd \in Descriptors /\ ptyOf[state[s].fd] = s
      BY DEF Core, Held
    <3>3. Held(s)'
      BY <1>2, <1>4, <2>4, <3>1, <3>2 DEF Held
    <3> QED BY <2>1, <2>2, <3>3
  <2> QED BY <2>3, <2>4
<1>10. ReaderKeepsReading' /\ Marked'
  BY <1>2, <1>5 DEF Core, ReaderKeepsReading, Marked, Reading
<1>11. RefreshSparesShell'
  BY <1>2, <1>4 DEF Core, RefreshSparesShell
<1>12. Frame
  <2>1. ASSUME NEW t \in Sessions, Born(t), Released(t)' PROVE Released(t) \/ state[t].foreground = None
    <3>1. table' = table /\ t \notin table /\ Mine(a)' = m
          /\ \A b \in Actors : Mine(b)' = t => act'[b].at \notin Closing
      BY <1>2, <1>3, <2>1 DEF Released, Mine
    <3>2. CASE t = m
      BY <1>3, <3>1, <3>2
    <3>3. CASE t # m
      <4>1. \A b \in Actors : Mine(b) = t => act'[b] = act[b]
        BY <1>3, <3>3 DEF m
      <4> QED BY <2>1, <3>1, <4>1 DEF Released, Born, Mine
    <3> QED BY <3>2, <3>3
  <2> QED BY <1>2, <1>5, <2>1 DEF Frame, Core, TypeOK
<1> QED BY <1>2, <1>6, <1>7, <1>8, <1>9, <1>10, <1>11, <1>12 DEF Core

\* The project is marked stopped before the session counts as released.
LEMMA MarkStoppedKeeps ==
  ASSUME Core, NEW a \in Actors, MarkStopped(a)
  PROVE  Core' /\ Frame
<1>1. /\ TypeOK' /\ At(a, "mark") /\ Mine(a) \in Sessions
      /\ \E label \in {"create", "done"} : Becomes(a, label, Mine(a), act[a].proj)
      /\ UNCHANGED <<table, state, proc, ptyOf, reader, cancelled, watch, asked, ran>>
      /\ \A p \in Projects :
           status'[p] = IF p = state[Mine(a)].foreground THEN 0 ELSE status[p]
  BY MarkStoppedDoes DEF Core
<1>2. /\ act[a].at = "mark" /\ act'[a].sess = act[a].sess /\ act'[a].at \in {"create", "done"}
      /\ \A b \in Actors \ {a} : act'[b] = act[b]
  BY <1>1 DEF At, Becomes, Mine
<1>3. OneCloser'  BY <1>2 DEF Core, OneCloser, Mine
<1>4. ASSUME NEW b \in Actors PROVE ActorInv(b)'
  <2>1. ActorInv(b)  BY DEF Core
  <2> QED BY <1>1, <1>2, <2>1 DEF ActorInv, Mine, At, Born, Exited, Closing
<1>5. ASSUME NEW w \in Watchers PROVE WatchInv(w)'
  BY <1>1 DEF Core, WatchInv, Born
<1>6. ASSUME NEW s \in Sessions PROVE SessionInv(s)' /\ Held(s)' /\ Quiet(s)'
  <2>1. SessionInv(s)'  BY <1>1 DEF Core, SessionInv, Born
  <2>2. Held(s)'  BY <1>1, <1>2 DEF Core, Held, InUse, Reading, Mine
  <2>3. Quiet(s)'  BY <1>1, <1>2 DEF Core, Quiet, Born, Mine, At
  <2> QED BY <2>1, <2>2, <2>3
<1>7. ReaderKeepsReading' /\ RefreshSparesShell' /\ Marked'
  BY <1>1 DEF Core, ReaderKeepsReading, RefreshSparesShell, Marked, Reading
<1>8. Frame
  <2>1. ASSUME NEW t \in Sessions, Released(t)', t # Mine(a) PROVE Released(t)
    BY <1>1, <1>2, <2>1 DEF Released, Mine
  <2>2. state[Mine(a)].foreground \in Projects \cup {None}
    BY <1>1 DEF Core, TypeOK, State
  <2>3. state[Mine(a)].foreground = None \/ status'[state[Mine(a)].foreground] = 0
    BY <1>1, <2>2
  <2> QED BY <1>1, <2>1, <2>3 DEF Frame, Born, Core, TypeOK
<1> QED BY <1>1, <1>3, <1>4, <1>5, <1>6, <1>7, <1>8 DEF Core

\* A session is made on a descriptor that no session held.
LEMMA CreateKeeps ==
  ASSUME Core, NEW c \in Conns, Create(c)
  PROVE  Core' /\ Frame
<1>1. c \in Actors /\ \A s \in Sessions : SessionInv(s)  BY DEF Actors, Core
<1>2. /\ TypeOK' /\ At(c, "create") /\ UNCHANGED <<cancelled, watch, status, asked, ran>>
      /\ \/ Becomes(c, "done", Mine(c), act[c].proj) /\ Rest(c)
         \/ \E s \in Sessions, d \in Descriptors :
              /\ ~Born(s) /\ ptyOf[d] = None
              /\ Becomes(c, "serve", s, act[c].proj)
              /\ table' = table \cup {s}
              /\ ptyOf'[d] = s /\ \A e \in Descriptors \ {d} : ptyOf'[e] = ptyOf[e]
              /\ state'[s].fd = d /\ state'[s].foreground = None
              /\ proc'[s] = "run" /\ reader'[s] = "start"
              /\ \A t \in Sessions \ {s} : /\ state'[t] = state[t] /\ proc'[t] = proc[t]
                                           /\ reader'[t] = reader[t]
  BY <1>1, CreateDoes DEF Core
<1>3. CASE Becomes(c, "done", Mine(c), act[c].proj) /\ Rest(c)
  <2>1. Turns(c)  BY <1>2, <1>3 DEF Turns, At, Closing
  <2> QED BY <1>1, <1>2, <2>1, TurnsKeep
<1>4. ASSUME NEW s \in Sessions, NEW d \in Descriptors,
             ~Born(s), ptyOf[d] = None, Becomes(c, "serve", s, act[c].proj),
             table' = table \cup {s},
             ptyOf'[d] = s, \A e \in Descriptors \ {d} : ptyOf'[e] = ptyOf[e],
             state'[s].fd = d, state'[s].foreground = None,
             proc'[s] = "run", reader'[s] = "start",
             \A t \in Sessions \ {s} : /\ state'[t] = state[t] /\ proc'[t] = proc[t]
                                       /\ reader'[t] = reader[t]
      PROVE  Core' /\ Frame
  <2>1. /\ act[c].at = "create" /\ act'[c].at = "serve" /\ act'[c].sess = s
        /\ \A b \in Actors \ {c} : act'[b] = act[b]
    BY <1>2, <1>4 DEF At, Becomes
  <2>2. /\ s \notin table /\ s \notin cancelled
        /\ \A t \in Sessions : Born(t) => t # s /\ Born(t)'
        /\ \A t \in Sessions : Exited(t) => t # s /\ Exited(t)'
        /\ Born(s)' /\ table \subseteq Sessions
    BY <1>4, <1>1 DEF SessionInv, Born, Exited, Core, TypeOK
  <2>3. OneCloser'
    BY <2>1 DEF Core, OneCloser, Mine
  <2>4. ASSUME NEW b \in Actors PROVE ActorInv(b)'
    <3>1. CASE b = c
      BY <2>1, <2>2, <3>1 DEF ActorInv, Mine, At, Closing
    <3>2. CASE b # c
      <4>1. act'[b] = act[b] /\ ActorInv(b)  BY <2>1, <3>2 DEF Core
      <4> QED BY <1>2, <1>4, <2>2, <4>1 DEF ActorInv, Mine, At, Closing
    <3> QED BY <3>1, <3>2
  <2>5. ASSUME NEW w \in Watchers PROVE WatchInv(w)'
    <3>1. WatchInv(w)  BY DEF Core
    <3> QED BY <1>2, <1>4, <2>2, <3>1 DEF WatchInv
  <2>6. ASSUME NEW t \in Sessions PROVE SessionInv(t)' /\ Held(t)' /\ Quiet(t)'
    <3>1. CASE t = s
      <4>1. SessionInv(s)'  BY <1>2, <1>4, <2>2 DEF SessionInv
      <4>2. Held(s)'  BY <1>4 DEF Held
      <4>3. Quiet(s)'  BY <1>4 DEF Quiet
      <4> QED BY <3>1, <4>1, <4>2, <4>3
    <3>2. CASE t # s
      <4>1. SessionInv(t) /\ Held(t) /\ Quiet(t)  BY DEF Core
      <4>2. /\ state'[t] = state[t] /\ reader'[t] = reader[t] /\ (Born(t)' <=> Born(t))
            /\ (t \in table' <=> t \in table)
        BY <1>4, <3>2 DEF Born
      <4>3. SessionInv(t)'  BY <1>2, <4>1, <4>2 DEF SessionInv
      <4>4. InUse(t)' => InUse(t)  BY <2>1, <4>2 DEF InUse, Reading, Mine
      <4>5. t # None  BY TerminalConstants
      <4>6. Held(t)'
        BY <1>4, <4>1, <4>2, <4>4, <4>5 DEF Held
      <4>7. Quiet(t)'
        BY <1>2, <2>1, <4>1, <4>2 DEF Quiet, Mine, At
      <4> QED BY <4>3, <4>6, <4>7
    <3> QED BY <3>1, <3>2
  <2>7. ReaderKeepsReading' /\ Marked'
    <3>1. Marked'  BY <1>2 DEF Core, Marked
    <3>2. ASSUME NEW t \in table', proc'[t] = "run" PROVE Reading(t)'
      <4>1. CASE t = s  BY <1>4, <4>1 DEF Reading
      <4>2. CASE t # s
        BY <1>4, <2>2, <3>2, <4>2 DEF Core, ReaderKeepsReading, Reading
      <4> QED BY <4>1, <4>2
    <3> QED BY <3>1, <3>2 DEF ReaderKeepsReading
  <2>8. RefreshSparesShell'
    <3>1. ASSUME NEW t \in Sessions, proc'[t] = "signalled" PROVE t \in asked'
      <4>1. t # s /\ proc'[t] = proc[t]  BY <1>4, <3>1
      <4> QED BY <1>2, <3>1, <4>1 DEF Core, RefreshSparesShell
    <3> QED BY <3>1 DEF RefreshSparesShell
  <2>9. Frame
    <3>1. ASSUME NEW t \in Sessions, Born(t), Released(t)' PROVE Released(t)
      BY <1>4, <2>1, <2>2, <3>1 DEF Released, Mine, Closing, Born
    <3> QED BY <1>2, <2>2, <3>1 DEF Frame, Core, TypeOK
  <2> QED BY <1>2, <2>3, <2>4, <2>5, <2>6, <2>7, <2>8, <2>9 DEF Core
<1> QED BY <1>2, <1>3, <1>4

\* The command that is typed is noted for the session that holds the descriptor.
LEMMA TypeKeeps ==
  ASSUME Core, NEW c \in Conns, Type(c)
  PROVE  Core' /\ Frame
<1>1. c \in Actors  BY DEF Actors
<1> DEFINE m == Mine(c)
<1>2. m \in Sessions /\ Born(m) /\ act[c].proj \in Projects /\ act[c].proj # None
  BY <1>1, TerminalConstants DEF Core, ActorInv, Type, At
<1>3. /\ TypeOK' /\ At(c, "typing")
      /\ UNCHANGED <<table, proc, ptyOf, reader, cancelled, watch, status, asked>>
      /\ \/ Becomes(c, "done", m, act[c].proj) /\ Rest(c)
         \/ /\ Becomes(c, "pending", m, act[c].proj)
            /\ \A s \in Sessions : /\ state'[s].fd = state[s].fd
                                   /\ ran[s] \subseteq ran'[s]
                                   /\ s # m => state'[s].foreground = state[s].foreground
            /\ IF m \in table
                 THEN act[c].proj \in ran'[m] /\ state'[m].foreground = act[c].proj
                 ELSE state' = state
  BY <1>1, <1>2, TypeDoes DEF Core
<1>4. CASE Becomes(c, "done", m, act[c].proj) /\ Rest(c)
  <2>1. Turns(c)  BY <1>3, <1>4 DEF Turns, At, Closing
  <2> QED BY <1>1, <1>3, <2>1, TurnsKeep
<1>5. CASE /\ Becomes(c, "pending", m, act[c].proj)
           /\ \A s \in Sessions : /\ state'[s].fd = state[s].fd
                                  /\ ran[s] \subseteq ran'[s]
                                  /\ s # m => state'[s].foreground = state[s].foreground
           /\ IF m \in table
                THEN act[c].proj \in ran'[m] /\ state'[m].foreground = act[c].proj
                ELSE state' = state
  <2>1. /\ act[c].at = "typing" /\ act'[c].at = "pending" /\ act'[c].sess = m
        /\ act'[c].proj = act[c].proj /\ \A b \in Actors \ {c} : act'[b] = act[b]
    BY <1>3, <1>5 DEF At, Becomes
  <2>2. \A s \in Sessions :
          /\ state[s].foreground # None => state'[s].foreground # None
          /\ state'[s].foreground # None =>
               state'[s].foreground = state[s].foreground \/ state'[s].foreground \in ran'[s]
    BY <1>2, <1>5
  <2> HIDE DEF m
  <2>3. OneCloser'  BY <2>1 DEF Core, OneCloser, Mine
  <2>4. ASSUME NEW b \in Actors PROVE ActorInv(b)'
    <3>1. CASE b = c
      BY <1>2, <1>3, <1>5, <2>1, <3>1 DEF ActorInv, Mine, At, Born, Closing
    <3>2. CASE b # c
      <4>1. act'[b] = act[b] /\ ActorInv(b)  BY <2>1, <3>2 DEF Core
      <4> QED BY <1>3, <1>5, <2>2, <4>1 DEF ActorInv, Mine, At, Born, Exited, Closing
    <3> QED BY <3>1, <3>2
  <2>5. ASSUME NEW w \in Watchers PROVE WatchInv(w)'
    <3>1. WatchInv(w)  BY DEF Core
    <3> QED BY <1>3, <1>5, <2>2, <3>1 DEF WatchInv, Born
  <2>6. ASSUME NEW s \in Sessions PROVE SessionInv(s)' /\ Held(s)' /\ Quiet(s)'
    <3>1. SessionInv(s) /\ Held(s) /\ Quiet(s)  BY DEF Core
    <3>2. SessionInv(s)'  BY <1>3, <1>5, <2>2, <3>1 DEF SessionInv, Born
    <3>3. Held(s)'  BY <1>3, <1>5, <2>1, <3>1 DEF Held, InUse, Reading, Mine
    <3>4. Quiet(s)'  BY <1>3, <2>1, <3>1 DEF Quiet, Born, Mine, At
    <3> QED BY <3>2, <3>3, <3>4
  <2>7. ReaderKeepsReading' /\ RefreshSparesShell' /\ Marked'
    BY <1>3 DEF Core, ReaderKeepsReading, RefreshSparesShell, Marked, Reading
  <2>8. Frame
    <3>1. ASSUME NEW t \in Sessions, Released(t)' PROVE Released(t)
      BY <1>3, <2>1, <3>1 DEF Released, Mine, Closing
    <3> QED BY <1>3, <1>5, <3>1 DEF Frame, Born, Core, TypeOK
  <2> QED BY <1>3, <2>3, <2>4, <2>5, <2>6, <2>7, <2>8 DEF Core
<1> QED BY <1>3, <1>4, <1>5

\* A watcher that starts for a session in the table is tracked by it.
LEMMA PendingKeeps ==
  ASSUME Core, NEW c \in Conns, Pending(c)
  PROVE  Core' /\ Frame
<1>1. c \in Actors /\ ActorInv(c)  BY DEF Actors, Core
<1>2. /\ TypeOK' /\ At(c, "pending")
      /\ UNCHANGED <<table, proc, ptyOf, reader, cancelled, status, asked, ran>> /\ SameDicts
      /\ \/ Becomes(c, "done", Mine(c), act[c].proj) /\ UNCHANGED watch
         \/ /\ Becomes(c, "serve", Mine(c), act[c].proj)
            /\ \E w \in Watchers :
                 /\ watch[w].at = "free" /\ watch'[w].at = "probe"
                 /\ watch'[w].sess = Mine(c) /\ watch'[w].proj = act[c].proj
                 /\ watch'[w].tracked = (Mine(c) \in table)
                 /\ \A v \in Watchers \ {w} : watch'[v] = watch[v]
  BY <1>1, PendingDoes DEF Core
<1>3. CASE Becomes(c, "done", Mine(c), act[c].proj) /\ UNCHANGED watch
  <2>1. Turns(c)  BY <1>2, <1>3 DEF Turns, Rest, At, Closing
  <2> QED BY <1>1, <1>2, <2>1, TurnsKeep
<1>4. ASSUME Becomes(c, "serve", Mine(c), act[c].proj),
             NEW w \in Watchers,
             watch[w].at = "free", watch'[w].at = "probe",
             watch'[w].sess = Mine(c), watch'[w].proj = act[c].proj,
             watch'[w].tracked = (Mine(c) \in table),
             \A v \in Watchers \ {w} : watch'[v] = watch[v]
      PROVE  Core' /\ Frame
  <2>1. /\ act[c].at = "pending" /\ act'[c].at = "serve" /\ act'[c].sess = act[c].sess
        /\ \A b \in Actors \ {c} : act'[b] = act[b]
    BY <1>2, <1>4 DEF At, Becomes, Mine
  <2>2. /\ Mine(c) \in Sessions /\ Born(Mine(c)) /\ act[c].proj \in Projects
        /\ Mine(c) \in table => act[c].proj \in ran[Mine(c)] /\ state[Mine(c)].foreground # None
    BY <1>1, <2>1 DEF ActorInv, At
  <2>3. OneCloser'  BY <2>1 DEF Core, OneCloser, Mine
  <2>4. ASSUME NEW b \in Actors PROVE ActorInv(b)'
    <3>1. ActorInv(b)  BY DEF Core
    <3> QED BY <1>2, <2>1, <3>1 DEF ActorInv, Mine, At, Born, Exited, Closing, SameDicts
  <2>5. ASSUME NEW v \in Watchers PROVE WatchInv(v)'
    <3>1. CASE v = w
      BY <1>2, <1>4, <2>2, <3>1 DEF WatchInv, Born, SameDicts
    <3>2. CASE v # w
      <4>1. watch'[v] = watch[v] /\ WatchInv(v)  BY <1>4, <3>2 DEF Core
      <4> QED BY <1>2, <4>1 DEF WatchInv, Born, SameDicts
    <3> QED BY <3>1, <3>2
  <2>6. ASSUME NEW s \in Sessions PROVE SessionInv(s)' /\ Held(s)' /\ Quiet(s)'
    <3>1. SessionInv(s) /\ Held(s) /\ Quiet(s)  BY DEF Core
    <3>2. SessionInv(s)'  BY <1>2, <3>1 DEF SessionInv, Born, SameDicts
    <3>3. Held(s)'  BY <1>2, <2>1, <3>1 DEF Held, InUse, Reading, Mine, SameDicts
    <3>4. Quiet(s)'  BY <1>2, <1>4, <2>1, <3>1 DEF Quiet, Born, Mine, At
    <3> QED BY <3>2, <3>3, <3>4
  <2>7. ReaderKeepsReading' /\ RefreshSparesShell'
    BY <1>2 DEF Core, ReaderKeepsReading, RefreshSparesShell, Reading
  <2>8. Marked'
    <3>1. ASSUME NEW p \in Projects, status'[p] = 1
          PROVE  \E v \in Watchers : watch'[v].proj = p /\ watch'[v].at \in {"bind", "ended"}
      <4>1. PICK v \in Watchers : watch[v].proj = p /\ watch[v].at \in {"bind", "ended"}
        BY <1>2, <3>1 DEF Core, Marked
      <4> QED BY <1>4, <4>1
    <3> QED BY <3>1 DEF Marked
  <2>9. Frame
    <3>1. ASSUME NEW t \in Sessions, Released(t)' PROVE Released(t)
      BY <1>2, <2>1, <3>1 DEF Released, Mine, Closing
    <3> QED BY <1>2, <1>4, <3>1 DEF Frame, Born, Core, TypeOK
  <2> QED BY <1>2, <2>3, <2>4, <2>5, <2>6, <2>7, <2>8, <2>9 DEF Core
<1> QED BY <1>2, <1>3, <1>4

\* A watcher takes a turn: the foreground it sets is a project the session ran.
LEMMA WatchKeeps ==
  ASSUME Core, NEW w \in Watchers, Watch(w)
  PROVE  Core' /\ Frame
<1>1. WatchInv(w)  BY DEF Core
<1> DEFINE m == watch[w].sess
           q == watch[w].proj
<1>2. /\ TypeOK' /\ UNCHANGED <<table, proc, ptyOf, reader, cancelled, act, asked, ran>>
      /\ watch[w].at # "free" /\ watch'[w].at \in {"mark", "bind", "ended"}
      /\ watch[w].at = "bind" => watch'[w].at = "ended"
      /\ watch[w].at # "ended"
      /\ watch'[w].sess = m /\ watch'[w].proj = q
      /\ watch'[w].tracked = watch[w].tracked /\ watch'[w].cancelled = watch[w].cancelled
      /\ \A v \in Watchers \ {w} : watch'[v] = watch[v]
  BY <1>1, WatchDoes DEF Core
<1>3. \/ UNCHANGED status
      \/ /\ watch[w].at = "mark" /\ ~watch[w].cancelled /\ watch'[w].at = "bind"
         /\ \A p \in Projects : status'[p] = IF p = q THEN 1 ELSE status[p]
  BY <1>1, WatchDoes DEF Core
<1>4. \/ SameDicts
      \/ /\ m \in table /\ state'[m].foreground = q
         /\ \A t \in Sessions : state'[t].fd = state[t].fd /\ (t # m => state'[t] = state[t])
  BY <1>1, WatchDoes DEF Core
<1>5. /\ m \in Sessions /\ Born(m) /\ q \in Projects /\ q # None
      /\ m \in table => q \in ran[m]
  BY <1>1, <1>2, TerminalConstants DEF WatchInv
<1>6. \A s \in Sessions :
        /\ state'[s].fd = state[s].fd
        /\ state[s].foreground # None => state'[s].foreground # None
        /\ state'[s].foreground = state[s].foreground \/ state'[s].foreground \in ran[s]
  BY <1>4, <1>5 DEF SameDicts
<1> HIDE DEF m, q
<1>7. OneCloser'  BY <1>2 DEF Core, OneCloser, Mine
<1>8. ASSUME NEW b \in Actors PROVE ActorInv(b)'
  <2>1. ActorInv(b)  BY DEF Core
  <2> QED BY <1>2, <1>6, <2>1 DEF ActorInv, Mine, At, Born, Exited, Closing
<1>9. ASSUME NEW v \in Watchers PROVE WatchInv(v)'
  <2>1. WatchInv(v)  BY DEF Core
  <2>2. /\ watch[v].at = "free" <=> watch'[v].at = "free"
        /\ watch'[v].sess = watch[v].sess /\ watch'[v].proj = watch[v].proj
        /\ watch'[v].tracked = watch[v].tracked /\ watch'[v].cancelled = watch[v].cancelled
    BY <1>2 DEF m, q
  <2>3. UNCHANGED <<table, ran>> /\ \A s \in Sessions : Born(s)' <=> Born(s)
    BY <1>2 DEF Born
  <2>4. CASE watch[v].at = "free"
    BY <2>1, <2>2, <2>4 DEF WatchInv
  <2>5. CASE watch[v].at # "free"
    BY <1>6, <2>1, <2>2, <2>3, <2>5 DEF WatchInv
  <2> QED BY <2>4, <2>5
<1>10. ASSUME NEW s \in Sessions PROVE SessionInv(s)' /\ Held(s)' /\ Quiet(s)'
  <2>1. SessionInv(s) /\ Held(s) /\ Quiet(s)  BY DEF Core
  <2>2. SessionInv(s)'  BY <1>2, <1>6, <2>1 DEF SessionInv, Born
  <2>3. Held(s)'  BY <1>2, <1>6, <2>1 DEF Held, InUse, Reading, Mine
  <2>4. Quiet(s)'  BY <1>2, <2>1 DEF Quiet, Born, Mine, At, m
  <2> QED BY <2>2, <2>3, <2>4
<1>11. ReaderKeepsReading' /\ RefreshSparesShell'
  BY <1>2 DEF Core, ReaderKeepsReading, RefreshSparesShell, Reading
<1>12. Marked'
  <2>1. ASSUME NEW p \in Projects, status'[p] = 1
        PROVE  \E v \in Watchers : watch'[v].proj = p /\ watch'[v].at \in {"bind", "ended"}
    <3>1. CASE status[p] = 1
      <4>1. PICK v \in Watchers : watch[v].proj = p /\ watch[v].at \in {"bind", "ended"}
        BY <3>1 DEF Core, Marked
      <4>2. watch'[v].proj = p /\ watch'[v].at \in {"bind", "ended"}
        BY <1>2, <4>1 DEF q
      <4> QED BY <4>2
    <3>2. CASE status[p] # 1
      <4>1. watch'[w].proj = p /\ watch'[w].at \in {"bind", "ended"}
        BY <1>2, <1>3, <2>1, <3>2
      <4> QED BY <4>1
    <3> QED BY <3>1, <3>2
  <2> QED BY <2>1 DEF Marked
<1>13. Frame
  <2>1. ASSUME NEW t \in Sessions, Released(t)' PROVE Released(t)
    BY <1>2, <2>1 DEF Released, Mine, Closing
  <2>2. \A s \in Sessions : ran[s] \subseteq ran'[s] /\ (Born(s) => Born(s)')
    BY <1>2 DEF Born
  <2>3. \A v \in Watchers :
          IF watch[v].at = "free" THEN watch'[v].at \in {"free", "probe"}
          ELSE /\ watch'[v].sess = watch[v].sess /\ watch'[v].proj = watch[v].proj
               /\ watch'[v].tracked = watch[v].tracked
               /\ watch[v].at \in {"bind", "ended"} => watch'[v].at \in {"bind", "ended"}
    BY <1>2 DEF m, q
  <2>4. \A p \in Projects : status'[p] = 1 =>
          \/ status[p] = 1
          \/ \E v \in Watchers : /\ watch[v].proj = p /\ watch[v].at = "mark" /\ ~watch[v].cancelled
                                 /\ watch'[v].at = "bind"
    BY <1>3 DEF q
  <2> QED BY <2>1, <2>2, <2>3, <2>4 DEF Frame
<1> QED BY <1>2, <1>7, <1>8, <1>9, <1>10, <1>11, <1>12, <1>13 DEF Core

\* A reader takes a turn.
LEMMA ReaderKeeps ==
  ASSUME Core, NEW s \in Sessions, Reader(s)
  PROVE  Core' /\ Frame
<1>1. /\ TypeOK' /\ SameDicts
      /\ UNCHANGED <<table, proc, ptyOf, cancelled, act, watch, status, asked, ran>>
      /\ Reading(s) /\ reader'[s] \in {"select", "send", "ended"}
      /\ reader'[s] = "ended" => s \in cancelled \/ s \notin table \/ proc[s] # "run"
      /\ \A t \in Sessions \ {s} : reader'[t] = reader[t]
  BY ReaderDoes DEF Core
<1>2. OneCloser'  BY <1>1 DEF Core, OneCloser, Mine
<1>3. ASSUME NEW b \in Actors PROVE ActorInv(b)'
  <2>1. ActorInv(b)  BY DEF Core
  <2> QED BY <1>1, <2>1 DEF ActorInv, Mine, At, Born, Exited, Closing, SameDicts
<1>4. ASSUME NEW w \in Watchers PROVE WatchInv(w)'
  BY <1>1 DEF Core, WatchInv, Born, SameDicts
<1>5. ASSUME NEW t \in Sessions PROVE SessionInv(t)' /\ Held(t)' /\ Quiet(t)'
  <2>1. SessionInv(t) /\ Held(t) /\ Quiet(t)  BY DEF Core
  <2>2. SessionInv(t)'  BY <1>1, <2>1 DEF SessionInv, Born, SameDicts, Reading
  <2>3. Held(t)'
    <3>1. InUse(t)' => InUse(t)  BY <1>1 DEF InUse, Reading, Mine
    <3> QED BY <1>1, <2>1, <3>1 DEF Held, SameDicts
  <2>4. Quiet(t)'  BY <1>1, <2>1 DEF Quiet, Born, Mine, At
  <2> QED BY <2>2, <2>3, <2>4
<1>6. RefreshSparesShell' /\ Marked'
  BY <1>1 DEF Core, RefreshSparesShell, Marked
<1>7. ReaderKeepsReading'
  <2>1. ASSUME NEW t \in table, proc[t] = "run" PROVE Reading(t)'
    <3>1. t \in Sessions /\ Reading(t) /\ t \notin cancelled
      BY <2>1 DEF Core, TypeOK, ReaderKeepsReading, SessionInv
    <3> QED BY <1>1, <2>1, <3>1 DEF Reading
  <2> QED BY <1>1, <2>1 DEF ReaderKeepsReading
<1>8. Frame
  <2>1. ASSUME NEW t \in Sessions, Released(t)' PROVE Released(t)
    BY <1>1, <2>1 DEF Released, Mine, Closing
  <2> QED BY <1>1, <2>1 DEF Frame, Born, Core, TypeOK
<1> QED BY <1>1, <1>2, <1>3, <1>4, <1>5, <1>6, <1>7, <1>8 DEF Core

\* A shell ends by itself, or because of the signal.
LEMMA ShellKeeps ==
  ASSUME Core, NEW s \in Sessions, ShellEnds(s)
  PROVE  Core' /\ Frame
<1>1. /\ TypeOK' /\ SameDicts
      /\ UNCHANGED <<table, ptyOf, reader, cancelled, act, watch, status, asked, ran>>
      /\ \/ proc[s] = "run" /\ proc'[s] = "closing"
         \/ proc[s] \in {"closing", "signalled"} /\ proc'[s] = "dead"
      /\ \A t \in Sessions \ {s} : proc'[t] = proc[t]
  BY ShellDoes DEF Core
<1>2. \A t \in Sessions : /\ Born(t)' <=> Born(t)
                          /\ Exited(t) => Exited(t)'
                          /\ proc'[t] \in {"run", "signalled"} => proc'[t] = proc[t]
  BY <1>1 DEF Born, Exited
<1>3. OneCloser'  BY <1>1 DEF Core, OneCloser, Mine
<1>4. ASSUME NEW b \in Actors PROVE ActorInv(b)'
  <2>1. ActorInv(b)  BY DEF Core
  <2> QED BY <1>1, <1>2, <2>1 DEF ActorInv, Mine, At, Closing, SameDicts
<1>5. ASSUME NEW w \in Watchers PROVE WatchInv(w)'
  BY <1>1, <1>2 DEF Core, WatchInv, SameDicts
<1>6. ASSUME NEW t \in Sessions PROVE SessionInv(t)' /\ Held(t)' /\ Quiet(t)'
  <2>1. SessionInv(t) /\ Held(t) /\ Quiet(t)  BY DEF Core
  <2>2. SessionInv(t)'  BY <1>1, <1>2, <2>1 DEF SessionInv, SameDicts
  <2>3. Held(t)'  BY <1>1, <2>1 DEF Held, InUse, Reading, Mine, SameDicts
  <2>4. Quiet(t)'  BY <1>1, <1>2, <2>1 DEF Quiet, Mine, At
  <2> QED BY <2>2, <2>3, <2>4
<1>7. ReaderKeepsReading' /\ RefreshSparesShell' /\ Marked'
  BY <1>1, <1>2 DEF Core, TypeOK, ReaderKeepsReading, RefreshSparesShell, Marked, Reading
<1>8. Frame
  <2>1. ASSUME NEW t \in Sessions, Released(t)' PROVE Released(t)
    BY <1>1, <1>2, <2>1 DEF Released, Born, Mine, Closing
  <2> QED BY <1>1, <1>2, <2>1 DEF Frame, Core, TypeOK
<1> QED BY <1>1, <1>3, <1>4, <1>5, <1>6, <1>7, <1>8 DEF Core

\* A step that changes nothing the invariant's core is about keeps it.
LEMMA StillKeeps ==
  ASSUME Core, threads' \subseteq Sessions,
         UNCHANGED <<table, state, proc, ptyOf, reader, cancelled, act, watch, open, status,
                     asked, ran>>
  PROVE  Core' /\ Frame
<1>1. TypeOK' /\ OneCloser'
  BY DEF Core, TypeOK, OneCloser, Mine
<1>2. \A a \in Actors : ActorInv(a)'
  BY DEF Core, ActorInv, Mine, At, Born, Exited
<1>3. \A w \in Watchers : WatchInv(w)'
  BY DEF Core, WatchInv, Born
<1>4. \A s \in Sessions : SessionInv(s)' /\ Held(s)' /\ Quiet(s)'
  BY DEF Core, SessionInv, Held, InUse, Quiet, Born, Reading, Mine, At
<1>5. ReaderKeepsReading' /\ RefreshSparesShell' /\ Marked'
  BY DEF Core, ReaderKeepsReading, RefreshSparesShell, Marked, Reading
<1>6. Frame
  BY DEF Frame, Born, Released, Mine, Core, TypeOK
<1> QED BY <1>1, <1>2, <1>3, <1>4, <1>5, <1>6 DEF Core

\* Messages that close nothing, and requests that find nothing.
LEMMA HandleKeeps ==
  ASSUME Core, NEW c \in Conns, Handle(c)
  PROVE  Core' /\ Frame
<1>1. c \in Actors /\ ActorInv(c) /\ TypeOK  BY DEF Actors, Core
<1>2. CASE \E s \in Sessions \cup {None} : Open(c, s)
  <2>1. PICK s \in Sessions \cup {None} : Open(c, s)  BY <1>2
  <2>2. /\ TypeOK'
        /\ \/ At(c, "idle") /\ Becomes(c, "create", Mine(c), act[c].proj) /\ Rest(c)
           \/ s \in Sessions /\ Exited(s) /\ Pops(c, s, "idle", asked)
           \/ /\ At(c, "idle") /\ s \in table /\ Becomes(c, "serve", s, act[c].proj) /\ Rest(c)
    BY <1>1, <2>1, OpenDoes
  <2>3. CASE s \in Sessions /\ Exited(s) /\ Pops(c, s, "idle", asked)
    BY <1>1, <2>2, <2>3, PopsKeep
  <2>4. CASE ~(s \in Sessions /\ Exited(s) /\ Pops(c, s, "idle", asked))
    <3>1. Turns(c)  BY <2>2, <2>4 DEF Turns, At, Closing
    <3> QED BY <1>1, <2>2, <3>1, TurnsKeep
  <2> QED BY <2>3, <2>4
<1>3. CASE Drop(c) \/ Disconnect(c) \/ Closed(c)
  <2>1. /\ TypeOK' /\ Rest(c)
        /\ \/ act' = act
           \/ At(c, "serve") /\ Becomes(c, "done", Mine(c), act[c].proj)
    BY <1>1, <1>3, LeaveDoes
  <2>2. Turns(c)  BY <2>1 DEF Turns, At, Closing
  <2> QED BY <1>1, <2>1, <2>2, TurnsKeep
<1>4. CASE Close(c)
  <2>1. TypeOK' /\ Pops(c, Mine(c), "serve", asked \cup {Mine(c)}) /\ Mine(c) \in Sessions
    BY <1>1, <1>4, CloseDoes DEF ActorInv, Close, Present, At
  <2> QED BY <1>1, <2>1, PopsKeep
<1>5. CASE \E p \in Projects : RunForeground(c, p)
  <2>1. PICK p \in Projects : RunForeground(c, p)  BY <1>5
  <2>2. TypeOK' /\ At(c, "serve") /\ Rest(c) /\ Becomes(c, "typing", Mine(c), p)
    BY <1>1, <2>1, RunForegroundDoes
  <2>3. Turns(c)  BY <2>2 DEF Turns, At, Closing
  <2> QED BY <1>1, <2>2, <2>3, TurnsKeep
<1> QED BY <1>2, <1>3, <1>4, <1>5, CreateKeeps, TypeKeeps, PendingKeeps DEF Handle

\* Whatever happens, the core of the invariant holds afterwards.
LEMMA CoreKept ==
  ASSUME Core, Next
  PROVE  Core' /\ Frame
<1>1. ASSUME NEW a \in Actors, Closer(a) PROVE Core' /\ Frame
  <2>1. CASE Notify(a)
    <3>1. TypeOK' /\ Rest(a) /\ UNCHANGED act  BY <2>1, NotifyDoes DEF Core
    <3>2. Turns(a)  BY <3>1 DEF Turns
    <3> QED BY <3>1, <3>2, TurnsKeep
  <2> QED BY <1>1, <2>1, CancelKeeps, ReapKeeps, MarkStoppedKeeps DEF Closer
<1>2. ASSUME NEW h \in Closers, NEW s \in Sessions, CloseCall(h, s) PROVE Core' /\ Frame
  <2>1. h \in Actors  BY DEF Actors
  <2>2. /\ TypeOK'
        /\ \/ Pops(h, s, "idle", asked \cup {s})
           \/ At(h, "idle") /\ Becomes(h, "done", Mine(h), act[h].proj) /\ Rest(h)
    BY <1>2, CloseCallDoes DEF Core
  <2>3. CASE Pops(h, s, "idle", asked \cup {s})
    BY <2>1, <2>2, <2>3, PopsKeep
  <2>4. CASE At(h, "idle") /\ Becomes(h, "done", Mine(h), act[h].proj) /\ Rest(h)
    <3>1. Turns(h)  BY <2>4 DEF Turns, At, Closing
    <3> QED BY <2>1, <2>2, <3>1, TurnsKeep
  <2> QED BY <2>2, <2>3, <2>4
<1>3. ASSUME NEW s \in Sessions, ThreadReturns(s) PROVE Core' /\ Frame
  <2>1. threads' \subseteq Sessions  BY <1>3 DEF ThreadReturns, Core, TypeOK
  <2> QED BY <1>3, <2>1, StillKeeps DEF ThreadReturns, tasks, history
<1> QED BY <1>1, <1>2, <1>3, HandleKeeps, WatchKeeps, ReaderKeeps, ShellKeeps DEF Next

\* Only a session that is made enters the table and gets a reader, and only the
\* reader of a session that left the table leaves a thread behind.
LEMMA LingeringKept ==
  ASSUME Core, Lingering, Next
  PROVE  Lingering'
<1>1. table \subseteq Sessions /\ reader \in [Sessions -> {"unborn", "start", "select", "send", "ended"}]
  BY DEF Core, TypeOK
<1>2. \A s \in threads : s \in Sessions /\ Born(s)
  BY DEF Core, TypeOK, Lingering, SessionInv
<1>3. ASSUME UNCHANGED <<reader, threads>>, table' \subseteq table PROVE Lingering'
  BY <1>3 DEF Lingering
<1>4. ASSUME NEW a \in Actors, Closer(a) PROVE Lingering'
  <2>1. UNCHANGED <<reader, threads>> /\ table' = table
    BY <1>4 DEF Closer, Notify, Cancel, Reap, MarkStopped, machine
  <2> QED BY <1>3, <2>1
<1>5. ASSUME NEW h \in Closers, NEW s \in Sessions, CloseCall(h, s) PROVE Lingering'
  <2>1. UNCHANGED <<reader, threads>> /\ table' \subseteq table
    BY <1>5 DEF CloseCall, Pop, machine
  <2> QED BY <1>3, <2>1
<1>6. ASSUME NEW c \in Conns, Handle(c) PROVE Lingering'
  <2>1. CASE ~Create(c)
    <3>1. UNCHANGED <<reader, threads>> /\ table' \subseteq table
      BY <1>6, <2>1 DEF Handle, Open, Drop, Disconnect, Closed, Close, RunForeground, Type,
                        Pending, Pop, machine
    <3> QED BY <1>3, <3>1
  <2>2. CASE Create(c) /\ UNCHANGED <<table, state, machine, reader>>
    BY <1>3, <2>2 DEF machine
  <2>3. CASE Create(c) /\ ~UNCHANGED <<table, state, machine, reader>>
    <3>1. PICK s \in Sessions : /\ ~Born(s) /\ UNCHANGED threads /\ table' = table \cup {s}
                                /\ reader' = [reader EXCEPT ![s] = "start"]
      BY <2>3 DEF Create, Born
    <3> QED BY <1>1, <1>2, <3>1 DEF Lingering
  <2> QED BY <2>1, <2>2, <2>3
<1>7. ASSUME NEW w \in Watchers, Watch(w) PROVE Lingering'
  <2>1. UNCHANGED <<reader, threads>> /\ table' = table
    BY <1>7 DEF Watch, Probe, MarkRunning, SetForeground, WatchCancelled, machine
  <2> QED BY <1>3, <2>1
<1>8. ASSUME NEW s \in Sessions, Reader(s) PROVE Lingering'
  <2>1. table' = table /\ Reading(s) /\ \A t \in Sessions \ {s} : reader'[t] = reader[t]
    BY <1>8, ReaderDoes DEF Core
  <2>2. s \notin threads  BY <2>1 DEF Lingering, Reading
  <2>3. CASE ReaderCancelled(s)
    <3>1. s \notin table  BY <2>3 DEF ReaderCancelled, Core, SessionInv
    <3>2. reader'[s] = "ended" /\ threads' \subseteq threads \cup {s}
      BY <1>1, <2>3 DEF ReaderCancelled
    <3> QED BY <1>2, <2>1, <3>1, <3>2 DEF Lingering
  <2>4. CASE ~ReaderCancelled(s)
    <3>1. UNCHANGED threads  BY <1>8, <2>4 DEF Reader, ReadTurn, Select, Broadcast, machine
    <3> QED BY <1>2, <2>1, <2>2, <3>1 DEF Lingering
  <2> QED BY <2>3, <2>4
<1>9. ASSUME NEW s \in Sessions, ThreadReturns(s) \/ ShellEnds(s) PROVE Lingering'
  BY <1>9 DEF ThreadReturns, ShellEnds, Lingering
<1> QED BY <1>4, <1>5, <1>6, <1>7, <1>8, <1>9 DEF Next

\* A closed session leaves its project stopped: the watchers it tracked were told to
\* end before the project is marked, and no other session ran the project.
LEMMA StoppedKept ==
  ASSUME Core, Core', Frame, Stopped
  PROVE  Stopped'
<1> SUFFICES ASSUME NEW s \in Sessions, NEW p \in Projects,
                    Released(s)', RanAlone(s, p)', status'[p] # 0
             PROVE  FALSE
  BY DEF Stopped
<1>1. status'[p] = 1  BY DEF Core, TypeOK
<1>2. /\ \A t \in Sessions : ran[t] \subseteq ran'[t]
      /\ ran'[s] = {p} /\ \A t \in Sessions \ {s} : p \notin ran'[t]
      /\ \A v \in Watchers : watch'[v].proj = p => watch'[v].tracked
  BY DEF RanAlone, Frame
<1>3. ASSUME NEW v \in Watchers, watch[v].at # "free", watch[v].proj = p
      PROVE  watch[v].sess = s /\ watch[v].tracked /\ Born(s) /\ state[s].foreground = p
  <2>1. WatchInv(v)  BY DEF Core
  <2>2. watch'[v].proj = p /\ watch'[v].tracked = watch[v].tracked
    BY <1>3 DEF Frame
  <2>3. watch[v].tracked  BY <1>2, <2>2
  <2>4. /\ watch[v].sess \in Sessions /\ Born(watch[v].sess) /\ p \in ran[watch[v].sess]
        /\ state[watch[v].sess].foreground # None
    BY <1>3, <2>1, <2>3 DEF WatchInv
  <2>5. watch[v].sess = s  BY <1>2, <2>4
  <2>6. state[s].foreground \in ran[s]
    BY <2>4, <2>5 DEF Core, SessionInv
  <2> QED BY <1>2, <2>3, <2>4, <2>5, <2>6
<1>4. PICK w \in Watchers : watch'[w].proj = p /\ watch'[w].at \in {"bind", "ended"}
  BY <1>1 DEF Core, Marked
<1>5. watch[w].at # "free" /\ watch[w].proj = p
  BY <1>4 DEF Frame
<1>6. Born(s) /\ state[s].foreground = p /\ p # None
  BY <1>3, <1>5, TerminalConstants
<1>7. Released(s)
  BY <1>1, <1>6 DEF Frame
<1>8. RanAlone(s, p)
  <2>1. ran[s] = {p}
    <3>1. p \in ran[s]  BY <1>6 DEF Core, SessionInv
    <3> QED BY <1>2, <3>1
  <2>2. \A t \in Sessions \ {s} : p \notin ran[t]  BY <1>2
  <2>3. ASSUME NEW v \in Watchers, watch[v].proj = p PROVE watch[v].tracked
    <3>1. watch[v].at # "free"  BY <1>6, <2>3 DEF Core, WatchInv
    <3> QED BY <1>3, <2>3, <3>1
  <2> QED BY <2>1, <2>2, <2>3 DEF RanAlone
<1>9. status[p] = 0
  BY <1>7, <1>8 DEF Stopped
<1>10. PICK v \in Watchers : watch[v].proj = p /\ watch[v].at = "mark" /\ ~watch[v].cancelled
  BY <1>1, <1>9 DEF Frame
<1>11. watch[v].sess = s /\ watch[v].tracked
  BY <1>3, <1>10
<1>12. Quiet(s)  BY DEF Core
<1>13. s \notin table /\ \A a \in Actors : Mine(a) = s => ~At(a, "notify")
  BY <1>7 DEF Released, At, Closing
<1> QED BY <1>6, <1>10, <1>11, <1>12, <1>13 DEF Quiet

-----------------------------------------------------------------------------
(* The theorems.                                                           *)

\* Every step keeps the invariant.
LEMMA NextKeeps == IInv /\ [Next]_vars => IInv'
<1>1. ASSUME IInv, Next PROVE IInv'
  <2>1. Core' /\ Frame  BY <1>1, CoreKept DEF IInv
  <2>2. Lingering'  BY <1>1, LingeringKept DEF IInv
  <2> QED BY <1>1, <2>1, <2>2, StoppedKept DEF IInv
<1>2. ASSUME IInv, UNCHANGED vars PROVE IInv'
  <2>1. /\ UNCHANGED <<table, state, proc, ptyOf, reader, cancelled, act, watch, open, status,
                       asked, ran>>
        /\ UNCHANGED threads /\ Core
    BY <1>2 DEF vars, machine, tasks, history, IInv
  <2>2. Core'
    <3>1. threads' \subseteq Sessions  BY <2>1 DEF Core, TypeOK
    <3> QED BY <2>1, <3>1, StillKeeps
  <2>3. Stopped' /\ Lingering'
    BY <1>2, <2>1 DEF IInv, Stopped, Released, RanAlone, Mine, Born, Lingering
  <2> QED BY <2>2, <2>3 DEF IInv
<1> QED BY <1>1, <1>2

\* The inductive invariant holds in every state of the terminals.
THEOREM Invariance == Spec => []IInv
BY InitInv, NextKeeps, PTL DEF Spec

\* The terminals are well typed: a session in the table has a shell, a descriptor
\* and an owner.
THEOREM TypeCorrect == Spec => []TypeOK
<1>1. IInv => TypeOK  BY DEF IInv, Core
<1> QED BY <1>1, Invariance, PTL

\* The descriptor of a session in the table, or of one whose reader task may yet read
\* from it, is the session's own terminal; a thread that has outlived its task belongs
\* to a session that is out of the table and that nobody reads any more.
THEOREM OwnDescriptor == Spec => []DescriptorsOwned
<1>1. IInv => DescriptorsOwned
  BY DEF IInv, Core, TypeOK, Held, InUse, DescriptorsOwned, Lingering, Reading
<1> QED BY <1>1, Invariance, PTL

\* Output is read as long as the shell has its terminal, whatever the browsers do.
THEOREM OutputIsRead == Spec => []ReaderKeepsReading
<1>1. IInv => ReaderKeepsReading  BY DEF IInv, Core
<1> QED BY <1>1, Invariance, PTL

\* Only a user who asked for the end of a session has its shell signalled.
THEOREM RefreshIsHarmless == Spec => []RefreshSparesShell
<1>1. IInv => RefreshSparesShell  BY DEF IInv, Core
<1> QED BY <1>1, Invariance, PTL

\* A project that only one session ran, and all of whose watchers were tracked, is not
\* marked running once the session was closed and released.
THEOREM CloseStops == Spec => []ClosedIsStopped
<1>1. IInv => ClosedIsStopped
  BY DEF IInv, Stopped, RanAlone, ClosedIsStopped
<1> QED BY <1>1, Invariance, PTL

=============================================================================
