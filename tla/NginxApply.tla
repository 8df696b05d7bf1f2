----------------------------- MODULE NginxApply -----------------------------
(***************************************************************************)
(* Changing an Nginx configuration file: utils/pspm/nginx_apply.py.        *)
(*                                                                         *)
(* On the server that runs the platform the file is read, transformed,     *)
(* copied to conf_bak and written without an await; nginx -t and the       *)
(* reload are awaited, each followed by a rollback if it failed.  On       *)
(* another server the text is read by one command and transformed here;    *)
(* the script that should write it uses five Python modules and imports    *)
(* none of them, so it ends with a NameError in its first line.            *)
(***************************************************************************)
EXTENDS NginxText

CONSTANTS
  Serial     \* whether a request only comes when no other is at work

VARIABLES
  local,     \* the file is on the server that runs the platform
  conf,      \* the file
  bak,       \* conf_bak: a successful change leaves its copy behind
  live,      \* what the running nginx has loaded of it
  at,        \* at[r]: the position of request r
  existed,   \* the requests that found a file to copy
  outcome,   \* outcome[r]: what its caller was told
  late       \* history: requests whose reload was given up and yet took place

file == <<local, conf, bak, live, late>>
vars == <<file, at, existed, outcome>>

Working == {"sent", "test", "reload"}

TypeOK ==
  /\ local \in BOOLEAN
  /\ conf \in Content /\ bak \in Content /\ live \in Content
  /\ at \in [Requests -> Working \cup {"idle", "done"}]
  /\ existed \subseteq Requests /\ late \subseteq Requests
  /\ outcome \in [Requests -> {"none", "ok", "failed", "cut"}]

Init ==
  /\ local \in BOOLEAN
  /\ conf \in {c \in Content : Valid(c)} /\ live = conf
  /\ bak \in {Missing, Blank}
  /\ at = [r \in Requests |-> "idle"]
  /\ existed = {} /\ late = {}
  /\ outcome = [r \in Requests |-> "none"]

Quiet == \A r \in Requests : at[r] \notin Working
Comes(r) == at[r] = "idle" /\ (Serial => Quiet)
GoTo(r, label) == at' = [at EXCEPT ![r] = label]

Ends(r, verdict) ==
  /\ at' = [at EXCEPT ![r] = "done"]
  /\ outcome' = [outcome EXCEPT ![r] = verdict]

\* The path is not fit, or the directory or the server is out of reach.
Refuse(r) ==
  /\ Comes(r)
  /\ Ends(r, "failed")
  /\ UNCHANGED <<file, existed>>

\* The text cannot be written: the copy, if there is one, takes its place.
CannotWrite(r) ==
  /\ Comes(r) /\ local
  /\ bak' = Missing
  /\ Ends(r, "failed")
  /\ UNCHANGED <<local, conf, live, late, existed>>

-----------------------------------------------------------------------------
(* Writing.                                                                *)

Found(r) == existed' = IF conf = Missing THEN existed \ {r} ELSE existed \cup {r}

ApplyLocal(r) ==
  /\ Comes(r) /\ local
  /\ Found(r)
  /\ bak' = conf
  /\ conf' = Change(r, conf)
  /\ GoTo(r, "test")
  /\ UNCHANGED <<local, live, late, outcome>>

\* The text on another server was read, and the script is on its way.
ReadRemote(r) ==
  /\ Comes(r) /\ ~local
  /\ GoTo(r, "sent")
  /\ UNCHANGED <<file, existed, outcome>>

\* The script ends before it touches a file: json, sys, os, pathlib and subprocess
\* are names without an import.
ScriptFails(r) ==
  /\ at[r] = "sent"
  /\ Ends(r, "failed")
  /\ UNCHANGED <<file, existed>>

-----------------------------------------------------------------------------
(* Testing, reloading and taking back.                                     *)

\* Mutant: the copy is put back whether or not it is of this file.
RollbackAnyCopy(r) ==
  IF bak # Missing THEN conf' = bak /\ bak' = Missing ELSE UNCHANGED <<conf, bak>>
\* The file is removed; if there was one and the copy is there, that takes its place.
Rollback(r) ==
  IF r \in existed /\ bak # Missing THEN conf' = bak /\ bak' = Missing
                                    ELSE conf' = Missing /\ UNCHANGED bak

\* nginx -t may fail for reasons of its own, but passes no invalid file.
Test(r) ==
  /\ at[r] = "test"
  /\ \/ Valid(conf) /\ GoTo(r, "reload") /\ UNCHANGED <<conf, bak, outcome>>
     \/ Rollback(r) /\ Ends(r, "failed")
  /\ UNCHANGED <<local, live, late, existed>>

\* Mutant: the reload is not waited for.
ReloadUnchecked(r) ==
  /\ at[r] = "reload"
  /\ live' \in {live, conf}
  /\ Ends(r, "ok")
  /\ UNCHANGED <<local, conf, bak, late, existed>>

\* A reload that fails has not taken place, unless it only took too long.
Reload(r) ==
  /\ at[r] = "reload"
  /\ \/ /\ Valid(conf) /\ live' = conf
        /\ Ends(r, "ok") /\ UNCHANGED <<conf, bak, late>>
     \/ /\ \/ UNCHANGED <<live, late>>
           \/ Valid(conf) /\ live' = conf /\ late' = late \cup {r}
        /\ Rollback(r) /\ Ends(r, "failed")
  /\ UNCHANGED <<local, existed>>

\* The platform's process ends, and with it the requests it is at work on.
Crash ==
  LET cut == {r \in Requests : at[r] \in Working}
  IN  /\ ~Quiet
      /\ at' = [r \in Requests |-> IF r \in cut THEN "done" ELSE at[r]]
      /\ outcome' = [r \in Requests |-> IF r \in cut THEN "cut" ELSE outcome[r]]
      /\ UNCHANGED <<file, existed>>

Next ==
  \/ \E r \in Requests :
       \/ Refuse(r) \/ CannotWrite(r) \/ ApplyLocal(r) \/ ReadRemote(r)
       \/ ScriptFails(r) \/ Test(r) \/ Reload(r)
  \/ Crash

Spec == Init /\ [][Next]_vars

-----------------------------------------------------------------------------
(* What the changes promise.                                               *)

\* The file as the callers see it: a change at work has not been made yet.
Visible ==
  IF \E r \in Requests : at[r] \in {"test", "reload"}
    THEN LET r == CHOOSE q \in Requests : at[q] \in {"test", "reload"}
         IN IF r \in existed THEN bak ELSE Missing
    ELSE conf

Atomic == INSTANCE NginxConf WITH text <- Visible

\* One after the other (Serial), the changes are atomic: each is made as a whole and
\* only if nginx accepts it, or the file with its copies and its rollbacks comes back
\* to what it was; a crash leaves one or the other.
ChangesAreAtomic == Atomic!Spec

\* Changes that come one after the other (Serial) leave nginx running what the file
\* says whenever none is at work: a file that was taken back is also the one that
\* is loaded.  The exceptions are overlapping changes, a crash before the reload and
\* a reload that is taken for failed.
NginxRunsTheFile ==
  Quiet /\ late = {} /\ (\A r \in Requests : outcome[r] # "cut") => live = conf

\* "Failed and rolled back" is what the message says: when all changes have failed
\* and nothing was loaded, the file is the one that nginx still runs.
FailuresKeepTheFile ==
  Quiet /\ late = {} /\ (\A r \in Requests : outcome[r] \in {"none", "failed"})
    => conf = live
=============================================================================
