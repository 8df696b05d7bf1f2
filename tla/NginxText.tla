------------------------------ MODULE NginxText ------------------------------
(***************************************************************************)
(* An Nginx configuration file as far as the platform is concerned: the    *)
(* server block that carries the mark of each project, with the port it    *)
(* listens on, and what a request does to it (nginx_server_blocks.py).     *)
(***************************************************************************)
CONSTANTS
  Projects,
  Ports,
  NoBlock,      \* the file has no server block of the project
  Broken,       \* ports that stand for a block that nginx -t rejects
  Missing,      \* there is no such file
  Requests,
  ProjOf,       \* ProjOf[r]: the project that request r is about
  PortOf        \* PortOf[r]: the block r writes, or NoBlock when it removes it

ASSUME TextConstants ==
  /\ NoBlock \notin Ports /\ Broken \subseteq Ports
  /\ ProjOf \in [Requests -> Projects]
  /\ PortOf \in [Requests -> Ports \cup {NoBlock}]

Text == [Projects -> Ports \cup {NoBlock}]
Blank == [p \in Projects |-> NoBlock]
Content == Text \cup {Missing}

\* nginx accepts a file that is not there: an include pattern just misses it.
Valid(content) ==
  {p \in Projects : content # Missing /\ content[p] \in Broken} = {}

\* Mutant: a removal drops the text behind the block.
ChangeCutsTail(r, content) ==
  [p \in (IF PortOf[r] = NoBlock THEN {} ELSE Projects) |->
     IF p = ProjOf[r] \/ content = Missing THEN PortOf[r] ELSE content[p]]

\* _replace_or_append_project_server_block and _remove_project_server_blocks; a
\* missing file is read as the empty text.
Change(r, content) ==
  [(IF content = Missing THEN Blank ELSE content) EXCEPT ![ProjOf[r]] = PortOf[r]]
=============================================================================
