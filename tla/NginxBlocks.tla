----------------------------- MODULE NginxBlocks -----------------------------
(***************************************************************************)
(* The server blocks of projects in Nginx configuration files: how they    *)
(* are found, marked, replaced and removed (nginx_server_blocks.py), which *)
(* files are looked at (nginx_inventory.py, nginx_remote_inventory.py,     *)
(* nginx_utils.py), and what creation, settings, deletion and              *)
(* synchronisation do with them.                                           *)
(*                                                                         *)
(* A file is a sequence of lines.  Only the lines the program looks for    *)
(* are told apart; "begin" and "end" are an opening and a closing brace    *)
(* that Nginx does not count, in a comment or a string.                    *)
(* A change of a file is one step here: NginxApply says what is in it.     *)
(***************************************************************************)
EXTENDS Integers, Sequences, FiniteSetsExt, SequencesExt

CONSTANTS
  Projects,
  NameOf,        \* NameOf[p]: the name of project p, unique for its owner only
  Safe,          \* Safe[n]: name n with _ for all but letters, digits, _ and -
  Edits(_, _, _),\* Edits(p, f, b): the texts a user may confirm for p and its ports
  Chosen,        \* bound: Chosen[p], what users choose for p, as <<file, frontend, backend>>
  MainConf,      \* the main file of the running Nginx
  Confs,         \* bound: the paths of configuration files
  Pattern,       \* Pattern[i]: an include rule, as [dir, files, conf]
  DirOf,         \* DirOf[c]: the directory of the path c
  Folders,       \* the directories that exist
  Installed,     \* the files at first
  MaxLines,      \* bound: the length of a file
  NoRow, None

VARIABLES
  local,         \* Nginx is on the server that runs the platform
  file,          \* file[c]: its lines; an absent file has none
  row,           \* row[p]: NoRow, or the Nginx fields of the row
  written        \* history: the projects whose block the platform wrote last

vars == <<local, file, row, written>>

-----------------------------------------------------------------------------
(* Finding server blocks.                                                  *)

Opening == {"server", "http", "location"}
Opens == Opening \cup {"begin"}
Closes == {"close", "end"}
Nginx == Opening \cup {"close"}    \* the braces that Nginx counts
Scanner == Opens \cup Closes      \* the braces that the program counts
LineKinds == Scanner \cup {"listen", "proxy", "mark", "legacy", "include", "text"}

Line(kind, of) == [is |-> kind, of |-> of]

IsText(text) ==
  /\ text \in Seq(ToSet(text))
  /\ \A line \in ToSet(text) : /\ line = Line(line.is, line.of) /\ line.is \in LineKinds
                               /\ line.is = "include" => line.of \in DOMAIN Pattern
                               /\ line.is = "server" => line.of = None

\* The depth after line j if these braces count.
Depth(text, counted, j) ==
  Cardinality({k \in 1..j : text[k].is \in Opens \cap counted})
    - Cardinality({k \in 1..j : text[k].is \in Closes \cap counted})

\* The lines from an opening line of this kind to the brace that closes it.
BlocksOf(text, kind, counted) ==
  LET open == {k \in DOMAIN text : text[k].is \in Opens \cap counted}
      shut == {k \in DOMAIN text : text[k].is \in Closes \cap counted}
      Within(lines, i, j) == Cardinality({k \in lines : i <= k /\ k <= j})
      Ends(i) == {j \in shut : i < j /\ Within(open, i, j) = Within(shut, i, j)}
  IN {<<i, CHOOSE j \in Ends(i) : \A k \in Ends(i) : j <= k>> :
        i \in {i \in open : text[i].is = kind /\ Ends(i) # {}}}

\* _find_server_block_ranges: braces count wherever they stand.
Ranges(text) == BlocksOf(text, "server", Scanner)

\* Mutant: any mark will do.
BearsAnyMark(text, r, name) == \E k \in r[1]..r[2] : text[k].is = "mark"

\* _server_block_contains_project, by the name itself.
Bears(text, r, name) == \E k \in r[1]..r[2] : text[k] = Line("mark", name)
Own(text, name) == {r \in Ranges(text) : Bears(text, r, name)}

First(ranges) == CHOOSE r \in ranges : \A q \in ranges : r[1] <= q[1]

PortsIn(text, r, kind) == {text[k].of : k \in {k \in r[1]..r[2] : text[k].is = kind}}

-----------------------------------------------------------------------------
(* Changing them.                                                          *)

\* _build_project_nginx_server_block.
Generated(name, f, b) ==
  << Line("server", None), Line("listen", f), Line("mark", Safe[name]),
     Line("location", None), Line("proxy", b), Line("close", None), Line("close", None) >>

\* The checks of a confirmed text: its blocks together have both ports.
Confirmable(text, f, b) ==
  /\ \E r \in Ranges(text) : f \in PortsIn(text, r, "listen")
  /\ \E r \in Ranges(text) : b \in PortsIn(text, r, "proxy")

LinesOf(text, line) == {k \in DOMAIN text : text[k] = line}

\* Mutant: the mark is put before the block.
MarkedOutside(text, name) ==
  IF LinesOf(text, Line("mark", Safe[name])) # {} THEN text
  ELSE <<Line("mark", Safe[name])>> \o text

\* The rest of _normalize_confirmed_nginx_server_block: the first directive of
\* older versions becomes a mark; without either, the first server gets a mark.
Marked(text, name) ==
  LET mark == Line("mark", Safe[name])
      legacy == LinesOf(text, Line("legacy", Safe[name]))
      servers == LinesOf(text, Line("server", None))
  IN IF legacy # {} THEN [text EXCEPT ![Min(legacy)] = mark]
     ELSE IF LinesOf(text, mark) # {} THEN text
     ELSE InsertAt(text, Min(servers) + 1, mark)

\* Mutant: the new block is always appended.
AlwaysAppend(text, name, new) == text \o new

\* _replace_or_append_project_server_block.
ReplaceOrAppend(text, name, new) ==
  LET own == Own(text, name)
      r == First(own)
  IN IF own = {} THEN text \o new
     ELSE SubSeq(text, 1, r[1] - 1) \o new \o SubSeq(text, r[2] + 1, Len(text))

\* The j-th of these lines.
Nth(lines, j) == CHOOSE k \in lines : Cardinality({l \in lines : l <= k}) = j

\* _remove_project_server_blocks: the other lines, in their order.  The loop goes from
\* one range to the next, so it keeps what lies behind the last one that began before.
RemoveBlocks(text, name) ==
  LET own == Own(text, name)
      kept == {k \in DOMAIN text :
                 \A r \in own : k \in r[1]..r[2] => \E q \in own : r[1] < q[1] /\ q[2] < k}
  IN [j \in 1..Cardinality(kept) |-> text[Nth(kept, j)]]

-----------------------------------------------------------------------------
(* The files of the inventory.                                             *)

\* The include rules outside of every block of these lines; comments do not count.
Direct(text) ==
  {text[k].of : k \in {k \in DOMAIN text :
     text[k].is = "include" /\ Depth(text, Nginx, k) = 0}}

\* ... of the main file: at its top and directly in an http block.
Includes ==
  LET lines == file[MainConf] IN
    Direct(lines) \cup UNION {Direct(SubSeq(lines, r[1] + 1, r[2] - 1)) :
                               r \in BlocksOf(lines, "http", Nginx)}

\* The script for another server uses glob without importing it: it ends with an
\* error as soon as there is an include rule to expand.
InventoryWorks == local \/ Includes = {}

Exists(c) == file[c] # <<>>

ListedFiles ==
  {MainConf} \cup {c \in Confs : Exists(c) /\ \E i \in Includes : c \in Pattern[i].files}

\* A rule for .conf files lets new files be made in its directory.
NewDirs == {Pattern[i].dir : i \in {i \in Includes : Pattern[i].conf}} \cap Folders

\* _validate_requested_nginx_conf_path.
Selectable(c) == InventoryWorks /\ (c \in ListedFiles \/ DirOf[c] \in NewDirs)

PortsOf(c, name) ==
  UNION {PortsIn(file[c], r, "listen") \cup PortsIn(file[c], r, "proxy") :
           r \in {r \in Ranges(file[c]) : ~Bears(file[c], r, name)}}

\* Mutant: only the main file is searched.
PortsOfMain(name) == PortsOf(MainConf, name)

\* _check_nginx_port_conflict as creation and settings call it: the ports in every
\* listed file, blocks with the mark of the project excepted.
TakenPorts(name) == UNION {PortsOf(c, name) : c \in ListedFiles}

PortsFit(p, f, b) == f # b /\ {f, b} \cap TakenPorts(NameOf[p]) = {}

-----------------------------------------------------------------------------
(* The requests.                                                           *)

\* What nginx -t says of it: braces match, a server is not in a server and neither is
\* http, and servers of the main file are in http.
Accepts(c, text) ==
  /\ \A k \in DOMAIN text : Depth(text, Nginx, k) >= 0
  /\ Depth(text, Nginx, Len(text)) = 0
  /\ \A s \in BlocksOf(text, "server", Nginx), k \in DOMAIN text :
       s[1] < k /\ k < s[2] => text[k].is \notin {"server", "http"}
  /\ c = MainConf => \A s \in LinesOf(text, Line("server", None)) :
                        \E h \in BlocksOf(text, "http", Nginx) : s \in h[1]..h[2]

\* A change of a file; on another server it never succeeds (NginxApply).
Apply(c, text) ==
  local /\ Accepts(c, text) /\ Len(text) <= MaxLines /\ file' = [file EXCEPT ![c] = text]

Fields(c, f, b) == [conf |-> c, front |-> f, back |-> b]
Unbound == Fields(None, None, None)

\* What replaces a character is none that is replaced.  The running Nginx has accepted
\* its files, and a browser confirms texts.
ASSUME BlockConstants ==
  /\ NameOf \in [Projects -> DOMAIN Safe]
  /\ \A n \in DOMAIN Safe : Safe[n] \in DOMAIN Safe => Safe[Safe[n]] = Safe[n]
  /\ MainConf \in Confs /\ None \notin Confs /\ Installed = [c \in Confs |-> Installed[c]]
  /\ \A c \in Confs : IsText(Installed[c]) /\ Accepts(c, Installed[c])
  /\ NoRow # Unbound /\ \A p \in Projects : \A w \in Chosen[p] :
       /\ w = <<w[1], w[2], w[3]>> /\ w[1] \in Confs /\ NoRow # Fields(w[1], w[2], w[3])
       /\ \A text \in Edits(p, w[2], w[3]) : IsText(text)

TypeOK ==
  /\ local \in BOOLEAN
  /\ \A c \in Confs : IsText(file[c])
  /\ \A p \in Projects : row[p] \notin {NoRow, Unbound} =>
       <<row[p].conf, row[p].front, row[p].back>> \in Chosen[p]
  /\ written \subseteq {p \in Projects : row[p] \notin {NoRow, Unbound}}

Init ==
  /\ local \in BOOLEAN
  /\ file = Installed
  /\ row = [p \in Projects |-> NoRow]
  /\ written = {}

Bind(p, fields) == row' = [row EXCEPT ![p] = fields]

\* Creation with Nginx needs a confirmed text; without Nginx no file is touched.
Create(p, c, f, b) ==
  /\ row[p] = NoRow
  /\ \E text \in Edits(p, f, b) :
       /\ Confirmable(text, f, b)
       /\ Apply(c, ReplaceOrAppend(file[c], NameOf[p], Marked(text, NameOf[p])))
  /\ Bind(p, Fields(c, f, b)) /\ written' = written \cup {p}
  /\ UNCHANGED local

CreatePlain(p) == row[p] = NoRow /\ Bind(p, Unbound) /\ UNCHANGED <<local, file, written>>

\* The row could not be inserted: rollback_all removes what carries the mark.
CreateUndone(p, c, f, b) ==
  /\ row[p] = NoRow
  /\ \E text \in Edits(p, f, b) :
       LET made == ReplaceOrAppend(file[c], NameOf[p], Marked(text, NameOf[p])) IN
         /\ Confirmable(text, f, b)
         /\ Accepts(c, made) /\ Apply(c, RemoveBlocks(made, NameOf[p]))
  /\ UNCHANGED <<local, row, written>>

SameBinding(p, c, f, b) == row[p].conf = c /\ row[p].front = f /\ row[p].back = b

\* What settings with Nginx on may write: a text that was confirmed, or the default.
SetTexts(p, f, b) ==
  {Generated(NameOf[p], f, b)}
    \cup {Marked(t, NameOf[p]) : t \in {t \in Edits(p, f, b) : Confirmable(t, f, b)}}

\* The file is written, the block leaves the file it was in before if the user
\* wants that, and then the row is updated.  A text that is the row's already is
\* not written again, which comes to the same.
Set(p, c, f, b, drop) ==
  /\ local /\ row[p] # NoRow /\ (SameBinding(p, c, f, b) => drop)
  /\ \E text \in SetTexts(p, f, b) :
       LET old == IF drop /\ row[p].conf \notin {None, c} THEN row[p].conf ELSE c
           made == [file EXCEPT ![c] = ReplaceOrAppend(@, NameOf[p], text)]
           left == IF old = c THEN made ELSE [made EXCEPT ![old] = RemoveBlocks(@, NameOf[p])]
       IN /\ Accepts(c, made[c]) /\ Len(made[c]) <= MaxLines
          /\ \/ /\ Accepts(old, left[old]) /\ file' = left
                /\ Bind(p, Fields(c, f, b)) /\ written' = written \cup {p}
             \* the old block cannot be removed: the row stays as it was
             \/ old # c /\ file' = made /\ UNCHANGED <<row, written>>
  /\ UNCHANGED local

\* Mutant: the ports stay in the row.
ForgetConf(p) == Bind(p, [row[p] EXCEPT !.conf = None])

Forget(p) == Bind(p, Unbound)

\* Settings with Nginx off: the row forgets its block, which goes only on demand.
Unset(p, drop) ==
  /\ row[p] # NoRow
  /\ LET old == row[p].conf IN
       IF drop /\ old # None THEN Apply(old, RemoveBlocks(file[old], NameOf[p])) ELSE UNCHANGED file
  /\ Forget(p) /\ written' = written \ {p}
  /\ UNCHANGED local

\* Deletion, with the scope Nginx or without; it needs no inventory.
Delete(p, whole) ==
  /\ row[p] # NoRow
  /\ LET c == IF row[p].conf = None THEN MainConf ELSE row[p].conf IN
       IF whole THEN Apply(c, RemoveBlocks(file[c], NameOf[p])) ELSE UNCHANGED file
  /\ Bind(p, NoRow) /\ written' = written \ {p}
  /\ UNCHANGED local

\* Synchronisation binds a block with both ports and leaves the file as it is.
Sync(p, c, f, b) ==
  /\ row[p] = NoRow /\ Selectable(c) /\ Exists(c)
  /\ \E r \in Ranges(file[c]) : /\ f \in PortsIn(file[c], r, "listen")
                                /\ b \in PortsIn(file[c], r, "proxy")
  /\ Bind(p, Fields(c, f, b))
  /\ UNCHANGED <<local, file, written>>

\* A block is written after the checks of the file and of both ports.
WriteBlock(p, c, f, b) ==
  /\ Selectable(c) /\ PortsFit(p, f, b)
  /\ \/ Create(p, c, f, b) \/ CreateUndone(p, c, f, b)
     \/ \E drop \in BOOLEAN : Set(p, c, f, b, drop)

Act(p) ==
  \/ CreatePlain(p)
  \/ \E drop \in BOOLEAN : Unset(p, drop) \/ Delete(p, drop)
  \/ \E w \in Chosen[p] : Sync(p, w[1], w[2], w[3]) \/ WriteBlock(p, w[1], w[2], w[3])

Next == \E p \in Projects : Act(p)
Spec == Init /\ [][Next]_vars

-----------------------------------------------------------------------------
(* Properties.                                                             *)

\* The program counts braces that Nginx does not.  It ends every server where Nginx
\* does, or before, if the comments and strings of a server open no more braces than
\* they close; if they do, its range takes in what follows, or it has none.
CommentsClose(text) ==
  \A s \in BlocksOf(text, "server", Nginx) :
    Depth(text, Scanner, s[2]) <= Depth(text, Scanner, s[1] - 1)

\* The properties below are about files and confirmed texts of which CommentsClose
\* holds.  They do not hold without it: after a server by hand with "# location /x {"
\* comes the block of a project, the range of the first takes in the second, and the
\* next change of settings replaces both.

\* The mark is the only means by which later requests find the block of a project
\* (nginx_server_blocks.py:165): a block that the platform wrote stands, with its
\* mark, in the file that the row names, and that file is one of the inventory.
FoundAgain ==
  \A p \in written : /\ Own(file[row[p].conf], NameOf[p]) # {}
                     /\ row[p].conf \in ListedFiles

\* The server blocks as Nginx reads them, those with the mark of a name left out.
Strangers(text, name) ==
  {SubSeq(text, r[1], r[2]) : r \in
     {r \in BlocksOf(text, "server", Nginx) :
        \A k \in r[1]..r[2] : text[k] # Line("mark", name)}}

\* A request only takes away or changes blocks with the mark of one project: blocks
\* written by hand, and those of others, stay as Nginx reads them, though the program
\* may see less of them (nginx_server_blocks.py:50-51, 178).
OthersUntouched ==
  [][\E n \in DOMAIN Safe : \A c \in Confs : file[c]' # file[c] =>
       Strangers(file[c], n) \subseteq Strangers(file[c], n)']_file

\* Two projects with a block of their own never share a port: each request sees
\* the blocks of all earlier ones, through settings, moves to another file,
\* requests cut short, and deletions that leave the block (nginx_utils.py:238-279).
PortsApart ==
  \A p, q \in written : p # q =>
    {row[p].front, row[p].back} \cap {row[q].front, row[q].back} = {}

\* A file never has two blocks with one mark: otherwise settings would change the
\* first one only.  NginxText and ProjectLifecycle take this for granted.
OneBlockPerMark ==
  \A c \in Confs, p \in Projects :
    \A r, q \in Own(file[c], NameOf[p]) : r = q

-----------------------------------------------------------------------------
(* What the proofs suppose, and the program does not check.                *)

Matched(text) == /\ \A k \in DOMAIN text : Depth(text, Nginx, k) >= 0
                 /\ Depth(text, Nginx, Len(text)) = 0

Marks(text) == {k \in DOMAIN text : text[k].is \in {"mark", "legacy"}}

\* Names are what they are marked with.  Braces of a confirmed text match, and it has no
\* mark but one of its own project, in a server block; no file has two blocks of a
\* project at first.  Comments close what they open.
TextsAreOrdinary ==
  /\ \A p \in Projects : Safe[NameOf[p]] = NameOf[p]
  /\ \A p \in Projects : \A w \in Chosen[p] : \A text \in Edits(p, w[2], w[3]) :
       /\ Matched(text) /\ CommentsClose(text)
       /\ \A k \in Marks(text) : /\ text[k].of = NameOf[p] /\ Marks(text) = {k}
                                 /\ \E r \in Ranges(text) : k \in r[1]..r[2]
  /\ \A c \in Confs : /\ CommentsClose(Installed[c])
                      /\ \A p \in Projects : \A r, q \in Own(Installed[c], NameOf[p]) : r = q

\* No two projects have one name.
NamesAreApart == \A p, q \in Projects : NameOf[p] = NameOf[q] => p = q

\* A rule that lets files be made in its directory takes in all of them.
RulesAreWhole ==
  \A i \in DOMAIN Pattern, c \in Confs :
    Pattern[i].conf /\ DirOf[c] = Pattern[i].dir => c \in Pattern[i].files
=============================================================================
