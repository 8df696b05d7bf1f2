---------------------------- MODULE MCNginxBlocks ----------------------------
EXTENDS NginxBlocks

CONSTANTS shop, blog, dotted, main, a, b, p1, p2, p3, p4, p5, p6, p7, confd

MCProjects == {shop, blog}
MCNames == [p \in MCProjects |-> p]
\* shop.v2 is marked shop_v2, and so on: nothing ever looks for that mark.
MCNamesDotted == [p \in MCProjects |-> IF p = shop THEN dotted ELSE p]
MCSafe == [n \in {shop, blog, dotted} |-> IF n = dotted THEN "shop_v2" ELSE n]

Begin == Line("begin", None)
End == Line("end", None)

\* The user of blog confirms the preview.  The user of shop writes a text of his
\* own: with a location that is commented out and a closing brace in a comment, or
\* with the mark of an older version and a second server behind it.
MCEdits(p, f, k) ==
  LET plain == << Line("server", None), Line("listen", f), Line("proxy", k),
                  Line("close", None) >>
      second == << Line("server", None), Line("close", None) >>
  IN IF p = blog THEN {Generated(NameOf[p], f, k)}
     ELSE {SubSeq(plain, 1, 2) \o <<Begin, End>> \o InsertAt(SubSeq(plain, 3, 4), 2, End),
           InsertAt(plain, 2, Line("legacy", Safe[NameOf[p]])) \o second}

\* The ports of shop are free, or those of the block in file a; blog wants the
\* ports of shop, or others.
MCChosen ==
  [p \in MCProjects |->
     IF p = shop THEN {<<a, p1, p2>>, <<b, p1, p2>>, <<b, p3, p2>>, <<a, p5, p6>>}
     ELSE {<<b, p1, p2>>, <<b, p4, p7>>, <<main, p4, p7>>}]
MCConfs == {main, a, b}
MCPattern == [conf_d |-> [dir |-> confd, files |-> {a, b}, conf |-> TRUE]]
MCDirOf == [c \in MCConfs |-> IF c = main THEN "etc" ELSE confd]
MCFolders == {confd, "etc"}

\* The main file includes conf.d/*.conf in its http block; a has a block that was
\* written by hand, with these comments; b does not exist.
MCInstalled ==
  [c \in MCConfs |->
     CASE c = main -> << Line("http", None), Line("include", "conf_d"), Line("close", None) >>
       [] c = a -> << Line("server", None), Line("listen", p5), Line("proxy", p6),
                      Begin, End, Line("close", None) >>
       [] c = b -> <<>>]

\* The instance is one of those that the proofs are about, unless a name is changed
\* by its mark.
ASSUME Ordinary ==
  NameOf = MCNames => TextsAreOrdinary /\ NamesAreApart /\ RulesAreWhole
=============================================================================
