--------------------------- MODULE MCProjectCreate ---------------------------
(* Two requests over bodies that share everything, one resource or nothing. *)
EXTENDS ProjectCreate

CONSTANTS ann, bob, app, web, annApp, annWeb, py1, py2, shop, p1, p2

Body(o, n, d, e, b, p) ==
  [owner |-> o, name |-> n, dir |-> d, env |-> e, db |-> b, port |-> p]

MCPayloads ==
  { Body(ann, app, annApp, py1, shop, p1),     \* everything
    Body(ann, web, annWeb, py2, NoDb, p2),     \* nothing shared with the first
    Body(bob, app, annApp, py2, NoDb, p2),     \* another owner, same directory
    Body(ann, app, annApp, py1, NoDb, NoPort)  \* no database and no Nginx
  }
MCOwners == {ann, bob}
MCNames == {app, web}
MCDirs == {annApp, annWeb}
MCEnvs == {py1, py2}
MCDbs == {shop}
MCPorts == {p1, p2}
=============================================================================
