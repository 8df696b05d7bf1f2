-------------------------- MODULE MCProjectLifecycle --------------------------
(* Four projects: three on the server of the platform, of two owners, one of  *)
(* them in a directory that is never removed, and one on another server, with  *)
(* its block there; two requests, of which the first may fail anywhere.        *)
EXTENDS ProjectLifecycle

CONSTANTS r1, r2, ann, bob, root, far, shop, blog, wiki, desk, d1, d2, d3, d4, base,
          e1, e2, e3, m1, m2, m3, c1, c2, p1, p2, p3, p4, t1

Project(o, srv, n, d, e, b, h, c, p, t) ==
  [owner |-> o, server |-> srv, name |-> n, dir |-> d, env |-> e, db |-> b,
   host |-> h, conf |-> c, port |-> p, text |-> t, status |-> 0]

First == Project(ann, Here, shop, d1, e1, m1, Here, c1, p1, t1)
Second == Project(ann, far, wiki, d2, e2, None, far, c1, p4, None)
Third == [Project(bob, Here, blog, d3, e3, m2, Here, c1, p2, t1) EXCEPT !.status = 1]
Fourth == Project(bob, Here, desk, base, None, None, None, None, None, None)

MCMainConf == [srv \in Servers |-> c1]
MCMayUse == {<<ann, Here>>, <<ann, far>>, <<bob, Here>>}
MCInstalled ==
  [rows |-> <<First, Second, Third, Fourth>>,
   dirs |-> {<<Here, d1>>, <<far, d2>>, <<Here, d3>>, <<Here, d4>>, <<Here, base>>},
   envs |-> {<<Here, e1>>, <<far, e2>>, <<Here, e3>>},
   dbs |-> {m1, m2},
   blocks |-> [f \in Files |-> [n \in {shop, blog, wiki, desk} |->
                 CASE f = <<Here, c1>> /\ n = shop -> p1
                   [] f = <<Here, c1>> /\ n = blog -> p2
                   [] f = <<far, c1>> /\ n = wiki -> p4
                   [] OTHER -> None]]]
MCPlain == {[host |-> Here, conf |-> c2, port |-> p3]}

Delete0(u, ids, scope) == [kind |-> "delete", user |-> u, ids |-> ids, scope |-> scope]
Setting0(u, i, e, mk, drop, b, dropB, on, h, c, p, t, dropC) ==
  [kind |-> "setting", user |-> u, id |-> i, env |-> e, mkEnv |-> mk, dropEnv |-> drop,
   db |-> b, dropDb |-> dropB, nginx |-> on, host |-> h, conf |-> c, port |-> p,
   text |-> t, dropBlock |-> dropC]
OnlyNginx(u, i, on, h, c, p, t, dropC) ==
  Setting0(u, i, Keep, FALSE, FALSE, Keep, FALSE, on, h, c, p, t, dropC)
Sync0(u, srv, n, d, e, b, c, p) ==
  [kind |-> "sync", user |-> u, server |-> srv, name |-> n, dir |-> d, env |-> e,
   db |-> b, host |-> None, conf |-> c, port |-> p, text |-> None]

MCBodies ==
  { Delete0(ann, <<1>>, {"env", "db", "nginx"}),
    Delete0(ann, <<1>>, {"env", "nginx"}),
    Delete0(root, <<3, 1>>, {"env", "db"}),
    Delete0(ann, <<2, 1>>, {}),
    Delete0(bob, <<3, 1>>, {"env"}),                              \* refused
    Delete0(bob, <<3, 4>>, {}),                                   \* stops at base
    Delete0(root, <<2>>, {"nginx"}),                              \* block on far
    Setting0(ann, 1, e2, TRUE, TRUE, m3, TRUE, "on", Keep, c2, p1, Keep, TRUE),
    Setting0(ann, 1, Keep, FALSE, TRUE, m1, TRUE, "on", Here, c1, p3, Keep, TRUE),
    Setting0(root, 1, Keep, FALSE, FALSE, None, TRUE, "off", Keep, Keep, Keep, Keep, TRUE),
    OnlyNginx(ann, 1, "on", Here, c1, p1, t1, FALSE),             \* as it was
    OnlyNginx(ann, 1, "on", far, c1, p1, t1, TRUE),               \* the script fails
    Setting0(bob, 3, e1, FALSE, TRUE, m1, FALSE, "keep", Keep, Keep, p1, Keep, FALSE),
    Setting0(bob, 3, e3, FALSE, FALSE, m2, FALSE, "on", Keep, Keep, Keep, Keep, FALSE),
    OnlyNginx(ann, 2, "on", Keep, Keep, Keep, Keep, TRUE),        \* unchanged, not dropped
    OnlyNginx(ann, 2, "on", Here, c1, p4, Keep, TRUE),            \* the same path elsewhere
    OnlyNginx(bob, 4, "on", far, c1, p4, Keep, FALSE),            \* may not use far
    [kind |-> "originalDb", user |-> ann, id |-> 1],
    [kind |-> "originalDb", user |-> ann, id |-> 2],
    Sync0(ann, Here, blog, d4, e3, m2, c2, p3),
    Sync0(bob, Here, blog, d4, e1, None, None, None),
    [Sync0(ann, Here, blog, d4, e1, None, None, None) EXCEPT !.kind = "record"],
    [kind |-> "status", user |-> ann, id |-> 1, running |-> 1],
    [kind |-> "status", user |-> root, id |-> 1, running |-> 0],
    [kind |-> "transfer", user |-> bob, from |-> {ann}] }
=============================================================================
