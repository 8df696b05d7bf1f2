--------------------------- MODULE MCTerminalAccess ---------------------------
(* Two users with the role root and one without, two servers, a session, a    *)
(* WebSocket session and a ticket; two requests and two calls, of which three *)
(* begin.                                                                     *)
EXTENDS TerminalAccess

CONSTANTS r1, r2, k1, k2, p1, p2, s1, s2, w1, t1, t2, x1, x2, Path

MCNames == {"root", "admin", "ann", "rob", "bob", "eve"}
MCAddresses == {"a", "b", "c"}

MCInstalled ==
  [users |-> [i \in 1..3 |-> [name |-> <<"admin", "ann", "rob">>[i], number |-> i]],
   roles |-> {<<1, "root">>, <<2, "user">>, <<3, "root">>},
   servers |-> [s \in ServerIds |->
     CASE s = 1 -> [ip |-> "a", listed |-> TRUE, assigned |-> {"root", "ann"}]
       [] s = 2 -> [ip |-> "b", listed |-> TRUE, assigned |-> {"root"}]
       [] OTHER -> None],
   linux |-> {"ann"},
   owner |-> [p \in Projects |-> IF p = p1 THEN 2 ELSE None]]

Delete(u, ids, hand) == [kind |-> "delete", by |-> u, ids |-> ids, transfer |-> hand]
Account(k, s, n) == [kind |-> k, by |-> 1, server |-> s, name |-> n]

MCBodies ==
  { [kind |-> "register", name |-> "bob"],
    [kind |-> "create", by |-> 1, name |-> "bob", role |-> "root"],
    [kind |-> "add", by |-> 3, name |-> "eve"],
    [kind |-> "rename", by |-> 1, id |-> 2, name |-> "eve"],
    Delete(1, {2}, TRUE), Delete(1, {2}, FALSE), Delete(3, {1, 3}, TRUE), Delete(1, {3}, TRUE),
    Delete(1, {4}, TRUE), Delete(4, {2}, TRUE), [kind |-> "purge", by |-> 3, ids |-> {1, 2, 3}],
    [kind |-> "addServer", by |-> 1, ip |-> "a"], [kind |-> "addServer", by |-> 1, ip |-> "c"],
    [kind |-> "dropServer", by |-> 1, server |-> 1],
    Account("addAccount", 1, "eve"), Account("addAccount", 1, "bob"),
    Account("addAccount", 2, "eve"), Account("dropAccount", 1, "ann"),
    Account("dropAccount", 2, "ann"), Account("dropAccount", 1, "eve"),
    [kind |-> "insertProject", by |-> 2, project |-> p2] }

In(kind, u, s) == [kind |-> kind, by |-> u, session |-> s]
To(kind, where) == [kind |-> kind, by |-> 2, session |-> s1, to |-> where]

MCCallBodies ==
  { [kind |-> "open", by |-> 2, ip |-> "a"], To("cd", x1), To("activate", x2),
    In("deactivate", 2, s1), In("command", 2, s1), In("command", 3, s1),
    In("transfer", 2, w1), In("close", 2, s1),
    [kind |-> "ticket", by |-> 2, session |-> s1, path |-> Path],
    [kind |-> "download", ticket |-> t1], [kind |-> "download", ticket |-> t2] }

MCSockets == [i \in {w1} |-> [user |-> 2, server |-> 1]]
MCSessions == [i \in {s1} |-> [user |-> 2, server |-> 1, cwd |-> Home, env |-> Base]]
MCTickets == [t \in {t1} |->
                [user |-> 2, server |-> 1, path |-> Path, until |-> TTL, size |-> 1]]
=============================================================================
