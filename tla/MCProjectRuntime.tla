--------------------------- MODULE MCProjectRuntime ---------------------------
(* Two projects whose programs can listen on the same port, two requests.   *)
EXTENDS ProjectRuntime, TLC

CONSTANTS shop, blog, p8000, p9000

MCProjects == {shop, blog}
MCPorts == {p8000, p9000}
MCBinds == [p \in MCProjects |-> IF p = shop THEN {p8000} ELSE {p8000, p9000}]
MCSelected == [p \in MCProjects |-> IF p = shop THEN p8000 ELSE NoPort]

\* Requests and pids are interchangeable, and no property is a liveness property.
MCSymmetry == Permutations(Ops) \cup Permutations(Pids)
===============================================================================
