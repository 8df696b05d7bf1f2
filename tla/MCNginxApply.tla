---------------------------- MODULE MCNginxApply ----------------------------
EXTENDS NginxApply, TLC
CONSTANTS a, b, r1, r2, r3
\* Project a gets a block and loses it, project b gets one that nginx rejects.
MCProjOf == r1 :> a @@ r2 :> a @@ r3 :> b
MCPortOf == r1 :> 80 @@ r2 :> NoBlock @@ r3 :> 99
=============================================================================
