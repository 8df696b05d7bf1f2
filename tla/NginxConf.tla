------------------------------ MODULE NginxConf ------------------------------
(***************************************************************************)
(* What a change of an Nginx configuration file promises its caller: it is *)
(* made as a whole, and then the file is one that nginx accepts, or it     *)
(* fails and the file is what it was.  Only a change that is cut short by  *)
(* the end of the server process leaves open which of the two.             *)
(***************************************************************************)
EXTENDS NginxText

VARIABLES
  text,      \* the file
  outcome    \* outcome[r]: what the caller of r was told

Init == text \in Content /\ outcome = [r \in Requests |-> "none"]

Answer(r, verdict) ==
  outcome[r] = "none" /\ outcome' = [outcome EXCEPT ![r] = verdict]

Make(r) == Answer(r, "ok") /\ text' = Change(r, text) /\ Valid(text')
Fail(r) == Answer(r, "failed") /\ UNCHANGED text
CutShort(r) == Answer(r, "cut") /\ text' \in {text, Change(r, text)}

Next == \E r \in Requests : Make(r) \/ Fail(r) \/ CutShort(r)
Spec == Init /\ [][Next]_<<text, outcome>>
=============================================================================
