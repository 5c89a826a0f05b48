---------------------------- MODULE MCNodeQueue ----------------------------
(* An instance of NodeQueue for TLC. *)
EXTENDS NodeQueue

\* User u has two requests in project x and one in project y, user v one in x;
\* the second request of u in x, and that of v, come from another process.
MCOps == {"ux1", "ux2", "uy", "vx"}
MCOwners == {"p", "q"}
MCActor == [o \in MCOps |-> IF o = "vx" THEN "v" ELSE "u"]
MCProject == [o \in MCOps |-> IF o = "uy" THEN "y" ELSE "x"]
MCOwnerOf == [o \in MCOps |-> IF o \in {"ux2", "vx"} THEN "q" ELSE "p"]
=============================================================================
