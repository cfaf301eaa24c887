--------------------------- MODULE MCModelArbiter ---------------------------
(* A small instance of ModelArbiter for TLC: two messages, the first of     *)
(* which may be routed or answered, and a reflection.                       *)
EXTENDS ModelArbiter, TLC

CONSTANTS hello, again, musing

MCMessages == {hello, again}
MCBackground == {musing}
MCRoles == (hello :> {"router", "conversation"} @@ again :> {"router"} @@ musing :> {"reflection"})
MCRolesOf == [w \in Workers |-> MCRoles[w]]
MCMaxAsks == [w \in Workers |-> 1]
=============================================================================
