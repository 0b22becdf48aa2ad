----------------------------- MODULE MCComponents -----------------------------
(* The small components on small instances. *)
EXTENDS Components

(* Instance 1 asks for 3 when it is deleted, which may then be there or not. *)
MCUses == [x \in 1..3 |-> IF x = 1 THEN {3} ELSE {}]
=============================================================================
