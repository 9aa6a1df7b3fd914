--------------------------- MODULE MCMailActions ---------------------------
(* MailActions for TLC: two messages of different senders. *)
EXTENDS MailActions, TLC

MCSenderOf == [m \in Messages |-> IF m = "m1" THEN "s1" ELSE "s2"]

Symmetry == Permutations(Requests)
=============================================================================
