-------------------------- MODULE MCReplyDetection --------------------------
(* ReplyDetection for TLC: four messages in three threads of two senders. *)
EXTENDS ReplyDetection, TLC

MCThreadOf == [m \in Messages |-> <<"t1", "t2", "t3", "t1">>[m]]
MCSenderOf == [m \in Messages |-> <<"s1", "s1", "s2", "s2">>[m]]

Symmetry == Permutations(Runs)
=============================================================================
