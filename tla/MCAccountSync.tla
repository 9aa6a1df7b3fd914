--------------------------- MODULE MCAccountSync ---------------------------
(* AccountSync for TLC: three messages in two threads, one without a From     *)
(* address and without a date, the dates of the others against their order.  *)
EXTENDS AccountSync

MCNoDate == -1

MCThreadOf == <<"t1", "t1", "t2">>
MCSenderOf == <<"s1", NoSender, "s1">>
MCDateOf   == <<2, MCNoDate, 1>>
=============================================================================
