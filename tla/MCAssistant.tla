---------------------------- MODULE MCAssistant ----------------------------
(* Assistant for TLC: four messages that offer different ways out of a list,  *)
(* two of each sender, and a sender without any. Of two without a date either *)
(* counts as the newest.                                                      *)
EXTENDS Assistant

Offer(o, h, m, b) == [oneClick |-> o, http |-> h, mailto |-> m, body |-> b]

MCMaxCalls == <<2, 1>>

MCMessages == 1..4

MCSenders == {"list", "shop", "nobody"}

MCSenderOf == <<"list", "list", "shop", "shop">>

MCDateOf == <<0, 0, 1, 0>>

MCInfoOf == <<Offer(TRUE, TRUE, TRUE, FALSE), Offer(TRUE, FALSE, TRUE, TRUE),
              Offer(FALSE, TRUE, TRUE, FALSE), Offer(FALSE, FALSE, FALSE, TRUE)>>
=============================================================================
