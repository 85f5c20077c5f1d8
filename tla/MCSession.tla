----------------------------- MODULE MCSession -----------------------------
(* Session on a small instance: every run of jude_server serves one peer.  *)
EXTENDS Session

CONSTANTS d1, d2, o1, o2, l1, l2, peer

MCDials == {d1, d2}
MCOffers == {o1, o2}
MCListeners == {l1, l2}
MCIds == {peer}
MCIdOf == [l \in MCListeners |-> peer]
MCIdOf1 == [l \in {l1} |-> peer]
MCTo1 == [o \in {o1} |-> peer]
MCTo == [o \in MCOffers |-> peer]
=============================================================================
