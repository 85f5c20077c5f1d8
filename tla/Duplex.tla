------------------------------- MODULE Duplex -------------------------------
(***************************************************************************)
(* What a forwarded connection promises to the two Minecraft ends: two     *)
(* independent one-way byte streams.  Each stream delivers a prefix of     *)
(* what the other end wrote; it ends cleanly only when that prefix is the  *)
(* whole stream (or the writer itself reset its connection, after which    *)
(* nobody can say what the whole is), and otherwise it aborts.             *)
(***************************************************************************)
EXTENDS Naturals

CONSTANT Side          \* the two ends of the connection

VARIABLES
    sent,        \* sent[s]: chunks end s has written
    appEnd,      \* appEnd[s]: how end s stands as a writer
    delivered,   \* delivered[s]: chunks handed to end s
    outcome      \* outcome[s]: how the stream towards s ended, or "open"

vars == <<sent, appEnd, delivered, outcome>>

Init ==
    /\ sent = [s \in Side |-> 0]
    /\ appEnd = [s \in Side |-> "open"]
    /\ delivered = [s \in Side |-> 0]
    /\ outcome = [s \in Side |-> "open"]

Send(s) ==
    /\ appEnd[s] = "open"
    /\ sent' = [sent EXCEPT ![s] = @ + 1]
    /\ UNCHANGED <<appEnd, delivered, outcome>>

Close(s) ==
    /\ appEnd[s] = "open"
    /\ appEnd' = [appEnd EXCEPT ![s] = "eof"]
    /\ UNCHANGED <<sent, delivered, outcome>>

Reset(s) ==
    /\ appEnd[s] # "reset"
    /\ appEnd' = [appEnd EXCEPT ![s] = "reset"]
    /\ UNCHANGED <<sent, delivered, outcome>>

Deliver(r, s) ==
    /\ outcome[s] = "open"
    /\ delivered[s] < sent[r]
    /\ delivered' = [delivered EXCEPT ![s] = @ + 1]
    /\ UNCHANGED <<sent, appEnd, outcome>>

Complete(r, s) ==
    /\ outcome[s] = "open"
    /\ \/ appEnd[r] = "eof" /\ delivered[s] = sent[r]
       \/ appEnd[r] = "reset"
    /\ outcome' = [outcome EXCEPT ![s] = "complete"]
    /\ UNCHANGED <<sent, appEnd, delivered>>

Abort(s) ==
    /\ outcome[s] = "open"
    /\ outcome' = [outcome EXCEPT ![s] = "aborted"]
    /\ UNCHANGED <<sent, appEnd, delivered>>

Next ==
    \/ \E s \in Side : Send(s) \/ Close(s) \/ Reset(s) \/ Abort(s)
    \/ \E r, s \in Side : r # s /\ (Deliver(r, s) \/ Complete(r, s))

Spec == Init /\ [][Next]_vars
=============================================================================
