------------------------------- MODULE Calls --------------------------------
(***************************************************************************)
(* What Session.offer() promises to its callers: calls that may overlap,   *)
(* each under a number it drew.  A reply is handed out once at most, to a  *)
(* call with the number of the offer it answers, which is that very call   *)
(* unless two drew the same number.  A call fails with the websocket, or   *)
(* because another has its number.                                         *)
(***************************************************************************)
CONSTANTS Dials, Number, None

VARIABLES
    up,       \* the websocket is up
    call,     \* call[d]: "idle", "open", "ok" or "failed"
    number,   \* number[d]: the number it drew
    reply     \* reply[d]: the call whose offer its reply answers, or None

vars == <<up, call, number, reply>>

Init ==
    /\ up = TRUE
    /\ call = [d \in Dials |-> "idle"]
    /\ number = [d \in Dials |-> None]
    /\ reply = [d \in Dials |-> None]

Collides(d) == \E e \in Dials \ {d} : number[e] = number[d]

Begin(d) ==
    /\ call[d] = "idle"
    /\ call' = [call EXCEPT ![d] = "open"]
    /\ \E n \in Number : number' = [number EXCEPT ![d] = n]
    /\ UNCHANGED <<up, reply>>

\* The reply to the offer of e.
Deliver(d, e) ==
    /\ call[d] = "open" /\ reply[d] = None
    /\ number[e] = number[d]
    /\ \A c \in Dials : reply[c] # e
    /\ reply' = [reply EXCEPT ![d] = e]
    /\ UNCHANGED <<up, call, number>>

Return(d) ==
    /\ call[d] = "open" /\ reply[d] # None
    /\ call' = [call EXCEPT ![d] = "ok"]
    /\ UNCHANGED <<up, number, reply>>

Fail(d) ==
    /\ call[d] = "open"
    /\ ~up \/ (reply[d] = None /\ Collides(d))
    /\ call' = [call EXCEPT ![d] = "failed"]
    /\ UNCHANGED <<up, number, reply>>

GoDown ==
    /\ up
    /\ up' = FALSE
    /\ UNCHANGED <<call, number, reply>>

Next ==
    \/ GoDown
    \/ \E d \in Dials : Begin(d) \/ Return(d) \/ Fail(d)
    \/ \E d, e \in Dials : Deliver(d, e)

Spec == Init /\ [][Next]_vars
=============================================================================
