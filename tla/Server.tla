------------------------------- MODULE Server -------------------------------
(***************************************************************************)
(* Runs of p2p_server (src/p2p_pipe.rs) under one name, and the ticket     *)
(* each publishes in the DHT under that name (src/dht.rs).                 *)
(*                                                                         *)
(* A run waits for its endpoint to be online, signs one packet with its    *)
(* ticket, publishes it, and hands two tasks to tokio: the accept loop and *)
(* the republisher.  The application's token reaches every step.  Runs may *)
(* overlap: the application starts a server again, here or elsewhere,      *)
(* while an older run is still up.                                         *)
(*                                                                         *)
(* The DHT is external: one mutable item per name, which keeps the packet  *)
(* with the greatest sequence number it is given and forgets it when       *)
(* nobody republishes.                                                     *)
(***************************************************************************)
EXTENDS Naturals

CONSTANTS
    Runs,     \* runs of p2p_server under the name
    None

ASSUME ServerAssumption == None \notin Runs

VARIABLES
    token,    \* token[r]: the application cancelled run r
    phase,    \* phase[r]: how far p2p_server is, and then its accept loop
    pub,      \* pub[r]: the publisher of run r
    seq,      \* seq[r]: the sequence number of its packet, 0 when unsigned
    clock,    \* packets signed so far: the timestamp of the last one
    record,   \* the run whose packet the DHT holds, or None
    order     \* history: order[r] = n when run r is the n-th that published

vars == <<token, phase, pub, seq, clock, record, order>>

Init ==
    /\ token = [r \in Runs |-> FALSE]
    /\ phase = [r \in Runs |-> "off"]
    /\ pub = [r \in Runs |-> "none"]
    /\ seq = [r \in Runs |-> 0]
    /\ clock = 0
    /\ record = None
    /\ order = [r \in Runs |-> 0]

-----------------------------------------------------------------------------
(* p2p_server up to its return.                                            *)

\* The early check: a token cancelled before startup ends it.
Start(r) ==
    /\ phase[r] = "off"
    /\ phase' = [phase EXCEPT ![r] = IF token[r] THEN "aborted" ELSE "online"]
    /\ UNCHANGED <<token, pub, seq, clock, record, order>>

\* No secret, no endpoint, no address for the host, or no valid TXT record.
StartFails(r) ==
    /\ phase[r] = "online"
    /\ phase' = [phase EXCEPT ![r] = "aborted"]
    /\ UNCHANGED <<token, pub, seq, clock, record, order>>

\* The endpoint is online, or ONLINE_TIMEOUT is over: the run goes on to
\* publish_iroh_mapping, which signs the packet with the current timestamp
\* and begins to publish it.
Sign(r) ==
    /\ phase[r] = "online"
    /\ clock' = clock + 1
    /\ seq' = [seq EXCEPT ![r] = clock + 1]
    /\ order' = [order EXCEPT ![r] = clock + 1]
    /\ phase' = [phase EXCEPT ![r] = "publish"]
    /\ pub' = [pub EXCEPT ![r] = "sending"]
    /\ UNCHANGED <<token, record>>

\* The first publish succeeded: the republisher and the loop are spawned.
Published(r) ==
    /\ phase[r] = "publish"
    /\ pub[r] = "landed"
    /\ phase' = [phase EXCEPT ![r] = "serving"]
    /\ pub' = [pub EXCEPT ![r] = "sleeping"]
    /\ UNCHANGED <<token, seq, clock, record, order>>

PublishFailed(r) ==
    /\ phase[r] = "publish"
    /\ pub[r] = "failed"
    /\ phase' = [phase EXCEPT ![r] = "aborted"]
    /\ pub' = [pub EXCEPT ![r] = "done"]
    /\ UNCHANGED <<token, seq, clock, record, order>>

\* What becomes of a publisher whose task or future is dropped: a publish
\* under way is not called back, and may still reach the DHT.
Dropped(p) ==
    CASE p \in {"sending", "orphan"} -> "orphan"
      [] p = "none" -> "none"
      [] OTHER -> "done"

\* Mutant: a publish under way when the token is cancelled is kept.
AbortKeepsPublisher(r) ==
    /\ phase[r] \in {"online", "publish"}
    /\ token[r]
    /\ phase' = [phase EXCEPT ![r] = "aborted"]
    /\ UNCHANGED <<token, pub, seq, clock, record, order>>

\* Either select! takes the cancelled branch, and drops the other future.
Abort(r) ==
    /\ phase[r] \in {"online", "publish"}
    /\ token[r]
    /\ phase' = [phase EXCEPT ![r] = "aborted"]
    /\ pub' = [pub EXCEPT ![r] = Dropped(@)]
    /\ UNCHANGED <<token, seq, clock, record, order>>

-----------------------------------------------------------------------------
(* The accept loop.                                                        *)

\* Cancellation: endpoint.close() and break.
Stop(r) ==
    /\ phase[r] = "serving"
    /\ token[r]
    /\ phase' = [phase EXCEPT ![r] = "stopped"]
    /\ UNCHANGED <<token, pub, seq, clock, record, order>>

\* incoming.accept() fails, or the endpoint is closed under the loop: the
\* loop breaks, and the token is left alone.
LoopBreaks(r) ==
    /\ phase[r] = "serving"
    /\ phase' = [phase EXCEPT ![r] = "broken"]
    /\ UNCHANGED <<token, pub, seq, clock, record, order>>

-----------------------------------------------------------------------------
(* The republisher.                                                        *)

\* The interval is over.  Cancellation ends the wait at once: when both are
\* ready, the interval may as well have ended first.
Elapse(r) ==
    /\ pub[r] = "sleeping"
    /\ ~token[r]
    /\ pub' = [pub EXCEPT ![r] = "due"]
    /\ UNCHANGED <<token, phase, seq, clock, record, order>>

\* Mutant: the ticket is signed again, with a new timestamp.  The mutant
\* alone signs without end: ClockBound caps it.
ClockBound == 4

RepublishResigned(r) ==
    /\ pub[r] = "due"
    /\ clock < ClockBound
    /\ clock' = clock + 1
    /\ seq' = [seq EXCEPT ![r] = clock + 1]
    /\ pub' = [pub EXCEPT ![r] = "sending"]
    /\ UNCHANGED <<token, phase, record, order>>

\* The exact same packet is published again.
Republish(r) ==
    /\ pub[r] = "due"
    /\ pub' = [pub EXCEPT ![r] = "sending"]
    /\ UNCHANGED <<token, phase, seq, clock, record, order>>

\* Mutant: the republisher gives up at the first publish that fails.
RepublishedOrGivesUp(r) ==
    /\ phase[r] \in {"serving", "stopped", "broken"}
    /\ pub[r] \in {"landed", "failed"}
    /\ pub' = [pub EXCEPT ![r] = IF @ = "failed" THEN "done" ELSE "sleeping"]
    /\ UNCHANGED <<token, phase, seq, clock, record, order>>

\* publish() returned to the republisher, which sleeps again either way.
\* Cancellation is not observed before that.
Republished(r) ==
    /\ phase[r] \in {"serving", "stopped", "broken"}
    /\ pub[r] \in {"landed", "failed"}
    /\ pub' = [pub EXCEPT ![r] = "sleeping"]
    /\ UNCHANGED <<token, phase, seq, clock, record, order>>

\* Mutant: the republisher ends when the loop shut the server down.
RepublishStopsWithLoop(r) ==
    /\ pub[r] \in {"sleeping", "due"}
    /\ phase[r] = "stopped"
    /\ pub' = [pub EXCEPT ![r] = "done"]
    /\ UNCHANGED <<token, phase, seq, clock, record, order>>

\* The cancelled branch of its select!.
RepublishStops(r) ==
    /\ pub[r] \in {"sleeping", "due"}
    /\ token[r]
    /\ pub' = [pub EXCEPT ![r] = "done"]
    /\ UNCHANGED <<token, phase, seq, clock, record, order>>

-----------------------------------------------------------------------------
(* The application, and the DHT.                                           *)

Cancel(r) ==
    /\ ~token[r]
    /\ token' = [token EXCEPT ![r] = TRUE]
    /\ UNCHANGED <<phase, pub, seq, clock, record, order>>

\* The process of a run ends, without a word to anyone.
Crash(r) ==
    /\ phase[r] # "crashed"
    /\ phase' = [phase EXCEPT ![r] = "crashed"]
    /\ pub' = [pub EXCEPT ![r] = Dropped(@)]
    /\ UNCHANGED <<token, seq, clock, record, order>>

\* A packet reaches the DHT, which keeps the most recent.
Land(r) ==
    /\ pub[r] \in {"sending", "orphan"}
    /\ record # None => seq[record] <= seq[r]
    /\ record' = r
    /\ pub' = [pub EXCEPT ![r] = IF @ = "sending" THEN "landed" ELSE "done"]
    /\ UNCHANGED <<token, phase, seq, clock, order>>

\* The network fails, or the DHT holds a more recent packet.
Refuse(r) ==
    /\ pub[r] \in {"sending", "orphan"}
    /\ pub' = [pub EXCEPT ![r] = IF @ = "sending" THEN "failed" ELSE "done"]
    /\ UNCHANGED <<token, phase, seq, clock, record, order>>

\* The nodes that hold the item leave, or it grows too old.
Expire ==
    /\ record # None
    /\ record' = None
    /\ UNCHANGED <<token, phase, pub, seq, clock, order>>

-----------------------------------------------------------------------------

Answered(r) == Land(r) \/ Refuse(r)

Publisher(r) == Republished(r) \/ RepublishStops(r)

Startup(r) ==
    StartFails(r) \/ Sign(r) \/ Published(r) \/ PublishFailed(r) \/ Abort(r)

Next ==
    \/ \E r \in Runs :
        \/ Start(r) \/ Startup(r) \/ Stop(r) \/ LoopBreaks(r)
        \/ Elapse(r) \/ Republish(r) \/ Publisher(r)
        \/ Cancel(r) \/ Crash(r) \/ Answered(r)
    \/ Expire

Spec == Init /\ [][Next]_vars

\* A packet nobody publishes any more is forgotten by the DHT.
ExpireUnattended ==
    /\ record # None
    /\ pub[record] \in {"none", "done"}
    /\ Expire

\* tokio polls what is ready, the timer fires, the network answers a publish
\* one way or the other.  Nobody has to start, cancel or crash a run, and no
\* loop has to break.
Fairness ==
    /\ \A r \in Runs :
        /\ WF_vars(Startup(r)) /\ WF_vars(Stop(r))
        /\ WF_vars(Publisher(r)) /\ WF_vars(Answered(r))
        /\ WF_vars(Elapse(r)) /\ WF_vars(Republish(r) \/ RepublishStops(r))
    /\ WF_vars(ExpireUnattended)

FairSpec == Spec /\ Fairness

-----------------------------------------------------------------------------
(* Properties.                                                             *)

Phases == {"off", "online", "publish", "serving", "stopped", "broken",
           "aborted", "crashed"}

Pubs == {"none", "sending", "landed", "failed", "sleeping", "due", "orphan",
         "done"}

\* How far the publisher of a run may be in each phase of p2p_server: in
\* particular a run that gave up at startup leaves no republisher behind.
PubsOf(p) ==
    CASE p \in {"off", "online"} -> {"none"}
      [] p = "publish" -> {"sending", "landed", "failed"}
      [] p \in {"serving", "stopped", "broken"} -> Pubs \ {"none", "orphan"}
      [] OTHER -> {"none", "orphan", "done"}

\* The type of every variable; a publisher is where its run left it, and has
\* a packet unless it never began.
TypeOK ==
    /\ token \in [Runs -> BOOLEAN]
    /\ phase \in [Runs -> Phases]
    /\ pub \in [Runs -> Pubs]
    /\ \A r \in Runs : pub[r] \in PubsOf(phase[r])
    /\ seq \in [Runs -> Nat]
    /\ \A r \in Runs : pub[r] = "none" <=> seq[r] = 0
    /\ clock \in Nat
    /\ record \in Runs \cup {None}
    /\ record # None => seq[record] > 0
    /\ order \in [Runs -> Nat]

\* src/dht.rs:72: republishing the exact same packet "prevents it from
\* accidentally overwriting future mutations".  The record of a run is never
\* replaced by that of a run that started to publish before it, however long
\* the older run keeps republishing.
NoRollback ==
    [][record # None /\ record' # None => order'[record'] >= order[record]]_vars

\* A run that is cancelled or crashes disappears from the DHT for good,
\* although a publish may be under way then, at startup or hourly, and land
\* late (src/dht.rs:66, src/p2p_pipe.rs:429).
CancelledVanishes ==
    \A r \in Runs : token[r] \/ phase[r] = "crashed" ~> [](record # r)

\* A cancelled run ends everything it spawned, whatever it was doing: the
\* startup, the loop, unless it broke before, and the republisher.
CancelledStops ==
    \A r \in Runs :
        token[r] ~> [](/\ phase[r] \notin {"online", "publish", "serving"}
                       /\ pub[r] \in {"none", "orphan", "done"})

\* A run whose republisher lives, up to the first step of its own end.
Up(r) == phase[r] \in {"serving", "broken"} /\ ~token[r]

\* While a run stays up and the network answers well from some time on, a
\* client finds its ticket again and again, or that of a newer run: earlier
\* failures of a republish and expired records are made up for.
StaysAdvertised ==
    \A r \in Runs :
        <>[](Up(r) /\ pub[r] # "failed")
            => []<>(record # None /\ order[record] >= order[r])

\* src/p2p_pipe.rs:474 calls the accept loop "the infinite loop", and line
\* 506 says "The server is now running autonomously": a run that is being
\* advertised and was not cancelled accepts connections.
RunsAutonomously ==
    \A r \in Runs :
        pub[r] \in {"sleeping", "due"} /\ ~token[r] => phase[r] = "serving"
=============================================================================
