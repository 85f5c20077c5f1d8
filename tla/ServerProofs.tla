---------------------------- MODULE ServerProofs ----------------------------
(***************************************************************************)
(* Proofs about Server, for every set of runs.                             *)
(*                                                                         *)
(* NoRollback speaks of the order in which the runs began to publish; the  *)
(* DHT compares sequence numbers.  The two agree because a packet is       *)
(* signed once and never again: that is SignedOnce, and with the types it  *)
(* is inductive.                                                           *)
(***************************************************************************)
EXTENDS Server, TLAPS

SignedOnce == order = seq

IInv == TypeOK /\ SignedOnce

\* An operator of Server applied to its own values.
LEMMA DroppedOK ==
    /\ Dropped("none") = "none"
    /\ \A p \in Pubs \ {"none"} : Dropped(p) \in {"orphan", "done"}
    /\ \A p \in Pubs : Dropped(p) \in Pubs
BY DEF Dropped, Pubs

USE ServerAssumption

\* The first state satisfies the invariant.
LEMMA InitIInv == Init => IInv
BY DEF Init, IInv, TypeOK, SignedOnce, Phases, Pubs, PubsOf

\* What a step does to one run, when it leaves the packets alone: the
\* invariant survives if the new phase and publisher agree and a packet is
\* still there.
LEMMA StepKeepsIInv ==
    ASSUME IInv, NEW r \in Runs, NEW p \in Phases, NEW q \in PubsOf(p),
           q \in Pubs, q = "none" <=> pub[r] = "none",
           phase' = [phase EXCEPT ![r] = p], pub' = [pub EXCEPT ![r] = q],
           token' \in [Runs -> BOOLEAN], UNCHANGED <<seq, clock, order>>,
           record' \in {record, None} \/ (record' = r /\ q # "none")
    PROVE  IInv'
<1>1. phase' \in [Runs -> Phases] /\ pub' \in [Runs -> Pubs]
  BY DEF IInv, TypeOK
<1>2. \A x \in Runs : pub'[x] \in PubsOf(phase'[x])
  <2> TAKE x \in Runs
  <2> QED BY DEF IInv, TypeOK
<1>3. \A x \in Runs : pub'[x] = "none" <=> seq'[x] = 0
  BY DEF IInv, TypeOK
<1>4. record' \in Runs \cup {None} /\ (record' # None => seq'[record'] > 0)
  <2>1. seq \in [Runs -> Nat] /\ (record # None => seq[record] > 0)
    BY DEF IInv, TypeOK
  <2>2. q # "none" => seq[r] > 0
    BY <2>1 DEF IInv, TypeOK
  <2> QED BY <2>1, <2>2 DEF IInv, TypeOK
<1> QED BY <1>1, <1>2, <1>3, <1>4 DEF IInv, TypeOK, SignedOnce

\* Every step keeps the invariant.
LEMMA NextIInv == IInv /\ [Next]_vars => IInv'
<1> SUFFICES ASSUME IInv, [Next]_vars PROVE IInv'
  OBVIOUS
<1>types. /\ token \in [Runs -> BOOLEAN] /\ phase \in [Runs -> Phases]
          /\ pub \in [Runs -> Pubs] /\ seq \in [Runs -> Nat] /\ clock \in Nat
          /\ order \in [Runs -> Nat] /\ record \in Runs \cup {None}
  BY DEF IInv, TypeOK
<1>pubs. \A x \in Runs : pub[x] \in PubsOf(phase[x])
  BY DEF IInv, TypeOK
<1>1. ASSUME NEW r \in Runs, Start(r) PROVE IInv'
  <2> DEFINE p == IF token[r] THEN "aborted" ELSE "online"
  <2>1. pub[r] = "none" /\ p \in Phases /\ pub[r] \in PubsOf(p)
    BY <1>1, <1>types, <1>pubs DEF Start, PubsOf, Phases
  <2>2. pub' = [pub EXCEPT ![r] = pub[r]]
    BY <1>1, <1>types DEF Start
  <2>3. phase' = [phase EXCEPT ![r] = p]
    BY <1>1 DEF Start
  <2> HIDE DEF p
  <2> QED BY <1>1, <2>1, <2>2, <2>3, <1>types, StepKeepsIInv DEF Start
<1>2. ASSUME NEW r \in Runs, StartFails(r) PROVE IInv'
  <2>1. pub[r] = "none" /\ "aborted" \in Phases /\ pub[r] \in PubsOf("aborted")
    BY <1>2, <1>types, <1>pubs DEF StartFails, PubsOf, Phases
  <2>2. pub' = [pub EXCEPT ![r] = pub[r]]
    BY <1>2, <1>types DEF StartFails
  <2> QED BY <1>2, <2>1, <2>2, <1>types, StepKeepsIInv DEF StartFails
<1>3. ASSUME NEW r \in Runs, Sign(r) PROVE IInv'
  <2>1. /\ phase' \in [Runs -> Phases] /\ pub' \in [Runs -> Pubs]
        /\ seq' \in [Runs -> Nat] /\ order' \in [Runs -> Nat] /\ clock' \in Nat
    BY <1>3, <1>types DEF Sign, Phases, Pubs
  <2>2. \A x \in Runs : pub'[x] \in PubsOf(phase'[x])
    BY <1>3, <1>types, <1>pubs DEF Sign, PubsOf
  <2>3. \A x \in Runs : pub'[x] = "none" <=> seq'[x] = 0
    BY <1>3, <1>types DEF Sign, IInv, TypeOK
  <2>4. record' # None => seq'[record'] > 0
    BY <1>3, <1>types DEF Sign, IInv, TypeOK
  <2>5. order' = seq'
    BY <1>3 DEF Sign, IInv, SignedOnce
  <2> QED BY <1>3, <2>1, <2>2, <2>3, <2>4, <2>5, <1>types
          DEF Sign, IInv, TypeOK, SignedOnce
<1>4. ASSUME NEW r \in Runs, Published(r) PROVE IInv'
  <2>1. "serving" \in Phases /\ "sleeping" \in Pubs /\ "sleeping" \in PubsOf("serving")
    BY DEF PubsOf, Phases, Pubs
  <2> QED BY <1>4, <2>1, <1>types, StepKeepsIInv DEF Published
<1>5. ASSUME NEW r \in Runs, PublishFailed(r) PROVE IInv'
  <2>1. "aborted" \in Phases /\ "done" \in Pubs /\ "done" \in PubsOf("aborted")
    BY DEF PubsOf, Phases, Pubs
  <2> QED BY <1>5, <2>1, <1>types, StepKeepsIInv DEF PublishFailed
<1>6. ASSUME NEW r \in Runs, NEW p \in {"aborted", "crashed"},
             phase' = [phase EXCEPT ![r] = p],
             pub' = [pub EXCEPT ![r] = Dropped(@)],
             UNCHANGED <<token, seq, clock, record, order>>
      PROVE  IInv'
  <2>1. p \in Phases /\ PubsOf(p) = {"none", "orphan", "done"}
    BY <1>6 DEF PubsOf, Phases
  <2>2. /\ Dropped(pub[r]) \in PubsOf(p) /\ Dropped(pub[r]) \in Pubs
        /\ Dropped(pub[r]) = "none" <=> pub[r] = "none"
    BY <2>1, <1>types, DroppedOK
  <2>3. pub' = [pub EXCEPT ![r] = Dropped(pub[r])]
    BY <1>6
  <2> QED BY <1>6, <2>1, <2>2, <2>3, <1>types, StepKeepsIInv
<1>7. ASSUME NEW r \in Runs, NEW p \in {"stopped", "broken"},
             phase[r] = "serving", phase' = [phase EXCEPT ![r] = p],
             UNCHANGED <<token, pub, seq, clock, record, order>>
      PROVE  IInv'
  <2>1. p \in Phases /\ pub[r] \in PubsOf(p)
    BY <1>7, <1>pubs DEF PubsOf, Phases
  <2>2. pub' = [pub EXCEPT ![r] = pub[r]]
    BY <1>7, <1>types
  <2> QED BY <1>7, <2>1, <2>2, <1>types, StepKeepsIInv
<1>8. ASSUME NEW r \in Runs, NEW q \in {"due", "sending", "sleeping", "done"},
             pub[r] \in {"sleeping", "due"}
               \/ (phase[r] \in {"serving", "stopped", "broken"}
                     /\ pub[r] \in {"landed", "failed"}),
             pub' = [pub EXCEPT ![r] = q],
             UNCHANGED <<token, phase, seq, clock, record, order>>
      PROVE  IInv'
  <2>1. phase[r] \in {"serving", "stopped", "broken"}
    BY <1>8, <1>types, <1>pubs DEF PubsOf, Phases
  <2>2. q \in Pubs /\ q \in PubsOf(phase[r])
    BY <1>8, <2>1 DEF PubsOf, Pubs
  <2>3. phase' = [phase EXCEPT ![r] = phase[r]]
    BY <1>8, <1>types
  <2> QED BY <1>8, <2>2, <2>3, <1>types, StepKeepsIInv
<1>9. ASSUME NEW r \in Runs, Cancel(r) PROVE IInv'
  BY <1>9, <1>types DEF Cancel, IInv, TypeOK, SignedOnce
<1>10. ASSUME NEW r \in Runs, NEW q \in Pubs, pub[r] \in {"sending", "orphan"},
              q \in (IF pub[r] = "sending" THEN {"landed", "failed"} ELSE {"done"}),
              pub' = [pub EXCEPT ![r] = q], record' \in {record, r},
              UNCHANGED <<token, phase, seq, clock, order>>
       PROVE  IInv'
  <2>1. q \in PubsOf(phase[r]) /\ q # "none"
    BY <1>10, <1>types, <1>pubs DEF PubsOf, Phases, Pubs
  <2>2. phase' = [phase EXCEPT ![r] = phase[r]]
    BY <1>10, <1>types
  <2> QED BY <1>10, <2>1, <2>2, <1>types, StepKeepsIInv
<1>11. CASE Expire
  BY <1>11, <1>types DEF Expire, IInv, TypeOK, SignedOnce
<1>12. CASE UNCHANGED vars
  BY <1>12 DEF vars, IInv, TypeOK, SignedOnce
<1>13. ASSUME NEW r \in Runs, Answered(r) PROVE IInv'
  <2>1. pub[r] \in {"sending", "orphan"} /\ {"landed", "failed", "done"} \subseteq Pubs
    BY <1>13 DEF Answered, Land, Refuse, Pubs
  <2>2. CASE Land(r)
    BY <2>1, <2>2, <1>10 DEF Land
  <2>3. CASE Refuse(r)
    BY <2>1, <2>3, <1>10 DEF Refuse
  <2> QED BY <1>13, <2>2, <2>3 DEF Answered
<1>14. ASSUME NEW r \in Runs, Abort(r) \/ Crash(r) PROVE IInv'
  <2>1. CASE Abort(r) BY <2>1, <1>6 DEF Abort
  <2>2. CASE Crash(r) BY <2>2, <1>6 DEF Crash
  <2> QED BY <1>14, <2>1, <2>2
<1>15. ASSUME NEW r \in Runs, Stop(r) \/ LoopBreaks(r) PROVE IInv'
  <2>1. CASE Stop(r) BY <2>1, <1>7 DEF Stop
  <2>2. CASE LoopBreaks(r) BY <2>2, <1>7 DEF LoopBreaks
  <2> QED BY <1>15, <2>1, <2>2
<1>16. ASSUME NEW r \in Runs, Elapse(r) \/ Republish(r) \/ Publisher(r) PROVE IInv'
  <2>1. CASE Elapse(r) BY <2>1, <1>8 DEF Elapse
  <2>2. CASE Republish(r) BY <2>2, <1>8 DEF Republish
  <2>3. CASE Republished(r) BY <2>3, <1>8 DEF Republished
  <2>4. CASE RepublishStops(r) BY <2>4, <1>8 DEF RepublishStops
  <2> QED BY <1>16, <2>1, <2>2, <2>3, <2>4 DEF Publisher
<1> QED
  BY <1>1, <1>2, <1>3, <1>4, <1>5, <1>9, <1>11, <1>12, <1>13, <1>14, <1>15, <1>16
  DEF Next, Startup

\* The types and SignedOnce are invariants of the specification.
THEOREM Invariance == Spec => []IInv
BY InitIInv, NextIInv, PTL DEF Spec

\* The type invariant, for every set of runs: a run that gave up at startup
\* leaves no republisher, and only a signed packet is ever in the DHT.
THEOREM TypeCorrect == Spec => []TypeOK
<1>1. IInv => TypeOK
  BY DEF IInv
<1> QED BY Invariance, <1>1, PTL

\* The DHT record never goes back to an older run, however many runs overlap
\* and however long they republish (src/dht.rs:72).
THEOREM NoRollbackCorrect == Spec => NoRollback
<1>1. ASSUME IInv, [Next]_vars, record # None, record' # None
      PROVE  order'[record'] >= order[record]
  <2>types. /\ seq \in [Runs -> Nat] /\ order = seq /\ clock \in Nat
            /\ record \in Runs /\ seq[record] > 0
    BY <1>1 DEF IInv, TypeOK, SignedOnce
  <2>1. ASSUME NEW r \in Runs, Sign(r) PROVE order'[record'] >= order[record]
    <3>1. seq[r] = 0
      BY <1>1, <2>1 DEF Sign, IInv, TypeOK, PubsOf
    <3>2. record # r /\ record' = record /\ order'[record] = order[record]
      BY <2>1, <2>types, <3>1 DEF Sign
    <3> QED BY <3>2, <2>types
  <2>2. ASSUME NEW r \in Runs, Land(r) PROVE order'[record'] >= order[record]
    BY <1>1, <2>2, <2>types DEF Land
  <2>3. ASSUME UNCHANGED <<order, record>> PROVE order'[record'] >= order[record]
    BY <2>3, <2>types
  <2>4. \/ \E r \in Runs : Sign(r) \/ Land(r)
        \/ UNCHANGED <<order, record>>
    BY <1>1 DEF Next, vars, Start, Startup, StartFails, Published,
       PublishFailed, Abort, Stop, LoopBreaks, Elapse, Republish, Publisher,
       Republished, RepublishStops, Cancel, Crash, Answered, Refuse, Expire
  <2> QED BY <2>1, <2>2, <2>3, <2>4
<1>2. IInv /\ [Next]_vars
        => (record # None /\ record' # None => order'[record'] >= order[record])
  BY <1>1
<1>3. IInv /\ [Next]_vars
        => [record # None /\ record' # None => order'[record'] >= order[record]]_vars
  BY <1>2
<1> QED BY Invariance, <1>3, PTL DEF Spec, NoRollback
=============================================================================
