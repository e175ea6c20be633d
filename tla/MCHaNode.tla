------------------------------ MODULE MCHaNode ------------------------------
(***************************************************************************)
(* Small instances of HaNode: this server and one peer, logs of at most    *)
(* two entries, terms up to two (three once a promotion follows).          *)
(***************************************************************************)
EXTENDS HaNode

CONSTANTS s1, p1, v1, none

MCNode == {s1, p1}
MCVal == {v1}

Profile(role, automatic, quorum) ==
    [enabled |-> role # "standalone", role |-> role, automatic |-> automatic, quorum |-> quorum]

\* A primary that waits for the peer, a replica that takes over.
LogConfigs == {Profile("primary", FALSE, 2), Profile("replica", TRUE, 2)}

VoteConfigs == {Profile("standalone", FALSE, 1), Profile("replica", TRUE, 1)}

E(i, t, ok) == [idx |-> i, term |-> t, val |-> v1, sum |-> ok]

Batches ==
    { << >> }
    \cup { <<E(i, t, ok)>> : i \in 1..2, t \in 1..2, ok \in BOOLEAN }
    \cup { <<E(1, t, TRUE), E(2, u, ok)>> : t \in 1..2, u \in 1..2, ok \in BOOLEAN }

\* A heartbeat-like empty batch and batches that follow the previous entry; at
\* most the last entry is damaged.
LogReceives ==
    { r \in [term : 1..2, prev : 0..1, prevTerm : 0..2, batch : Batches, commit : {0, 2}] :
        /\ (r.prev = 0) = (r.prevTerm = 0)
        /\ r.prevTerm <= r.term
        /\ r.batch # << >> => r.batch[1].idx = r.prev + 1
        /\ LeaderShaped(r) }

LogHeartbeats == [term : 1..2, leader : {p1}, commit : {0, 2}]

OneEntryReceives ==
    { [term |-> t, prev |-> 0, prevTerm |-> 0, batch |-> <<E(1, t, TRUE)>>, commit |-> 0] : t \in 1..2 }

VoteCandidacies == [term : 0..2, candidate : MCNode, lastIdx : 0..1, lastTerm : 0..2]
VoteHeartbeats == [term : 0..2, leader : MCNode, commit : {0}]

NoRequests == {}
AckPeers == {p1}
Positions == 0..2
NoPositions == {0}
=============================================================================
