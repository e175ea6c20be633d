--------------------------- MODULE ReplicationLog ---------------------------
(***************************************************************************)
(* The in-memory replication log of src/src/ha.rs: a vector of entries and *)
(* the set of nodes that acknowledged each index.  A log value is a record *)
(*                                                                         *)
(*     [entries : Seq(Entry), acked : SUBSET (Nat \X Node)]                *)
(*                                                                         *)
(* where <<i, n>> \in acked stands for "n is in acked_by[i]".  leader_id,  *)
(* operation and payload of an entry are one abstract value val; sum says  *)
(* whether the stored checksum is the checksum of the entry's content, so  *)
(* two entries with equal idx, term, val and a good sum have equal         *)
(* checksums (fnv1a64 is taken to be free of collisions).                  *)
(***************************************************************************)
EXTENDS Naturals, Sequences, FiniteSets

CONSTANTS Node,      \* the ids a request can name, this server's among them
          Val        \* what an entry carries

Entry == [idx : Nat, term : Nat, val : Val, sum : BOOLEAN]

Log == [entries : Seq(Entry), acked : SUBSET (Nat \X Node)]

EmptyLog == [entries |-> << >>, acked |-> {}]

MaxOf(a, b) == IF a >= b THEN a ELSE b
MinOf(a, b) == IF a <= b THEN a ELSE b

LastIndex(log) == IF log.entries = << >> THEN 0 ELSE log.entries[Len(log.entries)].idx

LastTerm(log) == IF log.entries = << >> THEN 0 ELSE log.entries[Len(log.entries)].term

\* entry_at(index): the entry at a position, where there is one.
HasEntryAt(log, i) == i \in 1..Len(log.entries)

AckCount(log, i) == Cardinality({n \in Node : <<i, n>> \in log.acked})

-----------------------------------------------------------------------------
(* acknowledge(): refused for index 0 and beyond the last index.           *)

CanAcknowledge(log, i) == i # 0 /\ i <= LastIndex(log)

Acknowledge(log, i, n) ==
    IF CanAcknowledge(log, i)
    THEN [log EXCEPT !.acked = @ \cup {<<i, n>>}]
    ELSE log

(* append_leader_event(): the next index, acknowledged by the local node.  *)
(* ReplicationLogEntry::new refuses term 0.                                *)

NewEntry(log, term, v) ==
    [idx |-> LastIndex(log) + 1, term |-> term, val |-> v, sum |-> TRUE]

AppendLeaderEvent(log, term, v, self) ==
    LET e == NewEntry(log, term, v)
    IN  Acknowledge([log EXCEPT !.entries = Append(@, e)], e.idx, self)

-----------------------------------------------------------------------------
(* append_remote_entries(): the previous entry must be here with the same  *)
(* term; entries are then taken one by one until one is out of sequence or *)
(* fails its checksum.  What was taken before that entry stays.            *)

PrevMatches(log, prev, prevTerm) ==
    /\ prev <= LastIndex(log)
    /\ prev > 0 => /\ HasEntryAt(log, prev)
                   /\ log.entries[prev].term = prevTerm

\* Faulty variant of InSequence: the checksum is not verified.
InSequenceUnverified(prev, batch, k) == batch[k].idx = prev + k

InSequence(prev, batch, k) ==
    batch[k].idx = prev + k /\ batch[k].sum

\* How many leading entries of the batch the loop goes through.
Readable(prev, batch) ==
    CHOOSE k \in 0..Len(batch) :
        /\ \A j \in 1..k : InSequence(prev, batch, j)
        /\ k < Len(batch) => ~InSequence(prev, batch, k + 1)

SameEntry(a, b) == a.term = b.term /\ a.val = b.val /\ a.sum = b.sum

\* Faulty variants of TruncateFrom: the acknowledgements all stay, or the ones of i do.
TruncateEntriesOnly(log, i) ==
    [log EXCEPT !.entries = SubSeq(@, 1, MinOf(i - 1, Len(@)))]
TruncateAcksPast(log, i) ==
    [entries |-> SubSeq(log.entries, 1, MinOf(i - 1, Len(log.entries))),
     acked   |-> {a \in log.acked : a[1] <= i}]

\* truncate_from(): the entries from i on go, and the acknowledgements with them.
TruncateFrom(log, i) ==
    [entries |-> SubSeq(log.entries, 1, MinOf(i - 1, Len(log.entries))),
     acked   |-> {a \in log.acked : a[1] < i}]

\* Position k of the batch is new here or differs from what is here.
Diverges(log, prev, batch, k) ==
    \/ ~HasEntryAt(log, prev + k)
    \/ ~SameEntry(log.entries[prev + k], batch[k])

\* The entries the loop has applied when it has gone through the first n: those
\* before the first divergence are here already, the rest replaces the suffix.
Merged(log, prev, batch, n) ==
    IF \A k \in 1..n : ~Diverges(log, prev, batch, k)
    THEN log
    ELSE LET d == CHOOSE k \in 1..n :
                     /\ Diverges(log, prev, batch, k)
                     /\ \A j \in 1..(k - 1) : ~Diverges(log, prev, batch, j)
             kept == IF HasEntryAt(log, prev + d) THEN TruncateFrom(log, prev + d) ELSE log
         IN  [kept EXCEPT !.entries = @ \o SubSeq(batch, d, n)]

AppendAccepts(log, prev, prevTerm, batch) ==
    PrevMatches(log, prev, prevTerm) /\ Readable(prev, batch) = Len(batch)

\* The log after the call, whether it returns Ok or Err.
AppendRemoteEntries(log, prev, prevTerm, batch) ==
    IF PrevMatches(log, prev, prevTerm)
    THEN Merged(log, prev, batch, Readable(prev, batch))
    ELSE log

-----------------------------------------------------------------------------
(* compute_commit_index(): the loop stops at the first index after the     *)
(* current commit index that is past the log or lacks a quorum.            *)

HasQuorum(log, i, quorum) == AckCount(log, i) >= quorum

FirstUnacked(log, commit, quorum) ==
    CHOOSE i \in (commit + 1)..(LastIndex(log) + 1) :
        /\ i = LastIndex(log) + 1 \/ ~HasQuorum(log, i, quorum)
        /\ \A j \in (commit + 1)..(i - 1) : HasQuorum(log, j, quorum)

\* Faulty variant of ComputeCommitIndex: a quorum for the last entry stands for
\* the entries before it.
CommitThroughLast(log, commit, quorum) ==
    IF commit < LastIndex(log) /\ HasQuorum(log, LastIndex(log), quorum)
    THEN LastIndex(log)
    ELSE commit

ComputeCommitIndex(log, commit, quorum) ==
    IF quorum = 0 \/ commit >= LastIndex(log)
    THEN commit
    ELSE FirstUnacked(log, commit, quorum) - 1

-----------------------------------------------------------------------------
(* from_entries(): what a restart accepts.                                 *)

Contiguous(rows) ==
    /\ {e.idx : e \in rows} = 1..Cardinality(rows)
    /\ \A e \in rows : e.sum

FromEntries(rows) ==
    [entries |-> [i \in 1..Cardinality(rows) |-> CHOOSE e \in rows : e.idx = i],
     acked   |-> {}]
-----------------------------------------------------------------------------
(* What the operations keep of a log.                                      *)

\* Positions and indexes agree, and every entry passed its checksum.
WellFormed(log) ==
    \A i \in 1..Len(log.entries) : log.entries[i].idx = i /\ log.entries[i].sum

\* Only entries of the log are acknowledged.
AcksInside(log) == \A a \in log.acked : a[1] \in 1..Len(log.entries)

\* Terms start at 1, do not decrease and do not exceed t.
TermsUpTo(log, t) ==
    /\ \A i \in 1..Len(log.entries) : log.entries[i].term \in 1..t
    /\ \A i, j \in 1..Len(log.entries) : i <= j => log.entries[i].term <= log.entries[j].term
=============================================================================
