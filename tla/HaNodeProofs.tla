---------------------------- MODULE HaNodeProofs ----------------------------
(***************************************************************************)
(* Proofs about HaNode, for any nodes, values, profiles, request bodies    *)
(* and bounds that meet its assumptions.                                   *)
(*                                                                         *)
(* The inductive invariant IInv says that memory and store are each well   *)
(* formed and that, as long as no handler has failed half-way, they are in *)
(* step: same entries, no flag above the commit index, a noted position    *)
(* that is the end of the log, and a term that covers it.  None of these   *)
(* is inductive alone: flags are written from the index the                *)
(* acknowledgements support while memory clamps it to the noted position,  *)
(* and a restart takes both the log and the term from the store.           *)
(***************************************************************************)
EXTENDS HaNode, FiniteSetTheorems, FunctionTheorems, SequenceTheorems, WellFoundedInduction, TLAPS

-----------------------------------------------------------------------------
(* The log: what its operators keep, whoever uses them.                    *)

\* The well-ordering of the naturals, from that of the finite sets 0..m.
LEMMA LeastElement ==
    ASSUME NEW S \in SUBSET Nat, S # {}
    PROVE  \E n \in S : \A m \in S : n <= m
<1> DEFINE Below == {0..m : m \in S}
           Smaller == StrictSubsetOrdering(Nat)
<1>1. IsWellFoundedOn(Smaller, FiniteSubsetsOf(Nat))
    BY FS_StrictSubsetOrderingWellFounded
<1>2. Below \subseteq FiniteSubsetsOf(Nat) /\ Below # {}
    <2>1. \A m \in S : IsFiniteSet(0..m) /\ 0..m \in SUBSET Nat
        BY FS_Interval
    <2> QED BY <2>1 DEF FiniteSubsetsOf
<1>3. PICK X \in Below : \A Y \in Below : ~(<<Y, X>> \in Smaller)
    <2> HIDE DEF Below, Smaller
    <2> QED BY <1>1, <1>2, WFMin
<1>4. PICK n \in S : X = 0..n
    OBVIOUS
<1>5. ASSUME NEW m \in S PROVE n <= m
    <2>1. SUFFICES ASSUME m < n PROVE FALSE
        OBVIOUS
    <2>2. 0..m \in Below /\ 0..m \in SUBSET Nat /\ 0..n \in SUBSET Nat
        OBVIOUS
    <2>3. 0..m \subseteq 0..n /\ n \in 0..n /\ n \notin 0..m
        BY <2>1
    <2>4. <<0..m, 0..n>> \in Smaller
        BY <2>2, <2>3 DEF StrictSubsetOrdering
    <2> QED BY <1>3, <1>4, <2>2, <2>4
<1> QED BY <1>5

GoodLog(log) == log \in Log /\ WellFormed(log) /\ AcksInside(log)

\* The last index is the length of the log (last_index() of src/src/ha.rs).
LEMMA LastIndexIsLength ==
    ASSUME NEW log \in Log, WellFormed(log)
    PROVE  LastIndex(log) = Len(log.entries)
<1>1. log.entries \in Seq(Entry) /\ Len(log.entries) \in Nat
    BY DEF Log
<1>2. CASE log.entries = << >>
    BY <1>2 DEF LastIndex
<1>3. CASE log.entries # << >>
    <2>1. Len(log.entries) \in 1..Len(log.entries)
        BY <1>1, <1>3, EmptySeq
    <2> QED BY <1>3, <2>1 DEF LastIndex, WellFormed
<1> QED BY <1>2, <1>3

\* acknowledge() keeps the entries and only adds a pair for an entry of the log.
LEMMA AcknowledgeKeeps ==
    ASSUME NEW log, GoodLog(log), NEW i \in Nat, NEW n \in Node
    PROVE  /\ GoodLog(Acknowledge(log, i, n))
           /\ Acknowledge(log, i, n).entries = log.entries
<1>1. LastIndex(log) = Len(log.entries) /\ Len(log.entries) \in Nat
    BY LastIndexIsLength DEF GoodLog, Log
<1>2. CASE CanAcknowledge(log, i)
    <2> DEFINE new == [log EXCEPT !.acked = @ \cup {<<i, n>>}]
    <2>1. i \in 1..Len(log.entries)
        BY <1>1, <1>2 DEF CanAcknowledge
    <2>2. new \in Log /\ new.entries = log.entries /\ new.acked = log.acked \cup {<<i, n>>}
        BY DEF GoodLog, Log
    <2>3. WellFormed(new) /\ AcksInside(new)
        BY <2>1, <2>2 DEF GoodLog, WellFormed, AcksInside
    <2> QED BY <1>2, <2>2, <2>3 DEF Acknowledge, GoodLog
<1>3. CASE ~CanAcknowledge(log, i)
    BY <1>3 DEF Acknowledge
<1> QED BY <1>2, <1>3

\* append_leader_event() adds one entry at the next index, acknowledged or not.
LEMMA LeaderEventAppends ==
    ASSUME NEW log, GoodLog(log), NEW term \in Nat, NEW v \in Val, NEW self \in Node
    PROVE  LET new == AppendLeaderEvent(log, term, v, self)
               e   == NewEntry(log, term, v)
           IN  /\ GoodLog(new)
               /\ new.entries = Append(log.entries, e)
               /\ e \in Entry /\ e.idx = Len(log.entries) + 1 /\ e.term = term /\ e.sum
<1> DEFINE e   == NewEntry(log, term, v)
           ext == [log EXCEPT !.entries = Append(@, e)]
<1>1. LastIndex(log) = Len(log.entries) /\ Len(log.entries) \in Nat
    BY LastIndexIsLength DEF GoodLog, Log
<1>2. e \in Entry /\ e.idx = Len(log.entries) + 1 /\ e.term = term /\ e.sum
    BY <1>1 DEF NewEntry, Entry
<1>3. /\ log \in Log /\ log.entries \in Seq(Entry)
      /\ log.acked \in SUBSET (Nat \X Node)
    BY DEF GoodLog, Log
<1>4. /\ Append(log.entries, e) \in Seq(Entry)
      /\ Len(Append(log.entries, e)) = Len(log.entries) + 1
      /\ \A i \in 1..Len(log.entries) : Append(log.entries, e)[i] = log.entries[i]
      /\ Append(log.entries, e)[Len(log.entries) + 1] = e
    BY <1>2, <1>3, AppendProperties
<1>5. ext \in Log /\ ext.entries = Append(log.entries, e) /\ ext.acked = log.acked
    BY <1>3, <1>4 DEF Log
<1>6. WellFormed(ext)
    <2> SUFFICES ASSUME NEW i \in 1..Len(ext.entries)
                 PROVE  ext.entries[i].idx = i /\ ext.entries[i].sum
        BY DEF WellFormed
    <2>1. i \in 1..Len(log.entries) \/ i = Len(log.entries) + 1
        BY <1>1, <1>4, <1>5
    <2> QED BY <2>1, <1>2, <1>4, <1>5 DEF GoodLog, WellFormed
<1>7. AcksInside(ext)
    BY <1>1, <1>4, <1>5 DEF GoodLog, AcksInside
<1>8. GoodLog(ext)
    BY <1>5, <1>6, <1>7 DEF GoodLog
<1>9. e.idx \in Nat
    BY <1>1, <1>2
<1>10. /\ GoodLog(Acknowledge(ext, e.idx, self))
       /\ Acknowledge(ext, e.idx, self).entries = ext.entries
    BY <1>8, <1>9, AcknowledgeKeeps
<1> QED BY <1>2, <1>5, <1>10 DEF AppendLeaderEvent

\* append_remote_entries() goes through the entries before the first bad one.
LEMMA ReadablePrefix ==
    ASSUME NEW prev \in Nat, NEW batch \in Seq(Entry)
    PROVE  /\ Readable(prev, batch) \in 0..Len(batch)
           /\ \A j \in 1..Readable(prev, batch) : InSequence(prev, batch, j)
<1> DEFINE Bad == {k \in 0..Len(batch) : k < Len(batch) => ~InSequence(prev, batch, k + 1)}
<1>1. Len(batch) \in Nat
    OBVIOUS
<1>2. Bad \in SUBSET Nat /\ Bad # {}
    <2>1. Len(batch) \in Bad
        BY <1>1
    <2> QED BY <1>1, <2>1
<1>3. PICK k \in Bad : \A m \in Bad : k <= m
    <2> HIDE DEF Bad
    <2> QED BY <1>2, LeastElement
<1>4. \A j \in 1..k : InSequence(prev, batch, j)
    <2> SUFFICES ASSUME NEW j \in 1..k, ~InSequence(prev, batch, j) PROVE FALSE
        OBVIOUS
    <2>1. j \in Nat /\ (j - 1) + 1 = j /\ j - 1 \in 0..Len(batch) /\ j - 1 < k
        BY <1>1, <1>3
    <2>2. ~InSequence(prev, batch, (j - 1) + 1)
        BY <2>1
    <2>3. j - 1 \in Bad
        BY <2>1, <2>2
    <2>4. k <= j - 1
        BY <1>3, <2>3
    <2> QED BY <1>1, <1>3, <2>1, <2>4
<1>5. \E n \in 0..Len(batch) :
         /\ \A j \in 1..n : InSequence(prev, batch, j)
         /\ n < Len(batch) => ~InSequence(prev, batch, n + 1)
    BY <1>3, <1>4
<1> QED BY <1>5 DEF Readable

\* truncate_from() keeps the entries before i, and of the acknowledgements those
\* of the entries it keeps.
LEMMA TruncateKeeps ==
    ASSUME NEW log, GoodLog(log), NEW i \in 1..Len(log.entries)
    PROVE  LET new == TruncateFrom(log, i)
           IN  /\ GoodLog(new)
               /\ Len(new.entries) = i - 1
               /\ \A j \in 1..(i - 1) : new.entries[j] = log.entries[j]
               /\ new.acked = {a \in log.acked : a[1] < i}
<1> DEFINE new == TruncateFrom(log, i)
<1>1. log.entries \in Seq(Entry) /\ Len(log.entries) \in Nat /\ log.acked \in SUBSET (Nat \X Node)
    BY DEF GoodLog, Log
<1>2. MinOf(i - 1, Len(log.entries)) = i - 1
    BY <1>1 DEF MinOf
<1>3. new.entries = SubSeq(log.entries, 1, i - 1) /\ new.acked = {a \in log.acked : a[1] < i}
    BY <1>2 DEF TruncateFrom
<1>4. /\ new.entries \in Seq(Entry)
      /\ Len(new.entries) = i - 1
      /\ \A j \in 1..(i - 1) : new.entries[j] = log.entries[j]
    BY <1>1, <1>3
<1>5. new \in Log
    BY <1>1, <1>3, <1>4 DEF Log, TruncateFrom
<1> HIDE DEF new
<1>6. WellFormed(new)
    <2>1. \A j \in 1..(i - 1) : log.entries[j].idx = j /\ log.entries[j].sum
        BY <1>1 DEF GoodLog, WellFormed
    <2> QED BY <1>4, <2>1 DEF WellFormed
<1>7. AcksInside(new)
    BY <1>1, <1>3, <1>4 DEF GoodLog, AcksInside
<1> QED BY <1>3, <1>4, <1>5, <1>6, <1>7 DEF GoodLog, new

\* What append_remote_entries() makes of a log: nothing, or the entries up to a
\* position it agrees on with the batch, then the batch; only acknowledgements
\* of the entries that stay survive.
Spliced(log, new, prev, batch, n, d) ==
    /\ prev + d - 1 <= Len(log.entries)
    /\ Len(new.entries) = prev + n
    /\ \A i \in 1..(prev + d - 1) : new.entries[i] = log.entries[i]
    /\ \A k \in d..n : new.entries[prev + k] = batch[k]
    /\ new.acked = {a \in log.acked : a[1] < prev + d}
    /\ d > 1 => log.entries[prev + d - 1].term = batch[d - 1].term

\* append_remote_entries(), once it has accepted n entries, leaves a log that the
\* batch was spliced into.
LEMMA MergedShape ==
    ASSUME NEW log, GoodLog(log), NEW prev \in Nat, prev <= Len(log.entries),
           NEW batch \in Seq(Entry), NEW n \in 0..Len(batch),
           \A k \in 1..n : InSequence(prev, batch, k)
    PROVE  LET new == Merged(log, prev, batch, n)
           IN  /\ GoodLog(new)
               /\ new = log \/ \E d \in 1..n : Spliced(log, new, prev, batch, n, d)
<1> DEFINE new == Merged(log, prev, batch, n)
           Div(k) == Diverges(log, prev, batch, k)
<1>1. /\ log \in Log /\ log.entries \in Seq(Entry) /\ Len(log.entries) \in Nat
      /\ log.acked \in SUBSET (Nat \X Node) /\ Len(batch) \in Nat /\ n \in Nat
    BY DEF GoodLog, Log
<1>2. CASE \A k \in 1..n : ~Div(k)
    BY <1>2 DEF Merged
<1>3. CASE \E k \in 1..n : Div(k)
    <2> DEFINE Bad == {k \in 1..n : Div(k)}
               First(k) == Div(k) /\ \A j \in 1..(k - 1) : ~Div(j)
    <2>1. \E k \in 1..n : First(k)
        <3> HIDE DEF Div
        <3>1. Bad \in SUBSET Nat /\ Bad # {}
            BY <1>3
        <3>2. PICK k \in Bad : \A m \in Bad : k <= m
            <4> HIDE DEF Bad
            <4> QED BY <3>1, LeastElement
        <3>3. k \in 1..n /\ First(k)
            BY <3>2
        <3> QED BY <3>3
    <2> DEFINE d    == CHOOSE k \in 1..n : First(k)
               kept == IF HasEntryAt(log, prev + d) THEN TruncateFrom(log, prev + d) ELSE log
               tail == SubSeq(batch, d, n)
    <2>2. d \in 1..n /\ First(d)
        <3> HIDE DEF First
        <3> QED BY <2>1
    <2>3. new = [kept EXCEPT !.entries = @ \o tail]
        BY <1>3 DEF Merged
    <2> HIDE DEF d
    <2>4. prev + d - 1 <= Len(log.entries)
        <3>1. CASE d = 1
            BY <1>1, <3>1
        <3>2. CASE d > 1
            <4>1. d - 1 \in 1..(d - 1) /\ prev + (d - 1) = prev + d - 1
                BY <2>2, <3>2
            <4>2. HasEntryAt(log, prev + (d - 1))
                BY <2>2, <4>1 DEF Diverges
            <4> QED BY <1>1, <4>1, <4>2 DEF HasEntryAt
        <3> QED BY <2>2, <3>1, <3>2
    <2>5. d > 1 => log.entries[prev + d - 1].term = batch[d - 1].term
        <3> SUFFICES ASSUME d > 1 PROVE log.entries[prev + d - 1].term = batch[d - 1].term
            OBVIOUS
        <3>1. d - 1 \in 1..(d - 1) /\ prev + (d - 1) = prev + d - 1
            BY <2>2
        <3>2. ~Div(d - 1)
            BY <2>2, <3>1
        <3> QED BY <3>1, <3>2 DEF Diverges, SameEntry
    <2>6. /\ GoodLog(kept)
          /\ Len(kept.entries) = prev + d - 1
          /\ \A j \in 1..(prev + d - 1) : kept.entries[j] = log.entries[j]
          /\ kept.acked = {a \in log.acked : a[1] < prev + d}
        <3>1. CASE HasEntryAt(log, prev + d)
            <4>1. prev + d \in 1..Len(log.entries)
                BY <3>1 DEF HasEntryAt
            <4>2. kept = TruncateFrom(log, prev + d)
                BY <3>1
            <4>3. /\ GoodLog(TruncateFrom(log, prev + d))
                  /\ Len(TruncateFrom(log, prev + d).entries) = prev + d - 1
                  /\ \A j \in 1..(prev + d - 1) : TruncateFrom(log, prev + d).entries[j] = log.entries[j]
                  /\ TruncateFrom(log, prev + d).acked = {a \in log.acked : a[1] < prev + d}
                <5> HIDE DEF kept, new
                <5>1. (prev + d) - 1 = prev + d - 1
                    BY <2>2
                <5> QED BY <4>1, <5>1, TruncateKeeps
            <4> HIDE DEF kept, new, tail, First, Div
            <4> QED BY <4>2, <4>3, Zenon
        <3>2. CASE ~HasEntryAt(log, prev + d)
            <4>1. kept = log /\ Len(log.entries) = prev + d - 1
                BY <1>1, <2>2, <2>4, <3>2 DEF HasEntryAt
            <4>2. \A a \in log.acked : a[1] < prev + d
                BY <1>1, <2>2, <4>1 DEF GoodLog, AcksInside
            <4> QED BY <4>1, <4>2
        <3> QED BY <3>1, <3>2
    <2> HIDE DEF kept, First
    <2>7. /\ tail \in Seq(Entry) /\ Len(tail) = n - d + 1
          /\ \A k \in d..n : tail[k - d + 1] = batch[k]
        BY <1>1, <2>2
    <2> HIDE DEF tail
    <2>8. kept \in Log /\ kept.entries \in Seq(Entry) /\ kept.acked \in SUBSET (Nat \X Node)
        BY <2>6 DEF GoodLog, Log
    <2> HIDE DEF new, Div
    <2>9. /\ kept.entries \o tail \in Seq(Entry)
          /\ Len(kept.entries \o tail) = prev + n
          /\ \A i \in 1..(prev + d - 1) : (kept.entries \o tail)[i] = kept.entries[i]
          /\ \A k \in d..n : (kept.entries \o tail)[prev + k] = batch[k]
        <3>1. /\ kept.entries \o tail \in Seq(Entry)
              /\ Len(kept.entries \o tail) = Len(kept.entries) + Len(tail)
              /\ \A i \in 1..(Len(kept.entries) + Len(tail)) :
                    (kept.entries \o tail)[i] = IF i <= Len(kept.entries) THEN kept.entries[i]
                                                 ELSE tail[i - Len(kept.entries)]
            BY <2>7, <2>8, ConcatProperties
        <3>2. prev + d - 1 \in Nat /\ (prev + d - 1) + (n - d + 1) = prev + n
            BY <2>2
        <3>3. ASSUME NEW k \in d..n
              PROVE  /\ prev + k \in 1..(prev + n) /\ ~(prev + k <= prev + d - 1)
                     /\ (prev + k) - (prev + d - 1) = k - d + 1
            BY <2>2
        <3>4. \A i \in 1..(prev + d - 1) : i \in 1..(prev + n) /\ i <= prev + d - 1
            BY <2>2, <3>2
        <3> DEFINE cat == kept.entries \o tail
        <3>5. Len(kept.entries) = prev + d - 1 /\ Len(cat) = prev + n
            BY <2>6, <2>7, <3>1, <3>2
        <3>6. \A i \in 1..(prev + n) : cat[i] = IF i <= prev + d - 1 THEN kept.entries[i]
                                                 ELSE tail[i - (prev + d - 1)]
            BY <3>1, <3>5
        <3> HIDE DEF cat
        <3>7. \A i \in 1..(prev + d - 1) : cat[i] = kept.entries[i]
            BY <3>4, <3>6
        <3>8. ASSUME NEW k \in d..n PROVE cat[prev + k] = batch[k]
            BY <2>7, <3>3, <3>6
        <3> QED BY <3>1, <3>5, <3>7, <3>8 DEF cat
    <2>10. /\ new.entries = kept.entries \o tail
           /\ new.acked = kept.acked
           /\ new \in Log
        <3>1. [kept EXCEPT !.entries = kept.entries \o tail] \in Log
            BY <2>8, <2>9 DEF Log
        <3> QED BY <2>3, <2>8, <3>1 DEF Log
    <2>11. Len(new.entries) = prev + n
        BY <2>9, <2>10
    <2>12. /\ \A i \in 1..(prev + d - 1) : new.entries[i] = log.entries[i]
           /\ \A k \in d..n : new.entries[prev + k] = batch[k]
        BY <2>6, <2>9, <2>10
    <2>13. Spliced(log, new, prev, batch, n, d)
        BY <2>4, <2>5, <2>6, <2>10, <2>11, <2>12 DEF Spliced
    <2>14. WellFormed(new)
        <3> SUFFICES ASSUME NEW i \in 1..Len(new.entries)
                     PROVE  new.entries[i].idx = i /\ new.entries[i].sum
            BY DEF WellFormed
        <3>1. CASE i <= prev + d - 1
            <4>1. i \in 1..(prev + d - 1) /\ i \in 1..Len(log.entries)
                BY <1>1, <2>2, <2>4, <2>11, <3>1
            <4>2. log.entries[i].idx = i /\ log.entries[i].sum
                BY <4>1 DEF GoodLog, WellFormed
            <4> QED BY <2>12, <4>1, <4>2
        <3>2. CASE i > prev + d - 1
            <4>1. i - prev \in d..n /\ i - prev \in 1..n /\ prev + (i - prev) = i
                BY <1>1, <2>2, <2>11, <3>2
            <4>2. new.entries[i] = batch[i - prev]
                BY <2>12, <4>1
            <4> QED BY <4>1, <4>2 DEF InSequence
        <3> QED BY <1>1, <2>2, <2>11, <3>1, <3>2
    <2>15. AcksInside(new)
        BY <1>1, <2>2, <2>4, <2>6, <2>10, <2>11 DEF GoodLog, AcksInside
    <2> QED BY <2>2, <2>10, <2>13, <2>14, <2>15 DEF GoodLog, new
<1> QED BY <1>2, <1>3

\* append_remote_entries() gives a good log, and when it changes the log at all the
\* previous entry matched and the batch was spliced in.
LEMMA AppendRemoteShape ==
    ASSUME NEW log, GoodLog(log), NEW prev \in Nat, NEW prevTerm \in Nat,
           NEW batch \in Seq(Entry)
    PROVE  LET new == AppendRemoteEntries(log, prev, prevTerm, batch)
           IN  /\ GoodLog(new)
               /\ \/ new = log
                  \/ /\ PrevMatches(log, prev, prevTerm)
                     /\ \E n \in 0..Len(batch) : \E d \in 1..n :
                           Spliced(log, new, prev, batch, n, d)
<1>1. CASE ~PrevMatches(log, prev, prevTerm)
    BY <1>1 DEF AppendRemoteEntries
<1>2. CASE PrevMatches(log, prev, prevTerm)
    <2> DEFINE n   == Readable(prev, batch)
               new == Merged(log, prev, batch, n)
    <2>1. prev <= Len(log.entries)
        BY <1>2, LastIndexIsLength DEF PrevMatches, GoodLog
    <2>2. n \in 0..Len(batch) /\ \A k \in 1..n : InSequence(prev, batch, k)
        BY ReadablePrefix
    <2>3. AppendRemoteEntries(log, prev, prevTerm, batch) = new
        BY <1>2 DEF AppendRemoteEntries
    <2> HIDE DEF n
    <2>4. GoodLog(new) /\ (new = log \/ \E d \in 1..n : Spliced(log, new, prev, batch, n, d))
        BY <2>1, <2>2, MergedShape
    <2> QED BY <1>2, <2>2, <2>3, <2>4
<1> QED BY <1>1, <1>2

\* An acknowledgement that survives append_remote_entries() is for an entry that does.
LEMMA AppendRemoteKeepsAcked ==
    ASSUME NEW log, GoodLog(log), NEW prev \in Nat, NEW prevTerm \in Nat,
           NEW batch \in Seq(Entry)
    PROVE  LET new == AppendRemoteEntries(log, prev, prevTerm, batch)
           IN  \A a \in new.acked : a \in log.acked /\ new.entries[a[1]] = log.entries[a[1]]
<1> DEFINE new == AppendRemoteEntries(log, prev, prevTerm, batch)
<1>1. CASE new = log
    BY <1>1
<1>2. CASE \E n \in 0..Len(batch) : \E d \in 1..n : Spliced(log, new, prev, batch, n, d)
    <2>1. PICK n \in 0..Len(batch) : \E d \in 1..n : Spliced(log, new, prev, batch, n, d)
        BY <1>2
    <2>d. PICK d \in 1..n : Spliced(log, new, prev, batch, n, d)
        BY <2>1
    <2> HIDE DEF new
    <2>2. /\ new.acked = {a \in log.acked : a[1] < prev + d}
          /\ \A i \in 1..(prev + d - 1) : new.entries[i] = log.entries[i]
        BY <2>d DEF Spliced
    <2>3. ASSUME NEW a \in new.acked PROVE a \in log.acked /\ a[1] \in 1..(prev + d - 1)
        BY <2>d, <2>2 DEF GoodLog, AcksInside
    <2> QED BY <2>2, <2>3 DEF new
<1> QED BY <1>1, <1>2, AppendRemoteShape

\* A batch as a leader in term t sends it keeps the terms of the log in order.
LEMMA AppendRemoteKeepsTerms ==
    ASSUME NEW log, GoodLog(log), NEW t \in Nat, TermsUpTo(log, t),
           NEW prev \in Nat, NEW prevTerm \in Nat, NEW batch \in Seq(Entry),
           \A k \in 1..Len(batch) : batch[k].term \in prevTerm..t /\ batch[k].term >= 1,
           \A j, k \in 1..Len(batch) : j <= k => batch[j].term <= batch[k].term
    PROVE  TermsUpTo(AppendRemoteEntries(log, prev, prevTerm, batch), t)
<1> DEFINE new == AppendRemoteEntries(log, prev, prevTerm, batch)
<1>1. CASE new = log
    BY <1>1
<1>2. CASE /\ PrevMatches(log, prev, prevTerm)
           /\ \E n \in 0..Len(batch) : \E d \in 1..n : Spliced(log, new, prev, batch, n, d)
    <2>1. PICK n \in 0..Len(batch) : \E d \in 1..n : Spliced(log, new, prev, batch, n, d)
        BY <1>2
    <2>d. PICK d \in 1..n : Spliced(log, new, prev, batch, n, d)
        BY <2>1
    <2>2. log.entries \in Seq(Entry) /\ Len(log.entries) \in Nat /\ Len(batch) \in Nat
        BY DEF GoodLog, Log
    <2> HIDE DEF new
    <2>3. /\ prev + d - 1 <= Len(log.entries)
          /\ Len(new.entries) = prev + n
          /\ \A i \in 1..(prev + d - 1) : new.entries[i] = log.entries[i]
          /\ \A k \in d..n : new.entries[prev + k] = batch[k]
          /\ d > 1 => log.entries[prev + d - 1].term = batch[d - 1].term
        BY <2>d DEF Spliced
    <2>4. \A i \in 1..Len(log.entries) : log.entries[i].term \in 1..t
        BY DEF TermsUpTo
    <2>5. ASSUME NEW i \in 1..Len(new.entries)
          PROVE  \/ i \in 1..(prev + d - 1) /\ i \in 1..Len(log.entries)
                 \/ i - prev \in d..n /\ i - prev \in 1..Len(batch) /\ prev + (i - prev) = i
        <3> DEFINE old == Len(log.entries)
                   len == Len(batch)
        <3>1. /\ old \in Nat /\ len \in Nat /\ n \in 0..len /\ d \in 1..n
              /\ prev + d - 1 <= old /\ i \in 1..(prev + n)
            BY <2>d, <2>2, <2>3
        <3> HIDE DEF old, len
        <3>2. CASE i <= prev + d - 1
            <4>1. i \in 1..(prev + d - 1) /\ i \in 1..old
                BY <3>1, <3>2
            <4> QED BY <4>1 DEF old
        <3>3. CASE ~(i <= prev + d - 1)
            <4>1. i - prev \in d..n /\ i - prev \in 1..len /\ prev + (i - prev) = i
                BY <3>1, <3>3
            <4> QED BY <4>1 DEF len
        <3> QED BY <3>2, <3>3
    <2>6. ASSUME NEW i \in 1..Len(new.entries) PROVE new.entries[i].term \in 1..t
        <3>1. CASE i \in 1..(prev + d - 1) /\ i \in 1..Len(log.entries)
            BY <2>3, <2>4, <3>1
        <3>2. CASE i - prev \in d..n /\ i - prev \in 1..Len(batch) /\ prev + (i - prev) = i
            <4>1. new.entries[i] = batch[i - prev]
                BY <2>3, <3>2
            <4>2. batch[i - prev].term \in prevTerm..t /\ batch[i - prev].term >= 1
                BY <3>2
            <4> QED BY <4>1, <4>2
        <3> QED BY <2>5, <3>1, <3>2
    <2>7. \* The last kept entry is not above the batch entries that follow it.
          ASSUME NEW i \in 1..(prev + d - 1), NEW k \in d..n
          PROVE  log.entries[i].term <= batch[k].term
        <3>1. /\ i \in 1..Len(log.entries) /\ prev + d - 1 \in 1..Len(log.entries)
              /\ k \in 1..Len(batch) /\ i <= prev + d - 1
            BY <2>d, <2>2, <2>3
        <3> DEFINE last == log.entries[prev + d - 1].term
        <3>2. log.entries[i].term <= last /\ log.entries[i].term \in Nat /\ last \in Nat
            <4>1. \A m \in 1..Len(log.entries) :
                     /\ log.entries[m].term \in 1..t
                     /\ i <= m => log.entries[i].term <= log.entries[m].term
                BY <3>1 DEF TermsUpTo
            <4> QED BY <3>1, <4>1
        <3>3. batch[k].term \in prevTerm..t
            BY <3>1
        <3>4. CASE d = 1
            <4>1. prev + d - 1 = prev /\ prev > 0
                BY <3>1, <3>4
            <4>2. log.entries[prev].term = prevTerm
                BY <1>2, <4>1 DEF PrevMatches
            <4> QED BY <3>2, <3>3, <4>1, <4>2
        <3>5. CASE d > 1
            <4>1. d - 1 \in 1..Len(batch) /\ d - 1 <= k
                BY <2>d, <2>2, <3>1, <3>5
            <4>2. batch[d - 1].term <= batch[k].term
                BY <3>1, <4>1
            <4>3. last = batch[d - 1].term
                BY <2>3, <3>5
            <4>4. batch[k].term \in Nat
                BY <3>3
            <4> HIDE DEF last
            <4>5. last <= batch[k].term
                BY <4>2, <4>3
            <4> QED BY <3>2, <4>4, <4>5
        <3> QED BY <3>4, <3>5
    <2>8. ASSUME NEW i \in 1..Len(new.entries), NEW j \in 1..Len(new.entries), i <= j
          PROVE  new.entries[i].term <= new.entries[j].term
        <3>1. CASE j \in 1..(prev + d - 1) /\ j \in 1..Len(log.entries)
            <4>1. i \in 1..(prev + d - 1) /\ i \in 1..Len(log.entries)
                BY <2>8, <3>1
            <4> QED BY <2>3, <2>8, <3>1, <4>1 DEF TermsUpTo
        <3>2. CASE j - prev \in d..n /\ j - prev \in 1..Len(batch) /\ prev + (j - prev) = j
            <4>1. new.entries[j] = batch[j - prev]
                BY <2>3, <3>2
            <4>2. CASE i \in 1..(prev + d - 1) /\ i \in 1..Len(log.entries)
                <5>1. new.entries[i] = log.entries[i]
                    BY <2>3, <4>2
                <5>2. log.entries[i].term <= batch[j - prev].term
                    BY <2>7, <3>2, <4>2
                <5> QED BY <4>1, <5>1, <5>2
            <4>3. CASE i - prev \in d..n /\ i - prev \in 1..Len(batch) /\ prev + (i - prev) = i
                <5>1. new.entries[i] = batch[i - prev]
                    BY <2>3, <4>3
                <5>2. i - prev <= j - prev
                    BY <2>8, <3>2, <4>3
                <5> QED BY <3>2, <4>1, <4>3, <5>1, <5>2
            <4> QED BY <2>5, <4>2, <4>3
        <3> QED BY <2>5, <3>1, <3>2
    <2> QED BY <2>6, <2>8 DEF TermsUpTo, new
<1> QED BY <1>1, <1>2, AppendRemoteShape

\* compute_commit_index() never goes back, stays inside the log, and every index it
\* passes has been acknowledged by a quorum.
LEMMA CommitIndexHasQuorum ==
    ASSUME NEW log, GoodLog(log), NEW commit \in Nat, NEW quorum \in Nat
    PROVE  LET new == ComputeCommitIndex(log, commit, quorum)
           IN  /\ new \in Nat /\ new >= commit
               /\ new <= commit \/ new <= Len(log.entries)
               /\ quorum > 0 => \A i \in (commit + 1)..new : HasQuorum(log, i, quorum)
<1> DEFINE len == Len(log.entries)
<1>1. LastIndex(log) = len /\ len \in Nat
    BY LastIndexIsLength DEF GoodLog, Log
<1> HIDE DEF len
<1>2. CASE quorum = 0 \/ commit >= len
    <2>1. ComputeCommitIndex(log, commit, quorum) = commit
        BY <1>1, <1>2 DEF ComputeCommitIndex
    <2> QED BY <1>1, <2>1
<1>3. CASE quorum > 0 /\ commit < len
    <2> DEFINE Cand == (commit + 1)..(len + 1)
               Stop(i) == i = len + 1 \/ ~HasQuorum(log, i, quorum)
               Found(i) == Stop(i) /\ \A j \in (commit + 1)..(i - 1) : HasQuorum(log, j, quorum)
               Stops == {i \in Cand : Stop(i)}
    <2>1. Stops \in SUBSET Nat /\ Stops # {}
        <3>1. len + 1 \in Stops
            BY <1>1, <1>3
        <3> QED BY <1>1, <3>1
    <2>2. PICK i \in Stops : \A m \in Stops : i <= m
        <3> HIDE DEF Stops
        <3> QED BY <2>1, LeastElement
    <2>3. i \in Cand /\ Found(i)
        <3>1. i \in Cand /\ Stop(i)
            BY <2>2
        <3>2. ASSUME NEW j \in (commit + 1)..(i - 1), ~HasQuorum(log, j, quorum) PROVE FALSE
            <4>1. j \in Cand /\ j < i
                BY <1>1, <3>1
            <4>2. j \in Stops
                BY <3>2, <4>1
            <4> QED BY <1>1, <2>2, <3>1, <4>1, <4>2
        <3> QED BY <3>1, <3>2
    <2> DEFINE first == CHOOSE x \in Cand : Found(x)
    <2>4. first \in Cand /\ Found(first)
        <3> HIDE DEF Found, Cand
        <3> QED BY <2>3
    <2>5. ComputeCommitIndex(log, commit, quorum) = first - 1
        BY <1>1, <1>3 DEF ComputeCommitIndex, FirstUnacked
    <2> HIDE DEF first
    <2> QED BY <1>1, <1>3, <2>4, <2>5 DEF len
<1> QED BY <1>1, <1>2, <1>3

\* from_entries() makes a good log of contiguous rows.
LEMMA FromEntriesGood ==
    ASSUME NEW rows \in SUBSET Entry, IsFiniteSet(rows), Contiguous(rows)
    PROVE  /\ GoodLog(FromEntries(rows))
           /\ Len(FromEntries(rows).entries) = Cardinality(rows)
           /\ FromEntries(rows).acked = {}
           /\ \A i \in 1..Cardinality(rows) :
                 FromEntries(rows).entries[i] \in rows /\ FromEntries(rows).entries[i].idx = i
<1> DEFINE n == Cardinality(rows)
           Row(i) == CHOOSE e \in rows : e.idx = i
           entries == [i \in 1..n |-> Row(i)]
<1>1. n \in Nat
    BY FS_CardinalityType
<1>2. ASSUME NEW i \in 1..n PROVE Row(i) \in rows /\ Row(i).idx = i /\ Row(i) \in Entry /\ Row(i).sum
    <2>1. \E e \in rows : e.idx = i
        BY DEF Contiguous
    <2>2. Row(i) \in rows /\ Row(i).idx = i
        BY <2>1
    <2> HIDE DEF Row
    <2> QED BY <2>2 DEF Contiguous
<1> HIDE DEF n, Row
<1>3. entries \in [1..n -> Entry]
    BY <1>2
<1>4. entries \in Seq(Entry) /\ Len(entries) = n
    BY <1>1, <1>3
<1>5. FromEntries(rows) = [entries |-> entries, acked |-> {}]
    BY DEF FromEntries, n, Row
<1>6. \A i \in 1..n : entries[i] = Row(i)
    OBVIOUS
<1> HIDE DEF entries
<1>7. FromEntries(rows) \in Log
    BY <1>4, <1>5 DEF Log
<1>8. WellFormed(FromEntries(rows))
    BY <1>2, <1>4, <1>5, <1>6 DEF WellFormed
<1>9. AcksInside(FromEntries(rows))
    BY <1>5 DEF AcksInside
<1> QED BY <1>2, <1>4, <1>5, <1>6, <1>7, <1>8, <1>9 DEF GoodLog, n

\* What rewrite_replication_log_store() writes, from_entries() reads back.
RowsOf(log) == {log.entries[i] : i \in 1..Len(log.entries)}

\* The rows of a log in memory are rows a restart accepts, and give the log back.
LEMMA StoreRoundTrip ==
    ASSUME NEW log, GoodLog(log)
    PROVE  /\ IsFiniteSet(RowsOf(log)) /\ RowsOf(log) \in SUBSET Entry
           /\ Contiguous(RowsOf(log))
           /\ FromEntries(RowsOf(log)).entries = log.entries
<1> DEFINE n    == Len(log.entries)
           rows == RowsOf(log)
<1>1. /\ log.entries \in Seq(Entry) /\ n \in Nat
      /\ \A i \in 1..n : log.entries[i] \in Entry
      /\ \A i \in 1..n : log.entries[i].idx = i /\ log.entries[i].sum
    BY DEF GoodLog, Log, WellFormed
<1>2. log.entries \in Bijection(1..n, rows)
    <2>1. log.entries \in [1..n -> rows]
        BY <1>1, LenProperties DEF RowsOf
    <2>2. \A i, j \in 1..n : log.entries[i] = log.entries[j] => i = j
        BY <1>1
    <2>3. \A r \in rows : \E i \in 1..n : log.entries[i] = r
        BY DEF RowsOf
    <2> QED BY <2>1, <2>2, <2>3, Fun_IsBij
<1>3. IsFiniteSet(rows) /\ Cardinality(rows) = n
    BY <1>1, <1>2, FS_NatBijection, FS_CountingElements DEF ExistsBijection
<1>4. rows \in SUBSET Entry /\ \A r \in rows : r.idx \in 1..n /\ r.sum /\ r = log.entries[r.idx]
    BY <1>1 DEF RowsOf
<1>5. Contiguous(rows)
    <2>1. ASSUME NEW i \in 1..n PROVE \E r \in rows : r.idx = i
        BY <1>1 DEF RowsOf
    <2> HIDE DEF rows, n
    <2> QED BY <1>3, <1>4, <2>1 DEF Contiguous
<1>6. /\ FromEntries(rows).entries \in Seq(Entry)
      /\ Len(FromEntries(rows).entries) = n
      /\ \A i \in 1..n : FromEntries(rows).entries[i] \in rows /\ FromEntries(rows).entries[i].idx = i
    <2> HIDE DEF rows
    <2> QED BY <1>3, <1>4, <1>5, FromEntriesGood DEF GoodLog, Log
<1>7. \A i \in 1..n : FromEntries(rows).entries[i] = log.entries[i]
    BY <1>4, <1>6
<1>8. FromEntries(rows).entries = log.entries
    <2> HIDE DEF rows
    <2> QED BY <1>1, <1>6, <1>7, SeqEqual
<1> QED BY <1>3, <1>4, <1>5, <1>8

-----------------------------------------------------------------------------
(* The node: its memory, its store and its handlers.                       *)

GoodMem(m) == m \in Memory /\ GoodLog(m.log)

GoodDisk(d) ==
    /\ d \in Disk
    /\ IsFiniteSet(d.rows)
    /\ \A r \in d.rows : r.idx >= 1 /\ r.sum
    /\ \A r, s \in d.rows : r.idx = s.idx => r = s
    /\ d.committed \subseteq {r.idx : r \in d.rows}

InStep(m, d) ==
    /\ d.rows = RowsOf(m.log)
    /\ \A i \in d.committed : i <= m.commit
    /\ m.lastIdx = Len(m.log.entries)
    /\ TermsUpTo(m.log, m.term)

IInv ==
    /\ config \in Configs
    /\ GoodMem(mem)
    /\ GoodDisk(disk)
    /\ up \in BOOLEAN
    /\ torn \in BOOLEAN
    /\ ~torn => InStep(mem, disk)
    /\ PrimaryHasVoted

-----------------------------------------------------------------------------
(* The methods of HaRuntimeState.                                          *)

\* promote_to_primary() starts a new term, with a vote for the promoted node.
LEMMA PromoteEffect ==
    ASSUME NEW m \in Memory, NEW id \in Node
    PROVE  LET p == PromoteToPrimary(m, id)
           IN  /\ p \in Memory /\ p.role = "primary" /\ p.voted = id
               /\ p.term > m.term /\ p.term >= 1
               /\ p.log = m.log /\ p.commit = m.commit /\ p.applied = m.applied
               /\ p.lastIdx = m.lastIdx /\ p.enabled = m.enabled
<1> DEFINE t == MaxOf(m.term + 1, 1)
<1>1. t \in Nat /\ t > m.term /\ t >= 1
    BY DEF Memory, MaxOf
<1>2. PromoteToPrimary(m, id) = [m EXCEPT !.role = "primary", !.term = t, !.voted = id]
    BY DEF PromoteToPrimary
<1> HIDE DEF t
<1> QED BY <1>1, <1>2 DEF Memory, Role

\* adopt_term() never lowers the term, and forgets the vote only with the term.
LEMMA AdoptEffect ==
    ASSUME NEW m \in Memory, NEW t \in Nat
    PROVE  LET a == AdoptTerm(m, t)
           IN  /\ a \in Memory /\ a.term >= m.term /\ a.term >= t
               /\ a.term = m.term => a = m
               /\ a.term # m.term => a.term = t /\ a.voted = None /\ a.role # "primary"
               /\ a.role = "primary" => m.role = "primary"
               /\ a.log = m.log /\ a.commit = m.commit /\ a.applied = m.applied
               /\ a.lastIdx = m.lastIdx
<1>1. CASE t > m.term
    <2> DEFINE r == IF m.role = "primary" THEN "replica" ELSE m.role
    <2>1. r \in Role /\ r # "primary" /\ m.term \in Nat
        BY DEF Memory, Role
    <2>2. AdoptTerm(m, t) = [m EXCEPT !.term = t, !.voted = None, !.role = r]
        BY <1>1 DEF AdoptTerm
    <2> HIDE DEF r
    <2> DEFINE a == [m EXCEPT !.term = t, !.voted = None, !.role = r]
    <2>3. a \in Memory
        BY <2>1 DEF Memory
    <2>4. /\ a.term = t /\ a.voted = None /\ a.role = r /\ a.log = m.log
          /\ a.commit = m.commit /\ a.applied = m.applied /\ a.lastIdx = m.lastIdx
        BY DEF Memory
    <2>5. a.term > m.term /\ a.term # m.term
        BY <1>1, <2>1, <2>4
    <2> HIDE DEF a
    <2> QED BY <2>1, <2>2, <2>3, <2>4, <2>5 DEF a
<1>2. CASE ~(t > m.term)
    BY <1>2 DEF AdoptTerm, Memory
<1> QED BY <1>1, <1>2

\* step_down_to_replica() touches the role alone.
LEMMA StepDownEffect ==
    ASSUME NEW m \in Memory
    PROVE  LET s == StepDownToReplica(m)
           IN  /\ s \in Memory /\ s.role = "replica" /\ s.term = m.term /\ s.voted = m.voted
               /\ s.log = m.log /\ s.commit = m.commit /\ s.applied = m.applied
               /\ s.lastIdx = m.lastIdx
BY DEF StepDownToReplica, Memory, Role

\* advance_commit_index() clamps to the noted position and never goes back.
LEMMA AdvanceEffect ==
    ASSUME NEW m \in Memory, NEW c \in Nat
    PROVE  LET a == AdvanceCommitIndex(m, c)
           IN  /\ a \in Memory
               /\ a.commit >= m.commit /\ a.applied >= m.applied
               /\ a.commit = m.commit \/ (a.commit <= c /\ a.commit <= m.lastIdx)
               /\ c <= m.lastIdx => a.commit >= c
               /\ a.log = m.log /\ a.term = m.term /\ a.voted = m.voted /\ a.role = m.role
               /\ a.lastIdx = m.lastIdx /\ a.lastTerm = m.lastTerm
<1> DEFINE k == MaxOf(MinOf(c, m.lastIdx), m.commit)
           x == MaxOf(m.applied, k)
<1>1. m.commit \in Nat /\ m.applied \in Nat /\ m.lastIdx \in Nat
    BY DEF Memory
<1>2. /\ k \in Nat /\ k >= m.commit /\ (k = m.commit \/ (k <= c /\ k <= m.lastIdx))
      /\ c <= m.lastIdx => k >= c
    BY <1>1 DEF MaxOf, MinOf
<1> HIDE DEF k
<1>3. x \in Nat /\ x >= m.applied
    BY <1>1, <1>2 DEF MaxOf
<1>4. AdvanceCommitIndex(m, c) = [m EXCEPT !.commit = k, !.applied = x]
    BY DEF AdvanceCommitIndex, k
<1> HIDE DEF x
<1>5. [m EXCEPT !.commit = k, !.applied = x] \in Memory
    BY <1>2, <1>3 DEF Memory
<1> QED BY <1>2, <1>3, <1>4, <1>5 DEF Memory

\* mark_heartbeat() lowers the commit index at most to the noted position.
LEMMA HeartbeatEffect ==
    ASSUME NEW m \in Memory, NEW c \in Nat
    PROVE  LET h == MarkHeartbeat(m, c)
           IN  /\ h \in Memory
               /\ h.commit >= m.commit \/ (h.commit = m.lastIdx /\ m.commit > m.lastIdx)
               /\ h.applied >= m.applied
               /\ h.log = m.log /\ h.term = m.term /\ h.voted = m.voted /\ h.role = m.role
               /\ h.lastIdx = m.lastIdx
<1> DEFINE k == MinOf(MaxOf(m.commit, c), m.lastIdx)
           x == MaxOf(m.applied, k)
<1>1. m.commit \in Nat /\ m.applied \in Nat /\ m.lastIdx \in Nat
    BY DEF Memory
<1>2. k \in Nat /\ (k >= m.commit \/ (k = m.lastIdx /\ m.commit > m.lastIdx))
    BY <1>1 DEF MaxOf, MinOf
<1>3. x \in Nat /\ x >= m.applied
    <2> HIDE DEF k
    <2> QED BY <1>1, <1>2 DEF MaxOf
<1>4. MarkHeartbeat(m, c) = [m EXCEPT !.commit = k, !.applied = x, !.beat = "fresh"]
    BY DEF MarkHeartbeat
<1> HIDE DEF k, x
<1> QED BY <1>2, <1>3, <1>4 DEF Memory, HeartbeatAge

\* The last term of a good log is a natural number, and that of its last entry.
LEMMA LastTermOfLog ==
    ASSUME NEW log, GoodLog(log)
    PROVE  /\ LastTerm(log) \in Nat
           /\ Len(log.entries) > 0 => LastTerm(log) = log.entries[Len(log.entries)].term
<1>1. /\ log.entries \in Seq(Entry) /\ Len(log.entries) \in Nat
      /\ \A i \in 1..Len(log.entries) : log.entries[i] \in Entry
    BY DEF GoodLog, Log
<1>2. CASE log.entries = << >>
    BY <1>2 DEF LastTerm
<1>3. CASE log.entries # << >>
    <2>1. Len(log.entries) \in 1..Len(log.entries)
        BY <1>1, <1>3, EmptySeq
    <2> QED BY <1>1, <1>3, <2>1 DEF LastTerm, Entry
<1> QED BY <1>2, <1>3

\* note_log_position() notes the end of the log.
LEMMA NoteEffect ==
    ASSUME NEW m, GoodMem(m)
    PROVE  LET n == NoteLogPosition(m)
           IN  /\ n \in Memory /\ n.lastIdx = Len(m.log.entries) /\ n.lastTerm = LastTerm(m.log)
               /\ n.log = m.log /\ n.term = m.term /\ n.voted = m.voted /\ n.role = m.role
               /\ n.commit = m.commit /\ n.applied = m.applied
<1>1. LastTerm(m.log) \in Nat /\ LastIndex(m.log) = Len(m.log.entries) /\ Len(m.log.entries) \in Nat
    BY LastTermOfLog, LastIndexIsLength DEF GoodMem, GoodLog, Log
<1> QED BY <1>1 DEF GoodMem, NoteLogPosition, Memory

-----------------------------------------------------------------------------
(* The writes to the catalog.                                              *)

\* append_replication_entry_to_store() replaces the row of the entry's index.
LEMMA PutRowEffect ==
    ASSUME NEW d, GoodDisk(d), NEW e \in Entry, e.idx >= 1, e.sum, NEW flag \in BOOLEAN
    PROVE  LET p == PutRow(d, e, flag)
           IN  /\ GoodDisk(p)
               /\ p.rows = {r \in d.rows : r.idx # e.idx} \cup {e}
               /\ \A i \in p.committed : i \in d.committed \/ (i = e.idx /\ flag)
<1> DEFINE p    == PutRow(d, e, flag)
           kept == {r \in d.rows : r.idx # e.idx}
           flags == IF flag THEN d.committed \cup {e.idx} ELSE d.committed \ {e.idx}
<1>1. /\ d.rows \in SUBSET Entry /\ d.committed \in SUBSET Nat
      /\ d.votes \in SUBSET (Nat \X Node) /\ e.idx \in Nat
      /\ d \in Disk
    BY DEF GoodDisk, Disk, Entry
<1>2. p = [d EXCEPT !.rows = kept \cup {e}, !.committed = flags]
    BY <1>1 DEF PutRow, Disk
<1>3. kept \cup {e} \in SUBSET Entry /\ flags \in SUBSET Nat
    BY <1>1
<1>4. IsFiniteSet(kept \cup {e})
    BY FS_Subset, FS_AddElement DEF GoodDisk
<1>5. /\ \A r \in kept \cup {e} : r.idx >= 1 /\ r.sum
      /\ \A r, s \in kept \cup {e} : r.idx = s.idx => r = s
    BY DEF GoodDisk
<1>6. flags \subseteq {r.idx : r \in kept \cup {e}}
    <2> SUFFICES ASSUME NEW i \in flags PROVE \E r \in kept \cup {e} : r.idx = i
        OBVIOUS
    <2>1. CASE i = e.idx
        BY <2>1
    <2>2. CASE i # e.idx
        <3>1. i \in d.committed
            BY <2>2
        <3>2. PICK r \in d.rows : r.idx = i
            BY <3>1 DEF GoodDisk
        <3> QED BY <2>2, <3>2
    <2> QED BY <2>1, <2>2
<1>7. \A i \in flags : i \in d.committed \/ (i = e.idx /\ flag)
    OBVIOUS
<1> HIDE DEF p, kept, flags
<1>8. p \in Disk /\ p.rows = kept \cup {e} /\ p.committed = flags
    BY <1>1, <1>2, <1>3 DEF Disk
<1>9. GoodDisk(p)
    BY <1>4, <1>5, <1>6, <1>8 DEF GoodDisk
<1> QED BY <1>7, <1>8, <1>9 DEF p, kept

\* mark_committed_replication_entries() flags stored rows up to the index it is given.
LEMMA MarkEffect ==
    ASSUME NEW d, GoodDisk(d), NEW c \in Nat
    PROVE  LET k == MarkCommitted(d, c)
           IN  /\ GoodDisk(k)
               /\ k.rows = d.rows
               /\ \A i \in k.committed : i \in d.committed \/ i <= c
<1> DEFINE flags == d.committed \cup {e.idx : e \in {r \in d.rows : r.idx <= c}}
<1>1. /\ d.rows \in SUBSET Entry /\ d.committed \in SUBSET Nat
      /\ d \in Disk
    BY DEF GoodDisk, Disk
<1>2. MarkCommitted(d, c) = [d EXCEPT !.committed = flags]
    BY <1>1 DEF MarkCommitted, Disk
<1>3. flags \in SUBSET Nat /\ flags \subseteq {r.idx : r \in d.rows}
    BY <1>1 DEF GoodDisk, Entry
<1>4. \A i \in flags : i \in d.committed \/ i <= c
    OBVIOUS
<1> HIDE DEF flags
<1>5. /\ [d EXCEPT !.committed = flags] \in Disk
      /\ [d EXCEPT !.committed = flags].rows = d.rows
      /\ [d EXCEPT !.committed = flags].committed = flags
    BY <1>1, <1>3 DEF Disk
<1> QED BY <1>2, <1>3, <1>4, <1>5 DEF GoodDisk

\* rewrite_replication_log_store() makes the store the log in memory.
LEMMA RewriteEffect ==
    ASSUME NEW d, GoodDisk(d), NEW m, GoodMem(m)
    PROVE  LET w == RewriteRows(d, m)
           IN  /\ GoodDisk(w)
               /\ w.rows = RowsOf(m.log)
               /\ \A i \in w.committed : i <= m.commit
<1> DEFINE rows  == RowsOf(m.log)
           flags == {e.idx : e \in {r \in rows : r.idx <= m.commit}}
<1>1. d \in Disk /\ m.log.entries \in Seq(Entry)
    BY DEF GoodDisk, GoodMem, GoodLog, Log
<1>2. IsFiniteSet(rows) /\ rows \in SUBSET Entry
    BY StoreRoundTrip DEF GoodMem
<1>3. \A r \in rows : r.idx \in 1..Len(m.log.entries) /\ r.sum /\ r = m.log.entries[r.idx]
    BY DEF RowsOf, GoodMem, GoodLog, WellFormed
<1>4. RewriteRows(d, m) = [d EXCEPT !.rows = rows, !.committed = flags]
    BY <1>1 DEF RewriteRows, LogRows, RowsOf, Disk
<1> HIDE DEF rows
<1>5. /\ flags \in SUBSET Nat /\ flags \subseteq {r.idx : r \in rows}
      /\ \A i \in flags : i <= m.commit
    BY <1>2 DEF Entry
<1> HIDE DEF flags
<1> DEFINE w == [d EXCEPT !.rows = rows, !.committed = flags]
<1>6. w \in Disk /\ w.rows = rows /\ w.committed = flags
    BY <1>1, <1>2, <1>5 DEF Disk
<1>7. \A r \in rows : r.idx >= 1
    BY <1>1, <1>3
<1> HIDE DEF w
<1>8. GoodDisk(w)
    BY <1>2, <1>3, <1>5, <1>6, <1>7 DEF GoodDisk
<1> QED BY <1>4, <1>5, <1>6, <1>8 DEF w, rows

\* persist_vote_event() leaves the replication log alone.
LEMMA PutVoteEffect ==
    ASSUME NEW d, GoodDisk(d), NEW t \in Nat, NEW n \in Node
    PROVE  LET p == PutVote(d, t, n)
           IN  GoodDisk(p) /\ p.rows = d.rows /\ p.committed = d.committed
<1>1. /\ PutVote(d, t, n) \in Disk
      /\ PutVote(d, t, n).rows = d.rows /\ PutVote(d, t, n).committed = d.committed
    BY DEF PutVote, GoodDisk, Disk
<1> QED BY <1>1 DEF GoodDisk

-----------------------------------------------------------------------------
(* The append at the end of a log, by a primary or by a promotion.         *)

Appended(b, v, q) == AdvanceCommitIndex(LeaderAppend(b, v), SupportedCommit(LeaderAppend(b, v), q))

\* The appended entry is the last one, the noted position is its index, and the
\* index that goes to the store is not above the new commit index.
LEMMA AppendedEffect ==
    ASSUME NEW b, GoodMem(b), NEW v \in Val, NEW q \in Nat
    PROVE  LET a == Appended(b, v, q)
               l == LeaderAppend(b, v)
               s == SupportedCommit(l, q)
               e == NewEntry(b.log, b.term, v)
           IN  /\ GoodMem(a)
               /\ a.log = l.log /\ a.log.entries = Append(b.log.entries, e)
               /\ e \in Entry /\ e.idx = Len(b.log.entries) + 1 /\ e.term = b.term /\ e.sum
               /\ a.lastIdx = Len(b.log.entries) + 1
               /\ a.term = b.term /\ a.voted = b.voted /\ a.role = b.role
               /\ s \in Nat /\ s <= a.commit /\ a.commit >= b.commit /\ a.applied >= b.applied
               /\ \A i \in (b.commit + 1)..a.commit : HasQuorum(a.log, i, q)
<1> DEFINE e == NewEntry(b.log, b.term, v)
           n == [b EXCEPT !.log = AppendLeaderEvent(@, b.term, v, Self)]
           l == LeaderAppend(b, v)
           s == SupportedCommit(l, q)
           a == Appended(b, v, q)
<1>1. b \in Memory /\ GoodLog(b.log) /\ b.term \in Nat /\ b.commit \in Nat /\ Self \in Node
    BY SelfAssumption DEF GoodMem, Memory
<1>2. /\ GoodLog(AppendLeaderEvent(b.log, b.term, v, Self))
      /\ AppendLeaderEvent(b.log, b.term, v, Self).entries = Append(b.log.entries, e)
      /\ e \in Entry /\ e.idx = Len(b.log.entries) + 1 /\ e.term = b.term /\ e.sum
    BY <1>1, LeaderEventAppends
<1>3. /\ n \in Memory /\ n.log = AppendLeaderEvent(b.log, b.term, v, Self)
      /\ n.term = b.term /\ n.voted = b.voted /\ n.role = b.role
      /\ n.commit = b.commit /\ n.applied = b.applied
    BY <1>1, <1>2 DEF Memory, GoodLog
<1>4. l = NoteLogPosition(n)
    BY DEF LeaderAppend
<1> HIDE DEF n, l
<1>5. Len(n.log.entries) = Len(b.log.entries) + 1
    <2>1. b.log.entries \in Seq(Entry)
        BY <1>1 DEF GoodLog, Log
    <2> QED BY <1>2, <1>3, <2>1, AppendProperties
<1>6. GoodMem(n)
    BY <1>2, <1>3 DEF GoodMem
<1>7. /\ l \in Memory /\ l.lastIdx = Len(b.log.entries) + 1
      /\ l.log = n.log /\ l.term = b.term /\ l.voted = b.voted /\ l.role = b.role
      /\ l.commit = b.commit /\ l.applied = b.applied
    BY <1>3, <1>4, <1>5, <1>6, NoteEffect
<1>8. /\ s \in Nat /\ s >= b.commit /\ (s <= b.commit \/ s <= l.lastIdx)
      /\ q > 0 => \A i \in (b.commit + 1)..s : HasQuorum(l.log, i, q)
      /\ q = 0 => s = b.commit
    <2>1. GoodLog(l.log) /\ Len(l.log.entries) = l.lastIdx
        BY <1>2, <1>3, <1>5, <1>7
    <2>2. s = ComputeCommitIndex(l.log, b.commit, q)
        BY <1>7 DEF SupportedCommit
    <2>3. q = 0 => s = b.commit
        BY <2>2 DEF ComputeCommitIndex
    <2> QED BY <1>1, <2>1, <2>2, <2>3, CommitIndexHasQuorum
<1>9. a = AdvanceCommitIndex(l, s)
    BY DEF Appended, l
<1> HIDE DEF s, a
<1>10. /\ a \in Memory /\ a.commit >= b.commit /\ a.applied >= b.applied
       /\ a.commit = b.commit \/ (a.commit <= s /\ a.commit <= l.lastIdx)
       /\ s <= l.lastIdx => a.commit >= s
       /\ a.log = l.log /\ a.term = b.term /\ a.voted = b.voted /\ a.role = b.role
       /\ a.lastIdx = l.lastIdx
    BY <1>7, <1>8, <1>9, AdvanceEffect
<1>11. a.commit \in Nat /\ l.lastIdx \in Nat
    BY <1>7, <1>10 DEF Memory
<1>12. s <= a.commit
    BY <1>1, <1>8, <1>10, <1>11
<1>13. \A i \in (b.commit + 1)..a.commit : HasQuorum(a.log, i, q)
    BY <1>1, <1>8, <1>10, <1>11
<1>14. GoodMem(a)
    BY <1>2, <1>3, <1>7, <1>10 DEF GoodMem
<1>15. a.log.entries = Append(b.log.entries, e)
    BY <1>2, <1>3, <1>7, <1>10
<1> HIDE DEF e
<1> QED BY <1>2, <1>7, <1>8, <1>10, <1>12, <1>13, <1>14, <1>15 DEF e, l, s, a

\* An entry in the current term keeps the terms of the log in order.
LEMMA AppendKeepsTerms ==
    ASSUME NEW old, GoodLog(old), NEW new, NEW e \in Entry, NEW t \in Nat, t >= 1,
           TermsUpTo(old, t), e.term = t, new.entries = Append(old.entries, e)
    PROVE  TermsUpTo(new, t)
<1> DEFINE n == Len(old.entries)
<1>1. old.entries \in Seq(Entry) /\ n \in Nat
    BY DEF GoodLog, Log
<1>2. /\ Len(new.entries) = n + 1
      /\ \A i \in 1..n : new.entries[i] = old.entries[i]
      /\ new.entries[n + 1] = e
    BY <1>1, AppendProperties
<1>3. /\ \A i \in 1..n : old.entries[i].term \in 1..t
      /\ \A i, j \in 1..n : i <= j => old.entries[i].term <= old.entries[j].term
    BY DEF TermsUpTo
<1> HIDE DEF n
<1>4. \A i \in 1..(n + 1) : i \in 1..n \/ i = n + 1
    BY <1>1
<1>5. \A i \in 1..(n + 1) : new.entries[i].term \in 1..t
    BY <1>2, <1>3, <1>4
<1>6. ASSUME NEW i \in 1..(n + 1), NEW j \in 1..(n + 1), i <= j
      PROVE  new.entries[i].term <= new.entries[j].term
    <2>1. CASE j = n + 1
        BY <1>2, <1>5, <2>1
    <2>2. CASE j \in 1..n
        <3>1. i \in 1..n
            BY <1>1, <1>6, <2>2
        <3> QED BY <1>2, <1>3, <1>6, <2>2, <3>1
    <2> QED BY <1>4, <2>1, <2>2
<1> QED BY <1>2, <1>5, <1>6 DEF TermsUpTo

\* The writes that follow an append: the store stays good however many of them are
\* made, and in step with memory once the entry's row is there.
LEMMA AppendWritesEffect ==
    ASSUME NEW b, GoodMem(b), b.term >= 1, NEW v \in Val, NEW q \in Nat,
           NEW d, GoodDisk(d), NEW done \in 0..2
    PROVE  LET a == Appended(b, v, q)
               w == AppendWrites(d, a, SupportedCommit(LeaderAppend(b, v), q), done)
           IN  /\ GoodDisk(w)
               /\ done >= 1 /\ InStep(b, d) => InStep(a, w)
<1> DEFINE a == Appended(b, v, q)
           s == SupportedCommit(LeaderAppend(b, v), q)
           e == NewEntry(b.log, b.term, v)
           n == Len(b.log.entries)
           put == IF done >= 1 THEN PutRow(d, e, e.idx <= a.commit) ELSE d
           w == IF done >= 2 THEN MarkCommitted(put, s) ELSE put
<1>1. /\ GoodMem(a) /\ a.log.entries = Append(b.log.entries, e)
      /\ e \in Entry /\ e.idx = n + 1 /\ e.term = b.term /\ e.sum
      /\ a.lastIdx = n + 1 /\ a.term = b.term
      /\ s \in Nat /\ s <= a.commit /\ a.commit >= b.commit
    BY AppendedEffect
<1>2. /\ b.log.entries \in Seq(Entry) /\ n \in Nat /\ b.term \in Nat
      /\ a.commit \in Nat /\ b.commit \in Nat /\ GoodLog(b.log)
    BY <1>1 DEF GoodMem, GoodLog, Log, Memory
<1>3. /\ Len(a.log.entries) = n + 1
      /\ \A i \in 1..n : a.log.entries[i] = b.log.entries[i]
      /\ a.log.entries[n + 1] = e
    BY <1>1, <1>2, AppendProperties
<1>4. AppendWrites(d, a, s, done) = w
    BY <1>3 DEF AppendWrites
<1> HIDE DEF a, s, e, n
<1>5. e.idx >= 1
    BY <1>1, <1>2
<1>6. /\ GoodDisk(put)
      /\ done >= 1 => put.rows = {r \in d.rows : r.idx # e.idx} \cup {e}
      /\ \A i \in put.committed : i \in d.committed \/ i <= a.commit
    <2>1. CASE done >= 1
        <3> DEFINE flag == e.idx <= a.commit
        <3>1. flag \in BOOLEAN /\ put = PutRow(d, e, flag)
            BY <2>1
        <3>2. flag => e.idx <= a.commit
            OBVIOUS
        <3> HIDE DEF put, flag
        <3> QED BY <1>1, <1>5, <3>1, <3>2, PutRowEffect
    <2>2. CASE ~(done >= 1)
        BY <2>2
    <2> QED BY <2>1, <2>2
<1> HIDE DEF put
<1>7. /\ GoodDisk(w) /\ w.rows = put.rows
      /\ \A i \in w.committed : i \in put.committed \/ i <= s
    BY <1>1, <1>6, MarkEffect
<1> HIDE DEF w
<1>8. ASSUME done >= 1, InStep(b, d) PROVE InStep(a, w)
    <2>1. d.rows = RowsOf(b.log) /\ (\A i \in d.committed : i <= b.commit) /\ TermsUpTo(b.log, b.term)
        BY <1>8 DEF InStep
    <2>2. \A r \in d.rows : r.idx # e.idx
        BY <1>1, <1>2, <2>1 DEF RowsOf, GoodLog, WellFormed, n
    <2>3. w.rows = RowsOf(b.log) \cup {e}
        BY <1>6, <1>7, <1>8, <2>1, <2>2
    <2>4. RowsOf(a.log) = RowsOf(b.log) \cup {e}
        <3>1. \A i \in 1..(n + 1) : i \in 1..n \/ i = n + 1
            BY <1>2
        <3>2. RowsOf(a.log) = {a.log.entries[i] : i \in 1..(n + 1)}
            BY <1>3 DEF RowsOf
        <3>3. RowsOf(b.log) = {b.log.entries[i] : i \in 1..n}
            BY DEF RowsOf, n
        <3>4. 1..n \subseteq 1..(n + 1) /\ n + 1 \in 1..(n + 1)
            BY <1>2
        <3> QED BY <1>3, <3>1, <3>2, <3>3, <3>4
    <2>5. ASSUME NEW i \in w.committed PROVE i <= a.commit
        <3>1. i \in Nat
            BY <1>7 DEF GoodDisk, Disk
        <3> QED BY <1>1, <1>2, <1>6, <1>7, <2>1, <3>1
    <2>6. TermsUpTo(a.log, a.term)
        BY <1>1, <1>2, <2>1, AppendKeepsTerms
    <2> QED BY <1>1, <1>3, <2>3, <2>4, <2>5, <2>6 DEF InStep
<1> QED BY <1>4, <1>7, <1>8 DEF a, s

-----------------------------------------------------------------------------
(* The steps.                                                              *)

\* A valid profile has a quorum that is a number.
LEMMA QuorumIsNat ==
    ASSUME config \in Configs
    PROVE  config.quorum \in Nat
BY ConfigAssumption DEF Config

\* A server starts with an empty log and an empty catalog, in step.
LEMMA InitIInv == Init => IInv
<1> SUFFICES ASSUME Init PROVE IInv
    OBVIOUS
<1>1. config \in Configs /\ config \in Config /\ mem = NewMemory(config)
    BY ConfigAssumption DEF Init
<1>2. GoodLog(EmptyLog) /\ EmptyLog.entries = << >> /\ Len(EmptyLog.entries) = 0
    BY DEF GoodLog, Log, EmptyLog, WellFormed, AcksInside
<1>3. mem \in Memory /\ mem.log = EmptyLog /\ mem.lastIdx = 0 /\ mem.role = config.role
    BY <1>1, <1>2 DEF NewMemory, Memory, Config, Role, HeartbeatAge, GoodLog
<1>4. GoodDisk(disk) /\ disk.rows = {} /\ disk.committed = {}
    BY FS_EmptySet DEF Init, EmptyDisk, GoodDisk, Disk
<1>5. InStep(mem, disk)
    BY <1>2, <1>3, <1>4 DEF InStep, RowsOf, TermsUpTo
<1> QED BY <1>1, <1>2, <1>3, <1>4, <1>5 DEF IInv, GoodMem, Init, PrimaryHasVoted

\* An append raises term 0 to 1 and changes nothing else.
LEMMA EnsureTermEffect ==
    ASSUME NEW m, GoodMem(m)
    PROVE  LET b == EnsureTerm(m)
           IN  /\ GoodMem(b) /\ b.term >= 1 /\ b.term >= m.term /\ b.term \in Nat
               /\ b.log = m.log /\ b.commit = m.commit /\ b.lastIdx = m.lastIdx
               /\ b.role = m.role /\ b.voted = m.voted /\ b.applied = m.applied
               /\ m.term >= 1 => b.term = m.term
<1>1. m \in Memory /\ m.term \in Nat
    BY DEF GoodMem, Memory
<1>2. MaxOf(m.term, 1) \in Nat /\ MaxOf(m.term, 1) >= m.term /\ MaxOf(m.term, 1) >= 1
      /\ (m.term >= 1 => MaxOf(m.term, 1) = m.term)
    BY <1>1 DEF MaxOf
<1>3. EnsureTerm(m) \in Memory /\ EnsureTerm(m).log = m.log
    BY <1>1, <1>2 DEF EnsureTerm, Memory
<1> QED BY <1>1, <1>2, <1>3 DEF EnsureTerm, GoodMem, Memory

\* A higher term still covers a log.
LEMMA HigherTermCovers ==
    ASSUME NEW log, GoodLog(log), NEW t \in Nat, NEW u \in Nat, t <= u, TermsUpTo(log, t)
    PROVE  TermsUpTo(log, u)
BY DEF TermsUpTo

\* What keeps memory and store in step when neither the log nor the rows change.
LEMMA StaysInStep ==
    ASSUME NEW m, GoodMem(m), NEW d, InStep(m, d), NEW n, GoodMem(n), NEW e,
           n.log = m.log, n.lastIdx = m.lastIdx, n.term >= m.term,
           e.rows = d.rows, \A i \in e.committed : i <= n.commit
    PROVE  InStep(n, e)
<1>1. m.term \in Nat /\ n.term \in Nat /\ GoodLog(m.log)
    BY DEF GoodMem, Memory
<1>2. TermsUpTo(n.log, n.term)
    BY <1>1, HigherTermCovers DEF InStep
<1> QED BY <1>2 DEF InStep

\* An append by the primary keeps the invariant, wherever its writes stop.
LEMMA AppendStep ==
    ASSUME IInv, NEW v \in Val, ReplicationAppend(v)
    PROVE  IInv'
<1> DEFINE b == EnsureTerm(mem)
           s == SupportedCommit(LeaderAppend(b, v), config.quorum)
<1>1. /\ GoodMem(mem) /\ GoodDisk(disk) /\ config.quorum \in Nat
      /\ torn \in BOOLEAN /\ (~torn => InStep(mem, disk))
    BY QuorumIsNat DEF IInv
<1>2. /\ GoodMem(b) /\ b.term >= 1 /\ b.term >= mem.term
      /\ b.log = mem.log /\ b.commit = mem.commit /\ b.lastIdx = mem.lastIdx
      /\ b.role = mem.role /\ b.voted = mem.voted
    BY <1>1, EnsureTermEffect
<1>3. mem' = Appended(b, v, config.quorum)
    BY DEF ReplicationAppend, AfterAppend, Appended
<1>4. PICK done \in Progress(2) : /\ disk' = AppendWrites(disk, mem', s, done)
                                  /\ torn' = (torn \/ done = 0)
    BY DEF ReplicationAppend
<1>5. done \in 0..2
    BY DEF Progress
<1> HIDE DEF b
<1>6. GoodDisk(disk') /\ (done >= 1 /\ InStep(b, disk) => InStep(mem', disk'))
    BY <1>1, <1>2, <1>3, <1>4, <1>5, AppendWritesEffect
<1>7. ~torn' => InStep(mem', disk')
    <2> SUFFICES ASSUME ~torn' PROVE InStep(mem', disk')
        OBVIOUS
    <2>0. ~torn /\ done # 0
        BY <1>4, Zenon
    <2>1. ~torn /\ done >= 1
        BY <1>5, <2>0
    <2>2. InStep(b, disk)
        BY <1>1, <1>2, <2>1, StaysInStep DEF InStep
    <2> QED BY <1>6, <2>1, <2>2
<1>8. GoodMem(mem') /\ mem'.term = b.term /\ mem'.voted = b.voted /\ mem'.role = b.role
    BY <1>1, <1>2, <1>3, AppendedEffect
<1>9. PrimaryHasVoted'
    <2>1. mem'.role = mem.role /\ mem'.voted = mem.voted /\ mem'.term >= 1 /\ config' = config
        BY <1>2, <1>8 DEF ReplicationAppend
    <2> QED BY <2>1 DEF PrimaryHasVoted, IInv
<1>10. config' = config /\ up' = up /\ torn' \in BOOLEAN
    BY <1>1, <1>4 DEF ReplicationAppend
<1> QED BY <1>6, <1>7, <1>8, <1>9, <1>10 DEF IInv

\* An append that is refused for its name has only raised the term.
LEMMA AppendBlankStep ==
    ASSUME IInv, AppendBlank
    PROVE  IInv'
<1>1. GoodMem(mem) /\ mem' = EnsureTerm(mem)
    BY DEF IInv, AppendBlank
<1>2. /\ GoodMem(mem') /\ mem'.term >= 1 /\ mem'.term >= mem.term
      /\ mem'.log = mem.log /\ mem'.commit = mem.commit /\ mem'.lastIdx = mem.lastIdx
      /\ mem'.role = mem.role /\ mem'.voted = mem.voted
    BY <1>1, EnsureTermEffect
<1>3. disk' = disk /\ config' = config /\ up' = up /\ torn' = torn
    BY DEF AppendBlank
<1>4. ~torn' => InStep(mem', disk')
    <2> SUFFICES ASSUME ~torn PROVE InStep(mem', disk)
        BY <1>3
    <2>1. InStep(mem, disk)
        BY DEF IInv
    <2>2. \A i \in disk.committed : i <= mem'.commit
        BY <1>2, <2>1 DEF InStep
    <2> QED BY <1>1, <1>2, <2>1, <2>2, StaysInStep
<1>5. PrimaryHasVoted'
    BY <1>2, <1>3 DEF IInv, PrimaryHasVoted
<1> QED BY <1>2, <1>3, <1>4, <1>5 DEF IInv

\* An automatic promotion keeps the invariant, wherever its writes stop.
LEMMA AutoFailoverStep ==
    ASSUME IInv, NEW v \in Val, AutoFailover(v)
    PROVE  IInv'
<1> DEFINE b == AutoPromoted(mem)
           s == SupportedCommit(LeaderAppend(b, v), config.quorum)
<1>1. /\ GoodMem(mem) /\ mem \in Memory /\ GoodDisk(disk) /\ config.quorum \in Nat /\ Self \in Node
      /\ torn \in BOOLEAN /\ (~torn => InStep(mem, disk))
    BY QuorumIsNat, SelfAssumption DEF IInv, GoodMem
<1>2. /\ GoodMem(b) /\ b.term >= 1 /\ b.term > mem.term
      /\ b.log = mem.log /\ b.commit = mem.commit /\ b.lastIdx = mem.lastIdx
      /\ b.voted = Self /\ Self # None
    BY <1>1, PromoteEffect, SelfAssumption DEF AutoPromoted, GoodMem
<1>3. config' = config /\ up' = up
    BY DEF AutoFailover
<1> HIDE DEF b
<1>4. mem.term \in Nat /\ b.term \in Nat
    BY <1>1, <1>2 DEF GoodMem, Memory
<1>5. ~torn => InStep(b, disk)
    BY <1>1, <1>2, <1>4, StaysInStep DEF InStep
<1>6. CASE /\ mem' = AfterAutoPromote(mem, v, config.quorum)
           /\ \E done \in Progress(2) : /\ disk' = AppendWrites(disk, mem', s, done)
                                        /\ torn' = (torn \/ done = 0)
    <2>1. mem' = Appended(b, v, config.quorum)
        BY <1>6 DEF AfterAutoPromote, Appended, b
    <2>2. PICK done \in Progress(2) : /\ disk' = AppendWrites(disk, mem', s, done)
                                      /\ torn' = (torn \/ done = 0)
        BY <1>6
    <2>3. done \in 0..2
        BY DEF Progress
    <2>4. GoodDisk(disk') /\ (done >= 1 /\ InStep(b, disk) => InStep(mem', disk'))
        BY <1>1, <1>2, <2>1, <2>2, <2>3, AppendWritesEffect
    <2>5. ~torn' => InStep(mem', disk')
        <3> SUFFICES ASSUME ~torn' PROVE InStep(mem', disk')
            OBVIOUS
        <3>1. ~torn /\ done # 0
            BY <2>2, Zenon
        <3>2. done >= 1
            BY <2>3, <3>1
        <3> QED BY <1>5, <2>4, <3>1, <3>2
    <2>6. GoodMem(mem') /\ mem'.term = b.term /\ mem'.voted = b.voted
        BY <1>1, <1>2, <2>1, AppendedEffect
    <2>7. PrimaryHasVoted'
        BY <1>2, <2>6 DEF PrimaryHasVoted
    <2> QED BY <1>1, <1>3, <2>2, <2>4, <2>5, <2>6, <2>7 DEF IInv
<1>7. CASE mem' \in {mem, b} /\ UNCHANGED <<disk, torn>>
    <2>1. CASE mem' = mem
        BY <1>3, <1>7, <2>1 DEF IInv, PrimaryHasVoted
    <2>2. CASE mem' = b
        <3>1. PrimaryHasVoted'
            BY <1>2, <2>2 DEF PrimaryHasVoted
        <3> QED BY <1>1, <1>2, <1>3, <1>5, <1>7, <2>2, <3>1 DEF IInv
    <2> QED BY <1>7, <2>1, <2>2
<1> QED BY <1>6, <1>7 DEF AutoFailover, b

\* An acknowledgement only adds to the acknowledgements, the commit index and the flags.
LEMMA AckStep ==
    ASSUME IInv, NEW n \in Ackers, NEW i \in Indexes, ReplicationAck(n, i)
    PROVE  IInv'
<1> DEFINE a == Acked(mem, n, i)
           s == SupportedCommit(a, config.quorum)
<1>1. /\ GoodMem(mem) /\ mem \in Memory /\ GoodLog(mem.log) /\ GoodDisk(disk)
      /\ config.quorum \in Nat /\ n \in Node /\ i \in Nat
      /\ torn \in BOOLEAN /\ (~torn => InStep(mem, disk))
    BY QuorumIsNat, PeerAssumption, BoundAssumption DEF IInv, GoodMem
<1>2. GoodLog(Acknowledge(mem.log, i, n)) /\ Acknowledge(mem.log, i, n).entries = mem.log.entries
    BY <1>1, AcknowledgeKeeps
<1>3. /\ GoodMem(a) /\ a \in Memory /\ a.log.entries = mem.log.entries
      /\ a.term = mem.term /\ a.voted = mem.voted /\ a.role = mem.role
      /\ a.commit = mem.commit /\ a.lastIdx = mem.lastIdx
    BY <1>1, <1>2 DEF Acked, GoodMem, Memory, GoodLog
<1> HIDE DEF a
<1>4. mem' = AdvanceCommitIndex(a, s)
    BY DEF ReplicationAck, AfterAck, a
<1>5. /\ s \in Nat /\ (s <= a.commit \/ s <= Len(a.log.entries))
      /\ a.commit \in Nat
    <2>1. a.commit \in Nat /\ GoodLog(a.log)
        BY <1>3 DEF GoodMem, Memory
    <2> QED BY <1>1, <2>1, CommitIndexHasQuorum DEF SupportedCommit
<1> HIDE DEF s
<1>6. /\ mem' \in Memory /\ mem'.commit >= a.commit
      /\ s <= a.lastIdx => mem'.commit >= s
      /\ mem'.log = a.log /\ mem'.term = mem.term /\ mem'.voted = mem.voted
      /\ mem'.role = mem.role /\ mem'.lastIdx = mem.lastIdx
    BY <1>3, <1>4, <1>5, AdvanceEffect
<1>7. GoodMem(mem') /\ mem'.commit \in Nat
    BY <1>3, <1>6 DEF GoodMem, Memory
<1>8. /\ config' = config /\ up' = up /\ torn' = torn
      /\ disk' \in {MarkCommitted(disk, s), disk}
    BY DEF ReplicationAck, s, a
<1>9. /\ GoodDisk(disk') /\ disk'.rows = disk.rows
      /\ \A k \in disk'.committed : k \in disk.committed \/ k <= s
    BY <1>1, <1>5, <1>8, MarkEffect
<1>10. ~torn' => InStep(mem', disk')
    <2> SUFFICES ASSUME ~torn PROVE InStep(mem', disk')
        BY <1>8
    <2>1. InStep(mem, disk)
        BY <1>1
    <2>2. s <= mem'.commit
        BY <1>3, <1>5, <1>6, <1>7, <2>1 DEF InStep
    <2>3. ASSUME NEW k \in disk'.committed PROVE k <= mem'.commit
        <3>1. k \in Nat
            BY <1>9 DEF GoodDisk, Disk
        <3> QED BY <1>3, <1>5, <1>6, <1>7, <1>9, <2>1, <2>2, <3>1 DEF InStep
    <2>4. RowsOf(mem'.log) = RowsOf(mem.log)
        BY <1>3, <1>6 DEF RowsOf
    <2>5. TermsUpTo(mem'.log, mem'.term)
        BY <1>3, <1>6, <2>1 DEF InStep, TermsUpTo
    <2> QED BY <1>3, <1>6, <1>9, <2>1, <2>3, <2>4, <2>5 DEF InStep
<1>11. PrimaryHasVoted'
    BY <1>6, <1>8 DEF IInv, PrimaryHasVoted
<1> QED BY <1>7, <1>8, <1>9, <1>10, <1>11 DEF IInv

\* The steps that change neither the log nor its rows.
LEMMA PositionStep ==
    ASSUME IInv, GoodMem(mem'), GoodDisk(disk'), PrimaryHasVoted',
           mem'.log = mem.log, mem'.lastIdx = mem.lastIdx, mem'.term >= mem.term,
           disk'.rows = disk.rows, InStep(mem, disk) => \A i \in disk'.committed : i <= mem'.commit,
           config' = config, up' = up, torn' = torn
    PROVE  IInv'
<1>1. GoodMem(mem) /\ torn \in BOOLEAN /\ (~torn => InStep(mem, disk))
    BY DEF IInv
<1>2. InStep(mem, disk) => InStep(mem', disk')
    BY <1>1, StaysInStep
<1> QED BY <1>1, <1>2 DEF IInv

\* A reconciliation only moves the commit index.
LEMMA ReconcileStep ==
    ASSUME IInv, NEW c \in Indexes, ReplicationReconcile(c)
    PROVE  IInv'
<1>1. GoodMem(mem) /\ mem \in Memory /\ GoodDisk(disk) /\ c \in Nat
    BY BoundAssumption DEF IInv, GoodMem
<1>2. mem' = AdvanceCommitIndex(mem, c) /\ UNCHANGED <<config, disk, up, torn>>
    BY DEF ReplicationReconcile
<1>3. /\ mem' \in Memory /\ mem'.commit >= mem.commit /\ mem'.log = mem.log
      /\ mem'.term = mem.term /\ mem'.voted = mem.voted /\ mem'.role = mem.role
      /\ mem'.lastIdx = mem.lastIdx
    BY <1>1, <1>2, AdvanceEffect
<1>4. GoodMem(mem') /\ mem.term \in Nat /\ mem.commit \in Nat /\ mem'.commit \in Nat
    BY <1>1, <1>3 DEF GoodMem, Memory
<1>5. InStep(mem, disk) => \A i \in disk'.committed : i <= mem'.commit
    <2>1. \A i \in disk.committed : i \in Nat
        BY <1>1 DEF GoodDisk, Disk
    <2> QED BY <1>2, <1>3, <1>4, <2>1 DEF InStep
<1>6. PrimaryHasVoted'
    BY <1>2, <1>3 DEF IInv, PrimaryHasVoted
<1> QED BY <1>1, <1>2, <1>3, <1>4, <1>5, <1>6, PositionStep

\* A vote request may change term, vote and role, and the stored votes.
LEMMA RequestVoteStep ==
    ASSUME IInv, NEW req \in VoteRequests, RequestVote(req)
    PROVE  IInv'
<1> DEFINE a == AdoptTerm(mem, req.term)
<1>1. /\ GoodMem(mem) /\ mem \in Memory /\ GoodDisk(disk)
      /\ req.term \in Nat /\ req.candidate \in Node /\ None \notin Node
    BY PeerAssumption, SelfAssumption DEF IInv, GoodMem, VoteRequest
<1>2. /\ a \in Memory /\ a.term >= mem.term /\ a.term >= req.term
      /\ a.term = mem.term => a = mem
      /\ a.term # mem.term => a.term = req.term /\ a.voted = None /\ a.role # "primary"
      /\ a.log = mem.log /\ a.commit = mem.commit /\ a.lastIdx = mem.lastIdx
    BY <1>1, AdoptEffect
<1> HIDE DEF a
<1>3. mem' = IF VoteGranted(mem, req) THEN GrantVote(a, req.term, req.candidate) ELSE a
    BY DEF RequestVote, AfterVoteRequest, a
<1>4. VoteGranted(mem, req) => req.term = a.term
    <2>1. a.term \in Nat
        BY <1>2 DEF Memory
    <2> QED BY <1>1, <1>2, <2>1 DEF VoteGranted, CanGrantVote, a
<1>5. VoteGranted(mem, req) => mem' = [a EXCEPT !.voted = req.candidate]
    <2>1. a.term \in Nat
        BY <1>2 DEF Memory
    <2> QED BY <1>1, <1>3, <1>4, <2>1 DEF GrantVote, AdoptTerm
<1>6. /\ mem' \in Memory /\ mem'.term = a.term /\ mem'.role = a.role
      /\ mem'.log = mem.log /\ mem'.commit = mem.commit /\ mem'.lastIdx = mem.lastIdx
      /\ mem'.voted = req.candidate \/ mem'.voted = a.voted
    <2>1. CASE VoteGranted(mem, req)
        BY <1>1, <1>2, <1>5, <2>1 DEF Memory
    <2>2. CASE ~VoteGranted(mem, req)
        BY <1>2, <1>3, <2>2
    <2> QED BY <2>1, <2>2
<1>7. GoodMem(mem')
    BY <1>1, <1>6 DEF GoodMem
<1>8. /\ config' = config /\ up' = up /\ torn' = torn
      /\ disk' \in {PutVote(disk, mem'.term, req.candidate), disk}
    BY DEF RequestVote
<1>9. GoodDisk(disk') /\ disk'.rows = disk.rows /\ disk'.committed = disk.committed
    <2>1. mem'.term \in Nat
        BY <1>6 DEF Memory
    <2> QED BY <1>1, <1>8, <2>1, PutVoteEffect
<1>10. PrimaryHasVoted'
    <2>1. CASE a.term = mem.term
        BY <1>1, <1>2, <1>6, <1>8, <2>1 DEF IInv, PrimaryHasVoted
    <2>2. CASE a.term # mem.term
        BY <1>2, <1>6, <2>2 DEF PrimaryHasVoted
    <2> QED BY <2>1, <2>2
<1>11. InStep(mem, disk) => \A i \in disk'.committed : i <= mem'.commit
    BY <1>6, <1>9 DEF InStep
<1> QED BY <1>2, <1>6, <1>7, <1>8, <1>9, <1>10, <1>11, PositionStep

\* A heartbeat flags no row above the commit index it leaves.
LEMMA HeartbeatStep ==
    ASSUME IInv, NEW req \in Heartbeats, Heartbeat(req)
    PROVE  IInv'
<1> DEFINE a == AdoptTerm(mem, req.term)
           b == IF req.leader # Self THEN StepDownToReplica(a) ELSE a
<1>1. /\ GoodMem(mem) /\ mem \in Memory /\ GoodDisk(disk)
      /\ req.term \in Nat /\ req.commit \in Nat
    BY PeerAssumption DEF IInv, GoodMem, HeartbeatRequest
<1>2. /\ a \in Memory /\ a.term >= mem.term
      /\ a.term = mem.term => a = mem
      /\ a.term # mem.term => a.role # "primary"
      /\ a.log = mem.log /\ a.commit = mem.commit /\ a.lastIdx = mem.lastIdx
    BY <1>1, AdoptEffect
<1> HIDE DEF a
<1>3. /\ b \in Memory /\ b.term = a.term /\ b.voted = a.voted
      /\ b.log = mem.log /\ b.commit = mem.commit /\ b.lastIdx = mem.lastIdx
      /\ b.role = "primary" => b = a
    BY <1>2, StepDownEffect
<1> HIDE DEF b
<1>4. mem' = MarkHeartbeat(b, req.commit)
    BY DEF Heartbeat, AfterHeartbeat, a, b
<1>5. /\ mem' \in Memory
      /\ mem'.commit >= mem.commit \/ (mem'.commit = mem.lastIdx /\ mem.commit > mem.lastIdx)
      /\ mem'.log = mem.log /\ mem'.term = a.term /\ mem'.voted = b.voted /\ mem'.role = b.role
      /\ mem'.lastIdx = mem.lastIdx
    BY <1>1, <1>3, <1>4, HeartbeatEffect
<1>6. GoodMem(mem') /\ mem'.commit \in Nat /\ mem.commit \in Nat /\ mem.lastIdx \in Nat
    BY <1>1, <1>5 DEF GoodMem, Memory
<1>7. /\ config' = config /\ up' = up /\ torn' = torn
      /\ disk' \in {MarkCommitted(disk, mem'.commit), disk}
    BY DEF Heartbeat
<1>8. /\ GoodDisk(disk') /\ disk'.rows = disk.rows
      /\ \A i \in disk'.committed : i \in disk.committed \/ i <= mem'.commit
    BY <1>1, <1>6, <1>7, MarkEffect
<1>9. PrimaryHasVoted'
    <2> SUFFICES ASSUME mem'.role = "primary", config.role # "primary"
                 PROVE  mem'.term >= 1 /\ mem'.voted # None
        BY <1>7 DEF PrimaryHasVoted
    <2>1. b = mem
        BY <1>2, <1>3, <1>5
    <2> QED BY <1>2, <1>3, <1>5, <2>1 DEF IInv, PrimaryHasVoted
<1>10. ASSUME InStep(mem, disk), NEW i \in disk'.committed PROVE i <= mem'.commit
    <2>1. CASE i \in disk.committed
        <3>1. i <= mem.commit /\ i \in Nat
            BY <1>1, <1>10, <2>1 DEF InStep, GoodDisk, Disk
        <3>2. i <= mem.lastIdx
            <4>1. PICK r \in RowsOf(mem.log) : r.idx = i
                BY <1>1, <1>10, <2>1 DEF InStep, GoodDisk
            <4>2. r.idx \in 1..Len(mem.log.entries)
                BY <1>1 DEF RowsOf, GoodMem, GoodLog, WellFormed
            <4> QED BY <1>6, <1>10, <4>1, <4>2 DEF InStep
        <3> QED BY <1>5, <1>6, <3>1, <3>2
    <2>2. CASE ~(i \in disk.committed)
        BY <1>8, <2>2
    <2> QED BY <2>1, <2>2
<1> QED BY <1>2, <1>5, <1>6, <1>7, <1>8, <1>9, <1>10, PositionStep

\* Promotion and step-down by an operator leave log and catalog alone.
LEMMA RoleStep ==
    ASSUME IInv, NEW l \in Node, Promote(l) \/ StepDown \/ HeartbeatExpires
    PROVE  IInv'
<1>1. /\ GoodMem(mem) /\ mem \in Memory /\ GoodDisk(disk) /\ None \notin Node
      /\ mem.term \in Nat /\ mem.commit \in Nat
    BY SelfAssumption DEF IInv, GoodMem, Memory
<1>2. UNCHANGED <<config, disk, up, torn>>
    BY DEF Promote, StepDown, HeartbeatExpires
<1> DEFINE on == [mem EXCEPT !.enabled = TRUE]
<1>3. /\ on \in Memory /\ on.log = mem.log /\ on.commit = mem.commit
      /\ on.lastIdx = mem.lastIdx /\ on.term = mem.term
    BY <1>1 DEF Memory
<1> HIDE DEF on
<1>4. /\ mem' \in Memory /\ mem'.log = mem.log /\ mem'.commit = mem.commit
      /\ mem'.lastIdx = mem.lastIdx /\ mem'.term >= mem.term
      /\ PrimaryHasVoted'
    <2>1. CASE Promote(l)
        <3>1. mem' = PromoteToPrimary(on, l)
            BY <2>1 DEF Promote, AfterPromote, on
        <3> QED BY <1>1, <1>3, <3>1, PromoteEffect DEF PrimaryHasVoted, Memory
    <2>2. CASE StepDown
        <3>1. mem' = StepDownToReplica(on)
            BY <2>2 DEF StepDown, AfterStepDown, on
        <3> QED BY <1>1, <1>3, <3>1, StepDownEffect DEF PrimaryHasVoted
    <2>3. CASE HeartbeatExpires
        <3>1. mem' = [mem EXCEPT !.beat = "expired"]
            BY <2>3 DEF HeartbeatExpires
        <3>2. /\ mem' \in Memory /\ mem'.log = mem.log /\ mem'.commit = mem.commit
              /\ mem'.lastIdx = mem.lastIdx /\ mem'.term = mem.term
              /\ mem'.role = mem.role /\ mem'.voted = mem.voted
            BY <1>1, <3>1 DEF Memory, HeartbeatAge
        <3> QED BY <1>1, <1>2, <3>2 DEF IInv, PrimaryHasVoted
    <2> QED BY <2>1, <2>2, <2>3
<1>5. GoodMem(mem')
    BY <1>1, <1>4 DEF GoodMem
<1>6. InStep(mem, disk) => \A i \in disk'.committed : i <= mem'.commit
    BY <1>2, <1>4 DEF InStep
<1> QED BY <1>1, <1>2, <1>4, <1>5, <1>6, PositionStep

\* A batch, accepted or refused, leaves a good log; an accepted one also its copy in the store.
LEMMA ReceiveStep ==
    ASSUME IInv, NEW req \in ReceiveRequests, ReplicationReceive(req)
    PROVE  IInv'
<1> DEFINE a == AdoptTerm(mem, req.term)
           f == StepDownToReplica(a)
           log == AppendRemoteEntries(mem.log, req.prev, req.prevTerm, req.batch)
           r == BeforeReceive(mem, req)
           n == NoteLogPosition(r)
           same == mem'.log.entries = mem.log.entries
<1>1. /\ GoodMem(mem) /\ mem \in Memory /\ GoodLog(mem.log) /\ GoodDisk(disk)
      /\ req.term \in Nat /\ req.commit \in Nat /\ req.prev \in Nat /\ req.prevTerm \in Nat
      /\ req.batch \in Seq(Entry) /\ LeaderShaped(req)
      /\ mem.term \in Nat /\ req.term >= mem.term
    BY RequestAssumption DEF IInv, GoodMem, ReceiveRequest, Memory, ReplicationReceive
<1>2. /\ a \in Memory /\ a.term = req.term
      /\ a.log = mem.log /\ a.commit = mem.commit /\ a.lastIdx = mem.lastIdx
    <2>1. /\ a \in Memory /\ a.term >= req.term
          /\ a.term = mem.term \/ a.term = req.term
          /\ a.log = mem.log /\ a.commit = mem.commit /\ a.lastIdx = mem.lastIdx
        BY <1>1, AdoptEffect
    <2> HIDE DEF a
    <2> QED BY <1>1, <2>1 DEF Memory
<1> HIDE DEF a
<1>3. /\ f \in Memory /\ f.role = "replica" /\ f.term = req.term /\ f.log = mem.log
      /\ f.commit = mem.commit /\ f.lastIdx = mem.lastIdx
    BY <1>2, StepDownEffect
<1> HIDE DEF f
<1>4. GoodLog(log)
    BY <1>1, AppendRemoteShape
<1>5. TermsUpTo(mem.log, mem.term) => TermsUpTo(log, req.term)
    <2> SUFFICES ASSUME TermsUpTo(mem.log, mem.term) PROVE TermsUpTo(log, req.term)
        OBVIOUS
    <2>1. TermsUpTo(mem.log, req.term)
        BY <1>1, HigherTermCovers
    <2>2. /\ \A k \in 1..Len(req.batch) : /\ req.batch[k].term \in req.prevTerm..req.term
                                          /\ req.batch[k].term >= 1
          /\ \A j, k \in 1..Len(req.batch) : j <= k => req.batch[j].term <= req.batch[k].term
        BY <1>1 DEF LeaderShaped
    <2> QED BY <1>1, <2>1, <2>2, AppendRemoteKeepsTerms
<1>6. r = [f EXCEPT !.log = log]
    BY <1>3 DEF BeforeReceive, f, a, Memory
<1> HIDE DEF log
<1>7. /\ r \in Memory /\ GoodMem(r) /\ r.log = log /\ r.role = "replica" /\ r.term = req.term
      /\ r.commit = mem.commit /\ r.lastIdx = mem.lastIdx
    BY <1>3, <1>4, <1>6 DEF Memory, GoodMem, GoodLog
<1>8. /\ n \in Memory /\ n.lastIdx = Len(log.entries) /\ n.log = log /\ n.term = req.term
      /\ n.role = "replica" /\ n.commit = mem.commit
    BY <1>7, NoteEffect
<1> HIDE DEF n, r
<1>9. mem' = IF ReceiveAccepts(mem, req) THEN AdvanceCommitIndex(n, req.commit) ELSE r
    BY DEF ReplicationReceive, AfterReceive, n, r
<1>10. /\ GoodMem(mem') /\ mem'.log = log /\ mem'.role = "replica" /\ mem'.term = req.term
       /\ mem'.commit >= mem.commit /\ mem'.commit \in Nat /\ mem.commit \in Nat
       /\ mem'.lastIdx = IF ReceiveAccepts(mem, req) THEN Len(log.entries) ELSE mem.lastIdx
    <2>1. mem.commit \in Nat
        BY <1>1 DEF Memory
    <2>2. CASE ReceiveAccepts(mem, req)
        BY <1>1, <1>4, <1>8, <1>9, <2>1, <2>2, AdvanceEffect DEF GoodMem, Memory
    <2>3. CASE ~ReceiveAccepts(mem, req)
        BY <1>7, <1>9, <2>1, <2>3
    <2> QED BY <2>2, <2>3
<1>11. /\ config' = config /\ up' = up /\ torn \in BOOLEAN
       /\ torn' \in BOOLEAN
       /\ \/ /\ ReceiveAccepts(mem, req)
             /\ disk' = RewriteRows(disk, mem')
          \/ disk' = disk /\ (~torn' => same)
       /\ torn => torn'
    <2>1. CASE ReceiveAccepts(mem, req)
        <3>1. PICK done \in Progress(1) :
                 /\ disk' = IF done = 1 THEN RewriteRows(disk, mem') ELSE disk
                 /\ torn' = (torn \/ (done = 0 /\ ~same))
            BY <2>1 DEF ReplicationReceive
        <3>2. done = 0 \/ done = 1
            <4>1. done \in 0..1
                BY DEF Progress
            <4> QED BY <4>1
        <3>3. torn \in BOOLEAN /\ torn' \in BOOLEAN /\ (torn => torn') /\ (done = 0 /\ ~torn' => same)
            BY <3>1, Zenon DEF IInv
        <3>4. done = 0 => disk' = disk
            BY <3>1
        <3>5. done = 1 => disk' = RewriteRows(disk, mem')
            BY <3>1
        <3>6. config' = config /\ up' = up
            BY DEF ReplicationReceive
        <3> HIDE DEF same
        <3> QED BY <2>1, <3>2, <3>3, <3>4, <3>5, <3>6, Zenon
    <2>2. CASE ~ReceiveAccepts(mem, req)
        BY <2>2, Zenon DEF IInv, ReplicationReceive
    <2> QED BY <2>1, <2>2
<1>12. GoodDisk(disk')
    BY <1>1, <1>10, <1>11, RewriteEffect
<1>13. ASSUME ~torn' PROVE InStep(mem', disk')
    <2>1. ~torn /\ InStep(mem, disk)
        BY <1>11, <1>13 DEF IInv
    <2>2. TermsUpTo(mem'.log, mem'.term)
        BY <1>5, <1>10, <2>1 DEF InStep
    <2>3. CASE ReceiveAccepts(mem, req) /\ disk' = RewriteRows(disk, mem')
        <3>1. disk'.rows = RowsOf(mem'.log) /\ \A i \in disk'.committed : i <= mem'.commit
            BY <1>1, <1>10, <2>3, RewriteEffect
        <3> QED BY <1>10, <2>2, <2>3, <3>1 DEF InStep
    <2>4. CASE disk' = disk /\ same
        <3>1. disk'.rows = RowsOf(mem'.log) /\ mem'.lastIdx = Len(mem'.log.entries)
            BY <1>10, <2>1, <2>4 DEF InStep, RowsOf
        <3>2. ASSUME NEW i \in disk'.committed PROVE i <= mem'.commit
            <4>1. i \in Nat /\ i <= mem.commit
                BY <1>1, <2>1, <2>4 DEF InStep, GoodDisk, Disk
            <4> QED BY <1>10, <4>1
        <3> QED BY <2>2, <3>1, <3>2 DEF InStep
    <2> QED BY <1>11, <1>13, <2>3, <2>4
<1>14. PrimaryHasVoted'
    BY <1>10 DEF PrimaryHasVoted
<1> QED BY <1>10, <1>11, <1>12, <1>13, <1>14 DEF IInv

\* restore_replication_state(): the log comes from the rows, the commit index from
\* the last flag, the term from the last entry.
LEMMA RestoredEffect ==
    ASSUME NEW c \in Config, NEW d, GoodDisk(d), CanRestore(d)
    PROVE  LET m == Restored(c, d)
           IN  /\ GoodMem(m) /\ m.log = FromEntries(d.rows)
               /\ m.lastIdx = Len(m.log.entries) /\ m.term = LastTerm(m.log)
               /\ m.role = c.role
               /\ \A i \in d.committed : i <= m.commit
               /\ m.commit = 0 \/ m.commit \in d.committed
<1> DEFINE log == FromEntries(d.rows)
           e == [NewMemory(c) EXCEPT !.log = log]
           l == NoteLogPosition(e)
           k == RestoredCommit(d)
           a == AdvanceCommitIndex(l, k)
           t == MaxOf(a.term, a.lastTerm)
           size == Cardinality(d.rows)
<1>1. d.rows \in SUBSET Entry /\ d.committed \in SUBSET Nat /\ d.votes \in SUBSET (Nat \X Node)
    BY DEF GoodDisk, Disk
<1>2. GoodLog(log) /\ Len(log.entries) = size /\ log.acked = {} /\ size \in Nat
    BY <1>1, FromEntriesGood, FS_CardinalityType DEF GoodDisk, CanRestore
<1>3. d.committed \subseteq 1..size
    BY <1>1 DEF GoodDisk, CanRestore, Contiguous
<1> HIDE DEF log, size
<1>4. /\ e \in Memory /\ e.log = log /\ e.term = 0 /\ e.commit = 0 /\ e.role = c.role
      /\ GoodMem(e)
    BY <1>2 DEF NewMemory, Memory, Config, Role, HeartbeatAge, GoodLog, GoodMem
<1> HIDE DEF e
<1>5. /\ l \in Memory /\ l.lastIdx = size /\ l.lastTerm = LastTerm(log) /\ l.log = log
      /\ l.term = 0 /\ l.commit = 0 /\ l.role = c.role
    BY <1>2, <1>4, NoteEffect
<1> HIDE DEF l
<1>6. /\ k \in Nat /\ k <= size /\ \A i \in d.committed : i <= k
      /\ k = 0 \/ k \in d.committed
    <2>1. CASE d.committed = {}
        BY <1>2, <2>1 DEF RestoredCommit
    <2>2. CASE d.committed # {}
        <3> DEFINE Far == {size - i : i \in d.committed}
                   Top(i) == \A j \in d.committed : j <= i
        <3>1. Far \in SUBSET Nat /\ Far # {}
            BY <1>2, <1>3, <2>2
        <3>2. PICK x \in Far : \A y \in Far : x <= y
            <4> HIDE DEF Far
            <4> QED BY <3>1, LeastElement
        <3>3. PICK i \in d.committed : x = size - i
            BY <3>2
        <3>4. Top(i)
            <4> SUFFICES ASSUME NEW j \in d.committed PROVE j <= i
                OBVIOUS
            <4>1. size - j \in Far
                OBVIOUS
            <4>2. size - i <= size - j
                BY <3>2, <3>3, <4>1
            <4> QED BY <1>2, <1>3, <4>2
        <3>5. k = CHOOSE y \in d.committed : Top(y)
            BY <2>2 DEF RestoredCommit
        <3> HIDE DEF Top, k
        <3>6. k \in d.committed /\ Top(k)
            BY <3>4, <3>5
        <3> QED BY <1>1, <1>2, <1>3, <3>6 DEF Top
    <2> QED BY <2>1, <2>2
<1> HIDE DEF k
<1>7. /\ a \in Memory /\ a.commit >= 0 /\ (a.commit = 0 \/ a.commit <= k) /\ a.commit >= k
      /\ a.log = log /\ a.term = 0 /\ a.role = c.role
      /\ a.lastIdx = size /\ a.lastTerm = LastTerm(log)
    BY <1>5, <1>6, AdvanceEffect
<1>8. a.commit = k
    BY <1>6, <1>7 DEF Memory
<1> HIDE DEF a
<1>9. LastTerm(log) \in Nat /\ t = LastTerm(log)
    BY <1>2, <1>7, LastTermOfLog DEF MaxOf
<1> HIDE DEF t
<1>10. RestoredVote(d, t) \in Node \cup {None}
    <2>1. CASE \E v \in d.votes : v[1] = t
        <3> DEFINE v == CHOOSE v \in d.votes : v[1] = t
        <3>1. v \in d.votes
            BY <2>1
        <3>2. RestoredVote(d, t) = v[2]
            BY <2>1 DEF RestoredVote
        <3> HIDE DEF v
        <3> QED BY <1>1, <3>1, <3>2
    <2>2. CASE ~\E v \in d.votes : v[1] = t
        BY <2>2 DEF RestoredVote
    <2> QED BY <2>1, <2>2
<1>11. Restored(c, d) = [a EXCEPT !.term = t, !.voted = RestoredVote(d, t)]
    BY DEF Restored, a, l, e, k, t, log
<1> DEFINE vote == RestoredVote(d, t)
           m == [a EXCEPT !.term = t, !.voted = vote]
<1> HIDE DEF vote
<1>12. /\ m \in Memory /\ m.log = log /\ m.lastIdx = size /\ m.term = LastTerm(log)
       /\ m.role = c.role /\ m.commit = k
    BY <1>7, <1>8, <1>9, <1>10 DEF Memory, vote
<1> HIDE DEF m
<1>13. GoodMem(m)
    BY <1>2, <1>12 DEF GoodMem
<1> QED BY <1>2, <1>6, <1>11, <1>12, <1>13 DEF m, log, vote

\* A restart restores a good log from a good catalog.
LEMMA RestartStep ==
    ASSUME IInv, Restart
    PROVE  IInv'
<1>1. GoodMem(mem) /\ GoodDisk(disk) /\ config \in Config /\ config \in Configs
    BY ConfigAssumption DEF IInv
<1>2. config' = config /\ disk' = disk /\ torn' = torn
    BY DEF Restart
<1>3. CASE CanRestore(disk)
    <2>1. mem' = Restored(config, disk) /\ up' = TRUE
        BY <1>3 DEF Restart
    <2>2. /\ GoodMem(mem') /\ mem'.log = FromEntries(disk.rows)
          /\ mem'.lastIdx = Len(mem'.log.entries) /\ mem'.term = LastTerm(mem'.log)
          /\ mem'.role = config.role
          /\ \A i \in disk.committed : i <= mem'.commit
        BY <1>1, <1>3, <2>1, RestoredEffect
    <2>3. ASSUME ~torn PROVE InStep(mem', disk)
        <3>1. InStep(mem, disk)
            BY <2>3 DEF IInv
        <3>2. mem'.log.entries = mem.log.entries
            BY <1>1, <2>2, <3>1, StoreRoundTrip DEF InStep, GoodMem
        <3>3. RowsOf(mem'.log) = disk.rows
            BY <3>1, <3>2 DEF InStep, RowsOf
        <3>4. TermsUpTo(mem'.log, mem'.term)
            <4> DEFINE n == Len(mem.log.entries)
            <4>1. /\ mem.log.entries \in Seq(Entry) /\ n \in Nat /\ mem.term \in Nat
                  /\ GoodLog(mem.log) /\ GoodLog(mem'.log)
                BY <1>1, <2>2 DEF GoodMem, GoodLog, Log, Memory
            <4>2. /\ \A i \in 1..n : mem.log.entries[i].term \in 1..mem.term
                  /\ \A i, j \in 1..n : i <= j => mem.log.entries[i].term <= mem.log.entries[j].term
                BY <3>1 DEF InStep, TermsUpTo
            <4>3. n > 0 => mem'.term = mem.log.entries[n].term
                BY <2>2, <3>2, <4>1, LastTermOfLog
            <4>4. ASSUME NEW i \in 1..n PROVE mem.log.entries[i].term \in 1..mem'.term
                <5>1. n > 0 /\ n \in 1..n /\ i <= n
                    BY <4>1
                <5>2. mem.log.entries[i].term <= mem.log.entries[n].term
                    BY <4>2, <5>1
                <5> QED BY <4>1, <4>2, <4>3, <5>1, <5>2
            <4> QED BY <3>2, <4>2, <4>4 DEF TermsUpTo
        <3> QED BY <2>2, <3>3, <3>4 DEF InStep
    <2>4. PrimaryHasVoted'
        BY <1>2, <2>2 DEF PrimaryHasVoted
    <2> QED BY <1>1, <1>2, <2>1, <2>2, <2>3, <2>4 DEF IInv
<1>4. CASE ~CanRestore(disk)
    BY <1>4 DEF IInv, Restart, PrimaryHasVoted
<1> QED BY <1>3, <1>4

\* Every step keeps the invariant.
LEMMA NextStep == IInv /\ [Next]_vars => IInv'
<1> SUFFICES ASSUME IInv, [Next]_vars PROVE IInv'
    OBVIOUS
<1>1. CASE UNCHANGED vars
    BY <1>1 DEF vars, IInv, PrimaryHasVoted
<1>2. CASE \E v \in Val : ReplicationAppend(v)
    BY <1>2, AppendStep
<1>3. CASE \E v \in Val : Tick(v) \/ AutoCheck(v)
    BY <1>3, AutoFailoverStep DEF Tick, AutoCheck
<1>4. CASE AppendBlank
    BY <1>4, AppendBlankStep
<1>5. CASE \E req \in ReceiveRequests : ReplicationReceive(req)
    BY <1>5, ReceiveStep
<1>6. CASE \E n \in Ackers, i \in Indexes : ReplicationAck(n, i)
    BY <1>6, AckStep
<1>7. CASE \E c \in Indexes : ReplicationReconcile(c)
    BY <1>7, ReconcileStep
<1>8. CASE \E req \in VoteRequests : RequestVote(req)
    BY <1>8, RequestVoteStep
<1>9. CASE \E req \in Heartbeats : Heartbeat(req)
    BY <1>9, HeartbeatStep
<1>10. CASE (\E l \in Node : Promote(l)) \/ StepDown \/ HeartbeatExpires
    BY <1>10, SelfAssumption, RoleStep
<1>11. CASE Restart
    BY <1>11, RestartStep
<1> QED BY <1>1, <1>2, <1>3, <1>4, <1>5, <1>6, <1>7, <1>8, <1>9, <1>10, <1>11 DEF Next

-----------------------------------------------------------------------------
(* The theorems.                                                           *)

\* Memory and store stay well formed and in step (every handler of build_response()).
THEOREM Invariance == Spec => []IInv
<1>1. IInv /\ [Next]_vars => IInv'
    BY NextStep
<1> QED BY InitIInv, <1>1, PTL DEF Spec

\* The type invariant, and the safety invariants, hold of every reachable state.
THEOREM TypeCorrect == Spec => []TypeOK
<1>1. IInv => TypeOK
    BY DEF IInv, TypeOK, GoodMem, GoodDisk
<1> QED BY Invariance, <1>1, PTL

\* entry_at() finds the entry of an index at its position, and no damaged entry is kept.
THEOREM WellFormedLogs == Spec => []LogWellFormed
<1>1. IInv => LogWellFormed
    BY DEF IInv, GoodMem, GoodLog, GoodDisk, LogWellFormed
<1> QED BY Invariance, <1>1, PTL

\* Truncation never leaves an acknowledgement without its entry.
THEOREM AcksStayWithin == Spec => []AcksWithinLog
<1>1. IInv => AcksWithinLog
    BY DEF IInv, GoodMem, GoodLog, AcksWithinLog
<1> QED BY Invariance, <1>1, PTL

\* Until a handler fails half-way, the store holds the log.
THEOREM StoreHoldsLog == Spec => []StoreMatchesLog
<1>1. IInv => StoreMatchesLog
    BY DEF IInv, InStep, RowsOf, LogRows, StoreMatchesLog
<1> QED BY Invariance, <1>1, PTL

\* The committed column never promises more than the commit index.
THEOREM FlagsAreSound == Spec => []FlagsNeverOverstate
<1>1. IInv => FlagsNeverOverstate
    BY DEF IInv, InStep, FlagsNeverOverstate
<1> QED BY Invariance, <1>1, PTL

\* The server's term covers its log, across restarts too.
THEOREM TermsAreCovered == Spec => []TermCoversLog
<1>1. IInv => TermCoversLog
    BY DEF IInv, InStep, TermCoversLog
<1> QED BY Invariance, <1>1, PTL

\* A promoted server has voted in its term.
THEOREM PromotionsVote == Spec => []PrimaryHasVoted
<1>1. IInv => PrimaryHasVoted
    BY DEF IInv
<1> QED BY Invariance, <1>1, PTL

\* What a primary that appends, or a server that promotes itself, starts from.
LEMMA AppendsFrom ==
    ASSUME IInv, NEW v \in Val, ReplicationAppend(v) \/ AutoFailover(v)
    PROVE  \/ mem' \in {mem, AutoPromoted(mem)}
           \/ \E b : /\ GoodMem(b) /\ b.log = mem.log /\ b.commit = mem.commit
                     /\ b.applied = mem.applied /\ b.term >= mem.term
                     /\ b.term = mem.term => b.voted = mem.voted
                     /\ mem' = Appended(b, v, config.quorum)
<1>1. GoodMem(mem) /\ mem \in Memory /\ mem.term \in Nat /\ Self \in Node
    BY SelfAssumption DEF IInv, GoodMem, Memory
<1>2. CASE ReplicationAppend(v)
    <2> DEFINE b == EnsureTerm(mem)
    <2>1. /\ GoodMem(b) /\ b.log = mem.log /\ b.commit = mem.commit
          /\ b.applied = mem.applied /\ b.term >= mem.term /\ b.voted = mem.voted
        BY <1>1, EnsureTermEffect
    <2>2. mem' = Appended(b, v, config.quorum)
        BY <1>2 DEF ReplicationAppend, AfterAppend, Appended
    <2> HIDE DEF b
    <2> QED BY <2>1, <2>2
<1>3. CASE AutoFailover(v) /\ mem' = AfterAutoPromote(mem, v, config.quorum)
    <2> DEFINE b == AutoPromoted(mem)
    <2>1. b \in Memory /\ b.log = mem.log /\ b.commit = mem.commit
          /\ b.applied = mem.applied /\ b.term > mem.term
        BY <1>1, PromoteEffect DEF AutoPromoted
    <2>2. mem' = Appended(b, v, config.quorum)
        BY <1>3 DEF AfterAutoPromote, Appended
    <2> HIDE DEF b
    <2>3. GoodMem(b) /\ b.term >= mem.term /\ b.term # mem.term
        BY <1>1, <2>1 DEF GoodMem, Memory
    <2> QED BY <2>1, <2>2, <2>3
<1>4. CASE AutoFailover(v) /\ mem' \in {mem, AutoPromoted(mem)}
    BY <1>4
<1> QED BY <1>2, <1>3, <1>4 DEF AutoFailover

\* A promotion leaves the log and the acknowledgements alone.
LEMMA PromotedKeepsLog ==
    ASSUME IInv
    PROVE  /\ AutoPromoted(mem).log = mem.log /\ AutoPromoted(mem).commit = mem.commit
           /\ AutoPromoted(mem).applied = mem.applied /\ AutoPromoted(mem).term > mem.term
BY PromoteEffect, SelfAssumption DEF AutoPromoted, IInv, GoodMem

\* A server that commits on its own account has a quorum for each entry, for
\* every cluster and quorum.
THEOREM CommitsNeedQuorum == Spec => CommitHasQuorum
<1> DEFINE Local == \/ \E v \in Val : ReplicationAppend(v) \/ Tick(v) \/ AutoCheck(v)
                    \/ \E n \in Ackers, i \in Indexes : ReplicationAck(n, i)
           Quorate == \A i \in (mem.commit + 1)..mem'.commit : HasQuorum(mem'.log, i, config.quorum)
<1>1. ASSUME IInv, Local PROVE Quorate
    <2>1. config.quorum \in Nat /\ mem.commit \in Nat /\ GoodMem(mem) /\ GoodLog(mem.log) /\ mem \in Memory
        BY <1>1, QuorumIsNat DEF IInv, GoodMem, Memory
    <2>2. ASSUME NEW v \in Val, ReplicationAppend(v) \/ AutoFailover(v) PROVE Quorate
        <3>1. CASE mem' \in {mem, AutoPromoted(mem)}
            <4>1. mem'.commit = mem.commit
                BY <1>1, <3>1, PromotedKeepsLog
            <4> QED BY <2>1, <4>1
        <3>2. CASE \E b : /\ GoodMem(b) /\ b.commit = mem.commit
                          /\ mem' = Appended(b, v, config.quorum)
            BY <2>1, <3>2, AppendedEffect
        <3> QED BY <1>1, <2>2, <3>1, <3>2, AppendsFrom
    <2>3. ASSUME NEW n \in Ackers, NEW i \in Indexes, ReplicationAck(n, i) PROVE Quorate
        <3> DEFINE a == Acked(mem, n, i)
                   s == SupportedCommit(a, config.quorum)
        <3>1. n \in Node /\ i \in Nat
            BY PeerAssumption, BoundAssumption
        <3>2. GoodLog(Acknowledge(mem.log, i, n))
            BY <2>1, <3>1, AcknowledgeKeeps
        <3>3. a \in Memory /\ GoodLog(a.log) /\ a.commit = mem.commit
            BY <2>1, <3>2 DEF Acked, Memory, GoodLog
        <3> HIDE DEF a
        <3>4. mem' = AdvanceCommitIndex(a, s)
            BY <2>3 DEF ReplicationAck, AfterAck, a
        <3>5. /\ s \in Nat
              /\ config.quorum > 0 => \A k \in (mem.commit + 1)..s : HasQuorum(a.log, k, config.quorum)
              /\ config.quorum = 0 => s = mem.commit
            <4>1. s = ComputeCommitIndex(a.log, mem.commit, config.quorum)
                BY <3>3 DEF SupportedCommit
            <4>2. config.quorum = 0 => s = mem.commit
                BY <4>1 DEF ComputeCommitIndex
            <4> QED BY <2>1, <3>3, <4>1, <4>2, CommitIndexHasQuorum
        <3> HIDE DEF s
        <3>6. mem'.log = a.log /\ (mem'.commit = mem.commit \/ mem'.commit <= s) /\ mem'.commit \in Nat
            BY <3>3, <3>4, <3>5, AdvanceEffect DEF Memory
        <3> QED BY <2>1, <3>5, <3>6
    <2> QED BY <1>1, <2>2, <2>3 DEF Tick, AutoCheck
<1>2. IInv /\ [Next]_vars => [Local => Quorate]_vars
    BY <1>1
<1> QED BY Invariance, <1>2, PTL DEF Spec, CommitHasQuorum

\* An acknowledgement that stays is for an entry that stays, whatever batches arrive.
THEOREM AcksStayTrue == Spec => AckedEntryStable
<1> DEFINE Stable == \A a \in mem.log.acked \cap mem'.log.acked :
                        mem'.log.entries[a[1]] = mem.log.entries[a[1]]
<1>1. ASSUME IInv, Next PROVE Stable
    <2>1. /\ GoodMem(mem) /\ GoodLog(mem.log) /\ mem \in Memory /\ mem.log.entries \in Seq(Entry)
          /\ config.quorum \in Nat
          /\ \A a \in mem.log.acked : a[1] \in 1..Len(mem.log.entries)
        BY <1>1, QuorumIsNat DEF IInv, GoodMem, GoodLog, Log, AcksInside
    <2>2. ASSUME NEW v \in Val, ReplicationAppend(v) \/ AutoFailover(v) PROVE Stable
        <3>1. CASE mem' \in {mem, AutoPromoted(mem)}
            BY <1>1, <3>1, PromotedKeepsLog
        <3>2. CASE \E b : GoodMem(b) /\ b.log = mem.log /\ mem' = Appended(b, v, config.quorum)
            <4>1. PICK b : GoodMem(b) /\ b.log = mem.log /\ mem' = Appended(b, v, config.quorum)
                BY <3>2
            <4> DEFINE e == NewEntry(b.log, b.term, v)
            <4>2. mem'.log.entries = Append(mem.log.entries, e) /\ e \in Entry
                <5>1. /\ Appended(b, v, config.quorum).log.entries = Append(b.log.entries, e)
                      /\ e \in Entry
                    BY <2>1, <4>1, AppendedEffect
                <5> HIDE DEF e
                <5> QED BY <4>1, <5>1
            <4> HIDE DEF e
            <4>3. \A i \in 1..Len(mem.log.entries) : mem'.log.entries[i] = mem.log.entries[i]
                BY <2>1, <4>2, AppendProperties
            <4> QED BY <2>1, <4>3
        <3> QED BY <1>1, <2>2, <3>1, <3>2, AppendsFrom
    <2>3. ASSUME NEW req \in ReceiveRequests, ReplicationReceive(req) PROVE Stable
        <3>1. /\ req.term \in Nat /\ req.commit \in Nat /\ req.prev \in Nat /\ req.prevTerm \in Nat
              /\ req.batch \in Seq(Entry)
            BY RequestAssumption DEF ReceiveRequest
        <3> DEFINE log == AppendRemoteEntries(mem.log, req.prev, req.prevTerm, req.batch)
        <3>2. GoodLog(log) /\ \A a \in log.acked : log.entries[a[1]] = mem.log.entries[a[1]]
            <4>1. GoodLog(log)
                BY <2>1, <3>1, AppendRemoteShape
            <4>2. \A a \in log.acked : log.entries[a[1]] = mem.log.entries[a[1]]
                BY <2>1, <3>1, AppendRemoteKeepsAcked
            <4> QED BY <4>1, <4>2
        <3>3. mem'.log = log
            <4> DEFINE f == StepDownToReplica(AdoptTerm(mem, req.term))
                       r == BeforeReceive(mem, req)
            <4>1. f \in Memory /\ f.log = mem.log
                <5>1. AdoptTerm(mem, req.term) \in Memory /\ AdoptTerm(mem, req.term).log = mem.log
                    BY <2>1, <3>1, AdoptEffect
                <5> QED BY <5>1, StepDownEffect
            <4>2. r = [f EXCEPT !.log = log]
                BY <4>1 DEF BeforeReceive, Memory
            <4> HIDE DEF f, log
            <4>3. r \in Memory /\ GoodMem(r) /\ r.log = log
                BY <3>2, <4>1, <4>2 DEF Memory, GoodMem, GoodLog
            <4>4. mem' = r \/ mem' = AdvanceCommitIndex(NoteLogPosition(r), req.commit)
                BY <2>3 DEF ReplicationReceive, AfterReceive
            <4> DEFINE p == NoteLogPosition(r)
            <4>5. p \in Memory /\ p.log = log
                <5> HIDE DEF r
                <5> QED BY <4>3, NoteEffect
            <4>6. AdvanceCommitIndex(p, req.commit).log = log
                <5> HIDE DEF p
                <5> QED BY <3>1, <4>5, AdvanceEffect
            <4> HIDE DEF r, p
            <4>7. mem' = r \/ mem' = AdvanceCommitIndex(p, req.commit)
                BY <4>4 DEF p
            <4> QED BY <4>3, <4>6, <4>7
        <3> QED BY <3>2, <3>3
    <2>4. ASSUME NEW n \in Ackers, NEW i \in Indexes, ReplicationAck(n, i) PROVE Stable
        <3>1. n \in Node /\ i \in Nat
            BY PeerAssumption, BoundAssumption
        <3>2. /\ GoodLog(Acknowledge(mem.log, i, n))
              /\ Acknowledge(mem.log, i, n).entries = mem.log.entries
            BY <2>1, <3>1, AcknowledgeKeeps
        <3>3. /\ Acked(mem, n, i) \in Memory /\ GoodLog(Acked(mem, n, i).log)
              /\ Acked(mem, n, i).log.entries = mem.log.entries
            BY <2>1, <3>2 DEF Acked, Memory, GoodLog
        <3> DEFINE s == SupportedCommit(Acked(mem, n, i), config.quorum)
        <3>4. s \in Nat
            BY <2>1, <3>3, CommitIndexHasQuorum DEF SupportedCommit, Memory
        <3>5. mem' = AdvanceCommitIndex(Acked(mem, n, i), s)
            BY <2>4 DEF ReplicationAck, AfterAck
        <3> HIDE DEF s
        <3>6. mem'.log.entries = mem.log.entries
            BY <3>3, <3>4, <3>5, AdvanceEffect
        <3> QED BY <3>6
    <2>5. CASE Restart
        <3>1. CASE CanRestore(disk)
            <4>1. mem' = Restored(config, disk) /\ config \in Config /\ GoodDisk(disk)
                BY <1>1, <2>5, <3>1, ConfigAssumption DEF Restart, IInv
            <4>2. mem'.log = FromEntries(disk.rows)
                BY <3>1, <4>1, RestoredEffect
            <4>3. mem'.log.acked = {}
                BY <4>2 DEF FromEntries
            <4> QED BY <4>3
        <3>2. CASE ~CanRestore(disk)
            BY <2>5, <3>2 DEF Restart
        <3> QED BY <3>1, <3>2
    <2>6. CASE mem'.log = mem.log
        BY <2>6
    <2>7. CASE AppendBlank \/ (\E c \in Indexes : ReplicationReconcile(c))
               \/ (\E req \in VoteRequests : RequestVote(req))
               \/ (\E req \in Heartbeats : Heartbeat(req))
               \/ (\E l \in Node : Promote(l)) \/ StepDown \/ HeartbeatExpires
        <3>1. mem'.log = mem.log
            BY <2>1, <2>7 DEF AppendBlank, EnsureTerm, ReplicationReconcile, AdvanceCommitIndex,
                RequestVote, AfterVoteRequest, GrantVote, AdoptTerm, Heartbeat, AfterHeartbeat,
                MarkHeartbeat, StepDownToReplica, Promote, AfterPromote, PromoteToPrimary,
                StepDown, AfterStepDown, HeartbeatExpires, Memory
        <3> QED BY <2>6, <3>1
    <2> QED BY <1>1, <2>2, <2>3, <2>4, <2>5, <2>7 DEF Next, Tick, AutoCheck
<1>2. IInv /\ [Next]_vars => [Stable]_vars
    BY <1>1
<1> QED BY Invariance, <1>2, PTL DEF Spec, AckedEntryStable

\* What a restart restores, when no handler has failed half-way.
THEOREM RestartsKeepCommitted == Spec => RestartKeepsCommitted
<1> DEFINE Kept == /\ up'
                   /\ mem'.log.entries = mem.log.entries
                   /\ mem'.commit <= mem.commit
                   /\ \A i \in disk.committed : i <= mem'.commit
<1>1. ASSUME IInv, Restart, ~torn PROVE Kept
    <2>1. /\ GoodMem(mem) /\ GoodDisk(disk) /\ InStep(mem, disk) /\ config \in Config
          /\ mem.commit \in Nat
        BY <1>1, ConfigAssumption DEF IInv, GoodMem, Memory
    <2>2. CanRestore(disk) /\ FromEntries(disk.rows).entries = mem.log.entries
        BY <2>1, StoreRoundTrip DEF CanRestore, InStep, GoodMem
    <2>3. mem' = Restored(config, disk) /\ up'
        BY <1>1, <2>2 DEF Restart
    <2>4. /\ mem'.log = FromEntries(disk.rows)
          /\ \A i \in disk.committed : i <= mem'.commit
          /\ mem'.commit = 0 \/ mem'.commit \in disk.committed
        BY <2>1, <2>2, <2>3, RestoredEffect
    <2>5. mem'.commit <= mem.commit
        BY <2>1, <2>4 DEF InStep
    <2> QED BY <2>2, <2>3, <2>4, <2>5
<1>2. IInv /\ [Next]_vars => [Restart /\ ~torn => Kept]_vars
    BY <1>1
<1> QED BY Invariance, <1>2, PTL DEF Spec, RestartKeepsCommitted

\* How one process moves on from m to n: the term, what is applied and the vote in a
\* term only grow, and the commit index falls at most to the noted position.
Onward(m, n) ==
    /\ n.term >= m.term
    /\ n.applied >= m.applied
    /\ n.term = m.term /\ m.voted # None => n.voted = m.voted
    /\ n.commit >= m.commit \/ (m.commit > m.lastIdx /\ n.commit = m.lastIdx)

\* Every step but a restart keeps the vote of the term and what was applied.
LEMMA OnwardStep ==
    ASSUME IInv, Next
    PROVE  Restart \/ Onward(mem, mem')
<1>1. /\ GoodMem(mem) /\ GoodLog(mem.log) /\ mem \in Memory /\ config.quorum \in Nat
      /\ mem.term \in Nat /\ mem.applied \in Nat /\ mem.commit \in Nat /\ mem.lastIdx \in Nat
    BY QuorumIsNat DEF IInv, GoodMem, Memory
<1>2. ASSUME NEW v \in Val, ReplicationAppend(v) \/ AutoFailover(v) PROVE Onward(mem, mem')
    <2>1. CASE mem' = mem
        BY <1>1, <2>1 DEF Onward
    <2>2. CASE mem' = AutoPromoted(mem)
        <3>1. /\ mem'.term > mem.term /\ mem'.term \in Nat
              /\ mem'.applied = mem.applied /\ mem'.commit = mem.commit
            BY <1>1, <2>2, PromoteEffect, SelfAssumption DEF AutoPromoted, Memory
        <3> QED BY <1>1, <3>1 DEF Onward
    <2>3. CASE \E b : /\ GoodMem(b) /\ b.commit = mem.commit
                      /\ b.applied = mem.applied /\ b.term >= mem.term
                      /\ b.term = mem.term => b.voted = mem.voted
                      /\ mem' = Appended(b, v, config.quorum)
        <3>1. PICK b : /\ GoodMem(b) /\ b.commit = mem.commit
                       /\ b.applied = mem.applied /\ b.term >= mem.term
                       /\ b.term = mem.term => b.voted = mem.voted
                       /\ mem' = Appended(b, v, config.quorum)
            BY <2>3
        <3>2. /\ mem'.term = b.term /\ mem'.voted = b.voted
              /\ mem'.commit >= b.commit /\ mem'.applied >= b.applied
            BY <1>1, <3>1, AppendedEffect
        <3> QED BY <3>1, <3>2 DEF Onward
    <2> QED BY <1>2, <2>1, <2>2, <2>3, AppendsFrom
<1>3. ASSUME NEW req \in ReceiveRequests, ReplicationReceive(req) PROVE Onward(mem, mem')
    <2> DEFINE a == AdoptTerm(mem, req.term)
               f == StepDownToReplica(a)
               log == AppendRemoteEntries(mem.log, req.prev, req.prevTerm, req.batch)
               r == BeforeReceive(mem, req)
    <2>1. /\ req.term \in Nat /\ req.commit \in Nat /\ req.prev \in Nat /\ req.prevTerm \in Nat
          /\ req.batch \in Seq(Entry)
        BY RequestAssumption DEF ReceiveRequest
    <2>2. GoodLog(log)
        BY <1>1, <2>1, AppendRemoteShape
    <2>3. a \in Memory /\ Onward(mem, a) /\ a.commit = mem.commit
        <3>1. /\ a \in Memory /\ a.term >= mem.term /\ (a.term = mem.term => a = mem)
              /\ a.commit = mem.commit /\ a.applied = mem.applied
            BY <1>1, <2>1, AdoptEffect
        <3> HIDE DEF a
        <3> QED BY <1>1, <3>1 DEF Onward
    <2> HIDE DEF a
    <2>4. /\ f \in Memory /\ f.term = a.term /\ f.voted = a.voted
          /\ f.commit = a.commit /\ f.applied = a.applied
        BY <2>3, StepDownEffect
    <2>5. r = [f EXCEPT !.log = log]
        BY <2>3 DEF BeforeReceive, StepDownToReplica, a, AdoptTerm, Memory
    <2> HIDE DEF f, log
    <2>6. /\ r \in Memory /\ GoodMem(r) /\ r.term = a.term /\ r.voted = a.voted
          /\ r.commit = a.commit /\ r.applied = a.applied
        BY <2>2, <2>4, <2>5 DEF Memory, GoodMem, GoodLog
    <2> HIDE DEF r
    <2>7. mem' = r \/ mem' = AdvanceCommitIndex(NoteLogPosition(r), req.commit)
        BY <1>3 DEF ReplicationReceive, AfterReceive, r
    <2>8. /\ NoteLogPosition(r) \in Memory
          /\ NoteLogPosition(r).term = a.term /\ NoteLogPosition(r).voted = a.voted
          /\ NoteLogPosition(r).commit = a.commit /\ NoteLogPosition(r).applied = a.applied
        BY <2>6, NoteEffect
    <2>9. mem'.term = a.term /\ mem'.voted = a.voted
          /\ mem'.commit >= a.commit /\ mem'.applied >= a.applied
          /\ mem'.commit \in Nat /\ mem'.applied \in Nat
        <3>1. CASE mem' = r
            BY <2>6, <3>1 DEF Memory
        <3>2. CASE mem' = AdvanceCommitIndex(NoteLogPosition(r), req.commit)
            BY <2>1, <2>8, <3>2, AdvanceEffect DEF Memory
        <3> QED BY <2>7, <3>1, <3>2
    <2> QED BY <1>1, <2>3, <2>9 DEF Onward, Memory
<1>4. ASSUME NEW n \in Ackers, NEW i \in Indexes, ReplicationAck(n, i) PROVE Onward(mem, mem')
    <2> DEFINE a == Acked(mem, n, i)
               s == SupportedCommit(a, config.quorum)
    <2>1. n \in Node /\ i \in Nat
        BY PeerAssumption, BoundAssumption
    <2>2. GoodLog(Acknowledge(mem.log, i, n))
        BY <1>1, <2>1, AcknowledgeKeeps
    <2>3. /\ a \in Memory /\ GoodLog(a.log) /\ a.commit = mem.commit /\ a.term = mem.term
          /\ a.voted = mem.voted /\ a.applied = mem.applied
        BY <1>1, <2>2 DEF Acked, Memory, GoodLog
    <2>4. mem' = AdvanceCommitIndex(a, s)
        BY <1>4 DEF ReplicationAck, AfterAck
    <2> HIDE DEF a
    <2>5. s \in Nat
        BY <1>1, <2>3, CommitIndexHasQuorum DEF SupportedCommit
    <2> HIDE DEF s
    <2>6. /\ mem'.commit >= mem.commit /\ mem'.applied >= mem.applied
          /\ mem'.term = mem.term /\ mem'.voted = mem.voted
        BY <2>3, <2>4, <2>5, AdvanceEffect
    <2> QED BY <1>1, <2>6 DEF Onward
<1>5. ASSUME NEW req \in VoteRequests, RequestVote(req) PROVE Onward(mem, mem')
    <2> DEFINE a == AdoptTerm(mem, req.term)
    <2>1. req.term \in Nat /\ req.candidate \in Node /\ None \notin Node
        BY PeerAssumption, SelfAssumption DEF VoteRequest
    <2>2. /\ a \in Memory /\ a.commit = mem.commit /\ a.applied = mem.applied
          /\ a.term >= mem.term /\ a.term >= req.term /\ (a.term = mem.term => a = mem)
          /\ a.term # mem.term => a.term = req.term
        BY <1>1, <2>1, AdoptEffect
    <2> HIDE DEF a
    <2>3. CASE ~VoteGranted(mem, req)
        <3>1. mem' = a
            BY <1>5, <2>3 DEF RequestVote, AfterVoteRequest, a
        <3> QED BY <1>1, <2>2, <3>1 DEF Onward
    <2>4. CASE VoteGranted(mem, req)
        <3>1. /\ req.term = a.term /\ a.voted \in {None, req.candidate}
            <4>1. a.term \in Nat
                BY <2>2 DEF Memory
            <4> QED BY <2>1, <2>2, <2>4, <4>1 DEF VoteGranted, CanGrantVote, a
        <3>2. mem' = [a EXCEPT !.voted = req.candidate]
            <4>1. a.term \in Nat
                BY <2>2 DEF Memory
            <4>2. mem' = GrantVote(a, req.term, req.candidate)
                BY <1>5, <2>4 DEF RequestVote, AfterVoteRequest, a
            <4> QED BY <2>1, <3>1, <4>1, <4>2 DEF GrantVote, AdoptTerm
        <3>3. /\ mem'.voted = req.candidate /\ mem'.term = a.term
              /\ mem'.commit = mem.commit /\ mem'.applied = mem.applied
            BY <2>2, <3>2 DEF Memory
        <3> QED BY <1>1, <2>2, <3>1, <3>3 DEF Onward
    <2> QED BY <2>3, <2>4
<1>6. ASSUME NEW req \in Heartbeats, Heartbeat(req) PROVE Onward(mem, mem')
    <2> DEFINE a == AdoptTerm(mem, req.term)
               b == IF req.leader # Self THEN StepDownToReplica(a) ELSE a
    <2>1. req.term \in Nat /\ req.commit \in Nat
        BY PeerAssumption DEF HeartbeatRequest
    <2>2. /\ a \in Memory /\ a.commit = mem.commit /\ a.applied = mem.applied
          /\ a.lastIdx = mem.lastIdx /\ a.term >= mem.term /\ (a.term = mem.term => a = mem)
        BY <1>1, <2>1, AdoptEffect
    <2> HIDE DEF a
    <2>3. /\ b \in Memory /\ b.commit = mem.commit /\ b.applied = mem.applied
          /\ b.lastIdx = mem.lastIdx /\ b.term = a.term /\ b.voted = a.voted
        BY <2>2, StepDownEffect
    <2> HIDE DEF b
    <2>4. mem' = MarkHeartbeat(b, req.commit)
        BY <1>6 DEF Heartbeat, AfterHeartbeat, a, b
    <2>5. /\ mem'.commit >= mem.commit \/ (mem'.commit = mem.lastIdx /\ mem.commit > mem.lastIdx)
          /\ mem'.applied >= mem.applied /\ mem'.term = a.term /\ mem'.voted = a.voted
        BY <2>1, <2>3, <2>4, HeartbeatEffect
    <2> QED BY <2>2, <2>5 DEF Onward
<1>7. ASSUME NEW c \in Indexes, ReplicationReconcile(c) PROVE Onward(mem, mem')
    <2>1. c \in Nat /\ mem' = AdvanceCommitIndex(mem, c)
        BY <1>7, BoundAssumption DEF ReplicationReconcile
    <2>2. /\ mem'.commit >= mem.commit /\ mem'.applied >= mem.applied
          /\ mem'.term = mem.term /\ mem'.voted = mem.voted
        BY <1>1, <2>1, AdvanceEffect
    <2> QED BY <1>1, <2>2 DEF Onward
<1>8. CASE AppendBlank
    <2>1. mem' = EnsureTerm(mem)
        BY <1>8 DEF AppendBlank
    <2> QED BY <1>1, <2>1, EnsureTermEffect DEF Onward
<1>9. ASSUME NEW l \in Node, Promote(l) PROVE Onward(mem, mem')
    <2> DEFINE on == [mem EXCEPT !.enabled = TRUE]
    <2>1. /\ on \in Memory /\ on.commit = mem.commit /\ on.applied = mem.applied
          /\ on.term = mem.term
        BY <1>1 DEF Memory
    <2> HIDE DEF on
    <2>2. mem' = PromoteToPrimary(on, l)
        BY <1>9 DEF Promote, AfterPromote, on
    <2>3. /\ mem'.term > mem.term /\ mem'.commit = mem.commit /\ mem'.applied = mem.applied
          /\ mem'.term \in Nat
        BY <2>1, <2>2, PromoteEffect DEF Memory
    <2> QED BY <1>1, <2>3 DEF Onward
<1>10. CASE StepDown \/ HeartbeatExpires
    <2>1. /\ mem'.commit = mem.commit /\ mem'.applied = mem.applied
          /\ mem'.term = mem.term /\ mem'.voted = mem.voted
        BY <1>1, <1>10 DEF StepDown, AfterStepDown, StepDownToReplica, HeartbeatExpires, Memory
    <2> QED BY <1>1, <2>1 DEF Onward
<1> QED BY <1>2, <1>3, <1>4, <1>5, <1>6, <1>7, <1>8, <1>9, <1>10 DEF Next, Tick, AutoCheck

\* Terms do not go back and a vote is not given twice in the life of a process.
THEOREM VotesAreKept == Spec => OneVotePerTerm
<1>1. IInv /\ [Next]_vars =>
        [\/ Restart
         \/ /\ mem'.term >= mem.term
            /\ mem'.applied >= mem.applied
            /\ mem'.term = mem.term /\ mem.voted # None => mem'.voted = mem.voted]_vars
    BY OnwardStep DEF Onward
<1> QED BY Invariance, <1>1, PTL DEF Spec, OneVotePerTerm

\* The commit index falls only where a truncation had put it above the log.
THEOREM CommitsFallOnlyToLog == Spec => CommitFallsOnlyToLog
<1>1. IInv /\ [Next]_vars =>
        [\/ Restart
         \/ mem'.commit >= mem.commit
         \/ mem.commit > mem.lastIdx /\ mem'.commit = mem.lastIdx]_vars
    BY OnwardStep DEF Onward
<1> QED BY Invariance, <1>1, PTL DEF Spec, CommitFallsOnlyToLog
=============================================================================
