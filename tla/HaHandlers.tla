----------------------------- MODULE HaHandlers -----------------------------
(***************************************************************************)
(* What one SQLRite server keeps about replication and what each request   *)
(* handler does to it.                                                     *)
(*                                                                         *)
(*   mem   the ControlPlaneState behind the server's mutex (HaRuntimeState *)
(*         of src/src/ha.rs, its ReplicationLog and profile.replication.   *)
(*         enabled), lost when the process ends;                           *)
(*   disk  the replication catalog in the SQLite file (tables              *)
(*         replication_log and election_votes of src/src/server.rs).       *)
(*                                                                         *)
(* Fields that are only reported and that no handler reads back are left   *)
(* out (leader_id, timestamps, lag, replica_progress, last_recovery_event, *)
(* profile.replication.role), and so is failover_in_progress, which only   *)
(* the resilience counters depend on.  The time since the last heartbeat   *)
(* is "none", "fresh" (below the election timeout) or "expired".           *)
(***************************************************************************)
EXTENDS ReplicationLog

CONSTANTS Self,      \* profile.replication.node_id of this server
          None       \* Option::None

ASSUME SelfAssumption == Self \in Node /\ None \notin Node

Role == {"standalone", "primary", "replica"}
HeartbeatAge == {"none", "fresh", "expired"}

Memory == [enabled : BOOLEAN, role : Role, term : Nat, voted : Node \cup {None},
           commit : Nat, applied : Nat, lastIdx : Nat, lastTerm : Nat,
           beat : HeartbeatAge, log : Log]

Disk == [rows : SUBSET Entry, committed : SUBSET Nat, votes : SUBSET (Nat \X Node)]

EmptyDisk == [rows |-> {}, committed |-> {}, votes |-> {}]

(* ReplicationConfig::validate(), with the cluster size counted as the     *)
(* nodes of the model.                                                     *)
Config == [enabled : BOOLEAN, role : Role, automatic : BOOLEAN, quorum : Nat]

ValidConfig(c) ==
    IF c.enabled
    THEN /\ c.role # "standalone"
         /\ c.quorum >= 1
         /\ c.role = "primary" => c.quorum <= Cardinality(Node)
    ELSE c.role = "standalone"

\* HaRuntimeState::new()
NewMemory(c) ==
    [enabled |-> c.enabled, role |-> c.role, term |-> 0, voted |-> None,
     commit |-> 0, applied |-> 0, lastIdx |-> 0, lastTerm |-> 0,
     beat |-> "none", log |-> EmptyLog]

-----------------------------------------------------------------------------
(* The methods of HaRuntimeState.                                          *)

\* Faulty variant of PromoteToPrimary: the promoted node does not vote for itself.
PromoteWithoutVote(m, id) == [m EXCEPT !.role = "primary", !.term = MaxOf(@ + 1, 1), !.voted = None]

PromoteToPrimary(m, id) ==
    [m EXCEPT !.role = "primary", !.term = MaxOf(@ + 1, 1), !.voted = id]

StepDownToReplica(m) == [m EXCEPT !.role = "replica"]

\* Faulty variant of MarkHeartbeat: the leader's commit index replaces the local one.
MarkHeartbeatOverwrite(m, commit) ==
    LET c == MinOf(commit, m.lastIdx)
    IN  [m EXCEPT !.commit = c, !.applied = MaxOf(@, c), !.beat = "fresh"]

MarkHeartbeat(m, commit) ==
    LET c == MinOf(MaxOf(m.commit, commit), m.lastIdx)
    IN  [m EXCEPT !.commit = c, !.applied = MaxOf(@, c), !.beat = "fresh"]

AdoptTerm(m, term) ==
    IF term > m.term
    THEN [m EXCEPT !.term = term, !.voted = None,
                   !.role = IF @ = "primary" THEN "replica" ELSE @]
    ELSE m

GrantVote(m, term, candidate) == [AdoptTerm(m, term) EXCEPT !.voted = candidate]

\* Faulty variant of CanGrantVote: an earlier vote in the term is not looked at.
CanGrantAnyVote(m, req) ==
    /\ req.term >= m.term
    /\ \/ req.lastTerm > m.lastTerm
       \/ req.lastTerm = m.lastTerm /\ req.lastIdx >= m.lastIdx

CanGrantVote(m, req) ==
    /\ req.term >= m.term
    /\ req.term = m.term => m.voted \in {None, req.candidate}
    /\ \/ req.lastTerm > m.lastTerm
       \/ req.lastTerm = m.lastTerm /\ req.lastIdx >= m.lastIdx

\* note_log_position(), always called with the log's last index and term.
NoteLogPosition(m) ==
    [m EXCEPT !.lastIdx = LastIndex(m.log), !.lastTerm = LastTerm(m.log)]

AdvanceCommitIndex(m, commit) ==
    LET c == MaxOf(MinOf(commit, m.lastIdx), m.commit)
    IN  [m EXCEPT !.commit = c, !.applied = MaxOf(@, c)]

-----------------------------------------------------------------------------
(* What a handler leaves in memory when it gets to its end.                *)

\* POST /control/v1/replication/append: the term is at least 1 before the
\* operation's name is looked at.
EnsureTerm(m) == [m EXCEPT !.term = MaxOf(@, 1)]

\* The commit index the acknowledgements support; a handler passes it both to
\* advance_commit_index() and to the store.
SupportedCommit(m, quorum) == ComputeCommitIndex(m.log, m.commit, quorum)

LeaderAppend(m, v) ==
    NoteLogPosition([m EXCEPT !.log = AppendLeaderEvent(@, m.term, v, Self)])

AfterAppend(m, v, quorum) ==
    LET a == LeaderAppend(EnsureTerm(m), v)
    IN  AdvanceCommitIndex(a, SupportedCommit(a, quorum))

\* POST /control/v1/replication/receive, up to the call of append_remote_entries().
\* Faulty variant of BeforeReceive: the leader's term is not adopted.
BeforeReceiveOldTerm(m, req) ==
    [StepDownToReplica(m) EXCEPT
        !.log = AppendRemoteEntries(@, req.prev, req.prevTerm, req.batch)]

BeforeReceive(m, req) ==
    LET f == StepDownToReplica(AdoptTerm(m, req.term))
    IN  [f EXCEPT !.log = AppendRemoteEntries(@, req.prev, req.prevTerm, req.batch)]

ReceiveAccepts(m, req) == AppendAccepts(m.log, req.prev, req.prevTerm, req.batch)

\* A refused batch (409) leaves the log as the loop left it and the noted
\* position as it was.
AfterReceive(m, req) ==
    LET r == BeforeReceive(m, req)
    IN  IF ReceiveAccepts(m, req)
        THEN AdvanceCommitIndex(NoteLogPosition(r), req.commit)
        ELSE r

\* POST /control/v1/replication/ack
Acked(m, n, i) == [m EXCEPT !.log = Acknowledge(@, i, n)]

AfterAck(m, n, i, quorum) ==
    AdvanceCommitIndex(Acked(m, n, i), SupportedCommit(Acked(m, n, i), quorum))

\* POST /control/v1/election/request-vote
VoteGranted(m, req) == CanGrantVote(AdoptTerm(m, req.term), req)

AfterVoteRequest(m, req) ==
    IF VoteGranted(m, req)
    THEN GrantVote(AdoptTerm(m, req.term), req.term, req.candidate)
    ELSE AdoptTerm(m, req.term)

\* POST /control/v1/election/heartbeat
AfterHeartbeat(m, req) ==
    LET a == AdoptTerm(m, req.term)
    IN  MarkHeartbeat(IF req.leader # Self THEN StepDownToReplica(a) ELSE a, req.commit)

\* POST /control/v1/failover/promote and /step-down switch replication on.
AfterPromote(m, leader) == PromoteToPrimary([m EXCEPT !.enabled = TRUE], leader)
AfterStepDown(m) == StepDownToReplica([m EXCEPT !.enabled = TRUE])

\* maybe_trigger_automatic_failover(), once it has decided to promote.
AutoPromoted(m) == PromoteToPrimary(m, Self)

AfterAutoPromote(m, v, quorum) ==
    LET a == LeaderAppend(AutoPromoted(m), v)
    IN  AdvanceCommitIndex(a, SupportedCommit(a, quorum))

CanAutoPromote(m, c) == m.enabled /\ c.automatic /\ m.role # "primary"

\* Faulty variant of FailoverDue: only a replica that never heard a leader is due.
FailoverDueUnheard(m, c) == CanAutoPromote(m, c) /\ m.beat = "none"

\* The tick that runs before most requests promotes.
FailoverDue(m, c) == CanAutoPromote(m, c) /\ m.beat = "expired"

-----------------------------------------------------------------------------
(* The writes a handler makes to the catalog, each a transaction.          *)

\* append_replication_entry_to_store(): INSERT OR REPLACE by index.
PutRow(d, e, committed) ==
    [d EXCEPT !.rows = {r \in @ : r.idx # e.idx} \cup {e},
              !.committed = IF committed THEN @ \cup {e.idx} ELSE @ \ {e.idx}]

\* Faulty variant of MarkCommitted: one entry too many.
MarkCommittedNext(d, commit) ==
    [d EXCEPT !.committed = @ \cup {e.idx : e \in {r \in d.rows : r.idx <= commit + 1}}]

\* mark_committed_replication_entries()
MarkCommitted(d, commit) ==
    [d EXCEPT !.committed = @ \cup {e.idx : e \in {r \in d.rows : r.idx <= commit}}]

\* rewrite_replication_log_store(): DELETE and INSERTs in one transaction.
LogRows(m) == {m.log.entries[i] : i \in 1..Len(m.log.entries)}

\* Faulty variant of RewriteRows: the rows past the log are not deleted.
RewriteRowsInPlace(d, m) ==
    [d EXCEPT !.rows = LogRows(m) \cup {r \in @ : r.idx > Len(m.log.entries)},
              !.committed = {e.idx : e \in {r \in LogRows(m) : r.idx <= m.commit}}]

RewriteRows(d, m) ==
    [d EXCEPT !.rows = LogRows(m),
              !.committed = {e.idx : e \in {r \in LogRows(m) : r.idx <= m.commit}}]

\* persist_vote_event() for a granted vote; the latest row of a term is the one read.
PutVote(d, term, candidate) ==
    [d EXCEPT !.votes = {v \in @ : v[1] # term} \cup {<<term, candidate>>}]

-----------------------------------------------------------------------------
(* restore_replication_state(): what a new process makes of the catalog.   *)

CanRestore(d) == Contiguous(d.rows)

\* Faulty variant of RestoredCommit: the last row counts, marked or not.
RestoredLastRow(d) == Cardinality(d.rows)

\* The last row, by index, that is marked committed.
RestoredCommit(d) ==
    IF d.committed = {} THEN 0
    ELSE CHOOSE i \in d.committed : \A j \in d.committed : j <= i

\* Faulty variant of RestoredVote: the term column is read.
RestoredVoteTerm(d, term) ==
    IF \E v \in d.votes : v[1] = term
    THEN (CHOOSE v \in d.votes : v[1] = term)[1]
    ELSE None

RestoredVote(d, term) ==
    IF \E v \in d.votes : v[1] = term
    THEN (CHOOSE v \in d.votes : v[1] = term)[2]
    ELSE None

Restored(c, d) ==
    LET l == NoteLogPosition([NewMemory(c) EXCEPT !.log = FromEntries(d.rows)])
        a == AdvanceCommitIndex(l, RestoredCommit(d))
        t == MaxOf(a.term, a.lastTerm)
    IN  [a EXCEPT !.term = t, !.voted = RestoredVote(d, t)]
=============================================================================
