------------------------------- MODULE HaNode -------------------------------
(***************************************************************************)
(* One SQLRite server as a replication node: requests of peers and         *)
(* operators in any order, the writes they make to the catalog, writes     *)
(* that fail, the passing of the election timeout, and restarts.           *)
(*                                                                         *)
(* The server answers one connection at a time (serve_health_endpoints),   *)
(* so a request is one step.  Before the handler of most requests runs,    *)
(* the server may promote itself (maybe_trigger_automatic_failover); a     *)
(* request that does nothing else is Tick, and the other handlers are      *)
(* enabled when no such promotion is due, which splits "promote, then      *)
(* handle" into two steps.                                                 *)
(***************************************************************************)
EXTENDS HaHandlers

CONSTANTS Configs,          \* start-up profiles
          ReceiveRequests,  \* bodies of POST /control/v1/replication/receive
          VoteRequests,     \* bodies of POST /control/v1/election/request-vote
          Heartbeats,       \* bodies of POST /control/v1/election/heartbeat
          Ackers,           \* the nodes that acknowledge
          Indexes,          \* indexes that acknowledgements and reconciliations name
          MaxIndex,         \* bound on the local log
          MaxTerm,          \* bound on promotions
          DiskFaults        \* whether a write to the catalog may fail

(* A batch as a leader sends it: terms do not decrease and do not exceed   *)
(* the request's.  Its last entry may be damaged or out of sequence.       *)
ReceiveRequest ==
    [term : Nat, prev : Nat, prevTerm : Nat, batch : Seq(Entry), commit : Nat]

VoteRequest == [term : Nat, candidate : Node, lastIdx : Nat, lastTerm : Nat]

HeartbeatRequest == [term : Nat, leader : Node, commit : Nat]

LeaderShaped(req) ==
    /\ \A k \in 1..Len(req.batch) :
          /\ req.batch[k].term \in req.prevTerm..req.term
          /\ req.batch[k].term >= 1
    /\ \A j, k \in 1..Len(req.batch) : j <= k => req.batch[j].term <= req.batch[k].term

ASSUME ConfigAssumption == Configs \subseteq {c \in Config : ValidConfig(c)}
ASSUME RequestAssumption ==
    ReceiveRequests \subseteq ReceiveRequest /\ \A r \in ReceiveRequests : LeaderShaped(r)
ASSUME PeerAssumption ==
    /\ VoteRequests \subseteq VoteRequest
    /\ Heartbeats \subseteq HeartbeatRequest
    /\ Ackers \subseteq Node
ASSUME BoundAssumption == Indexes \subseteq Nat /\ MaxIndex \in Nat /\ MaxTerm \in Nat
ASSUME FaultAssumption == DiskFaults \in BOOLEAN

VARIABLES config,  \* the profile the process was started with
          mem,     \* the control-plane state
          disk,    \* the catalog in the database file
          up,      \* the server answers requests
          torn     \* history: an error has left the log in memory ahead of the store

vars == <<config, mem, disk, up, torn>>

TypeOK ==
    /\ config \in Configs
    /\ mem \in Memory
    /\ disk \in Disk
    /\ up \in BOOLEAN
    /\ torn \in BOOLEAN

Init ==
    /\ config \in Configs
    /\ mem = NewMemory(config)
    /\ disk = EmptyDisk
    /\ up = TRUE
    /\ torn = FALSE

-----------------------------------------------------------------------------
\* How many of a handler's n writes are done when it ends: all of them, or the
\* ones before the write whose error it returns as a 500.
Progress(n) == IF DiskFaults THEN 0..n ELSE {n}

\* A request whose handler runs after the tick, when the tick does not promote.
Arrives == up /\ ~FailoverDue(mem, config)

\* The entry's row, then the committed flags.
AppendWrites(d, m, supported, done) ==
    LET e   == m.log.entries[Len(m.log.entries)]
        put == IF done >= 1 THEN PutRow(d, e, e.idx <= m.commit) ELSE d
    IN  IF done >= 2 THEN MarkCommitted(put, supported) ELSE put

\* POST /control/v1/replication/append on an enabled primary.
ReplicationAppend(v) ==
    /\ Arrives
    /\ mem.enabled /\ mem.role = "primary"
    /\ Len(mem.log.entries) < MaxIndex
    /\ mem' = AfterAppend(mem, v, config.quorum)
    /\ \E done \in Progress(2) :
          /\ disk' = AppendWrites(disk, mem',
                        SupportedCommit(LeaderAppend(EnsureTerm(mem), v), config.quorum), done)
          /\ torn' = (torn \/ done = 0)
    /\ UNCHANGED <<config, up>>

\* The same request with a blank operation: 400, after the term was raised.
AppendBlank ==
    /\ Arrives
    /\ mem.enabled /\ mem.role = "primary"
    /\ mem' = EnsureTerm(mem)
    /\ UNCHANGED <<config, disk, up, torn>>

\* POST /control/v1/replication/receive with a term that is not stale.
ReplicationReceive(req) ==
    /\ up
    /\ mem.enabled
    /\ req.term >= mem.term
    /\ mem' = AfterReceive(mem, req)
    /\ IF ReceiveAccepts(mem, req)
       THEN \E done \in Progress(1) :
               /\ disk' = IF done = 1 THEN RewriteRows(disk, mem') ELSE disk
               /\ torn' = (torn \/ (done = 0 /\ mem'.log.entries # mem.log.entries))
       ELSE /\ disk' = disk
            /\ torn' = (torn \/ mem'.log.entries # mem.log.entries)
    /\ UNCHANGED <<config, up>>

\* POST /control/v1/replication/ack; any role answers it.
ReplicationAck(n, i) ==
    /\ Arrives
    /\ CanAcknowledge(mem.log, i)
    /\ mem' = AfterAck(mem, n, i, config.quorum)
    /\ \E done \in Progress(1) :
          disk' = IF done = 1
                  THEN MarkCommitted(disk, SupportedCommit(Acked(mem, n, i), config.quorum))
                  ELSE disk
    /\ UNCHANGED <<config, up, torn>>

\* POST /control/v1/replication/reconcile with a commit index.
ReplicationReconcile(commit) ==
    /\ Arrives
    /\ mem' = AdvanceCommitIndex(mem, commit)
    /\ UNCHANGED <<config, disk, up, torn>>

\* POST /control/v1/election/request-vote
RequestVote(req) ==
    /\ Arrives
    /\ mem.enabled
    /\ mem' = AfterVoteRequest(mem, req)
    /\ \E done \in Progress(1) :
          disk' = IF done = 1 /\ VoteGranted(mem, req)
                  THEN PutVote(disk, mem'.term, req.candidate)
                  ELSE disk
    /\ UNCHANGED <<config, up, torn>>

\* POST /control/v1/election/heartbeat; not conditional on replication being on.
Heartbeat(req) ==
    /\ up
    /\ req.term >= mem.term
    /\ mem' = AfterHeartbeat(mem, req)
    /\ \E done \in Progress(1) :
          disk' = IF done = 1 THEN MarkCommitted(disk, mem'.commit) ELSE disk
    /\ UNCHANGED <<config, up, torn>>

\* POST /control/v1/failover/promote and /step-down
Promote(leader) ==
    /\ Arrives
    /\ mem.term < MaxTerm
    /\ mem' = AfterPromote(mem, leader)
    /\ UNCHANGED <<config, disk, up, torn>>

StepDown ==
    /\ Arrives
    /\ mem' = AfterStepDown(mem)
    /\ UNCHANGED <<config, disk, up, torn>>

\* The promotion itself.  Its first write is the failover_started event; when
\* that fails the role stays.  Then come the event and marker of the promotion,
\* the entry's row and the committed flags.
AutoFailover(v) ==
    /\ mem.term < MaxTerm
    /\ Len(mem.log.entries) < MaxIndex
    /\ \/ /\ mem' = AfterAutoPromote(mem, v, config.quorum)
          /\ \E done \in Progress(2) :
                /\ disk' = AppendWrites(disk, mem',
                              SupportedCommit(LeaderAppend(AutoPromoted(mem), v), config.quorum),
                              done)
                /\ torn' = (torn \/ done = 0)
       \/ /\ DiskFaults
          /\ mem' \in {mem, AutoPromoted(mem)}
          /\ UNCHANGED <<disk, torn>>
    /\ UNCHANGED <<config, up>>

\* The tick of any request, a scrape of /metrics for one.
Tick(v) ==
    /\ up
    /\ FailoverDue(mem, config)
    /\ AutoFailover(v)

\* POST /control/v1/failover/auto-check with force, or with a simulated time
\* that has reached the election timeout.
AutoCheck(v) ==
    /\ up
    /\ CanAutoPromote(mem, config)
    /\ AutoFailover(v)

\* The election timeout passes since the last heartbeat.
HeartbeatExpires ==
    /\ up
    /\ mem.beat = "fresh"
    /\ mem' = [mem EXCEPT !.beat = "expired"]
    /\ UNCHANGED <<config, disk, up, torn>>

\* The process ends at any moment, and a new one restores the catalog; it exits
\* when the catalog is not a log.
Restart ==
    /\ IF CanRestore(disk)
       THEN mem' = Restored(config, disk) /\ up' = TRUE
       ELSE mem' = mem /\ up' = FALSE
    /\ UNCHANGED <<config, disk, torn>>

Next ==
    \/ \E v \in Val : ReplicationAppend(v)
    \/ \E v \in Val : Tick(v)
    \/ \E v \in Val : AutoCheck(v)
    \/ AppendBlank
    \/ \E req \in ReceiveRequests : ReplicationReceive(req)
    \/ \E n \in Ackers, i \in Indexes : ReplicationAck(n, i)
    \/ \E c \in Indexes : ReplicationReconcile(c)
    \/ \E req \in VoteRequests : RequestVote(req)
    \/ \E req \in Heartbeats : Heartbeat(req)
    \/ \E l \in Node : Promote(l)
    \/ StepDown
    \/ HeartbeatExpires
    \/ Restart

Spec == Init /\ [][Next]_vars

\* /metrics is scraped for as long as the server is up, and each scrape ticks.
LiveSpec == Spec /\ WF_vars(\E v \in Val : Tick(v))

-----------------------------------------------------------------------------
(* Safety                                                                  *)

\* Positions and indexes of the log agree, and no entry that failed its checksum
\* is kept, in memory or in the store: entry_at() may index the vector by idx - 1.
LogWellFormed ==
    /\ WellFormed(mem.log)
    /\ \A r \in disk.rows : r.idx >= 1 /\ r.sum
    /\ \A r, s \in disk.rows : r.idx = s.idx => r = s

\* No acknowledgement outlives its entry: acked_by only names positions of the log.
AcksWithinLog == AcksInside(mem.log)

\* Until a handler fails half-way, the store holds the log in memory: a restart
\* finds every entry that was appended or received.
StoreMatchesLog == ~torn => disk.rows = LogRows(mem)

\* The committed column never promises more than the commit index, although it
\* is written by three statements and a heartbeat may lower the index.
FlagsNeverOverstate == ~torn => \A i \in disk.committed : i <= mem.commit

\* The server's term covers its log, and the log's terms never decrease.
TermCoversLog == ~torn => TermsUpTo(mem.log, mem.term)

\* A server that was promoted, by an operator or by the tick, has given its vote
\* in the term it leads, so it cannot vote another candidate into that term.
PrimaryHasVoted ==
    mem.role = "primary" /\ config.role # "primary" => mem.term >= 1 /\ mem.voted # None

\* An acknowledgement that stays stands for the entry that was acknowledged,
\* not for one that replaced it.
AckedEntryStable ==
    [][\A a \in mem.log.acked \cap mem'.log.acked :
          mem'.log.entries[a[1]] = mem.log.entries[a[1]]]_vars

\* In the life of one process the term does not go back, a vote given in a term
\* is not given again to another node, and what was applied stays applied.
OneVotePerTerm ==
    [][\/ Restart
       \/ /\ mem'.term >= mem.term
          /\ mem'.applied >= mem.applied
          /\ mem'.term = mem.term /\ mem.voted # None => mem'.voted = mem.voted]_vars

\* A server never lowers its commit index unless a truncation had already
\* removed the entries above its last index.
CommitFallsOnlyToLog ==
    [][\/ Restart
       \/ mem'.commit >= mem.commit
       \/ mem.commit > mem.lastIdx /\ mem'.commit = mem.lastIdx]_vars

\* When the server commits on its own account (no leader told it to), every
\* entry it newly commits has been acknowledged by a quorum, one entry after the other.
CommitHasQuorum ==
    [][\/ \E v \in Val : ReplicationAppend(v) \/ Tick(v) \/ AutoCheck(v)
       \/ \E n \in Ackers, i \in Indexes : ReplicationAck(n, i)
       => \A i \in (mem.commit + 1)..mem'.commit :
             HasQuorum(mem'.log, i, config.quorum)]_vars

\* A restart neither loses an entry nor forgets or invents a commit: what is
\* flagged in the store is committed again, and nothing that was not committed is.
RestartKeepsCommitted ==
    [][Restart /\ ~torn =>
          /\ up'
          /\ mem'.log.entries = mem.log.entries
          /\ mem'.commit <= mem.commit
          /\ \A i \in disk.committed : i <= mem'.commit]_vars

-----------------------------------------------------------------------------
(* Liveness                                                                *)

\* With automatic failover, a replica whose leader has gone silent takes over,
\* unless the leader is heard again or the process is restarted.
Silent == up /\ CanAutoPromote(mem, config) /\ mem.beat = "expired"
WithinBounds == mem.term < MaxTerm /\ Len(mem.log.entries) < MaxIndex
SilenceEndsInFailover ==
    Silent /\ WithinBounds ~> mem.role = "primary" \/ mem.beat # "expired" \/ ~WithinBounds

-----------------------------------------------------------------------------
(* What the code says of itself and does not do.                           *)

\* from_entries() (src/src/ha.rs) takes the stored log to have no gap: the store
\* is one a new process accepts.
StoreRestorable == CanRestore(disk)

\* "Replica reconciliation reports can only move commit forward up to local log head."
ReconcileStopsAtHead ==
    [][\A c \in Indexes :
          ReplicationReconcile(c) /\ mem'.commit # mem.commit
             => mem'.commit \in (mem.commit + 1)..LastIndex(mem.log)]_vars
=============================================================================
