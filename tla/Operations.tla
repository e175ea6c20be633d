----------------------------- MODULE Operations -----------------------------
(***************************************************************************)
(* What a server measures of its own failovers and restores, and the       *)
(* faults an operator injects into it (src/src/server.rs).  A measurement  *)
(* starts and completes in different requests, of operators, of a leader   *)
(* or by the tick before a handler; counters live in memory and each event *)
(* also in a table, from which a restart counts them again.  What it       *)
(* counts and traces of its requests lives in memory only.                 *)
(*                                                                         *)
(* HaNode has terms, logs and votes; of these only the role, the last      *)
(* heartbeat and failover_in_progress matter here.                         *)
(***************************************************************************)
EXTENDS Integers, Sequences, FiniteSets, SequencesExt, Selection

CONSTANTS ElectionTimeout,
          FaultDurations,  \* of injected faults; 0: until cleared
          DiskMayFail,     \* whether a write to the catalog may fail
          TraceCapacity,   \* 512
          MaxOpClock, MaxOpRequests, MaxOpRestarts

ASSUME OperationsAssumption == TraceCapacity \in Nat

VARIABLES ops,      \* the control-plane state
          opEvents, \* tables ha_resilience_events and ha_chaos_events: [type, duration]
          opClock,
          opBounds, \* requests and restarts so far
          opLost    \* history: the write of an event has failed

operationsVars == <<ops, opEvents, opClock, opBounds, opLost>>

Scenarios == {"node_crash", "disk_full", "partition_subset"}
Never == -1

\* One of the two measurements of ResilienceState.
NewMeasure == [events |-> 0, done |-> 0, since |-> Never, last |-> Never, total |-> 0]
NewWatch == [requests |-> 0, serverErrors |-> 0, clientErrors |-> 0, sql |-> 0, sqlFailed |-> 0,
             traces |-> << >>]   \* [seq, sql, status]
NewOps ==
    [role |-> "replica", heard |-> Never, failing |-> FALSE,
     failover |-> NewMeasure, restore |-> NewMeasure,
     faults |-> << >>,   \* scenario -> [since, lasting]
     injected |-> 0, blocked |-> 0,
     seq |-> 0, simulated |-> 0, watch |-> NewWatch]

OperationsInit ==
    /\ ops = NewOps /\ opEvents = << >> /\ opClock = 0
    /\ opBounds = [requests |-> 0, restarts |-> 0] /\ opLost = FALSE

-----------------------------------------------------------------------------
(* ResilienceState and ChaosHarnessState.                                  *)

\* start_failover(), start_restore(): a running measurement goes on.
Started(m) ==
    IF m.since # Never THEN m ELSE [m EXCEPT !.events = @ + 1, !.since = opClock]

\* complete_failover(), complete_restore()
Completed(m) ==
    IF m.since = Never THEN m
    ELSE [m EXCEPT !.since = Never, !.done = @ + 1, !.last = opClock - m.since,
                   !.total = @ + (opClock - m.since)]

\* The row of a completion, if there was something to complete.
CompletedRows(type, m) ==
    IF m.since = Never THEN << >> ELSE <<[type |-> type, duration |-> opClock - m.since]>>
StartedRow(type) == <<[type |-> type, duration |-> 0]>>

\* cleanup_expired()
Unexpired(faults) ==
    LET lasting == {s \in DOMAIN faults :
                      faults[s].lasting = 0 \/ opClock - faults[s].since < faults[s].lasting}
    IN [s \in lasting |-> faults[s]]

Writing == {"sql", "recoveryStart", "markRestored", "verifyRestore"}
ChaosPaths == {"inject", "clear"}
UntickedPaths == {"heartbeat", "autoCheck"}

\* chaos_blocking_response()
Blocks(o, path) ==
    /\ path \notin ChaosPaths
    /\ \/ "node_crash" \in DOMAIN o.faults
       \/ "disk_full" \in DOMAIN o.faults /\ path \in Writing
       \/ "partition_subset" \in DOMAIN o.faults /\ path = "heartbeat"

-----------------------------------------------------------------------------
(* ObservabilityState.                                                     *)

LatestTraces(traces) == IF Len(traces) > TraceCapacity THEN Tail(traces) ELSE traces

\* record_request()
Recorded(o, path, status) ==
    LET seq == o.seq + 1
        sql == path = "sql"
        One(holds) == IF holds THEN 1 ELSE 0
    IN [o EXCEPT !.seq = seq,
          !.watch = [requests |-> @.requests + 1,
                     serverErrors |-> @.serverErrors + One(status >= 500),
                     clientErrors |-> @.clientErrors + One(status \in 400..499),
                     sql |-> @.sql + One(sql), sqlFailed |-> @.sqlFailed + One(sql /\ status >= 400),
                     traces |-> LatestTraces(Append(@.traces, [seq |-> seq, sql |-> sql, status |-> status]))]]

\* Faulty variant of WatchReset: the traces stay.
WatchResetCounters(o) == [o EXCEPT !.watch = [NewWatch EXCEPT !.traces = o.watch.traces]]

\* POST observability/reset: the numbers of requests and of simulations go on.
WatchReset(o) == [o EXCEPT !.watch = NewWatch]

\* POST alerts/simulate: which alerts would fire is only said.
AlertSimulated(o) == [o EXCEPT !.simulated = @ + 1]

\* What a handler that comes to its end answers: a query endpoint also an error of SQLite,
\* readyz that there is no leader.  Any path may refuse what it does not understand.
Statuses(path) ==
    CASE path = "sql" -> {200, 500} [] path = "read" -> {200, 503} [] OTHER -> {200}
Refusals == {400}

-----------------------------------------------------------------------------
(* A handler is a sequence of stages [ops, events]: the state it reaches   *)
(* before it writes to the event table, and the table once it has.  When a *)
(* write fails, the handler ends there and the state it has reached stays. *)

Stage(o, events) == [ops |-> o, events |-> events]
Promoted(o) == [o EXCEPT !.role = "primary", !.failing = FALSE, !.failover = Completed(@)]

\* maybe_trigger_automatic_failover(), once it has decided.
AutoFailoverStages(at) ==
    LET begun == Stage([at.ops EXCEPT !.failing = TRUE, !.failover = Started(@)],
                       at.events \o StartedRow("failover_started"))
    IN <<begun, Stage(Promoted(begun.ops),
                      begun.events \o CompletedRows("failover_completed", begun.ops.failover))>>

FailoverIsDue(o) ==
    o.role = "replica" /\ o.heard # Never /\ opClock - o.heard >= ElectionTimeout

TickStages(at, path) ==
    IF path \notin UntickedPaths /\ FailoverIsDue(at.ops) THEN AutoFailoverStages(at) ELSE <<at>>

\* Faulty variant of HeartbeatStages: the completed failover is not written to the table.
HeartbeatUnwritten(at, ahead) ==
    LET heard == [at.ops EXCEPT !.role = "replica", !.heard = opClock, !.failing = ahead]
    IN <<Stage(IF ahead THEN [heard EXCEPT !.failover = Completed(@)] ELSE heard, at.events)>>

\* POST election/heartbeat of another leader: failover_in_progress is only set, and with it
\* the measurement only completed, when the leader's log is ahead of the local one.
HeartbeatStages(at, ahead) ==
    LET heard == [at.ops EXCEPT !.role = "replica", !.heard = opClock, !.failing = ahead]
    IN IF ahead
       THEN <<Stage([heard EXCEPT !.failover = Completed(@)],
                    at.events \o CompletedRows("failover_completed", heard.failover))>>
       ELSE <<Stage(heard, at.events)>>

\* POST recovery/verify-restore: both ends of a restore, unless one has been started.
VerifyStages(at) ==
    LET begun == Stage([at.ops EXCEPT !.restore = Started(@)],
                       IF at.ops.restore.since # Never THEN at.events
                       ELSE at.events \o StartedRow("restore_started"))
    IN <<begun, Stage([begun.ops EXCEPT !.restore = Completed(@)],
                      begun.events \o CompletedRows("restore_completed", begun.ops.restore))>>

Injected(o, scenario, lasting) ==
    [o EXCEPT !.faults = [s \in DOMAIN @ \cup {scenario} |->
       IF s = scenario THEN [since |-> opClock, lasting |-> lasting] ELSE @[s]]]
Cleared(o, scenarios) ==
    [o EXCEPT !.faults = [s \in DOMAIN @ \ scenarios |-> @[s]]]

\* The stages that the handler of a path can go through.
HandlerStages(at, path) ==
    LET o == at.ops
        One(reached, rows) == <<Stage(reached, at.events \o rows)>>
    IN CASE path = "failoverStart" ->
              {One([o EXCEPT !.failing = TRUE, !.failover = Started(@)], StartedRow("failover_started"))}
         [] path = "promote" -> {One(Promoted(o), CompletedRows("failover_completed", o.failover))}
         [] path = "stepDown" -> {<<Stage([o EXCEPT !.role = "replica", !.failing = FALSE], at.events)>>}
         [] path = "autoCheck" ->   \* forced
              {IF o.role = "replica" THEN AutoFailoverStages(at) ELSE <<at>>}
         [] path = "heartbeat" -> {HeartbeatStages(at, ahead) : ahead \in BOOLEAN}
         [] path = "recoveryStart" ->
              {One([o EXCEPT !.restore = Started(@)], StartedRow("restore_started"))}
         [] path = "markRestored" ->
              {One([o EXCEPT !.restore = Completed(Started(@))],
                   CompletedRows("restore_completed", Started(o.restore)))}
         [] path = "verifyRestore" -> {VerifyStages(at)}
         [] path = "inject" ->
              {One([Injected(o, s, n) EXCEPT !.injected = @ + 1], StartedRow("injected")) :
                  s \in Scenarios, n \in FaultDurations}
         [] path = "clear" ->
              {One(Cleared(o, s), StartedRow("cleared")) : s \in {{x} : x \in Scenarios} \cup {Scenarios}}
         [] path = "resetWatch" -> {<<Stage(WatchReset(o), at.events)>>}
         [] path = "simulate" -> {<<Stage(AlertSimulated(o), at.events)>>}
         [] OTHER -> {<<at>>}

Paths == {"failoverStart", "promote", "stepDown", "autoCheck", "heartbeat", "recoveryStart",
          "markRestored", "verifyRestore", "inject", "clear", "resetWatch", "simulate", "sql", "read"}

-----------------------------------------------------------------------------
Runs(n) == IF DiskMayFail THEN 0..n ELSE {n}

\* The stages of a tick and a handler, of which `done' have written their rows; only a
\* request that is answered is recorded.
RunsTo(stages, done, path, status) ==
    /\ opEvents' = IF done = 0 THEN opEvents ELSE stages[done].events
    /\ opLost' = (opLost \/ done < Len(stages))
    /\ ops' = IF done < Len(stages) THEN stages[done + 1].ops
              ELSE Recorded(Last(stages).ops, path, status)
    /\ done < Len(stages) => stages[done + 1].events # opEvents'

\* build_response(): expired faults go, then faults block, then the tick, then the handler.
Request(path) ==
    /\ opBounds.requests < MaxOpRequests
    /\ opBounds' = [opBounds EXCEPT !.requests = @ + 1]
    /\ LET o == [ops EXCEPT !.faults = Unexpired(@)]
           tick == TickStages(Stage(o, opEvents), path)
       IN IF Blocks(o, path)
          THEN /\ ops' = Recorded([o EXCEPT !.blocked = @ + 1], path, 503)
               /\ UNCHANGED <<opEvents, opLost>>
          ELSE \/ \E handler \in HandlerStages(Last(tick), path), status \in Statuses(path) :
                     \E done \in Runs(Len(tick \o handler)) :
                        RunsTo(tick \o handler, done, path, status)
               \/ \E status \in Refusals, done \in Runs(Len(tick)) : RunsTo(tick, done, path, status)
    /\ UNCHANGED opClock

PassTime ==
    /\ opClock < MaxOpClock /\ opClock' = opClock + 1
    /\ UNCHANGED <<ops, opEvents, opBounds, opLost>>

RowsOf(events, type) == {i \in DOMAIN events : events[i].type = type}
LatestOf(positions) == Nth(positions, Cardinality(positions))

\* The sum of the durations: the units of time in them.
UnitsOf(events, type) == UNION {{i} \X (1..events[i].duration) : i \in RowsOf(events, type)}

\* The part of restore_replication_state() that counts events.
Recounted(events, start, end) ==
    LET ends == RowsOf(events, end)
    IN [events |-> Cardinality(RowsOf(events, start)), done |-> Cardinality(ends), since |-> Never,
        last |-> IF ends = {} THEN Never ELSE events[LatestOf(ends)].duration,
        total |-> Cardinality(UnitsOf(events, end))]

RestartServer ==
    /\ opBounds.restarts < MaxOpRestarts
    /\ opBounds' = [opBounds EXCEPT !.restarts = @ + 1]
    /\ ops' = [NewOps EXCEPT !.failover = Recounted(opEvents, "failover_started", "failover_completed"),
                             !.restore = Recounted(opEvents, "restore_started", "restore_completed"),
                             !.injected = Recounted(opEvents, "injected", "cleared").events]
    /\ UNCHANGED <<opEvents, opClock, opLost>>

OperationsNext == (\E path \in Paths : Request(path)) \/ PassTime \/ RestartServer

OperationsSpec == OperationsInit /\ [][OperationsNext]_operationsVars

-----------------------------------------------------------------------------
OnRecord(m, start, end) ==
    LET counted == Recounted(opEvents, start, end)
    IN /\ m.done = counted.done /\ m.last = counted.last /\ m.total = counted.total
       /\ m.total + (IF m.since = Never THEN 0 ELSE opClock - m.since) <= opClock

(***************************************************************************)
(* As long as no write fails, what the server reports of completed         *)
(* failovers and restores and of injected faults is what a restart would   *)
(* count, whichever requests, heartbeats and ticks began and ended them;   *)
(* the durations never overlap, so that they never add up to more than the *)
(* time there was; a failover that has begun is on record before its end   *)
(* is.                                                                     *)
(***************************************************************************)
MeasuresOnRecord ==
    ~opLost =>
       /\ OnRecord(ops.failover, "failover_started", "failover_completed")
       /\ OnRecord(ops.restore, "restore_started", "restore_completed")
       /\ ops.failover.done <= Recounted(opEvents, "failover_started", "failover_completed").events
       /\ ops.injected = Recounted(opEvents, "injected", "cleared").events

(***************************************************************************)
(* Whatever failed without an answer, was blocked by a fault, refused or   *)
(* reset, the traces kept are the latest requests without a gap, and the   *)
(* counters count the same requests.                                       *)
(***************************************************************************)
RequestsAddUp ==
    LET w == ops.watch
        seen == DOMAIN w.traces
    IN /\ Len(w.traces) = IF w.requests < TraceCapacity THEN w.requests ELSE TraceCapacity
       /\ \A i \in seen : w.traces[i].seq = ops.seq - Len(w.traces) + i
       /\ w.requests <= TraceCapacity =>
             /\ w.serverErrors = Cardinality({i \in seen : w.traces[i].status >= 500})
             /\ w.clientErrors = Cardinality({i \in seen : w.traces[i].status \in 400..499})
             /\ w.sql = Cardinality({i \in seen : w.traces[i].sql})
             /\ w.sqlFailed = Cardinality({i \in seen : w.traces[i].sql /\ w.traces[i].status >= 400})
=============================================================================
