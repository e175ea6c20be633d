---------------------------- MODULE AuditedAccess ----------------------------
(***************************************************************************)
(* Calls made on behalf of a tenant, and the audit file that tells of      *)
(* them (src/src/security.rs, src/src/server.rs).  A caller is a process:  *)
(* an application that holds a SecureSqlRite or a server; several of them  *)
(* write one table and one file.  A call is authorised, works on the       *)
(* table, and is then told to the file: a text, and its line end in a      *)
(* second write.  A process may be killed and the disk may refuse a write  *)
(* at any point, part of a text written or not.                            *)
(*                                                                         *)
(* `calls' is history: every call by its number, whom it was for, what it  *)
(* did to the table and what its caller was answered; `undisturbed' is     *)
(* that no writing of a line has been cut short or met another one.        *)
(***************************************************************************)
EXTENDS Integers, Sequences, FiniteSets, Selection

CONSTANTS
    Caller,
    Deployments,    \* functions from Caller to [door, rules]
    Contexts,       \* [actor, tenant, roles]
    Anonymous,      \* the context audit_request() makes up when the headers are missing
    Blank,          \* a tenant of nothing but spaces, or a filter that is not given
    AccessIds, AccessTenants, AccessRows,
    MaxCalls

\* The chunks there are at first were written by no call.
ASSUME AccessAssumption == \A row \in AccessRows : row.by = 0

VARIABLES accessRows,  \* the chunks: [id, tenant, by], by the call that wrote it
          trail,       \* the audit file: pieces [kind, event]
          deployment, caller, calls, undisturbed

accessVars == <<accessRows, trail, deployment, caller, calls, undisturbed>>

AccessOperations == {"ingest", "query", "sql_admin", "delete_tenant"}
AnyTenant == AccessTenants \cup {Blank}

\* RbacPolicyConfig::default()
RolePermissions ==
    [reader |-> {"query"}, writer |-> {"query", "ingest"},
     tenant_admin |-> {"query", "ingest", "delete_tenant"}, admin |-> AccessOperations]
CrossTenantRoles == {"admin"}

\* authorize() of AllowAllPolicy and of RbacPolicy.
Authorized(rules, context, operation, target) ==
    /\ Blank \notin {context.tenant, target}
    /\ rules = "rbac" => \E role \in context.roles \cap DOMAIN RolePermissions :
                              operation \in RolePermissions[role]
    /\ context.tenant # target => context.roles \cap CrossTenantRoles # {}

\* authorize_request(): headers are needed once any security is configured, a role only with a policy.
Admitted(rules, context, operation) ==
    \/ rules = "off"
    \/ /\ context # Anonymous
       /\ rules = "rbac" => Authorized(rules, context, operation, context.tenant)

-----------------------------------------------------------------------------
AtRest(c) == caller[c].phase = "idle"
Resting == [phase |-> "idle", n |-> 0, event |-> << >>, answer |-> "none"]

Event(n, context, operation, allowed, count) ==
    [n |-> n, actor |-> context.actor, tenant |-> context.tenant, operation |-> operation,
     allowed |-> allowed, count |-> count]

\* What a call asks: subject is the tenant it is about, or its tenant filter; kept the
\* metadata's own tenant of an ingested chunk; sealed for ingest_chunks_with_encryption().
Asks(door) ==
    LET Ask(operation, subjects, ids, sealings) ==
          [operation : {operation}, subject : subjects, id : ids, sealed : sealings]
        none == {0}
    IN IF door = "application"
       THEN Ask("ingest", AnyTenant, AccessIds, BOOLEAN) \cup Ask("query", AnyTenant, none, {FALSE})
            \cup Ask("delete_tenant", AnyTenant, none, {FALSE})
       ELSE Ask("query", AnyTenant, none, {FALSE}) \cup Ask("sql_admin", AnyTenant, none, {FALSE})

Target(context, ask) == IF ask.operation = "delete_tenant" THEN ask.subject ELSE context.tenant

\* A query that filters on another tenant than its context's is refused, and told.
Mismatched(context, ask) == ask.operation = "query" /\ ask.subject \notin {Blank, context.tenant}

CallMade(context, ask, told, ended) ==
    [context |-> context, ask |-> ask, told |-> told, ended |-> ended,
     gone |-> 0]

\* A SecureSqlRite call up to its work on the table: a refusal of the policy is told to nobody.
BeginApplicationCall(c) ==
    LET n == Len(calls) + 1  rules == deployment[c].rules IN
    /\ AtRest(c) /\ deployment[c].door = "application" /\ n <= MaxCalls
    /\ \E context \in Contexts, ask \in Asks("application") :
         \/ /\ ~Authorized(rules, context, ask.operation, Target(context, ask))
            /\ calls' = Append(calls, CallMade(context, ask, FALSE, "error"))
            /\ UNCHANGED caller
         \/ /\ Authorized(rules, context, ask.operation, Target(context, ask))
            /\ calls' = Append(calls, CallMade(context, ask, ~ask.sealed, "open"))
            /\ caller' = [caller EXCEPT ![c] =
                 IF Mismatched(context, ask)
                 THEN [phase |-> "telling", n |-> n, answer |-> "error",
                       event |-> Event(n, context, ask.operation, FALSE, 0)]
                 ELSE [Resting EXCEPT !.phase = "working", !.n = n]]
    /\ UNCHANGED <<accessRows, trail, deployment, undisturbed>>

\* execute_sql_api_statement(), execute_query_api(), execute_rerank_hook_api(): refusals are told.
BeginServerCall(c) ==
    LET n == Len(calls) + 1  rules == deployment[c].rules IN
    /\ AtRest(c) /\ deployment[c].door = "server" /\ n <= MaxCalls
    /\ \E context \in Contexts \cup {Anonymous}, ask \in Asks("server") :
         LET refused == \/ ~Admitted(rules, context, ask.operation)
                        \/ rules # "off" /\ Mismatched(context, ask)
         IN /\ calls' = Append(calls, CallMade(context, ask, rules # "off", "open"))
            /\ caller' = [caller EXCEPT ![c] =
                 IF refused
                 THEN [phase |-> "telling", n |-> n, answer |-> "error",
                       event |-> Event(n, context, ask.operation, FALSE, 0)]
                 ELSE [Resting EXCEPT !.phase = "working", !.n = n]]
    /\ UNCHANGED <<accessRows, trail, deployment, undisturbed>>

-----------------------------------------------------------------------------
\* Faulty variant of MergedTenant: a tenant the chunk brings along is kept.
MergedUnlessGiven(context, ask) == IF ask.subject = Blank THEN context.tenant ELSE ask.subject

\* merge_tenant_metadata(): the context's tenant replaces whatever the metadata said.
MergedTenant(context, ask) == context.tenant

\* The table after the call's own statement, which commits as one.
Worked(n) ==
    LET context == calls[n].context  ask == calls[n].ask IN
    CASE ask.operation = "ingest" ->
           {r \in accessRows : r.id # ask.id}
             \cup {[id |-> ask.id, tenant |-> MergedTenant(context, ask), by |-> n]}
      [] ask.operation \in {"delete_tenant", "sql_admin"} ->
           {r \in accessRows : r.tenant # ask.subject}
      [] OTHER -> accessRows

\* chunk_count of an ingest, deleted of a removal; a failed call is told with a count of 0.
Counted(n, ok) ==
    IF ~ok THEN 0
    ELSE CASE calls[n].ask.operation = "ingest" -> 1
           [] calls[n].ask.operation = "delete_tenant" ->
                Cardinality({r \in accessRows : r.tenant = calls[n].ask.subject})
           [] OTHER -> 0

\* Only success is told by a server; a SecureSqlRite tells both, of a sealed ingest neither.
Tells(c, n, ok) == calls[n].told /\ (deployment[c].door = "server" => ok)

\* The statement commits or not; after it the indexes and their files may still fail the call.
Work(c) ==
    LET n == caller[c].n IN
    /\ caller[c].phase = "working"
    /\ \E committed, ok \in BOOLEAN :
         LET after == IF committed THEN Worked(n) ELSE accessRows
         IN /\ ok => committed
            /\ accessRows' = after
            /\ calls' = [calls EXCEPT ![n].gone = Cardinality(accessRows \ after),
                           ![n].ended = IF Tells(c, n, ok) THEN "open" ELSE IF ok THEN "ok" ELSE "error"]
            /\ caller' = [caller EXCEPT ![c] =
                 IF Tells(c, n, ok)
                 THEN [phase |-> "telling", n |-> n, answer |-> IF ok THEN "ok" ELSE "error",
                       event |-> Event(n, calls[n].context, calls[n].ask.operation, ok, Counted(n, ok))]
                 ELSE Resting]
    /\ UNCHANGED <<trail, deployment, undisturbed>>

-----------------------------------------------------------------------------
\* JsonlAuditLogger::log(): its mutex is of one logger, and a server makes one per request.
Piece(kind, event) == [kind |-> kind, event |-> event]
LineEnd == Piece("end", << >>)

WriteText(c) ==
    /\ caller[c].phase = "telling"
    /\ trail' = Append(trail, Piece("text", caller[c].event))
    /\ caller' = [caller EXCEPT ![c].phase = "ending"]
    /\ undisturbed' = (undisturbed /\ \A d \in Caller : caller[d].phase # "ending")
    /\ UNCHANGED <<accessRows, deployment, calls>>

WriteLineEnd(c) ==
    /\ caller[c].phase = "ending"
    /\ trail' = Append(trail, LineEnd)
    /\ calls' = [calls EXCEPT ![caller[c].n].ended = caller[c].answer]
    /\ caller' = [caller EXCEPT ![c] = Resting]
    /\ UNCHANGED <<accessRows, deployment, undisturbed>>

\* The write that comes next is cut short; a text may be there in part.
CutShort(c) ==
    /\ caller[c].phase \in {"telling", "ending"}
    /\ trail' \in {trail} \cup (IF caller[c].phase = "telling" THEN {Append(trail, Piece("part", << >>))} ELSE {})
    /\ undisturbed' = (undisturbed /\ caller[c].phase = "telling" /\ trail' = trail)

\* Whatever the call has done to the table, it is answered with the error of the log.
WriteFails(c) ==
    /\ CutShort(c)
    /\ calls' = [calls EXCEPT ![caller[c].n].ended = "error"]
    /\ caller' = [caller EXCEPT ![c] = Resting]
    /\ UNCHANGED <<accessRows, deployment>>

KillCaller(c) ==
    /\ \/ CutShort(c)
       \/ caller[c].phase = "working" /\ UNCHANGED <<trail, undisturbed>>
    /\ calls' = [calls EXCEPT ![caller[c].n].ended = "killed"]
    /\ caller' = [caller EXCEPT ![c] = Resting]
    /\ UNCHANGED <<accessRows, deployment>>

-----------------------------------------------------------------------------
\* A line is what stands between two line ends; empty lines are passed over, and one line
\* that is not exactly one event fails the whole of read_audit_events().
WholeLines(file) ==
    /\ \A i \in DOMAIN file : file[i].kind # "part"
    /\ \A i \in 1..Len(file) - 1 : "end" \in {file[i].kind, file[i + 1].kind}

\* AuditQuery::matches(), for the tenant and the outcome; the other filters are of the same kind.
MatchesQuery(query, event) ==
    /\ query.tenant \in {Blank, event.tenant}
    /\ query.allowed => event.allowed

\* export_audit_events(), of the endpoint and of the command; limit 0 for none.
Matched(query) == {i \in DOMAIN trail : trail[i].kind = "text" /\ MatchesQuery(query, trail[i].event)}
Exportable(query) ==
    LET first == {i \in Matched(query) : RankIn(Matched(query), i) <= query.limit}
        lines == SelectAt(trail, IF query.limit = 0 THEN Matched(query) ELSE first)
    IN [i \in DOMAIN lines |-> lines[i].event]

AccessInit ==
    /\ accessRows = AccessRows
    /\ trail = << >>
    /\ deployment \in Deployments
    /\ caller = [c \in Caller |-> Resting]
    /\ calls = << >>
    /\ undisturbed = TRUE

AccessNext ==
    \E c \in Caller :
        \/ BeginApplicationCall(c) \/ BeginServerCall(c) \/ Work(c)
        \/ WriteText(c) \/ WriteLineEnd(c) \/ WriteFails(c) \/ KillCaller(c)

AccessSpec == AccessInit /\ [][AccessNext]_accessVars

-----------------------------------------------------------------------------
Succeeded(n) == n \in DOMAIN calls /\ calls[n].told /\ calls[n].ended = "ok"
ExportFor(tenant) == Exportable([tenant |-> tenant, allowed |-> TRUE, limit |-> 0])
Naming(tenant, n) == {i \in DOMAIN ExportFor(tenant) : ExportFor(tenant)[i].n = n}

(***************************************************************************)
(* However callers interleave, fail and are killed, the audit file can be  *)
(* read as long as no line was cut short or written into another; and then *)
(* an export for a tenant names, once, every call its callers were told    *)
(* has succeeded, with the number of rows a removal has taken away, the    *)
(* calls that wrote the tenant's present rows among them.                  *)
(***************************************************************************)
TrailAccounts ==
    /\ undisturbed => WholeLines(trail)
    /\ WholeLines(trail) =>
         /\ \A n \in DOMAIN calls : Succeeded(n) =>
              LET tenant == calls[n].context.tenant IN
              \E i \in DOMAIN ExportFor(tenant) :
                 /\ Naming(tenant, n) = {i}
                 /\ calls[n].ask.operation = "delete_tenant" => ExportFor(tenant)[i].count = calls[n].gone
         /\ \A row \in accessRows : Succeeded(row.by) => Naming(row.tenant, row.by) # {}
=============================================================================
