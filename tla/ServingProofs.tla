---------------------------- MODULE ServingProofs ----------------------------
(***************************************************************************)
(* The other parts that serve requests, for any number of sessions,        *)
(* statements, callers and records, and all parts side by side.  For the   *)
(* catalog of retrieval indexes the inductive invariant says that names    *)
(* are unique, so that a name's rows are counted by whether there is one,  *)
(* and what a session carries from its statement to its insert or delete.  *)
(* For the audited calls it says which line tells of the call that each    *)
(* caller is at, for the measures what the event table has to hold at      *)
(* every stage of a handler.  For the files of an approximate index it     *)
(* says which of them hold the table, as far as the times would have a     *)
(* load trust them, and what a handle has still to write.                  *)
(***************************************************************************)
EXTENDS Serving, SearchProofs

-----------------------------------------------------------------------------
(* The catalog of retrieval indexes.                                       *)

\* What the statements can mean.
Ddl == UNION {Creates(tokens) \cup Drops(tokens) : tokens \in DdlStatements}
Whats == {"created", "dropped", "skipped", "error"}
Report == [name : Identifiers, what : Whats]

CatalogTypes ==
    /\ session \in [Sessions -> {NoStatement} \cup [phase : {"count", "insert", "drop"}, ddl : Ddl]]
    /\ reports \in Seq(Report)

UniqueNames == \A r, s \in catalog : r.name = s.name => r = s

\* ReportsAddUp with the count of a name's rows taken apart.
Balance ==
    \A name \in Identifiers :
       Reported(name, "created") - Reported(name, "dropped") = IF Named(name) = {} THEN 0 ELSE 1

CatalogInv == CatalogTypes /\ UniqueNames /\ Balance
-----------------------------------------------------------------------------
\* Every statement that parses names an identifier.
LEMMA DdlNames == \A d \in Ddl : d.name \in Identifiers
<1>1. ASSUME NEW tokens \in DdlStatements, NEW d \in Creates(tokens)
      PROVE  d.name \in Identifiers
  BY <1>1 DEF Creates
<1>2. ASSUME NEW tokens \in DdlStatements, NEW d \in Drops(tokens)
      PROVE  d.name \in Identifiers
  BY <1>2 DEF Drops
<1> QED
  BY <1>1, <1>2 DEF Ddl

\* Among unique names a name has one row or none.
LEMMA OneRow ==
    ASSUME UniqueNames, NEW name
    PROVE  Cardinality(Named(name)) = IF Named(name) = {} THEN 0 ELSE 1
<1>1. CASE Named(name) = {}
  BY <1>1, FS_EmptySet
<1>2. CASE Named(name) # {}
  <2>1. PICK r : Named(name) = {r}
    BY <1>2 DEF Named, UniqueNames
  <2> QED
    BY <1>2, <2>1, FS_Singleton
<1> QED
  BY <1>1, <1>2

\* The replies of a kind about a name, in a sequence of replies.
Matching(s, name, what) == {i \in DOMAIN s : s[i].name = name /\ s[i].what = what}

LEMMA MatchingIsFinite ==
    ASSUME NEW s \in Seq(Report), NEW name, NEW what
    PROVE  IsFiniteSet(Matching(s, name, what)) /\ Cardinality(Matching(s, name, what)) \in Nat
<1>1. IsFiniteSet(1..Len(s))
  BY FS_Interval
<1>2. Matching(s, name, what) \in SUBSET (1..Len(s))
  BY DEF Matching
<1>3. IsFiniteSet(Matching(s, name, what))
  BY <1>1, <1>2, FS_Subset
<1> QED
  BY <1>3, FS_CardinalityType

\* One more reply raises one count by one.
LEMMA OneMoreReport ==
    ASSUME NEW s \in Seq(Report), NEW e \in Report, NEW name, NEW what
    PROVE  Cardinality(Matching(Append(s, e), name, what))
             = Cardinality(Matching(s, name, what))
                 + (IF e.name = name /\ e.what = what THEN 1 ELSE 0)
<1> DEFINE n == Len(s) + 1
           old == Matching(s, name, what)
           new == Matching(Append(s, e), name, what)
<1>1. /\ DOMAIN Append(s, e) = 1..n
      /\ Append(s, e)[n] = e
      /\ DOMAIN s = 1..Len(s)
      /\ n \in Nat /\ n \notin 1..Len(s)
      /\ 1..n = 1..Len(s) \cup {n}
      /\ \A i \in 1..Len(s) : Append(s, e)[i] = s[i]
  OBVIOUS
<1>2. n \notin old
  BY <1>1 DEF Matching
<1>3. CASE e.name = name /\ e.what = what
  <2>1. new = old \cup {n}
    BY <1>1, <1>3 DEF Matching
  <2>2. IsFiniteSet(old)
    BY MatchingIsFinite
  <2> HIDE DEF n, old, new
  <2>3. Cardinality(old \cup {n}) = IF n \in old THEN Cardinality(old) ELSE Cardinality(old) + 1
    BY <2>2, FS_AddElement, Zenon
  <2>4. Cardinality(new) = Cardinality(old) + 1
    BY <1>2, <2>1, <2>3
  <2> QED
    BY <1>3, <2>4 DEF old, new
<1>4. CASE ~(e.name = name /\ e.what = what)
  <2>1. new = old
    BY <1>1, <1>4 DEF Matching
  <2> QED
    BY <1>4, <2>1, MatchingIsFinite
<1> QED
  BY <1>3, <1>4
-----------------------------------------------------------------------------
\* A session in a phase other than idle carries its statement.
LEMMA Carried ==
    ASSUME CatalogTypes, NEW p \in Sessions, session[p].phase # "idle"
    PROVE  /\ session[p] \in [phase : {"count", "insert", "drop"}, ddl : Ddl]
           /\ session[p].ddl \in Ddl
           /\ session[p].ddl.name \in Identifiers
BY DdlNames DEF CatalogTypes, NoStatement

\* A reply that keeps the catalog and says neither created nor dropped.
LEMMA Answered ==
    ASSUME CatalogTypes, NEW p \in Sessions, session[p].phase # "idle",
           NEW what \in Whats, Replies(p, what)
    PROVE  /\ CatalogTypes'
           /\ \A name, w : Cardinality(Matching(reports', name, w))
                 = Cardinality(Matching(reports, name, w))
                     + (IF session[p].ddl.name = name /\ what = w THEN 1 ELSE 0)
<1> DEFINE e == [name |-> session[p].ddl.name, what |-> what]
<1>1. e \in Report
  BY Carried DEF Report
<1>2. reports' = Append(reports, e) /\ reports \in Seq(Report)
  BY DEF Replies, CatalogTypes
<1>3. reports' \in Seq(Report)
  BY <1>1, <1>2
<1>4. session' \in [Sessions -> {NoStatement} \cup [phase : {"count", "insert", "drop"}, ddl : Ddl]]
  BY DEF Replies, CatalogTypes, NoStatement
<1>5. \A name, w : Cardinality(Matching(reports', name, w))
         = Cardinality(Matching(reports, name, w))
             + (IF e.name = name /\ e.what = w THEN 1 ELSE 0)
  BY <1>1, <1>2, OneMoreReport
<1> QED
  BY <1>3, <1>4, <1>5 DEF CatalogTypes

\* Nothing to balance: the replies of a session whose statement left the catalog as it was.
LEMMA UnbalancingReply ==
    ASSUME CatalogInv, NEW p \in Sessions, session[p].phase # "idle",
           NEW what \in {"skipped", "error"}, Replies(p, what), UNCHANGED catalog
    PROVE  CatalogInv'
<1>1. CatalogTypes'
  BY Answered DEF CatalogInv, Whats
<1>2. UniqueNames'
  BY DEF CatalogInv, UniqueNames
<1>3. ASSUME NEW name \in Identifiers
      PROVE  /\ Reported(name, "created")' = Reported(name, "created")
             /\ Reported(name, "dropped")' = Reported(name, "dropped")
  <2>1. /\ reports \in Seq(Report)
        /\ Cardinality(Matching(reports, name, "created")) \in Nat
        /\ Cardinality(Matching(reports, name, "dropped")) \in Nat
    BY MatchingIsFinite DEF CatalogInv, CatalogTypes
  <2>2. \A w : Cardinality(Matching(reports', name, w))
            = Cardinality(Matching(reports, name, w))
                + (IF session[p].ddl.name = name /\ what = w THEN 1 ELSE 0)
    BY Answered DEF CatalogInv, Whats
  <2>3. \A w : /\ Reported(name, w) = Cardinality(Matching(reports, name, w))
               /\ Reported(name, w)' = Cardinality(Matching(reports', name, w))
    BY DEF Reported, Matching
  <2> QED
    BY <2>1, <2>2, <2>3
<1>4. Balance'
  BY <1>3 DEF CatalogInv, Balance, Named
<1> QED
  BY <1>1, <1>2, <1>4 DEF CatalogInv

LEMMA IssueKeeps ==
    ASSUME CatalogInv, NEW p \in Sessions, Issue(p)
    PROVE  CatalogInv'
<1>1. PICK d \in Ddl, phase \in {"drop", "count"} :
         session' = [session EXCEPT ![p] = [phase |-> phase, ddl |-> d]]
  <2>1. PICK tokens \in DdlStatements :
           \E d \in Creates(tokens) \cup Drops(tokens) :
              session' = [session EXCEPT ![p] =
                 [phase |-> IF d.op = "drop" THEN "drop" ELSE "count", ddl |-> d]]
    BY DEF Issue
  <2>2. PICK d \in Creates(tokens) \cup Drops(tokens) :
           session' = [session EXCEPT ![p] =
              [phase |-> IF d.op = "drop" THEN "drop" ELSE "count", ddl |-> d]]
    BY <2>1
  <2>3. d \in Ddl
    BY <2>2 DEF Ddl
  <2>4. CASE d.op = "drop"
    BY <2>2, <2>3, <2>4
  <2>5. CASE d.op # "drop"
    BY <2>2, <2>3, <2>5
  <2> QED
    BY <2>4, <2>5
<1>3. CatalogTypes'
  BY <1>1 DEF CatalogInv, CatalogTypes, Issue
<1>4. UniqueNames' /\ Balance'
  BY DEF CatalogInv, UniqueNames, Balance, Reported, Named, Issue
<1> QED
  BY <1>3, <1>4 DEF CatalogInv

LEMMA CountKeeps ==
    ASSUME CatalogInv, NEW p \in Sessions, CountNamed(p)
    PROVE  CatalogInv'
<1>1. session[p].phase = "count" /\ UNCHANGED catalog
  BY DEF CountNamed
<1>2. CASE session' = [session EXCEPT ![p].phase = "insert"] /\ UNCHANGED reports
  <2>1. session[p] \in [phase : {"count", "insert", "drop"}, ddl : Ddl]
    BY <1>1, Carried DEF CatalogInv
  <2>2. [session[p] EXCEPT !.phase = "insert"] \in [phase : {"count", "insert", "drop"}, ddl : Ddl]
    BY <2>1
  <2>3. CatalogTypes'
    BY <1>2, <2>2 DEF CatalogInv, CatalogTypes
  <2> QED
    BY <1>1, <1>2, <2>3 DEF CatalogInv, UniqueNames, Balance, Reported, Named
<1>3. ASSUME NEW what \in {"skipped", "error"}, Replies(p, what)
      PROVE  CatalogInv'
  BY <1>1, <1>3, UnbalancingReply
<1> QED
  BY <1>2, <1>3 DEF CountNamed

\* The counts of a name after a reply that says created or dropped of one name.
LEMMA BalancingReply ==
    ASSUME CatalogInv, NEW p \in Sessions, session[p].phase # "idle",
           NEW what \in {"created", "dropped"}, Replies(p, what)
    PROVE  /\ CatalogTypes'
           /\ \A name \in Identifiers :
                Reported(name, "created")' - Reported(name, "dropped")'
                  = Reported(name, "created") - Reported(name, "dropped")
                      + (IF session[p].ddl.name # name THEN 0 ELSE IF what = "created" THEN 1 ELSE -1)
<1>1. CatalogTypes'
  BY Answered DEF CatalogInv, Whats
<1>2. ASSUME NEW name \in Identifiers
      PROVE  Reported(name, "created")' - Reported(name, "dropped")'
               = Reported(name, "created") - Reported(name, "dropped")
                   + (IF session[p].ddl.name # name THEN 0 ELSE IF what = "created" THEN 1 ELSE -1)
  <2>1. /\ Cardinality(Matching(reports, name, "created")) \in Nat
        /\ Cardinality(Matching(reports, name, "dropped")) \in Nat
    BY MatchingIsFinite DEF CatalogInv, CatalogTypes
  <2>2. \A w : Cardinality(Matching(reports', name, w))
            = Cardinality(Matching(reports, name, w))
                + (IF session[p].ddl.name = name /\ what = w THEN 1 ELSE 0)
    BY Answered DEF CatalogInv, Whats
  <2>3. \A w : /\ Reported(name, w) = Cardinality(Matching(reports, name, w))
               /\ Reported(name, w)' = Cardinality(Matching(reports', name, w))
    BY DEF Reported, Matching
  <2> QED
    BY <2>1, <2>2, <2>3
<1> QED
  BY <1>1, <1>2

LEMMA InsertKeeps ==
    ASSUME CatalogInv, NEW p \in Sessions, InsertRow(p)
    PROVE  CatalogInv'
<1> DEFINE ddl == session[p].ddl
           row == [name |-> ddl.name, kind |-> ddl.kind, target |-> ddl.target,
                   options |-> ddl.options]
<1>1. CASE ~Insertable(ddl.name)
  BY <1>1, UnbalancingReply DEF InsertRow
<1>2. CASE Insertable(ddl.name)
  <2>1. /\ Named(ddl.name) = {}
        /\ catalog' = catalog \cup {row}
        /\ Replies(p, "created")
        /\ session[p].phase # "idle"
    BY <1>2 DEF InsertRow, Insertable
  <2>2. UniqueNames'
    BY <2>1 DEF CatalogInv, UniqueNames, Named
  <2> PICK nm : nm = ddl.name
    OBVIOUS
  <2>3. /\ Named(nm) = {}
        /\ \A name : (name # nm => Named(name)' = Named(name)) /\ (name = nm => Named(name)' # {})
    <3>1. row \in catalog' /\ row.name = nm
      BY <2>1
    <3>2. \A r : r \in catalog' <=> r \in catalog \/ r = row
      BY <2>1
    <3> HIDE DEF row
    <3>3. ASSUME NEW name, name # nm
          PROVE  Named(name)' = Named(name)
      BY <3>1, <3>2, <3>3 DEF Named
    <3>4. row \in Named(nm)'
      BY <3>1 DEF Named
    <3> QED
      BY <2>1, <3>3, <3>4
  <2>4. ddl.name \in Identifiers
    BY <2>1, Carried DEF CatalogInv
  <2>5. /\ CatalogTypes'
        /\ \A name \in Identifiers :
              Reported(name, "created")' - Reported(name, "dropped")'
                = Reported(name, "created") - Reported(name, "dropped")
                    + (IF nm # name THEN 0 ELSE 1)
    BY <2>1, BalancingReply
  <2>6. Balance'
    BY <2>3, <2>5 DEF CatalogInv, Balance
  <2> QED
    BY <2>2, <2>5, <2>6 DEF CatalogInv
<1> QED
  BY <1>1, <1>2

LEMMA DropKeeps ==
    ASSUME CatalogInv, NEW p \in Sessions, DropRow(p)
    PROVE  CatalogInv'
<1> DEFINE ddl == session[p].ddl
           gone == {row \in Named(ddl.name) : row.kind = ddl.kind}
<1>1. session[p].phase # "idle" /\ catalog' = catalog \ gone
  BY DEF DropRow
<1>2. CASE gone = {}
  BY <1>1, <1>2, UnbalancingReply DEF DropRow
<1>3. CASE gone # {}
  <2>1. Replies(p, "dropped")
    BY <1>3 DEF DropRow
  <2>2. Named(ddl.name) # {} /\ gone = Named(ddl.name)
    BY <1>3 DEF CatalogInv, UniqueNames, Named
  <2>3. UniqueNames'
    BY <1>1 DEF CatalogInv, UniqueNames
  <2> PICK nm : nm = ddl.name
    OBVIOUS
  <2>4. /\ Named(nm) # {}
        /\ \A name : Named(name)' = IF name = nm THEN {} ELSE Named(name)
    BY <1>1, <2>2 DEF Named
  <2>5. /\ CatalogTypes'
        /\ \A name \in Identifiers :
              Reported(name, "created")' - Reported(name, "dropped")'
                = Reported(name, "created") - Reported(name, "dropped")
                    + (IF nm # name THEN 0 ELSE -1)
    BY <1>1, <2>1, BalancingReply
  <2>6. Balance'
    BY <2>4, <2>5 DEF CatalogInv, Balance
  <2> QED
    BY <2>3, <2>5, <2>6 DEF CatalogInv
<1> QED
  BY <1>2, <1>3
-----------------------------------------------------------------------------
(***************************************************************************)
(* The inductive invariant: what sessions carry is well-formed, names are  *)
(* unique, and the replies balance with the names that are there.          *)
(***************************************************************************)
THEOREM CatalogInvariant == CatalogSpec => []CatalogInv
<1>1. CatalogInit => CatalogInv
  <2> SUFFICES ASSUME CatalogInit PROVE CatalogInv
    OBVIOUS
  <2>1. CatalogTypes /\ UniqueNames
    BY DEF CatalogInit, CatalogTypes, UniqueNames
  <2>2. \A name, what : Reported(name, what) = 0
    <3>1. \A name, what :
             {i \in DOMAIN reports : reports[i].name = name /\ reports[i].what = what} = {}
      BY DEF CatalogInit
    <3> QED
      BY <3>1, FS_EmptySet DEF Reported
  <2>3. Balance
    BY <2>2 DEF CatalogInit, Balance, Named
  <2> QED
    BY <2>1, <2>3 DEF CatalogInv
<1>2. CatalogInv /\ [CatalogNext]_catalogVars => CatalogInv'
  <2> SUFFICES ASSUME CatalogInv, [CatalogNext]_catalogVars PROVE CatalogInv'
    OBVIOUS
  <2>1. CASE CatalogNext
    BY <2>1, IssueKeeps, CountKeeps, InsertKeeps, DropKeeps DEF CatalogNext
  <2>2. CASE UNCHANGED catalogVars
    BY <2>2 DEF catalogVars, CatalogInv, CatalogTypes, UniqueNames, Balance, Reported, Named
  <2> QED
    BY <2>1, <2>2
<1> QED
  BY <1>1, <1>2, PTL DEF CatalogSpec

(***************************************************************************)
(* Whatever sessions create and drop at the same time, the replies they    *)
(* give add up to what the catalog holds.                                  *)
(***************************************************************************)
THEOREM RepliesAddUp == CatalogSpec => []ReportsAddUp
<1>1. CatalogInv => ReportsAddUp
  BY OneRow DEF CatalogInv, Balance, ReportsAddUp
<1> QED
  BY <1>1, CatalogInvariant, PTL

-----------------------------------------------------------------------------
(* Calls and their audit file.                                             *)

\* The lines that name a call.
LinesOn(file, n) == {i \in DOMAIN file : file[i].kind = "text" /\ file[i].event.n = n}

\* The one line about a call says so.
ToldBy(file, n, event) == \E i \in DOMAIN file : LinesOn(file, n) = {i} /\ file[i].event = event

\* What an export for the tenant, of successes, needs an event to say of a call.
Vouches(event, call) ==
    /\ event.allowed /\ event.tenant = call.context.tenant
    /\ call.ask.operation = "delete_tenant" => event.count = call.gone

AccessTypes ==
    /\ IsList(trail) /\ IsList(calls) /\ DOMAIN caller = Caller
    /\ \A c \in Caller : /\ DOMAIN caller[c] = {"phase", "n", "event", "answer"}
                         /\ caller[c].phase \in {"idle", "working", "telling", "ending"}
    /\ \A n \in DOMAIN calls : DOMAIN calls[n] = {"context", "ask", "told", "ended", "gone"}

\* A caller and the call it is at.
AtWork(state, file, all) ==
    /\ state.n \in DOMAIN all /\ all[state.n].ended = "open"
    /\ state.phase # "ending" => LinesOn(file, state.n) = {}
    /\ state.phase = "ending" => ToldBy(file, state.n, state.event)
    /\ state.phase # "working" =>
          state.event.n = state.n /\ (state.answer = "ok" => Vouches(state.event, all[state.n]))

CallersAtWork ==
    /\ \A c \in Caller : caller[c].phase # "idle" => AtWork(caller[c], trail, calls)
    /\ \A c, d \in Caller :
          caller[c].phase # "idle" /\ caller[d].phase # "idle" /\ caller[c].n = caller[d].n => c = d

\* The file tells of the call, once, what an export needs.
Accounted(file, n, call) == \E i \in DOMAIN file : LinesOn(file, n) = {i} /\ Vouches(file[i].event, call)

SuccessesAccounted ==
    /\ \A n \in DOMAIN calls : Succeeded(n) => Accounted(trail, n, calls[n])
    /\ \A n \in Nat : n \notin DOMAIN calls => LinesOn(trail, n) = {}

RowsOwned ==
    \A row \in accessRows :
       /\ row.by = 0 \/ row.by \in DOMAIN calls
       /\ row.by \in DOMAIN calls => row.tenant = calls[row.by].context.tenant

Ended(file) == file = << >> \/ file[Len(file)].kind = "end"
LinesWhole ==
    undisturbed =>
       /\ WholeLines(trail)
       /\ (\A c \in Caller : caller[c].phase # "ending") => Ended(trail)

AccessInv == AccessTypes /\ CallersAtWork /\ SuccessesAccounted /\ RowsOwned /\ LinesWhole

\* A piece that is no text about a call leaves what is told of it.
LEMMA ToldStill ==
    ASSUME NEW file, IsList(file), NEW piece, NEW n, ~(piece.kind = "text" /\ piece.event.n = n)
    PROVE  /\ LinesOn(Append(file, piece), n) = LinesOn(file, n)
           /\ \A event : ToldBy(file, n, event) => ToldBy(Append(file, piece), n, event)
           /\ \A call : Accounted(file, n, call) => Accounted(Append(file, piece), n, call)
<1> DEFINE longer == Append(file, piece)
<1>0. /\ DOMAIN longer = DOMAIN file \cup {Len(file) + 1} /\ longer[Len(file) + 1] = piece
      /\ Len(file) + 1 \notin DOMAIN file
      /\ \A i \in DOMAIN file : longer[i] = file[i]
    BY AppendedList
<1> HIDE DEF longer
<1>1. LinesOn(longer, n) = LinesOn(file, n)
    BY <1>0 DEF LinesOn
<1>2. ASSUME NEW event, ToldBy(file, n, event) PROVE ToldBy(longer, n, event)
    <2>1. PICK i \in DOMAIN file : LinesOn(file, n) = {i} /\ file[i].event = event
        BY <1>2 DEF ToldBy
    <2>2. i \in DOMAIN longer /\ longer[i].event = event
        BY <1>0, <2>1
    <2> QED BY <1>1, <2>1, <2>2 DEF ToldBy
<1>3. ASSUME NEW call, Accounted(file, n, call) PROVE Accounted(longer, n, call)
    <2>1. PICK i \in DOMAIN file : LinesOn(file, n) = {i} /\ Vouches(file[i].event, call)
        BY <1>3 DEF Accounted
    <2>2. i \in DOMAIN longer /\ Vouches(longer[i].event, call)
        BY <1>0, <2>1
    <2> QED BY <1>1, <2>1, <2>2 DEF Accounted
<1> QED BY <1>1, <1>2, <1>3 DEF longer

\* The first text about a call is the one that tells of it.
LEMMA ToldNow ==
    ASSUME NEW file, IsList(file), NEW piece, piece.kind = "text", NEW n, piece.event.n = n,
           LinesOn(file, n) = {}
    PROVE  ToldBy(Append(file, piece), n, piece.event)
<1> DEFINE longer == Append(file, piece)
<1>0. /\ DOMAIN longer = DOMAIN file \cup {Len(file) + 1} /\ longer[Len(file) + 1] = piece
      /\ \A i \in DOMAIN file : longer[i] = file[i]
    BY AppendedList
<1> HIDE DEF longer
<1>1. LinesOn(longer, n) = {Len(file) + 1}
    BY <1>0 DEF LinesOn
<1>2. ToldBy(longer, n, piece.event)
    BY <1>0, <1>1 DEF ToldBy
<1> QED BY <1>2 DEF longer

\* A caller stays at its call while others write of theirs.
LEMMA StaysAtWork ==
    ASSUME NEW state, NEW file, NEW all, AtWork(state, file, all), NEW longer, NEW later,
           state.n \in DOMAIN later, later[state.n] = all[state.n],
           LinesOn(longer, state.n) = LinesOn(file, state.n),
           ToldBy(file, state.n, state.event) => ToldBy(longer, state.n, state.event)
    PROVE  AtWork(state, longer, later)
BY DEF AtWork

LEMMA VouchesAlike ==
    ASSUME NEW call, NEW other, call.context = other.context, call.ask = other.ask, call.gone = other.gone,
           NEW event
    PROVE  Vouches(event, call) <=> Vouches(event, other)
BY DEF Vouches

LEMMA ToldAccounts ==
    ASSUME NEW file, NEW n, NEW event, NEW call, ToldBy(file, n, event), Vouches(event, call)
    PROVE  Accounted(file, n, call)
BY DEF ToldBy, Accounted

-----------------------------------------------------------------------------
LEMMA AccessInvInit == AccessInit => AccessInv
<1> SUFFICES ASSUME AccessInit PROVE AccessInv
    OBVIOUS
<1> USE DEF AccessInit
<1>0. DOMAIN trail = {} /\ DOMAIN calls = {}
    OBVIOUS
<1>1. AccessTypes
    <2>1. trail \in Seq({}) /\ calls \in Seq({})
        OBVIOUS
    <2> QED BY <1>0, <2>1 DEF AccessTypes, IsList, Resting
<1>2. CallersAtWork
    BY DEF CallersAtWork, Resting
<1>3. SuccessesAccounted
    BY <1>0 DEF SuccessesAccounted, LinesOn
<1>4. RowsOwned
    BY <1>0, AccessAssumption DEF RowsOwned
<1>5. LinesWhole
    <2>1. 1..Len(trail) - 1 = {}
        OBVIOUS
    <2> QED BY <1>0, <2>1 DEF LinesWhole, WholeLines, Ended
<1> QED BY <1>1, <1>2, <1>3, <1>4, <1>5 DEF AccessInv

\* What a call that begins adds: the call itself and, unless it is over already, its caller at it.
StateFields == {"phase", "n", "event", "answer"}
CallFields == {"context", "ask", "told", "ended", "gone"}
JustBegun(state) ==
    /\ DOMAIN state = StateFields /\ state.n = Len(calls) + 1 /\ state.phase \in {"working", "telling"}
    /\ state.phase = "telling" => state.event.n = Len(calls) + 1 /\ state.answer = "error"
CallBegun(c, call) ==
    /\ DOMAIN call = CallFields /\ call.ended # "ok"
    /\ calls' = Append(calls, call)
    /\ \/ caller' = caller
       \/ /\ call.ended = "open"
          /\ \E state : JustBegun(state) /\ caller' = [caller EXCEPT ![c] = state]
    /\ UNCHANGED <<accessRows, trail, deployment, undisturbed>>

LEMMA BeginOpens ==
    ASSUME NEW c \in Caller, AtRest(c), BeginApplicationCall(c) \/ BeginServerCall(c)
    PROVE  \E call : CallBegun(c, call)
<1>1. \A context, ask, told, ended :
        LET call == CallMade(context, ask, told, ended)
        IN  DOMAIN call = CallFields /\ call.ended = ended
    BY DEF CallMade, CallFields
<1> DEFINE Working(n) == [Resting EXCEPT !.phase = "working", !.n = n]
           Telling(n, event) == [phase |-> "telling", n |-> n, answer |-> "error", event |-> event]
<1>2. JustBegun(Working(Len(calls) + 1))
    BY DEF JustBegun, StateFields, Resting
<1>3. \A context, operation : JustBegun(Telling(Len(calls) + 1, Event(Len(calls) + 1, context, operation, FALSE, 0)))
    BY DEF JustBegun, StateFields, Event
<1> HIDE DEF Working, Telling
<1>4. CASE BeginApplicationCall(c)
    <2>1. PICK context \in Contexts, ask \in Asks("application") :
            \/ /\ calls' = Append(calls, CallMade(context, ask, FALSE, "error"))
               /\ UNCHANGED caller
            \/ /\ calls' = Append(calls, CallMade(context, ask, ~ask.sealed, "open"))
               /\ caller' = [caller EXCEPT ![c] =
                     IF Mismatched(context, ask)
                     THEN Telling(Len(calls) + 1, Event(Len(calls) + 1, context, ask.operation, FALSE, 0))
                     ELSE Working(Len(calls) + 1)]
        BY <1>4 DEF BeginApplicationCall, Working, Telling
    <2>2. UNCHANGED <<accessRows, trail, deployment, undisturbed>>
        BY <1>4 DEF BeginApplicationCall
    <2>3. CASE calls' = Append(calls, CallMade(context, ask, FALSE, "error")) /\ UNCHANGED caller
        <3>1. PICK call : DOMAIN call = CallFields /\ call.ended = "error" /\ calls' = Append(calls, call)
            <4>1. /\ DOMAIN CallMade(context, ask, FALSE, "error") = CallFields
                  /\ CallMade(context, ask, FALSE, "error").ended = "error"
                BY DEF CallMade, CallFields
            <4> QED BY <2>3, <4>1
        <3>2. CallBegun(c, call)
            BY <2>2, <2>3, <3>1 DEF CallBegun
        <3> QED BY <3>2
    <2>4. CASE /\ calls' = Append(calls, CallMade(context, ask, ~ask.sealed, "open"))
               /\ caller' = [caller EXCEPT ![c] =
                     IF Mismatched(context, ask)
                     THEN Telling(Len(calls) + 1, Event(Len(calls) + 1, context, ask.operation, FALSE, 0))
                     ELSE Working(Len(calls) + 1)]
        <3>1. \E state : JustBegun(state) /\ caller' = [caller EXCEPT ![c] = state]
            BY <1>2, <1>3, <2>4
        <3>2. PICK call : DOMAIN call = CallFields /\ call.ended = "open" /\ calls' = Append(calls, call)
            BY <1>1, <2>4
        <3>3. CallBegun(c, call)
            BY <2>2, <3>1, <3>2 DEF CallBegun
        <3> QED BY <3>3
    <2> QED BY <2>1, <2>3, <2>4
<1>5. CASE BeginServerCall(c)
    <2>0. PICK context \in Contexts \cup {Anonymous}, ask \in Asks("server") :
         /\ calls' = Append(calls, CallMade(context, ask, deployment[c].rules # "off", "open"))
         /\ \/ caller' = [caller EXCEPT ![c] =
                  Telling(Len(calls) + 1, Event(Len(calls) + 1, context, ask.operation, FALSE, 0))]
            \/ caller' = [caller EXCEPT ![c] = Working(Len(calls) + 1)]
        BY <1>5 DEF BeginServerCall, Working, Telling
    <2>2. UNCHANGED <<accessRows, trail, deployment, undisturbed>>
        BY <1>5 DEF BeginServerCall
    <2>3. \E state : JustBegun(state) /\ caller' = [caller EXCEPT ![c] = state]
        BY <1>2, <1>3, <2>0
    <2>4. PICK call : DOMAIN call = CallFields /\ call.ended = "open" /\ calls' = Append(calls, call)
        BY <1>1, <2>0
    <2>5. CallBegun(c, call)
        BY <2>2, <2>3, <2>4 DEF CallBegun
    <2> QED BY <2>5
<1> QED BY <1>4, <1>5

LEMMA BeginKeepsInv ==
    ASSUME AccessInv, NEW c \in Caller, BeginApplicationCall(c) \/ BeginServerCall(c)
    PROVE  AccessInv'
<1> DEFINE new == Len(calls) + 1
<1>0. AtRest(c)
    BY DEF BeginApplicationCall, BeginServerCall
<1>1. PICK call : CallBegun(c, call)
    BY <1>0, BeginOpens
<1>2. /\ calls' = Append(calls, call) /\ DOMAIN call = CallFields /\ call.ended # "ok"
      /\ accessRows' = accessRows /\ trail' = trail /\ undisturbed' = undisturbed
    BY <1>1 DEF CallBegun
<1>3. IsList(calls) /\ IsList(trail) /\ DOMAIN caller = Caller
    BY DEF AccessInv, AccessTypes
<1>4. /\ IsList(calls') /\ DOMAIN calls' = DOMAIN calls \cup {new} /\ new \notin DOMAIN calls /\ new \in Nat
      /\ calls'[new] = call /\ \A n \in DOMAIN calls : calls'[n] = calls[n]
      /\ DOMAIN calls = 1..Len(calls) /\ Len(calls) \in Nat
    BY <1>2, <1>3, AppendedList
<1>41. 0 \notin DOMAIN calls'
    BY <1>4
<1> HIDE DEF new
<1>5. LinesOn(trail, new) = {}
    BY <1>4 DEF AccessInv, SuccessesAccounted
\* The caller is where it was, or at the new call.
<1>6. /\ DOMAIN caller' = Caller
      /\ \A d \in Caller : \/ caller'[d] = caller[d]
                           \/ d = c /\ call.ended = "open" /\ JustBegun(caller'[d])
    <2>1. CASE caller' = caller
        BY <1>3, <2>1
    <2>2. ASSUME NEW state, JustBegun(state), call.ended = "open", caller' = [caller EXCEPT ![c] = state]
          PROVE  /\ DOMAIN caller' = Caller
                 /\ \A d \in Caller : \/ caller'[d] = caller[d]
                                      \/ d = c /\ call.ended = "open" /\ JustBegun(caller'[d])
        BY <1>3, <2>2
    <2> QED BY <1>1, <2>1, <2>2 DEF CallBegun
<1>7. AccessTypes'
    <2>1. \A d \in Caller : /\ DOMAIN caller'[d] = StateFields
                            /\ caller'[d].phase \in {"idle", "working", "telling", "ending"}
        BY <1>6 DEF AccessInv, AccessTypes, JustBegun, StateFields
    <2>2. \A n \in DOMAIN calls' : DOMAIN calls'[n] = CallFields
        BY <1>2, <1>4 DEF AccessInv, AccessTypes, CallFields
    <2> QED BY <1>2, <1>3, <1>4, <1>6, <2>1, <2>2 DEF AccessTypes, StateFields, CallFields
<1>8. \A d \in Caller : caller[d].phase # "idle" => caller[d].n \in DOMAIN calls /\ AtWork(caller[d], trail, calls)
    BY DEF AccessInv, CallersAtWork, AtWork
<1>9. CallersAtWork'
    <2>1. ASSUME NEW d \in Caller, caller'[d].phase # "idle" PROVE AtWork(caller'[d], trail', calls')
        <3>1. CASE caller'[d] = caller[d]
            <4>1. AtWork(caller[d], trail, calls) /\ caller[d].n \in DOMAIN calls
                BY <1>8, <2>1, <3>1
            <4> QED BY <1>2, <1>4, <3>1, <4>1, StaysAtWork
        <3>2. CASE call.ended = "open" /\ JustBegun(caller'[d])
            BY <1>2, <1>4, <1>5, <3>2 DEF JustBegun, AtWork, new
        <3> QED BY <1>6, <3>1, <3>2
    <2>2. ASSUME NEW d \in Caller, NEW e \in Caller, caller'[d].phase # "idle", caller'[e].phase # "idle",
                 caller'[d].n = caller'[e].n
          PROVE  d = e
        <3>1. CASE caller'[d] = caller[d] /\ caller'[e] = caller[e]
            BY <2>2, <3>1 DEF AccessInv, CallersAtWork
        <3>2. CASE JustBegun(caller'[d]) /\ caller'[e] = caller[e]
            <4>1. caller'[d].n = new
                BY <3>2 DEF JustBegun, new
            <4> QED BY <1>4, <1>8, <2>2, <3>2, <4>1
        <3>3. CASE JustBegun(caller'[e]) /\ caller'[d] = caller[d]
            <4>1. caller'[e].n = new
                BY <3>3 DEF JustBegun, new
            <4> QED BY <1>4, <1>8, <2>2, <3>3, <4>1
        <3> QED BY <1>6, <3>1, <3>2, <3>3
    <2> QED BY <2>1, <2>2 DEF CallersAtWork
<1>10. SuccessesAccounted'
    <2>1. ASSUME NEW n \in DOMAIN calls', Succeeded(n)' PROVE Accounted(trail', n, calls'[n])
        <3>1. n \in DOMAIN calls /\ calls'[n] = calls[n]
            BY <1>2, <1>4, <2>1 DEF Succeeded
        <3>2. Succeeded(n)
            BY <2>1, <3>1 DEF Succeeded
        <3> QED BY <1>2, <3>1, <3>2 DEF AccessInv, SuccessesAccounted
    <2>2. \A n \in Nat : n \notin DOMAIN calls' => LinesOn(trail', n) = {}
        BY <1>2, <1>4 DEF AccessInv, SuccessesAccounted
    <2> QED BY <2>1, <2>2 DEF SuccessesAccounted
<1>11. RowsOwned'
    <2> SUFFICES ASSUME NEW row \in accessRows
                 PROVE  /\ row.by = 0 \/ row.by \in DOMAIN calls'
                        /\ row.by \in DOMAIN calls' => row.tenant = calls'[row.by].context.tenant
        BY <1>2 DEF RowsOwned
    <2>1. /\ row.by = 0 \/ row.by \in DOMAIN calls
          /\ row.by \in DOMAIN calls => row.tenant = calls[row.by].context.tenant
        BY DEF AccessInv, RowsOwned
    <2> QED BY <1>4, <1>41, <2>1
<1>12. LinesWhole'
    <2>1. ASSUME \A d \in Caller : caller'[d].phase # "ending" PROVE \A d \in Caller : caller[d].phase # "ending"
        <3> TAKE d \in Caller
        <3>1. CASE caller'[d] = caller[d]
            BY <2>1, <3>1
        <3>2. CASE d = c
            BY <1>0, <3>2 DEF AtRest
        <3> QED BY <1>6, <3>1, <3>2
    <2> QED BY <1>2, <2>1 DEF AccessInv, LinesWhole, WholeLines
<1> QED BY <1>7, <1>9, <1>10, <1>11, <1>12 DEF AccessInv

-----------------------------------------------------------------------------
\* What the file tells of a call, whatever it tells of others.
TellsAsBefore(m) ==
    /\ LinesOn(trail', m) = LinesOn(trail, m)
    /\ \A event : ToldBy(trail, m, event) => ToldBy(trail', m, event)
    /\ \A call : Accounted(trail, m, call) => Accounted(trail', m, call)

\* A caller's step at its call n: it moves in its own state, in its own call and its lines.
StepAt(c, n) ==
    /\ DOMAIN caller' = Caller /\ \A d \in Caller : d # c => caller'[d] = caller[d]
    /\ DOMAIN caller'[c] = StateFields /\ caller'[c].phase \in {"idle", "working", "telling", "ending"}
    /\ IsList(calls') /\ DOMAIN calls' = DOMAIN calls
    /\ \A m \in DOMAIN calls : m # n => calls'[m] = calls[m]
    /\ DOMAIN calls'[n] = CallFields /\ calls'[n].context = calls[n].context
    /\ IsList(trail') /\ \A m : m # n => TellsAsBefore(m)

LEMMA StepKeepsOthers ==
    ASSUME AccessInv, NEW c \in Caller, caller[c].phase # "idle", NEW n, n = caller[c].n, StepAt(c, n),
           caller'[c].phase # "idle" => caller'[c].n = n /\ AtWork(caller'[c], trail', calls'),
           Succeeded(n)' => Accounted(trail', n, calls'[n])
    PROVE  AccessTypes' /\ CallersAtWork' /\ SuccessesAccounted'
<1>0. AtWork(caller[c], trail, calls) /\ n \in DOMAIN calls
    BY DEF AccessInv, CallersAtWork, AtWork
<1>1. AccessTypes'
    <2>1. ASSUME NEW d \in Caller
          PROVE  DOMAIN caller'[d] = StateFields /\ caller'[d].phase \in {"idle", "working", "telling", "ending"}
        <3>1. CASE d = c
            BY <3>1 DEF StepAt
        <3>2. CASE d # c
            BY <3>2 DEF StepAt, AccessInv, AccessTypes, StateFields
        <3> QED BY <3>1, <3>2
    <2>2. ASSUME NEW m \in DOMAIN calls' PROVE DOMAIN calls'[m] = CallFields
        <3>1. CASE m = n
            BY <3>1 DEF StepAt
        <3>2. CASE m # n
            BY <3>2 DEF StepAt, AccessInv, AccessTypes, CallFields
        <3> QED BY <3>1, <3>2
    <2> QED BY <2>1, <2>2 DEF StepAt, AccessTypes, StateFields, CallFields
<1>2. CallersAtWork'
    <2>0. ASSUME NEW d \in Caller, d # c, caller'[d].phase # "idle"
          PROVE  /\ caller'[d] = caller[d] /\ AtWork(caller[d], trail, calls)
                 /\ caller[d].n # n /\ caller[d].n \in DOMAIN calls
        BY <2>0 DEF StepAt, AccessInv, CallersAtWork, AtWork
    <2>1. ASSUME NEW d \in Caller, caller'[d].phase # "idle" PROVE AtWork(caller'[d], trail', calls')
        <3>1. CASE d = c
            BY <2>1, <3>1
        <3>2. CASE d # c
            <4>1. /\ caller'[d] = caller[d] /\ AtWork(caller[d], trail, calls)
                  /\ caller[d].n # n /\ caller[d].n \in DOMAIN calls
                BY <2>0, <2>1, <3>2
            <4>2. caller[d].n \in DOMAIN calls' /\ calls'[caller[d].n] = calls[caller[d].n]
                BY <4>1 DEF StepAt
            <4>3. /\ LinesOn(trail', caller[d].n) = LinesOn(trail, caller[d].n)
                  /\ ToldBy(trail, caller[d].n, caller[d].event) => ToldBy(trail', caller[d].n, caller[d].event)
                BY <4>1 DEF StepAt, TellsAsBefore
            <4> QED BY <4>1, <4>2, <4>3, StaysAtWork
        <3> QED BY <3>1, <3>2
    <2>2. ASSUME NEW d \in Caller, NEW e \in Caller, caller'[d].phase # "idle", caller'[e].phase # "idle",
                 caller'[d].n = caller'[e].n
          PROVE  d = e
        <3>1. CASE d = c \/ e = c
            BY <2>0, <2>2, <3>1
        <3>2. CASE d # c /\ e # c
            BY <2>0, <2>2, <3>2 DEF AccessInv, CallersAtWork
        <3> QED BY <3>1, <3>2
    <2> QED BY <2>1, <2>2 DEF CallersAtWork
<1>3. SuccessesAccounted'
    <2>1. ASSUME NEW m \in DOMAIN calls', Succeeded(m)' PROVE Accounted(trail', m, calls'[m])
        <3>1. CASE m = n
            BY <2>1, <3>1
        <3>2. CASE m # n
            <4>1. m \in DOMAIN calls /\ calls'[m] = calls[m] /\ TellsAsBefore(m)
                BY <3>2 DEF StepAt
            <4>2. Succeeded(m)
                BY <2>1, <4>1 DEF Succeeded
            <4>3. Accounted(trail, m, calls[m])
                BY <4>1, <4>2 DEF AccessInv, SuccessesAccounted
            <4> QED BY <4>1, <4>3 DEF TellsAsBefore
        <3> QED BY <3>1, <3>2
    <2>2. ASSUME NEW m \in Nat, m \notin DOMAIN calls' PROVE LinesOn(trail', m) = {}
        BY <1>0, <2>2 DEF StepAt, TellsAsBefore, AccessInv, SuccessesAccounted
    <2> QED BY <2>1, <2>2 DEF SuccessesAccounted
<1> QED BY <1>1, <1>2, <1>3

LEMMA StepKeepsOwners ==
    ASSUME AccessInv, NEW c \in Caller, NEW n, StepAt(c, n), UNCHANGED accessRows
    PROVE  RowsOwned'
<1> SUFFICES ASSUME NEW row \in accessRows
             PROVE  /\ row.by = 0 \/ row.by \in DOMAIN calls'
                    /\ row.by \in DOMAIN calls' => row.tenant = calls'[row.by].context.tenant
    BY DEF RowsOwned
<1>1. /\ row.by = 0 \/ row.by \in DOMAIN calls
      /\ row.by \in DOMAIN calls => row.tenant = calls[row.by].context.tenant
    BY DEF AccessInv, RowsOwned
<1>2. \A m \in DOMAIN calls : calls'[m].context = calls[m].context
    BY DEF StepAt
<1> QED BY <1>1, <1>2 DEF StepAt

LEMMA AppendTells ==
    ASSUME IsList(trail), NEW piece, trail' = trail \/ trail' = Append(trail, piece),
           NEW m, ~(piece.kind = "text" /\ piece.event.n = m)
    PROVE  IsList(trail') /\ TellsAsBefore(m)
<1>1. CASE trail' = trail
    BY <1>1 DEF TellsAsBefore
<1>2. CASE trail' = Append(trail, piece)
    <2>1. IsList(Append(trail, piece))
        BY AppendedList
    <2>2. /\ LinesOn(Append(trail, piece), m) = LinesOn(trail, m)
          /\ \A event : ToldBy(trail, m, event) => ToldBy(Append(trail, piece), m, event)
          /\ \A call : Accounted(trail, m, call) => Accounted(Append(trail, piece), m, call)
        BY ToldStill
    <2> QED BY <1>2, <2>1, <2>2, Zenon DEF TellsAsBefore
<1> QED BY <1>1, <1>2

LEMMA CallEnds ==
    ASSUME IsList(calls), NEW n \in DOMAIN calls, DOMAIN calls[n] = CallFields, NEW how,
           calls' = [calls EXCEPT ![n].ended = how]
    PROVE  /\ IsList(calls') /\ DOMAIN calls' = DOMAIN calls
           /\ \A m \in DOMAIN calls : m # n => calls'[m] = calls[m]
           /\ DOMAIN calls'[n] = CallFields /\ calls'[n].ended = how /\ calls'[n].context = calls[n].context
           /\ calls'[n].ask = calls[n].ask /\ calls'[n].gone = calls[n].gone /\ calls'[n].told = calls[n].told
<1>1. PICK call : call = [calls[n] EXCEPT !.ended = how]
    OBVIOUS
<1>2. calls' = [calls EXCEPT ![n] = call]
    BY <1>1
<1>3. /\ DOMAIN call = CallFields /\ call.ended = how /\ call.context = calls[n].context
      /\ call.ask = calls[n].ask /\ call.gone = calls[n].gone /\ call.told = calls[n].told
    BY <1>1 DEF CallFields
<1>4. IsList(calls')
    <2>1. IsList([calls EXCEPT ![n] = call])
        BY ChangedList
    <2> QED BY <1>2, <2>1
<1>5. calls'[n] = call
    BY <1>2
<1> QED BY <1>2, <1>3, <1>4, <1>5

\* What holds of a caller that is not at rest, and of its call.
LEMMA AtItsCall ==
    ASSUME AccessInv, NEW c \in Caller, caller[c].phase # "idle"
    PROVE  /\ caller[c].n \in DOMAIN calls /\ DOMAIN calls[caller[c].n] = CallFields
           /\ calls[caller[c].n].ended = "open" /\ AtWork(caller[c], trail, calls)
           /\ DOMAIN caller[c] = StateFields /\ DOMAIN caller = Caller
           /\ IsList(calls) /\ IsList(trail)
BY DEF AccessInv, AccessTypes, CallersAtWork, AtWork, StateFields, CallFields

LEMMA StopKeepsInv ==
    ASSUME AccessInv, NEW c \in Caller, WriteFails(c) \/ KillCaller(c)
    PROVE  AccessInv'
<1>0. PICK n : n = caller[c].n
    OBVIOUS
<1>1. /\ caller[c].phase # "idle"
      /\ \E how \in {"error", "killed"} : calls' = [calls EXCEPT ![n].ended = how]
      /\ caller' = [caller EXCEPT ![c] = Resting]
      /\ trail' = trail \/ trail' = Append(trail, Piece("part", << >>))
      /\ UNCHANGED accessRows
    BY <1>0 DEF WriteFails, KillCaller, CutShort
<1>11. undisturbed' => undisturbed /\ trail' = trail /\ caller[c].phase # "ending"
    <2>1. CASE CutShort(c)
        <3>1. undisturbed' = (undisturbed /\ caller[c].phase = "telling" /\ trail' = trail)
            BY <2>1 DEF CutShort
        <3>2. "telling" # "ending"
            OBVIOUS
        <3> QED BY <3>1, <3>2, Zenon
    <2>2. CASE caller[c].phase = "working" /\ UNCHANGED <<trail, undisturbed>>
        BY <2>2
    <2> QED BY <2>1, <2>2 DEF WriteFails, KillCaller
<1>2. /\ n \in DOMAIN calls /\ DOMAIN calls[n] = CallFields /\ DOMAIN caller = Caller
      /\ IsList(calls) /\ IsList(trail)
    BY <1>0, <1>1, AtItsCall
<1>3. PICK how \in {"error", "killed"} : calls' = [calls EXCEPT ![n].ended = how]
    BY <1>1
<1>4. /\ IsList(calls') /\ DOMAIN calls' = DOMAIN calls
      /\ \A m \in DOMAIN calls : m # n => calls'[m] = calls[m]
      /\ DOMAIN calls'[n] = CallFields /\ calls'[n].ended = how /\ calls'[n].context = calls[n].context
    BY <1>2, <1>3, CallEnds
<1>5. IsList(trail') /\ \A m : TellsAsBefore(m)
    <2>1. Piece("part", << >>).kind # "text"
        BY DEF Piece
    <2> QED BY <1>1, <1>2, <2>1, AppendTells
<1>6. DOMAIN Resting = StateFields /\ Resting.phase = "idle"
    BY DEF Resting, StateFields
<1>61. /\ DOMAIN caller' = Caller /\ caller'[c] = Resting
       /\ \A d \in Caller : d # c => caller'[d] = caller[d]
    BY <1>1, <1>2
<1>7. StepAt(c, n)
    BY <1>4, <1>5, <1>6, <1>61 DEF StepAt
<1>8. AccessTypes' /\ CallersAtWork' /\ SuccessesAccounted'
    <2>1. ~Succeeded(n)'
        BY <1>4 DEF Succeeded
    <2>2. caller'[c].phase = "idle"
        BY <1>6, <1>61
    <2> QED BY <1>0, <1>1, <1>7, <2>1, <2>2, StepKeepsOthers
<1>9. RowsOwned'
    BY <1>1, <1>7, StepKeepsOwners
<1>10. LinesWhole'
    <2>1. ASSUME undisturbed' PROVE WholeLines(trail')
        BY <1>11, <2>1 DEF AccessInv, LinesWhole
    <2>2. ASSUME undisturbed', \A d \in Caller : caller'[d].phase # "ending" PROVE Ended(trail')
        <3>1. undisturbed /\ trail' = trail /\ \A d \in Caller : caller[d].phase # "ending"
            BY <1>11, <1>61, <2>2
        <3> QED BY <3>1 DEF AccessInv, LinesWhole
    <2> QED BY <2>1, <2>2 DEF LinesWhole
<1> QED BY <1>8, <1>9, <1>10 DEF AccessInv

LEMMA WriteLineEndKeepsInv ==
    ASSUME AccessInv, NEW c \in Caller, WriteLineEnd(c)
    PROVE  AccessInv'
<1>0. PICK n : n = caller[c].n
    OBVIOUS
<1>1. /\ caller[c].phase = "ending"
      /\ calls' = [calls EXCEPT ![n].ended = caller[c].answer]
      /\ caller' = [caller EXCEPT ![c] = Resting]
      /\ trail' = Append(trail, LineEnd)
      /\ UNCHANGED <<accessRows, undisturbed>>
    BY <1>0 DEF WriteLineEnd
<1>2. /\ n \in DOMAIN calls /\ DOMAIN calls[n] = CallFields /\ DOMAIN caller = Caller
      /\ IsList(calls) /\ IsList(trail) /\ AtWork(caller[c], trail, calls)
    BY <1>0, <1>1, AtItsCall
<1>4. /\ IsList(calls') /\ DOMAIN calls' = DOMAIN calls
      /\ \A m \in DOMAIN calls : m # n => calls'[m] = calls[m]
      /\ DOMAIN calls'[n] = CallFields /\ calls'[n].ended = caller[c].answer /\ calls'[n].context = calls[n].context
      /\ calls'[n].ask = calls[n].ask /\ calls'[n].gone = calls[n].gone
    BY <1>1, <1>2, CallEnds
<1>50. LineEnd.kind = "end"
    BY DEF LineEnd, Piece
<1>5. IsList(trail') /\ \A m : TellsAsBefore(m)
    BY <1>1, <1>2, <1>50, AppendTells
<1>6. DOMAIN Resting = StateFields /\ Resting.phase = "idle"
    BY DEF Resting, StateFields
<1>61. /\ DOMAIN caller' = Caller /\ caller'[c] = Resting
       /\ \A d \in Caller : d # c => caller'[d] = caller[d]
    BY <1>1, <1>2
<1>7. StepAt(c, n)
    BY <1>4, <1>5, <1>6, <1>61 DEF StepAt
<1>8. AccessTypes' /\ CallersAtWork' /\ SuccessesAccounted'
    <2>1. ASSUME Succeeded(n)' PROVE Accounted(trail', n, calls'[n])
        <3>1. caller[c].answer = "ok"
            BY <1>4, <2>1 DEF Succeeded
        <3>2. ToldBy(trail, n, caller[c].event) /\ Vouches(caller[c].event, calls[n])
            BY <1>0, <1>1, <1>2, <3>1 DEF AtWork
        <3>3. ToldBy(trail', n, caller[c].event)
            BY <1>5, <3>2 DEF TellsAsBefore
        <3>4. Vouches(caller[c].event, calls'[n])
            BY <1>4, <3>2, VouchesAlike
        <3> QED BY <3>3, <3>4, ToldAccounts
    <2>2. caller'[c].phase = "idle"
        BY <1>6, <1>61
    <2> QED BY <1>0, <1>1, <1>7, <2>1, <2>2, StepKeepsOthers
<1>9. RowsOwned'
    BY <1>1, <1>7, StepKeepsOwners
<1>10. LinesWhole'
    <2> SUFFICES ASSUME undisturbed PROVE WholeLines(trail') /\ Ended(trail')
        BY <1>1 DEF LinesWhole
    <2>1. WholeLines(trail)
        BY DEF AccessInv, LinesWhole
    <2>2. /\ Len(trail) \in Nat /\ DOMAIN trail = 1..Len(trail) /\ Len(trail') = Len(trail) + 1
          /\ DOMAIN trail' = DOMAIN trail \cup {Len(trail) + 1}
          /\ \A i \in DOMAIN trail : trail'[i] = trail[i]
          /\ trail'[Len(trail) + 1] = LineEnd
        BY <1>1, <1>2, AppendedList
    <2>3. \A i \in DOMAIN trail' : trail'[i].kind # "part"
        BY <1>50, <2>1, <2>2 DEF WholeLines
    <2>4. ASSUME NEW i \in 1..Len(trail') - 1 PROVE "end" \in {trail'[i].kind, trail'[i + 1].kind}
        <3>1. CASE i = Len(trail)
            <4>1. trail'[i + 1].kind = "end"
                BY <1>50, <2>2, <3>1
            <4> QED BY <4>1
        <3>2. CASE i \in 1..Len(trail) - 1
            <4>1. i \in DOMAIN trail /\ i + 1 \in DOMAIN trail
                BY <2>2, <3>2
            <4> QED BY <2>1, <2>2, <3>2, <4>1 DEF WholeLines
        <3>3. i = Len(trail) \/ i \in 1..Len(trail) - 1
            <4>1. Len(trail) \in Nat /\ Len(trail') = Len(trail) + 1
                BY <2>2
            <4>2. i \in 1..Len(trail)
                BY <4>1
            <4> QED BY <4>1, <4>2
        <3> QED BY <3>1, <3>2, <3>3
    <2> QED BY <1>50, <2>2, <2>3, <2>4 DEF WholeLines, Ended
<1> QED BY <1>8, <1>9, <1>10 DEF AccessInv

LEMMA WriteTextKeepsInv ==
    ASSUME AccessInv, NEW c \in Caller, WriteText(c)
    PROVE  AccessInv'
<1>0. PICK n : n = caller[c].n
    OBVIOUS
<1>00. PICK piece : piece = Piece("text", caller[c].event)
    OBVIOUS
<1>1. /\ caller[c].phase = "telling"
      /\ caller' = [caller EXCEPT ![c].phase = "ending"]
      /\ trail' = Append(trail, piece)
      /\ UNCHANGED <<accessRows, calls>>
    BY <1>0, <1>00 DEF WriteText
<1>11. undisturbed' => undisturbed /\ \A d \in Caller : caller[d].phase # "ending"
    BY Zenon DEF WriteText
<1>2. /\ n \in DOMAIN calls /\ DOMAIN calls[n] = CallFields /\ DOMAIN caller = Caller
      /\ IsList(calls) /\ IsList(trail) /\ AtWork(caller[c], trail, calls) /\ DOMAIN caller[c] = StateFields
      /\ calls[n].ended = "open"
    BY <1>0, <1>1, AtItsCall
<1>3. piece.kind = "text" /\ piece.event = caller[c].event /\ piece.event.n = n
    BY <1>0, <1>00, <1>1, <1>2 DEF AtWork, Piece
<1>4. IsList(trail')
    BY <1>1, <1>2, AppendedList
<1>5. \A m : m # n => TellsAsBefore(m)
    BY <1>1, <1>2, <1>3, AppendTells
<1>6. PICK state : state = [caller[c] EXCEPT !.phase = "ending"]
    OBVIOUS
<1>61. /\ DOMAIN state = StateFields /\ state.phase = "ending"
       /\ state.n = n /\ state.event = caller[c].event /\ state.answer = caller[c].answer
    BY <1>0, <1>2, <1>6 DEF StateFields
<1>62. /\ DOMAIN caller' = Caller /\ caller'[c] = state
       /\ \A d \in Caller : d # c => caller'[d] = caller[d]
    BY <1>1, <1>2, <1>6
<1>7. StepAt(c, n)
    BY <1>1, <1>2, <1>4, <1>5, <1>61, <1>62 DEF StepAt
<1>71. AtWork(state, trail', calls')
    <2>1. LinesOn(trail, n) = {}
        BY <1>0, <1>1, <1>2 DEF AtWork
    <2>2. ToldBy(Append(trail, piece), n, piece.event)
        BY <1>2, <1>3, <2>1, ToldNow
    <2>3. caller[c].event.n = n /\ (caller[c].answer = "ok" => Vouches(caller[c].event, calls[n]))
        BY <1>0, <1>1, <1>2 DEF AtWork
    <2>4. ToldBy(trail', state.n, state.event)
        BY <1>1, <1>3, <1>61, <2>2
    <2> QED BY <1>1, <1>2, <1>61, <2>3, <2>4 DEF AtWork
<1>8. AccessTypes' /\ CallersAtWork' /\ SuccessesAccounted'
    <2>1. ~Succeeded(n)'
        BY <1>1, <1>2 DEF Succeeded
    <2> QED BY <1>0, <1>1, <1>7, <1>61, <1>62, <1>71, <2>1, StepKeepsOthers
<1>9. RowsOwned'
    BY <1>1, <1>7, StepKeepsOwners
<1>10. LinesWhole'
    <2>0. caller'[c].phase = "ending"
        BY <1>61, <1>62
    <2> SUFFICES ASSUME undisturbed' PROVE WholeLines(trail')
        BY <2>0 DEF LinesWhole
    <2>1. WholeLines(trail) /\ (trail = << >> \/ trail[Len(trail)].kind = "end")
        BY <1>11 DEF AccessInv, LinesWhole, Ended
    <2>2. /\ Len(trail) \in Nat /\ DOMAIN trail = 1..Len(trail) /\ Len(trail') = Len(trail) + 1
          /\ DOMAIN trail' = DOMAIN trail \cup {Len(trail) + 1}
          /\ \A i \in DOMAIN trail : trail'[i] = trail[i]
          /\ trail'[Len(trail) + 1] = piece
        BY <1>1, <1>2, AppendedList
    <2>3. \A i \in DOMAIN trail' : trail'[i].kind # "part"
        BY <1>3, <2>1, <2>2 DEF WholeLines
    <2>4. ASSUME NEW i \in 1..Len(trail') - 1 PROVE "end" \in {trail'[i].kind, trail'[i + 1].kind}
        <3>1. CASE i = Len(trail)
            <4>1. trail # << >> /\ i \in DOMAIN trail
                BY <2>2, <3>1
            <4>2. trail'[i].kind = "end"
                BY <2>1, <2>2, <3>1, <4>1
            <4> QED BY <4>2
        <3>2. CASE i \in 1..Len(trail) - 1
            <4>1. i \in DOMAIN trail /\ i + 1 \in DOMAIN trail
                BY <2>2, <3>2
            <4> QED BY <2>1, <2>2, <3>2, <4>1 DEF WholeLines
        <3>3. i = Len(trail) \/ i \in 1..Len(trail) - 1
            <4>1. Len(trail) \in Nat /\ Len(trail') = Len(trail) + 1
                BY <2>2
            <4>2. i \in 1..Len(trail)
                BY <4>1
            <4> QED BY <4>1, <4>2
        <3> QED BY <3>1, <3>2, <3>3
    <2> QED BY <2>3, <2>4 DEF WholeLines
<1> QED BY <1>8, <1>9, <1>10 DEF AccessInv

-----------------------------------------------------------------------------
\* What a call's work leaves to tell: of a success, how many rows are gone.
WorkDoes(c, n, gone, ended, state) ==
    /\ calls' = [calls EXCEPT ![n].gone = gone, ![n].ended = ended]
    /\ caller' = [caller EXCEPT ![c] = state] /\ DOMAIN state = StateFields
    /\ \/ /\ state.phase = "telling" /\ ended = "open" /\ state.n = n /\ state.event.n = n
          /\ state.answer = "ok" =>
                /\ state.event.allowed /\ state.event.tenant = calls[n].context.tenant
                /\ calls[n].ask.operation = "delete_tenant" => state.event.count = gone
       \/ state.phase = "idle" /\ (ended = "ok" => ~calls[n].told)

LEMMA WorkDone ==
    ASSUME AccessInv, NEW c \in Caller, Work(c), NEW n, n = caller[c].n
    PROVE  \E gone, ended, state : WorkDoes(c, n, gone, ended, state)
<1> DEFINE TableAfter(committed) == IF committed THEN Worked(n) ELSE accessRows
           Told(reply, ok) == [phase |-> "telling", n |-> n, answer |-> reply,
                event |-> Event(n, calls[n].context, calls[n].ask.operation, ok, Counted(n, ok))]
<1>1. PICK committed \in BOOLEAN, ok \in BOOLEAN :
        /\ ok => committed
        /\ calls' = [calls EXCEPT ![n].gone = Cardinality(accessRows \ TableAfter(committed)),
                       ![n].ended = IF Tells(c, n, ok) THEN "open" ELSE IF ok THEN "ok" ELSE "error"]
        /\ caller' = [caller EXCEPT ![c] =
             IF Tells(c, n, ok) THEN Told(IF ok THEN "ok" ELSE "error", ok) ELSE Resting]
    BY DEF Work
<1>2. \A reply : /\ DOMAIN Told(reply, ok) = StateFields /\ Told(reply, ok).phase = "telling"
                  /\ Told(reply, ok).n = n /\ Told(reply, ok).event.n = n /\ Told(reply, ok).answer = reply
                  /\ Told(reply, ok).event.allowed = ok
                  /\ Told(reply, ok).event.tenant = calls[n].context.tenant
                  /\ Told(reply, ok).event.count = Counted(n, ok)
    BY DEF Event, StateFields
<1>3. ASSUME ok, calls[n].ask.operation = "delete_tenant"
      PROVE  Counted(n, ok) = Cardinality(accessRows \ TableAfter(committed))
    <2>1. Worked(n) = {r \in accessRows : r.tenant # calls[n].ask.subject}
        BY <1>3 DEF Worked
    <2>2. accessRows \ TableAfter(committed) = {r \in accessRows : r.tenant = calls[n].ask.subject}
        BY <1>1, <1>3, <2>1
    <2> QED BY <1>3, <2>2 DEF Counted
<1> HIDE DEF Told, TableAfter
<1>4. CASE Tells(c, n, ok)
    <2>1. PICK state : state = Told(IF ok THEN "ok" ELSE "error", ok)
        OBVIOUS
    <2>2. state.answer = "ok" => ok
        BY <1>2, <2>1
    <2>3. calls' = [calls EXCEPT ![n].gone = Cardinality(accessRows \ TableAfter(committed)), ![n].ended = "open"]
        BY <1>1, <1>4
    <2>4. caller' = [caller EXCEPT ![c] = state]
        BY <1>1, <1>4, <2>1
    <2>5. /\ DOMAIN state = StateFields /\ state.phase = "telling" /\ state.n = n /\ state.event.n = n
          /\ state.answer = "ok" =>
                /\ state.event.allowed /\ state.event.tenant = calls[n].context.tenant
                /\ calls[n].ask.operation = "delete_tenant"
                      => state.event.count = Cardinality(accessRows \ TableAfter(committed))
        BY <1>2, <1>3, <2>1, <2>2
    <2>6. WorkDoes(c, n, Cardinality(accessRows \ TableAfter(committed)), "open", state)
        BY <2>3, <2>4, <2>5 DEF WorkDoes
    <2> QED BY <2>6
<1>5. CASE ~Tells(c, n, ok)
    <2>1. calls' = [calls EXCEPT ![n].gone = Cardinality(accessRows \ TableAfter(committed)),
                       ![n].ended = IF ok THEN "ok" ELSE "error"]
        BY <1>1, <1>5
    <2>2. caller' = [caller EXCEPT ![c] = Resting]
        BY <1>1, <1>5
    <2>3. ok => ~calls[n].told
        BY <1>5 DEF Tells
    <2>4. DOMAIN Resting = StateFields /\ Resting.phase = "idle"
        BY DEF Resting, StateFields
    <2>5. PICK ended : ended = (IF ok THEN "ok" ELSE "error") /\ (ended = "ok" => ~calls[n].told)
        BY <2>3
    <2>6. calls' = [calls EXCEPT ![n].gone = Cardinality(accessRows \ TableAfter(committed)), ![n].ended = ended]
        BY <2>1, <2>5
    <2>7. WorkDoes(c, n, Cardinality(accessRows \ TableAfter(committed)), ended, Resting)
        BY <2>2, <2>4, <2>5, <2>6 DEF WorkDoes
    <2> QED BY <2>7
<1> QED BY <1>4, <1>5

LEMMA WorkKeepsOwners ==
    ASSUME AccessInv, NEW c \in Caller, Work(c), NEW n, n = caller[c].n, n \in DOMAIN calls, StepAt(c, n)
    PROVE  RowsOwned'
<1> SUFFICES ASSUME NEW row \in accessRows'
             PROVE  /\ row.by = 0 \/ row.by \in DOMAIN calls
                    /\ row.by \in DOMAIN calls => row.tenant = calls'[row.by].context.tenant
    BY DEF RowsOwned, StepAt
<1>1. \A m \in DOMAIN calls : calls'[m].context = calls[m].context
    BY DEF StepAt
<1>2. CASE row \in accessRows
    BY <1>1, <1>2 DEF AccessInv, RowsOwned
<1>3. CASE row \notin accessRows
    <2>1. row \in Worked(n)
        BY <1>3 DEF Work
    <2>2. calls[n].ask.operation = "ingest"
        BY <1>3, <2>1 DEF Worked
    <2>3. row \in {r \in accessRows : r.id # calls[n].ask.id}
             \cup {[id |-> calls[n].ask.id, tenant |-> MergedTenant(calls[n].context, calls[n].ask), by |-> n]}
        BY <2>1, <2>2 DEF Worked
    <2>4. row.by = n /\ row.tenant = calls[n].context.tenant
        BY <1>3, <2>3 DEF MergedTenant
    <2> QED BY <1>1, <2>4
<1> QED BY <1>2, <1>3

LEMMA WorkKeepsInv ==
    ASSUME AccessInv, NEW c \in Caller, Work(c)
    PROVE  AccessInv'
<1>0. PICK n : n = caller[c].n
    OBVIOUS
<1>1. caller[c].phase = "working" /\ trail' = trail /\ undisturbed' = undisturbed
    BY DEF Work
<1>2. /\ n \in DOMAIN calls /\ DOMAIN calls[n] = CallFields /\ DOMAIN caller = Caller
      /\ IsList(calls) /\ IsList(trail) /\ AtWork(caller[c], trail, calls)
    BY <1>0, <1>1, AtItsCall
<1>3. PICK gone, ended, state : WorkDoes(c, n, gone, ended, state)
    BY <1>0, WorkDone
<1>4. PICK call : call = [calls[n] EXCEPT !.gone = gone, !.ended = ended]
    OBVIOUS
<1>5. calls' = [calls EXCEPT ![n] = call]
    BY <1>2, <1>3, <1>4 DEF WorkDoes
<1>6. /\ DOMAIN call = CallFields /\ call.ended = ended /\ call.context = calls[n].context
      /\ call.ask = calls[n].ask /\ call.gone = gone /\ call.told = calls[n].told
    BY <1>2, <1>4 DEF CallFields
<1>7. IsList([calls EXCEPT ![n] = call])
    BY <1>2, ChangedList
<1>8. /\ IsList(calls') /\ DOMAIN calls' = DOMAIN calls /\ calls'[n] = call
      /\ \A m \in DOMAIN calls : m # n => calls'[m] = calls[m]
    BY <1>2, <1>5, <1>7
<1>9. caller' = [caller EXCEPT ![c] = state] /\ DOMAIN state = StateFields /\ state.phase \in {"telling", "idle"}
    BY <1>3 DEF WorkDoes
<1>10. DOMAIN caller' = Caller /\ caller'[c] = state /\ \A d \in Caller : d # c => caller'[d] = caller[d]
    BY <1>2, <1>9
<1>11. \A m : TellsAsBefore(m)
    BY <1>1 DEF TellsAsBefore
<1>12. StepAt(c, n)
    BY <1>1, <1>2, <1>6, <1>8, <1>9, <1>10, <1>11 DEF StepAt
<1>13. ASSUME state.phase # "idle" PROVE state.n = n /\ AtWork(state, trail', calls')
    <2>1. /\ state.phase = "telling" /\ ended = "open" /\ state.n = n /\ state.event.n = n
          /\ state.answer = "ok" =>
                /\ state.event.allowed /\ state.event.tenant = calls[n].context.tenant
                /\ calls[n].ask.operation = "delete_tenant" => state.event.count = gone
        BY <1>3, <1>13 DEF WorkDoes
    <2>2. LinesOn(trail, n) = {}
        BY <1>0, <1>1, <1>2 DEF AtWork
    <2>3. state.answer = "ok" => Vouches(state.event, call)
        BY <1>6, <2>1 DEF Vouches
    <2> QED BY <1>1, <1>2, <1>6, <1>8, <2>1, <2>2, <2>3 DEF AtWork
<1>14. AccessTypes' /\ CallersAtWork' /\ SuccessesAccounted'
    <2>1. ~Succeeded(n)'
        BY <1>3, <1>6, <1>8 DEF Succeeded, WorkDoes
    <2> QED BY <1>0, <1>1, <1>10, <1>12, <1>13, <2>1, StepKeepsOthers
<1>15. RowsOwned'
    BY <1>0, <1>2, <1>12, WorkKeepsOwners
<1>16. LinesWhole'
    <2>1. caller[c].phase # "ending"
        BY <1>1
    <2>2. (\A d \in Caller : caller'[d].phase # "ending") => \A d \in Caller : caller[d].phase # "ending"
        BY <1>10, <2>1
    <2> QED BY <1>1, <2>2 DEF AccessInv, LinesWhole
<1> QED BY <1>14, <1>15, <1>16 DEF AccessInv

LEMMA AccessInvNext == AccessInv /\ [AccessNext]_accessVars => AccessInv'
<1> SUFFICES ASSUME AccessInv, [AccessNext]_accessVars PROVE AccessInv'
    OBVIOUS
<1>1. CASE UNCHANGED accessVars
    BY <1>1 DEF accessVars, AccessInv, AccessTypes, CallersAtWork, SuccessesAccounted, RowsOwned, LinesWhole,
                Succeeded
<1>2. ASSUME NEW c \in Caller, BeginApplicationCall(c) \/ BeginServerCall(c) PROVE AccessInv'
    BY <1>2, BeginKeepsInv
<1>3. ASSUME NEW c \in Caller, Work(c) PROVE AccessInv'
    BY <1>3, WorkKeepsInv
<1>4. ASSUME NEW c \in Caller, WriteText(c) PROVE AccessInv'
    BY <1>4, WriteTextKeepsInv
<1>5. ASSUME NEW c \in Caller, WriteLineEnd(c) PROVE AccessInv'
    BY <1>5, WriteLineEndKeepsInv
<1>6. ASSUME NEW c \in Caller, WriteFails(c) \/ KillCaller(c) PROVE AccessInv'
    BY <1>6, StopKeepsInv
<1> QED BY <1>1, <1>2, <1>3, <1>4, <1>5, <1>6 DEF AccessNext

-----------------------------------------------------------------------------
\* The positions an export for a tenant takes its events from, in their order.
Vouching(tenant) == Matched([tenant |-> tenant, allowed |-> TRUE, limit |-> 0])

LEMMA ExportFacts ==
    ASSUME IsList(trail), NEW tenant
    PROVE  /\ \A i \in DOMAIN ExportFor(tenant) :
                 /\ Nth(Vouching(tenant), i) \in Vouching(tenant)
                 /\ ExportFor(tenant)[i] = trail[Nth(Vouching(tenant), i)].event
                 /\ RankIn(Vouching(tenant), Nth(Vouching(tenant), i)) = i
           /\ \A p \in Vouching(tenant) :
                 /\ RankIn(Vouching(tenant), p) \in DOMAIN ExportFor(tenant)
                 /\ ExportFor(tenant)[RankIn(Vouching(tenant), p)] = trail[p].event
<1>1. PICK S : trail \in Seq(S)
    BY DEF IsList
<1>2. PICK positions : positions = Vouching(tenant)
    OBVIOUS
<1>3. positions \in SUBSET DOMAIN trail
    BY <1>2 DEF Vouching, Matched
<1>4. PICK lines : lines = SelectAt(trail, positions)
    OBVIOUS
<1>5. /\ \A i \in DOMAIN lines : Nth(positions, i) \in positions /\ lines[i] = trail[Nth(positions, i)]
                                 /\ RankIn(positions, Nth(positions, i)) = i
      /\ \A p \in positions : RankIn(positions, p) \in DOMAIN lines /\ lines[RankIn(positions, p)] = trail[p]
    BY <1>1, <1>3, <1>4, SelectAtFacts
<1>6. ExportFor(tenant) = [i \in DOMAIN lines |-> lines[i].event]
    BY <1>2, <1>4 DEF ExportFor, Exportable, Vouching
<1> QED BY <1>2, <1>5, <1>6

\* A call that is accounted for is named by one line of the export for its tenant.
LEMMA AccountedIsNamed ==
    ASSUME IsList(trail), NEW n, NEW call, Accounted(trail, n, call), NEW tenant, tenant = call.context.tenant
    PROVE  \E i \in DOMAIN ExportFor(tenant) :
              /\ Naming(tenant, n) = {i}
              /\ call.ask.operation = "delete_tenant" => ExportFor(tenant)[i].count = call.gone
<1>1. PICK p \in DOMAIN trail : LinesOn(trail, n) = {p} /\ Vouches(trail[p].event, call)
    BY DEF Accounted
<1>2. trail[p].kind = "text" /\ trail[p].event.n = n /\ p \in LinesOn(trail, n)
    BY <1>1 DEF LinesOn
<1>3. p \in Vouching(tenant)
    BY <1>1, <1>2 DEF Vouches, Vouching, Matched, MatchesQuery
<1>4. \A o \in Vouching(tenant) : trail[o].event.n = n => o = p
    BY <1>1 DEF Vouching, Matched, LinesOn
<1>5. PICK i \in DOMAIN ExportFor(tenant) : i = RankIn(Vouching(tenant), p) /\ ExportFor(tenant)[i] = trail[p].event
    BY <1>3, ExportFacts
<1>6. \A k \in DOMAIN ExportFor(tenant) : ExportFor(tenant)[k].n = n => k = i
    BY <1>4, <1>5, ExportFacts
<1>7. Naming(tenant, n) = {i}
    BY <1>2, <1>5, <1>6 DEF Naming
<1> QED BY <1>1, <1>5, <1>7 DEF Vouches

LEMMA AccessInvTells == AccessInv => TrailAccounts
<1> SUFFICES ASSUME AccessInv PROVE TrailAccounts
    OBVIOUS
<1>0. IsList(trail)
    BY DEF AccessInv, AccessTypes
<1>1. undisturbed => WholeLines(trail)
    BY DEF AccessInv, LinesWhole
<1>2. ASSUME NEW n \in DOMAIN calls, Succeeded(n)
      PROVE  \E i \in DOMAIN ExportFor(calls[n].context.tenant) :
                /\ Naming(calls[n].context.tenant, n) = {i}
                /\ calls[n].ask.operation = "delete_tenant"
                      => ExportFor(calls[n].context.tenant)[i].count = calls[n].gone
    <2>1. Accounted(trail, n, calls[n])
        BY <1>2 DEF AccessInv, SuccessesAccounted
    <2> QED BY <1>0, <2>1, AccountedIsNamed
<1>3. ASSUME NEW row \in accessRows, Succeeded(row.by) PROVE Naming(row.tenant, row.by) # {}
    <2>1. row.by \in DOMAIN calls /\ row.tenant = calls[row.by].context.tenant
        BY <1>3 DEF Succeeded, AccessInv, RowsOwned
    <2> QED BY <1>2, <1>3, <2>1
<1> QED BY <1>1, <1>2, <1>3 DEF TrailAccounts

THEOREM AccessInvariant == AccessSpec => []AccessInv
BY AccessInvInit, AccessInvNext, PTL DEF AccessSpec

(***************************************************************************)
(* However callers interleave, fail and are killed, the audit file tells,  *)
(* once and for its tenant, of every call whose caller was told that it    *)
(* succeeded (security.rs, server.rs).                                     *)
(***************************************************************************)
THEOREM TrailTellsAll == AccessSpec => []TrailAccounts
BY AccessInvariant, AccessInvTells, PTL

-----------------------------------------------------------------------------
(* Measures, counters and traces of a server.                              *)

RowTypes == {"failover_started", "failover_completed", "restore_started", "restore_completed",
             "injected", "cleared"}
OpRow == [type : RowTypes, duration : Nat]

\* What the rows of a type come to.
Tally(events, type) ==
    [rows |-> Cardinality(RowsOf(events, type)),
     last |-> IF RowsOf(events, type) = {} THEN Never ELSE events[LatestOf(RowsOf(events, type))].duration,
     units |-> Cardinality(UnitsOf(events, type))]

LEMMA PlusOne ==
    ASSUME NEW S, NEW s \in Seq(S), NEW x \in S
    PROVE  s \o << >> = s /\ s \o <<x>> = Append(s, x)
<1>1. s \o <<x>> = Append(s, x)
    <2>1. Len(s \o <<x>>) = Len(Append(s, x)) /\ s \o <<x>> \in Seq(S) /\ Append(s, x) \in Seq(S)
        OBVIOUS
    <2>2. \A i \in 1..Len(s) + 1 : (s \o <<x>>)[i] = Append(s, x)[i]
        OBVIOUS
    <2> QED BY <2>1, <2>2
<1>2. s \o << >> = s
    OBVIOUS
<1> QED BY <1>1, <1>2

LEMMA RowsAreFinite ==
    ASSUME NEW events \in Seq(OpRow), NEW type
    PROVE  /\ RowsOf(events, type) \subseteq 1..Len(events) /\ IsFiniteSet(RowsOf(events, type))
           /\ Cardinality(RowsOf(events, type)) \in Nat
           /\ IsFiniteSet(UnitsOf(events, type)) /\ Cardinality(UnitsOf(events, type)) \in Nat
<1>1. RowsOf(events, type) \subseteq 1..Len(events)
    BY DEF RowsOf
<1>2. IsFiniteSet(1..Len(events))
    BY FS_Interval
<1>3. IsFiniteSet(RowsOf(events, type))
    BY <1>1, <1>2, FS_Subset
<1> DEFINE Units(i) == {i} \X (1..events[i].duration)
           all == {Units(i) : i \in RowsOf(events, type)}
<1>4. \A i \in RowsOf(events, type) : IsFiniteSet(Units(i))
    <2> TAKE i \in RowsOf(events, type)
    <2>1. i \in DOMAIN events /\ events[i] \in OpRow
        BY <1>1
    <2>2. PICK d \in Nat : d = events[i].duration
        BY <2>1 DEF OpRow
    <2>3. IsFiniteSet({i})
        BY FS_Singleton
    <2>4. IsFiniteSet(1..d)
        BY FS_Interval
    <2> QED BY <2>2, <2>3, <2>4, FS_Product
<1>5. IsFiniteSet(all)
    <2> DEFINE f == [i \in RowsOf(events, type) |-> Units(i)]
    <2>1. f \in Surjection(RowsOf(events, type), all)
        <3> HIDE DEF Units
        <3> QED BY DEF Surjection
    <2> HIDE DEF f, all
    <2> QED BY <1>3, <2>1, FS_Surjection
<1>6. \A T \in all : IsFiniteSet(T)
    BY <1>4
<1>7. IsFiniteSet(UNION all)
    <2> HIDE DEF all
    <2> QED BY <1>5, <1>6, FS_UNION
<1>8. IsFiniteSet(UnitsOf(events, type))
    BY <1>7 DEF UnitsOf
<1> QED BY <1>1, <1>3, <1>8, FS_CardinalityType

LEMMA OtherRow ==
    ASSUME NEW events \in Seq(OpRow), NEW row \in OpRow, NEW type, row.type # type
    PROVE  Tally(Append(events, row), type) = Tally(events, type)
<1> DEFINE longer == Append(events, row)
<1>1. /\ DOMAIN longer = DOMAIN events \cup {Len(events) + 1} /\ longer[Len(events) + 1] = row
      /\ \A i \in DOMAIN events : longer[i] = events[i]
    OBVIOUS
<1> HIDE DEF longer
<1>2. RowsOf(longer, type) = RowsOf(events, type)
    BY <1>1 DEF RowsOf
<1>3. \A i \in RowsOf(events, type) : longer[i] = events[i]
    BY <1>1 DEF RowsOf
<1>4. UnitsOf(longer, type) = UnitsOf(events, type)
    BY <1>2, <1>3 DEF UnitsOf
<1>5. RowsOf(events, type) # {} =>
         longer[LatestOf(RowsOf(events, type))] = events[LatestOf(RowsOf(events, type))]
    <2> SUFFICES ASSUME RowsOf(events, type) # {}
                 PROVE  LatestOf(RowsOf(events, type)) \in RowsOf(events, type)
        BY <1>3
    <2> DEFINE positions == RowsOf(events, type)
    <2>1. positions \subseteq Nat /\ IsFiniteSet(positions) /\ positions # {}
        BY RowsAreFinite
    <2> HIDE DEF positions
    <2>2. Cardinality(positions) \in Nat /\ Cardinality(positions) # 0
        BY <2>1, FS_CardinalityType, FS_EmptySet
    <2>3. Cardinality(positions) \in 1..Cardinality(positions)
        BY <2>2
    <2>4. Nth(positions, Cardinality(positions)) \in positions
        BY <2>1, <2>3, NthFacts
    <2> QED BY <2>4 DEF positions, LatestOf
<1> QED BY <1>2, <1>4, <1>5 DEF Tally, longer

LEMMA OwnRow ==
    ASSUME NEW events \in Seq(OpRow), NEW row \in OpRow
    PROVE  Tally(Append(events, row), row.type) =
              [rows |-> Tally(events, row.type).rows + 1, last |-> row.duration,
               units |-> Tally(events, row.type).units + row.duration]
<1> DEFINE longer == Append(events, row)
           n == Len(events) + 1
           before == RowsOf(events, row.type)
<1>0. longer \in Seq(OpRow) /\ n \in Nat /\ row.duration \in Nat
    BY DEF OpRow
<1>1. /\ DOMAIN longer = DOMAIN events \cup {n} /\ longer[n] = row
      /\ \A i \in DOMAIN events : longer[i] = events[i]
    OBVIOUS
<1>2. before \subseteq 1..Len(events) /\ IsFiniteSet(before) /\ Cardinality(before) \in Nat
    BY RowsAreFinite
<1>3. n \notin before /\ \A i \in before : i <= n /\ longer[i] = events[i]
    BY <1>1, <1>2
<1> HIDE DEF longer
<1>4. RowsOf(longer, row.type) = before \cup {n}
    BY <1>1 DEF RowsOf
<1> HIDE DEF n
<1>5. Cardinality(before \cup {n}) = Cardinality(before) + 1 /\ IsFiniteSet(before \cup {n})
    BY <1>2, <1>3, FS_AddElement
<1>6. LatestOf(before \cup {n}) = n
    <2> DEFINE all == before \cup {n}
    <2>1. all \subseteq Nat
        BY <1>0, <1>2
    <2>2. n <= n
        BY <1>0
    <2>3. {j \in all : j <= n} = all
        BY <1>3, <2>2
    <2>4. RankIn(all, n) = Cardinality(all)
        BY <2>3 DEF RankIn
    <2>5. n \in all
        OBVIOUS
    <2> HIDE DEF all
    <2>6. Nth(all, RankIn(all, n)) = n
        BY <1>5, <2>1, <2>5, NthFacts DEF all
    <2> QED BY <2>4, <2>6 DEF LatestOf, all
<1>7. UnitsOf(longer, row.type) = UnitsOf(events, row.type) \cup ({n} \X (1..row.duration))
    BY <1>1, <1>3, <1>4 DEF UnitsOf
<1>8. UnitsOf(events, row.type) \cap ({n} \X (1..row.duration)) = {}
    BY <1>3 DEF UnitsOf
<1>9. IsFiniteSet(UnitsOf(events, row.type)) /\ Cardinality(UnitsOf(events, row.type)) \in Nat
    BY RowsAreFinite
<1>10. IsFiniteSet({n} \X (1..row.duration)) /\ Cardinality({n} \X (1..row.duration)) = row.duration
    <2>1. IsFiniteSet({n}) /\ Cardinality({n}) = 1
        BY FS_Singleton
    <2>2. IsFiniteSet(1..row.duration) /\ Cardinality(1..row.duration) = row.duration
        <3>1. PICK d \in Nat : d = row.duration
            BY <1>0
        <3>2. IsFiniteSet(1..d) /\ Cardinality(1..d) = d
            BY FS_Interval
        <3> QED BY <3>1, <3>2
    <2>3. /\ IsFiniteSet({n} \X (1..row.duration))
          /\ Cardinality({n} \X (1..row.duration)) = Cardinality({n}) * Cardinality(1..row.duration)
        BY <2>1, <2>2, FS_Product
    <2> QED BY <1>0, <2>1, <2>2, <2>3
<1>11. Cardinality(UnitsOf(longer, row.type)) = Cardinality(UnitsOf(events, row.type)) + row.duration
    <2>1. Cardinality({}) = 0
        BY FS_EmptySet
    <2>2. PICK old, new : old = UnitsOf(events, row.type) /\ new = {n} \X (1..row.duration)
        OBVIOUS
    <2>3. IsFiniteSet(old) /\ Cardinality(old) \in Nat /\ IsFiniteSet(new) /\ Cardinality(new) = row.duration
          /\ old \cap new = {} /\ UnitsOf(longer, row.type) = old \cup new
        BY <1>7, <1>8, <1>9, <1>10, <2>2
    <2>4. Cardinality(old \cup new) = Cardinality(old) + Cardinality(new) - Cardinality(old \cap new)
        BY <2>3, FS_Union
    <2>41. Cardinality(old \cap new) = 0
        BY <2>1, <2>3, Zenon
    <2>5. Cardinality(old \cup new) = Cardinality(old) + row.duration
        BY <1>0, <2>3, <2>4, <2>41
    <2> QED BY <2>2, <2>3, <2>5
<1>12. before \cup {n} # {}
    OBVIOUS
<1> QED BY <1>1, <1>4, <1>5, <1>6, <1>11, <1>12 DEF Tally, longer

-----------------------------------------------------------------------------
Measures == [events : Nat, done : Nat, since : Nat \cup {Never}, last : Nat \cup {Never}, total : Nat]
Timed(m) == m \in Measures /\ m.since <= opClock
Passed(m) == IF m.since = Never THEN 0 ELSE opClock - m.since

\* A measurement reports what its rows come to, and has taken no more time than there was.
Tallied(m, tally) ==
    m.done = tally.rows /\ m.last = tally.last /\ m.total = tally.units /\ m.total + Passed(m) <= opClock

LEMMA StartedFacts ==
    ASSUME opClock \in Nat, NEW m, Timed(m)
    PROVE  /\ Timed(Started(m)) /\ Started(m).since # Never /\ Started(m).done = m.done
           /\ \A tally : Tallied(m, tally) => Tallied(Started(m), tally)
<1>0. /\ m.since \in Nat \cup {Never} /\ m.since <= opClock /\ m.events \in Nat /\ Never = -1
      /\ m.total \in Nat
    BY DEF Timed, Measures, Never
<1>1. CASE m.since # Never
    BY <1>1 DEF Started
<1>2. CASE m.since = Never
    <2>1. PICK n : n = [m EXCEPT !.events = @ + 1, !.since = opClock]
        OBVIOUS
    <2>2. Started(m) = n
        BY <1>2, <2>1 DEF Started
    <2>21. n = [events |-> m.events + 1, done |-> m.done, since |-> opClock, last |-> m.last, total |-> m.total]
        BY <2>1 DEF Timed, Measures
    <2>22. m.done \in Nat /\ m.last \in Nat \cup {Never}
        BY DEF Timed, Measures
    <2>3. n \in Measures /\ n.since = opClock /\ n.done = m.done /\ n.last = m.last /\ n.total = m.total
        BY <1>0, <2>21, <2>22 DEF Measures
    <2>4. opClock <= opClock /\ opClock # Never /\ opClock - opClock = 0
        BY <1>0
    <2>5. Passed(n) = 0 /\ Passed(m) = 0
        BY <1>2, <2>3, <2>4 DEF Passed
    <2>6. \A tally : Tallied(m, tally) => Tallied(n, tally)
        BY <2>3, <2>5 DEF Tallied
    <2> QED BY <2>2, <2>3, <2>4, <2>6 DEF Timed
<1> QED BY <1>1, <1>2

LEMMA CompletedFacts ==
    ASSUME opClock \in Nat, NEW m, Timed(m), m.since # Never
    PROVE  /\ Timed(Completed(m)) /\ Completed(m).since = Never /\ Completed(m).done = m.done + 1
           /\ opClock - m.since \in Nat
           /\ \A tally : Tallied(m, tally) =>
                 Tallied(Completed(m), [rows |-> tally.rows + 1, last |-> opClock - m.since,
                                        units |-> tally.units + (opClock - m.since)])
<1>0. /\ m.since \in Nat /\ m.since <= opClock /\ m.done \in Nat /\ Never = -1 /\ m.total \in Nat
    BY DEF Timed, Measures, Never
<1>1. PICK d \in Nat : d = opClock - m.since
    BY <1>0
<1>2. PICK n : n = [m EXCEPT !.since = Never, !.done = @ + 1, !.last = opClock - m.since,
                             !.total = @ + (opClock - m.since)]
    OBVIOUS
<1>3. Completed(m) = n
    BY <1>2 DEF Completed
<1>4. n \in Measures /\ n.since = Never /\ n.done = m.done + 1 /\ n.last = d /\ n.total = m.total + d
    <2>1. n = [events |-> m.events, done |-> m.done + 1, since |-> Never, last |-> d, total |-> m.total + d]
        BY <1>1, <1>2 DEF Timed, Measures
    <2>2. m.events \in Nat /\ m.done + 1 \in Nat /\ m.total + d \in Nat
        BY <1>0 DEF Timed, Measures
    <2> QED BY <2>1, <2>2 DEF Measures
<1>5. Passed(n) = 0 /\ Passed(m) = d /\ Never <= opClock
    BY <1>0, <1>1, <1>4 DEF Passed
<1>6. ASSUME NEW tally, Tallied(m, tally)
      PROVE  Tallied(n, [rows |-> tally.rows + 1, last |-> d, units |-> tally.units + d])
    BY <1>0, <1>4, <1>5, <1>6 DEF Tallied
<1> QED BY <1>1, <1>3, <1>4, <1>5, <1>6 DEF Timed

-----------------------------------------------------------------------------
(* A request reaches one state and table after another.                    *)

Trace == [seq : Nat, sql : BOOLEAN, status : Nat]
CountOf(traces, kind) == Cardinality({i \in DOMAIN traces : traces[i] \in kind})
WatchHolds(w, seq) ==
    /\ w.requests \in Nat /\ w.traces \in Seq(Trace)
    /\ Len(w.traces) = IF w.requests < TraceCapacity THEN w.requests ELSE TraceCapacity
    /\ \A i \in DOMAIN w.traces : w.traces[i].seq = seq - Len(w.traces) + i
    /\ w.requests <= TraceCapacity =>
          /\ w.serverErrors = CountOf(w.traces, {t \in Trace : t.status >= 500})
          /\ w.clientErrors = CountOf(w.traces, {t \in Trace : t.status \in 400..499})
          /\ w.sql = CountOf(w.traces, {t \in Trace : t.sql})
          /\ w.sqlFailed = CountOf(w.traces, {t \in Trace : t.sql /\ t.status >= 400})

OpsFields == {"role", "heard", "failing", "failover", "restore", "faults", "injected", "blocked",
              "seq", "simulated", "watch"}
Shaped(o) ==
    /\ DOMAIN o = OpsFields /\ Timed(o.failover) /\ Timed(o.restore) /\ o.injected \in Nat
    /\ o.seq \in Nat /\ WatchHolds(o.watch, o.seq)
InShape(at) == Shaped(at.ops) /\ at.events \in Seq(OpRow)

\* MeasuresOnRecord, and every measurement that has begun is on record before its end is.
MeasuresHold(at) ==
    /\ Tallied(at.ops.failover, Tally(at.events, "failover_completed"))
    /\ Tallied(at.ops.restore, Tally(at.events, "restore_completed"))
    /\ at.ops.failover.done + (IF at.ops.failover.since = Never THEN 0 ELSE 1)
          <= Tally(at.events, "failover_started").rows
    /\ at.ops.injected = Tally(at.events, "injected").rows

Reaches(at, to) == InShape(at) => InShape(to) /\ (MeasuresHold(at) => MeasuresHold(to))

\* The fields no measurement is about may change.
Alike(o, p) ==
    /\ DOMAIN o = OpsFields /\ p.injected = o.injected /\ p.seq = o.seq /\ p.watch = o.watch

LEMMA NoRow ==
    ASSUME NEW at, NEW o, DOMAIN o = OpsFields, o.failover = at.ops.failover, o.restore = at.ops.restore,
           o.injected = at.ops.injected, o.seq = at.ops.seq,
           o.watch = at.ops.watch \/ WatchHolds(o.watch, o.seq)
    PROVE  Reaches(at, Stage(o, at.events))
BY DEF Reaches, InShape, Shaped, MeasuresHold, Stage

\* A row that is written counts for its own type.
LEMMA RowWritten ==
    ASSUME NEW events \in Seq(OpRow), NEW type \in RowTypes, NEW d \in Nat
    PROVE  \E longer \in Seq(OpRow) :
              /\ longer = events \o <<[type |-> type, duration |-> d]>>
              /\ \A other \in RowTypes : other # type => Tally(longer, other) = Tally(events, other)
              /\ Tally(longer, type) = [rows |-> Tally(events, type).rows + 1, last |-> d,
                                        units |-> Tally(events, type).units + d]
<1>1. PICK row \in OpRow : row.type = type /\ row.duration = d /\ row = [type |-> type, duration |-> d]
    <2>1. [type |-> type, duration |-> d] \in OpRow
        BY DEF OpRow
    <2> QED BY <2>1
<1>2. PICK longer : longer = Append(events, row)
    OBVIOUS
<1>3. longer \in Seq(OpRow) /\ longer = events \o <<row>>
    BY <1>2, PlusOne
<1>4. \A other \in RowTypes : other # type => Tally(longer, other) = Tally(events, other)
    BY <1>1, <1>2, OtherRow
<1>5. Tally(longer, row.type) =
         [rows |-> Tally(events, row.type).rows + 1, last |-> row.duration,
          units |-> Tally(events, row.type).units + row.duration]
    BY <1>2, OwnRow
<1> QED BY <1>1, <1>3, <1>4, <1>5

LEMMA StartWritten ==
    ASSUME NEW events \in Seq(OpRow), NEW type \in RowTypes
    PROVE  \E longer \in Seq(OpRow) :
              /\ longer = events \o StartedRow(type)
              /\ \A other \in RowTypes : other # type => Tally(longer, other) = Tally(events, other)
              /\ Tally(longer, type).rows = Tally(events, type).rows + 1
<1>1. PICK longer \in Seq(OpRow) :
         /\ longer = events \o <<[type |-> type, duration |-> 0]>>
         /\ \A other \in RowTypes : other # type => Tally(longer, other) = Tally(events, other)
         /\ Tally(longer, type) = [rows |-> Tally(events, type).rows + 1, last |-> 0,
                                   units |-> Tally(events, type).units + 0]
    BY RowWritten
<1>2. longer = events \o StartedRow(type)
    BY <1>1 DEF StartedRow
<1>3. Tally(longer, type).rows = Tally(events, type).rows + 1
    BY <1>1
<1> QED BY <1>1, <1>2, <1>3

LEMMA FailoverStarts ==
    ASSUME opClock \in Nat, NEW at, NEW o, Alike(o, at.ops), o.failover = Started(at.ops.failover),
           o.restore = at.ops.restore
    PROVE  Reaches(at, Stage(o, at.events \o StartedRow("failover_started")))
<1> SUFFICES ASSUME InShape(at)
             PROVE  LET to == Stage(o, at.events \o StartedRow("failover_started"))
                    IN  InShape(to) /\ (MeasuresHold(at) => MeasuresHold(to))
    BY DEF Reaches
<1>1. at.events \in Seq(OpRow) /\ "failover_started" \in RowTypes
    BY DEF InShape, RowTypes
<1>2. PICK longer \in Seq(OpRow) :
         /\ longer = at.events \o StartedRow("failover_started")
         /\ \A other \in RowTypes : other # "failover_started" => Tally(longer, other) = Tally(at.events, other)
         /\ Tally(longer, "failover_started").rows = Tally(at.events, "failover_started").rows + 1
    BY <1>1, StartWritten
<1>5. /\ Tally(longer, "failover_completed") = Tally(at.events, "failover_completed")
      /\ Tally(longer, "restore_completed") = Tally(at.events, "restore_completed")
      /\ Tally(longer, "injected") = Tally(at.events, "injected")
    BY <1>2 DEF RowTypes
<1>7. /\ Timed(o.failover) /\ o.failover.done = at.ops.failover.done
      /\ \A tally : Tallied(at.ops.failover, tally) => Tallied(o.failover, tally)
    BY StartedFacts DEF InShape, Shaped
<1>8. InShape(Stage(o, longer))
    BY <1>7 DEF InShape, Shaped, Stage, Alike
<1>9. ASSUME MeasuresHold(at) PROVE MeasuresHold(Stage(o, longer))
    <2>1. PICK begun \in Nat : begun = Tally(at.events, "failover_started").rows
        BY <1>1, RowsAreFinite DEF Tally
    <2>2. at.ops.failover.done \in Nat /\ at.ops.failover.done <= begun
        BY <1>9, <2>1 DEF MeasuresHold, InShape, Shaped, Timed, Measures
    <2>3. o.failover.done + (IF o.failover.since = Never THEN 0 ELSE 1) <= begun + 1
        BY <1>7, <2>2
    <2> QED BY <1>2, <1>5, <1>7, <1>9, <2>1, <2>3 DEF MeasuresHold, Stage, Alike
<1> QED BY <1>2, <1>8, <1>9

LEMMA FailoverCompletes ==
    ASSUME opClock \in Nat, NEW at, NEW o, Alike(o, at.ops), o.failover = Completed(at.ops.failover),
           o.restore = at.ops.restore
    PROVE  Reaches(at, Stage(o, at.events \o CompletedRows("failover_completed", at.ops.failover)))
<1> DEFINE m == at.ops.failover
           to == Stage(o, at.events \o CompletedRows("failover_completed", m))
<1> SUFFICES ASSUME InShape(at) PROVE InShape(to) /\ (MeasuresHold(at) => MeasuresHold(to))
    BY DEF Reaches
<1>1. at.events \in Seq(OpRow) /\ "failover_completed" \in RowTypes /\ Timed(m)
    BY DEF InShape, Shaped, RowTypes
<1>2. CASE m.since = Never
    <2>1. o.failover = m /\ to = Stage(o, at.events)
        BY <1>1, <1>2, PlusOne DEF Completed, CompletedRows
    <2> QED BY <2>1, NoRow DEF Reaches, Alike
<1>3. CASE m.since # Never
    <2>0. PICK d \in Nat : d = opClock - m.since
        BY <1>1, <1>3, CompletedFacts
    <2>1. PICK longer \in Seq(OpRow) :
             /\ longer = at.events \o <<[type |-> "failover_completed", duration |-> d]>>
             /\ \A other \in RowTypes : other # "failover_completed" => Tally(longer, other) = Tally(at.events, other)
             /\ Tally(longer, "failover_completed") =
                   [rows |-> Tally(at.events, "failover_completed").rows + 1, last |-> d,
                    units |-> Tally(at.events, "failover_completed").units + d]
        BY <1>1, RowWritten
    <2>2. to = Stage(o, longer)
        BY <1>3, <2>0, <2>1 DEF CompletedRows
    <2>3. /\ Tally(longer, "failover_started") = Tally(at.events, "failover_started")
          /\ Tally(longer, "restore_completed") = Tally(at.events, "restore_completed")
          /\ Tally(longer, "injected") = Tally(at.events, "injected")
        BY <2>1 DEF RowTypes
    <2>4. /\ Timed(o.failover) /\ o.failover.since = Never /\ o.failover.done = m.done + 1
          /\ Tallied(m, Tally(at.events, "failover_completed"))
                => Tallied(o.failover, Tally(longer, "failover_completed"))
        BY <1>1, <1>3, <2>0, <2>1, CompletedFacts
    <2>5. InShape(Stage(o, longer))
        BY <2>4 DEF InShape, Shaped, Stage, Alike
    <2>6. ASSUME MeasuresHold(at) PROVE MeasuresHold(Stage(o, longer))
        <3>1. PICK begun \in Nat : begun = Tally(at.events, "failover_started").rows
            BY <1>1, RowsAreFinite DEF Tally
        <3>2. m.done \in Nat /\ m.done + 1 <= begun
            BY <1>1, <1>3, <2>6, <3>1 DEF MeasuresHold, Timed, Measures
        <3>3. o.failover.done + (IF o.failover.since = Never THEN 0 ELSE 1) <= begun
            BY <2>4, <3>2
        <3> QED BY <2>3, <2>4, <2>6, <3>1, <3>3 DEF MeasuresHold, Stage, Alike
    <2> QED BY <2>2, <2>5, <2>6
<1> QED BY <1>2, <1>3

\* With a row of its own or without.
LEMMA RestoreStarts ==
    ASSUME opClock \in Nat, NEW at, NEW o, Alike(o, at.ops), o.restore = Started(at.ops.restore),
           o.failover = at.ops.failover
    PROVE  /\ Reaches(at, Stage(o, at.events \o StartedRow("restore_started")))
           /\ Reaches(at, Stage(o, at.events))
<1> SUFFICES ASSUME InShape(at), NEW later,
                    later = at.events \o StartedRow("restore_started") \/ later = at.events
             PROVE  InShape(Stage(o, later)) /\ (MeasuresHold(at) => MeasuresHold(Stage(o, later)))
    BY DEF Reaches
<1>1. at.events \in Seq(OpRow) /\ "restore_started" \in RowTypes
    BY DEF InShape, RowTypes
<1>2. PICK longer \in Seq(OpRow) :
         /\ longer = at.events \o StartedRow("restore_started")
         /\ \A other \in RowTypes : other # "restore_started" => Tally(longer, other) = Tally(at.events, other)
    BY <1>1, StartWritten
<1>3. /\ later \in Seq(OpRow)
      /\ Tally(later, "failover_started") = Tally(at.events, "failover_started")
      /\ Tally(later, "failover_completed") = Tally(at.events, "failover_completed")
      /\ Tally(later, "restore_completed") = Tally(at.events, "restore_completed")
      /\ Tally(later, "injected") = Tally(at.events, "injected")
    BY <1>1, <1>2 DEF RowTypes
<1>4. Timed(o.restore) /\ \A tally : Tallied(at.ops.restore, tally) => Tallied(o.restore, tally)
    BY StartedFacts DEF InShape, Shaped
<1>5. InShape(Stage(o, later))
    BY <1>3, <1>4 DEF InShape, Shaped, Stage, Alike
<1>6. MeasuresHold(at) => MeasuresHold(Stage(o, later))
    BY <1>3, <1>4 DEF MeasuresHold, Stage, Alike
<1> QED BY <1>5, <1>6

LEMMA RestoreCompletes ==
    ASSUME opClock \in Nat, NEW at, NEW o, Alike(o, at.ops), o.restore = Completed(at.ops.restore),
           o.failover = at.ops.failover
    PROVE  Reaches(at, Stage(o, at.events \o CompletedRows("restore_completed", at.ops.restore)))
<1> DEFINE m == at.ops.restore
           to == Stage(o, at.events \o CompletedRows("restore_completed", m))
<1> SUFFICES ASSUME InShape(at) PROVE InShape(to) /\ (MeasuresHold(at) => MeasuresHold(to))
    BY DEF Reaches
<1>1. at.events \in Seq(OpRow) /\ "restore_completed" \in RowTypes /\ Timed(m)
    BY DEF InShape, Shaped, RowTypes
<1>2. CASE m.since = Never
    <2>1. o.restore = m /\ to = Stage(o, at.events)
        BY <1>1, <1>2, PlusOne DEF Completed, CompletedRows
    <2> QED BY <2>1, NoRow DEF Reaches, Alike
<1>3. CASE m.since # Never
    <2>0. PICK d \in Nat : d = opClock - m.since
        BY <1>1, <1>3, CompletedFacts
    <2>1. PICK longer \in Seq(OpRow) :
             /\ longer = at.events \o <<[type |-> "restore_completed", duration |-> d]>>
             /\ \A other \in RowTypes : other # "restore_completed" => Tally(longer, other) = Tally(at.events, other)
             /\ Tally(longer, "restore_completed") =
                   [rows |-> Tally(at.events, "restore_completed").rows + 1, last |-> d,
                    units |-> Tally(at.events, "restore_completed").units + d]
        BY <1>1, RowWritten
    <2>2. to = Stage(o, longer)
        BY <1>3, <2>0, <2>1 DEF CompletedRows
    <2>3. /\ Tally(longer, "failover_started") = Tally(at.events, "failover_started")
          /\ Tally(longer, "failover_completed") = Tally(at.events, "failover_completed")
          /\ Tally(longer, "injected") = Tally(at.events, "injected")
        BY <2>1 DEF RowTypes
    <2>4. /\ Timed(o.restore)
          /\ Tallied(m, Tally(at.events, "restore_completed"))
                => Tallied(o.restore, Tally(longer, "restore_completed"))
        BY <1>1, <1>3, <2>0, <2>1, CompletedFacts
    <2>5. InShape(Stage(o, longer))
        BY <2>4 DEF InShape, Shaped, Stage, Alike
    <2>6. MeasuresHold(at) => MeasuresHold(Stage(o, longer))
        BY <2>3, <2>4 DEF MeasuresHold, Stage, Alike
    <2> QED BY <2>2, <2>5, <2>6
<1> QED BY <1>2, <1>3

\* Chaos events: an injection is counted, a clearing is not.
LEMMA ChaosWritten ==
    ASSUME NEW at, NEW o, DOMAIN o = OpsFields, o.failover = at.ops.failover, o.restore = at.ops.restore,
           o.seq = at.ops.seq, o.watch = at.ops.watch, NEW type,
           \/ type = "injected" /\ o.injected = at.ops.injected + 1
           \/ type = "cleared" /\ o.injected = at.ops.injected
    PROVE  Reaches(at, Stage(o, at.events \o StartedRow(type)))
<1> SUFFICES ASSUME InShape(at)
             PROVE  LET to == Stage(o, at.events \o StartedRow(type))
                    IN  InShape(to) /\ (MeasuresHold(at) => MeasuresHold(to))
    BY DEF Reaches
<1>1. at.events \in Seq(OpRow) /\ type \in RowTypes
    BY DEF InShape, RowTypes
<1>2. PICK longer \in Seq(OpRow) :
         /\ longer = at.events \o StartedRow(type)
         /\ \A other \in RowTypes : other # type => Tally(longer, other) = Tally(at.events, other)
         /\ Tally(longer, type).rows = Tally(at.events, type).rows + 1
    BY <1>1, StartWritten
<1>3. /\ Tally(longer, "failover_started") = Tally(at.events, "failover_started")
      /\ Tally(longer, "failover_completed") = Tally(at.events, "failover_completed")
      /\ Tally(longer, "restore_completed") = Tally(at.events, "restore_completed")
    BY <1>2 DEF RowTypes
<1>4. at.ops.injected = Tally(at.events, "injected").rows => o.injected = Tally(longer, "injected").rows
    BY <1>2 DEF RowTypes
<1>5. InShape(Stage(o, longer))
    BY DEF InShape, Shaped, Stage
<1>6. MeasuresHold(at) => MeasuresHold(Stage(o, longer))
    BY <1>3, <1>4 DEF MeasuresHold, Stage
<1> QED BY <1>2, <1>5, <1>6

-----------------------------------------------------------------------------
\* Every stage of a sequence is reached from where it began.
Staged(at, stages) ==
    /\ Len(stages) \in Nat \ {0} /\ \E S : stages \in Seq(S)
    /\ \A n \in 1..Len(stages) : Reaches(at, stages[n])

LEMMA StagedShort ==
    ASSUME NEW at, NEW to, Reaches(at, to)
    PROVE  /\ Staged(at, <<to>>)
           /\ \A next : Reaches(to, next) => Staged(at, <<to, next>>)
<1>1. Staged(at, <<to>>)
    <2>1. <<to>> \in Seq({to}) /\ Len(<<to>>) = 1 /\ \A n \in 1..1 : <<to>>[n] = to
        OBVIOUS
    <2>2. \E S : <<to>> \in Seq(S)
        BY <2>1
    <2>3. Len(<<to>>) \in Nat \ {0} /\ \A n \in 1..Len(<<to>>) : Reaches(at, <<to>>[n])
        BY <2>1
    <2> QED BY <2>2, <2>3 DEF Staged
<1>2. ASSUME NEW next, Reaches(to, next) PROVE Staged(at, <<to, next>>)
    <2>1. Reaches(at, next)
        BY <1>2 DEF Reaches
    <2>2. /\ <<to, next>> \in Seq({to, next}) /\ Len(<<to, next>>) = 2
          /\ \A n \in 1..2 : <<to, next>>[n] \in {to, next}
        OBVIOUS
    <2>3. \E S : <<to, next>> \in Seq(S)
        BY <2>2
    <2>4. Len(<<to, next>>) \in Nat \ {0} /\ \A n \in 1..Len(<<to, next>>) : Reaches(at, <<to, next>>[n])
        BY <2>1, <2>2
    <2> QED BY <2>3, <2>4 DEF Staged
<1> QED BY <1>1, <1>2

LEMMA ReachesItself == ASSUME NEW at PROVE Reaches(at, at)
BY DEF Reaches

LEMMA StageFields ==
    ASSUME NEW at, NEW o, NEW events, at = Stage(o, events)
    PROVE  at.ops = o /\ at.events = events
BY DEF Stage

LEMMA AutoFailoverStaged ==
    ASSUME opClock \in Nat, NEW at, InShape(at)
    PROVE  Staged(at, AutoFailoverStages(at))
<1>0. DOMAIN at.ops = OpsFields
    BY DEF InShape, Shaped
<1>1. PICK o : o = [at.ops EXCEPT !.failing = TRUE, !.failover = Started(@)]
    OBVIOUS
<1>2. DOMAIN o = OpsFields /\ Alike(o, at.ops) /\ o.failover = Started(at.ops.failover) /\ o.restore = at.ops.restore
    BY <1>0, <1>1 DEF OpsFields, Alike
<1>3. PICK begun : begun = Stage(o, at.events \o StartedRow("failover_started"))
    OBVIOUS
<1>4. Reaches(at, begun) /\ begun.ops = o
    BY <1>2, <1>3, FailoverStarts, StageFields
<1>5. PICK p : p = Promoted(o)
    OBVIOUS
<1>6. DOMAIN p = OpsFields /\ Alike(p, o) /\ p.failover = Completed(o.failover) /\ p.restore = o.restore
    BY <1>2, <1>5 DEF OpsFields, Alike, Promoted
<1>7. Reaches(begun, Stage(p, begun.events \o CompletedRows("failover_completed", begun.ops.failover)))
    BY <1>4, <1>6, FailoverCompletes
<1>8. AutoFailoverStages(at) =
         <<begun, Stage(p, begun.events \o CompletedRows("failover_completed", begun.ops.failover))>>
    BY <1>1, <1>3, <1>4, <1>5 DEF AutoFailoverStages
<1> QED BY <1>4, <1>7, <1>8, StagedShort

LEMMA TickStaged ==
    ASSUME opClock \in Nat, NEW at, InShape(at), NEW path
    PROVE  Staged(at, TickStages(at, path))
BY AutoFailoverStaged, StagedShort, ReachesItself DEF TickStages

LEMMA HeartbeatStaged ==
    ASSUME opClock \in Nat, NEW at, InShape(at), NEW ahead
    PROVE  Staged(at, HeartbeatStages(at, ahead))
<1>0. DOMAIN at.ops = OpsFields
    BY DEF InShape, Shaped
<1>1. PICK heard : heard = [at.ops EXCEPT !.role = "replica", !.heard = opClock, !.failing = ahead]
    OBVIOUS
<1>2. /\ DOMAIN heard = OpsFields /\ Alike(heard, at.ops) /\ heard.failover = at.ops.failover
      /\ heard.restore = at.ops.restore
    BY <1>0, <1>1 DEF OpsFields, Alike
<1>3. PICK o : o = [heard EXCEPT !.failover = Completed(@)]
    OBVIOUS
<1>4. Alike(o, at.ops) /\ o.failover = Completed(at.ops.failover) /\ o.restore = at.ops.restore
    BY <1>2, <1>3 DEF OpsFields, Alike
<1>5. Reaches(at, Stage(o, at.events \o CompletedRows("failover_completed", at.ops.failover)))
    BY <1>4, FailoverCompletes
<1>6. Reaches(at, Stage(heard, at.events))
    BY <1>2, NoRow DEF Alike
<1>7. CASE ahead
    <2>1. HeartbeatStages(at, ahead) =
             <<Stage(o, at.events \o CompletedRows("failover_completed", at.ops.failover))>>
        BY <1>1, <1>2, <1>3, <1>7 DEF HeartbeatStages
    <2> QED BY <1>5, <2>1, StagedShort
<1>8. CASE ~ahead
    <2>1. HeartbeatStages(at, ahead) = <<Stage(heard, at.events)>>
        BY <1>1, <1>8 DEF HeartbeatStages
    <2> QED BY <1>6, <2>1, StagedShort
<1> QED BY <1>7, <1>8

LEMMA VerifyStaged ==
    ASSUME opClock \in Nat, NEW at, InShape(at)
    PROVE  Staged(at, VerifyStages(at))
<1>0. DOMAIN at.ops = OpsFields
    BY DEF InShape, Shaped
<1>1. PICK o : o = [at.ops EXCEPT !.restore = Started(@)]
    OBVIOUS
<1>2. DOMAIN o = OpsFields /\ Alike(o, at.ops) /\ o.restore = Started(at.ops.restore) /\ o.failover = at.ops.failover
    BY <1>0, <1>1 DEF OpsFields, Alike
<1>3. PICK begun : begun = Stage(o, IF at.ops.restore.since # Never THEN at.events
                                    ELSE at.events \o StartedRow("restore_started"))
    OBVIOUS
<1>4. Reaches(at, begun) /\ begun.ops = o
    BY <1>2, <1>3, RestoreStarts, StageFields
<1>5. PICK p : p = [o EXCEPT !.restore = Completed(@)]
    OBVIOUS
<1>6. DOMAIN p = OpsFields /\ Alike(p, o) /\ p.restore = Completed(o.restore) /\ p.failover = o.failover
    BY <1>2, <1>5 DEF OpsFields, Alike
<1>7. Reaches(begun, Stage(p, begun.events \o CompletedRows("restore_completed", begun.ops.restore)))
    BY <1>4, <1>6, RestoreCompletes
<1>8. VerifyStages(at) =
         <<begun, Stage(p, begun.events \o CompletedRows("restore_completed", begun.ops.restore))>>
    BY <1>1, <1>3, <1>4, <1>5 DEF VerifyStages
<1> QED BY <1>4, <1>7, <1>8, StagedShort

LEMMA NewWatchHolds == ASSUME NEW seq PROVE WatchHolds(NewWatch, seq)
<1>1. NewWatch.traces = << >> /\ NewWatch.requests = 0
    BY DEF NewWatch
<1>2. << >> \in Seq(Trace) /\ Len(<< >>) = 0 /\ DOMAIN << >> = {}
    OBVIOUS
<1>3. \A kind : CountOf(<< >>, kind) = 0
    <2>1. \A kind : {i \in DOMAIN << >> : << >>[i] \in kind} = {}
        BY <1>2
    <2> QED BY <2>1, FS_EmptySet DEF CountOf
<1>4. 0 = IF 0 < TraceCapacity THEN 0 ELSE TraceCapacity
    BY OperationsAssumption
<1> QED BY <1>1, <1>2, <1>3, <1>4 DEF WatchHolds, NewWatch

LEMMA StagedTogether ==
    ASSUME NEW at, NEW first, Staged(at, first), NEW second, Staged(Last(first), second)
    PROVE  Staged(at, first \o second)
<1>1. PICK S : first \in Seq(S)
    BY DEF Staged
<1>2. PICK T : second \in Seq(T)
    BY DEF Staged
<1>3. first \in Seq(S \cup T) /\ second \in Seq(S \cup T)
    BY <1>1, <1>2
<1>4. /\ first \o second \in Seq(S \cup T) /\ Len(first \o second) = Len(first) + Len(second)
      /\ \A n \in 1..Len(first) : (first \o second)[n] = first[n]
      /\ \A n \in 1..Len(second) : (first \o second)[Len(first) + n] = second[n]
    BY <1>3
<1>5. Len(first) \in Nat \ {0} /\ Len(second) \in Nat \ {0}
    BY DEF Staged
<1>6. Reaches(at, Last(first))
    BY <1>5 DEF Staged, Last
<1>7. ASSUME NEW n \in 1..Len(first) + Len(second) PROVE Reaches(at, (first \o second)[n])
    <2>1. CASE n <= Len(first)
        BY <1>4, <1>5, <2>1 DEF Staged
    <2>2. CASE n > Len(first)
        <3>1. PICK k \in 1..Len(second) : n = Len(first) + k
            <4>1. n - Len(first) \in 1..Len(second) /\ n = Len(first) + (n - Len(first))
                BY <1>5, <2>2
            <4> QED BY <4>1
        <3>2. Reaches(Last(first), second[k]) /\ (first \o second)[n] = second[k]
            BY <1>4, <3>1 DEF Staged
        <3> QED BY <1>6, <3>2 DEF Reaches
    <2> QED BY <1>5, <2>1, <2>2
<1>8. Len(first \o second) \in Nat \ {0}
    BY <1>4, <1>5
<1>9. \E U : first \o second \in Seq(U)
    BY <1>4
<1>10. \A n \in 1..Len(first \o second) : Reaches(at, (first \o second)[n])
    BY <1>4, <1>7
<1> QED BY <1>8, <1>9, <1>10 DEF Staged

\* Every handler of every path goes from stage to stage.
LEMMA HandlerStaged ==
    ASSUME opClock \in Nat, NEW at, InShape(at), NEW path \in Paths, NEW handler \in HandlerStages(at, path)
    PROVE  Staged(at, handler)
<1> DEFINE o == at.ops
<1>0. DOMAIN o = OpsFields
    BY DEF InShape, Shaped
<1>1. CASE path = "failoverStart"
    <2>1. PICK p : p = [o EXCEPT !.failing = TRUE, !.failover = Started(@)]
        OBVIOUS
    <2>2. DOMAIN p = OpsFields /\ Alike(p, o) /\ p.failover = Started(o.failover) /\ p.restore = o.restore
        BY <1>0, <2>1 DEF OpsFields, Alike
    <2>3. Reaches(at, Stage(p, at.events \o StartedRow("failover_started")))
        BY <2>2, FailoverStarts
    <2>4. handler = <<Stage(p, at.events \o StartedRow("failover_started"))>>
        BY <1>1, <2>1 DEF HandlerStages
    <2> QED BY <2>3, <2>4, StagedShort
<1>2. CASE path = "promote"
    <2>1. PICK p : p = Promoted(o)
        OBVIOUS
    <2>2. DOMAIN p = OpsFields /\ Alike(p, o) /\ p.failover = Completed(o.failover) /\ p.restore = o.restore
        BY <1>0, <2>1 DEF OpsFields, Alike, Promoted
    <2>3. Reaches(at, Stage(p, at.events \o CompletedRows("failover_completed", o.failover)))
        BY <2>2, FailoverCompletes
    <2>4. handler = <<Stage(p, at.events \o CompletedRows("failover_completed", o.failover))>>
        BY <1>2, <2>1 DEF HandlerStages
    <2> QED BY <2>3, <2>4, StagedShort
<1>3. CASE path = "stepDown"
    <2>1. PICK p : p = [o EXCEPT !.role = "replica", !.failing = FALSE]
        OBVIOUS
    <2>2. /\ DOMAIN p = OpsFields /\ p.failover = o.failover /\ p.restore = o.restore
          /\ p.injected = o.injected /\ p.seq = o.seq /\ p.watch = o.watch
        BY <1>0, <2>1 DEF OpsFields
    <2>3. Reaches(at, Stage(p, at.events))
        BY <2>2, NoRow
    <2>4. handler = <<Stage(p, at.events)>>
        BY <1>3, <2>1 DEF HandlerStages
    <2> QED BY <2>3, <2>4, StagedShort
<1>4. CASE path = "autoCheck"
    <2>1. handler = AutoFailoverStages(at) \/ handler = <<at>>
        BY <1>4 DEF HandlerStages
    <2> QED BY <2>1, AutoFailoverStaged, ReachesItself, StagedShort
<1>5. CASE path = "heartbeat"
    <2>1. PICK ahead \in BOOLEAN : handler = HeartbeatStages(at, ahead)
        BY <1>5 DEF HandlerStages
    <2> QED BY <2>1, HeartbeatStaged
<1>6. CASE path = "recoveryStart"
    <2>1. PICK p : p = [o EXCEPT !.restore = Started(@)]
        OBVIOUS
    <2>2. DOMAIN p = OpsFields /\ Alike(p, o) /\ p.restore = Started(o.restore) /\ p.failover = o.failover
        BY <1>0, <2>1 DEF OpsFields, Alike
    <2>3. Reaches(at, Stage(p, at.events \o StartedRow("restore_started")))
        BY <2>2, RestoreStarts
    <2>4. handler = <<Stage(p, at.events \o StartedRow("restore_started"))>>
        BY <1>6, <2>1 DEF HandlerStages
    <2> QED BY <2>3, <2>4, StagedShort
<1>7. CASE path = "markRestored"
    <2>1. PICK p : p = [o EXCEPT !.restore = Started(@)]
        OBVIOUS
    <2>2. DOMAIN p = OpsFields /\ Alike(p, o) /\ p.restore = Started(o.restore) /\ p.failover = o.failover
        BY <1>0, <2>1 DEF OpsFields, Alike
    <2>3. PICK between : between = Stage(p, at.events)
        OBVIOUS
    <2>4. Reaches(at, between) /\ between.ops = p /\ between.events = at.events
        BY <2>2, <2>3, RestoreStarts, StageFields
    <2>5. PICK q : q = [o EXCEPT !.restore = Completed(Started(@))]
        OBVIOUS
    <2>6. DOMAIN q = OpsFields /\ Alike(q, p) /\ q.restore = Completed(p.restore) /\ q.failover = p.failover
        BY <1>0, <2>1, <2>2, <2>5 DEF OpsFields, Alike
    <2>7. Reaches(between, Stage(q, at.events \o CompletedRows("restore_completed", p.restore)))
        BY <2>4, <2>6, RestoreCompletes
    <2>8. handler = <<Stage(q, at.events \o CompletedRows("restore_completed", p.restore))>>
        BY <1>7, <2>2, <2>5 DEF HandlerStages
    <2>9. Reaches(at, Stage(q, at.events \o CompletedRows("restore_completed", p.restore)))
        BY <2>4, <2>7 DEF Reaches
    <2> QED BY <2>8, <2>9, StagedShort
<1>8. CASE path = "verifyRestore"
    <2>1. handler = VerifyStages(at)
        BY <1>8 DEF HandlerStages
    <2> QED BY <2>1, VerifyStaged
<1>9. CASE path = "inject"
    <2>1. PICK s \in Scenarios, n \in FaultDurations :
             handler = <<Stage([Injected(o, s, n) EXCEPT !.injected = @ + 1], at.events \o StartedRow("injected"))>>
        BY <1>9 DEF HandlerStages
    <2>2. PICK p : p = [Injected(o, s, n) EXCEPT !.injected = @ + 1]
        OBVIOUS
    <2>3. /\ DOMAIN p = OpsFields /\ p.failover = o.failover /\ p.restore = o.restore
          /\ p.injected = o.injected + 1 /\ p.seq = o.seq /\ p.watch = o.watch
        <3>1. PICK faults : faults = [x \in DOMAIN o.faults \cup {s} |->
                 IF x = s THEN [since |-> opClock, lasting |-> n] ELSE o.faults[x]]
            OBVIOUS
        <3>2. Injected(o, s, n) = [o EXCEPT !.faults = faults]
            BY <3>1 DEF Injected
        <3> QED BY <1>0, <2>2, <3>2 DEF OpsFields
    <2>4. Reaches(at, Stage(p, at.events \o StartedRow("injected")))
        BY <2>3, ChaosWritten
    <2> QED BY <2>1, <2>2, <2>4, StagedShort
<1>10. CASE path = "clear"
    <2>1. PICK scenarios : handler = <<Stage(Cleared(o, scenarios), at.events \o StartedRow("cleared"))>>
        BY <1>10 DEF HandlerStages
    <2>2. PICK p : p = Cleared(o, scenarios)
        OBVIOUS
    <2>3. /\ DOMAIN p = OpsFields /\ p.failover = o.failover /\ p.restore = o.restore
          /\ p.injected = o.injected /\ p.seq = o.seq /\ p.watch = o.watch
        <3>1. PICK faults : faults = [x \in DOMAIN o.faults \ scenarios |-> o.faults[x]]
            OBVIOUS
        <3>2. p = [o EXCEPT !.faults = faults]
            BY <2>2, <3>1 DEF Cleared
        <3> QED BY <1>0, <3>2 DEF OpsFields
    <2>4. Reaches(at, Stage(p, at.events \o StartedRow("cleared")))
        BY <2>3, ChaosWritten
    <2> QED BY <2>1, <2>2, <2>4, StagedShort
<1>11. CASE path = "resetWatch"
    <2>1. PICK p : p = WatchReset(o)
        OBVIOUS
    <2>2. /\ DOMAIN p = OpsFields /\ p.failover = o.failover /\ p.restore = o.restore
          /\ p.injected = o.injected /\ p.seq = o.seq /\ p.watch = NewWatch
        BY <1>0, <2>1 DEF OpsFields, WatchReset
    <2>3. Reaches(at, Stage(p, at.events))
        BY <2>2, NoRow, NewWatchHolds
    <2>4. handler = <<Stage(p, at.events)>>
        BY <1>11, <2>1 DEF HandlerStages
    <2> QED BY <2>3, <2>4, StagedShort
<1>12. CASE path = "simulate"
    <2>1. PICK p : p = AlertSimulated(o)
        OBVIOUS
    <2>2. /\ DOMAIN p = OpsFields /\ p.failover = o.failover /\ p.restore = o.restore
          /\ p.injected = o.injected /\ p.seq = o.seq /\ p.watch = o.watch
        BY <1>0, <2>1 DEF OpsFields, AlertSimulated
    <2>3. Reaches(at, Stage(p, at.events))
        BY <2>2, NoRow
    <2>4. handler = <<Stage(p, at.events)>>
        BY <1>12, <2>1 DEF HandlerStages
    <2> QED BY <2>3, <2>4, StagedShort
<1>13. CASE path \in {"sql", "read"}
    <2>1. handler = <<at>>
        BY <1>13 DEF HandlerStages
    <2> QED BY <2>1, ReachesItself, StagedShort
<1> QED BY <1>1, <1>2, <1>3, <1>4, <1>5, <1>6, <1>7, <1>8, <1>9, <1>10, <1>11, <1>12, <1>13 DEF Paths

LEMMA CountGrows ==
    ASSUME NEW traces \in Seq(Trace), NEW t \in Trace, NEW kind
    PROVE  /\ CountOf(traces, kind) \in Nat
           /\ CountOf(Append(traces, t), kind) = CountOf(traces, kind) + (IF t \in kind THEN 1 ELSE 0)
<1> DEFINE n == Len(traces) + 1
           longer == Append(traces, t)
           before == {i \in DOMAIN traces : traces[i] \in kind}
           after == {i \in DOMAIN longer : longer[i] \in kind}
<1>1. /\ DOMAIN longer = DOMAIN traces \cup {n} /\ longer[n] = t /\ n \notin DOMAIN traces
      /\ \A i \in DOMAIN traces : longer[i] = traces[i]
    OBVIOUS
<1>2. IsFiniteSet(before) /\ Cardinality(before) \in Nat
    <2>1. IsFiniteSet(1..Len(traces)) /\ before \subseteq 1..Len(traces)
        BY FS_Interval
    <2> HIDE DEF before
    <2> QED BY <2>1, FS_Subset, FS_CardinalityType
<1>3. CountOf(traces, kind) = Cardinality(before) /\ CountOf(longer, kind) = Cardinality(after)
    BY DEF CountOf
<1>4. CASE t \in kind
    <2>1. after = before \cup {n} /\ n \notin before
        BY <1>1, <1>4
    <2> HIDE DEF before, after, longer
    <2>2. Cardinality(after) = Cardinality(before) + 1
        BY <1>2, <2>1, FS_AddElement
    <2> QED BY <1>2, <1>3, <1>4, <2>2 DEF longer
<1>5. CASE t \notin kind
    <2>1. after = before
        BY <1>1, <1>5
    <2> HIDE DEF before, after, longer
    <2>2. CountOf(longer, kind) = CountOf(traces, kind) + 0
        BY <1>2, <1>3, <2>1
    <2> QED BY <1>2, <1>3, <1>5, <2>2 DEF longer
<1> QED BY <1>4, <1>5

\* The counters and traces of a watch once a request is recorded.
OneMore(holds) == IF holds THEN 1 ELSE 0
WatchOn(w, t) ==
    [requests |-> w.requests + 1, serverErrors |-> w.serverErrors + OneMore(t.status >= 500),
     clientErrors |-> w.clientErrors + OneMore(t.status \in 400..499), sql |-> w.sql + OneMore(t.sql),
     sqlFailed |-> w.sqlFailed + OneMore(t.sql /\ t.status >= 400),
     traces |-> LatestTraces(Append(w.traces, t))]

LEMMA WatchGoesOn ==
    ASSUME NEW w, NEW seq \in Nat, WatchHolds(w, seq), NEW t \in Trace, t.seq = seq + 1
    PROVE  WatchHolds(WatchOn(w, t), seq + 1)
<1>1. PICK c \in Nat : c = TraceCapacity
    BY OperationsAssumption
<1>2. PICK r \in Nat : r = w.requests
    BY DEF WatchHolds
<1>3. PICK old \in Seq(Trace) : old = w.traces
    BY DEF WatchHolds
<1>4. PICK k \in Nat : k = Len(old) /\ k = (IF r < c THEN r ELSE c) /\ \A i \in 1..k : old[i].seq = seq - k + i
    <2>1. Len(old) = IF r < c THEN r ELSE c
        BY <1>1, <1>2, <1>3 DEF WatchHolds
    <2>2. \A i \in DOMAIN old : old[i].seq = seq - Len(old) + i
        BY <1>3 DEF WatchHolds
    <2>3. Len(old) \in Nat /\ DOMAIN old = 1..Len(old)
        OBVIOUS
    <2> QED BY <2>1, <2>2, <2>3
<1>5. PICK longer \in Seq(Trace) : longer = Append(old, t)
    <2>1. Append(old, t) \in Seq(Trace)
        OBVIOUS
    <2> QED BY <2>1
<1>6. Len(longer) = k + 1 /\ longer[k + 1] = t /\ \A i \in 1..k : longer[i] = old[i]
    <2>1. Len(Append(old, t)) = Len(old) + 1 /\ Append(old, t)[Len(old) + 1] = t
        OBVIOUS
    <2>2. ASSUME NEW i \in 1..k PROVE longer[i] = old[i]
        <3>1. i \in 1..Len(old)
            BY <1>4
        <3> QED BY <1>5, <3>1
    <2>3. Len(longer) = Len(old) + 1 /\ longer[Len(old) + 1] = t
        BY <1>5, <2>1
    <2> QED BY <1>4, <2>2, <2>3
<1>7. \A i \in 1..Len(longer) : longer[i].seq = seq + 1 - Len(longer) + i
    <2> TAKE i \in 1..Len(longer)
    <2>1. CASE i <= k
        <3>1. i \in 1..k
            BY <1>6, <2>1
        <3>2. old[i].seq = seq - k + i
            BY <1>4, <3>1
        <3>3. longer[i] = old[i]
            BY <1>6, <3>1
        <3>4. i \in Nat
            OBVIOUS
        <3>5. seq - k + i = seq + 1 - (k + 1) + i
            BY <3>4
        <3> QED BY <1>6, <3>2, <3>3, <3>5
    <2>2. CASE i = k + 1
        BY <1>6, <2>2
    <2> QED BY <1>4, <1>6, <2>1, <2>2
<1>8. PICK new : new = LatestTraces(longer)
    OBVIOUS
<1>9. /\ new \in Seq(Trace) /\ Len(new) = (IF r + 1 < c THEN r + 1 ELSE c)
      /\ \A i \in 1..Len(new) : new[i].seq = seq + 1 - Len(new) + i
    <2>1. CASE Len(longer) > c
        <3>1. new = Tail(longer)
            BY <1>1, <1>8, <2>1 DEF LatestTraces
        <3>2. /\ Tail(longer) \in Seq(Trace) /\ Len(Tail(longer)) = Len(longer) - 1
              /\ \A i \in 1..Len(Tail(longer)) : Tail(longer)[i] = longer[i + 1]
            BY <1>6
        <3>3. ASSUME NEW i \in 1..Len(new) PROVE new[i].seq = seq + 1 - Len(new) + i
            <4>1. i + 1 \in 1..Len(longer) /\ new[i] = longer[i + 1]
                BY <3>1, <3>2
            <4> QED BY <1>7, <3>1, <3>2, <4>1
        <3>4. Len(new) = IF r + 1 < c THEN r + 1 ELSE c
            BY <1>4, <1>6, <2>1, <3>1, <3>2
        <3> QED BY <3>1, <3>2, <3>3, <3>4
    <2>2. CASE Len(longer) <= c
        <3>1. new = longer
            BY <1>1, <1>8, <2>2 DEF LatestTraces
        <3>2. Len(new) = IF r + 1 < c THEN r + 1 ELSE c
            BY <1>4, <1>6, <2>2, <3>1
        <3> QED BY <1>7, <3>1, <3>2
    <2> QED BY <1>6, <2>1, <2>2
<1>10. ASSUME r + 1 <= c PROVE new = longer
    BY <1>1, <1>4, <1>6, <1>8, <1>10 DEF LatestTraces
<1>11. ASSUME r + 1 <= c, NEW kind
       PROVE  CountOf(new, kind) = CountOf(old, kind) + OneMore(t \in kind)
    <2>1. CountOf(longer, kind) = CountOf(old, kind) + (IF t \in kind THEN 1 ELSE 0)
        BY <1>5, CountGrows
    <2>2. new = longer
        BY <1>10, <1>11
    <2>3. OneMore(t \in kind) = IF t \in kind THEN 1 ELSE 0
        BY DEF OneMore
    <2> QED BY <2>1, <2>2, <2>3
<1>12. ASSUME r + 1 <= c
       PROVE  /\ w.serverErrors + OneMore(t.status >= 500) = CountOf(new, {x \in Trace : x.status >= 500})
              /\ w.clientErrors + OneMore(t.status \in 400..499) = CountOf(new, {x \in Trace : x.status \in 400..499})
              /\ w.sql + OneMore(t.sql) = CountOf(new, {x \in Trace : x.sql})
              /\ w.sqlFailed + OneMore(t.sql /\ t.status >= 400) = CountOf(new, {x \in Trace : x.sql /\ x.status >= 400})
    <2>0. r <= c
        BY <1>12
    <2>1. /\ w.serverErrors = CountOf(old, {x \in Trace : x.status >= 500})
          /\ w.clientErrors = CountOf(old, {x \in Trace : x.status \in 400..499})
          /\ w.sql = CountOf(old, {x \in Trace : x.sql})
          /\ w.sqlFailed = CountOf(old, {x \in Trace : x.sql /\ x.status >= 400})
        BY <1>1, <1>2, <1>3, <2>0 DEF WatchHolds
    <2>2. /\ OneMore(t \in {x \in Trace : x.status >= 500}) = OneMore(t.status >= 500)
          /\ OneMore(t \in {x \in Trace : x.status \in 400..499}) = OneMore(t.status \in 400..499)
          /\ OneMore(t \in {x \in Trace : x.sql}) = OneMore(t.sql)
          /\ OneMore(t \in {x \in Trace : x.sql /\ x.status >= 400}) = OneMore(t.sql /\ t.status >= 400)
        BY DEF OneMore
    <2> QED BY <1>11, <1>12, <2>1, <2>2
<1>13. PICK n : n = WatchOn(w, t)
    OBVIOUS
<1>14. /\ n.requests = r + 1 /\ n.traces = new
       /\ n.serverErrors = w.serverErrors + OneMore(t.status >= 500)
       /\ n.clientErrors = w.clientErrors + OneMore(t.status \in 400..499)
       /\ n.sql = w.sql + OneMore(t.sql) /\ n.sqlFailed = w.sqlFailed + OneMore(t.sql /\ t.status >= 400)
    BY <1>2, <1>3, <1>5, <1>8, <1>13 DEF WatchOn
<1>15. n.requests <= TraceCapacity => r + 1 <= c
    BY <1>1, <1>9, <1>14
<1>16. Len(n.traces) = IF n.requests < TraceCapacity THEN n.requests ELSE TraceCapacity
    BY <1>1, <1>9, <1>14
<1>17. \A i \in DOMAIN n.traces : n.traces[i].seq = seq + 1 - Len(n.traces) + i
    <2>1. DOMAIN new = 1..Len(new)
        BY <1>9
    <2> QED BY <1>9, <1>14, <2>1
<1>18. n.requests <= TraceCapacity =>
          /\ n.serverErrors = CountOf(n.traces, {x \in Trace : x.status >= 500})
          /\ n.clientErrors = CountOf(n.traces, {x \in Trace : x.status \in 400..499})
          /\ n.sql = CountOf(n.traces, {x \in Trace : x.sql})
          /\ n.sqlFailed = CountOf(n.traces, {x \in Trace : x.sql /\ x.status >= 400})
    BY <1>12, <1>14, <1>15
<1>19. WatchHolds(n, seq + 1)
    BY <1>9, <1>14, <1>16, <1>17, <1>18 DEF WatchHolds
<1> QED BY <1>13, <1>19

\* A request that is answered is recorded.
LEMMA RecordedInShape ==
    ASSUME NEW at, InShape(at), NEW path, NEW status \in Nat
    PROVE  /\ InShape(Stage(Recorded(at.ops, path, status), at.events))
           /\ MeasuresHold(at) => MeasuresHold(Stage(Recorded(at.ops, path, status), at.events))
<1> DEFINE o == at.ops
<1>0. DOMAIN o = OpsFields /\ o.seq \in Nat /\ WatchHolds(o.watch, o.seq)
    BY DEF InShape, Shaped
<1>1. PICK isSql \in BOOLEAN : isSql <=> (path = "sql")
    OBVIOUS
<1>2. PICK t \in Trace : t = [seq |-> o.seq + 1, sql |-> path = "sql", status |-> status]
    <2>1. [seq |-> o.seq + 1, sql |-> path = "sql", status |-> status] \in Trace
        BY <1>0 DEF Trace
    <2> QED BY <2>1
<1>3. t.seq = o.seq + 1 /\ (t.sql <=> path = "sql") /\ t.status = status
    BY <1>2
<1>4. PICK w : w = WatchOn(o.watch, t)
    OBVIOUS
<1>5. WatchHolds(w, o.seq + 1)
    BY <1>0, <1>3, <1>4, WatchGoesOn
<1>6. Recorded(o, path, status) = [o EXCEPT !.seq = o.seq + 1, !.watch = w]
    <2>1. w = [requests |-> o.watch.requests + 1,
               serverErrors |-> o.watch.serverErrors + OneMore(status >= 500),
               clientErrors |-> o.watch.clientErrors + OneMore(status \in 400..499),
               sql |-> o.watch.sql + OneMore(path = "sql"),
               sqlFailed |-> o.watch.sqlFailed + OneMore(path = "sql" /\ status >= 400),
               traces |-> LatestTraces(Append(o.watch.traces,
                             [seq |-> o.seq + 1, sql |-> path = "sql", status |-> status]))]
        BY <1>2, <1>3, <1>4 DEF WatchOn, OneMore
    <2> QED BY <1>0, <2>1 DEF Recorded, OneMore, OpsFields
<1>7. PICK p : p = [o EXCEPT !.seq = o.seq + 1, !.watch = w]
    OBVIOUS
<1>8. /\ DOMAIN p = OpsFields /\ p.failover = o.failover /\ p.restore = o.restore
      /\ p.injected = o.injected /\ p.seq = o.seq + 1 /\ p.watch = w
    BY <1>0, <1>7 DEF OpsFields
<1>9. InShape(Stage(p, at.events))
    BY <1>0, <1>5, <1>8 DEF InShape, Shaped, Stage
<1>10. MeasuresHold(at) => MeasuresHold(Stage(p, at.events))
    BY <1>8 DEF MeasuresHold, Stage
<1> QED BY <1>6, <1>7, <1>9, <1>10

-----------------------------------------------------------------------------
OpsInv ==
    /\ opClock \in Nat
    /\ InShape(Stage(ops, opEvents))
    /\ ~opLost => MeasuresHold(Stage(ops, opEvents))

\* What holds of a stage goes on holding as the time passes.
LEMMA AsTimePasses ==
    ASSUME NEW at, opClock \in Nat, opClock' \in Nat, opClock <= opClock', InShape(at)
    PROVE  InShape(at)' /\ (MeasuresHold(at) => MeasuresHold(at)')
<1>1. ASSUME NEW m, Timed(m) PROVE Timed(m)'
    BY <1>1 DEF Timed, Measures, Never
<1>2. ASSUME NEW m, Timed(m), NEW tally, Tallied(m, tally) PROVE Tallied(m, tally)'
    <2>1. m.since \in Nat \cup {Never} /\ m.total \in Nat
        BY <1>2 DEF Timed, Measures
    <2> QED BY <1>2, <2>1 DEF Tallied, Passed
<1>3. InShape(at)'
    BY <1>1 DEF InShape, Shaped, WatchHolds
<1>4. ASSUME MeasuresHold(at) PROVE MeasuresHold(at)'
    BY <1>2, <1>4 DEF MeasuresHold, InShape, Shaped
<1> QED BY <1>3, <1>4

LEMMA OpsInvLater ==
    ASSUME NEW at, opClock \in Nat, opClock' \in Nat, opClock <= opClock', InShape(at),
           at = Stage(ops', opEvents'), ~opLost' => MeasuresHold(at)
    PROVE  OpsInv'
<1>1. InShape(at)' /\ (MeasuresHold(at) => MeasuresHold(at)')
    BY AsTimePasses
<1>2. PICK o, e : o = ops' /\ e = opEvents'
    OBVIOUS
<1>3. at = Stage(o, e) /\ at.ops = o /\ at.events = e
    BY <1>2, StageFields
<1>4. InShape(Stage(ops, opEvents))'
    BY <1>1, <1>2, <1>3 DEF InShape, Stage
<1>5. ~opLost' => MeasuresHold(Stage(ops, opEvents))'
    BY <1>1, <1>2, <1>3 DEF MeasuresHold, Stage
<1> QED BY <1>4, <1>5 DEF OpsInv

\* A run through the stages, to the end or to a write that fails.
LEMMA RunKeeps ==
    ASSUME opClock \in Nat, opClock' = opClock, NEW at, InShape(at), at.events = opEvents,
           ~opLost => MeasuresHold(at), NEW stages, Staged(at, stages), NEW done \in 0..Len(stages),
           NEW path, NEW status \in Nat, RunsTo(stages, done, path, status)
    PROVE  OpsInv'
<1>1. Len(stages) \in Nat \ {0} /\ \A n \in 1..Len(stages) : Reaches(at, stages[n])
    BY DEF Staged
<1>2. PICK e : e = opEvents'
    OBVIOUS
<1>3. PICK before : before = IF done = 0 THEN at ELSE stages[done]
    OBVIOUS
<1>4. Reaches(at, before) /\ before.events = e
    <2>1. done # 0 => done \in 1..Len(stages)
        BY <1>1
    <2>2. e = IF done = 0 THEN opEvents ELSE stages[done].events
        BY <1>2 DEF RunsTo
    <2> QED BY <1>1, <1>3, <2>1, <2>2, ReachesItself
<1>5. InShape(before)
    BY <1>4 DEF Reaches
<1>6. CASE done < Len(stages)
    <2>1. PICK next : next = stages[done + 1]
        OBVIOUS
    <2>2. InShape(next)
        BY <1>1, <1>6, <2>1 DEF Reaches
    <2>3. PICK o : o = next.ops
        OBVIOUS
    <2>4. ops' = o /\ opLost' = (opLost \/ done < Len(stages))
        BY <1>6, <2>1, <2>3 DEF RunsTo
    <2>5. PICK to : to = Stage(o, e)
        OBVIOUS
    <2>6. InShape(to)
        BY <1>4, <1>5, <2>2, <2>3, <2>5 DEF InShape, Stage
    <2>7. opLost'
        BY <1>6, <2>4
    <2> QED BY <1>2, <2>4, <2>5, <2>6, <2>7, OpsInvLater
<1>7. CASE ~(done < Len(stages))
    <2>0. done = Len(stages) /\ done # 0
        BY <1>1, <1>7
    <2>1. before = Last(stages)
        BY <1>3, <2>0 DEF Last
    <2>2. PICK o : o = Recorded(before.ops, path, status)
        OBVIOUS
    <2>3. ops' = o /\ opLost' = (opLost \/ done < Len(stages))
        BY <1>7, <2>1, <2>2 DEF RunsTo
    <2>4. PICK to : to = Stage(o, e)
        OBVIOUS
    <2>5. InShape(to) /\ (MeasuresHold(before) => MeasuresHold(to))
        BY <1>4, <1>5, <2>2, <2>4, RecordedInShape
    <2>6. ~opLost' => MeasuresHold(before)
        BY <1>4, <2>3 DEF Reaches
    <2> QED BY <1>2, <2>3, <2>4, <2>5, <2>6, OpsInvLater
<1> QED BY <1>6, <1>7

LEMMA StatusesAreNumbers ==
    ASSUME NEW path, NEW status \in Statuses(path) \cup Refusals
    PROVE  status \in Nat
BY DEF Statuses, Refusals

\* A server that has expired the faults that are over.
LEMMA FaultsExpired ==
    ASSUME OpsInv
    PROVE  \E at : /\ at = Stage([ops EXCEPT !.faults = Unexpired(@)], opEvents)
                   /\ at.ops = [ops EXCEPT !.faults = Unexpired(@)] /\ at.events = opEvents
                   /\ InShape(at) /\ (~opLost => MeasuresHold(at))
<1>1. PICK now : now = Stage(ops, opEvents)
    OBVIOUS
<1>2. now.ops = ops /\ now.events = opEvents /\ InShape(now) /\ (~opLost => MeasuresHold(now))
    BY <1>1, StageFields DEF OpsInv
<1>3. DOMAIN ops = OpsFields
    BY <1>2 DEF InShape, Shaped
<1>4. PICK faults : faults = Unexpired(ops.faults)
    OBVIOUS
<1>5. PICK o : o = [ops EXCEPT !.faults = faults]
    OBVIOUS
<1>6. /\ DOMAIN o = OpsFields /\ o.failover = now.ops.failover /\ o.restore = now.ops.restore
      /\ o.injected = now.ops.injected /\ o.seq = now.ops.seq /\ o.watch = now.ops.watch
    BY <1>2, <1>3, <1>5 DEF OpsFields
<1>7. Reaches(now, Stage(o, opEvents))
    BY <1>2, <1>6, NoRow
<1>8. o = [ops EXCEPT !.faults = Unexpired(@)]
    BY <1>4, <1>5
<1>9. InShape(Stage(o, opEvents)) /\ (~opLost => MeasuresHold(Stage(o, opEvents)))
    BY <1>2, <1>7 DEF Reaches
<1> QED BY <1>8, <1>9, StageFields

LEMMA RequestKeeps ==
    ASSUME OpsInv, NEW path \in Paths, Request(path)
    PROVE  OpsInv'
<1>0. opClock \in Nat /\ opClock' = opClock
    BY DEF OpsInv, Request
<1>1. PICK at : /\ at = Stage([ops EXCEPT !.faults = Unexpired(@)], opEvents)
                /\ at.ops = [ops EXCEPT !.faults = Unexpired(@)] /\ at.events = opEvents
                /\ InShape(at) /\ (~opLost => MeasuresHold(at))
    BY FaultsExpired
<1>2. PICK tick : tick = TickStages(at, path)
    OBVIOUS
<1>3. Staged(at, tick)
    BY <1>0, <1>1, <1>2, TickStaged
<1>4. IF Blocks(at.ops, path)
      THEN ops' = Recorded([at.ops EXCEPT !.blocked = @ + 1], path, 503) /\ UNCHANGED <<opEvents, opLost>>
      ELSE \/ \E handler \in HandlerStages(Last(tick), path), status \in Statuses(path) :
                 \E done \in Runs(Len(tick \o handler)) : RunsTo(tick \o handler, done, path, status)
           \/ \E status \in Refusals, done \in Runs(Len(tick)) : RunsTo(tick, done, path, status)
    BY <1>1, <1>2 DEF Request
<1>5. CASE Blocks(at.ops, path)
    <2>1. PICK o : o = [at.ops EXCEPT !.blocked = @ + 1]
        OBVIOUS
    <2>2. DOMAIN at.ops = OpsFields
        BY <1>1 DEF InShape, Shaped
    <2>3. /\ DOMAIN o = OpsFields /\ o.failover = at.ops.failover /\ o.restore = at.ops.restore
          /\ o.injected = at.ops.injected /\ o.seq = at.ops.seq /\ o.watch = at.ops.watch
        BY <2>1, <2>2 DEF OpsFields
    <2>4. PICK blocked : blocked = Stage(o, at.events)
        OBVIOUS
    <2>5. /\ blocked.ops = o /\ blocked.events = opEvents
          /\ InShape(blocked) /\ (~opLost => MeasuresHold(blocked))
        BY <1>1, <2>3, <2>4, NoRow, StageFields DEF Reaches
    <2>6. PICK to : to = Stage(Recorded(blocked.ops, path, 503), blocked.events)
        OBVIOUS
    <2>7. InShape(to) /\ (~opLost => MeasuresHold(to))
        BY <2>5, <2>6, RecordedInShape
    <2>8. to = Stage(ops', opEvents') /\ opLost' = opLost
        BY <1>4, <1>5, <2>1, <2>5, <2>6
    <2> QED BY <1>0, <2>7, <2>8, OpsInvLater
<1>6. CASE /\ ~Blocks(at.ops, path)
           /\ \E handler \in HandlerStages(Last(tick), path), status \in Statuses(path) :
                 \E done \in Runs(Len(tick \o handler)) : RunsTo(tick \o handler, done, path, status)
    <2>1. PICK handler \in HandlerStages(Last(tick), path), status \in Statuses(path) :
             \E done \in Runs(Len(tick \o handler)) : RunsTo(tick \o handler, done, path, status)
        BY <1>6
    <2>2. PICK stages : stages = tick \o handler
        OBVIOUS
    <2>3. PICK done \in Runs(Len(stages)) : RunsTo(stages, done, path, status)
        BY <2>1, <2>2
    <2>4. PICK last : last = Last(tick)
        OBVIOUS
    <2>5. InShape(last)
        <3>1. Len(tick) \in 1..Len(tick)
            BY <1>3 DEF Staged
        <3> QED BY <1>1, <1>3, <2>4, <3>1 DEF Staged, Reaches, Last
    <2>6. Staged(last, handler)
        BY <1>0, <2>1, <2>4, <2>5, HandlerStaged
    <2>7. Staged(at, stages)
        BY <1>3, <2>2, <2>4, <2>6, StagedTogether
    <2>8. done \in 0..Len(stages) /\ status \in Nat
        BY <2>1, <2>3, <2>7, StatusesAreNumbers DEF Runs, Staged
    <2> QED BY <1>0, <1>1, <2>3, <2>7, <2>8, RunKeeps
<1>7. CASE /\ ~Blocks(at.ops, path)
           /\ \E status \in Refusals, done \in Runs(Len(tick)) : RunsTo(tick, done, path, status)
    <2>1. PICK status \in Refusals, done \in Runs(Len(tick)) : RunsTo(tick, done, path, status)
        BY <1>7
    <2>2. done \in 0..Len(tick) /\ status \in Nat
        BY <1>3, <2>1, StatusesAreNumbers DEF Runs, Staged
    <2> QED BY <1>0, <1>1, <1>3, <2>1, <2>2, RunKeeps
<1> QED BY <1>4, <1>5, <1>6, <1>7

\* A restart counts what the rows come to.
LEMMA RecountedFacts ==
    ASSUME NEW events \in Seq(OpRow), NEW start, NEW end
    PROVE  /\ Recounted(events, start, end) =
                 [events |-> Tally(events, start).rows, done |-> Tally(events, end).rows, since |-> Never,
                  last |-> Tally(events, end).last, total |-> Tally(events, end).units]
           /\ Recounted(events, start, end) \in Measures
<1>1. Recounted(events, start, end) =
         [events |-> Tally(events, start).rows, done |-> Tally(events, end).rows, since |-> Never,
          last |-> Tally(events, end).last, total |-> Tally(events, end).units]
    BY DEF Recounted, Tally
<1>2. /\ Tally(events, start).rows \in Nat /\ Tally(events, end).rows \in Nat
      /\ Tally(events, end).units \in Nat
    BY RowsAreFinite DEF Tally
<1>3. Tally(events, end).last \in Nat \cup {Never}
    <2> DEFINE ends == RowsOf(events, end)
    <2>1. ends \subseteq 1..Len(events) /\ IsFiniteSet(ends) /\ Cardinality(ends) \in Nat
        BY RowsAreFinite
    <2>2. CASE ends = {}
        BY <2>2 DEF Tally
    <2>3. CASE ends # {}
        <3>1. ends \subseteq Nat /\ Cardinality(ends) # 0
            BY <2>1, <2>3, FS_EmptySet
        <3> HIDE DEF ends
        <3>2. Cardinality(ends) \in 1..Cardinality(ends)
            BY <2>1, <3>1
        <3>3. LatestOf(ends) \in ends
            BY <2>1, <3>1, <3>2, NthFacts DEF LatestOf
        <3>4. PICK row \in OpRow : row = events[LatestOf(ends)]
            <4>1. PICK i \in 1..Len(events) : i = LatestOf(ends)
                BY <2>1, <3>3
            <4>2. events[i] \in OpRow
                OBVIOUS
            <4> QED BY <4>1, <4>2
        <3>5. Tally(events, end).last = row.duration
            BY <2>3, <3>4 DEF Tally, ends
        <3> QED BY <3>5 DEF OpRow
    <2> QED BY <2>2, <2>3
<1> QED BY <1>1, <1>2, <1>3 DEF Measures

LEMMA RestartKeeps ==
    ASSUME OpsInv, RestartServer
    PROVE  OpsInv'
<1>0. opClock \in Nat /\ opClock' = opClock /\ opEvents' = opEvents /\ opLost' = opLost
    BY DEF OpsInv, RestartServer
<1>1. PICK now : now = Stage(ops, opEvents)
    OBVIOUS
<1>2. now.ops = ops /\ now.events = opEvents /\ InShape(now) /\ (~opLost => MeasuresHold(now))
    BY <1>1, StageFields DEF OpsInv
<1>3. opEvents \in Seq(OpRow)
    BY <1>2 DEF InShape
<1>4. PICK failover, restore, injected :
         /\ failover = Recounted(opEvents, "failover_started", "failover_completed")
         /\ restore = Recounted(opEvents, "restore_started", "restore_completed")
         /\ injected = Recounted(opEvents, "injected", "cleared").events
    OBVIOUS
<1>5. PICK o : o = [NewOps EXCEPT !.failover = failover, !.restore = restore, !.injected = injected]
    OBVIOUS
<1>6. ops' = o
    BY <1>4, <1>5 DEF RestartServer
<1>7. /\ DOMAIN o = OpsFields /\ o.failover = failover /\ o.restore = restore /\ o.injected = injected
      /\ o.seq = 0 /\ o.watch = NewWatch
    BY <1>5 DEF NewOps, OpsFields
<1>8. failover \in Measures /\ restore \in Measures /\ injected = Tally(opEvents, "injected").rows
    BY <1>3, <1>4, RecountedFacts
<1>9. /\ failover.since = Never /\ restore.since = Never /\ Never <= opClock
    BY <1>0, <1>3, <1>4, RecountedFacts DEF Never
<1>10. injected \in Nat
    BY <1>3, <1>8, RowsAreFinite DEF Tally
<1>11. PICK to : to = Stage(o, opEvents)
    OBVIOUS
<1>12. InShape(to)
    BY <1>3, <1>7, <1>8, <1>9, <1>10, <1>11, NewWatchHolds DEF InShape, Shaped, Timed, Stage
<1>13. ASSUME MeasuresHold(now) PROVE MeasuresHold(to)
    <2>1. Tallied(failover, Tally(opEvents, "failover_completed"))
        <3>1. Tallied(ops.failover, Tally(opEvents, "failover_completed")) /\ Timed(ops.failover)
            BY <1>2, <1>13 DEF MeasuresHold, InShape, Shaped
        <3>2. PICK units \in Nat : units = Tally(opEvents, "failover_completed").units
            BY <1>3, RowsAreFinite DEF Tally
        <3>3. units <= opClock
            BY <1>0, <3>1, <3>2 DEF Tallied, Passed, Timed, Measures, Never
        <3>4. failover.done = Tally(opEvents, "failover_completed").rows
              /\ failover.last = Tally(opEvents, "failover_completed").last /\ failover.total = units
            BY <1>3, <1>4, <3>2, RecountedFacts
        <3> QED BY <1>9, <3>2, <3>3, <3>4 DEF Tallied, Passed
    <2>2. Tallied(restore, Tally(opEvents, "restore_completed"))
        <3>1. Tallied(ops.restore, Tally(opEvents, "restore_completed")) /\ Timed(ops.restore)
            BY <1>2, <1>13 DEF MeasuresHold, InShape, Shaped
        <3>2. PICK units \in Nat : units = Tally(opEvents, "restore_completed").units
            BY <1>3, RowsAreFinite DEF Tally
        <3>3. units <= opClock
            BY <1>0, <3>1, <3>2 DEF Tallied, Passed, Timed, Measures, Never
        <3>4. restore.done = Tally(opEvents, "restore_completed").rows
              /\ restore.last = Tally(opEvents, "restore_completed").last /\ restore.total = units
            BY <1>3, <1>4, <3>2, RecountedFacts
        <3> QED BY <1>9, <3>2, <3>3, <3>4 DEF Tallied, Passed
    <2>3. failover.done <= Tally(opEvents, "failover_started").rows
        <3>1. PICK done, begun \in Nat : /\ done = Tally(opEvents, "failover_completed").rows
                                        /\ begun = Tally(opEvents, "failover_started").rows
            BY <1>3, RowsAreFinite DEF Tally
        <3>2. ops.failover.done = done /\ ops.failover.done + (IF ops.failover.since = Never THEN 0 ELSE 1) <= begun
            BY <1>2, <1>13, <3>1 DEF MeasuresHold, Tallied
        <3>3. done <= begun
            BY <3>1, <3>2
        <3> QED BY <1>3, <1>4, <3>1, <3>3, RecountedFacts
    <2>4. failover.done + (IF failover.since = Never THEN 0 ELSE 1) <= Tally(opEvents, "failover_started").rows
        BY <1>8, <1>9, <2>3 DEF Measures
    <2> QED BY <1>7, <1>8, <1>11, <2>1, <2>2, <2>4 DEF MeasuresHold, Stage
<1> QED BY <1>0, <1>2, <1>6, <1>11, <1>12, <1>13, OpsInvLater

LEMMA OpsInvInit ==
    ASSUME OperationsInit
    PROVE  OpsInv
<1>0. opClock = 0 /\ opClock \in Nat /\ ops = NewOps /\ opEvents = << >>
    BY DEF OperationsInit
<1>1. opEvents \in Seq(OpRow)
    BY <1>0
<1>2. NewMeasure \in Measures /\ Timed(NewMeasure)
    BY <1>0 DEF NewMeasure, Measures, Timed, Never
<1>3. InShape(Stage(ops, opEvents))
    BY <1>0, <1>1, <1>2, NewWatchHolds DEF InShape, Shaped, Stage, NewOps, OpsFields
<1>4. \A type : RowsOf(opEvents, type) = {}
    BY <1>0 DEF RowsOf
<1>5. \A type : UnitsOf(opEvents, type) = {}
    BY <1>4 DEF UnitsOf
<1>6. \A type : Tally(opEvents, type) = [rows |-> 0, last |-> Never, units |-> 0]
    BY <1>4, <1>5, FS_EmptySet DEF Tally
<1>7. \A type : Tallied(NewMeasure, Tally(opEvents, type))
    BY <1>0, <1>6 DEF Tallied, Passed, NewMeasure
<1>8. MeasuresHold(Stage(ops, opEvents))
    BY <1>0, <1>6, <1>7 DEF MeasuresHold, Stage, NewOps, NewMeasure
<1> QED BY <1>0, <1>3, <1>8 DEF OpsInv

LEMMA OpsInvStep ==
    ASSUME OpsInv, [OperationsNext]_operationsVars
    PROVE  OpsInv'
<1>1. PICK now : now = Stage(ops, opEvents)
    OBVIOUS
<1>2. opClock \in Nat /\ InShape(now) /\ (~opLost => MeasuresHold(now))
    BY <1>1 DEF OpsInv
<1>3. ASSUME NEW path \in Paths, Request(path) PROVE OpsInv'
    BY <1>3, RequestKeeps
<1>4. CASE PassTime
    <2>1. opClock' = opClock + 1 /\ ops' = ops /\ opEvents' = opEvents /\ opLost' = opLost
        BY <1>4 DEF PassTime
    <2>2. opClock' \in Nat /\ opClock <= opClock'
        BY <1>2, <2>1
    <2> QED BY <1>1, <1>2, <2>1, <2>2, OpsInvLater
<1>5. CASE RestartServer
    BY <1>5, RestartKeeps
<1>6. CASE UNCHANGED operationsVars
    <2>1. opClock' = opClock /\ ops' = ops /\ opEvents' = opEvents /\ opLost' = opLost
        BY <1>6 DEF operationsVars
    <2>2. opClock' \in Nat /\ opClock <= opClock'
        BY <1>2, <2>1
    <2> QED BY <1>1, <1>2, <2>1, <2>2, OpsInvLater
<1> QED BY <1>3, <1>4, <1>5, <1>6 DEF OperationsNext

LEMMA OpsInvSays ==
    ASSUME OpsInv
    PROVE  MeasuresOnRecord /\ RequestsAddUp
<1>1. PICK now : now = Stage(ops, opEvents)
    OBVIOUS
<1>2. now.ops = ops /\ now.events = opEvents /\ InShape(now) /\ (~opLost => MeasuresHold(now))
    BY <1>1, StageFields DEF OpsInv
<1>3. opEvents \in Seq(OpRow) /\ WatchHolds(ops.watch, ops.seq)
    BY <1>2 DEF InShape, Shaped
<1>4. ASSUME ~opLost
      PROVE  /\ OnRecord(ops.failover, "failover_started", "failover_completed")
             /\ OnRecord(ops.restore, "restore_started", "restore_completed")
             /\ ops.failover.done <= Recounted(opEvents, "failover_started", "failover_completed").events
             /\ ops.injected = Recounted(opEvents, "injected", "cleared").events
    <2>1. MeasuresHold(now)
        BY <1>2, <1>4
    <2>2. OnRecord(ops.failover, "failover_started", "failover_completed")
        BY <1>2, <1>3, <2>1, RecountedFacts DEF MeasuresHold, Tallied, Passed, OnRecord
    <2>3. OnRecord(ops.restore, "restore_started", "restore_completed")
        BY <1>2, <1>3, <2>1, RecountedFacts DEF MeasuresHold, Tallied, Passed, OnRecord
    <2>4. ops.failover.done <= Recounted(opEvents, "failover_started", "failover_completed").events
        <3>1. PICK begun \in Nat : begun = Tally(opEvents, "failover_started").rows
            BY <1>3, RowsAreFinite DEF Tally
        <3>2. PICK done \in Nat : done = ops.failover.done
            BY <1>2 DEF InShape, Shaped, Timed, Measures
        <3>3. done + (IF ops.failover.since = Never THEN 0 ELSE 1) <= begun
            BY <1>2, <2>1, <3>1, <3>2 DEF MeasuresHold
        <3>4. done <= begun
            BY <3>3
        <3> QED BY <1>3, <3>1, <3>2, <3>4, RecountedFacts
    <2>5. ops.injected = Recounted(opEvents, "injected", "cleared").events
        BY <1>2, <1>3, <2>1, RecountedFacts DEF MeasuresHold
    <2> QED BY <2>2, <2>3, <2>4, <2>5
<1>5. MeasuresOnRecord
    BY <1>4 DEF MeasuresOnRecord
<1>6. RequestsAddUp
    <2>1. PICK w : w = ops.watch
        OBVIOUS
    <2>2. w.traces \in Seq(Trace) /\ WatchHolds(w, ops.seq)
        BY <1>3, <2>1 DEF WatchHolds
    <2>3. \A i \in DOMAIN w.traces : w.traces[i] \in Trace
        BY <2>2
    <2>4. /\ CountOf(w.traces, {t \in Trace : t.status >= 500})
                = Cardinality({i \in DOMAIN w.traces : w.traces[i].status >= 500})
          /\ CountOf(w.traces, {t \in Trace : t.status \in 400..499})
                = Cardinality({i \in DOMAIN w.traces : w.traces[i].status \in 400..499})
          /\ CountOf(w.traces, {t \in Trace : t.sql}) = Cardinality({i \in DOMAIN w.traces : w.traces[i].sql})
          /\ CountOf(w.traces, {t \in Trace : t.sql /\ t.status >= 400})
                = Cardinality({i \in DOMAIN w.traces : w.traces[i].sql /\ w.traces[i].status >= 400})
        BY <2>3 DEF CountOf
    <2>5. /\ Len(w.traces) = IF w.requests < TraceCapacity THEN w.requests ELSE TraceCapacity
          /\ \A i \in DOMAIN w.traces : w.traces[i].seq = ops.seq - Len(w.traces) + i
        BY <2>2 DEF WatchHolds
    <2>6. w.requests <= TraceCapacity =>
             /\ w.serverErrors = Cardinality({i \in DOMAIN w.traces : w.traces[i].status >= 500})
             /\ w.clientErrors = Cardinality({i \in DOMAIN w.traces : w.traces[i].status \in 400..499})
             /\ w.sql = Cardinality({i \in DOMAIN w.traces : w.traces[i].sql})
             /\ w.sqlFailed = Cardinality({i \in DOMAIN w.traces : w.traces[i].sql /\ w.traces[i].status >= 400})
        BY <2>2, <2>4 DEF WatchHolds
    <2> QED BY <2>1, <2>5, <2>6 DEF RequestsAddUp
<1> QED BY <1>5, <1>6

(***************************************************************************)
(* ResilienceState and ObservabilityState keep what they report: whatever  *)
(* is requested, blocked, refused or restarted, in whichever order, the    *)
(* counters and durations are those of the tables, and the traces those of *)
(* the requests counted.                                                   *)
(***************************************************************************)
THEOREM OperationsInvariant == OperationsSpec => []OpsInv
BY OpsInvInit, OpsInvStep, PTL DEF OperationsSpec

(***************************************************************************)
(* MeasuresOnRecord: what restore_replication_state() would count after a  *)
(* restart at any moment is what the server reports before it.             *)
(***************************************************************************)
THEOREM ReportsSurviveRestarts == OperationsSpec => []MeasuresOnRecord
BY OperationsInvariant, OpsInvSays, PTL

(***************************************************************************)
(* RequestsAddUp: the traces are the latest requests and the counters      *)
(* agree with them, for any capacity of the list.                          *)
(***************************************************************************)
THEOREM TracesAddUp == OperationsSpec => []RequestsAddUp
BY OperationsInvariant, OpsInvSays, PTL

-----------------------------------------------------------------------------
(* The files of an approximate index.                                      *)

RowsFit(table) ==
    /\ IsFiniteSet(table)
    /\ \A r \in table : r.key \in Nat \ {0} /\ r.emb \in Seq(Int) /\ r.emb # << >>
    /\ \A r, o \in table : r.key = o.key \/ r.id = o.id => r = o

\* What an index of the table holds, and its graph.
EntriesOf(records) == [n \in 1..Len(records) |-> EntryOf(records[n])]
Listing(table) == EntriesOf(InOrder(table))
VectorsIn(table) == [n \in 1..Len(Listing(table)) |-> Listing(table)[n].emb]

Lists(ix, table, kind) ==
    /\ DOMAIN ix = IndexFields /\ ix.kind = kind /\ ix.entries = Listing(table) /\ KeysFit(ix)
    /\ ix.graph = << >> \/ (kind = "hnsw" /\ ix.dirty = FALSE /\ ix.graph = VectorsIn(table))

\* A file that is whole holds the table.
Kept(f) ==
    annFiles[f].whole = TRUE =>
       /\ f = "entries" => annFiles[f].data = Listing(annTable)
       /\ f = "json" => Backfilled(annFiles[f].data) = Listing(annTable)
       /\ f = "data" => annTable = {} \/ annFiles[f].data = VectorsIn(annTable)

Ahead(kind) ==
    IF kind = "hnsw"
    THEN {<< >>, <<"data">>, <<"graph", "data">>, <<"json", "graph", "data">>,
          <<"entries", "json", "graph", "data">>}
    ELSE {<< >>, <<"json">>, <<"entries", "json">>}

\* Nothing of what is still to be saved is the file.
Through(todo, f) == \A i \in DOMAIN todo : todo[i] # f

HandleFields == {"kind", "open", "index", "todo", "loading", "loaded", "sure"}

AnnShape ==
    /\ annClock \in Nat /\ dbTime \in 1..annClock /\ hidden \in BOOLEAN
    /\ DOMAIN annFiles = Artifact
    /\ \A f \in Artifact : annFiles[f].time \in 0..annClock /\ annFiles[f].whole \in BOOLEAN
    /\ DOMAIN annHandle = HandleFields /\ annHandle.kind \in {"lsh", "hnsw"}
    /\ annHandle.open \in BOOLEAN /\ annHandle.loaded \in BOOLEAN /\ annHandle.sure \in BOOLEAN
    /\ annHandle.kind = "lsh" => annFiles["data"].whole = FALSE
    /\ annHandle.open = TRUE => annHandle.todo \in Ahead(annHandle.kind)
    /\ annHandle.loaded = TRUE => annHandle.open = TRUE

\* While the times do not tell, a handle that is sure has the table, and what it has saved so far of it.
AnnInv ==
    /\ AnnShape /\ RowsFit(annTable)
    /\ annHandle.open = TRUE /\ annHandle.sure = TRUE =>
          /\ Lists(annHandle.index, annTable, annHandle.kind)
          /\ annHandle.todo # << >> =>
                \A f \in Artifact : Through(annHandle.todo, f) => Kept(f)
    /\ annHandle.open = TRUE /\ annHandle.sure = FALSE => hidden = TRUE
    /\ hidden = FALSE => \A f \in Artifact : Fresh(f) => Kept(f)

LEMMA KeysAreFinite ==
    ASSUME NEW table, RowsFit(table)
    PROVE  /\ KeysOf(table) \subseteq Nat /\ IsFiniteSet(KeysOf(table))
           /\ Cardinality(KeysOf(table)) = Cardinality(table) /\ Cardinality(table) \in Nat
<1>1. IsFiniteSet(table) /\ \A r \in table : r.key \in Nat
    BY DEF RowsFit
<1>2. KeysOf(table) \subseteq Nat
    BY <1>1 DEF KeysOf
<1> DEFINE f == [r \in table |-> r.key]
<1>3. f \in Bijection(table, KeysOf(table))
    BY DEF KeysOf, RowsFit, Bijection, Injection, Surjection, IsInjective
<1>4. ExistsBijection(table, KeysOf(table))
    BY <1>3 DEF ExistsBijection
<1>5. IsFiniteSet(KeysOf(table)) /\ Cardinality(KeysOf(table)) = Cardinality(table)
    BY <1>1, <1>4, FS_Bijection
<1> QED BY <1>1, <1>2, <1>5, FS_CardinalityType

LEMMA RowWithKey ==
    ASSUME NEW table, RowsFit(table), NEW r \in table
    PROVE  RowWith(table, r.key) = r
BY DEF RowsFit, RowWith

\* The rows in the order of their keys, each once.
LEMMA InOrderFacts ==
    ASSUME NEW table, RowsFit(table)
    PROVE  LET s == InOrder(table)
               keys == KeysOf(table)
           IN  /\ Len(s) = Cardinality(table) /\ Len(s) \in Nat /\ DOMAIN s = 1..Len(s)
               /\ \A n \in 1..Len(s) : s[n] \in table /\ s[n].key = Nth(keys, n) /\ RankIn(keys, s[n].key) = n
               /\ \A r \in table : RankIn(keys, r.key) \in 1..Len(s) /\ s[RankIn(keys, r.key)] = r
               /\ s = << >> <=> table = {}
<1> DEFINE s == InOrder(table)
           keys == KeysOf(table)
           L == Cardinality(keys)
<1>1. keys \subseteq Nat /\ IsFiniteSet(keys) /\ L = Cardinality(table) /\ L \in Nat
    BY KeysAreFinite
<1>2. s = [n \in 1..L |-> RowWith(table, Nth(keys, n))]
    BY DEF InOrder
<1>3. /\ \A n \in 1..L : Nth(keys, n) \in keys /\ RankIn(keys, Nth(keys, n)) = n
      /\ \A k \in keys : Nth(keys, RankIn(keys, k)) = k /\ RankIn(keys, k) \in 1..L
    BY <1>1, NthFacts, RankFacts
<1>4. \A k \in keys : \E r \in table : r.key = k
    BY DEF KeysOf
<1>5. \A r \in table : r.key \in keys
    BY DEF KeysOf
<1> HIDE DEF s, keys, L
<1>6. Len(s) = L /\ DOMAIN s = 1..L /\ \A n \in 1..L : s[n] = RowWith(table, Nth(keys, n))
    BY <1>1, <1>2
<1>7. ASSUME NEW n \in 1..L
      PROVE  s[n] \in table /\ s[n].key = Nth(keys, n) /\ RankIn(keys, s[n].key) = n
    <2>1. PICK r \in table : r.key = Nth(keys, n)
        BY <1>3, <1>4
    <2>2. s[n] = r
        BY <1>6, <2>1, RowWithKey
    <2> QED BY <1>3, <2>1, <2>2
<1>8. ASSUME NEW r \in table PROVE RankIn(keys, r.key) \in 1..L /\ s[RankIn(keys, r.key)] = r
    <2>1. RankIn(keys, r.key) \in 1..L /\ Nth(keys, RankIn(keys, r.key)) = r.key
        BY <1>3, <1>5
    <2> QED BY <1>6, <2>1, RowWithKey
<1>9. s = << >> <=> table = {}
    <2>1. ASSUME table = {} PROVE s = << >>
        <3>1. L = 0
            BY <1>1, <2>1, FS_EmptySet
        <3> QED BY <1>2, <3>1
    <2>2. ASSUME table # {} PROVE s # << >>
        BY <1>1, <1>6, <1>8, <2>2
    <2> QED BY <2>1, <2>2
<1> QED BY <1>1, <1>6, <1>7, <1>8, <1>9 DEF s, keys

\* A row that takes the place of one with its key.
Exchanged(table, o, r) == (table \ {o}) \cup {r}
Grown(table, r) == table \cup {r}

LEMMA ReplacedInOrder ==
    ASSUME NEW table, RowsFit(table), NEW o \in table, NEW r, r.key = o.key,
           RowsFit(Exchanged(table, o, r))
    PROVE  LET n == RankIn(KeysOf(table), o.key)
               other == Exchanged(table, o, r)
           IN  /\ n \in 1..Len(InOrder(table)) /\ InOrder(table)[n] = o
               /\ Len(InOrder(other)) = Len(InOrder(table)) /\ InOrder(other)[n] = r
               /\ \A i \in 1..Len(InOrder(table)) : i # n => InOrder(other)[i] = InOrder(table)[i]
<1> DEFINE keys == KeysOf(table)
           n == RankIn(keys, o.key)
           s == InOrder(table)
           other == Exchanged(table, o, r)
           t == InOrder(other)
<1>1. KeysOf(other) = keys
    BY DEF KeysOf, Exchanged
<1>2. /\ Len(s) = Cardinality(keys) /\ Len(s) \in Nat
      /\ \A i \in 1..Len(s) : s[i] \in table /\ s[i].key = Nth(keys, i) /\ RankIn(keys, s[i].key) = i
      /\ n \in 1..Len(s) /\ s[n] = o
    BY InOrderFacts, KeysAreFinite
<1>3. /\ Len(t) = Cardinality(keys)
      /\ \A q \in other : RankIn(keys, q.key) \in 1..Len(t) /\ t[RankIn(keys, q.key)] = q
    <2>1. PICK u : u = other /\ RowsFit(u)
        OBVIOUS
    <2> HIDE DEF keys, n, s, t
    <2>2. Len(InOrder(u)) = Cardinality(KeysOf(u))
        BY <2>1, InOrderFacts, KeysAreFinite
    <2>4. \A q \in u : RankIn(KeysOf(u), q.key) \in 1..Len(InOrder(u))
                       /\ InOrder(u)[RankIn(KeysOf(u), q.key)] = q
        BY <2>1, InOrderFacts
    <2>3. KeysOf(u) = keys /\ InOrder(u) = t
        BY <1>1, <2>1 DEF t
    <2> QED BY <2>1, <2>2, <2>3, <2>4
<1>4. r \in other /\ \A q \in table : q # o => q \in other
    BY DEF Exchanged
<1> HIDE DEF keys, n, s, t
<1>5. t[n] = r
    BY <1>3, <1>4 DEF n
<1>6. ASSUME NEW i \in 1..Len(s), i # n PROVE t[i] = s[i]
    <2>1. s[i] \in table /\ RankIn(keys, s[i].key) = i /\ s[i] # o
        BY <1>2, <1>6 DEF n
    <2> QED BY <1>3, <1>4, <2>1
<1> QED BY <1>2, <1>3, <1>5, <1>6 DEF keys, n, s, t

\* A row with a key above all others comes last.
LEMMA AppendedInOrder ==
    ASSUME NEW table, RowsFit(table), NEW r, \A q \in table : q.key < r.key,
           RowsFit(Grown(table, r))
    PROVE  LET other == Grown(table, r)
           IN  /\ Len(InOrder(other)) = Len(InOrder(table)) + 1
               /\ InOrder(other)[Len(InOrder(table)) + 1] = r
               /\ \A i \in 1..Len(InOrder(table)) : InOrder(other)[i] = InOrder(table)[i]
<1> DEFINE other == Grown(table, r)
           keys == KeysOf(table)
           more == KeysOf(other)
           s == InOrder(table)
           t == InOrder(other)
<1>1. more = keys \cup {r.key} /\ r.key \in Nat
    BY DEF KeysOf, RowsFit, Grown
<1>2. /\ keys \subseteq Nat /\ IsFiniteSet(keys) /\ Cardinality(keys) = Len(s) /\ Len(s) \in Nat
      /\ more \subseteq Nat /\ IsFiniteSet(more) /\ Cardinality(more) = Len(t) /\ Len(t) \in Nat
    BY InOrderFacts, KeysAreFinite
<1>3. \A k \in keys : k < r.key
    BY DEF KeysOf
<1>4. r.key \notin keys
    BY <1>1, <1>3
<1>5. Cardinality(more) = Cardinality(keys) + 1
    BY <1>1, <1>2, <1>4, FS_AddElement
<1>6. RankIn(more, r.key) = Cardinality(more)
    <2>1. \A j \in more : j <= r.key
        <3> HIDE DEF keys, more
        <3> QED BY <1>1, <1>2, <1>3
    <2>2. {j \in more : j <= r.key} = more
        BY <2>1
    <2> QED BY <2>2 DEF RankIn
<1>7. ASSUME NEW k \in keys PROVE RankIn(more, k) = RankIn(keys, k)
    <2>1. k \in Nat /\ k < r.key /\ r.key \in Nat
        BY <1>1, <1>2, <1>3
    <2>2. ~(r.key <= k)
        BY <2>1
    <2>3. {j \in more : j <= k} = {j \in keys : j <= k}
        <3> HIDE DEF keys, more
        <3> QED BY <1>1, <2>2
    <2> QED BY <2>3 DEF RankIn
<1>8. \A i \in 1..Len(s) : s[i] \in table /\ RankIn(keys, s[i].key) = i
    BY InOrderFacts
<1>9. \A q \in other : t[RankIn(more, q.key)] = q
    BY InOrderFacts
<1>10. r \in other /\ \A q \in table : q \in other /\ q.key \in keys
    BY DEF KeysOf, Grown
<1> HIDE DEF keys, more, s, t
<1>11. Len(t) = Len(s) + 1 /\ t[Len(s) + 1] = r
    BY <1>2, <1>5, <1>6, <1>9, <1>10
<1>12. \A i \in 1..Len(s) : t[i] = s[i]
    BY <1>7, <1>8, <1>9, <1>10
<1> QED BY <1>11, <1>12 DEF s, t

\* The next key is above all.
LEMMA NewKeyIsAbove ==
    ASSUME NEW table, RowsFit(table), table # {}
    PROVE  Max(KeysOf(table)) \in Nat /\ \A q \in table : q.key <= Max(KeysOf(table))
<1> DEFINE keys == KeysOf(table)
<1>1. keys \subseteq Nat /\ IsFiniteSet(keys) /\ Cardinality(keys) \in Nat
    BY KeysAreFinite
<1>2. keys # {} /\ \A q \in table : q.key \in keys
    BY DEF KeysOf
<1> HIDE DEF keys
<1>3. PICK c \in Nat : c = Cardinality(keys)
    BY <1>1
<1>4. \A i \in keys : RankIn(keys, i) \in 1..c
    BY <1>1, <1>3, RankFacts
<1>5. c \in 1..c
    BY <1>2, <1>3, <1>4
<1>6. Nth(keys, c) \in keys /\ RankIn(keys, Nth(keys, c)) = c
    BY <1>1, <1>3, <1>5, NthFacts
<1>7. PICK top \in keys : RankIn(keys, top) = c
    BY <1>6
<1>8. ASSUME NEW i \in keys PROVE i <= top
    <2>1. top < i => RankIn(keys, top) < RankIn(keys, i)
        BY <1>1, RankFacts
    <2> QED BY <1>1, <1>3, <1>4, <1>7, <2>1
<1>9. \E x \in keys : \A y \in keys : x >= y
    BY <1>1, <1>8
<1>10. Max(keys) \in keys /\ \A y \in keys : Max(keys) >= y
    BY <1>9 DEF Max
<1> QED BY <1>1, <1>2, <1>10 DEF keys

-----------------------------------------------------------------------------
(* Putting rows into an index that lists others.                           *)

LEMMA UnitOnce ==
    ASSUME NEW v \in Seq(Int)
    PROVE  Unit(Unit(v)) = Unit(v) /\ (v # << >> => Unit(v) # << >>)
<1>1. \A x \in Int : Sign(Sign(x)) = Sign(x)
    BY DEF Sign
<1>2. \A i \in DOMAIN v : v[i] \in Int
    OBVIOUS
<1>3. DOMAIN Unit(v) = DOMAIN v /\ \A i \in DOMAIN v : Unit(v)[i] = Sign(v[i])
    BY DEF Unit
<1>4. Unit(Unit(v)) = [i \in DOMAIN v |-> Sign(Unit(v)[i])]
    BY <1>3 DEF Unit
<1>5. Unit(Unit(v)) = [i \in DOMAIN v |-> Sign(v[i])]
    BY <1>1, <1>2, <1>3, <1>4
<1>6. v # << >> => Unit(v) # << >>
    BY UnitFacts
<1> QED BY <1>5, <1>6 DEF Unit

LEMMA EntryOnce ==
    ASSUME NEW r, r.emb \in Seq(Int)
    PROVE  /\ EntryOf(EntryOf(r)) = EntryOf(r) /\ EntryOf(r).key = r.key /\ EntryOf(r).id = r.id
           /\ EntryOf(r).emb \in Seq(Int) /\ EntryOf(r).emb = Unit(r.emb)
           /\ r.emb # << >> => EntryOf(r).emb # << >>
<1>1. /\ EntryOf(r).key = r.key /\ EntryOf(r).id = r.id /\ EntryOf(r).emb = Unit(r.emb)
      /\ EntryOf(r) = [key |-> r.key, id |-> r.id, emb |-> Unit(r.emb)]
    BY DEF EntryOf
<1>2. Unit(r.emb) \in Seq(Int) /\ Unit(Unit(r.emb)) = Unit(r.emb) /\ (r.emb # << >> => Unit(r.emb) # << >>)
    BY UnitFacts, UnitOnce
<1>3. EntryOf(EntryOf(r)) = [key |-> r.key, id |-> r.id, emb |-> Unit(Unit(r.emb))]
    BY <1>1 DEF EntryOf
<1> QED BY <1>1, <1>2, <1>3

\* A list is what has places from 1 on.
LEMMA PlacesMakeList ==
    ASSUME NEW L \in Nat, NEW s, s = [n \in 1..L |-> s[n]]
    PROVE  IsList(s) /\ Len(s) = L /\ DOMAIN s = 1..L
<1>1. s \in Seq({s[n] : n \in 1..L})
    OBVIOUS
<1>2. Len(s) = L /\ DOMAIN s = 1..L
    OBVIOUS
<1> QED BY <1>1, <1>2 DEF IsList

LEMMA ListingFacts ==
    ASSUME NEW table, RowsFit(table)
    PROVE  LET l == Listing(table)
               s == InOrder(table)
           IN  /\ IsList(l) /\ Len(l) = Len(s) /\ Len(l) \in Nat /\ DOMAIN l = 1..Len(l)
               /\ \A n \in 1..Len(l) : /\ l[n] = EntryOf(s[n]) /\ s[n] \in table /\ l[n].key = s[n].key
                                       /\ l[n].key # 0 /\ l[n].emb # << >> /\ EntryOf(l[n]) = l[n]
                                       /\ s[n].emb # << >>
               /\ \A i, j \in 1..Len(l) : l[i].key = l[j].key => i = j
               /\ l = << >> <=> table = {}
<1> DEFINE l == Listing(table)
           s == InOrder(table)
<1>1. /\ Len(s) \in Nat /\ DOMAIN s = 1..Len(s)
      /\ \A n \in 1..Len(s) : s[n] \in table /\ RankIn(KeysOf(table), s[n].key) = n
      /\ s = << >> <=> table = {}
    BY InOrderFacts
<1>2. l = [n \in 1..Len(s) |-> EntryOf(s[n])]
    BY DEF Listing, EntriesOf
<1> HIDE DEF l, s
<1>3. l = [n \in 1..Len(s) |-> l[n]] /\ \A n \in 1..Len(s) : l[n] = EntryOf(s[n])
    BY <1>2
<1>4. IsList(l) /\ Len(l) = Len(s) /\ DOMAIN l = 1..Len(l)
    BY <1>1, <1>3, PlacesMakeList
<1>5. \A n \in 1..Len(s) : s[n].key # 0 /\ s[n].emb \in Seq(Int) /\ s[n].emb # << >>
    BY <1>1 DEF RowsFit
<1>6. ASSUME NEW n \in 1..Len(s)
      PROVE  l[n].key = s[n].key /\ l[n].emb # << >> /\ EntryOf(l[n]) = l[n]
    BY <1>3, <1>5, EntryOnce
<1>7. l = << >> <=> s = << >>
    BY <1>1, <1>4, <1>2
<1> QED BY <1>1, <1>3, <1>4, <1>5, <1>6, <1>7 DEF l, s

\* What an index without entries is given, it lists.
Unfilled(ix) ==
    /\ DOMAIN ix = IndexFields /\ ix.entries = << >> /\ ix.byKey = << >> /\ ix.dim = 0
    /\ ix.graph = << >>

Stocked(ix, kind, entries) ==
    /\ DOMAIN ix = IndexFields /\ ix.kind = kind /\ ix.graph = << >>
    /\ ix.entries = entries /\ IsList(ix.entries) /\ KeysFit(ix)

FirstEntries(records, n) == [i \in 1..n |-> EntryOf(records[i])]

LEMMA StockedByStages ==
    ASSUME NEW ix, Unfilled(ix), NEW s, Len(s) \in Nat,
           \A i, j \in 1..Len(s) : s[i].key = s[j].key => i = j
    PROVE  \A n \in 0..Len(s) : Stocked(PutStages(ix, s)[n], ix.kind, FirstEntries(s, n))
<1> DEFINE L == Len(s)
           dim == Len(s[1].emb)
           stage == PutStages(ix, s)
           G == {n \in Nat : n <= L => Stocked(PutStages(ix, s)[n], ix.kind, FirstEntries(s, n))}
<1>1. stage[0] = Opened(ix, dim) /\ \A n \in 1..L : stage[n] = PutRecord(stage[n - 1], s[n])
    BY PutStagesAre
<1> HIDE DEF stage
<1>2. Stocked(stage[0], ix.kind, FirstEntries(s, 0))
    <2>1. /\ DOMAIN ix = IndexFields /\ ix.entries = << >> /\ ix.byKey = << >> /\ ix.graph = << >>
        BY DEF Unfilled
    <2>2. /\ DOMAIN stage[0] = IndexFields /\ stage[0].kind = ix.kind /\ stage[0].graph = << >>
          /\ stage[0].entries = << >> /\ stage[0].byKey = << >>
        BY <1>1, <2>1, OpenedAlike
    <2>3. FirstEntries(s, 0) = << >>
        BY DEF FirstEntries
    <2>4. IsList(<< >>) /\ DOMAIN << >> = {}
        <3>1. << >> \in Seq({})
            OBVIOUS
        <3> QED BY <3>1 DEF IsList
    <2>5. KeysFit(stage[0])
        BY <2>2, <2>4 DEF KeysFit
    <2> QED BY <2>2, <2>3, <2>4, <2>5 DEF Stocked
<1>3. 0 \in G
    BY <1>2 DEF stage
<1>4. ASSUME NEW n \in Nat, n \in G PROVE n + 1 \in G
    <2> SUFFICES ASSUME n + 1 <= L PROVE Stocked(stage[n + 1], ix.kind, FirstEntries(s, n + 1))
        BY DEF stage
    <2>1. n <= L /\ n + 1 \in 1..L /\ (n + 1) - 1 = n
        OBVIOUS
    <2>2. Stocked(stage[n], ix.kind, FirstEntries(s, n))
        BY <1>4, <2>1 DEF stage
    <2> HIDE DEF G
    <2>3. PICK was : was = stage[n]
        OBVIOUS
    <2>4. /\ DOMAIN was = IndexFields /\ was.kind = ix.kind /\ was.graph = << >>
          /\ was.entries = FirstEntries(s, n) /\ IsList(was.entries) /\ KeysFit(was)
        BY <2>2, <2>3 DEF Stocked
    <2>5. stage[n + 1] = PutRecord(was, s[n + 1])
        BY <1>1, <2>1, <2>3
    <2>6. DOMAIN was.entries = 1..n /\ \A i \in 1..n : was.entries[i] = EntryOf(s[i])
        BY <2>4 DEF FirstEntries
    <2>7. \A q \in DOMAIN was.entries : was.entries[q].key # s[n + 1].key
        <3>1. ASSUME NEW q \in 1..n, s[q].key = s[n + 1].key PROVE FALSE
            <4>1. q \in 1..L /\ n + 1 \in 1..L /\ q # n + 1
                BY <2>1
            <4> QED BY <3>1, <4>1
        <3>2. \A q \in 1..n : EntryOf(s[q]).key = s[q].key
            BY DEF EntryOf
        <3> QED BY <2>6, <3>1, <3>2
    <2>8. PICK r : r = s[n + 1]
        OBVIOUS
    <2>9. /\ DOMAIN PutRecord(was, r) = IndexFields /\ PutRecord(was, r).kind = was.kind
          /\ PutRecord(was, r).graph = was.graph
          /\ PutRecord(was, r).entries = Append(was.entries, EntryOf(r)) /\ KeysFit(PutRecord(was, r))
        BY <2>4, <2>7, <2>8, PutNewKey
    <2>10. PICK e : e = EntryOf(r)
        OBVIOUS
    <2>11. /\ IsList(Append(was.entries, e)) /\ Len(was.entries) = n
           /\ DOMAIN Append(was.entries, e) = 1..n \cup {n + 1}
           /\ \A i \in 1..n : Append(was.entries, e)[i] = was.entries[i]
           /\ Append(was.entries, e)[n + 1] = e
        <3>1. Len(was.entries) \in Nat /\ 1..Len(was.entries) = 1..n
            BY <2>4, <2>6, AppendedList
        <3>2. Len(was.entries) = n
            <4>1. was.entries \in Seq({was.entries[i] : i \in 1..n})
                BY <2>4, <2>6 DEF FirstEntries
            <4> QED BY <2>4, <4>1 DEF FirstEntries
        <3> QED BY <2>4, <2>6, <3>2, AppendedList
    <2>12. Append(was.entries, e) = FirstEntries(s, n + 1)
        <3>1. 1..n \cup {n + 1} = 1..(n + 1)
            OBVIOUS
        <3>2. PICK t : t = Append(was.entries, e)
            OBVIOUS
        <3>3. IsList(t) /\ DOMAIN t = 1..(n + 1)
            BY <2>11, <3>1, <3>2
        <3>4. ASSUME NEW i \in 1..(n + 1) PROVE t[i] = EntryOf(s[i])
            BY <2>6, <2>8, <2>10, <2>11, <3>2
        <3>5. t = [i \in DOMAIN t |-> t[i]]
            BY <3>3 DEF IsList
        <3> QED BY <3>2, <3>3, <3>4, <3>5 DEF FirstEntries
    <2> QED BY <2>4, <2>5, <2>8, <2>9, <2>10, <2>11, <2>12 DEF Stocked
<1> HIDE DEF G
<1>5. \A n \in Nat : n \in G
    BY <1>3, <1>4, EveryNatural
<1> QED BY <1>5 DEF G

LEMMA FillsUp ==
    ASSUME NEW ix, Unfilled(ix), NEW s, IsList(s), \A i \in 1..Len(s) : s[i].emb # << >>,
           \A i, j \in 1..Len(s) : s[i].key = s[j].key => i = j
    PROVE  Stocked(PutRecords(ix, s), ix.kind, EntriesOf(s))
<1>0. Len(s) \in Nat /\ DOMAIN s = 1..Len(s)
    BY AppendedList
<1>1. \A n \in 0..Len(s) : Stocked(PutStages(ix, s)[n], ix.kind, FirstEntries(s, n))
    BY <1>0, StockedByStages
<1>2. EntriesOf(s) = FirstEntries(s, Len(s))
    BY DEF EntriesOf, FirstEntries
<1>3. CASE s = << >>
    <2>1. PutRecords(ix, s) = ix
        BY <1>3 DEF PutRecords, Accepted
    <2>2. FirstEntries(s, Len(s)) = << >>
        BY <1>3 DEF FirstEntries
    <2>3. IsList(<< >>) /\ DOMAIN << >> = {}
        <3>1. << >> \in Seq({})
            OBVIOUS
        <3> QED BY <3>1 DEF IsList
    <2> QED BY <1>2, <2>1, <2>2, <2>3 DEF Stocked, Unfilled, KeysFit
<1>4. CASE s # << >>
    <2>1. Accepted(ix, s)
        BY <1>0, <1>4 DEF Accepted, Fits, Unfilled
    <2>2. PICK last : last = PutStages(ix, s)[Len(s)]
        OBVIOUS
    <2>3. Stocked(last, ix.kind, EntriesOf(s))
        BY <1>0, <1>1, <1>2, <2>2
    <2>4. PutRecords(ix, s) = Touched(last)
        BY <2>1, <2>2 DEF PutRecords
    <2>5. /\ DOMAIN last = IndexFields /\ last.kind = ix.kind /\ last.graph = << >>
          /\ last.entries = EntriesOf(s) /\ IsList(last.entries) /\ KeysFit(last)
        BY <2>3 DEF Stocked
    <2>6. /\ DOMAIN Touched(last) = IndexFields /\ Touched(last).kind = last.kind
          /\ Touched(last).entries = last.entries /\ Touched(last).byKey = last.byKey
          /\ Touched(last).graph = << >>
        BY <2>5, TouchedAlike
    <2> QED BY <2>4, <2>5, <2>6 DEF Stocked, KeysFit
<1> QED BY <1>3, <1>4

LEMMA StockedLists ==
    ASSUME NEW table, NEW ix, NEW kind, Stocked(ix, kind, Listing(table))
    PROVE  Lists(ix, table, kind)
BY DEF Stocked, Lists

LEMMA BlankUnfilled ==
    ASSUME NEW k
    PROVE  Unfilled(EmptyIndex(k)) /\ EmptyIndex(k).kind = k /\ Unfilled(NewIndex(k)) /\ NewIndex(k).kind = k
           /\ Reset(NewIndex(k)) = EmptyIndex(k)
<1>1. Unfilled(EmptyIndex(k)) /\ EmptyIndex(k).kind = k
    BY DEF EmptyIndex, Unfilled, IndexFields
<1>2. Unfilled(NewIndex(k)) /\ NewIndex(k).kind = k
    BY DEF NewIndex, EmptyIndex, Unfilled, IndexFields
<1> QED BY <1>1, <1>2 DEF Reset

\* From the table, and from what an index of it saved.
LEMMA FilledFromTable ==
    ASSUME NEW table, RowsFit(table), NEW k, NEW ix \in {EmptyIndex(k), NewIndex(k)}
    PROVE  Lists(PutRecords(ix, InOrder(table)), table, k)
<1> DEFINE s == InOrder(table)
<1>1. Unfilled(ix) /\ ix.kind = k
    BY BlankUnfilled
<1>2. /\ Len(s) \in Nat /\ DOMAIN s = 1..Len(s)
      /\ \A n \in 1..Len(s) : s[n] \in table /\ RankIn(KeysOf(table), s[n].key) = n
    BY InOrderFacts
<1>3. IsList(s)
    <2>1. s = [n \in 1..Cardinality(KeysOf(table)) |-> RowWith(table, Nth(KeysOf(table), n))]
        BY DEF InOrder
    <2>2. Cardinality(KeysOf(table)) \in Nat
        BY KeysAreFinite
    <2> HIDE DEF s
    <2>3. s = [n \in 1..Cardinality(KeysOf(table)) |-> s[n]]
        BY <2>1
    <2> QED BY <2>2, <2>3, PlacesMakeList
<1>4. \A n \in 1..Len(s) : s[n].emb # << >>
    BY <1>2 DEF RowsFit
<1>5. \A i, j \in 1..Len(s) : s[i].key = s[j].key => i = j
    BY <1>2
<1> HIDE DEF s
<1>6. Stocked(PutRecords(ix, s), ix.kind, EntriesOf(s))
    BY <1>1, <1>3, <1>4, <1>5, FillsUp
<1>7. EntriesOf(s) = Listing(table)
    BY DEF Listing, s
<1> QED BY <1>1, <1>6, <1>7, StockedLists DEF s

LEMMA FilledFromEntries ==
    ASSUME NEW table, RowsFit(table), NEW k
    PROVE  Lists(Imported(NewIndex(k), Listing(table)), table, k)
           /\ Imported(NewIndex(k), Listing(table)).graph = << >>
<1> DEFINE l == Listing(table)
<1>1. Unfilled(EmptyIndex(k)) /\ EmptyIndex(k).kind = k /\ Reset(NewIndex(k)) = EmptyIndex(k)
    BY BlankUnfilled
<1>2. /\ IsList(l) /\ Len(l) \in Nat /\ DOMAIN l = 1..Len(l)
      /\ \A n \in 1..Len(l) : l[n].emb # << >> /\ EntryOf(l[n]) = l[n]
      /\ \A i, j \in 1..Len(l) : l[i].key = l[j].key => i = j
    BY ListingFacts
<1>3. l = [n \in DOMAIN l |-> l[n]]
    BY DEF Listing, EntriesOf
<1> HIDE DEF l
<1>4. Stocked(PutRecords(EmptyIndex(k), l), k, EntriesOf(l))
    <2>1. PICK ix : ix = EmptyIndex(k)
        OBVIOUS
    <2>2. Unfilled(ix) /\ ix.kind = k
        BY <1>1, <2>1
    <2>3. Stocked(PutRecords(ix, l), ix.kind, EntriesOf(l))
        BY <1>2, <2>2, FillsUp
    <2> QED BY <2>1, <2>2, <2>3
<1>5. EntriesOf(l) = l
    BY <1>2, <1>3 DEF EntriesOf
<1>6. Imported(NewIndex(k), l) = PutRecords(EmptyIndex(k), l)
    BY <1>1 DEF Imported
<1>7. Stocked(Imported(NewIndex(k), l), k, Listing(table))
    BY <1>4, <1>5, <1>6 DEF l
<1> QED BY <1>7, StockedLists DEF Stocked, l

\* The row of a call: in the place of the one with its key, or as the last.
LEMMA PutRowIs ==
    ASSUME NEW ix, DOMAIN ix = IndexFields, NEW row, Fits(ix, row.emb)
    PROVE  PutRecords(ix, <<row>>) = Touched(PutRecord(Opened(ix, Len(row.emb)), row))
<1>1. Len(<<row>>) = 1 /\ <<row>>[1] = row /\ <<row>> # << >> /\ DOMAIN <<row>> = {1}
    OBVIOUS
<1>2. Accepted(ix, <<row>>)
    BY <1>1 DEF Accepted
<1>3. PutStages(ix, <<row>>)[0] = Opened(ix, Len(row.emb))
      /\ PutStages(ix, <<row>>)[1] = PutRecord(PutStages(ix, <<row>>)[1 - 1], row)
    <2>1. PICK s : s = <<row>>
        OBVIOUS
    <2>2. Len(s) = 1 /\ s[1] = row
        BY <2>1
    <2>3. PutStages(ix, s)[0] = Opened(ix, Len(s[1].emb))
          /\ \A n \in 1..Len(s) : PutStages(ix, s)[n] = PutRecord(PutStages(ix, s)[n - 1], s[n])
        BY <2>2, PutStagesAre
    <2> QED BY <2>1, <2>2, <2>3
<1>4. PutRecords(ix, <<row>>) = Touched(PutStages(ix, <<row>>)[1])
    BY <1>1, <1>2 DEF PutRecords
<1> QED BY <1>3, <1>4

LEMMA RowPut ==
    ASSUME NEW table, RowsFit(table), NEW other, RowsFit(other), NEW row, NEW ix, NEW kind,
           Lists(ix, table, kind), Fits(ix, row.emb),
           \/ \E o \in table : row.key = o.key /\ other = Exchanged(table, o, row)
           \/ (\A q \in table : q.key < row.key) /\ other = Grown(table, row)
    PROVE  Lists(PutRecords(ix, <<row>>), other, kind)
<1> DEFINE l == Listing(table)
           m == Listing(other)
           s == InOrder(table)
           t == InOrder(other)
<1>1. /\ DOMAIN ix = IndexFields /\ ix.kind = kind /\ ix.entries = l /\ KeysFit(ix)
      /\ ix.graph = << >> \/ kind = "hnsw"
    BY DEF Lists
<1>2. /\ IsList(l) /\ Len(l) = Len(s) /\ Len(l) \in Nat /\ DOMAIN l = 1..Len(l)
      /\ \A n \in 1..Len(l) : l[n] = EntryOf(s[n]) /\ l[n].key = s[n].key /\ s[n] \in table
    BY ListingFacts
<1>3. /\ Len(m) = Len(t) /\ Len(m) \in Nat /\ DOMAIN m = 1..Len(m)
      /\ \A n \in 1..Len(m) : m[n] = EntryOf(t[n])
    BY ListingFacts
<1>4. m = [n \in DOMAIN m |-> m[n]] /\ l = [n \in DOMAIN l |-> l[n]]
    BY DEF Listing, EntriesOf
<1>5. PICK op : op = Opened(ix, Len(row.emb))
    OBVIOUS
<1>6. /\ DOMAIN op = IndexFields /\ op.kind = kind /\ op.graph = ix.graph
      /\ op.entries = l /\ op.byKey = ix.byKey
    BY <1>1, <1>5, OpenedAlike
<1> HIDE DEF l, m, s, t
<1>7. KeysFit(op) /\ IsList(op.entries)
    BY <1>1, <1>2, <1>6 DEF KeysFit
<1>8. PICK put : put = PutRecord(op, row)
    OBVIOUS
<1>9. PICK e : e = EntryOf(row)
    OBVIOUS
<1>10. DOMAIN put = IndexFields /\ put.kind = kind /\ put.graph = ix.graph /\ put.entries = m /\ KeysFit(put)
    <2>1. CASE \E o \in table : row.key = o.key /\ other = Exchanged(table, o, row)
        <3>1. PICK o \in table : row.key = o.key /\ other = Exchanged(table, o, row)
            BY <2>1
        <3>2. PICK n : n = RankIn(KeysOf(table), o.key)
            OBVIOUS
        <3>3. /\ n \in 1..Len(s) /\ s[n] = o /\ Len(t) = Len(s) /\ t[n] = row
              /\ \A i \in 1..Len(s) : i # n => t[i] = s[i]
            <4>1. RowsFit(Exchanged(table, o, row)) /\ row.key = o.key
                BY <3>1
            <4>2. /\ n \in 1..Len(InOrder(table)) /\ InOrder(table)[n] = o
                  /\ Len(InOrder(Exchanged(table, o, row))) = Len(InOrder(table))
                  /\ InOrder(Exchanged(table, o, row))[n] = row
                  /\ \A i \in 1..Len(InOrder(table)) :
                        i # n => InOrder(Exchanged(table, o, row))[i] = InOrder(table)[i]
                BY <3>2, <4>1, ReplacedInOrder
            <4>3. t = InOrder(Exchanged(table, o, row))
                BY <3>1 DEF t
            <4> QED BY <4>2, <4>3 DEF s
        <3>4. n \in DOMAIN op.entries /\ op.entries[n].key = row.key
            BY <1>2, <1>6, <3>1, <3>3
        <3>5. /\ DOMAIN put = IndexFields /\ put.kind = op.kind /\ put.graph = op.graph
              /\ put.entries = [op.entries EXCEPT ![n] = EntryOf(row)] /\ KeysFit(put)
            BY <1>6, <1>7, <1>8, <3>4, PutKnownKey
        <3>6. put.entries = [l EXCEPT ![n] = e]
            BY <1>6, <1>9, <3>5
        <3>7. [l EXCEPT ![n] = e] = m
            <4>1. DOMAIN m = DOMAIN l
                BY <1>2, <1>3, <3>3
            <4>2. ASSUME NEW i \in DOMAIN l PROVE m[i] = IF i = n THEN e ELSE l[i]
                BY <1>2, <1>3, <1>9, <3>3, <4>1
            <4> QED BY <1>4, <4>1, <4>2
        <3> QED BY <1>6, <3>5, <3>6, <3>7
    <2>2. CASE (\A q \in table : q.key < row.key) /\ other = Grown(table, row)
        <3>1. /\ Len(t) = Len(s) + 1 /\ t[Len(s) + 1] = row
              /\ \A i \in 1..Len(s) : t[i] = s[i]
            <4>1. RowsFit(Grown(table, row)) /\ \A q \in table : q.key < row.key
                BY <2>2
            <4>2. /\ Len(InOrder(Grown(table, row))) = Len(InOrder(table)) + 1
                  /\ InOrder(Grown(table, row))[Len(InOrder(table)) + 1] = row
                  /\ \A i \in 1..Len(InOrder(table)) : InOrder(Grown(table, row))[i] = InOrder(table)[i]
                BY <4>1, AppendedInOrder
            <4>3. t = InOrder(Grown(table, row))
                BY <2>2 DEF t
            <4> QED BY <4>2, <4>3 DEF s
        <3>2. \A q \in DOMAIN op.entries : op.entries[q].key # row.key
            <4>1. \A q \in table : q.key # row.key
                BY <2>2 DEF RowsFit
            <4> QED BY <1>2, <1>6, <4>1
        <3>3. /\ DOMAIN put = IndexFields /\ put.kind = op.kind /\ put.graph = op.graph
              /\ put.entries = Append(op.entries, EntryOf(row)) /\ KeysFit(put)
            BY <1>6, <1>7, <1>8, <3>2, PutNewKey
        <3>4. put.entries = Append(l, e)
            BY <1>6, <1>9, <3>3
        <3>5. Append(l, e) = m
            <4>1. /\ DOMAIN Append(l, e) = 1..(Len(l) + 1)
                  /\ \A i \in 1..Len(l) : Append(l, e)[i] = l[i]
                  /\ Append(l, e)[Len(l) + 1] = e
                BY <1>2, AppendedList
            <4>2. PICK a : a = Append(l, e)
                OBVIOUS
            <4>3. a = [i \in DOMAIN a |-> a[i]]
                <5>1. IsList(a)
                    BY <1>2, <4>2, AppendedList
                <5> QED BY <5>1 DEF IsList
            <4>4. DOMAIN a = DOMAIN m
                BY <1>2, <1>3, <3>1, <4>1, <4>2
            <4>5. ASSUME NEW i \in DOMAIN m PROVE a[i] = m[i]
                BY <1>2, <1>3, <1>9, <3>1, <4>1, <4>2
            <4> QED BY <1>4, <4>2, <4>3, <4>4, <4>5
        <3> QED BY <1>6, <3>3, <3>4, <3>5
    <2> QED BY <2>1, <2>2
<1>11. PutRecords(ix, <<row>>) = Touched(put)
    BY <1>1, <1>5, <1>8, PutRowIs
<1>12. /\ DOMAIN Touched(put) = IndexFields /\ Touched(put).kind = put.kind
       /\ Touched(put).entries = put.entries /\ Touched(put).byKey = put.byKey
       /\ Touched(put).graph = << >>
    BY <1>1, <1>10, TouchedAlike
<1>13. KeysFit(Touched(put))
    BY <1>10, <1>12 DEF KeysFit
<1> QED BY <1>10, <1>11, <1>12, <1>13 DEF Lists, m

LEMMA SizeOfListing ==
    ASSUME NEW table, RowsFit(table), NEW ix, NEW kind, Lists(ix, table, kind)
    PROVE  /\ Size(ix) \in Nat /\ Size(ix) = Cardinality(table) /\ (Size(ix) = 0 <=> table = {})
           /\ Own(ix) = VectorsIn(table)
<1>1. ix.entries = Listing(table)
    BY DEF Lists
<1>2. Len(Listing(table)) = Len(InOrder(table)) /\ Len(Listing(table)) \in Nat
    BY ListingFacts
<1>3. Len(InOrder(table)) = Cardinality(table)
    BY InOrderFacts
<1>4. Cardinality(table) = 0 <=> table = {}
    BY FS_EmptySet DEF RowsFit
<1> QED BY <1>1, <1>2, <1>3, <1>4 DEF Size, Own, VectorsIn

LEMMA GraphBuilt ==
    ASSUME NEW table, RowsFit(table), NEW ix, Lists(ix, table, "hnsw")
    PROVE  /\ Lists(WithGraph(ix), table, "hnsw") /\ WithGraph(ix).graph = VectorsIn(table)
<1>1. Own(ix) = VectorsIn(table)
    BY SizeOfListing
<1>2. /\ DOMAIN ix = IndexFields /\ ix.kind = "hnsw" /\ ix.entries = Listing(table) /\ KeysFit(ix)
      /\ ix.graph = << >> \/ (ix.dirty = FALSE /\ ix.graph = VectorsIn(table))
    BY DEF Lists
<1>3. CASE ix.dirty = FALSE /\ ix.graph # << >>
    <2>1. WithGraph(ix) = ix
        BY <1>3 DEF WithGraph
    <2> QED BY <1>2, <1>3, <2>1
<1>4. CASE ~(ix.dirty = FALSE /\ ix.graph # << >>)
    <2>0. PICK g : g = Own(ix)
        OBVIOUS
    <2>1. WithGraph(ix) = IF ~ix.dirty /\ ix.graph # << >> THEN ix
                          ELSE [ix EXCEPT !.graph = g, !.dirty = FALSE]
        BY <2>0 DEF WithGraph
    <2>2. WithGraph(ix) = [ix EXCEPT !.graph = g, !.dirty = FALSE]
        <3>1. CASE ix.graph = << >>
            BY <2>1, <3>1
        <3>2. CASE ix.graph # << >>
            <4>1. ix.dirty = FALSE
                BY <1>2, <3>2
            <4> QED BY <1>4, <3>2, <4>1
        <3> QED BY <3>1, <3>2
    <2>3. PICK new : new = [ix EXCEPT !.graph = g, !.dirty = FALSE]
        OBVIOUS
    <2>4. /\ DOMAIN new = IndexFields /\ new.kind = "hnsw" /\ new.entries = ix.entries
          /\ new.byKey = ix.byKey /\ new.graph = g /\ new.dirty = FALSE
        BY <1>2, <2>3 DEF IndexFields
    <2> QED BY <1>1, <1>2, <2>0, <2>2, <2>3, <2>4 DEF Lists, KeysFit
<1> QED BY <1>3, <1>4

\* An export of the keys needs no lookup.
LEMMA NothingToBackfill ==
    ASSUME NEW table, RowsFit(table)
    PROVE  Backfilled(Listing(table)) = Listing(table)
<1> DEFINE l == Listing(table)
<1>1. DOMAIN l = 1..Len(l) /\ \A n \in 1..Len(l) : l[n].key # 0
    BY ListingFacts
<1>2. l = [n \in DOMAIN l |-> l[n]]
    BY DEF Listing, EntriesOf
<1> HIDE DEF l
<1> QED BY <1>1, <1>2 DEF Backfilled, l

-----------------------------------------------------------------------------
(* The files, step by step.                                                *)

LEMMA AheadFacts ==
    ASSUME NEW kind \in {"lsh", "hnsw"}, NEW todo \in Ahead(kind), todo # << >>
    PROVE  /\ Tail(todo) \in Ahead(kind) /\ Head(todo) \in Artifact
           /\ \A f : Through(Tail(todo), f) => f = Head(todo) \/ Through(todo, f)
           /\ Len(todo) > 1 <=> Tail(todo) # << >>
           /\ kind = "lsh" => Head(todo) \in {"entries", "json"}
<1>1. todo \in Seq(Artifact)
    <2>1. "entries" \in Artifact /\ "json" \in Artifact /\ "graph" \in Artifact /\ "data" \in Artifact
        BY DEF Artifact
    <2>2. /\ <<"data">> \in Seq(Artifact) /\ <<"graph", "data">> \in Seq(Artifact)
          /\ <<"json", "graph", "data">> \in Seq(Artifact)
          /\ <<"entries", "json", "graph", "data">> \in Seq(Artifact)
          /\ <<"json">> \in Seq(Artifact) /\ <<"entries", "json">> \in Seq(Artifact)
        BY <2>1
    <2>3. \/ todo = <<"data">> \/ todo = <<"graph", "data">> \/ todo = <<"json", "graph", "data">>
          \/ todo = <<"entries", "json", "graph", "data">> \/ todo = <<"json">> \/ todo = <<"entries", "json">>
        BY DEF Ahead
    <2> QED BY <2>2, <2>3
<1>2. /\ Head(todo) \in Artifact /\ Head(todo) = todo[1] /\ Tail(todo) \in Seq(Artifact)
      /\ Len(todo) \in Nat \ {0} /\ DOMAIN todo = 1..Len(todo)
      /\ Len(Tail(todo)) = Len(todo) - 1 /\ DOMAIN Tail(todo) = 1..(Len(todo) - 1)
      /\ \A i \in 1..(Len(todo) - 1) : Tail(todo)[i] = todo[i + 1]
    BY <1>1
<1>3. ASSUME NEW f, Through(Tail(todo), f), f # Head(todo) PROVE Through(todo, f)
    <2>1. ASSUME NEW i \in 1..Len(todo), todo[i] = f PROVE FALSE
        <3>1. i # 1
            BY <1>2, <1>3, <2>1
        <3>2. i - 1 \in 1..(Len(todo) - 1) /\ (i - 1) + 1 = i
            BY <1>2, <3>1
        <3>3. Tail(todo)[i - 1] = f
            BY <1>2, <2>1, <3>2
        <3> QED BY <1>2, <1>3, <3>2, <3>3 DEF Through
    <2> QED BY <1>2, <2>1 DEF Through
<1>4. Len(todo) > 1 <=> Tail(todo) # << >>
    <2>1. PICK t \in Seq(Artifact) : t = Tail(todo)
        BY <1>2
    <2>2. t = << >> <=> Len(t) = 0
        OBVIOUS
    <2>3. Len(t) = Len(todo) - 1
        BY <1>2, <2>1
    <2> QED BY <1>2, <2>1, <2>2, <2>3
<1>5. CASE kind = "hnsw"
    <2>1. CASE todo = <<"data">>
        <3>1. Tail(todo) = << >>
            BY <2>1
        <3> QED BY <1>2, <1>3, <1>4, <1>5, <3>1 DEF Ahead
    <2>2. CASE todo = <<"graph", "data">>
        <3>1. Tail(todo) = <<"data">>
            BY <2>2
        <3> QED BY <1>2, <1>3, <1>4, <1>5, <3>1 DEF Ahead
    <2>3. CASE todo = <<"json", "graph", "data">>
        <3>1. Tail(todo) = <<"graph", "data">>
            BY <2>3
        <3> QED BY <1>2, <1>3, <1>4, <1>5, <3>1 DEF Ahead
    <2>4. CASE todo = <<"entries", "json", "graph", "data">>
        <3>1. Tail(todo) = <<"json", "graph", "data">>
            BY <2>4
        <3> QED BY <1>2, <1>3, <1>4, <1>5, <3>1 DEF Ahead
    <2> QED BY <1>5, <2>1, <2>2, <2>3, <2>4 DEF Ahead
<1>6. CASE kind = "lsh"
    <2>1. CASE todo = <<"json">>
        <3>1. Tail(todo) = << >> /\ Head(todo) = "json"
            BY <2>1
        <3> QED BY <1>2, <1>3, <1>4, <1>6, <3>1 DEF Ahead
    <2>2. CASE todo = <<"entries", "json">>
        <3>1. Tail(todo) = <<"json">> /\ Head(todo) = "entries"
            BY <2>2
        <3> QED BY <1>2, <1>3, <1>4, <1>6, <3>1 DEF Ahead
    <2> QED BY <1>6, <2>1, <2>2 DEF Ahead
<1> QED BY <1>5, <1>6

LEMMA StepsAhead ==
    ASSUME NEW kind \in {"lsh", "hnsw"}, NEW todo,
           todo = IF kind = "hnsw" THEN <<"entries", "json", "graph", "data">> ELSE <<"entries", "json">>
    PROVE  /\ todo \in Ahead(kind) /\ todo # << >>
           /\ \A f \in Artifact : Through(todo, f) => kind = "lsh" /\ f \in {"graph", "data"}
<1>1. CASE kind = "hnsw"
    <2>1. todo = <<"entries", "json", "graph", "data">>
        BY <1>1
    <2>2. 1 \in DOMAIN todo /\ 2 \in DOMAIN todo /\ 3 \in DOMAIN todo /\ 4 \in DOMAIN todo
          /\ todo[1] = "entries" /\ todo[2] = "json" /\ todo[3] = "graph" /\ todo[4] = "data"
        BY <2>1
    <2> QED BY <1>1, <2>1, <2>2 DEF Ahead, Artifact, Through
<1>2. CASE kind = "lsh"
    <2>1. todo = <<"entries", "json">>
        BY <1>2
    <2>2. 1 \in DOMAIN todo /\ 2 \in DOMAIN todo /\ todo[1] = "entries" /\ todo[2] = "json"
        BY <2>1
    <2> QED BY <1>2, <2>1, <2>2 DEF Ahead, Artifact, Through
<1> QED BY <1>1, <1>2

LEMMA StillKept ==
    ASSUME annTable' = annTable, NEW f, annFiles'[f] = annFiles[f], Kept(f)
    PROVE  Kept(f)'
BY DEF Kept, Backfilled

LEMMA KeptUnlessWhole ==
    ASSUME NEW f, annFiles[f].whole = FALSE
    PROVE  Kept(f)
BY DEF Kept

LEMMA NoGraphKept ==
    ASSUME AnnShape, annHandle.kind = "lsh", NEW f \in {"graph", "data"}
    PROVE  Kept(f)
BY DEF AnnShape, Kept

\* The one row that a file of an older release tells of.
LEMMA OldJsonKept ==
    ASSUME annTable = {[key |-> 1, id |-> 1, emb |-> <<1, 0>>]}
    PROVE  RowsFit(annTable) /\ Backfilled(OldJson.data) = Listing(annTable)
<1> DEFINE row == [key |-> 1, id |-> 1, emb |-> <<1, 0>>]
<1>1. row.key = 1 /\ row.id = 1 /\ row.emb = <<1, 0>> /\ <<1, 0>> \in Seq(Int) /\ <<1, 0>> # << >>
    OBVIOUS
<1>2. annTable = {row} /\ IsFiniteSet({row})
    BY FS_Singleton
<1> HIDE DEF row
<1>3. RowsFit(annTable)
    BY <1>1, <1>2 DEF RowsFit
<1>4. PICK s : s = InOrder(annTable)
    OBVIOUS
<1>5. Len(s) = 1 /\ DOMAIN s = 1..1 /\ s[1] = row
    <2>1. Cardinality(annTable) = 1
        BY <1>2, FS_Singleton
    <2>2. /\ Len(InOrder(annTable)) = Cardinality(annTable)
          /\ DOMAIN InOrder(annTable) = 1..Len(InOrder(annTable))
          /\ \A n \in 1..Len(InOrder(annTable)) : InOrder(annTable)[n] \in annTable
        BY <1>3, InOrderFacts
    <2>3. Len(s) = 1 /\ DOMAIN s = 1..1
        BY <1>4, <2>1, <2>2
    <2>4. s[1] \in annTable
        BY <1>4, <2>2, <2>3
    <2>5. s[1] = row
        BY <1>2, <2>4
    <2> QED BY <2>3, <2>5
<1>6. Unit(<<1, 0>>) = <<1, 0>>
    <2>1. Sign(1) = 1 /\ Sign(0) = 0
        BY DEF Sign
    <2>2. DOMAIN <<1, 0>> = 1..2
        OBVIOUS
    <2>3. \A i \in 1..2 : Sign(<<1, 0>>[i]) = <<1, 0>>[i]
        BY <2>1
    <2>4. <<1, 0>> = [i \in 1..2 |-> <<1, 0>>[i]]
        OBVIOUS
    <2> QED BY <2>2, <2>3, <2>4 DEF Unit
<1>7. EntryOf(row) = row
    BY <1>1, <1>6 DEF EntryOf, row
<1>8. Listing(annTable) = [n \in 1..1 |-> row]
    <2>1. Listing(annTable) = [n \in 1..1 |-> EntryOf(s[n])]
        BY <1>4, <1>5 DEF Listing, EntriesOf
    <2>2. \A n \in 1..1 : EntryOf(s[n]) = row
        BY <1>5, <1>7
    <2> QED BY <2>1, <2>2
<1>9. Backfilled(OldJson.data) = [n \in 1..1 |-> row]
    <2>1. PICK old : old = OldJson.data
        OBVIOUS
    <2>2. DOMAIN old = 1..1 /\ old[1] = [key |-> 0, id |-> 1, emb |-> <<1, 0>>]
        BY <2>1 DEF OldJson
    <2>3. {r \in annTable : r.id = old[1].id} = {row} /\ old[1].key = 0
        BY <1>1, <1>2, <2>2
    <2>4. (CHOOSE r \in {row} : TRUE) = row
        OBVIOUS
    <2>5. [old[1] EXCEPT !.key = 1] = row
        BY <2>2 DEF row
    <2>6. Backfilled(old) =
            [i \in DOMAIN old |->
               IF old[i].key # 0 \/ {r \in annTable : r.id = old[i].id} = {} THEN old[i]
               ELSE [old[i] EXCEPT !.key = (CHOOSE r \in {r \in annTable : r.id = old[i].id} : TRUE).key]]
        BY DEF Backfilled
    <2>7. \A i \in 1..1 : i = 1
        OBVIOUS
    <2> QED BY <1>1, <2>1, <2>2, <2>3, <2>4, <2>5, <2>6, <2>7
<1> QED BY <1>3, <1>8, <1>9

LEMMA AnnInvInit == AnnInit => AnnInv
<1> SUFFICES ASSUME AnnInit PROVE AnnInv
    OBVIOUS
<1>1. PICK k \in AnnKinds : annHandle = ClosedAnn(k)
    BY DEF AnnInit
<1>2. k \in {"lsh", "hnsw"}
    BY AnnAssumption
<1>3. dbTime = 1 /\ annClock = 1 /\ hidden = FALSE
    BY DEF AnnInit
<1>4. /\ DOMAIN annHandle = HandleFields /\ annHandle.kind = k /\ annHandle.open = FALSE
      /\ annHandle.loaded = FALSE /\ annHandle.sure = TRUE
    BY <1>1 DEF ClosedAnn, HandleFields
<1>5. CASE annTable = {} /\ annFiles = [f \in Artifact |-> AbsentFile]
    <2>1. DOMAIN annFiles = Artifact
          /\ \A f \in Artifact : annFiles[f].time = 0 /\ annFiles[f].whole = FALSE
        BY <1>5 DEF AbsentFile
    <2>2. AnnShape
        <3>1. "data" \in Artifact /\ 0 \in 0..1 /\ 1 \in 1..1
            BY DEF Artifact
        <3> QED BY <1>2, <1>3, <1>4, <2>1, <3>1 DEF AnnShape
    <2>3. RowsFit(annTable)
        BY <1>5, FS_EmptySet DEF RowsFit
    <2>4. \A f \in Artifact : Kept(f)
        BY <2>1, KeptUnlessWhole
    <2> QED BY <1>4, <2>2, <2>3, <2>4 DEF AnnInv
<1>6. CASE /\ annTable = {[key |-> 1, id |-> 1, emb |-> <<1, 0>>]}
           /\ annFiles = [f \in Artifact |-> IF f = "json" THEN OldJson ELSE AbsentFile]
    <2>1. DOMAIN annFiles = Artifact /\ annFiles["json"] = OldJson
          /\ \A f \in Artifact : f # "json" => annFiles[f] = AbsentFile
        BY <1>6 DEF Artifact
    <2>2. OldJson.time = 1 /\ OldJson.whole = TRUE /\ AbsentFile.time = 0 /\ AbsentFile.whole = FALSE
        BY DEF OldJson, AbsentFile
    <2>3. AnnShape
        <3>1. "data" \in Artifact /\ "data" # "json" /\ 0 \in 0..1 /\ 1 \in 0..1 /\ 1 \in 1..1
            BY DEF Artifact
        <3>2. \A f \in Artifact : annFiles[f].time \in 0..1 /\ annFiles[f].whole \in BOOLEAN
            BY <2>1, <2>2, <3>1
        <3>3. annFiles["data"].whole = FALSE
            BY <2>1, <2>2, <3>1
        <3> QED BY <1>2, <1>3, <1>4, <2>1, <3>1, <3>2, <3>3 DEF AnnShape
    <2>4. RowsFit(annTable) /\ Backfilled(OldJson.data) = Listing(annTable)
        BY <1>6, OldJsonKept
    <2>5. Kept("json")
        BY <2>1, <2>4 DEF Kept
    <2>6. \A f \in Artifact : f # "json" => Kept(f)
        BY <2>1, <2>2, KeptUnlessWhole
    <2> QED BY <1>4, <2>3, <2>4, <2>5, <2>6 DEF AnnInv
<1> QED BY <1>5, <1>6 DEF AnnInit

LEMMA LoadKeeps ==
    ASSUME AnnInv, Load
    PROVE  AnnInv'
<1> DEFINE k == annHandle.kind
           FromTable == ~Readable("entries") /\ ~Readable("json")
           fromEntries == FromEntries(NewIndex(k))
           fromJson == Imported(NewIndex(k), Backfilled(annFiles["json"].data))
           fromTable == PutRecords(NewIndex(k), InOrder(annTable))
           steps == IF k = "hnsw" THEN <<"entries", "json", "graph", "data">> ELSE <<"entries", "json">>
           kept == IF Readable("entries") THEN fromEntries ELSE IF Readable("json") THEN fromJson ELSE fromTable
           todo == IF ~FromTable THEN << >> ELSE steps
<1>1. AnnShape /\ RowsFit(annTable) /\ (hidden = FALSE => \A f \in Artifact : Fresh(f) => Kept(f))
    BY DEF AnnInv
<1>2. k \in {"lsh", "hnsw"} /\ DOMAIN annHandle = HandleFields /\ hidden \in BOOLEAN
    BY <1>1 DEF AnnShape
<1>3. annHandle' = [annHandle EXCEPT !.open = TRUE, !.loaded = TRUE, !.loading = FromTable,
                                     !.sure = FromTable \/ ~hidden, !.index = kept, !.todo = todo]
    BY DEF Load
<1>4. UNCHANGED <<annTable, annWal, annFiles, dbTime, annClock, annCrashes, hidden>>
    BY DEF Load
<1>5. "entries" \in Artifact /\ "json" \in Artifact /\ "data" \in Artifact
    BY DEF Artifact
<1>6. Lists(fromTable, annTable, k)
    BY <1>1, FilledFromTable
<1>7. Readable("entries") /\ hidden = FALSE => Lists(fromEntries, annTable, k)
    <2> SUFFICES ASSUME Readable("entries"), hidden = FALSE PROVE Lists(fromEntries, annTable, k)
        OBVIOUS
    <2>1. annFiles["entries"].data = Listing(annTable)
        BY <1>1, <1>5 DEF Readable, Kept
    <2>2. PICK ix : ix = Imported(NewIndex(k), annFiles["entries"].data)
        OBVIOUS
    <2>3. Lists(ix, annTable, k) /\ ix.graph = << >>
        BY <1>1, <2>1, <2>2, FilledFromEntries
    <2>4. NewIndex(k).kind = k
        BY BlankUnfilled
    <2>5. fromEntries = IF k = "hnsw" /\ GraphUsable THEN GraphLoaded(ix) ELSE ix
        BY <2>2, <2>4 DEF FromEntries
    <2>6. CASE k = "hnsw" /\ GraphUsable
        <3>1. annTable = {} \/ annFiles["data"].data = VectorsIn(annTable)
            BY <1>1, <1>5, <2>6 DEF GraphUsable, Readable, Kept
        <3>2. Size(ix) = 0 <=> annTable = {}
            BY <1>1, <2>3, SizeOfListing
        <3>3. PICK g : g = IF Size(ix) = 0 THEN << >> ELSE annFiles["data"].data
            OBVIOUS
        <3>4. g = << >> \/ g = VectorsIn(annTable)
            BY <3>1, <3>2, <3>3
        <3>5. fromEntries = [ix EXCEPT !.graph = g, !.dirty = FALSE]
            BY <2>5, <2>6, <3>3 DEF GraphLoaded
        <3>6. PICK new : new = [ix EXCEPT !.graph = g, !.dirty = FALSE]
            OBVIOUS
        <3>7. DOMAIN ix = IndexFields /\ ix.kind = k /\ ix.entries = Listing(annTable) /\ KeysFit(ix)
            BY <2>3 DEF Lists
        <3>8. /\ DOMAIN new = IndexFields /\ new.kind = k /\ new.entries = ix.entries
              /\ new.byKey = ix.byKey /\ new.graph = g /\ new.dirty = FALSE
            BY <3>6, <3>7 DEF IndexFields
        <3>9. KeysFit(new)
            BY <3>7, <3>8 DEF KeysFit
        <3> QED BY <2>6, <3>4, <3>5, <3>6, <3>7, <3>8, <3>9 DEF Lists
    <2>7. CASE ~(k = "hnsw" /\ GraphUsable)
        BY <2>3, <2>5, <2>7
    <2> QED BY <2>6, <2>7
<1>8. Readable("json") /\ hidden = FALSE => Lists(fromJson, annTable, k)
    <2> SUFFICES ASSUME Readable("json"), hidden = FALSE PROVE Lists(fromJson, annTable, k)
        OBVIOUS
    <2>1. Backfilled(annFiles["json"].data) = Listing(annTable)
        BY <1>1, <1>5 DEF Readable, Kept
    <2> QED BY <1>1, <2>1, FilledFromEntries
<1>9. PICK handle : handle = annHandle'
    OBVIOUS
<1> HIDE DEF fromEntries, fromJson, fromTable
<1>10. /\ Readable("entries") => kept = fromEntries
       /\ ~Readable("entries") /\ Readable("json") => kept = fromJson
       /\ FromTable => kept = fromTable
    OBVIOUS
<1>12. hidden = FALSE \/ FromTable => Lists(kept, annTable, k)
    BY <1>6, <1>7, <1>8, <1>10
<1>13. PICK sure \in BOOLEAN : sure = (FromTable \/ ~hidden)
    OBVIOUS
<1>14. (sure = TRUE => hidden = FALSE \/ FromTable) /\ (sure = FALSE => hidden = TRUE)
    BY <1>2, <1>13
<1>15. PICK loading : loading = FromTable
    OBVIOUS
<1>16. todo = << >> \/ todo = steps
    OBVIOUS
<1>17. todo \in Ahead(k)
       /\ \A f \in Artifact : todo # << >> /\ Through(todo, f) => k = "lsh" /\ f \in {"graph", "data"}
    <2>1. << >> \in Ahead(k)
        BY DEF Ahead
    <2>2. steps \in Ahead(k) /\ \A f \in Artifact : Through(steps, f) => k = "lsh" /\ f \in {"graph", "data"}
        BY <1>2, StepsAhead
    <2> QED BY <1>16, <2>1, <2>2
<1> HIDE DEF kept, todo, FromTable, k
<1>18. /\ DOMAIN handle = HandleFields /\ handle.kind = k /\ handle.open = TRUE /\ handle.loaded = TRUE
       /\ handle.sure = sure /\ handle.index = kept /\ handle.todo = todo
    BY <1>2, <1>3, <1>9, <1>13, <1>15 DEF HandleFields, k
<1>19. AnnShape'
    <2>1. /\ annClock' \in Nat /\ dbTime' \in 1..annClock' /\ hidden' \in BOOLEAN
          /\ DOMAIN annFiles' = Artifact
          /\ \A f \in Artifact : annFiles'[f].time \in 0..annClock' /\ annFiles'[f].whole \in BOOLEAN
        BY <1>1, <1>4 DEF AnnShape
    <2>2. annHandle.kind = "lsh" => annFiles["data"].whole = FALSE
        BY <1>1 DEF AnnShape
    <2>3. annHandle'.kind = "lsh" => annFiles'["data"].whole = FALSE
        BY <1>4, <1>9, <1>18, <2>2 DEF k
    <2> QED BY <1>2, <1>9, <1>17, <1>18, <2>1, <2>3 DEF AnnShape
<1>20. \A f \in Artifact : Kept(f) => Kept(f)'
    BY <1>4, StillKept
<1>21. \A f \in Artifact : k = "lsh" /\ f \in {"graph", "data"} => Kept(f)
    BY <1>1, NoGraphKept DEF k
<1>22. \A f \in Artifact : Fresh(f)' = Fresh(f)
    BY <1>4 DEF Fresh
<1> QED BY <1>1, <1>4, <1>9, <1>12, <1>14, <1>17, <1>18, <1>19, <1>20, <1>21, <1>22 DEF AnnInv

\* After a commit that the times show, no file is fresh.
LEMMA CommitShows ==
    ASSUME AnnInv, NEW table, CommitAnn(table), UNCHANGED <<annFiles, annClock>>
    PROVE  /\ annTable' = table /\ dbTime' \in 1..annClock' /\ annClock' \in Nat /\ hidden' \in BOOLEAN
           /\ DOMAIN annFiles' = Artifact
           /\ \A f \in Artifact : annFiles'[f].time \in 0..annClock' /\ annFiles'[f].whole \in BOOLEAN
           /\ hidden = TRUE => hidden' = TRUE
           /\ hidden' = FALSE => \A f \in Artifact : ~Fresh(f)'
<1>1. /\ annClock \in Nat /\ dbTime \in 1..annClock /\ hidden \in BOOLEAN /\ DOMAIN annFiles = Artifact
      /\ \A f \in Artifact : annFiles[f].time \in 0..annClock /\ annFiles[f].whole \in BOOLEAN
    BY DEF AnnInv, AnnShape
<1>2. dbTime' \in {dbTime, annClock} /\ annTable' = table
    BY DEF CommitAnn
<1>3. hidden' = (hidden \/ dbTime' < annClock \/ \E f \in Artifact : annFiles[f].time = annClock)
    BY DEF CommitAnn
<1>4. hidden' \in BOOLEAN /\ (hidden = TRUE => hidden' = TRUE)
    BY <1>3
<1>5. ASSUME hidden' = FALSE, NEW f \in Artifact PROVE ~Fresh(f)'
    <2>1. ~(dbTime' < annClock) /\ annFiles[f].time # annClock
        BY <1>3, <1>5
    <2>2. annFiles'[f].time < dbTime'
        BY <1>1, <1>2, <2>1
    <2>3. PICK t \in Nat, d \in Nat : t = annFiles'[f].time /\ d = dbTime' /\ t < d
        BY <1>1, <1>2, <2>2
    <2>4. ~(t >= d)
        BY <2>3
    <2> QED BY <2>3, <2>4 DEF Fresh
<1>6. /\ dbTime' \in 1..annClock' /\ annClock' \in Nat /\ DOMAIN annFiles' = Artifact
      /\ \A f \in Artifact : annFiles'[f].time \in 0..annClock' /\ annFiles'[f].whole \in BOOLEAN
    BY <1>1, <1>2
<1>7. hidden' = FALSE => \A f \in Artifact : ~Fresh(f)'
    BY <1>5
<1> QED BY <1>2, <1>4, <1>6, <1>7

\* What a call leaves once it has changed the table and the index.
LEMMA CalledKeeps ==
    ASSUME AnnInv, NEW table, RowsFit(table), CommitAnn(table), UNCHANGED <<annFiles, annClock>>,
           NEW ix, NEW sure \in BOOLEAN,
           annHandle' = [annHandle EXCEPT !.index = ix, !.loaded = FALSE, !.loading = FALSE, !.sure = sure,
                                          !.todo = PersistSteps],
           annHandle.open = TRUE, sure = TRUE => Lists(ix, table, annHandle.kind), sure = FALSE => hidden = TRUE
    PROVE  AnnInv'
<1>1. PICK k : k = annHandle.kind
    OBVIOUS
<1>2. /\ k \in {"lsh", "hnsw"} /\ DOMAIN annHandle = HandleFields
      /\ k = "lsh" => annFiles["data"].whole = FALSE
    BY <1>1 DEF AnnInv, AnnShape
<1>3. PICK todo : todo = PersistSteps
    OBVIOUS
<1>4. todo \in Ahead(k) /\ \A f \in Artifact : Through(todo, f) => k = "lsh" /\ f \in {"graph", "data"}
    BY <1>1, <1>2, <1>3, StepsAhead DEF PersistSteps
<1>5. PICK handle : handle = annHandle'
    OBVIOUS
<1>6. /\ DOMAIN handle = HandleFields /\ handle.kind = k /\ handle.open = TRUE /\ handle.loaded = FALSE
      /\ handle.sure = sure /\ handle.index = ix /\ handle.todo = todo
    BY <1>1, <1>2, <1>3, <1>5 DEF HandleFields
<1>7. /\ annTable' = table /\ dbTime' \in 1..annClock' /\ annClock' \in Nat /\ hidden' \in BOOLEAN
      /\ DOMAIN annFiles' = Artifact
      /\ \A f \in Artifact : annFiles'[f].time \in 0..annClock' /\ annFiles'[f].whole \in BOOLEAN
      /\ hidden = TRUE => hidden' = TRUE
      /\ hidden' = FALSE => \A f \in Artifact : ~Fresh(f)'
    BY CommitShows
<1>8. k = "lsh" => annFiles'["data"].whole = FALSE
    BY <1>2
<1>9. AnnShape'
    BY <1>2, <1>4, <1>5, <1>6, <1>7, <1>8 DEF AnnShape
<1>10. \A f \in Artifact : Through(todo, f) => Kept(f)'
    <2>1. ASSUME NEW f \in Artifact, Through(todo, f) PROVE Kept(f)'
        <3>1. k = "lsh" /\ f \in {"graph", "data"}
            BY <1>4, <2>1
        <3> QED BY <1>8, <3>1 DEF Kept
    <2> QED BY <2>1
<1> QED BY <1>1, <1>5, <1>6, <1>7, <1>9, <1>10 DEF AnnInv

LEMMA IngestAnnKeeps ==
    ASSUME AnnInv, IngestAnn
    PROVE  AnnInv'
<1>1. PICK r \in AnnBatches :
          LET row == [key |-> AnnRowKey(r.id), id |-> r.id, emb |-> r.emb]
          IN /\ row.key <= MaxAnnKey /\ Fits(annHandle.index, r.emb)
             /\ CommitAnn({o \in annTable : o.id # r.id} \cup {row})
             /\ annHandle' = [annHandle EXCEPT !.index = PutRecords(@, <<row>>), !.loaded = FALSE,
                                              !.loading = FALSE, !.todo = PersistSteps]
    BY DEF IngestAnn
<1>2. PICK row : row = [key |-> AnnRowKey(r.id), id |-> r.id, emb |-> r.emb]
    OBVIOUS
<1>3. row.key = AnnRowKey(r.id) /\ row.id = r.id /\ row.emb = r.emb
    BY <1>2
<1>4. PICK table : table = {o \in annTable : o.id # r.id} \cup {row}
    OBVIOUS
<1>5. PICK ix : ix = PutRecords(annHandle.index, <<row>>)
    OBVIOUS
<1>6. /\ Fits(annHandle.index, row.emb) /\ CommitAnn(table)
      /\ annHandle' = [annHandle EXCEPT !.index = ix, !.loaded = FALSE, !.loading = FALSE,
                                       !.todo = PersistSteps]
    BY <1>1, <1>2, <1>3, <1>4, <1>5
<1>7. RowsFit(annTable) /\ annHandle.open = TRUE /\ UNCHANGED <<annFiles, annClock>>
    BY DEF AnnInv, IngestAnn, AnnIdle, AnnShape
<1>8. r.emb \in Seq(Int) /\ r.emb # << >>
    BY <1>1, AnnAssumption DEF Fits
<1>9. \/ \E o \in annTable : row.key = o.key /\ table = Exchanged(annTable, o, row)
      \/ (\A q \in annTable : q.key < row.key /\ q.id # row.id) /\ table = Grown(annTable, row) /\ row.key \in Nat \ {0}
    <2>1. CASE \E o \in annTable : o.id = r.id
        <3>1. PICK o \in annTable : o.id = r.id
            BY <2>1
        <3>2. \A q \in annTable : q.id = r.id => q = o
            BY <1>7, <3>1 DEF RowsFit
        <3>3. {q \in annTable : q.id = r.id} = {o}
            BY <3>1, <3>2
        <3>4. (CHOOSE q \in {o} : TRUE) = o
            OBVIOUS
        <3>5. AnnRowKey(r.id) = o.key
            BY <3>3, <3>4 DEF AnnRowKey
        <3>6. {q \in annTable : q.id # r.id} = annTable \ {o}
            BY <3>1, <3>2
        <3> QED BY <1>3, <1>4, <3>1, <3>5, <3>6 DEF Exchanged
    <2>2. CASE ~\E o \in annTable : o.id = r.id
        <3>1. {q \in annTable : q.id = r.id} = {} /\ {q \in annTable : q.id # r.id} = annTable
            BY <2>2
        <3>2. AnnRowKey(r.id) = IF annTable = {} THEN 1 ELSE 1 + Max(KeysOf(annTable))
            BY <3>1 DEF AnnRowKey
        <3>3. CASE annTable = {}
            BY <1>3, <1>4, <3>1, <3>2, <3>3 DEF Grown
        <3>4. CASE annTable # {}
            <4>1. Max(KeysOf(annTable)) \in Nat /\ \A q \in annTable : q.key <= Max(KeysOf(annTable))
                BY <1>7, <3>4, NewKeyIsAbove
            <4>2. row.key = 1 + Max(KeysOf(annTable))
                BY <1>3, <3>2, <3>4
            <4>3. \A q \in annTable : q.key \in Nat
                BY <1>7 DEF RowsFit
            <4>4. row.key \in Nat \ {0} /\ \A q \in annTable : q.key < row.key
                BY <4>1, <4>2, <4>3
            <4> QED BY <1>3, <1>4, <2>2, <3>1, <4>4 DEF Grown
        <3> QED BY <3>3, <3>4
    <2> QED BY <2>1, <2>2
<1>10. RowsFit(table)
    <2>1. IsFiniteSet(table)
        <3>1. {o \in annTable : o.id # r.id} \subseteq annTable /\ IsFiniteSet(annTable)
            BY <1>7 DEF RowsFit
        <3> QED BY <1>4, <3>1, FS_Subset, FS_AddElement
    <2>2. row.key \in Nat \ {0}
        BY <1>7, <1>9 DEF RowsFit
    <2>3. \A q \in table : q.key \in Nat \ {0} /\ q.emb \in Seq(Int) /\ q.emb # << >>
        BY <1>3, <1>4, <1>7, <1>8, <2>2 DEF RowsFit
    <2>4. \A q \in table : q = row \/ (q \in annTable /\ q.id # row.id /\ q.key # row.key)
        <3>1. ASSUME NEW q \in table, q # row PROVE q \in annTable /\ q.id # row.id
            BY <1>3, <1>4, <3>1
        <3>2. ASSUME NEW q \in table, q # row PROVE q.key # row.key
            <4>1. CASE \E o \in annTable : row.key = o.key /\ table = Exchanged(annTable, o, row)
                <5>1. PICK o \in annTable : row.key = o.key /\ table = Exchanged(annTable, o, row)
                    BY <4>1
                <5>2. q \in annTable /\ q # o
                    BY <3>2, <5>1 DEF Exchanged
                <5> QED BY <1>7, <5>1, <5>2 DEF RowsFit
            <4>2. CASE \A q2 \in annTable : q2.key < row.key
                BY <1>7, <3>1, <3>2, <2>2, <4>2 DEF RowsFit
            <4> QED BY <1>9, <4>1, <4>2
        <3> QED BY <3>1, <3>2
    <2> QED BY <1>7, <2>1, <2>3, <2>4 DEF RowsFit
<1>11. PICK sure : sure = annHandle.sure
    OBVIOUS
<1>12. sure \in BOOLEAN /\ DOMAIN annHandle = HandleFields /\ (sure = FALSE => hidden = TRUE)
    BY <1>7, <1>11 DEF AnnInv, AnnShape
<1>13. annHandle' = [annHandle EXCEPT !.index = ix, !.loaded = FALSE, !.loading = FALSE, !.sure = sure,
                                     !.todo = PersistSteps]
    BY <1>6, <1>11, <1>12 DEF HandleFields
<1>14. ASSUME sure = TRUE PROVE Lists(ix, table, annHandle.kind)
    <2>1. Lists(annHandle.index, annTable, annHandle.kind)
        BY <1>7, <1>11, <1>14 DEF AnnInv
    <2>2. \/ \E o \in annTable : row.key = o.key /\ table = Exchanged(annTable, o, row)
          \/ (\A q \in annTable : q.key < row.key) /\ table = Grown(annTable, row)
        BY <1>9
    <2> QED BY <1>5, <1>6, <1>7, <1>10, <2>1, <2>2, RowPut
<1> QED BY <1>6, <1>7, <1>10, <1>12, <1>13, <1>14, CalledKeeps

LEMMA DeleteAnnKeeps ==
    ASSUME AnnInv, DeleteAnn
    PROVE  AnnInv'
<1>0. PICK id \in AnnIds :
          LET table == {r \in annTable : r.id # id}
          IN /\ CommitAnn(table)
             /\ annHandle' =
                   [annHandle EXCEPT
                      !.index = PutRecords(EmptyIndex(annHandle.kind), InOrder(table)),
                      !.loaded = FALSE, !.loading = FALSE, !.sure = TRUE, !.todo = PersistSteps]
    BY DEF DeleteAnn
<1>1. PICK table \in SUBSET annTable :
         /\ CommitAnn(table)
         /\ annHandle' =
               [annHandle EXCEPT
                  !.index = PutRecords(EmptyIndex(annHandle.kind), InOrder(table)),
                  !.loaded = FALSE, !.loading = FALSE, !.sure = TRUE, !.todo = PersistSteps]
    BY <1>0
<1>2. RowsFit(annTable) /\ annHandle.open = TRUE /\ UNCHANGED <<annFiles, annClock>>
    BY DEF AnnInv, DeleteAnn, AnnIdle, AnnShape
<1>3. RowsFit(table)
    <2>1. table \subseteq annTable
        BY <1>1
    <2> QED BY <1>2, <2>1, FS_Subset DEF RowsFit
<1>4. PICK ix : ix = PutRecords(EmptyIndex(annHandle.kind), InOrder(table))
    OBVIOUS
<1>5. Lists(ix, table, annHandle.kind)
    BY <1>3, <1>4, FilledFromTable
<1>6. annHandle' = [annHandle EXCEPT !.index = ix, !.loaded = FALSE, !.loading = FALSE, !.sure = TRUE,
                                    !.todo = PersistSteps]
    BY <1>1, <1>4
<1> QED BY <1>1, <1>2, <1>3, <1>5, <1>6, CalledKeeps

\* The times of the files and of the clock.
FilesTimed ==
    /\ annClock \in Nat /\ dbTime \in 1..annClock /\ hidden \in BOOLEAN /\ DOMAIN annFiles = Artifact
    /\ \A f \in Artifact : annFiles[f].time \in 0..annClock /\ annFiles[f].whole \in BOOLEAN

LEMMA SaveFileKeeps ==
    ASSUME AnnInv, SaveFile
    PROVE  AnnInv'
<1> DEFINE k == annHandle.kind
           todo == annHandle.todo
           old == annHandle.index
<1>0. PICK step : step = Head(todo)
    OBVIOUS
<1>1. /\ k \in {"lsh", "hnsw"} /\ DOMAIN annHandle = HandleFields /\ annHandle.sure \in BOOLEAN
      /\ annHandle.open = TRUE /\ todo \in Ahead(k) /\ todo # << >> /\ annHandle.loaded \in BOOLEAN
      /\ FilesTimed /\ (k = "lsh" => annFiles["data"].whole = FALSE)
    BY DEF AnnInv, AnnShape, SaveFile, FilesTimed
<1>2. RowsFit(annTable) /\ UNCHANGED <<annTable, annWal, dbTime, annClock, annCrashes>>
    BY DEF AnnInv, SaveFile
<1>3. /\ Tail(todo) \in Ahead(k) /\ step \in Artifact
      /\ \A f : Through(Tail(todo), f) => f = step \/ Through(todo, f)
      /\ Len(todo) > 1 <=> Tail(todo) # << >>
      /\ k = "lsh" => step \in {"entries", "json"}
    BY <1>0, <1>1, AheadFacts
<1>4. PICK ix : ix = IF step \in {"graph", "data"} /\ Size(old) > 0 THEN WithGraph(old) ELSE old
    OBVIOUS
<1>5. PICK contents : contents = Contents(step, ix)
    OBVIOUS
<1>6. PICK file : file = [time |-> annClock, whole |-> TRUE, data |-> contents]
    OBVIOUS
<1>7. /\ annHandle' = [annHandle EXCEPT !.index = ix, !.todo = Tail(@)]
      /\ annFiles' = IF ~Dumps(step, ix) THEN annFiles ELSE [annFiles EXCEPT ![step] = file]
      /\ hidden' = (hidden /\ (Len(todo) > 1 \/ ~annHandle.sure))
    BY <1>0, <1>4, <1>5, <1>6 DEF SaveFile
<1>8. PICK rest : rest = Tail(todo)
    OBVIOUS
<1>9. PICK handle : handle = annHandle'
    OBVIOUS
<1>10. /\ DOMAIN handle = HandleFields /\ handle.kind = k /\ handle.open = TRUE
       /\ handle.loaded = annHandle.loaded /\ handle.sure = annHandle.sure
       /\ handle.index = ix /\ handle.todo = rest
    BY <1>1, <1>7, <1>8, <1>9 DEF HandleFields
<1>11. file.time = annClock /\ file.whole = TRUE /\ file.data = contents
    BY <1>6
<1>12. /\ DOMAIN annFiles' = Artifact
       /\ \A f \in Artifact : f # step => annFiles'[f] = annFiles[f]
       /\ annFiles'[step] = IF ~Dumps(step, ix) THEN annFiles[step] ELSE file
    BY <1>1, <1>3, <1>7 DEF FilesTimed
<1>13. hidden' \in BOOLEAN
    BY <1>7
<1>14. AnnShape'
    <2>1. \A f \in Artifact : annFiles'[f].time \in 0..annClock /\ annFiles'[f].whole \in BOOLEAN
        <3>1. annClock \in 0..annClock
            BY <1>1 DEF FilesTimed
        <3>2. \A f \in Artifact : annFiles[f].time \in 0..annClock /\ annFiles[f].whole \in BOOLEAN
            BY <1>1 DEF FilesTimed
        <3> QED BY <1>3, <1>11, <1>12, <3>1, <3>2
    <2>2. k = "lsh" => annFiles'["data"].whole = FALSE
        BY <1>1, <1>3, <1>12 DEF Artifact
    <2>3. annClock' \in Nat /\ dbTime' \in 1..annClock'
        BY <1>1, <1>2 DEF FilesTimed
    <2>4. handle.loaded = TRUE => handle.open = TRUE
        BY <1>10
    <2> QED BY <1>1, <1>2, <1>3, <1>8, <1>9, <1>10, <1>12, <1>13, <2>1, <2>2, <2>3, <2>4 DEF AnnShape
<1>15. CASE annHandle.sure = TRUE
    <2>1. Lists(old, annTable, k) /\ \A f \in Artifact : Through(todo, f) => Kept(f)
        BY <1>1, <1>15 DEF AnnInv
    <2>2. /\ Lists(ix, annTable, k)
          /\ step = "data" => annTable = {} \/ ix.graph = VectorsIn(annTable)
        <3>1. Size(old) \in Nat /\ (Size(old) = 0 <=> annTable = {})
            BY <1>2, <2>1, SizeOfListing
        <3>2. CASE step \in {"graph", "data"} /\ Size(old) > 0
            <4>1. k = "hnsw" /\ ix = WithGraph(old)
                BY <1>1, <1>3, <1>4, <3>2
            <4>2. Lists(old, annTable, "hnsw")
                BY <2>1, <4>1
            <4>3. Lists(WithGraph(old), annTable, "hnsw") /\ WithGraph(old).graph = VectorsIn(annTable)
                BY <1>2, <4>2, GraphBuilt
            <4> QED BY <4>1, <4>3
        <3>3. CASE ~(step \in {"graph", "data"} /\ Size(old) > 0)
            <4>1. ix = old
                BY <1>4, <3>3
            <4>2. step = "data" => annTable = {}
                BY <3>1, <3>3
            <4> QED BY <2>1, <4>1, <4>2
        <3> QED BY <3>2, <3>3
    <2>3. \A f \in Artifact : f # step /\ Kept(f) => Kept(f)'
        BY <1>2, <1>12, StillKept
    <2>4. Kept(step)'
        <3>1. CASE step = "graph"
            BY <3>1 DEF Kept
        <3>2. CASE step \in {"entries", "json"}
            <4>1. Dumps(step, ix) /\ contents = ix.entries
                BY <1>5, <3>2 DEF Dumps, Contents, Exported
            <4>2. contents = Listing(annTable)
                BY <2>2, <4>1 DEF Lists
            <4>3. annFiles'[step].data = Listing(annTable)
                BY <1>11, <1>12, <4>1, <4>2
            <4>4. Backfilled(Listing(annTable)) = Listing(annTable)
                BY <1>2, NothingToBackfill
            <4>5. \A x : Backfilled(x)' = Backfilled(x)
                BY <1>2 DEF Backfilled
            <4>6. PICK l : l = Listing(annTable)
                OBVIOUS
            <4>7. annFiles'[step].data = l /\ Backfilled(l)' = l /\ Listing(annTable') = l
                BY <1>2, <4>3, <4>4, <4>5, <4>6
            <4>8. Backfilled(annFiles[step].data)' = l
                BY <4>7 DEF Backfilled
            <4> QED BY <3>2, <4>7, <4>8 DEF Kept
        <3>3. CASE step = "data"
            <4>1. CASE annTable = {}
                BY <1>2, <3>3, <4>1 DEF Kept
            <4>2. CASE annTable # {}
                <5>1. Size(ix) \in Nat /\ Size(ix) # 0
                    BY <1>2, <2>2, <4>2, SizeOfListing
                <5>2. Dumps(step, ix) /\ contents = ix.graph
                    BY <1>5, <3>3, <5>1 DEF Dumps, Contents
                <5>3. annFiles'[step].data = VectorsIn(annTable)
                    BY <1>11, <1>12, <2>2, <3>3, <4>2, <5>2
                <5>4. VectorsIn(annTable') = VectorsIn(annTable)
                    BY <1>2
                <5> QED BY <3>3, <5>3, <5>4 DEF Kept
            <4> QED BY <4>1, <4>2
        <3> QED BY <1>3, <3>1, <3>2, <3>3 DEF Artifact
    <2>5. \A f \in Artifact : Through(rest, f) => Kept(f)'
        BY <1>3, <1>8, <2>1, <2>3, <2>4
    <2>6. ASSUME hidden' = FALSE, NEW f \in Artifact, Fresh(f)' PROVE Kept(f)'
        <3>1. CASE rest = << >>
            BY <2>5, <3>1 DEF Through
        <3>2. CASE rest # << >>
            <4>1. hidden = FALSE
                BY <1>1, <1>3, <1>7, <1>8, <2>6, <3>2 DEF FilesTimed
            <4>2. CASE f = step
                BY <2>4, <4>2
            <4>3. CASE f # step
                <5>1. Fresh(f)
                    BY <1>2, <1>12, <2>6, <4>3 DEF Fresh
                <5>2. Kept(f)
                    BY <4>1, <5>1 DEF AnnInv
                <5> QED BY <2>3, <4>3, <5>2
            <4> QED BY <4>2, <4>3
        <3> QED BY <3>1, <3>2
    <2> QED BY <1>2, <1>9, <1>10, <1>14, <1>15, <2>2, <2>5, <2>6 DEF AnnInv
<1>16. CASE annHandle.sure = FALSE
    <2>1. hidden = TRUE
        BY <1>1, <1>16 DEF AnnInv
    <2>2. hidden' = TRUE
        BY <1>7, <1>16, <2>1
    <2> QED BY <1>2, <1>9, <1>10, <1>14, <1>16, <2>2 DEF AnnInv
<1> QED BY <1>1, <1>15, <1>16

LEMMA SaveFailsKeeps ==
    ASSUME AnnInv, SaveFails
    PROVE  AnnInv'
<1> DEFINE k == annHandle.kind
           todo == annHandle.todo
<1>0. PICK step : step = Head(todo)
    OBVIOUS
<1>1. /\ k \in {"lsh", "hnsw"} /\ DOMAIN annHandle = HandleFields /\ annHandle.sure \in BOOLEAN
      /\ annHandle.open = TRUE /\ todo \in Ahead(k) /\ todo # << >> /\ annHandle.loaded \in BOOLEAN
      /\ FilesTimed /\ (k = "lsh" => annFiles["data"].whole = FALSE)
    BY DEF AnnInv, AnnShape, SaveFails, FilesTimed
<1>2. RowsFit(annTable) /\ UNCHANGED <<annTable, annWal, dbTime, annClock, hidden>>
    BY DEF AnnInv, SaveFails
<1>3. /\ Tail(todo) \in Ahead(k) /\ step \in Artifact
      /\ \A f : Through(Tail(todo), f) => f = step \/ Through(todo, f)
    BY <1>0, <1>1, AheadFacts
<1>4. PICK file : file = [time |-> annClock, whole |-> FALSE, data |-> << >>]
    OBVIOUS
<1>5. PICK rest : rest = IF annHandle.loading THEN Tail(todo) ELSE << >>
    OBVIOUS
<1>6. annHandle' = [annHandle EXCEPT !.todo = rest] /\ annFiles' = [annFiles EXCEPT ![step] = file]
    BY <1>0, <1>4, <1>5 DEF SaveFails
<1>7. PICK handle : handle = annHandle'
    OBVIOUS
<1>8. /\ DOMAIN handle = HandleFields /\ handle.kind = k /\ handle.open = TRUE
      /\ handle.loaded = annHandle.loaded /\ handle.sure = annHandle.sure
      /\ handle.index = annHandle.index /\ handle.todo = rest
    BY <1>1, <1>6, <1>7 DEF HandleFields
<1>9. file.time = annClock /\ file.whole = FALSE
    BY <1>4
<1>10. /\ DOMAIN annFiles' = Artifact /\ annFiles'[step] = file
       /\ \A f \in Artifact : f # step => annFiles'[f] = annFiles[f]
    BY <1>1, <1>3, <1>6 DEF FilesTimed
<1>11. rest \in Ahead(k) /\ (rest # << >> => rest = Tail(todo))
    <2>1. << >> \in Ahead(k)
        BY DEF Ahead
    <2> QED BY <1>3, <1>5, <2>1
<1>12. AnnShape'
    <2>1. \A f \in Artifact : annFiles'[f].time \in 0..annClock /\ annFiles'[f].whole \in BOOLEAN
        <3>1. annClock \in 0..annClock
            BY <1>1 DEF FilesTimed
        <3>2. \A f \in Artifact : annFiles[f].time \in 0..annClock /\ annFiles[f].whole \in BOOLEAN
            BY <1>1 DEF FilesTimed
        <3> QED BY <1>3, <1>9, <1>10, <3>1, <3>2
    <2>2. k = "lsh" => annFiles'["data"].whole = FALSE
        BY <1>1, <1>9, <1>10 DEF Artifact
    <2>3. annClock' \in Nat /\ dbTime' \in 1..annClock' /\ hidden' \in BOOLEAN
        BY <1>1, <1>2 DEF FilesTimed
    <2> QED BY <1>1, <1>2, <1>7, <1>8, <1>10, <1>11, <2>1, <2>2, <2>3 DEF AnnShape
<1>13. Kept(step)'
    BY <1>9, <1>10 DEF Kept
<1>14. \A f \in Artifact : f # step /\ Kept(f) => Kept(f)'
    BY <1>2, <1>10, StillKept
<1>15. \A f \in Artifact : f # step => Fresh(f)' = Fresh(f)
    BY <1>2, <1>10 DEF Fresh
<1>16. annHandle.sure = TRUE => Lists(handle.index, annTable', k)
    BY <1>1, <1>2, <1>8 DEF AnnInv
<1>17. annHandle.sure = TRUE /\ rest # << >> => \A f \in Artifact : Through(rest, f) => Kept(f)'
    <2>1. annHandle.sure = TRUE => \A f \in Artifact : Through(todo, f) => Kept(f)
        BY <1>1 DEF AnnInv
    <2> QED BY <1>3, <1>11, <1>13, <1>14, <2>1
<1>18. hidden' = FALSE => \A f \in Artifact : Fresh(f)' => Kept(f)'
    <2>1. hidden = FALSE => \A f \in Artifact : Fresh(f) => Kept(f)
        BY DEF AnnInv
    <2> QED BY <1>2, <1>13, <1>14, <1>15, <2>1
<1>19. annHandle.sure = FALSE => hidden' = TRUE
    BY <1>1, <1>2 DEF AnnInv
<1> QED BY <1>2, <1>7, <1>8, <1>12, <1>16, <1>17, <1>18, <1>19 DEF AnnInv

\* A handle that is gone leaves the files.
LEMMA ClosedKeeps ==
    ASSUME AnnInv, annHandle' = ClosedAnn(annHandle.kind), UNCHANGED <<annTable, annFiles>>,
           annClock' = annClock, dbTime' \in {dbTime, annClock}, hidden' \in BOOLEAN,
           hidden' = FALSE => \A f \in Artifact : Fresh(f)' => hidden = FALSE /\ Fresh(f)
    PROVE  AnnInv'
<1>1. PICK k : k = annHandle.kind
    OBVIOUS
<1>2. k \in {"lsh", "hnsw"} /\ (k = "lsh" => annFiles["data"].whole = FALSE) /\ FilesTimed /\ RowsFit(annTable)
    BY <1>1 DEF AnnInv, AnnShape, FilesTimed
<1>3. PICK handle : handle = annHandle'
    OBVIOUS
<1>4. /\ DOMAIN handle = HandleFields /\ handle.kind = k /\ handle.open = FALSE /\ handle.loaded = FALSE
      /\ handle.sure = TRUE
    BY <1>1, <1>3 DEF ClosedAnn, HandleFields
<1>5. dbTime' \in 1..annClock'
    BY <1>2 DEF FilesTimed
<1>6. AnnShape'
    BY <1>2, <1>3, <1>4, <1>5 DEF AnnShape, FilesTimed
<1>7. \A f \in Artifact : Kept(f) => Kept(f)'
    BY StillKept
<1>8. hidden' = FALSE => \A f \in Artifact : Fresh(f)' => Kept(f)'
    BY <1>7 DEF AnnInv
<1>9. handle.open # TRUE
    BY <1>4
<1> QED BY <1>2, <1>3, <1>6, <1>8, <1>9 DEF AnnInv

LEMMA CloseAnnKeeps ==
    ASSUME AnnInv, CloseAnn
    PROVE  AnnInv'
<1>1. /\ annHandle' = ClosedAnn(annHandle.kind) /\ UNCHANGED <<annTable, annFiles>> /\ annClock' = annClock
      /\ dbTime' \in {dbTime, annClock}
      /\ hidden' = (hidden /\ \E f \in Artifact : annFiles[f].time >= dbTime')
    BY DEF CloseAnn
<1>2. annClock \in Nat /\ dbTime \in 1..annClock /\ hidden \in BOOLEAN
      /\ \A f \in Artifact : annFiles[f].time \in 0..annClock
    BY DEF AnnInv, AnnShape
<1>3. hidden' \in BOOLEAN
    BY <1>1
<1>4. ASSUME hidden' = FALSE, NEW f \in Artifact, Fresh(f)' PROVE hidden = FALSE /\ Fresh(f)
    <2>1. annFiles[f].time >= dbTime' /\ annFiles[f].time # 0
        BY <1>1, <1>4 DEF Fresh
    <2>2. hidden = FALSE
        BY <1>1, <1>2, <1>4, <2>1
    <2>3. annFiles[f].time >= dbTime
        BY <1>1, <1>2, <2>1
    <2> QED BY <2>1, <2>2, <2>3 DEF Fresh
<1> QED BY <1>1, <1>3, <1>4, ClosedKeeps

LEMMA CrashAnnKeeps ==
    ASSUME AnnInv, CrashAnn
    PROVE  AnnInv'
<1>1. /\ annHandle' = ClosedAnn(annHandle.kind) /\ UNCHANGED <<annTable, annFiles>> /\ annClock' = annClock
      /\ dbTime' = dbTime /\ hidden' = hidden /\ hidden \in BOOLEAN
    BY DEF CrashAnn, AnnInv, AnnShape
<1>2. \A f \in Artifact : Fresh(f)' = Fresh(f)
    BY <1>1 DEF Fresh
<1> QED BY <1>1, <1>2, ClosedKeeps

LEMMA TickAnnKeeps ==
    ASSUME AnnInv, TickAnn
    PROVE  AnnInv'
<1>1. annClock' = annClock + 1 /\ UNCHANGED <<annTable, annFiles, dbTime, annHandle, hidden>>
    BY DEF TickAnn
<1>2. AnnShape
    BY DEF AnnInv
<1>3. AnnShape'
    <2>1. annClock \in Nat /\ dbTime \in 1..annClock
          /\ \A f \in Artifact : annFiles[f].time \in 0..annClock
        BY <1>2 DEF AnnShape
    <2>2. annClock' \in Nat /\ dbTime' \in 1..annClock'
          /\ \A f \in Artifact : annFiles'[f].time \in 0..annClock'
        BY <1>1, <2>1
    <2> QED BY <1>1, <1>2, <2>2 DEF AnnShape
<1>4. \A f \in Artifact : (Kept(f) => Kept(f)') /\ Fresh(f)' = Fresh(f)
    BY <1>1, StillKept DEF Fresh
<1> QED BY <1>1, <1>3, <1>4 DEF AnnInv

LEMMA AnnInvNext == AnnInv /\ [AnnNext]_annVars => AnnInv'
<1> SUFFICES ASSUME AnnInv, [AnnNext]_annVars PROVE AnnInv'
    OBVIOUS
<1>1. CASE UNCHANGED annVars
    <2>1. UNCHANGED <<annTable, annFiles, dbTime, annClock, annHandle, hidden>>
        BY <1>1 DEF annVars
    <2>2. \A f \in Artifact : (Kept(f) => Kept(f)') /\ Fresh(f)' = Fresh(f)
        BY <2>1, StillKept DEF Fresh
    <2>3. AnnShape'
        BY <2>1 DEF AnnInv, AnnShape
    <2> QED BY <2>1, <2>2, <2>3 DEF AnnInv
<1> QED BY <1>1, LoadKeeps, IngestAnnKeeps, DeleteAnnKeeps, SaveFileKeeps, SaveFailsKeeps, CloseAnnKeeps,
           CrashAnnKeeps, TickAnnKeeps DEF AnnNext

LEMMA AnnInvLoads == AnnInv => LoadedIsStored
<1> SUFFICES ASSUME AnnInv, annHandle.loaded = TRUE, hidden = FALSE
             PROVE  LET ix == annHandle.index
                    IN /\ ToSet(ix.entries) = {EntryOf(r) : r \in annTable}
                       /\ Size(ix) = Cardinality(annTable)
                       /\ ix.graph # << >> => ~ix.dirty /\ ix.graph = Own(ix)
    BY DEF LoadedIsStored, AnnInv, AnnShape
<1>1. annHandle.open = TRUE /\ annHandle.sure = TRUE /\ RowsFit(annTable)
    BY DEF AnnInv, AnnShape
<1>2. PICK ix : ix = annHandle.index
    OBVIOUS
<1>3. PICK k : k = annHandle.kind
    OBVIOUS
<1>4. Lists(ix, annTable, k)
    BY <1>1, <1>2, <1>3 DEF AnnInv
<1>5. Size(ix) = Cardinality(annTable) /\ Own(ix) = VectorsIn(annTable)
    BY <1>1, <1>4, SizeOfListing
<1>6. ix.graph = << >> \/ (ix.dirty = FALSE /\ ix.graph = VectorsIn(annTable))
    BY <1>4 DEF Lists
<1>7. ToSet(ix.entries) = {EntryOf(r) : r \in annTable}
    <2>1. PICK l : l = Listing(annTable)
        OBVIOUS
    <2>2. PICK s : s = InOrder(annTable)
        OBVIOUS
    <2>3. Len(l) = Len(s) /\ DOMAIN l = 1..Len(l) /\ \A n \in 1..Len(l) : l[n] = EntryOf(s[n]) /\ s[n] \in annTable
        BY <1>1, <2>1, <2>2, ListingFacts
    <2>4. \A r \in annTable : \E n \in 1..Len(s) : s[n] = r
        BY <1>1, <2>2, InOrderFacts
    <2>5. ToSet(l) = {EntryOf(r) : r \in annTable}
        BY <2>3, <2>4 DEF ToSet
    <2> QED BY <1>4, <2>1, <2>5 DEF Lists
<1> QED BY <1>2, <1>5, <1>6, <1>7

(***************************************************************************)
(* What the handles and the files hold, for any batches, kinds of index,   *)
(* clocks, crashes and failed saves (src/src/lib.rs).                      *)
(***************************************************************************)
THEOREM AnnInvariant == AnnSpec => []AnnInv
<1> QED BY AnnInvInit, AnnInvNext, PTL DEF AnnSpec

(***************************************************************************)
(* As long as the modification times show every commit, an index that a    *)
(* handle loads is the table, from whichever file it comes and whatever    *)
(* crashes and failed saves left (load_vector_index() in src/src/lib.rs).  *)
(***************************************************************************)
THEOREM LoadsAreStored == AnnSpec => []LoadedIsStored
<1> QED BY AnnInvariant, AnnInvLoads, PTL

-----------------------------------------------------------------------------
(* The parts side by side.                                                 *)

LEMMA ServingRunsEach ==
    Spec => CatalogSpec /\ IndexSpec /\ AnnSpec /\ SearchSpec /\ OperationsSpec /\ AccessSpec
<1>1. Init => CatalogInit /\ IndexInit /\ AnnInit /\ SearchInit /\ OperationsInit /\ AccessInit
    BY DEF Init
<1>2. ASSUME [Next]_vars
      PROVE  /\ [CatalogNext]_catalogVars /\ [IndexNext]_indexVars /\ [AnnNext]_annVars
             /\ [SearchNext]_searchVars /\ [OperationsNext]_operationsVars /\ [AccessNext]_accessVars
    BY <1>2 DEF Next, vars
<1> QED BY <1>1, <1>2, PTL DEF Spec, CatalogSpec, IndexSpec, AnnSpec, SearchSpec, OperationsSpec, AccessSpec

(***************************************************************************)
(* Side by side the parts keep what each keeps by itself: none of them     *)
(* changes the state of another (lib.rs, vector_index.rs, server.rs,       *)
(* security.rs).                                                           *)
(***************************************************************************)
THEOREM ServingKeepsItsWord ==
    Spec => [](/\ ReportsAddUp /\ IndexConsistent /\ LoadedIsStored /\ SearchSound
               /\ RoomySearchIsExhaustive /\ MeasuresOnRecord /\ RequestsAddUp /\ TrailAccounts)
BY ServingRunsEach, RepliesAddUp, IndexStaysConsistent, LoadsAreStored, SearchResultsAreSound,
   RoomySearchesAreExhaustive, ReportsSurviveRestarts, TracesAddUp, TrailTellsAll, PTL

(***************************************************************************)
(* Among the other parts too the index is the map that SimilarityMap says  *)
(* it is (src/src/vector_index.rs).                                        *)
(***************************************************************************)
THEOREM ServedIndexIsAMap == Spec => AnswersAsPromised
BY ServingRunsEach, IndexIsAMap, PTL
=============================================================================
