----------------------------- MODULE SqlDialect -----------------------------
(***************************************************************************)
(* How a SQL statement is rewritten before SQLite sees it                  *)
(* (src/src/sql_semantics.rs; src/src/main.rs holds a copy for the command *)
(* line): the table function SEARCH(...) becomes a subquery, and each      *)
(* vector operator, one after the other, a call with its two operands.     *)
(*                                                                         *)
(* A statement is a sequence of symbols.  A word, a number, an operator or *)
(* the two characters that open or close a comment are one symbol.         *)
(***************************************************************************)
EXTENDS Integers, Sequences, FiniteSets, SequencesExt

CONSTANTS Words,        \* the symbols of letters and digits, keywords included
          Numbers,      \* word -> its value, for those that are numbers
          Statements,   \* what is executed: [text, meant, spec]
          DialectTuning \* the factors and floors of resolve_search_candidate_limit()

VARIABLE sql   \* [text, meant, wanted, spec, phase, rounds]

OperatorName ==
    [op \in {"<->", "<=>", "<#>"} |->
       CASE op = "<->" -> "l2_distance" [] op = "<=>" -> "cosine_distance"
         [] OTHER -> "neg_inner_product"]

Space == {" ", "\n"}
QuoteMark == {"'", "\""}
Comment == {"--", "/*", "*/"}
LeftBoundary == Space \cup Comment \cup DOMAIN OperatorName \cup {",", ";", "(", ")", "+", "="}
RightBoundary == LeftBoundary \ {"("}
Reserved == {"WHERE", "ORDER", "GROUP", "LIMIT", "JOIN", "UNION", "HAVING", "OFFSET"}

-----------------------------------------------------------------------------
(* Scanning.                                                               *)

\* ScanState: inside a quoted text, a comment, or neither.  A doubled quote leaves the
\* text and enters it again.
Scan(state, c) ==
    CASE state = "normal" /\ c \in QuoteMark \cup {"--", "/*"} -> c
      [] state \in QuoteMark /\ c = state -> "normal"
      [] state = "--" /\ c = "\n" -> "normal"
      [] state = "/*" /\ c = "*/" -> "normal"
      [] OTHER -> state

\* Most scans know quoted texts, but no comments.
ScanQuotes(state, c) == IF c \in Comment THEN state ELSE Scan(state, c)

StatesBefore(s, comments) ==
    LET step(state, c) == IF comments THEN Scan(state, c) ELSE ScanQuotes(state, c)
    IN FoldLeft(LAMBDA states, c : Append(states, step(Last(states), c)), <<"normal">>, s)

Least(S) == IF S = {} THEN 0 ELSE CHOOSE i \in S : \A j \in S : i <= j
Greatest(S) == IF S = {} THEN 0 ELSE CHOOSE i \in S : \A j \in S : i >= j

NotSpaceFrom(s, i) == Least({j \in i..Len(s) : s[j] \notin Space})
NotSpaceBefore(s, i) == Greatest({j \in 1..(i - 1) : s[j] \notin Space})

Trimmed(s) ==
    LET inside == {i \in DOMAIN s : s[i] \notin Space}
    IN IF inside = {} THEN << >> ELSE SubSeq(s, Least(inside), Greatest(inside))

CountIn(s, S, c) == Cardinality({i \in S : s[i] = c})

\* seek_balanced_forward(): 0 when nothing closes what opens at i.
Closing(s, i, open, close) ==
    LET states == StatesBefore(SubSeq(s, i, Len(s)), FALSE)
        Plain(j) == {k \in i..j : states[k - i + 1] = "normal"}
    IN Least({j \in i..Len(s) : states[j - i + 1] = "normal" /\ s[j] = close
                /\ CountIn(s, Plain(j), open) = CountIn(s, Plain(j), close)})

\* seek_balanced_backward(): it takes no notice of quoted texts.
Opening(s, i, open, close) ==
    Greatest({j \in 1..i : s[j] = open /\ CountIn(s, j..i, open) = CountIn(s, j..i, close)})

\* seek_quoted_end()
QuotedEnd(s, start) ==
    LET end[i \in start..(Len(s) + 2)] ==
          IF i > Len(s) THEN 0
          ELSE IF s[i] # s[start] THEN end[i + 1]
          ELSE IF i < Len(s) /\ s[i + 1] = s[start] THEN end[i + 2]
          ELSE i
    IN end[start + 1]

\* seek_quoted_start(): a mark that no other precedes is taken for the opening one.
QuotedStart(s, last) ==
    LET begin[i \in 0..last] ==
          IF i = 0 THEN 0
          ELSE IF s[i] # s[last] THEN begin[i - 1]
          ELSE IF i = 1 \/ s[i - 1] # s[last] THEN i
          ELSE begin[i - 2]
    IN begin[last]

-----------------------------------------------------------------------------
(* Vector operators.                                                       *)

\* find_next_vector_operator()
NextOperator(s) ==
    LET states == StatesBefore(s, TRUE)
    IN Least({i \in DOMAIN s : states[i] = "normal" /\ s[i] \in DOMAIN OperatorName})

\* Faulty variant of LeftOperand: the name before a parenthesis is not part of the operand.
LeftParenthesis(s, op) ==
    LET e == NotSpaceBefore(s, op)
    IN IF e = 0 THEN 0
       ELSE IF s[e] = ")" THEN Opening(s, e, "(", ")")
       ELSE 1 + Greatest({j \in 1..e : s[j] \in LeftBoundary})

\* find_left_operand_start(), 0: there is none
LeftOperand(s, op) ==
    LET e == NotSpaceBefore(s, op)
        open == Opening(s, e, "(", ")")
    IN CASE e = 0 -> 0
         [] e > 0 /\ s[e] = ")" ->
               IF open > 1 /\ s[open - 1] \in Words THEN open - 1 ELSE open
         [] e > 0 /\ s[e] = "]" -> Opening(s, e, "[", "]")
         [] e > 0 /\ s[e] \in QuoteMark -> QuotedStart(s, e)
         [] OTHER -> 1 + Greatest({j \in 1..e : s[j] \in LeftBoundary})

\* find_right_operand_end(), 0: there is none
RightOperand(s, op) ==
    LET b == NotSpaceFrom(s, op + 1)
        probe == NotSpaceFrom(s, b + 1)
        call == IF probe > 0 /\ s[probe] = "(" THEN Closing(s, probe, "(", ")") ELSE 0
        next == Least({j \in b..Len(s) : s[j] \in RightBoundary})
    IN CASE b = 0 -> 0
         [] b > 0 /\ s[b] = "(" -> Closing(s, b, "(", ")")
         [] b > 0 /\ s[b] = "[" -> Closing(s, b, "[", "]")
         [] b > 0 /\ s[b] \in QuoteMark -> QuotedEnd(s, b)
         [] b > 0 /\ s[b] \in Words -> IF call # 0 THEN call ELSE b
         [] OTHER -> IF next = 0 THEN Len(s) ELSE next - 1

CallOf(op, left, right) == <<OperatorName[op], "(">> \o left \o <<",", " ">> \o right \o <<")">>

\* One round of rewrite_sql_vector_operators(); the statement itself when it gives up.
OperatorRewritten(s) ==
    LET op == NextOperator(s)
        from == LeftOperand(s, op)
        to == RightOperand(s, op)
        left == Trimmed(SubSeq(s, from, op - 1))
        right == Trimmed(SubSeq(s, op + 1, to))
    IN IF op = 0 \/ from = 0 \/ to = 0 \/ left = << >> \/ right = << >> THEN s
       ELSE SubSeq(s, 1, from - 1) \o CallOf(s[op], left, right) \o SubSeq(s, to + 1, Len(s))

-----------------------------------------------------------------------------
(* SEARCH(query_text, query_embedding, top_k, alpha, candidate_limit,      *)
(* query_profile, metadata_filters_json, doc_id)                           *)

\* find_search_from_clause(): where FROM is and where SEARCH's parenthesis is.
SearchClauses(s) ==
    LET states == StatesBefore(s, FALSE)
        Word(i) == NotSpaceFrom(s, i + 1)
    IN {[from |-> i, open |-> Word(i) + 1] :
           i \in {j \in DOMAIN s : /\ states[j] = "normal" /\ s[j] = "FROM"
                                   /\ Word(j) # 0 /\ Word(j) < Len(s)
                                   /\ s[Word(j)] = "SEARCH" /\ s[Word(j) + 1] = "("}}

\* split_search_args(): at the commas outside parentheses and quoted texts.
SearchArgs(s) ==
    LET states == StatesBefore(s, FALSE)
        Plain(i) == {j \in 1..i : states[j] = "normal"}
        commas == {i \in DOMAIN s : s[i] = "," /\ states[i] = "normal"
                      /\ CountIn(s, Plain(i), "(") <= CountIn(s, Plain(i), ")")}
        cuts == <<0>> \o SetToSortSeq(commas, <) \o <<Len(s) + 1>>
        parts == [i \in 1..(Len(cuts) - 1) |-> Trimmed(SubSeq(s, cuts[i] + 1, cuts[i + 1] - 1))]
    IN IF Last(parts) = << >> THEN Front(parts) ELSE parts

IsText(part) == Len(part) >= 2 /\ Head(part) = "'" /\ Last(part) = "'"
IsNull(part) == part = <<"NULL">>
TextIn(part) == SubSeq(part, 2, Len(part) - 1)
Optional(part) == IF IsNull(part) THEN << >> ELSE part
OptionalText(part) == IF IsNull(part) THEN << >> ELSE TextIn(part)
IsNumber(part) == Len(part) = 1 /\ part[1] \in DOMAIN Numbers
IsProfile(part) == IsText(part) /\ TextIn(part) \in {<<"balanced">>, <<"latency">>, <<"recall">>}

\* resolve_search_candidate_limit()
SearchLimit(k, limit, profile) ==
    LET Larger(a, b) == IF a > b THEN a ELSE b
        Reach(t) == Larger(k * t.factor, t.floor)
    IN CASE profile = <<"latency">> ->
               Larger(k, IF limit < Reach(DialectTuning.latency) THEN limit ELSE Reach(DialectTuning.latency))
         [] profile = <<"recall">> -> Larger(limit, Reach(DialectTuning.recall))
         [] OTHER -> limit

\* parse_search_spec(): {} is an error, for the caller.
SearchSpecs(parts) ==
    LET n == Len(parts)
        Has(i, Kind(_)) == n >= i => Kind(parts[i])
        Value(i, default) == IF n >= i THEN Numbers[parts[i][1]] ELSE default
        TextOrNull(p) == IsText(p) \/ IsNull(p)
        profile == IF n >= 6 THEN TextIn(parts[6]) ELSE <<"balanced">>
        k == Value(3, DialectTuning.topK)
    IN IF /\ n \in 2..8
          /\ ~(IsNull(parts[1]) /\ IsNull(parts[2]))
          /\ Has(3, IsNumber) /\ Has(4, IsNumber) /\ Has(5, IsNumber) /\ Has(6, IsProfile)
          /\ Has(7, TextOrNull) /\ Has(8, TextOrNull)
       THEN {[text |-> Optional(parts[1]), embedding |-> Optional(parts[2]), k |-> k,
              alpha |-> Value(4, DialectTuning.alpha),
              limit |-> SearchLimit(k, Value(5, DialectTuning.limit), profile),
              filters |-> IF n >= 7 THEN OptionalText(parts[7]) ELSE << >>,
              doc |-> IF n >= 8 THEN OptionalText(parts[8]) ELSE << >>]}
       ELSE {}

\* parse_search_alias(): the alias, and where the rest of the statement begins.
Alias(s, close) ==
    LET first == NotSpaceFrom(s, close + 1)
        as == first # 0 /\ s[first] = "AS" /\ (first = Len(s) \/ s[first + 1] \in Space)
        name == IF as THEN NotSpaceFrom(s, first + 1) ELSE first
        rest == IF first = 0 THEN Len(s) + 1 ELSE first
    IN IF name # 0 /\ s[name] \in Words \ Reserved
       THEN [name |-> s[name], rest |-> name + 1]
       ELSE [name |-> "search_results", rest |-> rest]

\* build_search_subquery() is one symbol here; what it says is the specification.
AsSubquery(alias) == <<"FROM", " ", "(", "subquery", ")", " ", "AS", " ", alias, " ">>

-----------------------------------------------------------------------------
NoSpec == [none |-> TRUE]

DialectInit ==
    sql \in {[text |-> s.text, meant |-> s.meant, wanted |-> s.spec, spec |-> NoSpec,
              phase |-> "search", rounds |-> 0] : s \in Statements}

\* rewrite_sql_search_table_function(): the first clause only.
RewriteSearch ==
    /\ sql.phase = "search"
    /\ LET s == sql.text
           clauses == SearchClauses(s)
           c == CHOOSE x \in clauses : \A y \in clauses : x.from <= y.from
           close == Closing(s, c.open, "(", ")")
           specs == SearchSpecs(SearchArgs(SubSeq(s, c.open + 1, close - 1)))
           alias == Alias(s, close)
       IN sql' = IF clauses = {} THEN [sql EXCEPT !.phase = "operators"]
                 ELSE IF close = 0 \/ specs = {} THEN [sql EXCEPT !.phase = "error"]
                 ELSE [sql EXCEPT !.phase = "operators", !.spec = CHOOSE x \in specs : TRUE,
                         !.text = SubSeq(s, 1, c.from - 1) \o AsSubquery(alias.name)
                                  \o SubSeq(s, alias.rest, Len(s))]

RewriteRounds == 512

RewriteOperator ==
    /\ sql.phase = "operators"
    /\ sql' = IF OperatorRewritten(sql.text) = sql.text \/ sql.rounds = RewriteRounds
              THEN [sql EXCEPT !.phase = "execute"]
              ELSE [sql EXCEPT !.text = OperatorRewritten(@), !.rounds = @ + 1]

\* is_query_statement(): rows come back, or a number of changes.
ExecuteSql ==
    /\ sql.phase = "execute"
    /\ LET first == NotSpaceFrom(sql.text, 1)
       IN sql' = [sql EXCEPT !.phase =
                    IF first # 0 /\ sql.text[first] \in {"SELECT", "WITH", "PRAGMA", "EXPLAIN"}
                    THEN "rows" ELSE "changes"]

DialectNext == RewriteSearch \/ RewriteOperator \/ ExecuteSql

-----------------------------------------------------------------------------
(* What statements mean: each construct with its text and what SQLite is   *)
(* meant to get for it.  Operators associate to the left and bind tighter  *)
(* than anything but a call.                                               *)

Plainly(s) == [text |-> s, meant |-> s]
Joined(a, b) == [text |-> a.text \o b.text, meant |-> a.meant \o b.meant]
Enclosed(before, e, after) == Joined(Joined(Plainly(before), e), Plainly(after))
Parenthesised(e) == Enclosed(<<"(">>, e, <<")">>)
Called(f, e) == Enclosed(<<f, "(">>, e, <<")">>)
Applied(l, op, r) ==
    [text |-> l.text \o <<" ", op, " ">> \o r.text, meant |-> CallOf(op, l.meant, r.meant)]

(***************************************************************************)
(* What SQLite gets is what the statement means: every vector operator     *)
(* outside quoted texts and comments, nested or in a chain, is a call with *)
(* the right operands, nothing else is touched, and SEARCH(...) has the    *)
(* alias and the limits it asks for or, when it means nothing, is refused. *)
(* Not among the statements is what the scanner misreads: a literal as     *)
(* left operand, a parenthesis quoted inside one, a sign before a right    *)
(* operand, a comment beside an operator.                                  *)
(***************************************************************************)
RewriteIsMeant ==
    /\ sql.phase \in {"rows", "changes"} => sql.text = sql.meant /\ sql.spec = sql.wanted
    /\ sql.phase = "error" => sql.meant = << >>
=============================================================================
