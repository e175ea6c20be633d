----------------------------- MODULE MCServing -----------------------------
(***************************************************************************)
(* Small instances of Serving: vectors along two axes, tables of three and *)
(* four rows, requests for each plan, statements of up to three operators, *)
(* two sessions, two processes with an audit file.                         *)
(***************************************************************************)
EXTENDS Serving, TLC

East == <<2, 0>>
North == <<0, 1>>
West == <<-1, 0>>

Record(k, id, e) == [key |-> k, id |-> id, emb |-> e]
MCIndexBatches ==
    {<<Record(1, 1, East)>>, <<Record(2, 2, North)>>, <<Record(2, 1, West), Record(1, 2, East)>>,
     <<Record(1, 1, <<3>>)>>, << >>}
\* One plane per table for one dimension, two for two.
MCPlanes == << << << <<1>> >>, << <<-1>> >> >>, << << <<1, 0>>, <<1, 1>> >>, << <<1, 0>>, <<1, -1>> >> >> >>
MCQueries == {East, <<1>>}
MCKeySets == {{1, 3}}

MCAnnBatches == {Record(0, 1, East), Record(0, 1, North), Record(0, 2, East)}

-----------------------------------------------------------------------------
TableRow(k, g, t, v) == [key |-> k, id |-> k, group |-> g, text |-> t, vec |-> v]
MCSearchTables ==
    {{TableRow(1, "g", "best", <<0, 2>>), TableRow(2, "g", "worse", <<1, 0>>), TableRow(3, "h", "none", << >>),
      TableRow(4, "g", "inside", West)},
     {TableRow(1, "g", "none", << >>), TableRow(2, "h", "best", <<1, 0>>), TableRow(3, "g", "worse", << >>)}}
Edit(id, g, t, v, gone) == [id |-> id, group |-> g, text |-> t, vec |-> v, gone |-> gone]
MCSearchEdits ==
    {Edit(2, "h", "none", North, FALSE), Edit(1, "g", "best", << >>, TRUE), Edit(5, "g", "best", <<1, 0>>, FALSE)}

Wanted(text, vec, k, limit, alpha, filter, fusion, profile) ==
    [text |-> text, vec |-> vec, k |-> k, limit |-> limit, alpha |-> alpha, payloads |-> k # 1,
     filter |-> filter, fusion |-> fusion, profile |-> profile, constant |-> 1]
\* Vectors alone, texts alone, both with each plan, and two that cannot be answered in full.
MCRequests ==
    {Wanted(FALSE, East, 2, 3, 65, f, "weighted", "balanced") : f \in {"any", "g"}}
    \cup {Wanted(TRUE, << >>, k, l, 65, f, "weighted", "balanced") :
            f \in {"any", "g"}, k \in {1, 2}, l \in {2, 5}}
    \cup {Wanted(TRUE, <<1, 0>>, 2, l, a, "g", fu, p) :
            l \in {2, 5}, a \in {20, 50, 65}, fu \in {"weighted", "rrf"}, p \in {"balanced", "latency", "recall"}}
    \cup {Wanted(FALSE, << >>, 2, 3, 65, "any", "weighted", "balanced"),
          Wanted(TRUE, <<1>>, 2, 5, 50, "any", "weighted", "balanced")}
MCSetups == {[fts |-> TRUE, index |-> TRUE], [fts |-> FALSE, index |-> TRUE], [fts |-> TRUE, index |-> FALSE]}

Texts == {"best", "worse", "inside", "none"}
MCRank == [t \in Texts |-> CASE t = "best" -> 1 [] t = "worse" -> 3 [] OTHER -> 0]
MCOverlap == [t \in Texts |-> CASE t = "best" -> 60 [] t = "worse" -> 30 [] t = "inside" -> 9 [] OTHER -> 0]
PerProfile(a, b, c) == [latency |-> a, balanced |-> b, recall |-> c]
MCTuning ==
    [latency |-> [factor |-> 1, floor |-> 2], recall |-> [factor |-> 2, floor |-> 3],
     primary |-> [factor |-> PerProfile(1, 1, 2), floor |-> 1],
     secondary |-> [factor |-> PerProfile(1, 1, 1), floor |-> 1],
     rerank |-> [first |-> PerProfile(1, 1, 2), balanced |-> PerProfile(2, 3, 3)], skip |-> 4]

-----------------------------------------------------------------------------
MCWords ==
    {"SELECT", "FROM", "SEARCH", "AS", "WHERE", "NULL", "UPDATE", "ORDER", "GROUP", "LIMIT", "JOIN", "UNION",
     "HAVING", "OFFSET", "a", "b", "f", "t", "2", "7", "subquery", "search_results", "balanced", "latency",
     "recall", "l2_distance", "cosine_distance", "neg_inner_product"}
MCNumbers == [w \in {"2", "7"} |-> IF w = "2" THEN 2 ELSE 7]
MCDialectTuning ==
    [latency |-> [factor |-> 2, floor |-> 3], recall |-> [factor |-> 3, floor |-> 8],
     topK |-> 5, alpha |-> 65, limit |-> 9]

\* Operands: names, parameters, arrays, calls, quoted texts with operators and parentheses in them.
W(w) == Plainly(<<w>>)
Quoted == Plainly(<<"'", "a", "'", "'", "<->", "(", "'">>)
Plains == {W("a"), Plainly(<<"?", "7">>), Plainly(<<"[", "a", ",", "b", "]">>),
           Plainly(<<"f", "(", "'", "a", "<=>", "'", ")">>)}
Rights == Plains \cup {Quoted, Plainly(<<"f", " ", "(", "'", ")", "'", ")">>)}
Once == {Applied(l, "<=>", r) : l \in Plains, r \in Rights}
Mild == Plainly(<<"'", "a", "'", "'", "<->", "'">>)
Lefts == {Applied(l, "<=>", r) : l \in Plains, r \in Plains \cup {Mild}}
Nested == Lefts \cup {Parenthesised(e) : e \in Lefts} \cup {Called("f", e) : e \in Lefts}
Twice == {Applied(l, "<->", r) : l \in Nested,
            r \in {W("b"), Quoted, Parenthesised(Applied(W("a"), "<#>", W("b")))}}
Selected(e) ==
    Enclosed(<<"SELECT", " ">>, e,
             <<",", "\"", "<->", "\"", " ", "--", "<=>", "'", "\n", "FROM", " ", "t", "/*", "<#>", "*/">>)
Updated(e) == Enclosed(<<"UPDATE", " ", "a", "=", "b", "+">>, e, <<"+", "a">>)
Statement(e) == [text |-> e.text, meant |-> e.meant, spec |-> NoSpec]

Asked(args, tail, alias, remainder, spec) ==
    [text |-> <<"SELECT", " ", "a", " ", "FROM", " ", "SEARCH", "(">> \o args \o <<")">> \o tail,
     meant |-> <<"SELECT", " ", "a", " ">> \o AsSubquery(alias) \o remainder, spec |-> spec]
Refused(args) == [Asked(args, << >>, "", << >>, NoSpec) EXCEPT !.meant = << >>]
SpecOf(text, embedding, k, alpha, limit, doc) ==
    [text |-> text, embedding |-> embedding, k |-> k, alpha |-> alpha, limit |-> limit,
     filters |-> << >>, doc |-> doc]
Tails ==
    {<< << >>, "search_results", << >> >>, << <<" ", "AS", " ", "t", " ", "WHERE">>, "t", <<" ", "WHERE">> >>,
     << <<" ", "t">>, "t", << >> >>, << <<" ", "ORDER", " ", "a">>, "search_results", <<"ORDER", " ", "a">> >>}
Profiled == [p \in {"balanced", "latency", "recall"} |-> CASE p = "balanced" -> 7 [] p = "latency" -> 4 [] OTHER -> 8]
Comma == <<"'", ",", "'">>
Searches ==
    {Asked(Comma \o <<",", "f", "(", "a", ",", "b", ")">>, t[1], t[2], t[3],
           SpecOf(Comma, <<"f", "(", "a", ",", "b", ")">>, 5, 65, 9, << >>)) : t \in Tails}
    \cup {Asked(<<"NULL", ",", "a", ",", "2", ",", "7", ",", "7", ",", "'", p, "'">>, << >>, "search_results", << >>,
                SpecOf(<< >>, <<"a">>, 2, 7, Profiled[p], << >>)) : p \in DOMAIN Profiled}
    \cup {Asked(<<"'", "a", "'", ",", "NULL", ",", "2", ",", "7", ",", "7", ",", "'", "recall", "'", ",", "NULL", ",",
                  "'", "b", "'">>, << >>, "search_results", << >>,
                SpecOf(<<"'", "a", "'">>, << >>, 2, 7, 8, <<"b">>))}
    \cup {Refused(<<"NULL", ",", " ", "NULL">>), Refused(<<"a">>)}
MCStatements ==
    Searches \cup {Statement(Selected(e)) : e \in Once \cup Twice} \cup {Statement(Updated(e)) : e \in Twice}

-----------------------------------------------------------------------------
On(engine) == <<"ON", "t", "(", "c", ")", "USING", engine>>
MCDdl ==
    {<<"CREATE", "VECTOR", "INDEX", "i">> \o On("HNSW"),
     <<"CREATE", "TEXT", "INDEX", "IF", "NOT", "EXISTS", "i">> \o On("FTS5")
        \o <<"WITH", "(", "c", "=", "1", ",", "c", "=", "2", ")">>,
     <<"CREATE", "TEXT", "INDEX", "j">> \o On("HNSW"), <<"CREATE", "TEXT", "INDEX", "j">>,
     <<"DROP", "VECTOR", "INDEX", "i">>, <<"DROP", "TEXT", "INDEX", "IF", "EXISTS", "i">>, <<"SELECT", "i">>}
MCColumns == {<<"t", "c">>}

-----------------------------------------------------------------------------
Context(a, t, r) == [actor |-> a, tenant |-> t, roles |-> r]
MCContexts == {Context("ann", "acme", {"admin"}), Context("bob", "beta", {"writer"})}
MCAnonymous == Context("anonymous", "unknown", {})
Does(door, rules) == [door |-> door, rules |-> rules]
MCDeployments ==
    {<<Does("application", "rbac"), Does("server", "rbac")>>, <<Does("application", "any"), Does("server", "off")>>,
     <<Does("server", "off"), Does("server", "open")>>}
MCAccessRows == {[id |-> 1, tenant |-> "acme", by |-> 0], [id |-> 2, tenant |-> "beta", by |-> 0]}
=============================================================================
