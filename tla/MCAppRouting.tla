---------------------------- MODULE MCAppRouting ----------------------------
(* An app with routes of its own, a literal host and a host with a         *)
(* parameter that also fits the literal one.                               *)
EXTENDS AppRouting

api == <<Label("api"), Label("x")>>
tenant == <<LabelParam("tenant"), Label("x")>>

MCHostPattern == {api, tenant}
MCHostName == {<<"api", "x">>, <<"acme", "x">>, <<"", "x">>, <<"y">>}

MCFitting == [int |-> {"1"}, slug |-> {"a", "1"}]

a == Literal("a")
id == Param("id", "none")
num == Param("id", "int")

Call(host, prefix, path, method, func, name) ==
  [group |-> IF host = Root THEN RootGroup(prefix, prefix = <<>>) ELSE NewGroup(host, prefix, TRUE),
   path |-> path, method |-> method, func |-> func, name |-> name,
   include |-> TRUE, websocket |-> FALSE, limit |-> NoLimit, status |-> 200, returns |-> FALSE]

MCDeclaration ==
  { Call(Root, <<>>, <<id>>, "GET", "f", "n"),
    Call(Root, <<>>, <<a>>, "GET", "f", NoName),
    Call(Root, <<a>>, <<Param("s", "slug")>>, "GET", "f", NoName),
    [Call(Root, <<>>, <<a>>, "POST", "g", "m") EXCEPT !.limit = 5],
    [Call(Root, <<>>, <<a>>, "POST", "g", NoName) EXCEPT !.limit = 7],
    [Call(Root, <<>>, <<id>>, "POST", "g", NoName) EXCEPT !.limit = 9],
    [Call(Root, <<>>, <<a>>, "GET", "g", NoName) EXCEPT !.status = 204, !.returns = TRUE],
    Call(api, <<>>, <<id>>, "GET", "f", "n"),
    Call(api, <<>>, <<Param("key", "none")>>, "POST", "g", NoName),
    Call(tenant, <<>>, <<num>>, "GET", "f", NoName),
    Call(tenant, <<>>, <<Param("tenant", "none")>>, "GET", "f", NoName),
    Call(tenant, <<>>, <<Param("id", "str")>>, "HEAD", "g", "m"),
    [Call(Root, <<>>, <<a>>, "GET", "f", NoName) EXCEPT !.websocket = TRUE],
    [Call(tenant, <<>>, <<Param("s", "slug")>>, "GET", "f", "n") EXCEPT !.websocket = TRUE] }

MCStatic == {[prefix |-> "a", name |-> NoName], [prefix |-> "a", name |-> "n"]}

MCDocumented ==
  { [openapi |-> <<Literal("o")>>, page |-> <<Literal("d")>>],
    [openapi |-> <<a>>, page |-> <<Param("page", "none")>>] }

MCPath == {<<"a">>, <<"1">>, <<"a", "1">>}
MCRawPath == MCPath \union {<<"%61">>, <<"a%2F1">>}
MCDecoded == [p \in {"%61", "a%2F1"} |-> IF p = "%61" THEN <<"a">> ELSE <<"a", "1">>]
MCSpelt == <<"int", "slug", "uuid">>
MCValue == {<<"a">>, <<"1">>, <<"b">>, <<"">>, <<"1", "b">>}
=============================================================================
