------------------------------ MODULE MCRouter ------------------------------
(* A router with every kind of segment, over paths that several of the     *)
(* patterns reach.                                                         *)
EXTENDS Router

CONSTANTS h1, h2

a == Literal("a")
x == Param("x", "none")
i == Param("i", "int")
s == Param("s", "slug")
w == Wildcard("w")

MCFitting == [int |-> {"1"}, slug |-> {"1", "a"}]

\* Names that conflict, a pattern refused half way, and one spelt in two ways
MCEntry ==
  ({<<>>, <<a>>, <<x>>, <<i>>, <<s>>, <<w>>, <<a, w>>, <<i, a>>, <<x, a>>,
    <<Param("x", "str")>>, <<Param("j", "int"), Wildcard("")>>} \X {"GET"})
  \union ({<<x>>, <<a>>, <<w>>} \X {"POST"})

MCPath == {<<"">>, <<"", "a">>, <<"", "1", "">>, <<"", "1", "a">>, <<"a", "", "a">>, <<"", "b">>}

MCAsked == {<<"", "1", "">>}

Symmetric == Permutations({h1, h2})
=============================================================================
