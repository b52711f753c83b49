----------------------------- MODULE MCExchange -----------------------------
(* Three hooks at a time in every order, and all five middlewares in two    *)
(* orders; two requests that are alike or differ in one thing.              *)
EXTENDS Exchange, FiniteSets, TLC

CONSTANTS r1, r2

MCEncodings == <<"br", "gzip">>
Alike == Permutations({r1, r2})

Basic == [method |-> "GET", origin |-> None, wants |-> None, accepts |-> NoHeaders,
          id |-> None, exempt |-> FALSE, https |-> FALSE,
          fields |-> NoHeaders, body |-> "none", credentials |-> {}]

Pairs(one) ==
  { p \in [{r1, r2} -> one] : Cardinality({f \in DOMAIN Basic : p[r1][f] # p[r2][f]}) <= 1 }

Accepts == {NoHeaders, "gzip" :> 1, "br" :> 1 @@ "gzip" :> 2, "*" :> 1 @@ "br" :> 0}

Coding == {[Basic EXCEPT !.accepts = a, !.method = m, !.origin = "site"] : a \in Accepts, m \in {"GET", "HEAD"}}
Crossing ==
  {[Basic EXCEPT !.origin = o] : o \in {None, "site", "other"}}
    \union {[Basic EXCEPT !.method = "OPTIONS", !.origin = o, !.wants = w] :
              o \in {"site", "other"}, w \in {"fine", "refused"}}
Named == {[Basic EXCEPT !.id = i, !.exempt = e] : i \in {None, "safe"}, e \in BOOLEAN}
Secured == {[Basic EXCEPT !.https = s, !.method = m] : s \in BOOLEAN, m \in {"GET", "HEAD"}}

\* `any` says whether the options of cors() and request_id() vary too.
Apps(orders, one, routes, customs, stores, any) ==
  [hooks : orders, asked : Pairs(one), route : routes, custom : customs, store : stores,
   anyOrigin : any.cors, credentials : any.cors, trust : any.trust, plan : {None}]

Fixed == [cors |-> {FALSE}, trust |-> {TRUE}]

-----------------------------------------------------------------------------
(* Handlers with one parameter that needs a dependency or not, whose own    *)
(* parameter may be the same field, and a security scheme under either.     *)

Param(name, marker, type, optional, default) ==
  [name |-> name, marker |-> marker, type |-> type, optional |-> optional, default |-> default]

Kinds ==
  { <<"none", "none">>, <<"none", "str">>, <<"none", "int">>, <<"none", "model">>, <<"none", "Request">>, <<"none", "file">>,
    <<"query", "int">>, <<"header", "none">>, <<"header", "int">>, <<"cookie", "int">>,
    <<"form", "str">>, <<"form", "int">>, <<"form", "file">>, <<"form", "model">> }

OneParam == {Param(n, k[1], k[2], o, d) : n \in {"a", "id", "request"}, k \in Kinds, o \in {FALSE}, d \in BOOLEAN}
              \union {Param("a", "none", t, TRUE, FALSE) : t \in {"int", "model"}}

Dependency(g) == Param("d", "depends", g, FALSE, FALSE)

\* Of the two parameters, the first is the handler's and the second its
\* dependency's, which needs the scheme if `deep`.
Plans(given, first, second, required) ==
  { p \in { [params |-> [handler |-> h, dep |-> d, scheme |-> <<>>], given |-> given, schemes |-> "scheme" :> q] :
               h \in {<<x>> : x \in first} \union {<<Dependency("dep"), x>> : x \in first}
                       \union {<<Dependency("scheme"), x>> : x \in first},
               d \in {<<y>> : y \in second} \union {<<Dependency("scheme"), y>> : y \in second}, q \in required } : ~Refused(p) }

MCPlans ==
  Plans("id" :> "str", OneParam, {Param("a", "none", "int", FALSE, FALSE)}, {TRUE})
    \union Plans("id" :> "int", {Param("a", "none", "int", FALSE, TRUE), Param("a", "form", "int", FALSE, FALSE)}, OneParam, BOOLEAN)

Reads(plan) ==
  { IF p.source = "form_model" THEN <<"form", "m">> ELSE <<p.source, p.key>> :
      p \in {p \in ToSet(Walk(plan)) : p.source # "body"} }

Sent(field, plan, body) ==
  CASE field[1] = "path" -> {"number"} \union (IF plan.given[field[2]] = "str" THEN {"text"} ELSE {})
    [] field[1] = "form" -> {"missing"} \union (IF body = "form" THEN {"number", "text", "blank", "file"} ELSE {})
    [] OTHER -> {"missing", "number", "text", "blank"}

Bodies(plan) ==
  IF \E p \in ToSet(Walk(plan)) : p.source \in {"body", "form", "form_model"} THEN {"none", "json", "broken", "form", "garbled"} ELSE {"none"}

\* Every request that a plan can tell apart from others
Sending(plan) ==
  UNION { { [Basic EXCEPT !.fields = Restrict(f, {x \in Reads(plan) : f[x] # "missing"}), !.body = body, !.credentials = c] :
              f \in {f \in [Reads(plan) -> {"missing", "number", "text", "blank", "file"}] :
                        \A x \in Reads(plan) : f[x] \in Sent(x, plan, body)},
              c \in {{}, {"scheme"}} } : body \in Bodies(plan) }

BoundApps(plan) ==
  [hooks : {<<>>}, asked : {[r \in {r1, r2} |-> a] : a \in Sending(plan)}, route : {"bound"}, custom : {"pass"},
   store : {"memory"}, anyOrigin : {FALSE}, credentials : {FALSE}, trust : {TRUE}, plan : {plan}]

-----------------------------------------------------------------------------
All == <<"compress", "cors", "request_id", "rate_limit", "security_headers">>

MCSetup ==
  UNION {BoundApps(p) : p \in MCPlans} \union UNION {
    Apps(SetToSeqs({"compress", "cors", "app"}), Coding,
         {"page", "small", "picture", "fixed", "coded", "empty", "stream", "file", "error"},
         {"pass", "replace", "fail"}, {"memory"}, Fixed),
    Apps(SetToSeqs({"cors", "rate_limit", "app"}), Crossing, {"page", "error"},
         {"pass", "refuse", "raise", "replace", "fail"}, {"memory", "closed"}, [Fixed EXCEPT !.cors = BOOLEAN]),
    Apps(SetToSeqs({"request_id", "rate_limit", "app"}), Named, {"page"},
         {"pass", "refuse", "fail"}, {"memory", "open", "closed"}, [Fixed EXCEPT !.trust = BOOLEAN]),
    Apps(SetToSeqs({"security_headers", "rate_limit", "app"}), Secured, {"small", "file", "error"},
         {"pass", "refuse", "raise", "replace", "fail"}, {"memory"}, Fixed),
    Apps({All, Reverse(All)}, Coding \union Crossing, {"file"}, {"pass"}, {"memory", "open"}, Fixed) }
=============================================================================
