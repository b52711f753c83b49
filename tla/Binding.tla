------------------------------ MODULE Binding -------------------------------
(***************************************************************************)
(* What a handler's annotations ask of a request: the plan made when the   *)
(* route is registered, the request bound to it, and the operation the     *)
(* OpenAPI document describes.                                             *)
(*                                                                         *)
(*   src/korvex/_schema.py   plan_for, _check_body, Plan, _take, _convert  *)
(*   src/korvex/_openapi.py  openapi, _Schemes, _path_schema               *)
(*   src/korvex/_params.py, src/korvex/security.py                         *)
(*                                                                         *)
(* A signature gives each function the parameters it declares, in order.   *)
(* The handler is "handler"; a function that is a security scheme has no   *)
(* parameters.  Of the scalar types there are "str", which any text is,    *)
(* and "int", which a text may be or not; of the models one, whose fields  *)
(* are a number "m".  Lists, aliases and WebSocket routes are left out.    *)
(***************************************************************************)
EXTENDS Naturals, Sequences, SequencesExt, FiniteSets

Scalar == {"str", "int"}

-----------------------------------------------------------------------------
(* plan_for(): where each parameter comes from.  `given` is the type Rust  *)
(* gives each parameter of the path.                                       *)

Declared == [name : STRING, marker : {"none", "query", "header", "cookie", "form", "depends"},
             type : STRING, optional : BOOLEAN, default : BOOLEAN]

SourceOf(d, given, func) ==
  IF d.marker = "depends" THEN "depends"
  ELSE IF d.marker = "form" /\ d.type = "model" THEN "form_model"
  ELSE IF d.marker # "none"
       THEN IF d.type \in Scalar \union {"none"} \/ (d.type = "file" /\ d.marker = "form") THEN d.marker ELSE "refused"
  ELSE IF d.type = "Request" \/ (d.type = "none" /\ ~d.default /\ d.name = "request") THEN "request"
  ELSE IF d.name \in DOMAIN given
       THEN IF d.type \notin Scalar \union {"none"} THEN "refused"
            ELSE IF func # "handler" \/ d.type \notin {"none", "str", given[d.name]} THEN "path" ELSE "unread"
  ELSE IF d.type = "model" THEN "body"
  ELSE IF d.type \in Scalar THEN "query"
  ELSE IF d.type # "none" \/ ~d.default THEN "refused" ELSE "unread"

ParamOf(d, given, func) ==
  LET source == SourceOf(d, given, func)
  IN [source |-> source,
      key |-> IF source = "body" THEN "body" ELSE d.name,
      type |-> IF d.type # "none" THEN d.type ELSE IF source = "path" THEN given[d.name] ELSE "str",
      required |-> source = "path" \/ ~(d.default \/ d.optional)]

\* The plan of one function: its parameters, and the functions it needs
Params(route, func) ==
  LET read == SelectSeq(route.params[func],
                LAMBDA d : SourceOf(d, route.given, func) \notin {"depends", "request", "unread"})
  IN [i \in DOMAIN read |-> ParamOf(read[i], route.given, func)]
Needs(route, func) ==
  LET deps == SelectSeq(route.params[func], LAMBDA d : d.marker = "depends")
  IN [i \in DOMAIN deps |-> deps[i].type]

\* The parameters of all functions, the ones a function needs before its own
Walk(route) ==
  LET walk[func \in DOMAIN route.params] ==
        FoldLeft(LAMBDA found, g : found \o walk[g], <<>>, Needs(route, func)) \o Params(route, func)
  IN walk["handler"]

Used(route) ==
  LET used[func \in DOMAIN route.params] == {func} \union UNION {used[g] : g \in ToSet(Needs(route, func))}
  IN used["handler"]

\* Registration raises TypeError: a parameter whose origin cannot be told,
\* two bodies, or a model and a form.
Refused(route) ==
  \/ \E func \in Used(route) :
       \/ \E d \in ToSet(route.params[func]) : SourceOf(d, route.given, func) = "refused"
       \/ Cardinality({i \in DOMAIN Params(route, func) : Params(route, func)[i].source = "body"}) > 1
  \/ \E p, q \in ToSet(Walk(route)) : p.source = "body" /\ q.source \in {"form", "form_model"}

-----------------------------------------------------------------------------
(* Plan.bind(): what a request gives.  Its fields are known by where they  *)
(* are and their name: a number, a text, a blank, a file; or missing.      *)

Field(request, source, key) ==
  IF <<source, key>> \in DOMAIN request.fields THEN request.fields[<<source, key>>] ELSE "missing"

\* What a parameter is read from: the query loses its blanks as it is parsed,
\* a form those of parameters that are neither text nor a file.
Given(request, p) ==
  LET value == Field(request, p.source, p.key)
      lost == p.source = "query" \/ (p.source = "form" /\ p.type \notin {"str", "file"})
  IN IF value = "blank" /\ lost THEN "missing" ELSE value

\* _convert_field()
Converts(value, type) ==
  CASE type = "file" -> value = "file"
    [] type = "int"  -> value = "number"
    [] type = "str"  -> value # "file"

Takes(request, p) ==
  IF Given(request, p) = "missing" THEN ~p.required ELSE Converts(Given(request, p), p.type)

\* The parameter is bound without an error.
Binds(request, p) ==
  CASE p.source = "body" -> (request.body = "none" /\ ~p.required) \/ request.body = "json"
    [] p.source = "form_model" ->
         \/ ~p.required /\ Field(request, "form", "m") = "missing"
         \/ Field(request, "form", "m") = "number"
    [] OTHER -> Takes(request, p)

\* SecurityScheme.required: no credential is a 401
RequiredSchemes(route) == {s \in DOMAIN route.schemes : route.schemes[s]}

\* The status that binding a function and calling it ends with, 0 for none.
\* An error of a dependency's parameters lets the next ones go on; what a
\* dependency raises does not, nor does a body that is no form, or one that
\* cannot be decoded.
Outcome(route, request) ==
  LET outcome[func \in DOMAIN route.params] ==
        LET needs == Needs(route, func)
            deps == [i \in DOMAIN needs |-> outcome[needs[i]]]
            raised == SelectSeq(deps, LAMBDA status : status \notin {0, 422})
            own == ToSet(Params(route, func))
            form == \E p \in own : p.source \in {"form", "form_model"}
        IN IF raised # <<>> THEN raised[1]
           ELSE IF form /\ request.body = "garbled" THEN 400
           ELSE IF form /\ request.body \notin {"none", "form"} THEN 415
           ELSE IF 422 \in ToSet(deps) \/ \E p \in own : ~Binds(request, p) THEN 422
           ELSE IF func \in RequiredSchemes(route) /\ func \notin request.credentials THEN 401
           ELSE 0
  IN outcome["handler"]

-----------------------------------------------------------------------------
(* openapi(): what the document says of the operation.                     *)

\* Plan.everything(): each field once, as the first that reads it has it
Everything(route) ==
  LET walk == Walk(route)
  IN {walk[i] : i \in {i \in DOMAIN walk :
        \A j \in 1..(i - 1) : walk[j].source # walk[i].source \/ walk[j].key # walk[i].key}}

\* Mutant of Validates: the handler's own parameters only.
ValidatesOwn(route) ==
  \E p \in ToSet(Params(route, "handler")) : p.source = "path" => p.type \notin {"str", route.given[p.key]}

\* Plan.validates: a request may get a 422.
Validates(route) ==
  \E p \in ToSet(Walk(route)) : p.source = "path" => p.type \notin {"str", route.given[p.key]}

\* _Schemes.requirements(): the required schemes together, or else each
\* optional one as an alternative
Security(route) ==
  LET schemes == Used(route) \intersect DOMAIN route.schemes
      required == schemes \intersect RequiredSchemes(route)
  IN IF required # {} THEN {required} ELSE {{s} : s \in schemes}

Responses(route) ==
  {200} \union (IF Validates(route) THEN {422} ELSE {})
        \union (IF Used(route) \intersect RequiredSchemes(route) # {} THEN {401} ELSE {})

\* What a schema of the document says of a value
OfType(type) ==
  CASE type = "int"  -> {"number"}
    [] type = "str"  -> {"number", "text", "blank"}
    [] type = "file" -> {"file"}

\* A field as the documentation reads it: an empty one of a form "counts as
\* missing, except for a str" (Form() and docs/validation.md).
Meant(request, source, key, type) ==
  LET value == Field(request, source, key)
  IN IF source = "form" /\ value = "blank" /\ type # "str" THEN "missing" ELSE value

\* A request is what the document asks for: each field that it says is
\* required is there, and what is there is of the type that it says.
Fits(route, request) ==
  \A p \in Everything(route) :
    LET absent == IF p.required THEN {} ELSE {"missing"}
    IN CASE p.source = "body"       -> request.body \in {"json"} \union (IF p.required THEN {} ELSE {"none"})
         [] p.source = "form_model" -> Meant(request, "form", "m", "int") \in OfType("int") \union absent
         [] OTHER -> Meant(request, p.source, p.key, p.type) \in OfType(p.type) \union absent

\* Where bind() reads a blank in another way and refuses it: a required text
\* in the query, an optional file, an optional model's only field.
BlankRefused(route, request) ==
  \E p \in Everything(route) :
    \/ p.source = "query" /\ p.type = "str" /\ p.required /\ Field(request, "query", p.key) = "blank"
    \/ p.source = "form" /\ p.type = "file" /\ ~p.required /\ Field(request, "form", p.key) = "blank"
    \/ p.source = "form_model" /\ ~p.required /\ Field(request, "form", "m") = "blank"

\* Where it lets one through: for an optional number in the query
BlankForgiven(route, request) ==
  \E p \in Everything(route) :
    p.source = "query" /\ p.type = "int" /\ ~p.required /\ Field(request, "query", p.key) = "blank"

\* The functions that read a field agree on its type and on whether it is
\* required.
Agree(route) ==
  \A p, q \in ToSet(Walk(route)) : p.source = q.source /\ p.key = q.key => p = q
=============================================================================
