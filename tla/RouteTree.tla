------------------------------ MODULE RouteTree ------------------------------
(***************************************************************************)
(* The tree that stores routes and matches paths against them.             *)
(*                                                                         *)
(*   src/src/tree.rs  Methods and Node: insert_at, remove_at, find_from    *)
(*   src/src/path.rs  Segments; Segment and Constraint are in Patterns     *)
(*                                                                         *)
(* Each node is one segment of a path.  A path is the sequence of the      *)
(* parts between its slashes, "" for an empty one.                         *)
(***************************************************************************)
EXTENDS Patterns, SequencesExt

IsFull(part) == part # ""

\* Segments::remainder: the rest of the path, from its next segment on
Remainder(path) ==
  IF path = <<>> THEN <<>> ELSE SubSeq(path, SelectInSeq(path, IsFull), Len(path))

\* Segments::new: the slashes at both ends are trimmed.
Trimmed(path) ==
  IF ToSet(path) \subseteq {""} THEN <<>>
  ELSE SubSeq(path, SelectInSeq(path, IsFull), SelectLastInSeq(path, IsFull))

-----------------------------------------------------------------------------
(* Methods: the routes of one node, a sequence of (method, route).         *)

MethodsInsert(methods, method, route) ==
  LET entry == [method |-> method, route |-> route]
      i == SelectInSeq(methods, LAMBDA e : e.method = method)
  IN IF i = 0 THEN Append(methods, entry) ELSE [methods EXCEPT ![i] = entry]

MethodsRemove(methods, method) == SelectSeq(methods, LAMBDA e : e.method # method)

\* What a lookup gives: the route if it matched, the methods if they are others.
Outcome(kind, route, allowed, params) ==
  [kind |-> kind, route |-> route, allowed |-> allowed, params |-> params]

NotFound(params) == Outcome("NotFound", {}, <<>>, params)

MethodsLookup(methods, method, params) ==
  LET i == SelectInSeq(methods, LAMBDA e : e.method = method)
  IN CASE methods = <<>> -> NotFound(params)
       [] i # 0 -> Outcome("Matched", {methods[i].route}, <<>>, params)
       [] OTHER -> Outcome("MethodNotAllowed", {}, [k \in DOMAIN methods |-> methods[k].method], params)

-----------------------------------------------------------------------------
(* Nodes.                                                                  *)

\* Literals are a function from text to node, params are in matching order,
\* and the wildcard is a sequence of at most one leaf.
EmptyNode == [methods |-> <<>>, literals |-> <<>>, params |-> <<>>, wildcard |-> <<>>]

LiteralChild(node, text) ==
  IF text \in DOMAIN node.literals THEN node.literals[text] ELSE EmptyNode

\* Mutant of ParamPlace: a new constrained parameter goes after the plain one.
ParamPlaceLast(params) == Len(params) + 1

\* Where a new parameter goes: before the plain one, after the constrained ones.
ParamPlace(params) ==
  LET any == SelectInSeq(params, LAMBDA p : p.constraint = "Any")
  IN IF any = 0 THEN Len(params) + 1 ELSE any

\* Node::insert_at.  An error on the way leaves what was created before it.
RECURSIVE NodeInsert(_, _, _, _, _)
NodeInsert(node, segments, method, route, defined) ==
  LET first == Head(segments)
      rest == Tail(segments)
      error == ParseError(first, defined)
      Result(n, e) == [node |-> n, error |-> e]
      IntoLiteral ==
        LET child == NodeInsert(LiteralChild(node, first.name), rest, method, route, defined)
        IN Result([node EXCEPT !.literals =
                     [t \in DOMAIN @ \union {first.name} |->
                        IF t = first.name THEN child.node ELSE @[t]]],
                  child.error)
      IntoParam ==
        LET constraint == ConstraintOf(first)
            known == SelectInSeq(node.params, LAMBDA p : p.constraint = constraint)
            i == IF known = 0 THEN ParamPlace(node.params) ELSE known
            params == IF known # 0 THEN node.params
                      ELSE InsertAt(node.params, i, [name |-> first.name,
                                                     constraint |-> constraint,
                                                     node |-> EmptyNode])
            child == NodeInsert(params[i].node, rest, method, route, defined)
        IN IF params[i].name # first.name THEN Result(node, "ConflictingNames")
           ELSE Result([node EXCEPT !.params = [params EXCEPT ![i].node = child.node]], child.error)
      IntoWildcard ==
        LET wildcard == IF node.wildcard = <<>> THEN [name |-> first.name, methods |-> <<>>]
                        ELSE Head(node.wildcard)
        IN CASE rest # <<>> -> Result(node, "WildcardNotLast")
             [] wildcard.name # first.name -> Result(node, "ConflictingNames")
             [] OTHER -> Result([node EXCEPT !.wildcard =
                                   <<[wildcard EXCEPT !.methods = MethodsInsert(@, method, route)]>>],
                                "none")
  IN CASE segments = <<>> ->
            Result([node EXCEPT !.methods = MethodsInsert(@, method, route)], "none")
       [] segments # <<>> /\ error # "none" -> Result(node, error)
       [] OTHER -> CASE first.kind = "literal" -> IntoLiteral
                     [] first.kind = "param" -> IntoParam
                     [] first.kind = "wildcard" -> IntoWildcard

\* Node::remove_at.  Emptied nodes stay; an error changes nothing.
RECURSIVE NodeRemove(_, _, _, _)
NodeRemove(node, segments, method, defined) ==
  LET first == Head(segments)
      rest == Tail(segments)
      i == SelectInSeq(node.params, LAMBDA p : p.constraint = ConstraintOf(first) /\ p.name = first.name)
  IN CASE segments = <<>> -> [node EXCEPT !.methods = MethodsRemove(@, method)]
       [] segments # <<>> /\ ParseError(first, defined) # "none" -> node
       [] OTHER ->
            CASE first.kind = "literal" /\ first.name \in DOMAIN node.literals ->
                   [node EXCEPT !.literals[first.name] = NodeRemove(@, rest, method, defined)]
              [] first.kind = "param" /\ i # 0 ->
                   [node EXCEPT !.params[i].node = NodeRemove(@, rest, method, defined)]
              [] first.kind = "wildcard" /\ node.wildcard # <<>> /\ node.wildcard[1].name = first.name ->
                   [node EXCEPT !.wildcard[1].methods = MethodsRemove(@, method)]
              [] OTHER -> node

\* What find_from() may go into for a segment, in the order it tries them:
\* the literal, the parameters that fit, and the wildcard with all the rest.
Branches(node, rest) ==
  LET segment == Head(rest)
      Capture(p, value) == <<[name |-> p.name, value |-> value]>>
      fitting == SelectSeq(node.params, LAMBDA p : FitsConstraint(p.constraint, segment))
  IN (IF segment \in DOMAIN node.literals
      THEN <<[node |-> node.literals[segment], capture |-> <<>>, rest |-> Tail(rest)]>>
      ELSE <<>>)
     \o [i \in DOMAIN fitting |->
           [node |-> fitting[i].node, capture |-> Capture(fitting[i], <<segment>>), rest |-> Tail(rest)]]
     \o [i \in DOMAIN node.wildcard |->
           [node |-> [EmptyNode EXCEPT !.methods = node.wildcard[i].methods],
            capture |-> Capture(node.wildcard[i], rest), rest |-> <<>>]]

\* Outcome::or, and the params.pop() after a branch that failed
Otherwise(best, failed, pushed) ==
  [(IF best.kind = "NotFound" THEN failed ELSE best)
     EXCEPT !.params = SubSeq(failed.params, 1, Len(failed.params) - pushed)]

\* Node::find_from: the first branch that matches, else the first 405, else 404.
RECURSIVE NodeFind(_, _, _, _)
NodeFind(node, path, method, params) ==
  LET rest == Remainder(path)
      Try(best, branch) ==
        LET found == NodeFind(branch.node, branch.rest, method, best.params \o branch.capture)
        IN CASE best.kind = "Matched" -> best
             [] best.kind # "Matched" /\ found.kind = "Matched" -> found
             [] OTHER -> Otherwise(best, found, Len(branch.capture))
  IN IF rest = <<>> THEN MethodsLookup(node.methods, method, params)
     ELSE FoldLeft(Try, NotFound(params), Branches(node, rest))
=============================================================================
