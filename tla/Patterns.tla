------------------------------ MODULE Patterns ------------------------------
(***************************************************************************)
(* Route patterns, and which paths they reach.                             *)
(*                                                                         *)
(*   src/src/path.rs  Segment::parse_with, Constraint                      *)
(*                                                                         *)
(* A pattern is a sequence of raw segments; the constraint of a parameter  *)
(* is the text after its colon, "none" if there is no colon.  A path is    *)
(* here the sequence of its segments, without the empty parts.             *)
(***************************************************************************)
EXTENDS Naturals, Sequences, FiniteSets

CONSTANT Fitting   \* per constraint, the segments that fit it

Literal(text) == [kind |-> "literal", name |-> text, constraint |-> "none"]
Param(name, constraint) == [kind |-> "param", name |-> name, constraint |-> constraint]
Wildcard(name) == [kind |-> "wildcard", name |-> name, constraint |-> "none"]

BuiltIn == {"none", "str", "int", "uuid"}

\* Constraint::parse: no constraint and `str` both are Any.
ConstraintOf(raw) == IF raw.constraint \in {"none", "str"} THEN "Any" ELSE raw.constraint

\* Segment::parse_with, with the constraints the app has defined
ParseError(raw, defined) ==
  CASE raw.kind = "wildcard" /\ raw.name = "" -> "UnnamedWildcard"
    [] raw.kind = "param" /\ raw.constraint \notin BuiltIn \union defined -> "UnknownConstraint"
    [] OTHER -> "none"

\* Constraint::matches, and the regex of a constraint of the app
FitsConstraint(constraint, segment) == constraint = "Any" \/ segment \in Fitting[constraint]

\* A pattern as routes() lists it
Canonical(pattern) ==
  [i \in DOMAIN pattern |->
     [pattern[i] EXCEPT !.constraint = IF @ = "str" THEN "none" ELSE @]]

-----------------------------------------------------------------------------
(* Which pattern answers which path.                                       *)

Fits(segment, text) ==
  CASE segment.kind = "literal" -> segment.name = text
    [] segment.kind = "param" -> FitsConstraint(ConstraintOf(segment), text)
    [] OTHER -> TRUE

IsOpen(pattern) == pattern # <<>> /\ pattern[Len(pattern)].kind = "wildcard"

Reaches(pattern, segments) ==
  /\ IF IsOpen(pattern) THEN Len(segments) >= Len(pattern) ELSE Len(segments) = Len(pattern)
  /\ \A i \in DOMAIN pattern : Fits(pattern[i], segments[i])

\* Literals before constrained parameters, before plain ones, before wildcards
Rank(segment) ==
  CASE segment.kind = "literal" -> 1
    [] segment.kind = "param" /\ ConstraintOf(segment) # "Any" -> 2
    [] segment.kind = "param" /\ ConstraintOf(segment) = "Any" -> 3
    [] OTHER -> 4

\* p is tried before q: it ranks before q where they first differ.
Before(p, q) ==
  \E i \in DOMAIN p \intersect DOMAIN q :
    Rank(p[i]) < Rank(q[i]) /\ \A k \in 1..(i - 1) : p[k] = q[k]
=============================================================================
