------------------------------- MODULE Router -------------------------------
(***************************************************************************)
(* The router: a tree of routes under a cache of lookups.                  *)
(*                                                                         *)
(*   src/korvex/router.py  Router: route, remove, match and its lru_cache  *)
(*   src/src/lib.rs        the Rust class under it                         *)
(*   src/src/tree.rs, src/src/path.rs  in RouteTree                        *)
(*                                                                         *)
(* The calls are one step each: they come from Python, one at a time.      *)
(* `table` is not in the code: it is what the calls so far have promised,  *)
(* a plain set of (pattern, method, route), and what answers are held to.  *)
(***************************************************************************)
EXTENDS RouteTree

CONSTANTS Entry,       \* the (pattern, method) routes are registered and removed under
          Path,        \* the paths answers are compared for
          Asked,       \* the ones that are looked up through the cache
          Method, Handler,
          Custom,      \* constraints the app may define
          CacheSize,   \* CACHE_SIZE
          MaxChanges   \* bound on the calls of route() and remove()

ASSUME RouterAssumption ==
  /\ CacheSize \in Nat \ {0} /\ MaxChanges \in Nat
  /\ Custom \intersect BuiltIn = {}
  /\ Asked \subseteq Path

VARIABLES root,      \* the tree
          defined,   \* the constraints defined so far
          cache,     \* the lru_cache, the latest use last
          version,   \* Router.version
          changes,   \* calls of route() and remove() so far
          table      \* what they promised

vars == <<root, defined, cache, version, changes, table>>

Init ==
  /\ root = EmptyNode /\ defined = {}
  /\ cache = <<>> /\ version = 0
  /\ changes = 0 /\ table = {}

\* The core's match(), without the cache
Answer(tree, path, method) == NodeFind(tree, Trimmed(path), method, <<>>)

\* constraint(): kept for the patterns to come
Constraint(c) ==
  /\ c \notin defined
  /\ defined' = defined \union {c}
  /\ UNCHANGED <<root, cache, version, changes, table>>

\* Mutant of Forget: the cache is left as it is.
ForgetNothing == UNCHANGED cache /\ version' = version + 1

\* What route() and remove() end with: cache_clear(), and a new version
Forget == cache' = <<>> /\ version' = version + 1

\* route(): an error leaves by ValueError, with the tree as insert_at() left it.
Route(pattern, method, handler) ==
  LET inserted == NodeInsert(root, pattern, method, handler, defined)
      here(t) == t.pattern = Canonical(pattern) /\ t.method = method
  IN /\ changes < MaxChanges
     /\ changes' = changes + 1
     /\ root' = inserted.node
     /\ IF inserted.error = "none"
        THEN /\ Forget
             /\ table' = {t \in table : ~here(t)}
                           \union {[pattern |-> Canonical(pattern), method |-> method, route |-> handler]}
        ELSE UNCHANGED <<cache, version, table>>
     /\ UNCHANGED defined

\* remove(): with an unknown constraint it leaves by ValueError instead.
RemoveRoute(pattern, method) ==
  /\ changes < MaxChanges
  /\ \A i \in DOMAIN pattern : ParseError(pattern[i], defined) = "none"
  /\ changes' = changes + 1
  /\ root' = NodeRemove(root, pattern, method, defined)
  /\ table' = {t \in table : ~(t.pattern = Canonical(pattern) /\ t.method = method)}
  /\ Forget
  /\ UNCHANGED defined

\* lru_cache drops the oldest use of a full cache.
Room(entries) == IF Len(entries) = CacheSize THEN Tail(entries) ELSE entries

\* match(): lru_cache keeps what the core returns, and nothing if it raises
\* MethodNotAllowed.  A hit becomes the latest use.
Match(path, method) ==
  LET i == SelectInSeq(cache, LAMBDA e : e.path = path /\ e.method = method)
      answer == Answer(root, path, method)
  IN /\ IF i # 0 THEN cache' = Append(RemoveAt(cache, i), cache[i])
        ELSE /\ answer.kind # "MethodNotAllowed"
             /\ cache' = Append(Room(cache), [path |-> path, method |-> method, answer |-> answer])
     /\ UNCHANGED <<root, defined, version, changes, table>>

Next ==
  \/ \E c \in Custom : Constraint(c)
  \/ \E e \in Entry : RemoveRoute(e[1], e[2]) \/ \E h \in Handler : Route(e[1], e[2], h)
  \/ \E p \in Asked, m \in Method : Match(p, m)

Spec == Init /\ [][Next]_vars

-----------------------------------------------------------------------------
(* What the table says a lookup should give.                               *)

\* The segments of a path, the empty parts left out
Segments(path) == SelectSeq(path, IsFull)

\* The routes that reach the path
Reaching(path) == {t \in table : Reaches(t.pattern, Segments(path))}

\* The parameters of a pattern, with what the path has in their places
Captures(pattern, path) ==
  LET segments == Segments(path)
      first(i) == CHOOSE k \in DOMAIN path : Len(Segments(SubSeq(path, 1, k))) = i /\ IsFull(path[k])
      value(i) == IF pattern[i].kind = "wildcard" THEN Trimmed(SubSeq(path, first(i), Len(path)))
                  ELSE <<segments[i]>>
      all == [i \in DOMAIN pattern |-> [segment |-> pattern[i], value |-> value(i)]]
      taken == SelectSeq(all, LAMBDA c : c.segment.kind # "literal")
  IN [i \in DOMAIN taken |-> [name |-> taken[i].segment.name, value |-> taken[i].value]]

-----------------------------------------------------------------------------
(* Properties.                                                             *)

\* The variables keep their types, the cache its size (router.py: "the last
\* `CACHE_SIZE` distinct lookups"), and version counts changes at most.
TypeOK ==
  /\ DOMAIN root = {"methods", "literals", "params", "wildcard"}
  /\ defined \subseteq Custom
  /\ Len(cache) <= CacheSize
  /\ version \in 0..changes /\ changes \in 0..MaxChanges
  /\ \A t \in table : t.method \in Method /\ t.route \in Handler

\* A lookup finds the best of the routes that reach the path for its method,
\* with the captures of that route's pattern and of no other, whatever was
\* registered, replaced, refused or removed before, and in whatever order; if
\* there is none, it says 405 with the methods of the best pattern that reaches
\* the path, and 404 if none does (src/tree.rs:3-6, docs/routes.md:126-128).
FindsBest ==
  \A path \in Path, method \in Method :
    LET answer == Answer(root, path, method)
        reach == Reaching(path)
        mine == {t \in reach : t.method = method}
    IN CASE mine # {} ->
              /\ answer.kind = "Matched"
              /\ \E t \in mine :
                   /\ answer.route = {t.route} /\ answer.params = Captures(t.pattern, path)
                   /\ \A u \in mine : ~Before(u.pattern, t.pattern)
         [] mine = {} /\ reach # {} ->
              /\ answer.kind = "MethodNotAllowed"
              /\ \E t \in reach :
                   /\ ToSet(answer.allowed) = {u.method : u \in {v \in reach : v.pattern = t.pattern}}
                   /\ \A u \in reach : ~Before(u.pattern, t.pattern)
         [] OTHER -> answer.kind = "NotFound"

\* A cached answer is what the tree would answer now: the calls that do not
\* clear the cache, a refused route() that left half a pattern in the tree
\* included, change no answer (router.py: "Adding or removing a route clears
\* the cache").
CacheFresh ==
  \A i \in DOMAIN cache : cache[i].answer = Answer(root, cache[i].path, cache[i].method)
=============================================================================
