----------------------------- MODULE AppRouting -----------------------------
(***************************************************************************)
(* What an App keeps of its declarations, and which route a request, a     *)
(* link and the API document find in it.                                   *)
(*                                                                         *)
(*   src/korvex/_app.py      App: the declarations, _dispatch's routing,   *)
(*                           url_for and its index, _routes_for            *)
(*   src/korvex/_routing.py  Group, _Host, _route_name                     *)
(*   src/korvex/_urls.py     build_index, lookup, path_for, url_for        *)
(*   src/korvex/_openapi.py  which routes build() describes                *)
(*                                                                         *)
(* Each host has two routers, one for HTTP and one for WebSockets, and so  *)
(* have the routes without a host (Root).  A router is the set of what is  *)
(* registered in it; that a lookup finds the best of these is what         *)
(* FindsBest of module Router shows.  A declaration is one step: an App is *)
(* declared by one thread before it is served.                             *)
(***************************************************************************)
EXTENDS Patterns, SequencesExt, FiniteSetsExt

CONSTANTS HostPattern,   \* patterns for host(), sequences of labels
          HostName,      \* host names that requests are for, sequences of texts
          Declaration,   \* calls of route() and websocket() on groups
          Static,        \* calls of static(): a prefix and a name
          Documented,    \* calls of docs(): its two paths
          Custom,        \* constraints the app may define
          Method, Path,  \* of the requests, as dispatch gets them
          RawPath,       \* paths as a request line has them
          Decoded,       \* per encoded part, the parts that it stands for
          Spelt,         \* the constraints, in the order of their texts
          Value,         \* values for link parameters, sequences of path parts
          NoName,        \* name=None
          NoLimit,       \* max_body=None
          MaxCalls       \* bound on the registrations

Root == <<>>

\* The shortcuts of a group: get(), post()...: route() with that method
Verb == {"GET", "POST", "PUT", "PATCH", "DELETE", "HEAD", "OPTIONS"}

IsPattern(p) == p \in Seq(Range(p))

ASSUME AppRoutingAssumption ==
  /\ Root \notin HostPattern /\ MaxCalls \in Nat
  /\ Method \subseteq Verb /\ \A d \in Declaration : d.method \in Verb
  /\ \A d \in Declaration : IsPattern(d.path) /\ IsPattern(d.group.prefix) /\ d.websocket \in BOOLEAN
  /\ \A d \in Documented : IsPattern(d.openapi) /\ IsPattern(d.page)
  /\ Custom \union {"int", "uuid"} \subseteq ToSet(Spelt)

Label(text) == [param |-> FALSE, text |-> text]
LabelParam(name) == [param |-> TRUE, text |-> name]

\* _Host: the parameters of a pattern, and whether a host name fits it
HostParams(h) == {h[i].text : i \in {j \in DOMAIN h : h[j].param}}

HostMatch(h, labels) ==
  /\ Len(labels) = Len(h)
  /\ \A i \in DOMAIN h : IF h[i].param THEN labels[i] # "" ELSE labels[i] = h[i].text

VARIABLES hosts,      \* _hosts, in the order they are tried
          declared,   \* the same in the order declared (not in the code)
          router,     \* per host (or Root) and per kind: what the router has
          routes,     \* _ws_routes and _routes, by key
          names,      \* _explicit_names: where each name= points
          limits,     \* _body_limits
          cache,      \* _url_cache, a set of at most one
          calls

routingVars == <<hosts, declared, router, routes, names, limits, cache, calls>>

RouterId == ({Root} \union HostPattern) \X BOOLEAN

EmptyRouter == [nodes |-> {}, table |-> {}, version |-> 0, constraints |-> {}]

RoutingInit ==
  /\ hosts = <<>> /\ declared = <<>>
  /\ router = [r \in RouterId |-> EmptyRouter]
  /\ routes = [websocket \in BOOLEAN |-> <<>>]
  /\ names = <<>> /\ limits = <<>> /\ cache = {} /\ calls = 0

-----------------------------------------------------------------------------
(* One router.                                                             *)

\* A segment that the tree refuses at place i of a pattern: it does not parse,
\* is a wildcard before the end, or has another name than its node has.
Refused(rt, pattern, i) ==
  \/ ParseError(pattern[i], rt.constraints) # "none"
  \/ pattern[i].kind = "wildcard" /\ i < Len(pattern)
  \/ \E node \in rt.nodes :
       /\ Len(node) = i /\ SubSeq(node, 1, i - 1) = SubSeq(pattern, 1, i - 1)
       /\ node[i].kind = pattern[i].kind /\ pattern[i].kind # "literal"
       /\ ConstraintOf(node[i]) = ConstraintOf(pattern[i]) /\ node[i].name # pattern[i].name

Accepts(rt, pattern) == \A i \in DOMAIN pattern : ~Refused(rt, pattern, i)

\* Router.route: a refused pattern leaves the nodes before the refused segment.
RouterRoute(rt, pattern, method, key) ==
  LET kept == {SubSeq(pattern, 1, k) : k \in {n \in DOMAIN pattern : \A i \in 1..n : ~Refused(rt, pattern, i)}}
      here(e) == e.pattern = pattern /\ e.method = method
  IN IF Accepts(rt, pattern)
     THEN [rt EXCEPT !.nodes = @ \union kept,
                     !.table = {e \in @ : ~here(e)} \union {[pattern |-> pattern, method |-> method, key |-> key]},
                     !.version = @ + 1]
     ELSE [rt EXCEPT !.nodes = @ \union kept]

\* Router.match: the best of the routes that reach the path
RouterMatch(rt, path, method) ==
  LET reach == {e \in rt.table : Reaches(e.pattern, path)}
      mine == {e \in reach : e.method = method}
      Best(S) == CHOOSE e \in S : \A u \in S : ~Before(u.pattern, e.pattern)
  IN CASE mine # {} -> [kind |-> "found", key |-> Best(mine).key, allowed |-> {}]
       [] mine = {} /\ reach # {} ->
            [kind |-> "405", key |-> <<>>,
             allowed |-> {e.method : e \in {u \in reach : u.pattern = Best(reach).pattern}}]
       [] OTHER -> [kind |-> "none", key |-> <<>>, allowed |-> {}]

-----------------------------------------------------------------------------
(* Declarations.                                                           *)

\* constraint(): every router but the one of the WebSockets without a host
Constraint(c) ==
  /\ c \notin router[<<Root, FALSE>>].constraints
  /\ router' = [r \in RouterId |->
                  IF r = <<Root, FALSE>> \/ r[1] \in ToSet(hosts)
                  THEN [router[r] EXCEPT !.constraints = @ \union {c}] ELSE router[r]]
  /\ UNCHANGED <<hosts, declared, routes, names, limits, cache, calls>>

\* Mutant of SortedHosts: the patterns stay in the order declared.
SortedHostsNot(hs) == hs

HasParams(h) == HostParams(h) # {}

\* The stable sort by bool(h.params): the k-th is the one that has k at or
\* before its place.
SortedHosts(hs) ==
  LET Sooner(j, i) == IF HasParams(hs[j]) = HasParams(hs[i]) THEN j <= i ELSE HasParams(hs[i])
      Place(i) == Cardinality({j \in DOMAIN hs : Sooner(j, i)})
  IN [k \in DOMAIN hs |-> hs[CHOOSE i \in DOMAIN hs : Place(i) = k]]

\* host(), for a pattern that is not known yet
Host(h) ==
  /\ h \notin ToSet(hosts)
  /\ hosts' = SortedHosts(Append(hosts, h))
  /\ declared' = Append(declared, h)
  /\ router' = [r \in RouterId |->
                  IF r[1] = h THEN [EmptyRouter EXCEPT !.constraints = router[<<Root, FALSE>>].constraints]
                  ELSE router[r]]
  /\ UNCHANGED <<routes, names, limits, cache, calls>>

\* _route_name(): the function's name, with #2, #3... once that is taken
RouteName(base, taken) ==
  LET free == {n \in 1..(Cardinality(DOMAIN taken) + 1) : <<"func", base, n>> \notin DOMAIN taken}
  IN <<"func", base, Min(free)>>

\* _check_name(): the name is given, and points elsewhere
NameTaken(name, where) == name # NoName /\ name \in DOMAIN names /\ names[name] # where

\* _Route: what is kept about a route; `place` stands for the function and the
\* plan made for that pattern.
NewRoute(name, default, include, limit, r, pattern, method) ==
  [name |-> IF name = NoName THEN default ELSE name, explicit |-> name # NoName,
   include |-> include, limit |-> limit,
   place |-> [router |-> r, pattern |-> pattern, method |-> method]]

\* _add_route()
AddRoute(websocket, key, route, where) ==
  /\ routes' = [routes EXCEPT ![websocket] =
                  [k \in DOMAIN @ \union {key} |-> IF k = key THEN route ELSE @[k]]]
  /\ names' = IF ~route.explicit THEN names
              ELSE [n \in DOMAIN names \union {route.name} |-> IF n = route.name THEN where ELSE names[n]]

\* _plan_pattern(): no parameter is both in the host and in the path.
Clash(h, pattern) == \E i \in DOMAIN pattern : pattern[i].kind # "literal" /\ pattern[i].name \in HostParams(h)

\* RouteGroup.full_path()
FullPath(prefix, path) == prefix \o path

\* _Docs.merge(): shown in the document if the group and the route both are
Included(group, own) == group /\ own

\* _check_status() and _has_body(): a route that returns a model needs a status
\* that has a body.
StatusFits(status, returns) ==
  /\ status \in 100..599
  /\ returns => status >= 200 /\ status \notin {204, 205, 304}

\* A group: its host, its prefix, and whether its routes show in the document
NewGroup(host, prefix, include) == [host |-> host, prefix |-> prefix, include |-> include]

\* App.group(): a group inside the app's own, which has no host and no prefix
RootGroup(prefix, include) == NewGroup(Root, FullPath(<<>>, prefix), Included(TRUE, include))

\* Group.route and Group.websocket.  A call that raises keeps nothing but what the tree keeps.
Register(d) ==
  LET spelt == FullPath(d.group.prefix, d.path)
      pattern == Canonical(spelt)
      r == <<d.group.host, d.websocket>>
      key == RouteName(d.func, routes[d.websocket])
      where == [websocket |-> d.websocket, host |-> d.group.host, path |-> spelt]
      route == NewRoute(d.name, d.func, Included(d.group.include, d.include), d.limit, r, pattern, d.method)
  IN /\ calls < MaxCalls /\ calls' = calls + 1
     /\ d.group.host = Root \/ d.group.host \in ToSet(hosts)
     /\ ~Clash(d.group.host, pattern)
     /\ StatusFits(d.status, d.returns)
     /\ ~NameTaken(d.name, where)
     /\ router' = [router EXCEPT ![r] = RouterRoute(@, pattern, d.method, key)]
     /\ IF Accepts(router[r], pattern)
        THEN /\ AddRoute(d.websocket, key, route, where)
             /\ limits' = IF d.limit = NoLimit THEN limits
                          ELSE Append(limits, [method |-> d.method, pattern |-> pattern, bytes |-> d.limit])
        ELSE UNCHANGED <<routes, names, limits>>
     /\ UNCHANGED <<hosts, declared, cache>>

Route(d) == ~d.websocket /\ Register(d)
WebSocket(d) == d.websocket /\ Register(d)

\* static(): one key per prefix
StaticRoute(s) ==
  LET pattern == <<Literal(s.prefix), Wildcard("path")>>
      r == <<Root, FALSE>>
      key == <<"static", s.prefix, 1>>
      where == [websocket |-> FALSE, host |-> Root, path |-> pattern]
      route == NewRoute(s.name, "static", FALSE, NoLimit, r, pattern, "GET")
  IN /\ calls < MaxCalls /\ calls' = calls + 1
     /\ ~NameTaken(s.name, where)
     /\ router' = [router EXCEPT ![r] = RouterRoute(@, pattern, "GET", key)]
     /\ IF Accepts(router[r], pattern) THEN AddRoute(FALSE, key, route, where)
        ELSE UNCHANGED <<routes, names>>
     /\ UNCHANGED <<hosts, declared, limits, cache>>

\* docs(): the document, then the page, under keys of their own and no name
Docs(d) ==
  LET r == <<Root, FALSE>>
      key(what) == <<"korvex", what, 1>>
      route(path) == NewRoute(NoName, NoName, FALSE, NoLimit, r, path, "GET")
      first == RouterRoute(router[r], d.openapi, "GET", key("openapi"))
      second == RouterRoute(first, d.page, "GET", key("docs"))
      added == {w \in {"openapi", "docs"} :
                  Accepts(router[r], d.openapi) /\ (w = "docs" => Accepts(first, d.page))}
      path(w) == IF w = "openapi" THEN d.openapi ELSE d.page
      keys == {key(w) : w \in added}
  IN /\ calls < MaxCalls /\ calls' = calls + 1
     /\ router' = [router EXCEPT ![r] = IF "openapi" \in added THEN second ELSE first]
     /\ routes' = [routes EXCEPT ![FALSE] =
                     [k \in DOMAIN @ \union keys |-> IF k \in keys THEN route(path(k[2])) ELSE @[k]]]
     /\ UNCHANGED <<hosts, declared, names, limits, cache>>

-----------------------------------------------------------------------------
(* Links.                                                                  *)

\* build_index(): the routes that have a name, in every router
BuildIndex ==
  UNION {{[name |-> routes[r[2]][e.key].name, explicit |-> routes[r[2]][e.key].explicit,
           key |-> e.key, method |-> e.method, pattern |-> e.pattern, host |-> r[1], websocket |-> r[2]] :
             e \in {f \in router[r].table : routes[r[2]][f.key].name # NoName}} : r \in RouterId}

\* Mutant of Signature: the versions of the routers are left out.
SignatureSizes == <<Cardinality(DOMAIN routes[FALSE]), Cardinality(DOMAIN routes[TRUE]), <<>>>>

\* What _url_index() compares to tell that routes changed
Signature ==
  <<Cardinality(DOMAIN routes[FALSE]), Cardinality(DOMAIN routes[TRUE]),
    [i \in 0..Len(hosts) |->
       LET h == IF i = 0 THEN Root ELSE hosts[i]
       IN <<router[<<h, FALSE>>].version, router[<<h, TRUE>>].version>>]>>

\* url_for(): the index is built again if the signature is another.
UrlFor ==
  /\ \A c \in cache : c.signature # Signature
  /\ cache' = {[signature |-> Signature, index |-> BuildIndex]}
  /\ UNCHANGED <<hosts, declared, router, routes, names, limits, calls>>

\* lookup(): the routes the name points to, if all are in one place
Lookup(index, name) ==
  LET named == {t \in index : t.name = name}
      targets == IF \E t \in named : t.explicit THEN {t \in named : t.explicit} ELSE named
      places == {<<t.websocket, t.host, t.pattern>> : t \in targets}
  IN IF Cardinality(places) = 1 THEN targets ELSE {}

\* A value that the segment takes: a part that is empty (or a dot) is refused,
\* and so is a slash outside a wildcard.
Takes(segment, value) ==
  /\ "" \notin ToSet(value)
  /\ segment.kind = "param" => Len(value) = 1 /\ (segment.constraint \in BuiltIn => Fits(segment, value[1]))

\* Mutant of Reached: the path is taken as it is.
ReachedAny(target, path) == TRUE

\* _check_reached(), past the cache
Reached(target, path) ==
  LET found == RouterMatch(router[<<target.host, target.websocket>>], path, target.method)
  IN found.kind = "found" /\ found.key = target.key

\* path_for(), with the same value for every parameter: the paths it returns,
\* none if it raises
PathFor(target, value) ==
  LET pattern == target.pattern
      part(i) == IF pattern[i].kind = "literal" THEN <<pattern[i].name>> ELSE value
      path == FlattenSeq([i \in DOMAIN pattern |-> part(i)])
      fits == \A i \in DOMAIN pattern : pattern[i].kind = "literal" \/ Takes(pattern[i], value)
  IN {p \in {path} : fits /\ Reached(target, p)}

\* The host of the full URL that request.url_for() gives: the request's own for
\* a route without a host
NetLoc(target, label, asked) ==
  IF target.host = Root THEN asked
  ELSE [i \in DOMAIN target.host |-> IF target.host[i].param THEN label ELSE target.host[i].text]

-----------------------------------------------------------------------------
(* Requests and documents.                                                 *)

\* _host_for(): the first pattern that fits owns the request.
HostFor(labels) ==
  LET fits == {i \in DOMAIN hosts : HostMatch(hosts[i], labels)}
  IN IF fits = {} THEN Root ELSE hosts[Min(fits)]

\* _match(): HEAD is GET where the 405 lists GET.
MatchRequest(rt, path, method) ==
  LET found == RouterMatch(rt, path, method)
  IN IF found.kind = "405" /\ method = "HEAD" /\ "GET" \in found.allowed
     THEN RouterMatch(rt, path, "GET") ELSE found

\* The routing of _dispatch() and _websocket(): the owner's routes, then those
\* without a host.  A 405 of the owner is final.
Dispatch(labels, websocket, path, method) ==
  LET owner == HostFor(labels)
      On(h) == LET found == MatchRequest(router[<<h, websocket>>], path, method)
               IN [kind |-> found.kind, key |-> found.key, host |-> h]
  IN IF On(owner).kind # "none" THEN On(owner) ELSE On(Root)

\* Mutant of RoutesFor: a host's document has the host's own routes.
RoutesForOwn(labels) == router[<<HostFor(labels), FALSE>>].table

\* _routes_for(): the owner's, and those without a host unless the owner has
\* the same pattern and method
RoutesFor(labels) ==
  LET own == router[<<HostFor(labels), FALSE>>].table
      seen == {<<e.pattern, e.method>> : e \in own}
  IN own \union {e \in router[<<Root, FALSE>>].table : <<e.pattern, e.method>> \notin seen}

\* The routes that build() describes
Shown(labels) == {e \in RoutesFor(labels) : e.key[1] = "func" /\ routes[FALSE][e.key].include}

\* openapi_path(): a parameter without its constraint, and so a wildcard
OpenApiPath(pattern) ==
  [i \in DOMAIN pattern |-> IF pattern[i].kind = "literal" THEN pattern[i] ELSE Param(pattern[i].name, "none")]

\* routes() sorts by the text of the pattern: of patterns with one OpenAPI path,
\* `*id` before `{id:int}` before `{id:slug}` before `{id}`
ListedBefore(p, q) ==
  LET Place(segment) == CASE segment.kind = "wildcard" -> 0
                          [] segment.kind = "param" /\ segment.constraint # "none" ->
                               Min({i \in DOMAIN Spelt : Spelt[i] = segment.constraint})
                          [] OTHER -> Len(Spelt) + 1
  IN \E i \in DOMAIN p : Place(p[i]) < Place(q[i]) /\ \A k \in 1..(i - 1) : p[k] = q[k]

\* build() keeps one operation per OpenAPI path and method: u comes after e,
\* the owner's routes first, and takes its place.
Overwrites(labels, u, e) ==
  LET own == router[<<HostFor(labels), FALSE>>].table
  IN /\ OpenApiPath(u.pattern) = OpenApiPath(e.pattern) /\ u.method = e.method
     /\ IF u \in own <=> e \in own THEN ListedBefore(e.pattern, u.pattern) ELSE e \in own

\* build(): what the document has
Described(labels) == {e \in Shown(labels) : \A u \in Shown(labels) : ~Overwrites(labels, u, e)}

\* unquote(): what dispatch gets of the path of a request line
Unquote(raw) ==
  FlattenSeq([i \in DOMAIN raw |-> IF raw[i] \in DOMAIN Decoded THEN Decoded[raw[i]] ELSE <<raw[i]>>])

\* Mutant of BodyLimit: the first of the limits for a pattern is kept.
BodyLimitFirst(raw, method) ==
  LET mine == {i \in DOMAIN limits : limits[i].method = method /\ Reaches(limits[i].pattern, raw)}
      best == {i \in mine : \A k \in mine : ~Before(limits[k].pattern, limits[i].pattern)}
  IN IF mine = {} THEN NoLimit ELSE limits[Min(best)].bytes

\* The built-in server's limit for a request, of any host: that of the best
\* limited pattern for the path as it is on the request line, the last one
\* given for that pattern
BodyLimit(raw, method) ==
  LET mine == {i \in DOMAIN limits : limits[i].method = method /\ Reaches(limits[i].pattern, raw)}
      best == {i \in mine : \A k \in mine : ~Before(limits[k].pattern, limits[i].pattern)}
  IN IF mine = {} THEN NoLimit ELSE limits[Max(best)].bytes

RoutingNext ==
  \/ \E c \in Custom : Constraint(c)
  \/ \E h \in HostPattern : Host(h)
  \/ \E d \in Declaration : Route(d) \/ WebSocket(d)
  \/ \E s \in Static : StaticRoute(s)
  \/ \E d \in Documented : Docs(d)
  \/ UrlFor

RoutingSpec == RoutingInit /\ [][RoutingNext]_routingVars

-----------------------------------------------------------------------------
(* Properties.                                                             *)

\* An index whose signature still fits is the one that would be built now:
\* no sequence of declarations changes what names point to and leaves the
\* signature as it was (_url_index: "worked out again once routes change").
IndexFresh == \A c \in cache : c.signature = Signature => c.index = BuildIndex

\* A link leads to its route: a request for the path, on the host of the link,
\* is dispatched to the route the name points to.  Two cases are excepted,
\* where the full URL names a host that another pattern owns, and where a
\* route without a host is linked to from a host that has the path itself.
LinkReaches ==
  \A name \in {u.name : u \in BuildIndex} :
  \A t \in Lookup(BuildIndex, name) : \A value \in Value, asked \in HostName :
    \A path \in PathFor(t, value) :
      LET labels == NetLoc(t, "acme", asked)
          found == Dispatch(labels, t.websocket, path, t.method)
          owner == HostFor(labels)
          elsewhere == t.host # Root /\ owner # t.host
          shadowed == t.host = Root /\ RouterMatch(router[<<owner, t.websocket>>], path, t.method).kind # "none"
      IN elsewhere \/ (shadowed /\ owner # Root) \/ (found.kind = "found" /\ found.key = t.key)

\* A request belongs to the literal pattern it fits, whenever that was declared,
\* or else to the first declared of the patterns with parameters; routes
\* without a host answer only what the owner does not have, and another
\* pattern's never do (App.host's docstring).
OwnerAnswers ==
  \A labels \in HostName, websocket \in BOOLEAN, path \in Path, method \in Method :
    LET fits == {i \in DOMAIN declared : HostMatch(declared[i], labels)}
        literal == {i \in fits : HostParams(declared[i]) = {}}
        owner == IF fits = {} THEN Root ELSE declared[Min(IF literal # {} THEN literal ELSE fits)]
        found == Dispatch(labels, websocket, path, method)
    IN \/ found.host = owner
       \/ /\ found.host = Root
          /\ \A e \in router[<<owner, websocket>>].table : ~Reaches(e.pattern, path)

\* A request that reaches a described route on some host finds that route in
\* the document of that host (_routes_for: "every route that answers on
\* `host`").  Excepted is a route that another one of the document overwrites,
\* since both have one OpenAPI path and method (`{id:int}` and `{id}`, on one
\* host or on the host and without one).
DocsComplete ==
  \A labels \in HostName, path \in Path, method \in Method :
    LET found == Dispatch(labels, FALSE, path, method)
    IN found.kind = "found" /\ found.key[1] = "func" /\ routes[FALSE][found.key].include
         => \E e \in Shown(labels) :
              /\ e.key = found.key
              /\ e \in Described(labels) \/ \E u \in Shown(labels) : Overwrites(labels, u, e)

\* A request to a route that has a max_body of its own gets that limit, not
\* the one of another limited pattern that fits the path or of a route that it
\* replaced (server.rs: "The body size limit for a request: its route's"), in
\* an app without hosts: limits go by path, on every host.  Excepted is a path
\* whose encoding matters: a limited pattern fits only one of the path on the
\* request line and the decoded one that dispatch gets.  A route without a
\* limit may get that of a limited pattern that fits its path.  Two
\* constraints that fit the same part are left out: Before does not order them.
LimitApplies ==
  \A raw \in RawPath, method \in Method :
    LET path == Unquote(raw)
        found == Dispatch(<<>>, FALSE, path, method)
        route == routes[FALSE][found.key]
        encoded == \E i \in DOMAIN limits : Reaches(limits[i].pattern, raw) # Reaches(limits[i].pattern, path)
    IN declared = <<>> /\ found.kind = "found" /\ route.place.method = method /\ route.limit # NoLimit
         => encoded \/ BodyLimit(raw, method) = route.limit
=============================================================================
