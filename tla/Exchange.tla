------------------------------ MODULE Exchange ------------------------------
(***************************************************************************)
(* Requests side by side through the app's middleware: what each before    *)
(* hook may answer, what each after hook does to the answer's headers and  *)
(* body, and what goes out.                                                *)
(*                                                                         *)
(*   src/korvex/_app.py        App._respond, App._dispatch, _raw_headers   *)
(*   src/korvex/_response.py   Headers, Response, StreamingResponse        *)
(*   src/korvex/middleware/    compress, cors, request_id, rate_limit,     *)
(*                             security_headers                            *)
(*   src/korvex/_serve.py      _serve_http, _logged                        *)
(*                                                                         *)
(* A middleware adds its hooks to the app's two lists.  "app" stands for   *)
(* a before and an after hook of the app's own, which may answer, raise or *)
(* replace the answer.  What a header says is a value of its own kind: a   *)
(* length is known by the body it is the length of.  What the route reads  *)
(* of the request is Binding's, teardown and error handlers RequestRun's,  *)
(* the arithmetic of the limit RateLimit's.                                *)
(***************************************************************************)
EXTENDS Binding, Functions, Integers

CONSTANTS Request,
          Setup,       \* apps and the requests they get
          Encodings,   \* available encodings of compress(), preferred first
          Allowance,   \* `requests` of rate_limit()
          None         \* Python's None

Hook == {"compress", "cors", "request_id", "rate_limit", "security_headers", "app"}

\* What a store decides
Decision == [allowed : BOOLEAN, remaining : 0..Allowance]

ASSUME NoneAssumption ==
  /\ None \notin {"*", "site"} \union Decision
  /\ \A r \in Request : None \notin {<<"incoming", r>>, <<"new", r>>}

ASSUME ExchangeAssumption ==
  /\ Allowance \in Nat \ {0}
  /\ Encodings \in Seq(STRING)
  /\ \A s \in Setup :
       /\ s.hooks \in Seq(Hook) /\ IsInjective(s.hooks)
       /\ s.custom \in {"pass", "refuse", "raise", "replace", "fail"}   \* what "app" does
       /\ s.anyOrigin \in BOOLEAN /\ s.credentials \in BOOLEAN          \* of cors()
       /\ s.trust \in BOOLEAN                                           \* of request_id()
       /\ s.store \in {"memory", "open", "closed"}                      \* MemoryStore, or RedisStore by fail_open
       /\ s.route \in {"page", "small", "picture", "fixed", "coded", "empty", "stream", "file", "error", "bound"}
       /\ DOMAIN s.asked = Request
       /\ \A r \in Request :
            /\ DOMAIN s.asked[r] = {"method", "origin", "wants", "accepts", "id", "exempt", "https",
                                    "fields", "body", "credentials"}
            /\ s.asked[r].origin \in {None, "site", "other"}            \* one that is listed, or not
            /\ \A e \in DOMAIN s.asked[r].accepts : s.asked[r].accepts[e] \in Int   \* q, on some scale
       /\ s.route = "bound" =>
            ~Refused(s.plan) /\ \A func \in DOMAIN s.plan.params : ToSet(s.plan.params[func]) \subseteq Declared

VARIABLES setup,      \* the app's hooks and options, and what is asked of it
          pc,         \* where each request's task is
          at,         \* the hook of the current list it is at
          context,    \* its ContextVars: the ID and the limit's decision
          reply,      \* what the store decided for it, if asked
          used,       \* requests the store has allowed
          response,   \* its response so far
          answered,   \* which hook's answer that was, or "route" (not in the code)
          sent,       \* what went out
          logged      \* the ID in its line of the access log

vars == <<setup, pc, at, context, reply, used, response, answered, sent, logged>>

asked == setup.asked

\* current_request_id() in the task of `r`
CurrentRequestId(r) == context[r].id

\* Every middleware has an after hook, and some have a before hook.
HasBefore(hook) == hook \notin {"compress", "security_headers"}

\* The first of the before hooks from place i on, past the end if there is none
NextBefore(i) ==
  Min({j \in i..Len(setup.hooks) : HasBefore(setup.hooks[j])} \union {Len(setup.hooks) + 1})

AfterHooks == Reverse(setup.hooks)

-----------------------------------------------------------------------------
(* Headers and responses.  Headers are the values of each name, in order.  *)

NoHeaders == [n \in {} |-> <<>>]
GetAll(headers, name) == IF name \in DOMAIN headers THEN headers[name] ELSE <<>>
PutHeader(headers, name, values) ==
  [n \in DOMAIN headers \union {name} |-> IF n = name THEN values ELSE headers[n]]
SetHeader(headers, name, value) == PutHeader(headers, name, <<value>>)
AddHeader(headers, name, value) == PutHeader(headers, name, Append(GetAll(headers, name), value))
RemoveHeader(headers, name) == Restrict(headers, DOMAIN headers \ {name})
Only(name, value) == SetHeader(NoHeaders, name, value)

\* A body is known by its size before any encoding, and the encodings on it.
Response(status, headers, size) ==
  [status |-> status, headers |-> headers, streamed |-> FALSE, size |-> size, coded |-> <<>>]

WithType(status, type, headers) ==
  Response(status, IF "Content-Type" \in DOMAIN headers THEN headers ELSE SetHeader(headers, "Content-Type", type), "small")

Length(r) == <<r.size, r.coded>>

ServerError == WithType(500, "json", NoHeaders)

\* What the route may give: a response, a stream or a file, as its handler
\* made it, or the response of the error that it raised.
Routed(kind) ==
  LET page == [Response(200, Only("Content-Type", "text"), "large") EXCEPT !.streamed = (kind \in {"stream", "file"})]
  IN CASE kind = "page"    -> page
       [] kind = "small"   -> WithType(200, "json", Only("X-Frame-Options", "own"))
       [] kind = "picture" -> [page EXCEPT !.headers = Only("Content-Type", "image")]
       [] kind = "fixed"   -> [page EXCEPT !.headers = SetHeader(@, "Cache-Control", "no-transform")]
       [] kind = "coded"   -> [page EXCEPT !.headers = SetHeader(@, "Content-Encoding", "own"), !.coded = <<"own">>]
       [] kind = "empty"   -> Response(204, NoHeaders, "nothing")
       [] kind = "stream"  -> page
       [] kind = "file"    -> [page EXCEPT !.headers = SetHeader(@, "Content-Length", Length(page))]
       [] kind = "error"   -> ServerError

\* A handler with annotations: what its parameters and dependencies refuse
\* is answered with their status.  They read no more of the request than this.
Bound(plan, request) ==
  LET read == [fields |-> request.fields, body |-> request.body, credentials |-> request.credentials]
      status == Outcome(plan, read)
  IN WithType(IF status = 0 THEN 200 ELSE status, "json",
              IF status = 401 THEN Only("WWW-Authenticate", "Bearer") ELSE NoHeaders)

-----------------------------------------------------------------------------
Init ==
  /\ setup \in Setup
  /\ pc = [r \in Request |-> "before"]
  /\ at = [r \in Request |-> NextBefore(1)]
  /\ context = [r \in Request |-> [id |-> None, decision |-> None]]
  /\ reply = [r \in Request |-> None]
  /\ used = 0
  /\ response = [r \in Request |-> None]
  /\ answered = [r \in Request |-> None]
  /\ sent = [r \in Request |-> None]
  /\ logged = [r \in Request |-> None]

\* The task of `r` is at `hook` of the before, or of the after hooks.
AtBefore(r, hook) == pc[r] = "before" /\ at[r] \in DOMAIN setup.hooks /\ setup.hooks[at[r]] = hook
AtAfter(r, hook) == pc[r] = "after" /\ at[r] \in DOMAIN AfterHooks /\ AfterHooks[at[r]] = hook

\* The hook returned None: the next one.
Passes(r) ==
  /\ pc' = [pc EXCEPT ![r] = "before"]
  /\ at' = [at EXCEPT ![r] = NextBefore(@ + 1)]
  /\ UNCHANGED <<response, answered>>

\* Mutant of Answers: the answer of a before hook goes out as it is.
AnswersBare(r, who, answer) ==
  /\ response' = [response EXCEPT ![r] = answer]
  /\ answered' = [answered EXCEPT ![r] = who]
  /\ at' = [at EXCEPT ![r] = IF who = "route" THEN 1 ELSE Len(AfterHooks) + 1]
  /\ pc' = [pc EXCEPT ![r] = "after"]

\* There is a response, of a hook or of the route: the after hooks get it.
Answers(r, who, answer) ==
  /\ response' = [response EXCEPT ![r] = answer]
  /\ answered' = [answered EXCEPT ![r] = who]
  /\ at' = [at EXCEPT ![r] = 1]
  /\ pc' = [pc EXCEPT ![r] = "after"]

-----------------------------------------------------------------------------
(* Before hooks, in the order of their declaration.                        *)

\* The value of Access-Control-Allow-Origin for the origin of `r`, or None
AllowedOrigin(r) ==
  IF setup.anyOrigin THEN IF setup.credentials THEN asked[r].origin ELSE "*"
  ELSE IF asked[r].origin = "site" THEN "site" ELSE None

CommonHeaders(headers, value) ==
  LET allowed == SetHeader(headers, "Access-Control-Allow-Origin", value)
      varied == IF value # "*" THEN AddHeader(allowed, "Vary", "Origin") ELSE allowed
  IN IF setup.credentials THEN SetHeader(varied, "Access-Control-Allow-Credentials", "true") ELSE varied

IsPreflight(r) == asked[r].method = "OPTIONS" /\ asked[r].origin # None /\ asked[r].wants # None

Preflight(r) ==
  /\ AtBefore(r, "cors")
  /\ \/ /\ ~IsPreflight(r)
        /\ Passes(r)
     \/ /\ IsPreflight(r) /\ (AllowedOrigin(r) = None \/ asked[r].wants = "refused")
        /\ Answers(r, "cors", WithType(400, "text", NoHeaders))
     \/ /\ IsPreflight(r) /\ AllowedOrigin(r) # None /\ asked[r].wants = "fine"
        /\ Answers(r, "cors",
             Response(204, SetHeader(CommonHeaders(NoHeaders, AllowedOrigin(r)),
                                     "Access-Control-Allow-Methods", "methods"), "nothing"))
  /\ UNCHANGED <<setup, context, reply, used, sent, logged>>

\* The ID a request gets: its own, if it is safe and trusted, or a new one
IdOf(r) == IF setup.trust /\ asked[r].id = "safe" THEN <<"incoming", r>> ELSE <<"new", r>>

\* Mutant of Assign: the ID in a global variable, not in a ContextVar.
AssignGlobal(r) ==
  /\ AtBefore(r, "request_id")
  /\ context' = [q \in Request |-> [context[q] EXCEPT !.id = IdOf(r)]]
  /\ Passes(r)
  /\ UNCHANGED <<setup, reply, used, sent, logged>>

Assign(r) ==
  /\ AtBefore(r, "request_id")
  /\ context' = [context EXCEPT ![r].id = IdOf(r)]
  /\ Passes(r)
  /\ UNCHANGED <<setup, reply, used, sent, logged>>

\* A key of None: the request is exempt.
Exempt(r) ==
  /\ AtBefore(r, "rate_limit")
  /\ asked[r].exempt
  /\ context' = [context EXCEPT ![r].decision = None]
  /\ Passes(r)
  /\ UNCHANGED <<setup, reply, used, sent, logged>>

\* The store's decision, all requests having one key.  Time stands still here:
\* what comes back with it is in module RateLimit.
Hit ==
  IF used < Allowance THEN [allowed |-> TRUE, remaining |-> Allowance - used - 1]
  ELSE [allowed |-> FALSE, remaining |-> 0]

\* answer() of the decision on `r`
Decided(r, decision) ==
  /\ context' = [context EXCEPT ![r].decision = decision]
  /\ \/ decision.allowed /\ Passes(r)
     \/ ~decision.allowed /\ Answers(r, "rate_limit", WithType(429, "text", Only("Retry-After", "seconds")))

\* A store in memory decides at once.
Check(r) ==
  /\ AtBefore(r, "rate_limit")
  /\ ~asked[r].exempt /\ setup.store = "memory"
  /\ reply' = [reply EXCEPT ![r] = Hit]
  /\ used' = IF Hit.allowed THEN used + 1 ELSE used
  /\ Decided(r, Hit)
  /\ UNCHANGED <<setup, sent, logged>>

\* A store over the network is awaited: other requests go on.
Ask(r) ==
  /\ AtBefore(r, "rate_limit")
  /\ ~asked[r].exempt /\ setup.store # "memory"
  /\ pc' = [pc EXCEPT ![r] = "asking"]
  /\ UNCHANGED <<setup, at, context, reply, used, response, answered, sent, logged>>

\* It runs its script, or cannot be reached (its answer lost on the way,
\* the script may have run): RedisStore.hit() decides by fail_open.
StoreDecides(r) ==
  /\ pc[r] = "asking"
  /\ \/ reply' = [reply EXCEPT ![r] = Hit] /\ used' = IF Hit.allowed THEN used + 1 ELSE used
     \/ /\ reply' = [reply EXCEPT ![r] = [allowed |-> setup.store = "open",
                                          remaining |-> IF setup.store = "open" THEN Allowance ELSE 0]]
        /\ used' \in {used, IF Hit.allowed THEN used + 1 ELSE used}
  /\ pc' = [pc EXCEPT ![r] = "told"]
  /\ UNCHANGED <<setup, at, context, response, answered, sent, logged>>

StoreAnswers(r) ==
  /\ pc[r] = "told"
  /\ Decided(r, reply[r])
  /\ UNCHANGED <<setup, reply, used, sent, logged>>

\* The app's own hook passes, answers, or raises: _handle_error() answers.
AppBefore(r) ==
  /\ AtBefore(r, "app")
  /\ \/ setup.custom \notin {"refuse", "raise"} /\ Passes(r)
     \/ setup.custom = "refuse" /\ Answers(r, "app", WithType(401, "json", NoHeaders))
     \/ setup.custom = "raise" /\ Answers(r, "app", ServerError)
  /\ UNCHANGED <<setup, context, reply, used, sent, logged>>

\* No hook answered: the route does, or the error that it raised.
Dispatch(r) ==
  /\ pc[r] = "before" /\ at[r] > Len(setup.hooks)
  /\ Answers(r, "route", IF setup.route = "bound" THEN Bound(setup.plan, asked[r]) ELSE Routed(setup.route))
  /\ UNCHANGED <<setup, context, reply, used, sent, logged>>

-----------------------------------------------------------------------------
(* After hooks, last declared first.                                       *)

\* The hook changed the response in place, or not: the next one.
Changes(r, changed) ==
  /\ response' = [response EXCEPT ![r] = changed]
  /\ at' = [at EXCEPT ![r] = @ + 1]
  /\ UNCHANGED <<setup, pc, context, reply, used, answered, sent, logged>>

\* How much the client wants the encoding, by name or by "*"
Quality(r, encoding) ==
  LET accepted == asked[r].accepts
  IN IF encoding \in DOMAIN accepted THEN accepted[encoding]
     ELSE IF "*" \in DOMAIN accepted THEN accepted["*"] ELSE 0

\* The first of the encodings the client wants most, in a set of one; or {}
Pick(r) ==
  { Encodings[i] : i \in {i \in DOMAIN Encodings :
      /\ Quality(r, Encodings[i]) > 0
      /\ \A j \in DOMAIN Encodings :
           IF j < i THEN Quality(r, Encodings[j]) < Quality(r, Encodings[i])
           ELSE Quality(r, Encodings[j]) <= Quality(r, Encodings[i])} }

Compressible(it) ==
  /\ it.status \notin {204, 304}
  /\ "Content-Encoding" \notin DOMAIN it.headers
  /\ "no-transform" \notin Range(GetAll(it.headers, "Cache-Control"))
  /\ Range(GetAll(it.headers, "Content-Type")) \intersect {"text", "json"} # {}
  /\ it.streamed \/ it.size = "large"

\* The response depends on Accept-Encoding even when it is not compressed.
Varied(it) ==
  IF "Accept-Encoding" \in Range(GetAll(it.headers, "Vary")) THEN it
  ELSE [it EXCEPT !.headers = AddHeader(@, "Vary", "Accept-Encoding")]

\* Mutant of Encoded: the length of the body before it was compressed stays.
EncodedSameLength(it, encoding) ==
  [it EXCEPT !.headers = SetHeader(@, "Content-Encoding", encoding), !.coded = Append(@, encoding)]

\* A body at once, or a stream piece by piece
Encoded(it, encoding) ==
  [it EXCEPT !.headers = RemoveHeader(SetHeader(@, "Content-Encoding", encoding), "Content-Length"),
             !.coded = Append(@, encoding)]

\* Mutant of CompressResponse: Vary on what was compressed only.
CompressResponseVaries(r) ==
  /\ AtAfter(r, "compress")
  /\ LET it == response[r]
     IN Changes(r, IF Compressible(it) /\ Pick(r) # {}
                   THEN Encoded(Varied(it), CHOOSE e \in Pick(r) : TRUE) ELSE it)

CompressResponse(r) ==
  /\ AtAfter(r, "compress")
  /\ LET it == response[r]
     IN \/ ~Compressible(it) /\ Changes(r, it)
        \/ Compressible(it) /\ Pick(r) = {} /\ Changes(r, Varied(it))
        \/ Compressible(it) /\ \E encoding \in Pick(r) : Changes(r, Encoded(Varied(it), encoding))

AddCorsHeaders(r) ==
  /\ AtAfter(r, "cors")
  /\ LET it == response[r]
     IN Changes(r, IF \/ asked[r].origin = None
                      \/ "Access-Control-Allow-Origin" \in DOMAIN it.headers
                      \/ AllowedOrigin(r) = None
                   THEN it ELSE [it EXCEPT !.headers = CommonHeaders(@, AllowedOrigin(r))])

SendBack(r) ==
  /\ AtAfter(r, "request_id")
  /\ Changes(r, IF CurrentRequestId(r) = None THEN response[r]
                ELSE [response[r] EXCEPT !.headers = SetHeader(@, "X-Request-ID", CurrentRequestId(r))])

AddLimitHeaders(r) ==
  /\ AtAfter(r, "rate_limit")
  /\ Changes(r, IF context[r].decision = None THEN response[r]
                ELSE [response[r] EXCEPT !.headers = SetHeader(@, "RateLimit-Remaining", context[r].decision.remaining)])

SetMissing(headers, name, value) == IF name \in DOMAIN headers THEN headers ELSE SetHeader(headers, name, value)

\* X-Frame-Options for all that security_headers() always adds, and HSTS
AddSecurityHeaders(r) ==
  /\ AtAfter(r, "security_headers")
  /\ LET framed == SetMissing(response[r].headers, "X-Frame-Options", "default")
     IN Changes(r, [response[r] EXCEPT !.headers =
                      IF asked[r].https THEN SetMissing(framed, "Strict-Transport-Security", "default") ELSE framed])

\* The app's own hook keeps the response, replaces it, or raises: then
\* _respond() returns its own error and no hook runs any more.
AppAfter(r) ==
  /\ AtAfter(r, "app")
  /\ \/ setup.custom \notin {"replace", "fail"} /\ Changes(r, response[r])
     \/ setup.custom = "replace" /\ Changes(r, WithType(200, "text", NoHeaders))
     \/ /\ setup.custom = "fail"
        /\ response' = [response EXCEPT ![r] = ServerError]
        /\ at' = [at EXCEPT ![r] = Len(AfterHooks) + 1]
        /\ UNCHANGED <<setup, pc, context, reply, used, answered, sent, logged>>

\* The headers as they go out: HEAD keeps the length its body would have.
RawHeaders(it, head) ==
  IF head /\ ~it.streamed /\ "Content-Length" \notin DOMAIN it.headers
  THEN SetHeader(it.headers, "Content-Length", Length(it)) ELSE it.headers

\* The access log's line, once the request is served
Logs(r) == logged' = [logged EXCEPT ![r] = CurrentRequestId(r)]

Send(r) ==
  /\ pc[r] = "after" /\ at[r] > Len(AfterHooks)
  /\ LET it == response[r]
         head == asked[r].method = "HEAD"
     IN sent' = [sent EXCEPT ![r] = [status |-> it.status, headers |-> RawHeaders(it, head),
                                     streamed |-> it.streamed, body |-> IF head THEN None ELSE Length(it)]]
  /\ Logs(r)
  /\ pc' = [pc EXCEPT ![r] = "done"]
  /\ UNCHANGED <<setup, at, context, reply, used, response, answered>>

Next ==
  \E r \in Request :
    \/ Preflight(r) \/ Assign(r) \/ Exempt(r) \/ Check(r) \/ Ask(r) \/ StoreDecides(r) \/ StoreAnswers(r)
    \/ AppBefore(r) \/ Dispatch(r)
    \/ CompressResponse(r) \/ AddCorsHeaders(r) \/ SendBack(r) \/ AddLimitHeaders(r)
    \/ AddSecurityHeaders(r) \/ AppAfter(r) \/ Send(r)

Spec == Init /\ [][Next]_vars

-----------------------------------------------------------------------------
(* Properties                                                              *)

\* The hook's after half worked on the response that went out: it is
\* declared, and no hook of the app's failed, or replaced the response
\* once it had run.
Worked(hook) ==
  /\ hook \in Range(setup.hooks)
  /\ "app" \in Range(setup.hooks) =>
       /\ setup.custom # "fail"
       /\ setup.custom = "replace" =>
            \A i, j \in DOMAIN setup.hooks : setup.hooks[i] = hook /\ setup.hooks[j] = "app" => i < j

\* The hook's before half ran: no hook declared before it had answered.
Reached(r, hook) ==
  \E i \in DOMAIN setup.hooks :
    /\ setup.hooks[i] = hook
    /\ \A j \in 1..(i - 1) : setup.hooks[j] # answered[r]

Over == {r \in Request : sent[r] # None}
Values(r, name) == GetAll(sent[r].headers, name)

\* A response and its line in the log carry the ID and the allowance of
\* their own request, however the requests interleave while the store is
\* asked, and only what that request was given: the ContextVars of
\* request_id() and rate_limit() never show another request's.
OwnContext ==
  \A r \in Over :
    /\ logged[r] = (IF Reached(r, "request_id") THEN IdOf(r) ELSE None)
    /\ Values(r, "X-Request-ID") = (IF Worked("request_id") /\ Reached(r, "request_id") THEN <<IdOf(r)>> ELSE <<>>)
    /\ Values(r, "RateLimit-Remaining")
         = (IF Worked("rate_limit") /\ reply[r] # None THEN <<reply[r].remaining>> ELSE <<>>)

\* Whoever answered, a hook, the route, an error or the limit, the response
\* has what the middlewares promise for every one.  To an allowed origin,
\* Access-Control-Allow-Origin, never "*" with credentials, and Vary where
\* the value is the origin itself; to no other origin.  The security headers
\* once each, a response's own kept, and HSTS over HTTPS only.  A preflight
\* never gets to a route (after_request: "every response, errors included").
EveryAnswer ==
  \A r \in Over :
    /\ Worked("cors") =>
         LET value == IF asked[r].origin = None THEN None ELSE AllowedOrigin(r)
         IN /\ Values(r, "Access-Control-Allow-Origin") = (IF value = None THEN <<>> ELSE <<value>>)
            /\ setup.credentials /\ value # None =>
                 value # "*" /\ Values(r, "Access-Control-Allow-Credentials") = <<"true">>
            /\ value \notin {None, "*"} => "Origin" \in Range(Values(r, "Vary"))
    /\ "cors" \in Range(setup.hooks) /\ IsPreflight(r) => answered[r] # "route"
    /\ Worked("security_headers") =>
         /\ Len(Values(r, "X-Frame-Options")) = 1
         /\ answered[r] = "route" /\ setup.route = "small" /\ setup.custom # "replace" =>
              Values(r, "X-Frame-Options") = <<"own">>
         /\ Values(r, "Strict-Transport-Security") = (IF asked[r].https THEN <<"default">> ELSE <<>>)

\* What goes out is what its headers say: Content-Encoding names the one
\* encoding on the body, which the client accepts unless the handler chose
\* it, and a Content-Length is that of the body as it is sent.
HonestBody ==
  \A r \in Over : sent[r].body # None =>
    /\ Values(r, "Content-Encoding") = sent[r].body[2]
    /\ Len(sent[r].body[2]) <= 1
    /\ \A e \in Range(sent[r].body[2]) : e # "own" => Quality(r, e) > 0
    /\ Values(r, "Content-Length") \in {<<>>, <<sent[r].body>>}

\* The length a client sees: Content-Length, which Rust gives a whole body
\* without one
SeenLength(r) ==
  IF Values(r, "Content-Length") # <<>> THEN Values(r, "Content-Length")
  ELSE IF sent[r].streamed \/ asked[r].method = "HEAD" THEN <<>> ELSE <<sent[r].body>>

Personal == {"X-Request-ID", "RateLimit-Remaining", "Content-Length"}

\* Two requests alike but for one thing, answered by the same part of the
\* app.  HEAD has the status, the headers and the length of GET.  If what
\* they accept makes the bodies differ, both responses say so in Vary: a
\* cache that has either never gives it to the other (compress()).
TwinAnswers ==
  \A r, q \in Over :
    answered[r] = answered[q] =>
      /\ asked[r].method = "GET" /\ asked[q] = [asked[r] EXCEPT !.method = "HEAD"] =>
           /\ sent[r].status = sent[q].status /\ sent[q].body = None
           /\ \A n \in (DOMAIN sent[r].headers \union DOMAIN sent[q].headers) \ Personal : Values(r, n) = Values(q, n)
           /\ SeenLength(r) = SeenLength(q)
      /\ asked[q] = [asked[r] EXCEPT !.accepts = asked[q].accepts] /\ sent[r].body # sent[q].body =>
           "Accept-Encoding" \in Range(Values(r, "Vary")) \intersect Range(Values(q, "Vary"))

\* The operation in the OpenAPI document keeps its word.  A request that is
\* what it asks for is not refused with a 422, unless two functions read a
\* field in different ways or a blank is refused (BlankRefused); one that is
\* not is never let through, unless it is a blank that counts as missing
\* (BlankForgiven); the 422 and 401 that are answered are announced; and no
\* request gets past a required security scheme, in whichever dependency it
\* is.
AsDocumented ==
  setup.route = "bound" =>
    \A r \in Over :
      LET plan == setup.plan
          status == sent[r].status
          allowed == \E schemes \in Security(plan) : schemes \subseteq asked[r].credentials
      IN /\ status \in {401, 422} => status \in Responses(plan)
         /\ status = 422 => ~Fits(plan, asked[r]) \/ ~Agree(plan) \/ BlankRefused(plan, asked[r])
         /\ status = 401 => ~allowed
         /\ status = 200 => Fits(plan, asked[r]) \/ BlankForgiven(plan, asked[r])
         /\ status = 200 => allowed \/ 401 \notin Responses(plan)
=============================================================================
