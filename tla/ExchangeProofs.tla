--------------------------- MODULE ExchangeProofs ---------------------------
(***************************************************************************)
(* For any number of requests, any hooks in any order and any allowance:   *)
(* a response carries the ID and the allowance of its own request, has     *)
(* what the middlewares promise whoever answered, and a body that is what  *)
(* its headers say.                                                        *)
(*                                                                         *)
(* The inductive invariant says what the before hooks that ran have left   *)
(* in the request's context (Carried, Agreed), of a response at any hook  *)
(* that its headers agree with each other (Sound), and which after hooks   *)
(* have worked on it (Applied, Marked).                                    *)
(*                                                                         *)
(* To compare two requests, a second invariant (TInv) gives each response  *)
(* its course: one function from the hooks that ran to the response after  *)
(* each.  The courses of two requests that are alike are alike, hook by    *)
(* hook (CoursesLike, CoursesNear).                                        *)
(***************************************************************************)
EXTENDS Exchange, WellFoundedInduction, TLAPS

ID == "X-Request-ID"
Limit == "RateLimit-Remaining"
Origin == "Access-Control-Allow-Origin"
Credentials == "Access-Control-Allow-Credentials"
Frame == "X-Frame-Options"
Transport == "Strict-Transport-Security"

\* What the ContextVars of a task may have
Context == [id : {None} \union ({"incoming", "new"} \X Request), decision : {None} \union Decision]

\* The types of the variables; of a response, Sound says more.
TypeOK ==
  /\ setup \in Setup
  /\ pc \in [Request -> {"before", "asking", "told", "after", "done"}]
  /\ at \in [Request -> 1..(Len(setup.hooks) + 1)]
  /\ context \in [Request -> Context]
  /\ reply \in [Request -> {None} \union Decision]
  /\ used \in 0..Allowance
  /\ answered \in [Request -> {None, "route"} \union Hook]
  /\ DOMAIN response = Request /\ DOMAIN sent = Request /\ DOMAIN logged = Request

\* A request whose before hooks are not over
Coming(r) == pc[r] \in {"before", "asking", "told"}

\* The context has the ID once request_id() ran, and a preflight does not pass
\* cors().
Carried(r) ==
  /\ Coming(r) =>
       /\ context[r].id = (IF \E i \in DOMAIN setup.hooks : i < at[r] /\ setup.hooks[i] = "request_id"
                           THEN IdOf(r) ELSE None)
       /\ IsPreflight(r) => \A i \in DOMAIN setup.hooks : i < at[r] => setup.hooks[i] # "cors"
  /\ ~Coming(r) =>
       /\ context[r].id = (IF Reached(r, "request_id") THEN IdOf(r) ELSE None)
       /\ IsPreflight(r) /\ "cors" \in Range(setup.hooks) => answered[r] # "route"

\* The context has the store's decision, but while its answer is on the way,
\* and rate_limit() asks once.
Agreed(r) ==
  /\ pc[r] \in {"asking", "told"} => at[r] \in DOMAIN setup.hooks /\ setup.hooks[at[r]] = "rate_limit"
  /\ IF pc[r] = "told" THEN reply[r] # None ELSE context[r].decision = reply[r]
  /\ pc[r] \in {"before", "asking"} /\ reply[r] # None =>
       \E i \in DOMAIN setup.hooks : i < at[r] /\ setup.hooks[i] = "rate_limit"

-----------------------------------------------------------------------------
(* Headers that agree with each other, and with the body.                  *)

IsResponse(it) ==
  it = [status |-> it.status, headers |-> it.headers, streamed |-> it.streamed, size |-> it.size, coded |-> it.coded]

\* Content-Encoding names the encoding on the body, if any, and a length is
\* that of the body.
BodySound(r, it) ==
  /\ GetAll(it.headers, "Content-Encoding") = it.coded
  /\ it.coded = <<>> \/ (it.coded = <<it.coded[1]>> /\ (it.coded[1] # "own" => Quality(r, it.coded[1]) > 0))
  /\ "Content-Length" \in DOMAIN it.headers => GetAll(it.headers, "Content-Length") = <<Length(it)>>

\* What is allowed to the origin of `r`, or None
ValueFor(r) == IF asked[r].origin = None THEN None ELSE AllowedOrigin(r)

\* An origin is allowed with all that goes with it.
OriginSound(r, headers) ==
  /\ Origin \in DOMAIN headers =>
       /\ ValueFor(r) # None /\ GetAll(headers, Origin) = <<ValueFor(r)>>
       /\ setup.credentials => GetAll(headers, Credentials) = <<"true">>
       /\ ValueFor(r) # "*" => "Origin" \in Range(GetAll(headers, "Vary"))
  /\ GetAll(headers, "Vary") \in Seq({"Origin", "Accept-Encoding"})

\* A security header is the response's own or the default, and HSTS is sent
\* over HTTPS only.
FrameSound(r, headers) ==
  /\ Frame \in DOMAIN headers => GetAll(headers, Frame) \in {<<"own">>, <<"default">>}
  /\ Transport \in DOMAIN headers => asked[r].https /\ GetAll(headers, Transport) = <<"default">>

Sound(r, it) ==
  IsResponse(it) /\ BodySound(r, it) /\ OriginSound(r, it.headers) /\ FrameSound(r, it.headers)

-----------------------------------------------------------------------------
(* Which after hooks have worked on a response.                            *)

\* An after hook of the app's failed.
Failed(r) == setup.custom = "fail" /\ \E j \in DOMAIN AfterHooks : j < at[r] /\ AfterHooks[j] = "app"

\* The after hook ran, and the response was not replaced since.
Applied(r, hook) ==
  /\ ~Failed(r)
  /\ \E i \in DOMAIN AfterHooks :
       /\ i < at[r] /\ AfterHooks[i] = hook
       /\ \A j \in DOMAIN AfterHooks : i < j /\ j < at[r] /\ AfterHooks[j] = "app" => setup.custom # "replace"

\* What each hook leaves on a response it has worked on, and on no other
MarkedBy(r, headers) ==
  /\ GetAll(headers, ID) =
       (IF Applied(r, "request_id") /\ context[r].id # None THEN <<context[r].id>> ELSE <<>>)
  /\ GetAll(headers, Limit) =
       (IF Applied(r, "rate_limit") /\ context[r].decision # None THEN <<context[r].decision.remaining>> ELSE <<>>)
  /\ Applied(r, "cors") /\ ValueFor(r) # None => Origin \in DOMAIN headers
  /\ Applied(r, "security_headers") => Frame \in DOMAIN headers /\ (asked[r].https => Transport \in DOMAIN headers)
  /\ answered[r] = "route" /\ setup.route = "small" /\ setup.custom # "replace" /\ ~Failed(r) =>
       GetAll(headers, Frame) = <<"own">>

Marked(r) ==
  ~Coming(r) =>
    /\ Sound(r, response[r]) /\ MarkedBy(r, response[r].headers)
    /\ Failed(r) => at[r] > Len(setup.hooks)

\* What goes out is the response, and the ID goes to the log.
SentAsIs(r) ==
  IF pc[r] # "done" THEN sent[r] = None
  ELSE LET head == asked[r].method = "HEAD"
       IN /\ at[r] > Len(setup.hooks)
          /\ logged[r] = context[r].id
          /\ sent[r].headers = RawHeaders(response[r], head)
          /\ sent[r].body = IF head THEN None ELSE Length(response[r])

IInv == TypeOK /\ \A r \in Request : Carried(r) /\ Agreed(r) /\ Marked(r) /\ SentAsIs(r)

-----------------------------------------------------------------------------
(* Headers                                                                 *)

\* The two have the same under this name.
Same(before, after, name) ==
  GetAll(after, name) = GetAll(before, name) /\ (name \in DOMAIN after <=> name \in DOMAIN before)

\* A header that is put has the values put, and no other header changes.
LEMMA PutDoes ==
  ASSUME NEW headers, NEW name, NEW values
  PROVE  /\ name \in DOMAIN PutHeader(headers, name, values)
         /\ GetAll(PutHeader(headers, name, values), name) = values
         /\ \A n : n # name => Same(headers, PutHeader(headers, name, values), n)
  BY DEF PutHeader, GetAll, Same

\* Headers.__setitem__ on a name leaves the other names alone.
LEMMA SetDoes ==
  ASSUME NEW headers, NEW name, NEW value
  PROVE  /\ name \in DOMAIN SetHeader(headers, name, value)
         /\ GetAll(SetHeader(headers, name, value), name) = <<value>>
         /\ \A n : n # name => Same(headers, SetHeader(headers, name, value), n)
  BY PutDoes DEF SetHeader

\* Headers.add() on a name leaves the other names alone.
LEMMA AddDoes ==
  ASSUME NEW headers, NEW name, NEW value
  PROVE  /\ GetAll(AddHeader(headers, name, value), name) = Append(GetAll(headers, name), value)
         /\ \A n : n # name => Same(headers, AddHeader(headers, name, value), n)
<1>1. PICK values : values = Append(GetAll(headers, name), value)
  OBVIOUS
<1>2. AddHeader(headers, name, value) = PutHeader(headers, name, values)
  BY <1>1 DEF AddHeader
<1>3. /\ GetAll(PutHeader(headers, name, values), name) = values
      /\ \A n : n # name => Same(headers, PutHeader(headers, name, values), n)
  BY PutDoes
<1> QED
  BY <1>1, <1>2, <1>3, Zenon

\* A header removed is gone, and the others stay.
LEMMA RemoveDoes ==
  ASSUME NEW headers, NEW name
  PROVE  /\ name \notin DOMAIN RemoveHeader(headers, name) /\ GetAll(RemoveHeader(headers, name), name) = <<>>
         /\ \A n : n # name => Same(headers, RemoveHeader(headers, name), n)
  BY DEF RemoveHeader, Restrict, GetAll, Same

\* A default is set only where there is no value.
LEMMA MissingDoes ==
  ASSUME NEW headers, NEW name, NEW value
  PROVE  /\ name \in DOMAIN SetMissing(headers, name, value)
         /\ IF name \in DOMAIN headers THEN SetMissing(headers, name, value) = headers
            ELSE GetAll(SetMissing(headers, name, value), name) = <<value>>
         /\ \A n : n # name => Same(headers, SetMissing(headers, name, value), n)
  BY SetDoes DEF SetMissing, Same

\* There is nothing in no headers.
LEMMA NothingThere == \A n : n \notin DOMAIN NoHeaders /\ GetAll(NoHeaders, n) = <<>>
  BY DEF NoHeaders, GetAll

\* One header is all there is in a new response's.
LEMMA OnlyDoes ==
  ASSUME NEW name, NEW value
  PROVE  /\ name \in DOMAIN Only(name, value) /\ GetAll(Only(name, value), name) = <<value>>
         /\ \A n : n # name => n \notin DOMAIN Only(name, value) /\ GetAll(Only(name, value), n) = <<>>
  BY SetDoes, NothingThere DEF Only, Same

\* A value added to Vary is in it, with the ones it had.
LEMMA VaryGrows ==
  ASSUME NEW s \in Seq({"Origin", "Accept-Encoding"}), NEW v \in {"Origin", "Accept-Encoding"}
  PROVE  /\ Append(s, v) \in Seq({"Origin", "Accept-Encoding"})
         /\ v \in Range(Append(s, v))
         /\ Range(s) \subseteq Range(Append(s, v))
<1> DEFINE t == Append(s, v)
<1>1. t \in Seq({"Origin", "Accept-Encoding"}) /\ Len(t) = Len(s) + 1 /\ t[Len(s) + 1] = v
         /\ \A i \in 1..Len(s) : t[i] = s[i]
  OBVIOUS
<1>2. DOMAIN s = 1..Len(s) /\ DOMAIN t = 1..(Len(s) + 1) /\ Len(s) \in Nat
  BY <1>1
<1> QED
  BY <1>1, <1>2 DEF Range

-----------------------------------------------------------------------------
(* Responses                                                               *)

BodyNames == {"Content-Encoding", "Content-Length"}
OriginNames == {Origin, Credentials, "Vary"}
FrameNames == {Frame, Transport}

\* Headers that are changed are all that changes of a response.
LEMMA HeadersChange ==
  ASSUME NEW it, IsResponse(it), NEW headers
  PROVE  LET other == [it EXCEPT !.headers = headers]
         IN IsResponse(other) /\ other.headers = headers /\ other.size = it.size /\ other.coded = it.coded
  BY DEF IsResponse

\* The body agrees with headers in which its own are the same.
LEMMA BodyFrame ==
  ASSUME NEW r, NEW it, IsResponse(it), BodySound(r, it),
         NEW headers, \A n \in BodyNames : Same(it.headers, headers, n)
  PROVE  BodySound(r, [it EXCEPT !.headers = headers])
<1> DEFINE other == [it EXCEPT !.headers = headers]
<1>1. other.headers = headers /\ other.coded = it.coded /\ Length(other) = Length(it)
  BY HeadersChange DEF Length
<1> HIDE DEF other
<1>2. BodySound(r, other)
  BY <1>1 DEF BodySound, BodyNames, Same
<1> QED
  BY <1>2 DEF other

\* So does an allowed origin.
LEMMA OriginFrame ==
  ASSUME NEW r, NEW before, NEW after, OriginSound(r, before), \A n \in OriginNames : Same(before, after, n)
  PROVE  OriginSound(r, after)
  BY DEF OriginSound, OriginNames, Same

\* So do the security headers.
LEMMA FrameFrame ==
  ASSUME NEW r, NEW before, NEW after, FrameSound(r, before), \A n \in FrameNames : Same(before, after, n)
  PROVE  FrameSound(r, after)
  BY DEF FrameSound, FrameNames, Same

\* A response with none of these headers, and no encoding
LEMMA PlainSound ==
  ASSUME NEW r, NEW it, IsResponse(it), it.coded = <<>>,
         \A n \in BodyNames \union OriginNames \union FrameNames :
           n \notin DOMAIN it.headers /\ GetAll(it.headers, n) = <<>>
  PROVE  Sound(r, it)
<1>1. BodySound(r, it)
  BY DEF BodySound, BodyNames
<1>2. OriginSound(r, it.headers)
  <2>1. GetAll(it.headers, "Vary") = <<>> /\ Origin \notin DOMAIN it.headers
    BY DEF OriginNames
  <2>2. <<>> \in Seq({"Origin", "Accept-Encoding"})
    OBVIOUS
  <2> QED
    BY <2>1, <2>2 DEF OriginSound
<1>3. FrameSound(r, it.headers)
  BY DEF FrameSound, FrameNames
<1> QED
  BY <1>1, <1>2, <1>3 DEF Sound

\* What Response() makes
LEMMA ResponseDoes ==
  ASSUME NEW status, NEW headers, NEW size
  PROVE  /\ IsResponse(Response(status, headers, size))
         /\ Response(status, headers, size).headers = headers
         /\ Response(status, headers, size).coded = <<>>
         /\ Response(status, headers, size).size = size
  BY DEF Response, IsResponse

\* What a response with a type has: the headers it was given.
LEMMA TypeDoes ==
  ASSUME NEW status, NEW type, NEW headers
  PROVE  /\ IsResponse(WithType(status, type, headers))
         /\ WithType(status, type, headers).coded = <<>>
         /\ \A n : n # "Content-Type" => Same(headers, WithType(status, type, headers).headers, n)
<1>1. CASE "Content-Type" \in DOMAIN headers
  BY <1>1, ResponseDoes DEF WithType, Same
<1>2. CASE "Content-Type" \notin DOMAIN headers
  BY <1>2, ResponseDoes, SetDoes DEF WithType
<1> QED
  BY <1>1, <1>2

\* The same, of one response and one name
LEMMA TypeKeeps ==
  ASSUME NEW status, NEW type, NEW headers, NEW it, it = WithType(status, type, headers), NEW n, n # "Content-Type"
  PROVE  Same(headers, it.headers, n)
<1>1. Same(headers, WithType(status, type, headers).headers, n)
  BY TypeDoes
<1> QED
  BY <1>1

\* A response no after hook has worked on
New(r, it) == Sound(r, it) /\ GetAll(it.headers, ID) = <<>> /\ GetAll(it.headers, Limit) = <<>>

\* A response with no headers but harmless ones is one.
LEMMA TypeNew ==
  ASSUME NEW r, NEW status, NEW type, NEW headers,
         \A n \in BodyNames \union OriginNames \union FrameNames \union {ID, Limit} :
           n \notin DOMAIN headers /\ GetAll(headers, n) = <<>>
  PROVE  New(r, WithType(status, type, headers))
<1> DEFINE it == WithType(status, type, headers)
<1>1. IsResponse(it) /\ it.coded = <<>> /\ \A n : n # "Content-Type" => Same(headers, it.headers, n)
  BY TypeDoes
<1> HIDE DEF it
<1>2. \A n \in BodyNames \union OriginNames \union FrameNames \union {ID, Limit} :
        n \notin DOMAIN it.headers /\ GetAll(it.headers, n) = <<>>
  BY <1>1 DEF Same, BodyNames, OriginNames, FrameNames, ID, Limit, Origin, Credentials, Frame, Transport
<1>3. Sound(r, it)
  BY <1>1, <1>2, PlainSound
<1> QED
  BY <1>2, <1>3 DEF New, it

\* An answer without headers of its own: an error, a refusal
LEMMA BareNew ==
  ASSUME NEW r, NEW status, NEW type
  PROVE  New(r, WithType(status, type, NoHeaders))
  BY TypeNew, NothingThere

\* An answer with one header that is none of the middlewares'
LEMMA OnlyNew ==
  ASSUME NEW r, NEW status, NEW type, NEW name \in {"Retry-After", "WWW-Authenticate"}, NEW value
  PROVE  New(r, WithType(status, type, Only(name, value)))
<1>1. \A n \in BodyNames \union OriginNames \union FrameNames \union {ID, Limit} :
        n \notin DOMAIN Only(name, value) /\ GetAll(Only(name, value), n) = <<>>
  BY OnlyDoes DEF BodyNames, OriginNames, FrameNames, ID, Limit, Origin, Credentials, Frame, Transport
<1> QED
  BY <1>1, TypeNew

-----------------------------------------------------------------------------
(* What cors() adds                                                        *)

\* The headers of common_headers(): the origin, with what goes with it
LEMMA CommonDoes ==
  ASSUME NEW headers, NEW value
  PROVE  LET common == CommonHeaders(headers, value)
         IN /\ Origin \in DOMAIN common /\ GetAll(common, Origin) = <<value>>
            /\ setup.credentials => GetAll(common, Credentials) = <<"true">>
            /\ GetAll(common, "Vary") =
                 (IF value # "*" THEN Append(GetAll(headers, "Vary"), "Origin") ELSE GetAll(headers, "Vary"))
            /\ \A n : n \notin OriginNames => Same(headers, common, n)
<1> DEFINE allowed == SetHeader(headers, Origin, value)
           varied == IF value # "*" THEN AddHeader(allowed, "Vary", "Origin") ELSE allowed
           common == IF setup.credentials THEN SetHeader(varied, Credentials, "true") ELSE varied
<1>1. Origin \in DOMAIN allowed /\ GetAll(allowed, Origin) = <<value>> /\ \A n : n # Origin => Same(headers, allowed, n)
  BY SetDoes
<1>2. common = CommonHeaders(headers, value)
  BY DEF CommonHeaders, Origin, Credentials
<1> HIDE DEF allowed
<1>3. /\ GetAll(varied, "Vary") = (IF value # "*" THEN Append(GetAll(allowed, "Vary"), "Origin") ELSE GetAll(allowed, "Vary"))
      /\ \A n : n # "Vary" => Same(allowed, varied, n)
  <2>1. CASE value # "*"
    BY <2>1, AddDoes
  <2>2. CASE value = "*"
    BY <2>2 DEF Same
  <2> QED
    BY <2>1, <2>2
<1> HIDE DEF varied
<1>4. /\ setup.credentials => GetAll(common, Credentials) = <<"true">>
      /\ \A n : n # Credentials => Same(varied, common, n)
  BY SetDoes DEF Same
<1> HIDE DEF common
<1>5. Origin # Credentials /\ Origin # "Vary" /\ Credentials # "Vary"
  BY DEF Origin, Credentials
<1>6. Same(headers, allowed, "Vary") /\ Same(varied, common, "Vary") /\ Same(allowed, varied, Origin) /\ Same(varied, common, Origin)
  BY <1>1, <1>3, <1>4, <1>5
<1>7. \A n : n \notin OriginNames => Same(headers, common, n)
  BY <1>1, <1>3, <1>4 DEF OriginNames, Same
<1>8. Origin \in DOMAIN common /\ GetAll(common, Origin) = <<value>>
  BY <1>1, <1>6 DEF Same
<1>9. GetAll(common, "Vary") = (IF value # "*" THEN Append(GetAll(headers, "Vary"), "Origin") ELSE GetAll(headers, "Vary"))
  BY <1>3, <1>6 DEF Same
<1> QED
  BY <1>2, <1>4, <1>7, <1>8, <1>9

\* They agree with each other.
LEMMA CommonSound ==
  ASSUME NEW r, NEW headers, GetAll(headers, "Vary") \in Seq({"Origin", "Accept-Encoding"}), ValueFor(r) # None
  PROVE  OriginSound(r, CommonHeaders(headers, ValueFor(r)))
<1> DEFINE common == CommonHeaders(headers, ValueFor(r))
<1>1. /\ Origin \in DOMAIN common /\ GetAll(common, Origin) = <<ValueFor(r)>>
      /\ setup.credentials => GetAll(common, Credentials) = <<"true">>
      /\ GetAll(common, "Vary") =
           (IF ValueFor(r) # "*" THEN Append(GetAll(headers, "Vary"), "Origin") ELSE GetAll(headers, "Vary"))
  BY CommonDoes
<1> HIDE DEF common
<1>2. GetAll(common, "Vary") \in Seq({"Origin", "Accept-Encoding"})
  BY <1>1, VaryGrows
<1>3. ValueFor(r) # "*" => "Origin" \in Range(GetAll(common, "Vary"))
  BY <1>1, VaryGrows
<1>4. OriginSound(r, common)
  BY <1>1, <1>2, <1>3 DEF OriginSound
<1> QED
  BY <1>4 DEF common

\* The answer to a preflight
LEMMA PreflightNew ==
  ASSUME NEW r, ValueFor(r) # None
  PROVE  New(r, Response(204, SetHeader(CommonHeaders(NoHeaders, ValueFor(r)),
                                        "Access-Control-Allow-Methods", "methods"), "nothing"))
<1> DEFINE common == CommonHeaders(NoHeaders, ValueFor(r))
           headers == SetHeader(common, "Access-Control-Allow-Methods", "methods")
           it == Response(204, headers, "nothing")
<1>1. OriginSound(r, common)
  <2>1. GetAll(NoHeaders, "Vary") \in Seq({"Origin", "Accept-Encoding"})
    <3>1. GetAll(NoHeaders, "Vary") = <<>>
      BY NothingThere
    <3>2. <<>> \in Seq({"Origin", "Accept-Encoding"})
      OBVIOUS
    <3> QED
      BY <3>1, <3>2
  <2> QED
    BY <2>1, CommonSound
<1>2. \A n : n \notin OriginNames => n \notin DOMAIN common /\ GetAll(common, n) = <<>>
  BY CommonDoes, NothingThere DEF Same
<1> HIDE DEF common
<1>3. \A n : n # "Access-Control-Allow-Methods" => Same(common, headers, n)
  BY SetDoes
<1> HIDE DEF headers
<1>4. IsResponse(it) /\ it.headers = headers /\ it.coded = <<>>
  BY ResponseDoes
<1> HIDE DEF it
<1>5. OriginSound(r, headers)
  BY <1>1, <1>3, OriginFrame DEF OriginNames, Origin, Credentials
<1>6. \A n \in BodyNames \union FrameNames \union {ID, Limit} : n \notin DOMAIN headers /\ GetAll(headers, n) = <<>>
  BY <1>2, <1>3 DEF Same, OriginNames, BodyNames, FrameNames, ID, Limit, Origin, Credentials, Frame, Transport
<1>7. BodySound(r, it)
  BY <1>4, <1>6 DEF BodySound, BodyNames
<1>8. FrameSound(r, headers)
  BY <1>6 DEF FrameSound, FrameNames
<1>9. New(r, it)
  BY <1>4, <1>5, <1>6, <1>7, <1>8 DEF New, Sound
<1> QED
  BY <1>9 DEF it, headers, common

-----------------------------------------------------------------------------
(* What the route gives                                                    *)

\* A response with a type only
IsPage(page) ==
  /\ IsResponse(page) /\ page.coded = <<>>
  /\ \A n : n # "Content-Type" => n \notin DOMAIN page.headers /\ GetAll(page.headers, n) = <<>>

\* One with one more header
More(page, name, value) == [page EXCEPT !.headers = SetHeader(page.headers, name, value)]

\* The page that a handler returns is one.
LEMMA PageDoes ==
  ASSUME NEW type, NEW streamed, NEW page,
         page = [Response(200, Only("Content-Type", type), "large") EXCEPT !.streamed = streamed]
  PROVE  IsPage(page)
<1>1. IsResponse(page) /\ page.coded = <<>> /\ page.headers = Only("Content-Type", type)
  BY DEF Response, IsResponse
<1> QED
  BY <1>1, OnlyDoes DEF IsPage

\* With one more header, it has no other.
LEMMA MoreDoes ==
  ASSUME NEW page, IsPage(page), NEW name, NEW value, NEW more, more = More(page, name, value)
  PROVE  /\ IsResponse(more) /\ more.coded = <<>> /\ more.size = page.size /\ GetAll(more.headers, name) = <<value>>
         /\ \A n : n \notin {"Content-Type", name} => n \notin DOMAIN more.headers /\ GetAll(more.headers, n) = <<>>
<1>1. /\ IsResponse(more) /\ more.coded = <<>> /\ more.size = page.size
      /\ more.headers = SetHeader(page.headers, name, value)
  BY HeadersChange DEF IsPage, More
<1>2. /\ GetAll(more.headers, name) = <<value>>
      /\ \A n : n # name => Same(page.headers, more.headers, n)
  BY <1>1, SetDoes
<1> QED
  BY <1>1, <1>2 DEF Same, IsPage

\* A response with an encoding or a length of its own, that are those of its
\* body
LEMMA OwnBodyNew ==
  ASSUME NEW r, NEW it, IsResponse(it), BodySound(r, it),
         \A n \in OriginNames \union FrameNames \union {ID, Limit} :
           n \notin DOMAIN it.headers /\ GetAll(it.headers, n) = <<>>
  PROVE  New(r, it)
<1>1. OriginSound(r, it.headers)
  <2>1. GetAll(it.headers, "Vary") = <<>> /\ Origin \notin DOMAIN it.headers
    BY DEF OriginNames
  <2>2. <<>> \in Seq({"Origin", "Accept-Encoding"})
    OBVIOUS
  <2> QED
    BY <2>1, <2>2 DEF OriginSound
<1>2. FrameSound(r, it.headers)
  BY DEF FrameSound, FrameNames
<1> QED
  BY <1>1, <1>2 DEF New, Sound

\* Whatever the handler returned or raised, its response agrees with itself.
LEMMA RoutedNew ==
  ASSUME NEW r, NEW kind \in {"page", "small", "picture", "fixed", "coded", "empty", "stream", "file", "error"}
  PROVE  New(r, Routed(kind)) /\ (kind = "small" => GetAll(Routed(kind).headers, Frame) = <<"own">>)
<1> USE DEF BodyNames, OriginNames, FrameNames, ID, Limit, Origin, Credentials, Frame, Transport
<1> PICK streamed : streamed = (kind \in {"stream", "file"})
  OBVIOUS
<1> DEFINE page == [Response(200, Only("Content-Type", "text"), "large") EXCEPT !.streamed = streamed]
<1>1. IsPage(page)
  BY PageDoes
<1>2. New(r, page)
  <2> HIDE DEF page
  <2>1. BodySound(r, page)
    BY <1>1 DEF BodySound, IsPage
  <2> QED
    BY <1>1, <2>1, OwnBodyNew DEF IsPage
<1>3. CASE kind \in {"page", "stream"}
  <2>1. Routed(kind) = page
    BY <1>3 DEF Routed
  <2> QED
    BY <1>2, <1>3, <2>1
<1>4. CASE kind = "small"
  <2> DEFINE it == WithType(200, "json", Only(Frame, "own"))
  <2>1. Routed(kind) = it
    BY <1>4 DEF Routed
  <2>2. IsResponse(it) /\ it.coded = <<>> /\ \A n : n # "Content-Type" => Same(Only(Frame, "own"), it.headers, n)
    <3> PICK own : own = Only(Frame, "own")
      OBVIOUS
    <3>1. it = WithType(200, "json", own)
      OBVIOUS
    <3> HIDE DEF it, BodyNames, OriginNames, FrameNames, ID, Limit, Origin, Credentials, Frame, Transport
    <3>2. IsResponse(it)
      BY <3>1, TypeDoes
    <3>3. it.coded = <<>>
      BY <3>1, TypeDoes
    <3>4. ASSUME NEW n, n # "Content-Type" PROVE Same(own, it.headers, n)
      BY <3>1, <3>4, TypeKeeps
    <3> QED
      BY <3>2, <3>3, <3>4
  <2> HIDE DEF it
  <2>3. /\ GetAll(it.headers, Frame) = <<"own">>
        /\ \A n : n \notin {"Content-Type", Frame} => n \notin DOMAIN it.headers /\ GetAll(it.headers, n) = <<>>
    BY <2>2, OnlyDoes DEF Same
  <2>4. BodySound(r, it)
    BY <2>2, <2>3 DEF BodySound
  <2>5. FrameSound(r, it.headers)
    BY <2>3 DEF FrameSound
  <2>6. OriginSound(r, it.headers)
    <3>1. GetAll(it.headers, "Vary") = <<>> /\ Origin \notin DOMAIN it.headers
      BY <2>3
    <3>2. <<>> \in Seq({"Origin", "Accept-Encoding"})
      OBVIOUS
    <3> QED
      BY <3>1, <3>2 DEF OriginSound
  <2>7. GetAll(it.headers, ID) = <<>> /\ GetAll(it.headers, Limit) = <<>>
    BY <2>3
  <2> QED
    BY <2>1, <2>2, <2>3, <2>4, <2>5, <2>6, <2>7 DEF New, Sound
<1>5. CASE kind = "picture"
  <2> DEFINE it == [page EXCEPT !.headers = Only("Content-Type", "image")]
  <2>1. Routed(kind) = it
    BY <1>5 DEF Routed, More
  <2> HIDE DEF page
  <2>2. IsResponse(it) /\ it.coded = <<>> /\ it.headers = Only("Content-Type", "image")
    BY <1>1, HeadersChange DEF IsPage
  <2> HIDE DEF it
  <2>3. \A n : n # "Content-Type" => n \notin DOMAIN it.headers /\ GetAll(it.headers, n) = <<>>
    BY <2>2, OnlyDoes
  <2>4. BodySound(r, it)
    BY <2>2, <2>3 DEF BodySound
  <2> QED
    BY <1>5, <2>1, <2>2, <2>3, <2>4, OwnBodyNew
<1>6. CASE kind = "fixed"
  <2> DEFINE it == More(page, "Cache-Control", "no-transform")
  <2>1. Routed(kind) = it
    BY <1>6 DEF Routed, More
  <2> HIDE DEF page
  <2>2. IsResponse(it) /\ it.coded = <<>>
           /\ \A n : n \notin {"Content-Type", "Cache-Control"} => n \notin DOMAIN it.headers /\ GetAll(it.headers, n) = <<>>
    BY <1>1, MoreDoes
  <2> HIDE DEF it
  <2>3. BodySound(r, it)
    BY <2>2 DEF BodySound
  <2> QED
    BY <1>6, <2>1, <2>2, <2>3, OwnBodyNew
<1>7. CASE kind = "coded"
  <2> DEFINE plain == More(page, "Content-Encoding", "own")
             it == [plain EXCEPT !.coded = <<"own">>]
  <2>1. Routed(kind) = it
    BY <1>1, <1>7 DEF Routed, IsResponse, IsPage, More
  <2> HIDE DEF page
  <2>2. /\ IsResponse(plain) /\ GetAll(plain.headers, "Content-Encoding") = <<"own">>
        /\ \A n : n \notin {"Content-Type", "Content-Encoding"} =>
             n \notin DOMAIN plain.headers /\ GetAll(plain.headers, n) = <<>>
    BY <1>1, MoreDoes
  <2> HIDE DEF plain
  <2>3. IsResponse(it) /\ it.headers = plain.headers /\ it.coded = <<"own">>
    BY <2>2 DEF IsResponse
  <2> HIDE DEF it
  <2>4. BodySound(r, it)
    BY <2>2, <2>3 DEF BodySound
  <2> QED
    BY <1>7, <2>1, <2>2, <2>3, <2>4, OwnBodyNew
<1>8. CASE kind = "empty"
  <2> DEFINE it == Response(204, NoHeaders, "nothing")
  <2>1. Routed(kind) = it
    BY <1>8 DEF Routed
  <2>2. IsResponse(it) /\ it.coded = <<>> /\ it.headers = NoHeaders
    BY ResponseDoes
  <2> HIDE DEF it
  <2>3. BodySound(r, it)
    BY <2>2, NothingThere DEF BodySound
  <2> QED
    BY <1>8, <2>1, <2>2, <2>3, OwnBodyNew, NothingThere
<1>9. CASE kind = "file"
  <2> DEFINE it == More(page, "Content-Length", Length(page))
  <2>1. Routed(kind) = it
    BY <1>9 DEF Routed, More
  <2> HIDE DEF page
  <2>2. /\ IsResponse(it) /\ it.coded = <<>> /\ it.size = page.size /\ GetAll(it.headers, "Content-Length") = <<Length(page)>>
        /\ \A n : n \notin {"Content-Type", "Content-Length"} => n \notin DOMAIN it.headers /\ GetAll(it.headers, n) = <<>>
    BY <1>1, MoreDoes
  <2> HIDE DEF it
  <2>3. Length(it) = Length(page)
    BY <1>1, <2>2 DEF Length, IsPage
  <2>4. BodySound(r, it)
    BY <2>2, <2>3 DEF BodySound
  <2> QED
    BY <1>9, <2>1, <2>2, <2>4, OwnBodyNew
<1>10. CASE kind = "error"
  <2>1. Routed(kind) = WithType(500, "json", NoHeaders)
    BY <1>10 DEF Routed, ServerError
  <2> QED
    BY <1>10, <2>1, BareNew
<1> QED
  BY <1>3, <1>4, <1>5, <1>6, <1>7, <1>8, <1>9, <1>10

\* So does that of a handler with annotations.
LEMMA BoundNew ==
  ASSUME NEW r, NEW plan, NEW request
  PROVE  New(r, Bound(plan, request))
<1> PICK status :
      status = Outcome(plan, [fields |-> request.fields, body |-> request.body, credentials |-> request.credentials])
  OBVIOUS
<1>1. CASE status = 401
  BY <1>1, OnlyNew DEF Bound
<1>2. CASE status # 401
  BY <1>2, BareNew DEF Bound
<1> QED
  BY <1>1, <1>2

-----------------------------------------------------------------------------
(* What the after hooks do                                                 *)

\* Vary gets Accept-Encoding, and nothing else of the response changes.
LEMMA VariedDoes ==
  ASSUME NEW r, NEW it, Sound(r, it)
  PROVE  Sound(r, Varied(it)) /\ \A n : n # "Vary" => Same(it.headers, Varied(it).headers, n)
<1>1. CASE "Accept-Encoding" \in Range(GetAll(it.headers, "Vary"))
  BY <1>1 DEF Varied, Same
<1>2. CASE "Accept-Encoding" \notin Range(GetAll(it.headers, "Vary"))
  <2> DEFINE headers == AddHeader(it.headers, "Vary", "Accept-Encoding")
             other == [it EXCEPT !.headers = headers]
  <2>1. Varied(it) = other
    BY <1>2 DEF Varied
  <2>2. /\ GetAll(headers, "Vary") = Append(GetAll(it.headers, "Vary"), "Accept-Encoding")
        /\ \A n : n # "Vary" => Same(it.headers, headers, n)
    BY AddDoes
  <2> HIDE DEF headers
  <2>3. IsResponse(other) /\ other.headers = headers
    BY HeadersChange DEF Sound
  <2>4. BodySound(r, other)
    BY <2>2, BodyFrame DEF Sound, BodyNames
  <2> HIDE DEF other
  <2>5. FrameSound(r, headers)
    BY <2>2, FrameFrame DEF Sound, FrameNames, Frame, Transport
  <2>6. OriginSound(r, headers)
    <3> DEFINE vary == GetAll(it.headers, "Vary")
    <3>1. vary \in Seq({"Origin", "Accept-Encoding"})
      BY DEF Sound, OriginSound
    <3>2. GetAll(headers, "Vary") \in Seq({"Origin", "Accept-Encoding"}) /\ Range(vary) \subseteq Range(GetAll(headers, "Vary"))
      BY <2>2, <3>1, VaryGrows
    <3>3. Same(it.headers, headers, Origin) /\ Same(it.headers, headers, Credentials)
      BY <2>2 DEF Origin, Credentials
    <3> QED
      BY <3>2, <3>3 DEF Sound, OriginSound, Same
  <2> QED
    BY <2>1, <2>2, <2>3, <2>4, <2>5, <2>6 DEF Sound
<1> QED
  BY <1>1, <1>2

\* The body gets one encoding, which Content-Encoding names, and its length
\* is not known any more.
LEMMA EncodedDoes ==
  ASSUME NEW r, NEW it, Sound(r, it), "Content-Encoding" \notin DOMAIN it.headers, NEW e, Quality(r, e) > 0
  PROVE  Sound(r, Encoded(it, e)) /\ \A n : n \notin BodyNames => Same(it.headers, Encoded(it, e).headers, n)
<1> DEFINE named == SetHeader(it.headers, "Content-Encoding", e)
           headers == RemoveHeader(named, "Content-Length")
           other == Encoded(it, e)
<1>1. it.coded = <<>>
  BY DEF Sound, BodySound, GetAll
<1>2. IsResponse(other) /\ other.headers = headers /\ other.coded = Append(it.coded, e)
  <2>1. IsResponse(it)
    BY DEF Sound
  <2>2. other = [it EXCEPT !.headers = headers, !.coded = Append(it.coded, e)]
    BY DEF Encoded
  <2> HIDE DEF other, headers
  <2>3. PICK coded : coded = Append(it.coded, e)
    OBVIOUS
  <2> QED
    BY <2>1, <2>2, <2>3 DEF IsResponse
<1>3. other.coded = <<e>>
  BY <1>1, <1>2
<1>4. GetAll(named, "Content-Encoding") = <<e>> /\ \A n : n # "Content-Encoding" => Same(it.headers, named, n)
  BY SetDoes
<1> HIDE DEF named
<1>5. "Content-Length" \notin DOMAIN headers /\ \A n : n # "Content-Length" => Same(named, headers, n)
  BY RemoveDoes
<1> HIDE DEF headers, other
<1>6. \A n : n \notin BodyNames => Same(it.headers, headers, n)
  BY <1>4, <1>5 DEF BodyNames, Same
<1>7. GetAll(headers, "Content-Encoding") = <<e>>
  BY <1>4, <1>5 DEF Same
<1>8. BodySound(r, other)
  BY <1>2, <1>3, <1>5, <1>7 DEF BodySound
<1>9. OriginSound(r, headers)
  BY <1>6, OriginFrame DEF Sound, OriginNames, BodyNames, Origin, Credentials
<1>10. FrameSound(r, headers)
  BY <1>6, FrameFrame DEF Sound, FrameNames, BodyNames, Frame, Transport
<1> QED
  BY <1>2, <1>6, <1>8, <1>9, <1>10 DEF Sound, other

\* The ID or the allowance changes nothing else.
LEMMA MarkDoes ==
  ASSUME NEW r, NEW it, Sound(r, it), NEW name \in {ID, Limit}, NEW value
  PROVE  LET other == [it EXCEPT !.headers = SetHeader(it.headers, name, value)]
         IN /\ Sound(r, other) /\ GetAll(other.headers, name) = <<value>>
            /\ \A n : n # name => Same(it.headers, other.headers, n)
<1> DEFINE headers == SetHeader(it.headers, name, value)
           other == [it EXCEPT !.headers = headers]
<1>1. GetAll(headers, name) = <<value>> /\ \A n : n # name => Same(it.headers, headers, n)
  BY SetDoes
<1> HIDE DEF headers
<1>2. IsResponse(other) /\ other.headers = headers
  BY HeadersChange DEF Sound
<1>3. name \notin BodyNames \union OriginNames \union FrameNames
  BY DEF BodyNames, OriginNames, FrameNames, ID, Limit, Origin, Credentials, Frame, Transport
<1>4. BodySound(r, other)
  BY <1>1, <1>3, BodyFrame DEF Sound
<1> HIDE DEF other
<1>5. OriginSound(r, headers) /\ FrameSound(r, headers)
  BY <1>1, <1>3, OriginFrame, FrameFrame DEF Sound
<1>6. Sound(r, other)
  BY <1>2, <1>4, <1>5 DEF Sound
<1> QED
  BY <1>1, <1>2, <1>6 DEF other, headers

\* So do the headers of cors().
LEMMA CorsDoes ==
  ASSUME NEW r, NEW it, Sound(r, it), ValueFor(r) # None
  PROVE  LET other == [it EXCEPT !.headers = CommonHeaders(it.headers, ValueFor(r))]
         IN /\ Sound(r, other) /\ Origin \in DOMAIN other.headers
            /\ \A n : n \notin OriginNames => Same(it.headers, other.headers, n)
<1> DEFINE headers == CommonHeaders(it.headers, ValueFor(r))
           other == [it EXCEPT !.headers = headers]
<1>1. OriginSound(r, headers)
  BY CommonSound DEF Sound, OriginSound
<1>2. Origin \in DOMAIN headers /\ \A n : n \notin OriginNames => Same(it.headers, headers, n)
  BY CommonDoes
<1> HIDE DEF headers
<1>3. IsResponse(other) /\ other.headers = headers
  BY HeadersChange DEF Sound
<1>4. BodySound(r, other)
  BY <1>2, BodyFrame DEF Sound, BodyNames, OriginNames, Origin, Credentials
<1> HIDE DEF other
<1>5. FrameSound(r, headers)
  BY <1>2, FrameFrame DEF Sound, FrameNames, OriginNames, Origin, Credentials, Frame, Transport
<1>6. Sound(r, other)
  BY <1>1, <1>3, <1>4, <1>5 DEF Sound
<1> QED
  BY <1>2, <1>3, <1>6 DEF other, headers

\* The headers that security_headers() sets where they are missing
Hardened(r, headers) ==
  LET framed == SetMissing(headers, Frame, "default")
  IN IF asked[r].https THEN SetMissing(framed, Transport, "default") ELSE framed

\* They change no header that is there.
LEMMA SecureDoes ==
  ASSUME NEW r, NEW it, Sound(r, it)
  PROVE  LET other == [it EXCEPT !.headers = Hardened(r, it.headers)]
         IN /\ Sound(r, other) /\ Frame \in DOMAIN other.headers
            /\ asked[r].https => Transport \in DOMAIN other.headers
            /\ Frame \in DOMAIN it.headers => GetAll(other.headers, Frame) = GetAll(it.headers, Frame)
            /\ \A n : n \notin FrameNames => Same(it.headers, other.headers, n)
<1> DEFINE framed == SetMissing(it.headers, Frame, "default")
           headers == Hardened(r, it.headers)
           other == [it EXCEPT !.headers = headers]
<1>1. /\ Frame \in DOMAIN framed /\ \A n : n # Frame => Same(it.headers, framed, n)
      /\ IF Frame \in DOMAIN it.headers THEN framed = it.headers ELSE GetAll(framed, Frame) = <<"default">>
  BY MissingDoes
<1>2. headers = IF asked[r].https THEN SetMissing(framed, Transport, "default") ELSE framed
  BY DEF Hardened
<1> HIDE DEF framed, headers
<1>3. Frame # Transport
  BY DEF Frame, Transport
<1>4. /\ asked[r].https => Transport \in DOMAIN headers
      /\ \A n : n # Transport => Same(framed, headers, n)
      /\ ~asked[r].https \/ Transport \in DOMAIN framed => headers = framed
      /\ asked[r].https /\ Transport \notin DOMAIN framed => GetAll(headers, Transport) = <<"default">>
  <2>1. CASE asked[r].https
    BY <1>2, <2>1, MissingDoes DEF Same
  <2>2. CASE ~asked[r].https
    BY <1>2, <2>2 DEF Same
  <2> QED
    BY <2>1, <2>2
<1>5. \A n : n \notin FrameNames => Same(it.headers, headers, n)
  BY <1>1, <1>4 DEF FrameNames, Same
<1>6. IsResponse(other) /\ other.headers = headers
  BY HeadersChange DEF Sound
<1>7. BodySound(r, other)
  BY <1>5, BodyFrame DEF Sound, BodyNames, FrameNames, Frame, Transport
<1> HIDE DEF other
<1>8. OriginSound(r, headers)
  BY <1>5, OriginFrame DEF Sound, FrameNames, OriginNames, Origin, Credentials, Frame, Transport
<1>9. Same(framed, headers, Frame) /\ Same(it.headers, framed, Transport)
  BY <1>1, <1>3, <1>4
<1>10. FrameSound(r, headers)
  <2>1. FrameSound(r, it.headers)
    BY DEF Sound
  <2>2. GetAll(headers, Frame) \in {<<"own">>, <<"default">>}
    BY <1>1, <1>9, <2>1 DEF FrameSound, Same
  <2>3. ASSUME Transport \in DOMAIN headers
        PROVE  asked[r].https /\ GetAll(headers, Transport) = <<"default">>
    <3>1. CASE Transport \in DOMAIN it.headers
      BY <1>4, <1>9, <2>1, <3>1 DEF FrameSound, Same
    <3>2. CASE Transport \notin DOMAIN it.headers
      BY <1>4, <1>9, <2>3, <3>2 DEF Same
    <3> QED
      BY <3>1, <3>2
  <2> QED
    BY <2>2, <2>3 DEF FrameSound
<1>11. Frame \in DOMAIN headers /\ (Frame \in DOMAIN it.headers => GetAll(headers, Frame) = GetAll(it.headers, Frame))
  BY <1>1, <1>9 DEF Same
<1>12. Sound(r, other)
  BY <1>6, <1>7, <1>8, <1>10 DEF Sound
<1> QED
  BY <1>4, <1>5, <1>6, <1>11, <1>12 DEF other, headers

-----------------------------------------------------------------------------
(* Places in the two lists of hooks                                        *)

\* A set of numbers has its least in it.
LEMMA LeastOf ==
  ASSUME NEW S, S \subseteq Nat, S # {}
  PROVE  Min(S) \in S /\ \A y \in S : Min(S) <= y
<1>1. PICK x \in S : \A y \in S : ~(<<y, x>> \in OpToRel(<, Nat))
  BY WFMin, NatLessThanWellFounded
<1>2. \A y \in S : x <= y
  <2> SUFFICES ASSUME NEW y \in S, y < x
               PROVE  FALSE
    OBVIOUS
  <2>1. <<y, x>> \in OpToRel(<, Nat)
    BY DEF OpToRel
  <2> QED
    BY <1>1, <2>1
<1> QED
  BY <1>2 DEF Min

\* What is known of the hooks of an app
LEMMA HooksFacts ==
  ASSUME setup \in Setup
  PROVE  /\ setup.hooks \in Seq(Hook) /\ Len(setup.hooks) \in Nat /\ DOMAIN setup.hooks = 1..Len(setup.hooks)
         /\ \A i \in 1..Len(setup.hooks) : setup.hooks[i] \in Hook
         /\ \A i, j \in 1..Len(setup.hooks) : setup.hooks[i] = setup.hooks[j] => i = j
         /\ AfterHooks = [i \in 1..Len(setup.hooks) |-> setup.hooks[(Len(setup.hooks) - i) + 1]]
         /\ DOMAIN AfterHooks = 1..Len(setup.hooks) /\ Len(AfterHooks) = Len(setup.hooks)
<1>1. setup.hooks \in Seq(Hook) /\ IsInjective(setup.hooks)
  BY ExchangeAssumption
<1>2. Len(setup.hooks) \in Nat /\ DOMAIN setup.hooks = 1..Len(setup.hooks)
        /\ \A i \in 1..Len(setup.hooks) : setup.hooks[i] \in Hook
  BY <1>1
<1>3. AfterHooks = [i \in 1..Len(setup.hooks) |-> setup.hooks[(Len(setup.hooks) - i) + 1]]
  BY DEF AfterHooks, Reverse
<1>4. DOMAIN AfterHooks = 1..Len(setup.hooks) /\ Len(AfterHooks) = Len(setup.hooks)
  <2>1. \A i \in 1..Len(setup.hooks) : (Len(setup.hooks) - i) + 1 \in 1..Len(setup.hooks)
    BY <1>2
  <2>2. AfterHooks \in Seq(Hook)
    BY <1>2, <1>3, <2>1
  <2> QED
    BY <1>2, <1>3, <2>2
<1> QED
  BY <1>1, <1>2, <1>3, <1>4 DEF IsInjective

\* The next before hook is further on, and the hooks passed over have none.
LEMMA NextDoes ==
  ASSUME setup \in Setup, NEW i \in 1..(Len(setup.hooks) + 1)
  PROVE  /\ NextBefore(i) \in i..(Len(setup.hooks) + 1)
         /\ \A j \in i..(NextBefore(i) - 1) : ~HasBefore(setup.hooks[j])
<1> DEFINE S == {j \in i..Len(setup.hooks) : HasBefore(setup.hooks[j])} \union {Len(setup.hooks) + 1}
<1>1. Len(setup.hooks) \in Nat
  BY HooksFacts
<1>2. S \subseteq Nat /\ S # {} /\ S \subseteq i..(Len(setup.hooks) + 1)
  BY <1>1
<1>3. NextBefore(i) = Min(S)
  BY DEF NextBefore
<1>4. NextBefore(i) \in S /\ \A j \in S : NextBefore(i) <= j
  BY <1>2, <1>3, LeastOf
<1> QED
  BY <1>1, <1>2, <1>4

-----------------------------------------------------------------------------
(* The other requests                                                      *)

\* Nothing of the request changed.
Still(q) ==
  /\ pc'[q] = pc[q] /\ at'[q] = at[q] /\ context'[q] = context[q] /\ reply'[q] = reply[q]
  /\ response'[q] = response[q] /\ answered'[q] = answered[q] /\ sent'[q] = sent[q] /\ logged'[q] = logged[q]

\* Whether headers agree depends on the setup only.
LEMMA SoundPrimed ==
  ASSUME NEW r, UNCHANGED setup
  PROVE  Sound(r, response[r])' <=> Sound(r, response'[r])
<1>1. ValueFor(r)' = ValueFor(r)
  BY DEF ValueFor, AllowedOrigin, asked
<1>2. \A e : Quality(r, e)' = Quality(r, e)
  BY DEF Quality, asked
<1>3. BodySound(r, response[r])' <=> BodySound(r, response'[r])
  BY <1>2 DEF BodySound, Length
<1>4. OriginSound(r, response[r].headers)' <=> OriginSound(r, response'[r].headers)
  BY <1>1 DEF OriginSound
<1>5. FrameSound(r, response[r].headers)' <=> FrameSound(r, response'[r].headers)
  BY DEF FrameSound, asked
<1> QED
  BY <1>3, <1>4, <1>5 DEF Sound, IsResponse

\* What is true of a request stays true while another's task runs.
LEMMA StillKeeps ==
  ASSUME NEW q, UNCHANGED setup, Still(q), Carried(q), Agreed(q), Marked(q), SentAsIs(q)
  PROVE  Carried(q)' /\ Agreed(q)' /\ Marked(q)' /\ SentAsIs(q)'
<1> USE DEF Still
<1>1. Coming(q)' <=> Coming(q)
  BY DEF Coming
<1>2. Carried(q)'
  <2>1. IdOf(q)' = IdOf(q) /\ (IsPreflight(q)' <=> IsPreflight(q))
    BY DEF IdOf, IsPreflight, asked
  <2>2. Reached(q, "request_id")' <=> Reached(q, "request_id")
    BY DEF Reached
  <2> QED
    BY <1>1, <2>1, <2>2 DEF Carried
<1>3. Agreed(q)'
  BY DEF Agreed
<1>4. Marked(q)'
  <2>1. Failed(q)' <=> Failed(q)
    BY DEF Failed, AfterHooks
  <2>2. \A hook : Applied(q, hook)' <=> Applied(q, hook)
    BY <2>1 DEF Applied, AfterHooks
  <2>3. ValueFor(q)' = ValueFor(q)
    BY DEF ValueFor, AllowedOrigin, asked
  <2>4. MarkedBy(q, response[q].headers) => MarkedBy(q, response[q].headers)'
    BY <2>1, <2>2, <2>3 DEF MarkedBy, asked
  <2> QED
    BY <1>1, <2>1, <2>4, SoundPrimed DEF Marked
<1>5. SentAsIs(q)'
  BY DEF SentAsIs, asked, RawHeaders, Length
<1> QED
  BY <1>2, <1>3, <1>4, <1>5

-----------------------------------------------------------------------------
(* The steps of a request                                                  *)

\* A before hook that passes leaves the ID if it is request_id()'s.
LEMMA PassKeeps ==
  ASSUME TypeOK, NEW r \in Request, UNCHANGED setup, Coming(r), Carried(r),
         at[r] \in DOMAIN setup.hooks, pc'[r] = "before", at'[r] = NextBefore(at[r] + 1),
         context'[r].id = (IF setup.hooks[at[r]] = "request_id" THEN IdOf(r) ELSE context[r].id),
         setup.hooks[at[r]] = "cors" => ~IsPreflight(r)
  PROVE  Carried(r)'
<1> DEFINE n == Len(setup.hooks)
<1>1. n \in Nat /\ DOMAIN setup.hooks = 1..n /\ at[r] \in 1..n
  BY HooksFacts DEF TypeOK
<1>2. /\ at'[r] \in (at[r] + 1)..(n + 1)
      /\ \A j \in (at[r] + 1)..(at'[r] - 1) : ~HasBefore(setup.hooks[j])
  <2>1. setup \in Setup /\ at[r] + 1 \in 1..(Len(setup.hooks) + 1)
    BY <1>1 DEF TypeOK
  <2> QED
    BY <2>1, NextDoes
<1>3. Coming(r)' /\ IdOf(r)' = IdOf(r) /\ (IsPreflight(r)' <=> IsPreflight(r))
  BY DEF Coming, IdOf, IsPreflight, asked
<1>4. \A i \in 1..n : i < at'[r] /\ setup.hooks[i] \in {"request_id", "cors"} => i < at[r] \/ i = at[r]
  BY <1>1, <1>2 DEF HasBefore
<1>5. (\E i \in 1..n : i < at'[r] /\ setup.hooks[i] = "request_id")
        <=> setup.hooks[at[r]] = "request_id" \/ \E i \in 1..n : i < at[r] /\ setup.hooks[i] = "request_id"
  <2>1. ASSUME NEW i \in 1..n, i < at'[r], setup.hooks[i] = "request_id"
        PROVE  setup.hooks[at[r]] = "request_id" \/ \E k \in 1..n : k < at[r] /\ setup.hooks[k] = "request_id"
    BY <1>4, <2>1
  <2>2. at[r] < at'[r] /\ \A i \in 1..n : i < at[r] => i < at'[r]
    BY <1>1, <1>2
  <2> QED
    BY <1>1, <2>1, <2>2
<1>6. context'[r].id = (IF \E i \in 1..n : i < at'[r] /\ setup.hooks[i] = "request_id" THEN IdOf(r) ELSE None)
  BY <1>1, <1>5 DEF Carried
<1>7. IsPreflight(r) => \A i \in 1..n : i < at'[r] => setup.hooks[i] # "cors"
  BY <1>1, <1>4 DEF Carried
<1> QED
  BY <1>1, <1>3, <1>6, <1>7 DEF Carried

\* With an answer, the before hooks that ran are those declared before the
\* one that gave it.
LEMMA AnswerCarries ==
  ASSUME TypeOK, NEW r \in Request, UNCHANGED setup, Coming(r), Carried(r),
         pc'[r] = "after", context'[r].id = context[r].id,
         \/ at[r] \in DOMAIN setup.hooks /\ answered'[r] = setup.hooks[at[r]] /\ answered'[r] # "request_id"
         \/ at[r] > Len(setup.hooks) /\ answered'[r] = "route"
  PROVE  Carried(r)'
<1> DEFINE n == Len(setup.hooks)
<1>1. /\ n \in Nat /\ DOMAIN setup.hooks = 1..n /\ at[r] \in 1..(n + 1)
      /\ \A i \in 1..n : setup.hooks[i] \in Hook
      /\ \A i, j \in 1..n : setup.hooks[i] = setup.hooks[j] => i = j
  BY HooksFacts DEF TypeOK
<1>2. ~Coming(r)' /\ IdOf(r)' = IdOf(r) /\ (IsPreflight(r)' <=> IsPreflight(r))
  BY DEF Coming, IdOf, IsPreflight, asked
<1>3. \A i \in 1..n : setup.hooks[i] # "route"
  BY <1>1 DEF Hook
<1>4. Reached(r, "request_id")' <=> \E i \in 1..n : i < at[r] /\ setup.hooks[i] = "request_id"
  <2>1. Reached(r, "request_id")'
          <=> \E i \in 1..n : setup.hooks[i] = "request_id" /\ \A j \in 1..(i - 1) : setup.hooks[j] # answered'[r]
    BY <1>1 DEF Reached
  <2>2. CASE at[r] > n /\ answered'[r] = "route"
    BY <1>1, <1>3, <2>1, <2>2
  <2>3. CASE at[r] \in 1..n /\ answered'[r] = setup.hooks[at[r]] /\ answered'[r] # "request_id"
    <3>1. ASSUME NEW i \in 1..n, setup.hooks[i] = "request_id"
          PROVE  i < at[r] <=> \A j \in 1..(i - 1) : setup.hooks[j] # answered'[r]
      BY <1>1, <2>3, <3>1
    <3> QED
      BY <2>1, <3>1
  <2> QED
    BY <1>1, <2>2, <2>3
<1>5. context'[r].id = (IF Reached(r, "request_id")' THEN IdOf(r) ELSE None)
  BY <1>1, <1>4 DEF Carried
<1>6. ASSUME IsPreflight(r), "cors" \in Range(setup.hooks), answered'[r] = "route"
      PROVE  FALSE
  <2>1. at[r] > n
    BY <1>1, <1>3, <1>6
  <2>2. PICK i \in 1..n : setup.hooks[i] = "cors"
    BY <1>1, <1>6 DEF Range
  <2> QED
    BY <1>1, <1>6, <2>1, <2>2 DEF Carried
<1> QED
  BY <1>2, <1>5, <1>6 DEF Carried

\* A new response has no hook's marks.
LEMMA AnswerMarks ==
  ASSUME TypeOK, NEW r \in Request, UNCHANGED setup,
         at'[r] = 1, New(r, response'[r]),
         answered'[r] = "route" /\ setup.route = "small" => GetAll(response'[r].headers, Frame) = <<"own">>
  PROVE  Marked(r)'
<1>1. DOMAIN AfterHooks' = 1..Len(setup.hooks) /\ Len(setup.hooks) \in Nat
  BY HooksFacts DEF AfterHooks, TypeOK
<1>2. ~Failed(r)'
  BY <1>1 DEF Failed
<1>3. \A hook : ~Applied(r, hook)'
  BY <1>1 DEF Applied
<1>4. MarkedBy(r, response[r].headers)'
  BY <1>2, <1>3 DEF MarkedBy, New
<1> QED
  BY <1>2, <1>4, SoundPrimed DEF Marked, New

\* A before hook, or the route, answers.
LEMMA AnswerKeeps ==
  ASSUME TypeOK, NEW r \in Request, UNCHANGED setup, Coming(r), Carried(r), SentAsIs(r),
         context'[r].id = context[r].id, sent'[r] = sent[r], NEW who, NEW answer, Answers(r, who, answer),
         \/ at[r] \in DOMAIN setup.hooks /\ who = setup.hooks[at[r]] /\ who # "request_id"
         \/ at[r] > Len(setup.hooks) /\ who = "route",
         New(r, answer), who = "route" /\ setup.route = "small" => GetAll(answer.headers, Frame) = <<"own">>
  PROVE  Carried(r)' /\ Marked(r)' /\ SentAsIs(r)'
<1>1. response'[r] = answer /\ answered'[r] = who /\ at'[r] = 1 /\ pc'[r] = "after"
  BY DEF Answers, TypeOK
<1>2. Carried(r)'
  BY <1>1, AnswerCarries
<1>3. Marked(r)'
  BY <1>1, AnswerMarks
<1>4. SentAsIs(r)'
  BY <1>1 DEF SentAsIs, Coming
<1> QED
  BY <1>2, <1>3, <1>4

\* Once the hook at its place ran, it has worked on the response, and so have
\* the ones before it, unless the response was replaced.
LEMMA AppliedStep ==
  ASSUME TypeOK, NEW r \in Request, UNCHANGED setup,
         at[r] \in 1..Len(setup.hooks), at'[r] = at[r] + 1, ~Failed(r),
         AfterHooks[at[r]] = "app" => setup.custom # "fail"
  PROVE  /\ ~Failed(r)'
         /\ \A hook \in Hook \ {"app"} :
              Applied(r, hook)' <=> /\ Applied(r, hook) \/ AfterHooks[at[r]] = hook
                                    /\ AfterHooks[at[r]] = "app" => setup.custom # "replace"
<1> DEFINE n == Len(setup.hooks)
           p == at[r]
<1>1. n \in Nat /\ DOMAIN AfterHooks = 1..n /\ AfterHooks' = AfterHooks
  BY HooksFacts DEF TypeOK, AfterHooks
<1> PICK hooks : hooks = AfterHooks
  OBVIOUS
<1>2. ~Failed(r)'
  BY <1>1 DEF Failed
<1>3. ASSUME NEW hook \in Hook \ {"app"}
      PROVE  Applied(r, hook)' <=> /\ Applied(r, hook) \/ hooks[p] = hook
                                   /\ hooks[p] = "app" => setup.custom # "replace"
  <2>1. Applied(r, hook) <=>
          \E i \in 1..n : /\ i < p /\ hooks[i] = hook
                          /\ \A j \in 1..n : i < j /\ j < p /\ hooks[j] = "app" => setup.custom # "replace"
    BY <1>1 DEF Applied
  <2>2. Applied(r, hook)' <=>
          \E i \in 1..n : /\ i < p + 1 /\ hooks[i] = hook
                          /\ \A j \in 1..n : i < j /\ j < p + 1 /\ hooks[j] = "app" => setup.custom # "replace"
    BY <1>1, <1>2 DEF Applied
  <2>3. \A i \in 1..n : (i < p + 1 <=> i < p \/ i = p)
    BY <1>1
  <2>4. hook # "app"
    OBVIOUS
  <2> QED
    BY <1>1, <2>1, <2>2, <2>3, <2>4
<1> QED
  BY <1>2, <1>3

\* The after hook of a middleware: the response has its mark now, and the
\* other marks as before.
LEMMA ChangeMarks ==
  ASSUME TypeOK, NEW r \in Request, UNCHANGED setup, pc[r] = "after", Marked(r),
         context'[r] = context[r], answered'[r] = answered[r], at'[r] = at[r] + 1,
         NEW hook \in Hook, AtAfter(r, hook), hook = "app" => setup.custom \notin {"replace", "fail"},
         Sound(r, response'[r]),
         NEW before, NEW after, before = response[r].headers, after = response'[r].headers,
         IF hook = "request_id" /\ context[r].id # None THEN GetAll(after, ID) = <<context[r].id>>
         ELSE GetAll(after, ID) = GetAll(before, ID),
         IF hook = "rate_limit" /\ context[r].decision # None THEN GetAll(after, Limit) = <<context[r].decision.remaining>>
         ELSE GetAll(after, Limit) = GetAll(before, Limit),
         Origin \in DOMAIN before \/ (hook = "cors" /\ ValueFor(r) # None) => Origin \in DOMAIN after,
         Frame \in DOMAIN before \/ hook = "security_headers" => Frame \in DOMAIN after,
         Transport \in DOMAIN before \/ (hook = "security_headers" /\ asked[r].https) => Transport \in DOMAIN after,
         GetAll(before, Frame) = <<"own">> => GetAll(after, Frame) = <<"own">>
  PROVE  Marked(r)'
<1>1. /\ Len(setup.hooks) \in Nat /\ DOMAIN AfterHooks = 1..Len(setup.hooks) /\ at[r] \in 1..Len(setup.hooks)
      /\ AfterHooks[at[r]] = hook
  BY HooksFacts DEF AtAfter, TypeOK
<1>2. ~Coming(r)
  BY DEF Coming
<1>3. ~Failed(r) /\ MarkedBy(r, before)
  BY <1>1, <1>2 DEF Marked
<1>4. ~Failed(r)' /\ \A h \in Hook \ {"app"} : Applied(r, h)' <=> Applied(r, h) \/ h = hook
  BY <1>1, <1>3, AppliedStep
<1>5. ValueFor(r)' = ValueFor(r) /\ asked' = asked
  BY DEF ValueFor, AllowedOrigin, asked
<1>6. \A h \in {"request_id", "rate_limit", "cors", "security_headers"} : Applied(r, h)' <=> Applied(r, h) \/ h = hook
  BY <1>4 DEF Hook
<1>7. GetAll(after, ID) = (IF Applied(r, "request_id")' /\ context[r].id # None THEN <<context[r].id>> ELSE <<>>)
  BY <1>3, <1>6 DEF MarkedBy
<1>8. GetAll(after, Limit) =
        (IF Applied(r, "rate_limit")' /\ context[r].decision # None THEN <<context[r].decision.remaining>> ELSE <<>>)
  BY <1>3, <1>6 DEF MarkedBy
<1>9. Applied(r, "cors")' /\ ValueFor(r) # None => Origin \in DOMAIN after
  BY <1>3, <1>6 DEF MarkedBy
<1>10. Applied(r, "security_headers")' => Frame \in DOMAIN after /\ (asked[r].https => Transport \in DOMAIN after)
  BY <1>3, <1>6 DEF MarkedBy
<1>11. answered[r] = "route" /\ setup.route = "small" /\ setup.custom # "replace" => GetAll(after, Frame) = <<"own">>
  BY <1>3 DEF MarkedBy
<1>12. MarkedBy(r, response[r].headers)'
  BY <1>5, <1>7, <1>8, <1>9, <1>10, <1>11 DEF MarkedBy
<1> QED
  BY <1>4, <1>12, SoundPrimed DEF Marked

-----------------------------------------------------------------------------
(* The invariant holds from the start on, and every step keeps it.         *)

\* It is enough to look at the request whose task takes the step.
LEMMA OneTask ==
  ASSUME IInv, UNCHANGED setup, NEW r \in Request, \A q \in Request \ {r} : Still(q),
         TypeOK', Carried(r)', Agreed(r)', Marked(r)', SentAsIs(r)'
  PROVE  IInv'
<1>1. ASSUME NEW q \in Request
      PROVE  Carried(q)' /\ Agreed(q)' /\ Marked(q)' /\ SentAsIs(q)'
  <2>1. CASE q = r
    BY <2>1
  <2>2. CASE q # r
    <3>1. Still(q) /\ Carried(q) /\ Agreed(q) /\ Marked(q) /\ SentAsIs(q)
      BY <2>2 DEF IInv
    <3> QED
      BY <3>1, StillKeeps
  <2> QED
    BY <2>1, <2>2
<1> QED
  BY <1>1 DEF IInv

\* What a hook that returns None does, in one lemma for all of them
LEMMA PassesKeeps ==
  ASSUME IInv, NEW r \in Request, UNCHANGED <<setup, sent, logged>>, Coming(r), Passes(r),
         at[r] \in DOMAIN setup.hooks,
         context' \in [Request -> Context],
         reply' \in [Request -> {None} \union Decision], used' \in 0..Allowance,
         \A q \in Request \ {r} : context'[q] = context[q] /\ reply'[q] = reply[q],
         context'[r].id = (IF setup.hooks[at[r]] = "request_id" THEN IdOf(r) ELSE context[r].id),
         context'[r].decision = reply'[r],
         setup.hooks[at[r]] # "rate_limit" => pc[r] = "before" /\ reply'[r] = reply[r],
         setup.hooks[at[r]] = "cors" => ~IsPreflight(r)
  PROVE  IInv'
<1>1. TypeOK /\ Carried(r) /\ SentAsIs(r)
  BY DEF IInv
<1>2. /\ pc'[r] = "before" /\ at'[r] = NextBefore(at[r] + 1)
      /\ \A q \in Request \ {r} : pc'[q] = pc[q] /\ at'[q] = at[q]
      /\ UNCHANGED <<response, answered>>
  BY <1>1 DEF Passes, TypeOK
<1>3. at'[r] \in 1..(Len(setup.hooks) + 1) /\ at[r] < at'[r]
  <2>1. setup \in Setup /\ at[r] + 1 \in 1..(Len(setup.hooks) + 1) /\ Len(setup.hooks) \in Nat
    BY <1>1, HooksFacts DEF TypeOK
  <2>2. NextBefore(at[r] + 1) \in (at[r] + 1)..(Len(setup.hooks) + 1)
    BY <2>1, NextDoes
  <2> QED
    BY <1>2, <2>1, <2>2
<1>4. TypeOK'
  <2>1. pc' \in [Request -> {"before", "asking", "told", "after", "done"}]
    BY <1>1 DEF Passes, TypeOK
  <2>2. at' \in [Request -> 1..(Len(setup.hooks) + 1)]
    BY <1>1, <1>2, <1>3 DEF Passes, TypeOK
  <2> QED
    BY <1>1, <1>2, <2>1, <2>2 DEF TypeOK
<1>5. \A q \in Request \ {r} : Still(q)
  BY <1>2 DEF Still
<1>6. Carried(r)'
  BY <1>1, <1>2, PassKeeps
<1>7. Agreed(r)'
  <2>1. ASSUME reply'[r] # None
        PROVE  \E i \in DOMAIN setup.hooks : i < at'[r] /\ setup.hooks[i] = "rate_limit"
    <3>1. CASE setup.hooks[at[r]] = "rate_limit"
      BY <1>3, <3>1
    <3>2. CASE setup.hooks[at[r]] # "rate_limit"
      <4>1. PICK i \in DOMAIN setup.hooks : i < at[r] /\ setup.hooks[i] = "rate_limit"
        BY <2>1, <3>2 DEF IInv, Agreed
      <4>2. i < at'[r]
        BY <1>1, <1>3, <4>1, HooksFacts DEF TypeOK
      <4> QED
        BY <4>1, <4>2
    <3> QED
      BY <3>1, <3>2
  <2> QED
    BY <1>2, <2>1 DEF Agreed
<1>8. Marked(r)'
  BY <1>2 DEF Marked, Coming
<1>9. SentAsIs(r)'
  BY <1>1, <1>2 DEF SentAsIs, Coming
<1> QED
  BY <1>4, <1>5, <1>6, <1>7, <1>8, <1>9, OneTask

\* What a hook that answers, or the route, does
LEMMA AnswersKeeps ==
  ASSUME IInv, NEW r \in Request, UNCHANGED <<setup, sent, logged>>, Coming(r), NEW who, NEW answer, Answers(r, who, answer),
         \/ at[r] \in DOMAIN setup.hooks /\ who = setup.hooks[at[r]] /\ who # "request_id"
         \/ at[r] > Len(setup.hooks) /\ who = "route",
         context' \in [Request -> Context],
         reply' \in [Request -> {None} \union Decision], used' \in 0..Allowance,
         \A q \in Request \ {r} : context'[q] = context[q] /\ reply'[q] = reply[q],
         context'[r].id = context[r].id, context'[r].decision = reply'[r],
         New(r, answer), who = "route" /\ setup.route = "small" => GetAll(answer.headers, Frame) = <<"own">>
  PROVE  IInv'
<1>1. TypeOK /\ Carried(r) /\ SentAsIs(r)
  BY DEF IInv
<1>2. who \in {"route"} \union Hook /\ Len(setup.hooks) \in Nat
  BY <1>1, HooksFacts DEF TypeOK
<1>3. /\ pc' = [pc EXCEPT ![r] = "after"] /\ at' = [at EXCEPT ![r] = 1]
      /\ response' = [response EXCEPT ![r] = answer] /\ answered' = [answered EXCEPT ![r] = who]
  BY DEF Answers
<1>4. TypeOK'
  <2>1. pc' \in [Request -> {"before", "asking", "told", "after", "done"}]
    BY <1>1, <1>3 DEF TypeOK
  <2>2. at' \in [Request -> 1..(Len(setup.hooks) + 1)]
    BY <1>1, <1>2, <1>3 DEF TypeOK
  <2>3. answered' \in [Request -> {None, "route"} \union Hook] /\ DOMAIN response' = Request
    BY <1>1, <1>2, <1>3 DEF TypeOK
  <2> QED
    BY <1>1, <2>1, <2>2, <2>3 DEF TypeOK
<1>5. \A q \in Request \ {r} : Still(q)
  BY <1>1, <1>3 DEF Still, TypeOK
<1>6. pc'[r] = "after"
  BY <1>1, <1>3 DEF TypeOK
<1>7. Agreed(r)'
  BY <1>6 DEF Agreed
<1>8. Carried(r)' /\ Marked(r)' /\ SentAsIs(r)'
  BY <1>1, AnswerKeeps
<1> QED
  BY <1>4, <1>5, <1>7, <1>8, OneTask

\* An ID is one of its request, and never None.
LEMMA IdType ==
  ASSUME NEW r \in Request
  PROVE  IdOf(r) \in {"incoming", "new"} \X Request /\ IdOf(r) # None
  BY NoneAssumption DEF IdOf

\* cors() passes on what is no preflight, and answers one.
LEMMA PreflightKeeps ==
  ASSUME IInv, NEW r \in Request, Preflight(r)
  PROVE  IInv'
<1>1. /\ Coming(r) /\ at[r] \in DOMAIN setup.hooks /\ setup.hooks[at[r]] = "cors"
      /\ UNCHANGED <<setup, sent, logged, context, reply, used>>
      /\ pc[r] = "before"
  BY DEF Preflight, AtBefore, Coming
<1>2. context \in [Request -> Context] /\ reply \in [Request -> {None} \union Decision] /\ used \in 0..Allowance
  BY DEF IInv, TypeOK
<1>3. context[r].decision = reply[r]
  BY <1>1 DEF IInv, Agreed
<1>4. CASE ~IsPreflight(r) /\ Passes(r)
  BY <1>1, <1>2, <1>3, <1>4, PassesKeeps
<1>5. CASE Answers(r, "cors", WithType(400, "text", NoHeaders))
  <2>1. New(r, WithType(400, "text", NoHeaders))
    BY BareNew
  <2> QED
    BY <1>1, <1>2, <1>3, <1>5, <2>1, AnswersKeeps
<1>6. CASE /\ IsPreflight(r) /\ AllowedOrigin(r) # None
           /\ Answers(r, "cors", Response(204, SetHeader(CommonHeaders(NoHeaders, AllowedOrigin(r)),
                                                         "Access-Control-Allow-Methods", "methods"), "nothing"))
  <2>1. ValueFor(r) = AllowedOrigin(r) /\ ValueFor(r) # None
    BY <1>6 DEF ValueFor, IsPreflight
  <2> DEFINE answer == Response(204, SetHeader(CommonHeaders(NoHeaders, ValueFor(r)),
                                               "Access-Control-Allow-Methods", "methods"), "nothing")
  <2>2. New(r, answer)
    BY <2>1, PreflightNew
  <2>3. Answers(r, "cors", answer)
    BY <1>6, <2>1
  <2> HIDE DEF answer
  <2> QED
    BY <1>1, <1>2, <1>3, <2>2, <2>3, AnswersKeeps
<1> QED
  BY <1>4, <1>5, <1>6 DEF Preflight

\* request_id() gives the request's own context its ID.
LEMMA AssignKeeps ==
  ASSUME IInv, NEW r \in Request, Assign(r)
  PROVE  IInv'
<1>1. /\ Coming(r) /\ at[r] \in DOMAIN setup.hooks /\ setup.hooks[at[r]] = "request_id" /\ Passes(r)
      /\ UNCHANGED <<setup, sent, logged, reply, used>>
      /\ pc[r] = "before"
  BY DEF Assign, AtBefore, Coming
<1>2. context \in [Request -> Context] /\ reply \in [Request -> {None} \union Decision] /\ used \in 0..Allowance
  BY DEF IInv, TypeOK
<1>3. context[r].decision = reply[r]
  BY <1>1 DEF IInv, Agreed
<1>4. /\ context' \in [Request -> Context] /\ context'[r].id = IdOf(r) /\ context'[r].decision = context[r].decision
      /\ \A q \in Request \ {r} : context'[q] = context[q]
  BY <1>2, IdType DEF Assign, Context
<1> QED
  BY <1>1, <1>2, <1>3, <1>4, PassesKeeps

\* An exempt request keeps the None it had: it is not asked about twice.
LEMMA ExemptKeeps ==
  ASSUME IInv, NEW r \in Request, Exempt(r)
  PROVE  IInv'
<1>1. /\ Coming(r) /\ at[r] \in DOMAIN setup.hooks /\ setup.hooks[at[r]] = "rate_limit" /\ Passes(r)
      /\ UNCHANGED <<setup, sent, logged, reply, used>>
      /\ pc[r] = "before"
  BY DEF Exempt, AtBefore, Coming
<1>2. context \in [Request -> Context] /\ reply \in [Request -> {None} \union Decision] /\ used \in 0..Allowance
  BY DEF IInv, TypeOK
<1>3. reply[r] = None
  <2>1. \A i \in DOMAIN setup.hooks : setup.hooks[i] = "rate_limit" => i = at[r]
    BY <1>1, HooksFacts DEF IInv, TypeOK
  <2>2. at[r] \in Int
    BY <1>1, HooksFacts DEF IInv, TypeOK
  <2> QED
    BY <1>1, <2>1, <2>2 DEF IInv, Agreed
<1>4. /\ context' \in [Request -> Context] /\ context'[r].id = context[r].id /\ context'[r].decision = None
      /\ \A q \in Request \ {r} : context'[q] = context[q]
  BY <1>2 DEF Exempt, Context
<1> QED
  BY <1>1, <1>2, <1>3, <1>4, PassesKeeps

\* What a store decides
LEMMA HitType ==
  ASSUME used \in 0..Allowance
  PROVE  /\ Hit \in Decision /\ Hit # None
         /\ (IF Hit.allowed THEN used + 1 ELSE used) \in 0..Allowance
<1>1. Allowance \in Nat
  BY ExchangeAssumption
<1>2. CASE used < Allowance
  <2>1. Hit = [allowed |-> TRUE, remaining |-> Allowance - used - 1]
    BY <1>2 DEF Hit
  <2>2. Hit \in Decision
    BY <1>1, <1>2, <2>1 DEF Decision
  <2>3. Hit # None
    BY <2>2, NoneAssumption
  <2>4. (IF Hit.allowed THEN used + 1 ELSE used) = used + 1
    BY <2>1
  <2>5. used + 1 \in 0..Allowance
    BY <1>1, <1>2
  <2> QED
    BY <2>2, <2>3, <2>4, <2>5
<1>3. CASE ~(used < Allowance)
  <2>1. Hit = [allowed |-> FALSE, remaining |-> 0]
    BY <1>3 DEF Hit
  <2>2. Hit \in Decision
    BY <1>1, <1>3, <2>1 DEF Decision
  <2>3. Hit # None
    BY <2>2, NoneAssumption
  <2>4. (IF Hit.allowed THEN used + 1 ELSE used) = used
    BY <2>1
  <2>5. used \in 0..Allowance
    BY <1>1, <1>3
  <2> QED
    BY <2>2, <2>3, <2>4, <2>5
<1> QED
  BY <1>2, <1>3

\* answer() keeps the decision in the context of its own request.
LEMMA DecidedKeeps ==
  ASSUME IInv, NEW r \in Request, Coming(r), at[r] \in DOMAIN setup.hooks, setup.hooks[at[r]] = "rate_limit",
         UNCHANGED <<setup, sent, logged>>, NEW decision \in Decision, Decided(r, decision), reply'[r] = decision,
         reply' \in [Request -> {None} \union Decision], used' \in 0..Allowance,
         \A q \in Request \ {r} : reply'[q] = reply[q]
  PROVE  IInv'
<1>1. context \in [Request -> Context]
  BY DEF IInv, TypeOK
<1>2. /\ context' \in [Request -> Context] /\ context'[r].id = context[r].id /\ context'[r].decision = decision
      /\ \A q \in Request \ {r} : context'[q] = context[q]
  BY <1>1 DEF Decided, Context
<1>3. CASE Passes(r)
  BY <1>2, <1>3, PassesKeeps
<1>4. CASE Answers(r, "rate_limit", WithType(429, "text", Only("Retry-After", "seconds")))
  <2>1. New(r, WithType(429, "text", Only("Retry-After", "seconds")))
    BY OnlyNew
  <2> QED
    BY <1>2, <1>4, <2>1, AnswersKeeps
<1> QED
  BY <1>3, <1>4 DEF Decided

\* A store in memory answers at once.
LEMMA CheckKeeps ==
  ASSUME IInv, NEW r \in Request, Check(r)
  PROVE  IInv'
<1>1. /\ Coming(r) /\ at[r] \in DOMAIN setup.hooks /\ setup.hooks[at[r]] = "rate_limit"
      /\ UNCHANGED <<setup, sent, logged>> /\ Decided(r, Hit)
      /\ reply' = [reply EXCEPT ![r] = Hit] /\ used' = IF Hit.allowed THEN used + 1 ELSE used
  BY DEF Check, AtBefore, Coming
<1>2. reply \in [Request -> {None} \union Decision] /\ used \in 0..Allowance
  BY DEF IInv, TypeOK
<1>3. Hit \in Decision /\ used' \in 0..Allowance
  BY <1>1, <1>2, HitType
<1>4. /\ reply' \in [Request -> {None} \union Decision] /\ reply'[r] = Hit
      /\ \A q \in Request \ {r} : reply'[q] = reply[q]
  BY <1>1, <1>2, <1>3
<1> QED
  BY <1>1, <1>3, <1>4, DecidedKeeps

\* While a store over the network is asked, the request stays at the hook.
LEMMA AskKeeps ==
  ASSUME IInv, NEW r \in Request, Ask(r)
  PROVE  IInv'
<1>1. /\ pc[r] = "before" /\ at[r] \in DOMAIN setup.hooks /\ setup.hooks[at[r]] = "rate_limit"
      /\ UNCHANGED <<setup, at, context, reply, used, response, answered, sent, logged>>
      /\ pc' = [pc EXCEPT ![r] = "asking"]
  BY DEF Ask, AtBefore
<1>2. TypeOK /\ Carried(r) /\ Agreed(r) /\ SentAsIs(r)
  BY DEF IInv
<1>3. TypeOK'
  BY <1>1, <1>2 DEF TypeOK
<1>4. \A q \in Request \ {r} : Still(q)
  BY <1>1, <1>2 DEF Still, TypeOK
<1>5. pc'[r] = "asking"
  BY <1>1, <1>2 DEF TypeOK
<1>6. Carried(r)'
  <2>1. Coming(r) /\ Coming(r)' /\ IdOf(r)' = IdOf(r) /\ (IsPreflight(r)' <=> IsPreflight(r))
    BY <1>1, <1>5 DEF Coming, IdOf, IsPreflight, asked
  <2> QED
    BY <1>1, <1>2, <2>1 DEF Carried
<1>7. Agreed(r)'
  BY <1>1, <1>2, <1>5 DEF Agreed
<1>8. Marked(r)' /\ SentAsIs(r)'
  BY <1>1, <1>2, <1>5 DEF Marked, SentAsIs, Coming
<1> QED
  BY <1>1, <1>3, <1>4, <1>6, <1>7, <1>8, OneTask

\* The store decides, or is not reached, while other requests go on.
LEMMA StoreDecidesKeeps ==
  ASSUME IInv, NEW r \in Request, StoreDecides(r)
  PROVE  IInv'
<1>1. /\ pc[r] = "asking" /\ UNCHANGED <<setup, at, context, response, answered, sent, logged>>
      /\ pc' = [pc EXCEPT ![r] = "told"]
  BY DEF StoreDecides
<1>2. TypeOK /\ Carried(r) /\ Agreed(r) /\ SentAsIs(r)
  BY DEF IInv
<1>3. PICK d \in Decision : reply' = [reply EXCEPT ![r] = d] /\ used' \in 0..Allowance
  <2>1. Hit \in Decision /\ (IF Hit.allowed THEN used + 1 ELSE used) \in 0..Allowance /\ used \in 0..Allowance
    BY <1>2, HitType DEF TypeOK
  <2> DEFINE other == [allowed |-> setup.store = "open", remaining |-> IF setup.store = "open" THEN Allowance ELSE 0]
  <2>2. other \in Decision
    BY ExchangeAssumption DEF Decision
  <2> QED
    BY <2>1, <2>2 DEF StoreDecides
<1>4. d # None
  BY NoneAssumption
<1>5. TypeOK'
  BY <1>1, <1>2, <1>3 DEF TypeOK
<1>6. \A q \in Request \ {r} : Still(q)
  BY <1>1, <1>2, <1>3 DEF Still, TypeOK
<1>7. pc'[r] = "told" /\ reply'[r] = d
  BY <1>1, <1>2, <1>3 DEF TypeOK
<1>8. Carried(r)'
  <2>1. Coming(r) /\ Coming(r)' /\ IdOf(r)' = IdOf(r) /\ (IsPreflight(r)' <=> IsPreflight(r))
    BY <1>1, <1>7 DEF Coming, IdOf, IsPreflight, asked
  <2> QED
    BY <1>1, <1>2, <2>1 DEF Carried
<1>9. Agreed(r)'
  BY <1>1, <1>2, <1>4, <1>7 DEF Agreed
<1>10. Marked(r)' /\ SentAsIs(r)'
  BY <1>1, <1>2, <1>7 DEF Marked, SentAsIs, Coming
<1> QED
  BY <1>1, <1>5, <1>6, <1>8, <1>9, <1>10, OneTask

\* Its answer arrives, and is the one of this request.
LEMMA StoreAnswersKeeps ==
  ASSUME IInv, NEW r \in Request, StoreAnswers(r)
  PROVE  IInv'
<1>1. /\ pc[r] = "told" /\ Coming(r) /\ UNCHANGED <<setup, reply, used, sent, logged>> /\ Decided(r, reply[r])
  BY DEF StoreAnswers, Coming
<1>2. reply \in [Request -> {None} \union Decision] /\ used \in 0..Allowance
  BY DEF IInv, TypeOK
<1>3. at[r] \in DOMAIN setup.hooks /\ setup.hooks[at[r]] = "rate_limit" /\ reply[r] # None
  BY <1>1 DEF IInv, Agreed
<1>4. reply[r] \in Decision
  BY <1>2, <1>3
<1> QED
  BY <1>1, <1>2, <1>3, <1>4, DecidedKeeps

\* A hook of the app's passes, answers, or raises.
LEMMA AppBeforeKeeps ==
  ASSUME IInv, NEW r \in Request, AppBefore(r)
  PROVE  IInv'
<1>1. /\ Coming(r) /\ at[r] \in DOMAIN setup.hooks /\ setup.hooks[at[r]] = "app"
      /\ UNCHANGED <<setup, sent, logged, context, reply, used>>
      /\ pc[r] = "before"
  BY DEF AppBefore, AtBefore, Coming
<1>2. context \in [Request -> Context] /\ reply \in [Request -> {None} \union Decision] /\ used \in 0..Allowance
  BY DEF IInv, TypeOK
<1>3. context[r].decision = reply[r]
  BY <1>1 DEF IInv, Agreed
<1>4. CASE Passes(r)
  BY <1>1, <1>2, <1>3, <1>4, PassesKeeps
<1>5. CASE Answers(r, "app", WithType(401, "json", NoHeaders))
  <2>1. New(r, WithType(401, "json", NoHeaders))
    BY BareNew
  <2> QED
    BY <1>1, <1>2, <1>3, <1>5, <2>1, AnswersKeeps
<1>6. CASE Answers(r, "app", ServerError)
  <2>1. New(r, ServerError)
    BY BareNew DEF ServerError
  <2> QED
    BY <1>1, <1>2, <1>3, <1>6, <2>1, AnswersKeeps
<1> QED
  BY <1>4, <1>5, <1>6 DEF AppBefore

\* The route answers when every before hook passed.
LEMMA DispatchKeeps ==
  ASSUME IInv, NEW r \in Request, Dispatch(r)
  PROVE  IInv'
<1> DEFINE answer == IF setup.route = "bound" THEN Bound(setup.plan, asked[r]) ELSE Routed(setup.route)
<1>1. /\ Coming(r) /\ at[r] > Len(setup.hooks) /\ Answers(r, "route", answer)
      /\ UNCHANGED <<setup, sent, logged, context, reply, used>>
      /\ pc[r] = "before"
  BY DEF Dispatch, Coming
<1>2. context \in [Request -> Context] /\ reply \in [Request -> {None} \union Decision] /\ used \in 0..Allowance
  BY DEF IInv, TypeOK
<1>3. context[r].decision = reply[r]
  BY <1>1 DEF IInv, Agreed
<1>4. New(r, answer) /\ (setup.route = "small" => GetAll(answer.headers, Frame) = <<"own">>)
  <2>1. CASE setup.route = "bound"
    BY <2>1, BoundNew
  <2>2. CASE setup.route # "bound"
    <3>1. setup.route \in {"page", "small", "picture", "fixed", "coded", "empty", "stream", "file", "error"}
      BY <2>2, ExchangeAssumption DEF IInv, TypeOK
    <3> QED
      BY <2>2, <3>1, RoutedNew
  <2> QED
    BY <2>1, <2>2
<1> HIDE DEF answer
<1> QED
  BY <1>1, <1>2, <1>3, <1>4, AnswersKeeps

\* An after hook changes the response only.
LEMMA ChangesKeeps ==
  ASSUME IInv, NEW r \in Request, pc[r] = "after", UNCHANGED <<setup, pc, context, reply, used, answered, sent, logged>>,
         NEW next \in 1..(Len(setup.hooks) + 1), at' = [at EXCEPT ![r] = next],
         NEW changed, response' = [response EXCEPT ![r] = changed], Marked(r)'
  PROVE  IInv'
<1>1. TypeOK /\ Carried(r) /\ Agreed(r) /\ SentAsIs(r)
  BY DEF IInv
<1>2. TypeOK'
  BY <1>1 DEF TypeOK
<1>3. \A q \in Request \ {r} : Still(q)
  BY <1>1 DEF Still, TypeOK
<1>4. Carried(r)'
  <2>1. ~Coming(r) /\ ~Coming(r)' /\ IdOf(r)' = IdOf(r) /\ (IsPreflight(r)' <=> IsPreflight(r))
    BY DEF Coming, IdOf, IsPreflight, asked
  <2>2. Reached(r, "request_id")' <=> Reached(r, "request_id")
    BY DEF Reached
  <2> QED
    BY <1>1, <2>1, <2>2 DEF Carried
<1>5. Agreed(r)' /\ SentAsIs(r)'
  BY <1>1 DEF Agreed, SentAsIs
<1> QED
  BY <1>2, <1>3, <1>4, <1>5, OneTask

\* So does the one of a middleware, which keeps the response sound and leaves
\* the marks of the others.
LEMMA HookKeeps ==
  ASSUME IInv, NEW r \in Request, NEW hook \in Hook, AtAfter(r, hook), NEW it, Changes(r, it),
         hook = "app" => setup.custom \notin {"replace", "fail"}, Sound(r, it),
         NEW before, before = response[r].headers, NEW after, after = it.headers,
         IF hook = "request_id" /\ context[r].id # None THEN GetAll(after, ID) = <<context[r].id>>
         ELSE GetAll(after, ID) = GetAll(before, ID),
         IF hook = "rate_limit" /\ context[r].decision # None THEN GetAll(after, Limit) = <<context[r].decision.remaining>>
         ELSE GetAll(after, Limit) = GetAll(before, Limit),
         Origin \in DOMAIN before \/ (hook = "cors" /\ ValueFor(r) # None) => Origin \in DOMAIN after,
         Frame \in DOMAIN before \/ hook = "security_headers" => Frame \in DOMAIN after,
         Transport \in DOMAIN before \/ (hook = "security_headers" /\ asked[r].https) => Transport \in DOMAIN after,
         GetAll(before, Frame) = <<"own">> => GetAll(after, Frame) = <<"own">>
  PROVE  IInv'
<1>1. TypeOK /\ Marked(r) /\ pc[r] = "after"
  BY DEF IInv, AtAfter
<1>2. /\ UNCHANGED <<setup, pc, context, reply, used, answered, sent, logged>>
      /\ at' = [at EXCEPT ![r] = at[r] + 1] /\ response' = [response EXCEPT ![r] = it]
  BY DEF Changes
<1>3. at'[r] = at[r] + 1 /\ response'[r] = it
  BY <1>1, <1>2 DEF TypeOK
<1>4. at[r] + 1 \in 1..(Len(setup.hooks) + 1)
  BY <1>1, HooksFacts DEF TypeOK, AtAfter
<1>5. Marked(r)'
  BY <1>1, <1>2, <1>3, ChangeMarks
<1> QED
  BY <1>1, <1>2, <1>4, <1>5, ChangesKeeps

\* A response at an after hook is sound.
LEMMA AtAfterSound ==
  ASSUME IInv, NEW r \in Request, NEW hook, AtAfter(r, hook)
  PROVE  Sound(r, response[r])
  BY DEF IInv, AtAfter, Marked, Coming

\* compress() changes the body and the headers that are about it.
LEMMA CompressKeeps ==
  ASSUME IInv, NEW r \in Request, CompressResponse(r)
  PROVE  IInv'
<1> PICK it : it = response[r]
  OBVIOUS
<1>1. AtAfter(r, "compress") /\ Sound(r, it) /\ "compress" \in Hook
  BY AtAfterSound DEF CompressResponse, Hook
<1>2. ASSUME NEW other, Changes(r, other), Sound(r, other),
             \A n : n \notin BodyNames \union {"Vary"} => Same(it.headers, other.headers, n)
      PROVE  IInv'
  <2>1. \A n \in {ID, Limit, Origin, Frame, Transport} : Same(it.headers, other.headers, n)
    BY <1>2 DEF BodyNames, ID, Limit, Origin, Frame, Transport
  <2> QED
    BY <1>1, <1>2, <2>1, HookKeeps DEF Same
<1>3. CASE Changes(r, it)
  BY <1>1, <1>2, <1>3 DEF Same
<1>4. CASE Changes(r, Varied(it))
  BY <1>1, <1>2, <1>4, VariedDoes
<1>5. ASSUME Compressible(it), NEW e \in Pick(r), Changes(r, Encoded(Varied(it), e))
      PROVE  IInv'
  <2> DEFINE varied == Varied(it)
             other == Encoded(varied, e)
  <2>1. Sound(r, varied) /\ \A n : n # "Vary" => Same(it.headers, varied.headers, n)
    BY <1>1, VariedDoes
  <2> HIDE DEF varied
  <2>2. "Content-Encoding" \notin DOMAIN varied.headers
    BY <1>5, <2>1 DEF Compressible, Same
  <2>3. Quality(r, e) > 0
    BY <1>5 DEF Pick
  <2>4. Sound(r, other) /\ \A n : n \notin BodyNames => Same(varied.headers, other.headers, n)
    BY <2>1, <2>2, <2>3, EncodedDoes
  <2>5. Changes(r, other)
    BY <1>5 DEF varied
  <2> HIDE DEF other
  <2>6. \A n : n \notin BodyNames \union {"Vary"} => Same(it.headers, other.headers, n)
    BY <2>1, <2>4 DEF Same
  <2> QED
    BY <1>2, <2>4, <2>5, <2>6
<1> QED
  BY <1>3, <1>4, <1>5 DEF CompressResponse

\* cors() allows the origin unless an answer does so already.
LEMMA CorsKeeps ==
  ASSUME IInv, NEW r \in Request, AddCorsHeaders(r)
  PROVE  IInv'
<1> PICK it : it = response[r]
  OBVIOUS
<1>1. AtAfter(r, "cors") /\ Sound(r, it) /\ "cors" \in Hook
  BY AtAfterSound DEF AddCorsHeaders, Hook
<1> DEFINE other == [it EXCEPT !.headers = CommonHeaders(it.headers, AllowedOrigin(r))]
<1>2. CASE asked[r].origin = None \/ Origin \in DOMAIN it.headers \/ AllowedOrigin(r) = None
  <2>1. Changes(r, it)
    BY <1>2 DEF AddCorsHeaders, Origin
  <2>2. ValueFor(r) = None \/ Origin \in DOMAIN it.headers
    BY <1>2 DEF ValueFor
  <2> QED
    BY <1>1, <2>1, <2>2, HookKeeps
<1>3. CASE ~(asked[r].origin = None \/ Origin \in DOMAIN it.headers \/ AllowedOrigin(r) = None)
  <2>1. Changes(r, other)
    BY <1>3 DEF AddCorsHeaders, Origin
  <2>2. ValueFor(r) = AllowedOrigin(r) /\ ValueFor(r) # None
    BY <1>3 DEF ValueFor
  <2>3. /\ Sound(r, other) /\ Origin \in DOMAIN other.headers
        /\ \A n : n \notin OriginNames => Same(it.headers, other.headers, n)
    BY <1>1, <2>2, CorsDoes
  <2> HIDE DEF other
  <2>4. \A n \in {ID, Limit, Frame, Transport} : Same(it.headers, other.headers, n)
    BY <2>3 DEF OriginNames, ID, Limit, Origin, Credentials, Frame, Transport
  <2> QED
    BY <1>1, <2>1, <2>3, <2>4, HookKeeps DEF Same
<1> QED
  BY <1>2, <1>3

\* request_id() sends back the ID of its own request.
LEMMA SendBackKeeps ==
  ASSUME IInv, NEW r \in Request, SendBack(r)
  PROVE  IInv'
<1> PICK it : it = response[r]
  OBVIOUS
<1>1. AtAfter(r, "request_id") /\ Sound(r, it) /\ "request_id" \in Hook
  BY AtAfterSound DEF SendBack, Hook
<1> DEFINE other == [it EXCEPT !.headers = SetHeader(it.headers, ID, context[r].id)]
<1>2. CASE context[r].id = None
  <2>1. Changes(r, it)
    BY <1>2 DEF SendBack, CurrentRequestId
  <2> QED
    BY <1>1, <1>2, <2>1, HookKeeps
<1>3. CASE context[r].id # None
  <2>1. Changes(r, other)
    BY <1>3 DEF SendBack, CurrentRequestId, ID
  <2>2. /\ Sound(r, other) /\ GetAll(other.headers, ID) = <<context[r].id>>
        /\ \A n : n # ID => Same(it.headers, other.headers, n)
    BY <1>1, MarkDoes
  <2> HIDE DEF other
  <2>3. \A n \in {Limit, Origin, Frame, Transport} : Same(it.headers, other.headers, n)
    BY <2>2 DEF ID, Limit, Origin, Frame, Transport
  <2> QED
    BY <1>1, <1>3, <2>1, <2>2, <2>3, HookKeeps DEF Same
<1> QED
  BY <1>2, <1>3

\* rate_limit() tells the allowance that its own request was left with.
LEMMA LimitKeeps ==
  ASSUME IInv, NEW r \in Request, AddLimitHeaders(r)
  PROVE  IInv'
<1> PICK it : it = response[r]
  OBVIOUS
<1>1. AtAfter(r, "rate_limit") /\ Sound(r, it) /\ "rate_limit" \in Hook
  BY AtAfterSound DEF AddLimitHeaders, Hook
<1> DEFINE other == [it EXCEPT !.headers = SetHeader(it.headers, Limit, context[r].decision.remaining)]
<1>2. CASE context[r].decision = None
  <2>1. Changes(r, it)
    BY <1>2 DEF AddLimitHeaders
  <2> QED
    BY <1>1, <1>2, <2>1, HookKeeps
<1>3. CASE context[r].decision # None
  <2>1. Changes(r, other)
    BY <1>3 DEF AddLimitHeaders, Limit
  <2>2. /\ Sound(r, other) /\ GetAll(other.headers, Limit) = <<context[r].decision.remaining>>
        /\ \A n : n # Limit => Same(it.headers, other.headers, n)
    BY <1>1, MarkDoes
  <2> HIDE DEF other
  <2>3. \A n \in {ID, Origin, Frame, Transport} : Same(it.headers, other.headers, n)
    BY <2>2 DEF ID, Limit, Origin, Frame, Transport
  <2> QED
    BY <1>1, <1>3, <2>1, <2>2, <2>3, HookKeeps DEF Same
<1> QED
  BY <1>2, <1>3

\* security_headers() fills in what is missing.
LEMMA SecurityKeeps ==
  ASSUME IInv, NEW r \in Request, AddSecurityHeaders(r)
  PROVE  IInv'
<1> PICK it : it = response[r]
  OBVIOUS
<1>1. AtAfter(r, "security_headers") /\ Sound(r, it) /\ "security_headers" \in Hook
  BY AtAfterSound DEF AddSecurityHeaders, Hook
<1> DEFINE other == [it EXCEPT !.headers = Hardened(r, it.headers)]
<1>2. Changes(r, other)
  BY DEF AddSecurityHeaders, Hardened, Frame, Transport
<1>3. /\ Sound(r, other) /\ Frame \in DOMAIN other.headers
      /\ asked[r].https => Transport \in DOMAIN other.headers
      /\ Frame \in DOMAIN it.headers => GetAll(other.headers, Frame) = GetAll(it.headers, Frame)
      /\ \A n : n \notin FrameNames => Same(it.headers, other.headers, n)
  BY <1>1, SecureDoes
<1> HIDE DEF other
<1>4. \A n \in {ID, Limit, Origin} : Same(it.headers, other.headers, n)
  BY <1>3 DEF FrameNames, ID, Limit, Origin, Frame, Transport
<1>5. GetAll(it.headers, Frame) = <<"own">> => Frame \in DOMAIN it.headers
  BY DEF GetAll
<1>6. Transport \in DOMAIN it.headers => asked[r].https
  BY <1>1 DEF Sound, FrameSound
<1> QED
  BY <1>1, <1>2, <1>3, <1>4, <1>5, <1>6, HookKeeps DEF Same

\* A response that takes the place of another has no marks.
LEMMA AnewMarks ==
  ASSUME NEW r \in Request, UNCHANGED setup, New(r, response'[r]),
         \A hook \in Hook \ {"app"} : ~Applied(r, hook)', setup.custom = "replace" \/ Failed(r)',
         Failed(r)' => at'[r] > Len(setup.hooks)
  PROVE  Marked(r)'
<1>1. \A hook \in {"request_id", "rate_limit", "cors", "security_headers"} : ~Applied(r, hook)'
  BY DEF Hook
<1>2. MarkedBy(r, response[r].headers)'
  BY <1>1 DEF MarkedBy, New
<1> QED
  BY <1>2, SoundPrimed DEF Marked, New

\* The app's hook keeps the response, replaces it, or fails, which ends the
\* after hooks.
LEMMA AppAfterKeeps ==
  ASSUME IInv, NEW r \in Request, AppAfter(r)
  PROVE  IInv'
<1> PICK it : it = response[r]
  OBVIOUS
<1>1. AtAfter(r, "app") /\ Sound(r, it) /\ "app" \in Hook
  BY AtAfterSound DEF AppAfter, Hook
<1>2. /\ TypeOK /\ pc[r] = "after" /\ Len(setup.hooks) \in Nat /\ at[r] \in 1..Len(setup.hooks)
      /\ AfterHooks[at[r]] = "app" /\ DOMAIN AfterHooks = 1..Len(setup.hooks) /\ Len(AfterHooks) = Len(setup.hooks)
  BY <1>1, HooksFacts DEF IInv, TypeOK, AtAfter
<1>3. ~Failed(r)
  BY <1>2 DEF IInv, Marked, Coming
<1>4. CASE setup.custom \notin {"replace", "fail"} /\ Changes(r, it)
  BY <1>1, <1>4, HookKeeps
<1>5. CASE setup.custom = "replace" /\ Changes(r, WithType(200, "text", NoHeaders))
  <2> PICK other : other = WithType(200, "text", NoHeaders)
    OBVIOUS
  <2>1. New(r, other)
    BY BareNew
  <2>2. /\ UNCHANGED <<setup, pc, context, reply, used, answered, sent, logged>>
        /\ at' = [at EXCEPT ![r] = at[r] + 1] /\ response' = [response EXCEPT ![r] = other]
    BY <1>5 DEF Changes
  <2>3. at'[r] = at[r] + 1 /\ response'[r] = other
    BY <1>2, <2>2 DEF TypeOK
  <2>4. ~Failed(r)' /\ \A hook \in Hook \ {"app"} : ~Applied(r, hook)'
    BY <1>2, <1>3, <1>5, <2>2, <2>3, AppliedStep
  <2>5. Marked(r)'
    BY <1>5, <2>1, <2>2, <2>3, <2>4, AnewMarks
  <2>6. at[r] + 1 \in 1..(Len(setup.hooks) + 1)
    BY <1>2
  <2> QED
    BY <1>2, <2>2, <2>5, <2>6, ChangesKeeps
<1>6. CASE /\ setup.custom = "fail" /\ response' = [response EXCEPT ![r] = ServerError]
           /\ at' = [at EXCEPT ![r] = Len(AfterHooks) + 1]
           /\ UNCHANGED <<setup, pc, context, reply, used, answered, sent, logged>>
  <2>1. New(r, ServerError)
    BY BareNew DEF ServerError
  <2>2. at'[r] = Len(setup.hooks) + 1 /\ response'[r] = ServerError
    BY <1>2, <1>6 DEF TypeOK
  <2>3. AfterHooks' = AfterHooks
    BY <1>6 DEF AfterHooks
  <2>4. Failed(r)'
    BY <1>2, <1>6, <2>2, <2>3 DEF Failed
  <2>5. \A hook : ~Applied(r, hook)'
    BY <2>4 DEF Applied
  <2>6. Marked(r)'
    BY <1>2, <1>6, <2>1, <2>2, <2>4, <2>5, AnewMarks
  <2>7. Len(setup.hooks) + 1 \in 1..(Len(setup.hooks) + 1)
    BY <1>2
  <2> QED
    BY <1>2, <1>6, <2>6, <2>7, ChangesKeeps
<1> QED
  BY <1>4, <1>5, <1>6 DEF AppAfter

\* The response goes out as the hooks left it, and its line is logged.
LEMMA SendKeeps ==
  ASSUME IInv, NEW r \in Request, Send(r)
  PROVE  IInv'
<1>1. /\ pc[r] = "after" /\ at[r] > Len(AfterHooks) /\ pc' = [pc EXCEPT ![r] = "done"]
      /\ UNCHANGED <<setup, at, context, reply, used, response, answered>>
      /\ logged' = [logged EXCEPT ![r] = context[r].id]
  BY DEF Send, Logs, CurrentRequestId
<1>2. PICK out : /\ sent' = [sent EXCEPT ![r] = out]
                 /\ out.headers = RawHeaders(response[r], asked[r].method = "HEAD")
                 /\ out.body = IF asked[r].method = "HEAD" THEN None ELSE Length(response[r])
  <2> DEFINE headers == RawHeaders(response[r], asked[r].method = "HEAD")
             body == IF asked[r].method = "HEAD" THEN None ELSE Length(response[r])
             out == [status |-> response[r].status, headers |-> headers, streamed |-> response[r].streamed, body |-> body]
  <2>1. sent' = [sent EXCEPT ![r] = out]
    BY DEF Send
  <2> HIDE DEF headers, body
  <2>2. out.headers = headers /\ out.body = body
    OBVIOUS
  <2> HIDE DEF out
  <2> QED
    BY <2>1, <2>2 DEF headers, body
<1>3. TypeOK /\ Carried(r) /\ Agreed(r) /\ Marked(r) /\ Len(AfterHooks) = Len(setup.hooks)
  BY HooksFacts DEF IInv, TypeOK
<1>4. TypeOK'
  BY <1>1, <1>2, <1>3 DEF TypeOK
<1>5. \A q \in Request \ {r} : Still(q)
  BY <1>1, <1>2, <1>3 DEF Still, TypeOK
<1>6. pc'[r] = "done" /\ sent'[r] = out /\ logged'[r] = context[r].id
  BY <1>1, <1>2, <1>3 DEF TypeOK
<1>7. ~Coming(r) /\ ~Coming(r)'
  BY <1>1, <1>6 DEF Coming
<1>8. Carried(r)'
  <2>1. IdOf(r)' = IdOf(r) /\ (IsPreflight(r)' <=> IsPreflight(r)) /\ (Reached(r, "request_id")' <=> Reached(r, "request_id"))
    BY <1>1 DEF IdOf, IsPreflight, asked, Reached
  <2> QED
    BY <1>1, <1>3, <1>7, <2>1 DEF Carried
<1>9. Agreed(r)'
  BY <1>1, <1>3, <1>6 DEF Agreed
<1>10. Marked(r)'
  <2>1. Failed(r)' <=> Failed(r)
    BY <1>1 DEF Failed, AfterHooks
  <2>2. \A hook : Applied(r, hook)' <=> Applied(r, hook)
    BY <1>1, <2>1 DEF Applied, AfterHooks
  <2>3. ValueFor(r)' = ValueFor(r)
    BY <1>1 DEF ValueFor, AllowedOrigin, asked
  <2>4. MarkedBy(r, response[r].headers) => MarkedBy(r, response[r].headers)'
    BY <1>1, <2>1, <2>2, <2>3 DEF MarkedBy, asked
  <2> QED
    BY <1>1, <1>3, <1>7, <2>1, <2>4, SoundPrimed DEF Marked
<1>11. SentAsIs(r)'
  BY <1>1, <1>2, <1>3, <1>6 DEF SentAsIs, asked, RawHeaders, Length
<1> QED
  BY <1>1, <1>4, <1>5, <1>8, <1>9, <1>10, <1>11, OneTask

\* The invariant holds before the first hook.
LEMMA InitIInv == Init => IInv
<1> SUFFICES ASSUME Init PROVE IInv
  OBVIOUS
<1>1. setup \in Setup /\ Len(setup.hooks) \in Nat /\ DOMAIN setup.hooks = 1..Len(setup.hooks)
  BY HooksFacts DEF Init
<1>2. /\ NextBefore(1) \in 1..(Len(setup.hooks) + 1)
      /\ \A j \in 1..(NextBefore(1) - 1) : ~HasBefore(setup.hooks[j])
  BY <1>1, NextDoes
<1>3. TypeOK
  <2>1. context \in [Request -> Context]
    BY DEF Init, Context
  <2>2. Allowance \in Nat
    BY ExchangeAssumption
  <2>3. at \in [Request -> 1..(Len(setup.hooks) + 1)]
    BY <1>2 DEF Init
  <2> QED
    BY <1>1, <2>1, <2>2, <2>3 DEF Init, TypeOK
<1>4. ASSUME NEW r \in Request
      PROVE  Carried(r) /\ Agreed(r) /\ Marked(r) /\ SentAsIs(r)
  <2>1. pc[r] = "before" /\ at[r] = NextBefore(1) /\ context[r] = [id |-> None, decision |-> None]
          /\ reply[r] = None /\ sent[r] = None
    BY DEF Init
  <2>2. \A i \in DOMAIN setup.hooks : i < at[r] => setup.hooks[i] \notin {"request_id", "cors"}
    BY <1>1, <1>2, <2>1 DEF HasBefore
  <2>3. Carried(r)
    BY <2>1, <2>2 DEF Carried, Coming
  <2> QED
    BY <2>1, <2>3 DEF Agreed, Marked, SentAsIs, Coming
<1> QED
  BY <1>3, <1>4 DEF IInv

\* The inductive invariant, for any requests, hooks and allowance
THEOREM Invariance == Spec => []IInv
<1>1. IInv /\ [Next]_vars => IInv'
  <2> SUFFICES ASSUME IInv, [Next]_vars PROVE IInv'
    OBVIOUS
  <2>1. CASE UNCHANGED vars
    <3>1. TypeOK'
      BY <2>1 DEF vars, IInv, TypeOK
    <3>2. UNCHANGED setup /\ \A q \in Request : Still(q)
      BY <2>1 DEF vars, Still
    <3> QED
      BY <3>1, <3>2, StillKeeps DEF IInv
  <2>2. ASSUME NEW r \in Request, Preflight(r) PROVE IInv'
    BY <2>2, PreflightKeeps
  <2>3. ASSUME NEW r \in Request, Assign(r) PROVE IInv'
    BY <2>3, AssignKeeps
  <2>4. ASSUME NEW r \in Request, Exempt(r) PROVE IInv'
    BY <2>4, ExemptKeeps
  <2>5. ASSUME NEW r \in Request, Check(r) PROVE IInv'
    BY <2>5, CheckKeeps
  <2>6. ASSUME NEW r \in Request, Ask(r) PROVE IInv'
    BY <2>6, AskKeeps
  <2>7. ASSUME NEW r \in Request, StoreDecides(r) PROVE IInv'
    BY <2>7, StoreDecidesKeeps
  <2>8. ASSUME NEW r \in Request, StoreAnswers(r) PROVE IInv'
    BY <2>8, StoreAnswersKeeps
  <2>9. ASSUME NEW r \in Request, AppBefore(r) PROVE IInv'
    BY <2>9, AppBeforeKeeps
  <2>10. ASSUME NEW r \in Request, Dispatch(r) PROVE IInv'
    BY <2>10, DispatchKeeps
  <2>11. ASSUME NEW r \in Request, CompressResponse(r) PROVE IInv'
    BY <2>11, CompressKeeps
  <2>12. ASSUME NEW r \in Request, AddCorsHeaders(r) PROVE IInv'
    BY <2>12, CorsKeeps
  <2>13. ASSUME NEW r \in Request, SendBack(r) PROVE IInv'
    BY <2>13, SendBackKeeps
  <2>14. ASSUME NEW r \in Request, AddLimitHeaders(r) PROVE IInv'
    BY <2>14, LimitKeeps
  <2>15. ASSUME NEW r \in Request, AddSecurityHeaders(r) PROVE IInv'
    BY <2>15, SecurityKeeps
  <2>16. ASSUME NEW r \in Request, AppAfter(r) PROVE IInv'
    BY <2>16, AppAfterKeeps
  <2>17. ASSUME NEW r \in Request, Send(r) PROVE IInv'
    BY <2>17, SendKeeps
  <2> QED
    BY <2>1, <2>2, <2>3, <2>4, <2>5, <2>6, <2>7, <2>8, <2>9, <2>10, <2>11, <2>12, <2>13, <2>14, <2>15, <2>16, <2>17
       DEF Next
<1> QED
  BY <1>1, InitIInv, PTL DEF Spec

-----------------------------------------------------------------------------
(* What the invariant says of what went out                                *)

\* At the end, the hooks that have worked on the response are those that were
\* to, by their places.
LEMMA AppliedIsWorked ==
  ASSUME TypeOK, NEW r \in Request, at[r] > Len(setup.hooks), NEW hook \in Hook \ {"app"}
  PROVE  Applied(r, hook) <=> Worked(hook)
<1> DEFINE n == Len(setup.hooks)
<1>1. /\ n \in Nat /\ DOMAIN setup.hooks = 1..n /\ DOMAIN AfterHooks = 1..n
      /\ \A i, j \in 1..n : setup.hooks[i] = setup.hooks[j] => i = j
      /\ AfterHooks = [i \in 1..n |-> setup.hooks[(n - i) + 1]]
      /\ at[r] = n + 1
  BY HooksFacts DEF TypeOK
<1>2. \A i \in 1..n : (n - i) + 1 \in 1..n /\ AfterHooks[i] = setup.hooks[(n - i) + 1]
  BY <1>1
<1>3. \A i \in 1..n : setup.hooks[i] = AfterHooks[(n - i) + 1]
  BY <1>1
<1>4. \A i \in 1..n : i < at[r]
  BY <1>1
<1> PICK hooks : hooks = setup.hooks
  OBVIOUS
<1> PICK after : after = AfterHooks
  OBVIOUS
<1>5. Failed(r) <=> setup.custom = "fail" /\ "app" \in Range(hooks)
  <2>1. Failed(r) <=> setup.custom = "fail" /\ \E j \in 1..n : after[j] = "app"
    BY <1>1, <1>4 DEF Failed
  <2>2. "app" \in Range(hooks) <=> \E i \in 1..n : hooks[i] = "app"
    BY <1>1 DEF Range
  <2> QED
    BY <1>2, <1>3, <2>1, <2>2
<1>6. Applied(r, hook) <=>
        /\ ~Failed(r)
        /\ \E i \in 1..n : /\ after[i] = hook
                           /\ \A j \in 1..n : i < j /\ after[j] = "app" => setup.custom # "replace"
  BY <1>1, <1>4 DEF Applied
<1>7. Worked(hook) <=>
        /\ hook \in Range(hooks) /\ ~Failed(r)
        /\ setup.custom = "replace" => \A i, j \in 1..n : hooks[i] = hook /\ hooks[j] = "app" => i < j
  <2>1. \A i, j \in 1..n : hooks[j] = "app" => "app" \in Range(hooks)
    BY <1>1 DEF Range
  <2> QED
    BY <1>1, <1>5, <2>1 DEF Worked
<1>8. ASSUME Applied(r, hook)
      PROVE  Worked(hook)
  <2>1. PICK i \in 1..n : /\ after[i] = hook
                          /\ \A j \in 1..n : i < j /\ after[j] = "app" => setup.custom # "replace"
    BY <1>6, <1>8
  <2>2. hook \in Range(hooks)
    BY <1>1, <1>2, <2>1 DEF Range
  <2>3. ASSUME setup.custom = "replace", NEW k \in 1..n, NEW j \in 1..n, hooks[k] = hook, hooks[j] = "app"
        PROVE  k < j
    <3>1. k = (n - i) + 1
      <4>1. (n - i) + 1 \in 1..n /\ hooks[(n - i) + 1] = hook
        BY <1>2, <2>1
      <4> QED
        BY <1>1, <2>3, <4>1
    <3>2. (n - j) + 1 \in 1..n /\ after[(n - j) + 1] = "app"
      BY <1>2, <1>3, <2>3
    <3>3. ~(i < (n - j) + 1) /\ j # k
      BY <2>1, <2>3, <3>2
    <3> QED
      BY <1>1, <3>1, <3>3
  <2> QED
    BY <1>6, <1>7, <1>8, <2>2, <2>3
<1>9. ASSUME Worked(hook)
      PROVE  Applied(r, hook)
  <2>1. PICK k \in 1..n : hooks[k] = hook
    BY <1>1, <1>9 DEF Worked, Range
  <2>2. (n - k) + 1 \in 1..n /\ after[(n - k) + 1] = hook
    BY <1>2, <1>3, <2>1
  <2>3. ASSUME NEW j \in 1..n, (n - k) + 1 < j, after[j] = "app", setup.custom = "replace"
        PROVE  FALSE
    <3>1. hooks[(n - j) + 1] = "app" /\ (n - j) + 1 \in 1..n
      BY <1>2, <2>3
    <3>2. k < (n - j) + 1
      BY <1>7, <1>9, <2>1, <2>3, <3>1
    <3> QED
      BY <1>1, <2>3, <3>2
  <2> QED
    BY <1>6, <1>7, <1>9, <2>2, <2>3
<1> QED
  BY <1>8, <1>9

\* What is known of a request that is answered
LEMMA OverFacts ==
  ASSUME IInv, NEW r \in Over
  PROVE  /\ r \in Request /\ TypeOK /\ pc[r] = "done" /\ at[r] > Len(setup.hooks)
         /\ ~Coming(r) /\ Carried(r) /\ Agreed(r) /\ Sound(r, response[r]) /\ MarkedBy(r, response[r].headers)
         /\ \A n : n # "Content-Length" => Same(response[r].headers, sent[r].headers, n)
<1>1. r \in Request /\ TypeOK /\ Carried(r) /\ Agreed(r) /\ Marked(r) /\ SentAsIs(r) /\ pc[r] = "done"
  BY DEF IInv, Over, SentAsIs
<1>2. at[r] > Len(setup.hooks) /\ sent[r].headers = RawHeaders(response[r], asked[r].method = "HEAD")
  BY <1>1 DEF SentAsIs
<1>3. \A n : n # "Content-Length" => Same(response[r].headers, sent[r].headers, n)
  BY <1>2, SetDoes DEF RawHeaders, Same
<1>4. ~Coming(r)
  BY <1>1 DEF Coming
<1> QED
  BY <1>1, <1>2, <1>3, <1>4 DEF Marked

\* A response and its line in the log have the ID and the allowance of their
\* own request: no interleaving of request_id()'s and rate_limit()'s hooks
\* mixes the contexts of two tasks.
THEOREM Own == Spec => []OwnContext
<1>1. IInv => OwnContext
  <2> SUFFICES ASSUME IInv, NEW r \in Over
               PROVE  /\ logged[r] = (IF Reached(r, "request_id") THEN IdOf(r) ELSE None)
                      /\ Values(r, ID) = (IF Worked("request_id") /\ Reached(r, "request_id") THEN <<IdOf(r)>> ELSE <<>>)
                      /\ Values(r, Limit) = (IF Worked("rate_limit") /\ reply[r] # None THEN <<reply[r].remaining>> ELSE <<>>)
    BY DEF OwnContext, ID, Limit
  <2>1. /\ r \in Request /\ TypeOK /\ pc[r] = "done" /\ at[r] > Len(setup.hooks)
        /\ ~Coming(r) /\ Carried(r) /\ Agreed(r) /\ MarkedBy(r, response[r].headers)
        /\ \A n : n # "Content-Length" => Same(response[r].headers, sent[r].headers, n)
    BY OverFacts
  <2>2. logged[r] = context[r].id
    BY <2>1 DEF IInv, SentAsIs
  <2>3. context[r].id = (IF Reached(r, "request_id") THEN IdOf(r) ELSE None) /\ IdOf(r) # None
    BY <2>1, IdType DEF Carried
  <2>4. context[r].decision = reply[r]
    BY <2>1 DEF Agreed
  <2>5. (Applied(r, "request_id") <=> Worked("request_id")) /\ (Applied(r, "rate_limit") <=> Worked("rate_limit"))
    BY <2>1, AppliedIsWorked DEF Hook
  <2>6. Values(r, ID) = GetAll(response[r].headers, ID) /\ Values(r, Limit) = GetAll(response[r].headers, Limit)
    BY <2>1 DEF Values, Same, ID, Limit
  <2> QED
    BY <2>1, <2>2, <2>3, <2>4, <2>5, <2>6 DEF MarkedBy
<1> QED
  BY <1>1, Invariance, PTL

\* Whoever answered, the response has what cors() and security_headers()
\* promise for every one, and a preflight never gets to a route.
THEOREM Every == Spec => []EveryAnswer
<1>1. IInv => EveryAnswer
  <2> SUFFICES ASSUME IInv
               PROVE  EveryAnswer
    OBVIOUS
  <2>1. ASSUME NEW r \in Over
        PROVE  /\ r \in Request /\ TypeOK /\ at[r] > Len(setup.hooks) /\ Sound(r, response[r]) /\ MarkedBy(r, response[r].headers)
               /\ ~Coming(r) /\ Carried(r)
               /\ \A n : n # "Content-Length" => Same(response[r].headers, sent[r].headers, n)
    BY OverFacts
  <2>2. ASSUME NEW r \in Over
        PROVE  /\ \A n \in {Origin, Credentials, "Vary", Frame, Transport} : Values(r, n) = GetAll(response[r].headers, n)
               /\ Applied(r, "cors") <=> Worked("cors")
               /\ Applied(r, "security_headers") <=> Worked("security_headers")
    <3>1. \A n \in {Origin, Credentials, "Vary", Frame, Transport} : Values(r, n) = GetAll(response[r].headers, n)
      BY <2>1 DEF Values, Same, Origin, Credentials, Frame, Transport
    <3> QED
      BY <2>1, <3>1, AppliedIsWorked DEF Hook
  <2>3. ASSUME NEW r \in Over, Worked("cors")
        PROVE  /\ Values(r, Origin) = (IF ValueFor(r) = None THEN <<>> ELSE <<ValueFor(r)>>)
               /\ setup.credentials /\ ValueFor(r) # None =>
                    ValueFor(r) # "*" /\ Values(r, Credentials) = <<"true">>
               /\ ValueFor(r) \notin {None, "*"} => "Origin" \in Range(Values(r, "Vary"))
    <3>1. OriginSound(r, response[r].headers) /\ (ValueFor(r) # None => Origin \in DOMAIN response[r].headers)
      BY <2>1, <2>2, <2>3 DEF Sound, MarkedBy
    <3>2. setup.credentials /\ ValueFor(r) # None => ValueFor(r) # "*"
      BY <2>1, ExchangeAssumption DEF TypeOK, ValueFor, AllowedOrigin, asked
    <3>3. ValueFor(r) = None => GetAll(response[r].headers, Origin) = <<>>
      BY <3>1 DEF OriginSound, GetAll
    <3> QED
      BY <2>2, <3>1, <3>2, <3>3 DEF OriginSound
  <2>4. ASSUME NEW r \in Over, "cors" \in Range(setup.hooks), IsPreflight(r)
        PROVE  answered[r] # "route"
    BY <2>1, <2>4 DEF Carried
  <2>5. ASSUME NEW r \in Over, Worked("security_headers")
        PROVE  /\ Len(Values(r, Frame)) = 1
               /\ answered[r] = "route" /\ setup.route = "small" /\ setup.custom # "replace" => Values(r, Frame) = <<"own">>
               /\ Values(r, Transport) = (IF asked[r].https THEN <<"default">> ELSE <<>>)
    <3>1. /\ FrameSound(r, response[r].headers) /\ Frame \in DOMAIN response[r].headers
          /\ asked[r].https => Transport \in DOMAIN response[r].headers
      BY <2>1, <2>2, <2>5 DEF Sound, MarkedBy
    <3>2. ~Failed(r)
      BY <2>2, <2>5 DEF Applied
    <3>3. GetAll(response[r].headers, Frame) \in {<<"own">>, <<"default">>}
      BY <3>1 DEF FrameSound
    <3>4. GetAll(response[r].headers, Transport) = (IF asked[r].https THEN <<"default">> ELSE <<>>)
      BY <3>1 DEF FrameSound, GetAll
    <3>5. answered[r] = "route" /\ setup.route = "small" /\ setup.custom # "replace" =>
            GetAll(response[r].headers, Frame) = <<"own">>
      BY <2>1, <3>2 DEF MarkedBy
    <3> QED
      BY <2>2, <3>3, <3>4, <3>5
  <2> QED
    BY <2>3, <2>4, <2>5 DEF EveryAnswer, ValueFor, Origin, Credentials, Frame, Transport
<1> QED
  BY <1>1, Invariance, PTL

\* The body that goes out is what Content-Encoding and Content-Length say.
THEOREM Honest == Spec => []HonestBody
<1>1. IInv => HonestBody
  <2> SUFFICES ASSUME IInv, NEW r \in Over, sent[r].body # None
               PROVE  /\ Values(r, "Content-Encoding") = sent[r].body[2]
                      /\ Len(sent[r].body[2]) <= 1
                      /\ \A e \in Range(sent[r].body[2]) : e # "own" => Quality(r, e) > 0
                      /\ Values(r, "Content-Length") \in {<<>>, <<sent[r].body>>}
    BY DEF HonestBody
  <2> PICK it : it = response[r]
    OBVIOUS
  <2>1. /\ BodySound(r, it) /\ pc[r] = "done" /\ r \in Request
        /\ Same(it.headers, sent[r].headers, "Content-Encoding")
    BY OverFacts DEF Sound
  <2>2. sent[r].headers = it.headers /\ sent[r].body = Length(it)
    <3>1. asked[r].method # "HEAD" /\ sent[r].body = Length(it)
      BY <2>1 DEF IInv, SentAsIs
    <3>2. sent[r].headers = RawHeaders(it, asked[r].method = "HEAD")
      BY <2>1 DEF IInv, SentAsIs
    <3> QED
      BY <3>1, <3>2 DEF RawHeaders
  <2>3. sent[r].body[2] = it.coded
    BY <2>2 DEF Length
  <2>4. Len(it.coded) <= 1 /\ \A e \in Range(it.coded) : e # "own" => Quality(r, e) > 0
    <3>1. CASE it.coded = <<>>
      BY <3>1 DEF Range
    <3>2. CASE it.coded = <<it.coded[1]>> /\ (it.coded[1] # "own" => Quality(r, it.coded[1]) > 0)
      <4> PICK e : e = it.coded[1]
        OBVIOUS
      <4>1. it.coded = <<e>>
        BY <3>2
      <4>2. Len(it.coded) = 1 /\ Range(it.coded) = {e}
        BY <4>1 DEF Range
      <4> QED
        BY <3>2, <4>2
    <3> QED
      BY <2>1, <3>1, <3>2 DEF BodySound
  <2>5. Values(r, "Content-Length") \in {<<>>, <<sent[r].body>>}
    BY <2>1, <2>2 DEF BodySound, Values, GetAll
  <2> QED
    BY <2>1, <2>2, <2>3, <2>4, <2>5 DEF BodySound, Values
<1> QED
  BY <1>1, Invariance, PTL

\* The types of the variables
THEOREM TypeCorrect == Spec => []TypeOK
<1>1. IInv => TypeOK
  BY DEF IInv
<1> QED
  BY <1>1, Invariance, PTL

-----------------------------------------------------------------------------
(***************************************************************************)
(* Twins: two requests that differ in one thing only, and are answered by  *)
(* the same part of the app.  They need not run at the same time, so that  *)
(* no state has both responses at the same hook.  Traced says that the     *)
(* response of each has a course, from the answer through one hook after   *)
(* the other; the courses of twins are then compared hook by hook.         *)
(***************************************************************************)

Private == {ID, Limit}

\* Alike, but for the headers of these names and the encoding
Loose(names, a, b) ==
  /\ a.status = b.status /\ a.streamed = b.streamed /\ a.size = b.size
  /\ \A n : n \notin names => Same(a.headers, b.headers, n)

\* Alike, but for what is each request's own
Like(a, b) == Loose(Private, a, b) /\ a.coded = b.coded

\* Alike, or different in how the body is encoded and say so in Vary
Near(a, b) ==
  \/ Like(a, b)
  \/ /\ Loose(Private \union BodyNames, a, b)
     /\ "Accept-Encoding" \in Range(GetAll(a.headers, "Vary"))

\* What this part of the app answers to `r`
First(r, who) ==
  CASE who = "route"      -> IF setup.route = "bound" THEN Bound(setup.plan, asked[r]) ELSE Routed(setup.route)
    [] who = "cors"       -> IF AllowedOrigin(r) = None \/ asked[r].wants = "refused" THEN WithType(400, "text", NoHeaders)
                             ELSE Response(204, SetHeader(CommonHeaders(NoHeaders, AllowedOrigin(r)),
                                                          "Access-Control-Allow-Methods", "methods"), "nothing")
    [] who = "rate_limit" -> WithType(429, "text", Only("Retry-After", "seconds"))
    [] who = "app"        -> IF setup.custom = "refuse" THEN WithType(401, "json", NoHeaders) ELSE ServerError

\* The after hook makes `b` of the response `a` to `r`.
Made(r, hook, a, b) ==
  CASE hook = "compress"         -> IF ~Compressible(a) THEN b = a
                                    ELSE IF Pick(r) = {} THEN b = Varied(a)
                                    ELSE \E e \in Pick(r) : b = Encoded(Varied(a), e)
    [] hook = "cors"             -> b = IF Origin \in DOMAIN a.headers \/ ValueFor(r) = None THEN a
                                        ELSE [a EXCEPT !.headers = CommonHeaders(a.headers, ValueFor(r))]
    [] hook = "request_id"       -> Like(a, b)
    [] hook = "rate_limit"       -> Like(a, b)
    [] hook = "security_headers" -> b = [a EXCEPT !.headers = Hardened(r, a.headers)]
    [] hook = "app"              -> /\ setup.custom # "fail"
                                    /\ b = IF setup.custom = "replace" THEN WithType(200, "text", NoHeaders) ELSE a

\* The responses `f` to `r` before each of the first n after hooks
Course(r, who, n, f) ==
  /\ f[1] = First(r, who)
  /\ \A k \in 1..n : Sound(r, f[k])
  /\ \A k \in 1..(n - 1) : \E hook \in Hook : hook = AfterHooks[k] /\ Made(r, hook, f[k], f[k + 1])

Traced(r) ==
  ~Coming(r) =>
    IF Failed(r) THEN response[r] = ServerError
    ELSE \E who, n, f : who = answered[r] /\ n = at[r] /\ f[n] = response[r] /\ Course(r, who, n, f)

\* The rest of what goes out
SentWhole(r) == pc[r] = "done" => sent[r].status = response[r].status /\ sent[r].streamed = response[r].streamed

TInv == \A r \in Request : Traced(r) /\ SentWhole(r)

-----------------------------------------------------------------------------
(* The same change, on headers that are alike                              *)

\* A header is put in both.
LEMMA PutAlike ==
  ASSUME NEW a, NEW b, NEW n, Same(a, b, n), NEW name, NEW values
  PROVE  Same(PutHeader(a, name, values), PutHeader(b, name, values), n)
  BY DEF PutHeader, GetAll, Same

\* Headers.__setitem__ on both
LEMMA SetAlike ==
  ASSUME NEW a, NEW b, NEW n, Same(a, b, n), NEW name, NEW value
  PROVE  Same(SetHeader(a, name, value), SetHeader(b, name, value), n)
  BY PutAlike DEF SetHeader

\* Headers.add() on both
LEMMA AddAlike ==
  ASSUME NEW a, NEW b, NEW n, Same(a, b, n), NEW name, Same(a, b, name), NEW value
  PROVE  Same(AddHeader(a, name, value), AddHeader(b, name, value), n)
<1>1. GetAll(b, name) = GetAll(a, name)
  BY DEF Same
<1> QED
  BY <1>1, PutAlike DEF AddHeader

\* A default on both
LEMMA MissingAlike ==
  ASSUME NEW a, NEW b, NEW n, Same(a, b, n), NEW name, Same(a, b, name), NEW value
  PROVE  Same(SetMissing(a, name, value), SetMissing(b, name, value), n)
<1>1. CASE name \in DOMAIN a
  <2>1. name \in DOMAIN b
    BY <1>1 DEF Same
  <2> QED
    BY <1>1, <2>1 DEF SetMissing
<1>2. CASE name \notin DOMAIN a
  <2>1. name \notin DOMAIN b
    BY <1>2 DEF Same
  <2> QED
    BY <1>2, <2>1, SetAlike DEF SetMissing
<1> QED
  BY <1>1, <1>2

\* common_headers() on both
LEMMA CommonAlike ==
  ASSUME NEW a, NEW b, NEW n, Same(a, b, n), Same(a, b, "Vary"), NEW value
  PROVE  Same(CommonHeaders(a, value), CommonHeaders(b, value), n)
<1> DEFINE allowed(h) == SetHeader(h, "Access-Control-Allow-Origin", value)
           varied(h) == IF value # "*" THEN AddHeader(allowed(h), "Vary", "Origin") ELSE allowed(h)
<1>1. Same(allowed(a), allowed(b), n) /\ Same(allowed(a), allowed(b), "Vary")
  BY SetAlike
<1>2. Same(varied(a), varied(b), n)
  BY <1>1, AddAlike
<1>3. CommonHeaders(a, value) = IF setup.credentials THEN SetHeader(varied(a), "Access-Control-Allow-Credentials", "true") ELSE varied(a)
  BY DEF CommonHeaders
<1>4. CommonHeaders(b, value) = IF setup.credentials THEN SetHeader(varied(b), "Access-Control-Allow-Credentials", "true") ELSE varied(b)
  BY DEF CommonHeaders
<1> HIDE DEF varied
<1> QED
  BY <1>2, <1>3, <1>4, SetAlike

\* The security headers on both
LEMMA HardenedAlike ==
  ASSUME NEW r, NEW q, asked[q].https = asked[r].https,
         NEW a, NEW b, NEW n, Same(a, b, n), Same(a, b, Frame), Same(a, b, Transport)
  PROVE  Same(Hardened(r, a), Hardened(q, b), n)
<1> DEFINE framed(h) == SetMissing(h, Frame, "default")
<1>1. Same(framed(a), framed(b), n) /\ Same(framed(a), framed(b), Transport)
  BY MissingAlike
<1>2. Hardened(r, a) = IF asked[r].https THEN SetMissing(framed(a), Transport, "default") ELSE framed(a)
  BY DEF Hardened
<1>3. Hardened(q, b) = IF asked[r].https THEN SetMissing(framed(b), Transport, "default") ELSE framed(b)
  BY DEF Hardened
<1> HIDE DEF framed
<1> QED
  BY <1>1, <1>2, <1>3, MissingAlike

\* A header is removed from both.
LEMMA RemoveAlike ==
  ASSUME NEW a, NEW b, NEW n, Same(a, b, n), NEW name
  PROVE  Same(RemoveHeader(a, name), RemoveHeader(b, name), n)
  BY DEF RemoveHeader, Restrict, GetAll, Same

-----------------------------------------------------------------------------
(* The same hook, on responses that are alike                              *)

\* Other headers change nothing else.
LEMMA HeadersAlike ==
  ASSUME NEW a, NEW b, IsResponse(a), IsResponse(b), NEW names, Loose(names, a, b),
         NEW h, NEW g, \A n : n \notin names => Same(h, g, n)
  PROVE  Loose(names, [a EXCEPT !.headers = h], [b EXCEPT !.headers = g])
  BY DEF Loose, IsResponse

\* Only the headers of a response change.
LEMMA HeadersKept ==
  ASSUME NEW a, IsResponse(a), NEW h
  PROVE  LET b == [a EXCEPT !.headers = h]
         IN /\ IsResponse(b) /\ b.headers = h /\ b.coded = a.coded
            /\ b.status = a.status /\ b.streamed = a.streamed /\ b.size = a.size
  BY DEF IsResponse

\* Vary gets Accept-Encoding, and that is all.
LEMMA VariedSays ==
  ASSUME NEW r, NEW it, Sound(r, it), NEW varied, varied = Varied(it)
  PROVE  /\ varied.status = it.status /\ varied.streamed = it.streamed /\ varied.size = it.size
         /\ varied.coded = it.coded /\ Sound(r, varied)
         /\ "Accept-Encoding" \in Range(GetAll(varied.headers, "Vary"))
         /\ \A n : n # "Vary" => Same(it.headers, varied.headers, n)
<1>1. Sound(r, varied) /\ \A n : n # "Vary" => Same(it.headers, varied.headers, n)
  BY VariedDoes
<1>2. IsResponse(it) /\ GetAll(it.headers, "Vary") \in Seq({"Origin", "Accept-Encoding"})
  BY DEF Sound, OriginSound
<1>3. CASE "Accept-Encoding" \in Range(GetAll(it.headers, "Vary"))
  BY <1>1, <1>3 DEF Varied
<1>4. CASE "Accept-Encoding" \notin Range(GetAll(it.headers, "Vary"))
  <2> DEFINE headers == AddHeader(it.headers, "Vary", "Accept-Encoding")
  <2>1. "Accept-Encoding" \in Range(GetAll(headers, "Vary"))
    <3>1. GetAll(headers, "Vary") = Append(GetAll(it.headers, "Vary"), "Accept-Encoding")
      BY AddDoes, Zenon
    <3>2. "Accept-Encoding" \in Range(Append(GetAll(it.headers, "Vary"), "Accept-Encoding"))
      BY <1>2, VaryGrows
    <3> QED
      BY <3>1, <3>2, Zenon
  <2>2. varied = [it EXCEPT !.headers = headers]
    BY <1>4 DEF Varied
  <2> HIDE DEF headers
  <2> QED
    BY <1>1, <1>2, <2>1, <2>2, HeadersKept
<1> QED
  BY <1>3, <1>4

\* It does the same to both.
LEMMA VariedAlike ==
  ASSUME NEW r, NEW q, NEW a, NEW b, Sound(r, a), Sound(q, b),
         NEW names, "Vary" \notin names, Loose(names, a, b)
  PROVE  Loose(names, Varied(a), Varied(b))
<1>1. IsResponse(a) /\ IsResponse(b) /\ GetAll(b.headers, "Vary") = GetAll(a.headers, "Vary")
  BY DEF Sound, Loose, Same
<1>2. CASE "Accept-Encoding" \in Range(GetAll(a.headers, "Vary"))
  BY <1>1, <1>2 DEF Varied
<1>3. CASE "Accept-Encoding" \notin Range(GetAll(a.headers, "Vary"))
  <2> DEFINE h == AddHeader(a.headers, "Vary", "Accept-Encoding")
             g == AddHeader(b.headers, "Vary", "Accept-Encoding")
  <2>1. \A n : n \notin names => Same(h, g, n)
    BY AddAlike DEF Loose
  <2>2. Varied(a) = [a EXCEPT !.headers = h] /\ Varied(b) = [b EXCEPT !.headers = g]
    BY <1>1, <1>3 DEF Varied
  <2> HIDE DEF h, g
  <2> QED
    BY <1>1, <2>1, <2>2, HeadersAlike
<1> QED
  BY <1>2, <1>3

\* An encoding changes the body and the headers that are about it.
LEMMA EncodedSays ==
  ASSUME NEW it, IsResponse(it), NEW e, NEW coded, coded = Encoded(it, e)
  PROVE  /\ coded.status = it.status /\ coded.streamed = it.streamed /\ coded.size = it.size
         /\ coded.coded = Append(it.coded, e)
         /\ coded.headers = RemoveHeader(SetHeader(it.headers, "Content-Encoding", e), "Content-Length")
         /\ \A n : n \notin BodyNames => Same(it.headers, coded.headers, n)
<1> DEFINE named == SetHeader(it.headers, "Content-Encoding", e)
           headers == RemoveHeader(named, "Content-Length")
<1>1. \A n : n # "Content-Encoding" => Same(it.headers, named, n)
  BY SetDoes
<1>2. \A n : n # "Content-Length" => Same(named, headers, n)
  BY RemoveDoes
<1>3. coded = [it EXCEPT !.headers = headers, !.coded = Append(it.coded, e)]
  BY DEF Encoded
<1> HIDE DEF named, headers
<1>4. /\ coded.status = it.status /\ coded.streamed = it.streamed /\ coded.size = it.size
      /\ coded.coded = Append(it.coded, e) /\ coded.headers = headers
  BY <1>3 DEF IsResponse
<1>5. \A n : n \notin BodyNames => Same(it.headers, headers, n)
  BY <1>1, <1>2 DEF Same, BodyNames
<1> QED
  BY <1>4, <1>5 DEF named, headers

\* The same encoding, on both
LEMMA EncodedAlike ==
  ASSUME NEW a, NEW b, IsResponse(a), IsResponse(b), Like(a, b), NEW e
  PROVE  Like(Encoded(a, e), Encoded(b, e))
<1> PICK c, d : c = Encoded(a, e) /\ d = Encoded(b, e)
  OBVIOUS
<1>1. /\ c.status = a.status /\ c.streamed = a.streamed /\ c.size = a.size /\ c.coded = Append(a.coded, e)
      /\ c.headers = RemoveHeader(SetHeader(a.headers, "Content-Encoding", e), "Content-Length")
  BY EncodedSays
<1>2. /\ d.status = b.status /\ d.streamed = b.streamed /\ d.size = b.size /\ d.coded = Append(b.coded, e)
      /\ d.headers = RemoveHeader(SetHeader(b.headers, "Content-Encoding", e), "Content-Length")
  BY EncodedSays
<1>3. \A n : n \notin Private => Same(c.headers, d.headers, n)
  BY <1>1, <1>2, SetAlike, RemoveAlike DEF Like, Loose
<1> QED
  BY <1>1, <1>2, <1>3 DEF Like, Loose

\* There is one encoding that a client wants most.
LEMMA PickOne ==
  ASSUME setup \in Setup, NEW r \in Request, NEW e \in Pick(r), NEW d \in Pick(r)
  PROVE  e = d
<1>1. \A encoding : Quality(r, encoding) \in Int
  BY ExchangeAssumption DEF Quality, asked
<1>2. DOMAIN Encodings = 1..Len(Encodings) /\ Len(Encodings) \in Nat
  BY ExchangeAssumption
<1>3. PICK i \in DOMAIN Encodings :
        /\ e = Encodings[i]
        /\ \A j \in DOMAIN Encodings :
             IF j < i THEN Quality(r, Encodings[j]) < Quality(r, Encodings[i])
             ELSE Quality(r, Encodings[j]) <= Quality(r, Encodings[i])
  BY DEF Pick
<1>4. PICK k \in DOMAIN Encodings :
        /\ d = Encodings[k]
        /\ \A j \in DOMAIN Encodings :
             IF j < k THEN Quality(r, Encodings[j]) < Quality(r, Encodings[k])
             ELSE Quality(r, Encodings[j]) <= Quality(r, Encodings[k])
  BY DEF Pick
<1>5. Quality(r, Encodings[i]) \in Int /\ Quality(r, Encodings[k]) \in Int
  BY <1>1
<1>6. ~(i < k) /\ ~(k < i)
  BY <1>2, <1>3, <1>4, <1>5
<1>7. i = k
  BY <1>2, <1>6
<1> QED
  BY <1>3, <1>4, <1>7

\* compress() chooses alike.
LEMMA CompressibleAlike ==
  ASSUME NEW a, NEW b, Like(a, b)
  PROVE  Compressible(a) <=> Compressible(b)
<1>1. \A n \in {"Content-Encoding", "Cache-Control", "Content-Type"} : Same(a.headers, b.headers, n)
  BY DEF Like, Loose, Private, ID, Limit
<1> QED
  BY <1>1 DEF Like, Loose, Compressible, Same

\* The two requests are told apart by no after hook but compress().
Twin(r, q) == ValueFor(r) = ValueFor(q) /\ asked[r].https = asked[q].https

\* A Vary that has Accept-Encoding keeps it.
VariesStill(a, b) ==
  "Accept-Encoding" \in Range(GetAll(a.headers, "Vary")) => "Accept-Encoding" \in Range(GetAll(b.headers, "Vary"))

\* cors(), security_headers() and the app's own hook make alike responses of
\* alike responses.
LEMMA MadeLoose ==
  ASSUME NEW r, NEW q, Twin(r, q), NEW hook \in {"cors", "security_headers", "app"},
         NEW a, NEW b, NEW c, NEW d, Sound(r, a), Sound(q, c), Made(r, hook, a, b), Made(q, hook, c, d),
         NEW names, \A n \in names : n \notin {Origin, "Vary", Frame, Transport}, Loose(names, a, c)
  PROVE  \/ b = d
         \/ /\ Loose(names, b, d) /\ b.coded = a.coded /\ d.coded = c.coded
            /\ VariesStill(a, b)
<1>1. IsResponse(a) /\ IsResponse(c) /\ GetAll(a.headers, "Vary") \in Seq({"Origin", "Accept-Encoding"})
  BY DEF Sound, OriginSound
<1>2. \A n \in {Origin, "Vary", Frame, Transport} : Same(a.headers, c.headers, n)
  BY DEF Loose
<1>3. CASE b = a /\ d = c
  BY <1>3 DEF VariesStill
<1>4. CASE hook = "cors" /\ ~(b = a /\ d = c)
  <2>1. ValueFor(q) = ValueFor(r) /\ (Origin \in DOMAIN c.headers <=> Origin \in DOMAIN a.headers)
    BY <1>2 DEF Twin, Same
  <2> DEFINE h == CommonHeaders(a.headers, ValueFor(r))
             g == CommonHeaders(c.headers, ValueFor(r))
  <2>2. b = [a EXCEPT !.headers = h] /\ d = [c EXCEPT !.headers = g]
    BY <1>4, <2>1 DEF Made
  <2>3. \A n : n \notin names => Same(h, g, n)
    BY <1>2, CommonAlike DEF Loose
  <2>4. Range(GetAll(a.headers, "Vary")) \subseteq Range(GetAll(h, "Vary"))
    BY <1>1, CommonDoes, VaryGrows
  <2> HIDE DEF h, g
  <2>5. Loose(names, b, d)
    BY <1>1, <2>2, <2>3, HeadersAlike
  <2>6. b.headers = h /\ b.coded = a.coded /\ d.coded = c.coded
    BY <1>1, <2>2, HeadersKept
  <2> QED
    BY <2>4, <2>5, <2>6 DEF VariesStill
<1>5. CASE hook = "security_headers"
  <2> DEFINE h == Hardened(r, a.headers)
             g == Hardened(q, c.headers)
  <2>1. b = [a EXCEPT !.headers = h] /\ d = [c EXCEPT !.headers = g]
    BY <1>5 DEF Made
  <2>2. \A n : n \notin names => Same(h, g, n)
    BY <1>2, HardenedAlike DEF Loose, Twin
  <2>3. \A n : n \notin FrameNames => Same(a.headers, b.headers, n)
    BY <2>1, SecureDoes
  <2> HIDE DEF h, g
  <2>4. Same(a.headers, h, "Vary")
    BY <1>1, <2>1, <2>3, HeadersKept DEF FrameNames, Frame, Transport
  <2> QED
    BY <1>1, <2>1, <2>2, <2>4, HeadersAlike, HeadersKept DEF Same, VariesStill
<1>6. CASE hook = "app"
  BY <1>3, <1>6 DEF Made
<1> QED
  BY <1>3, <1>4, <1>5, <1>6

\* Alike is alike to both sides.
LEMMA LikeBoth ==
  ASSUME NEW a, NEW b, NEW c, NEW d, Like(a, b), Like(c, d)
  PROVE  /\ Like(a, c) => Like(b, d)
         /\ Loose(Private \union BodyNames, a, c) => Loose(Private \union BodyNames, b, d)
  BY DEF Like, Loose, Same

\* Of two requests that accept the same encodings, every after hook makes
\* alike responses of alike responses.
LEMMA MadeLike ==
  ASSUME setup \in Setup, NEW r \in Request, NEW q \in Request, Twin(r, q), Pick(r) = Pick(q), NEW hook \in Hook,
         NEW a, NEW b, NEW c, NEW d, Sound(r, a), Sound(q, c), Made(r, hook, a, b), Made(q, hook, c, d), Like(a, c)
  PROVE  Like(b, d)
<1>1. ASSUME NEW it PROVE Like(it, it)
  BY DEF Like, Loose, Same
<1>2. CASE hook \in {"cors", "security_headers", "app"}
  <2>1. \A n \in Private : n \notin {Origin, "Vary", Frame, Transport}
    BY DEF Private, ID, Limit, Origin, Frame, Transport
  <2>2. Loose(Private, a, c) /\ a.coded = c.coded
    BY DEF Like
  <2>3. b = d \/ (Loose(Private, b, d) /\ b.coded = a.coded /\ d.coded = c.coded)
    BY <1>2, <2>1, <2>2, MadeLoose
  <2> QED
    BY <1>1, <2>2, <2>3 DEF Like
<1>3. CASE hook \in {"request_id", "rate_limit"}
  <2>1. Like(a, b) /\ Like(c, d)
    BY <1>3 DEF Made
  <2> QED
    BY <2>1, LikeBoth
<1>4. CASE hook = "compress"
  <2>1. Compressible(a) <=> Compressible(c)
    BY CompressibleAlike
  <2>2. CASE ~Compressible(a)
    BY <1>4, <2>1, <2>2 DEF Made
  <2>3. CASE Compressible(a)
    <3> PICK va, vc : va = Varied(a) /\ vc = Varied(c)
      OBVIOUS
    <3>1. Sound(r, va) /\ va.coded = a.coded /\ Sound(q, vc) /\ vc.coded = c.coded
      BY VariedSays
    <3>2. "Vary" \notin Private
      BY DEF Private, ID, Limit
    <3>3. Loose(Private, va, vc)
      BY <3>2, VariedAlike DEF Like
    <3>4. Like(va, vc) /\ IsResponse(va) /\ IsResponse(vc)
      BY <3>1, <3>3 DEF Like, Sound
    <3>5. CASE Pick(r) = {}
      BY <1>4, <2>1, <2>3, <3>4, <3>5 DEF Made
    <3>6. CASE Pick(r) # {}
      <4>1. PICK e \in Pick(r) : b = Encoded(va, e)
        BY <1>4, <2>3, <3>6 DEF Made
      <4>2. PICK e2 \in Pick(r) : d = Encoded(vc, e2)
        BY <1>4, <2>1, <2>3, <3>6 DEF Made
      <4>3. e = e2
        BY PickOne
      <4> QED
        BY <3>4, <4>1, <4>2, <4>3, EncodedAlike
    <3> QED
      BY <3>5, <3>6
  <2> QED
    BY <2>2, <2>3
<1> QED
  BY <1>2, <1>3, <1>4 DEF Hook

\* Once Vary has Accept-Encoding, compress() changes nothing but the body
\* and the headers that are about it.
LEMMA CompressLoose ==
  ASSUME NEW r, NEW a, NEW b, Sound(r, a), Made(r, "compress", a, b), NEW names, BodyNames \subseteq names
  PROVE  /\ Compressible(a) => Loose(names, b, Varied(a)) /\ "Accept-Encoding" \in Range(GetAll(b.headers, "Vary"))
         /\ ~Compressible(a) => b = a
<1>1. CASE ~Compressible(a)
  BY <1>1 DEF Made
<1>2. CASE Compressible(a)
  <2> PICK va : va = Varied(a)
    OBVIOUS
  <2>1. Sound(r, va) /\ "Accept-Encoding" \in Range(GetAll(va.headers, "Vary"))
    BY VariedSays
  <2>2. CASE b = va
    BY <1>2, <2>1, <2>2 DEF Loose, Same
  <2>3. CASE b # va
    <3>1. PICK e : b = Encoded(va, e)
      BY <1>2, <2>3 DEF Made
    <3>2. /\ b.status = va.status /\ b.streamed = va.streamed /\ b.size = va.size
          /\ \A n : n \notin BodyNames => Same(va.headers, b.headers, n)
      BY <2>1, <3>1, EncodedSays DEF Sound
    <3>3. Loose(names, b, va)
      BY <3>2 DEF Loose, Same
    <3>4. Same(va.headers, b.headers, "Vary")
      BY <3>2 DEF BodyNames
    <3> QED
      BY <1>2, <2>1, <3>3, <3>4 DEF Same
  <2> QED
    BY <2>2, <2>3
<1> QED
  BY <1>1, <1>2

\* Of two requests, every after hook makes responses that are alike, or
\* differ in their encoding and say so, of such responses.
LEMMA MadeNear ==
  ASSUME NEW r, NEW q, Twin(r, q), NEW hook \in Hook,
         NEW a, NEW b, NEW c, NEW d, Sound(r, a), Sound(q, c), Made(r, hook, a, b), Made(q, hook, c, d), Near(a, c)
  PROVE  Near(b, d)
<1> DEFINE names == Private \union BodyNames
<1>1. ASSUME NEW it PROVE Near(it, it)
  BY DEF Near, Like, Loose, Same
<1>2. Loose(names, a, c)
  BY DEF Near, Like, Loose
<1>3. \A n \in names : n \notin {Origin, "Vary", Frame, Transport}
  BY DEF Private, BodyNames, ID, Limit, Origin, Frame, Transport
<1>4. CASE hook \in {"cors", "security_headers", "app"}
  <2>1. CASE Like(a, c)
    <3>1. \A n \in Private : n \notin {Origin, "Vary", Frame, Transport}
      BY <1>3
    <3>2. b = d \/ (Loose(Private, b, d) /\ b.coded = a.coded /\ d.coded = c.coded)
      <4> HIDE DEF names
      <4>1. PICK kept : kept = Private
        OBVIOUS
      <4>2. Loose(kept, a, c) /\ \A n \in kept : n \notin {Origin, "Vary", Frame, Transport}
        BY <2>1, <3>1, <4>1 DEF Like
      <4>3. b = d \/ (Loose(kept, b, d) /\ b.coded = a.coded /\ d.coded = c.coded)
        BY <1>4, <4>2, MadeLoose
      <4> QED
        BY <4>1, <4>3
    <3> QED
      BY <1>1, <2>1, <3>2 DEF Like, Near
  <2>2. CASE "Accept-Encoding" \in Range(GetAll(a.headers, "Vary"))
    <3>1. \/ b = d
          \/ Loose(names, b, d) /\ VariesStill(a, b)
      <4> HIDE DEF names
      <4> QED
        BY <1>2, <1>3, <1>4, MadeLoose
    <3> QED
      BY <1>1, <2>2, <3>1 DEF Near, VariesStill
  <2> QED
    BY <2>1, <2>2 DEF Near
<1>5. CASE hook \in {"request_id", "rate_limit"}
  <2>1. Like(a, b) /\ Like(c, d)
    BY <1>5 DEF Made
  <2>2. Same(a.headers, b.headers, "Vary")
    BY <2>1 DEF Like, Loose, Private, ID, Limit
  <2> QED
    BY <2>1, <2>2, LikeBoth DEF Near, Same
<1>6. CASE hook = "compress"
  <2> PICK va, vc : va = Varied(a) /\ vc = Varied(c)
    OBVIOUS
  <2>1. /\ Compressible(a) => Loose(names, b, va) /\ "Accept-Encoding" \in Range(GetAll(b.headers, "Vary"))
        /\ ~Compressible(a) => b = a
    BY <1>6, CompressLoose
  <2>2. /\ Compressible(c) => Loose(names, d, vc) /\ "Accept-Encoding" \in Range(GetAll(d.headers, "Vary"))
        /\ ~Compressible(c) => d = c
    BY <1>6, CompressLoose
  <2>3. Loose(names, va, vc)
    BY <1>2, <1>3, VariedAlike
  <2>4. CASE Like(a, c)
    <3>1. Compressible(a) <=> Compressible(c)
      BY <2>4, CompressibleAlike
    <3>2. CASE Compressible(a)
      <4>1. Loose(names, b, d)
        BY <2>1, <2>2, <2>3, <3>1, <3>2 DEF Loose, Same
      <4> QED
        BY <2>1, <3>2, <4>1 DEF Near
    <3>3. CASE ~Compressible(a)
      BY <2>1, <2>2, <3>1, <3>3
    <3> QED
      BY <3>2, <3>3
  <2>5. CASE "Accept-Encoding" \in Range(GetAll(a.headers, "Vary"))
    <3>1. "Accept-Encoding" \in Range(GetAll(c.headers, "Vary"))
      BY <1>2, <1>3, <2>5 DEF Loose, Same
    <3>2. va = a /\ vc = c
      BY <2>5, <3>1 DEF Varied
    <3>3. Loose(names, b, a) /\ Loose(names, d, c)
      BY <2>1, <2>2, <3>2 DEF Loose, Same
    <3>4. Loose(names, b, d)
      BY <1>2, <3>3 DEF Loose, Same
    <3>5. "Accept-Encoding" \in Range(GetAll(b.headers, "Vary"))
      BY <2>1, <2>5
    <3> QED
      BY <3>4, <3>5 DEF Near
  <2> QED
    BY <2>4, <2>5 DEF Near
<1> QED
  BY <1>4, <1>5, <1>6 DEF Hook

-----------------------------------------------------------------------------
(* The same course                                                         *)

\* A part of the app answers twins alike.
LEMMA FirstAlike ==
  ASSUME NEW r, NEW q, NEW who, AllowedOrigin(r) = AllowedOrigin(q), asked[r].wants = asked[q].wants,
         asked[r].fields = asked[q].fields, asked[r].body = asked[q].body, asked[r].credentials = asked[q].credentials
  PROVE  First(r, who) = First(q, who)
<1>1. Bound(setup.plan, asked[r]) = Bound(setup.plan, asked[q])
  BY DEF Bound
<1> QED
  BY <1>1 DEF First

\* The courses of twins that accept the same encodings are alike to the end.
LEMMA CoursesLike ==
  ASSUME setup \in Setup, NEW r \in Request, NEW q \in Request, Twin(r, q), Pick(r) = Pick(q), NEW who, First(r, who) = First(q, who),
         NEW n \in 1..(Len(setup.hooks) + 1), NEW f, NEW g, Course(r, who, n, f), Course(q, who, n, g)
  PROVE  Like(f[n], g[n])
<1> DEFINE Bad == {k \in 1..n : ~Like(f[k], g[k])}
<1>1. n \in Nat /\ n \in 1..n
  BY HooksFacts
<1> SUFFICES ASSUME Bad # {} PROVE FALSE
  BY <1>1
<1>2. PICK k \in Bad : \A j \in Bad : k <= j
  <2>1. Bad \subseteq Nat
    BY <1>1
  <2> HIDE DEF Bad
  <2> QED
    BY <2>1, LeastOf
<1>3. k \in 1..n /\ ~Like(f[k], g[k]) /\ \A j \in 1..(k - 1) : Like(f[j], g[j])
  BY <1>1, <1>2
<1>4. f[1] = g[1]
  BY DEF Course
<1>5. k # 1
  BY <1>3, <1>4 DEF Like, Loose, Same
<1>6. PICK j \in 1..(n - 1) : j + 1 = k /\ Like(f[j], g[j])
  <2>1. k - 1 \in 1..(n - 1) /\ (k - 1) + 1 = k /\ k - 1 \in 1..(k - 1)
    BY <1>1, <1>3, <1>5
  <2> QED
    BY <1>3, <2>1
<1>7. j \in 1..n
  BY <1>1, <1>6
<1>8. Sound(r, f[j]) /\ Sound(q, g[j])
  BY <1>7 DEF Course
<1>9. PICK hook \in Hook : Made(r, hook, f[j], f[k]) /\ Made(q, hook, g[j], g[k])
  BY <1>6 DEF Course
<1>10. Like(f[k], g[k])
  BY <1>6, <1>8, <1>9, MadeLike
<1> QED
  BY <1>3, <1>10

\* The courses of twins that accept different encodings stay near.
LEMMA CoursesNear ==
  ASSUME setup \in Setup, NEW r \in Request, NEW q \in Request, Twin(r, q), NEW who, First(r, who) = First(q, who),
         NEW n \in 1..(Len(setup.hooks) + 1), NEW f, NEW g, Course(r, who, n, f), Course(q, who, n, g)
  PROVE  Near(f[n], g[n])
<1> DEFINE Bad == {k \in 1..n : ~Near(f[k], g[k])}
<1>1. n \in Nat /\ n \in 1..n
  BY HooksFacts
<1> SUFFICES ASSUME Bad # {} PROVE FALSE
  BY <1>1
<1>2. PICK k \in Bad : \A j \in Bad : k <= j
  <2>1. Bad \subseteq Nat
    BY <1>1
  <2> HIDE DEF Bad
  <2> QED
    BY <2>1, LeastOf
<1>3. k \in 1..n /\ ~Near(f[k], g[k]) /\ \A j \in 1..(k - 1) : Near(f[j], g[j])
  BY <1>1, <1>2
<1>4. f[1] = g[1]
  BY DEF Course
<1>5. k # 1
  BY <1>3, <1>4 DEF Near, Like, Loose, Same
<1>6. PICK j \in 1..(n - 1) : j + 1 = k /\ Near(f[j], g[j])
  <2>1. k - 1 \in 1..(n - 1) /\ (k - 1) + 1 = k /\ k - 1 \in 1..(k - 1)
    BY <1>1, <1>3, <1>5
  <2> QED
    BY <1>3, <2>1
<1>7. j \in 1..n
  BY <1>1, <1>6
<1>8. Sound(r, f[j]) /\ Sound(q, g[j])
  BY <1>7 DEF Course
<1>9. PICK hook \in Hook : Made(r, hook, f[j], f[k]) /\ Made(q, hook, g[j], g[k])
  BY <1>6 DEF Course
<1>10. Near(f[k], g[k])
  BY <1>6, <1>8, <1>9, MadeNear
<1> QED
  BY <1>3, <1>10

-----------------------------------------------------------------------------
(* Every response has a course.                                            *)

\* What a course is depends on the app alone.
LEMMA CourseKept ==
  ASSUME NEW r, UNCHANGED setup, NEW who, NEW n, NEW f
  PROVE  Course(r, who, n, f)' <=> Course(r, who, n, f)
<1>1. First(r, who)' = First(r, who)
  BY DEF First, AllowedOrigin, CommonHeaders, asked
<1>2. ASSUME NEW it PROVE Sound(r, it)' <=> Sound(r, it)
  BY DEF Sound, BodySound, OriginSound, FrameSound, Quality, ValueFor, AllowedOrigin, asked
<1>3. ASSUME NEW hook, NEW a, NEW b PROVE Made(r, hook, a, b)' <=> Made(r, hook, a, b)
  <2>1. Pick(r)' = Pick(r)
    BY DEF Pick, Quality, asked
  <2>2. ValueFor(r)' = ValueFor(r)
    BY DEF ValueFor, AllowedOrigin, asked
  <2>3. CommonHeaders(a.headers, ValueFor(r))' = CommonHeaders(a.headers, ValueFor(r))
    BY <2>2 DEF CommonHeaders
  <2>4. Hardened(r, a.headers)' = Hardened(r, a.headers)
    BY DEF Hardened, asked
  <2> QED
    BY <2>1, <2>2, <2>3, <2>4 DEF Made
<1>4. AfterHooks' = AfterHooks
  BY DEF AfterHooks
<1> QED
  BY <1>1, <1>2, <1>3, <1>4 DEF Course

\* A task that does not move keeps its course.
LEMMA StillTraced ==
  ASSUME NEW q, UNCHANGED setup, Traced(q), pc'[q] = pc[q], at'[q] = at[q], response'[q] = response[q], answered'[q] = answered[q]
  PROVE  Traced(q)'
<1>1. (Coming(q)' <=> Coming(q)) /\ (Failed(q)' <=> Failed(q))
  BY DEF Coming, Failed, AfterHooks
<1>2. CASE Coming(q) \/ Failed(q)
  BY <1>1, <1>2 DEF Traced
<1>3. CASE ~Coming(q) /\ ~Failed(q)
  <2>1. PICK who, n, f : who = answered[q] /\ n = at[q] /\ f[n] = response[q] /\ Course(q, who, n, f)
    BY <1>3 DEF Traced
  <2>2. Course(q, who, n, f)'
    BY <2>1, CourseKept
  <2>3. \E who1, n1, f1 : who1 = answered'[q] /\ n1 = at'[q] /\ f1[n1] = response'[q] /\ Course(q, who1, n1, f1)'
    BY <2>1, <2>2
  <2> QED
    BY <1>1, <1>3, <2>3 DEF Traced
<1> QED
  BY <1>2, <1>3

\* A step is one task's, and the others keep their courses.
LEMMA OneTraced ==
  ASSUME TInv, UNCHANGED setup, NEW r \in Request, Traced(r)', SentWhole(r)',
         \A q \in Request \ {r} : /\ pc'[q] = pc[q] /\ at'[q] = at[q] /\ sent'[q] = sent[q]
                                  /\ response'[q] = response[q] /\ answered'[q] = answered[q]
  PROVE  TInv'
<1>1. ASSUME NEW q \in Request \ {r} PROVE Traced(q)' /\ SentWhole(q)'
  <2>1. Traced(q) /\ SentWhole(q)
    BY DEF TInv
  <2>2. Traced(q)'
    BY <2>1, StillTraced
  <2>3. SentWhole(q)'
    BY <2>1 DEF SentWhole
  <2> QED
    BY <2>2, <2>3
<1> QED
  BY <1>1 DEF TInv

\* A before hook that passes leaves no response.
LEMMA PassesTraced ==
  ASSUME IInv, TInv, NEW r \in Request, UNCHANGED <<setup, sent>>, Passes(r)
  PROVE  TInv'
<1>1. pc'[r] = "before" /\ \A q \in Request \ {r} : pc'[q] = pc[q] /\ at'[q] = at[q]
  BY DEF IInv, TypeOK, Passes
<1>2. UNCHANGED <<response, answered>>
  BY DEF Passes
<1>3. Traced(r)' /\ SentWhole(r)'
  BY <1>1 DEF Traced, SentWhole, Coming
<1> QED
  BY <1>1, <1>2, <1>3, OneTraced

\* An answer is the start of a course.
LEMMA AnswersTraced ==
  ASSUME IInv, IInv', TInv, NEW r \in Request, UNCHANGED <<setup, sent>>, NEW who, NEW answer, Answers(r, who, answer),
         answer = First(r, who)
  PROVE  TInv'
<1>1. /\ pc'[r] = "after" /\ at'[r] = 1 /\ response'[r] = answer /\ answered'[r] = who
      /\ \A q \in Request \ {r} : /\ pc'[q] = pc[q] /\ at'[q] = at[q]
                                  /\ response'[q] = response[q] /\ answered'[q] = answered[q]
  BY DEF IInv, TypeOK, Answers
<1>2. ~Failed(r)'
  <2>1. setup' \in Setup /\ DOMAIN AfterHooks = 1..Len(setup.hooks)
    BY HooksFacts DEF IInv, TypeOK
  <2>2. AfterHooks' = AfterHooks
    BY DEF AfterHooks
  <2> QED
    BY <1>1, <2>1, <2>2 DEF Failed
<1>3. Sound(r, answer)
  <2>1. Sound(r, response[r])'
    BY <1>1 DEF IInv, Marked, Coming
  <2> QED
    BY <1>1, <2>1, SoundPrimed
<1> DEFINE f == [k \in {1} |-> answer]
<1>4. f[1] = answer
  OBVIOUS
<1> HIDE DEF f
<1>5. Course(r, who, 1, f)
  BY <1>3, <1>4 DEF Course
<1>6. Course(r, who, 1, f)'
  BY <1>5, CourseKept
<1>7. \E who1, n1, f1 : who1 = answered'[r] /\ n1 = at'[r] /\ f1[n1] = response'[r] /\ Course(r, who1, n1, f1)'
  BY <1>1, <1>4, <1>6
<1>8. Traced(r)'
  BY <1>2, <1>7 DEF Traced
<1>9. SentWhole(r)'
  BY <1>1 DEF SentWhole
<1> QED
  BY <1>1, <1>8, <1>9, OneTraced

\* An after hook is the next step of one.
LEMMA ChangesTraced ==
  ASSUME IInv, IInv', TInv, NEW r \in Request, NEW hook \in Hook, AtAfter(r, hook), NEW it, Changes(r, it),
         Made(r, hook, response[r], it)
  PROVE  TInv'
<1>1. /\ UNCHANGED <<setup, pc, answered, sent>> /\ pc[r] = "after"
      /\ at[r] \in DOMAIN AfterHooks /\ AfterHooks[at[r]] = hook
      /\ at'[r] = at[r] + 1 /\ response'[r] = it
      /\ \A q \in Request \ {r} : at'[q] = at[q] /\ response'[q] = response[q]
  BY DEF IInv, TypeOK, Changes, AtAfter
<1>2. /\ DOMAIN AfterHooks = 1..Len(setup.hooks) /\ Len(setup.hooks) \in Nat
      /\ AfterHooks' = AfterHooks /\ ~Coming(r)
  BY <1>1, HooksFacts DEF IInv, TypeOK, AfterHooks, Coming
<1>3. ~Failed(r) /\ at[r] \in Nat
  <2>1. Failed(r) => at[r] > Len(setup.hooks)
    BY <1>2 DEF IInv, Marked
  <2> QED
    BY <1>1, <1>2, <2>1
<1>4. hook = "app" => setup.custom # "fail"
  BY DEF Made
<1>5. ~Failed(r)'
  BY <1>1, <1>2, <1>3, <1>4 DEF Failed
<1>6. PICK who, n, f : who = answered[r] /\ n = at[r] /\ f[n] = response[r] /\ Course(r, who, n, f)
  BY <1>2, <1>3 DEF TInv, Traced
<1>7. Sound(r, it)
  <2>1. Sound(r, response[r])'
    BY <1>1 DEF IInv, Marked, Coming
  <2> QED
    BY <1>1, <2>1, SoundPrimed
<1> DEFINE g == [k \in 1..(n + 1) |-> IF k = n + 1 THEN it ELSE f[k]]
<1>8. n \in Nat \ {0}
  BY <1>1, <1>2, <1>6
<1>9. g[n + 1] = it /\ \A k \in 1..n : g[k] = f[k]
  BY <1>8
<1> HIDE DEF g
<1>10. Course(r, who, n + 1, g)
  <2>1. g[1] = First(r, who)
    BY <1>6, <1>8, <1>9 DEF Course
  <2>2. \A k \in 1..(n + 1) : Sound(r, g[k])
    BY <1>6, <1>7, <1>8, <1>9 DEF Course
  <2>3. ASSUME NEW k \in 1..n PROVE \E h \in Hook : h = AfterHooks[k] /\ Made(r, h, g[k], g[k + 1])
    <3>1. CASE k = n
      <4>1. g[k] = response[r] /\ g[k + 1] = it /\ AfterHooks[k] = hook
        BY <1>1, <1>6, <1>8, <1>9, <3>1
      <4> QED
        BY <4>1
    <3>2. CASE k # n
      <4>1. k \in 1..(n - 1) /\ g[k] = f[k] /\ g[k + 1] = f[k + 1]
        BY <1>8, <1>9, <3>2
      <4> QED
        BY <1>6, <4>1 DEF Course
    <3> QED
      BY <3>1, <3>2
  <2>4. (n + 1) - 1 = n
    BY <1>8
  <2> QED
    BY <2>1, <2>2, <2>3, <2>4 DEF Course
<1>11. Course(r, who, n + 1, g)'
  BY <1>1, <1>10, CourseKept
<1>12. \E who1, n1, f1 : who1 = answered'[r] /\ n1 = at'[r] /\ f1[n1] = response'[r] /\ Course(r, who1, n1, f1)'
  BY <1>1, <1>6, <1>9, <1>11
<1>13. Traced(r)'
  BY <1>5, <1>12 DEF Traced
<1>14. SentWhole(r)'
  BY <1>1 DEF SentWhole
<1> QED
  BY <1>1, <1>13, <1>14, OneTraced

\* Every before hook, and the route, passes or starts a course.
LEMMA BeforeTraced ==
  ASSUME IInv, IInv', TInv, NEW r \in Request,
         \/ Preflight(r) \/ Assign(r) \/ Exempt(r) \/ Check(r) \/ Ask(r) \/ StoreDecides(r) \/ StoreAnswers(r)
         \/ AppBefore(r) \/ Dispatch(r)
  PROVE  TInv'
<1>1. ASSUME UNCHANGED <<setup, sent>>, Passes(r) PROVE TInv'
  BY <1>1, PassesTraced
<1>2. ASSUME UNCHANGED <<setup, sent>>, NEW who, NEW answer, Answers(r, who, answer), answer = First(r, who) PROVE TInv'
  BY <1>2, AnswersTraced
<1>3. ASSUME UNCHANGED <<setup, at, response, answered, sent>>, NEW where \in {"asking", "told"}, pc' = [pc EXCEPT ![r] = where]
      PROVE  TInv'
  <2>1. pc'[r] = where /\ \A q \in Request \ {r} : pc'[q] = pc[q]
    BY <1>3 DEF IInv, TypeOK
  <2>2. Traced(r)' /\ SentWhole(r)'
    BY <2>1 DEF Traced, SentWhole, Coming
  <2> QED
    BY <1>3, <2>1, <2>2, OneTraced
<1>4. CASE Preflight(r)
  <2>1. UNCHANGED <<setup, sent>>
    BY <1>4 DEF Preflight
  <2>2. CASE Passes(r)
    BY <1>1, <2>1, <2>2
  <2>3. CASE (AllowedOrigin(r) = None \/ asked[r].wants = "refused") /\ Answers(r, "cors", WithType(400, "text", NoHeaders))
    <3>1. First(r, "cors") = WithType(400, "text", NoHeaders)
      BY <2>3 DEF First
    <3> QED
      BY <1>2, <2>1, <2>3, <3>1
  <2> DEFINE allowed == Response(204, SetHeader(CommonHeaders(NoHeaders, AllowedOrigin(r)),
                                                "Access-Control-Allow-Methods", "methods"), "nothing")
  <2>4. CASE AllowedOrigin(r) # None /\ asked[r].wants = "fine" /\ Answers(r, "cors", allowed)
    <3>1. First(r, "cors") = allowed
      BY <2>4 DEF First
    <3> HIDE DEF allowed
    <3> QED
      BY <1>2, <2>1, <2>4, <3>1
  <2> QED
    BY <1>4, <2>2, <2>3, <2>4 DEF Preflight
<1>5. CASE Assign(r) \/ Exempt(r)
  BY <1>1, <1>5 DEF Assign, Exempt
<1>6. ASSUME NEW decision, Decided(r, decision), UNCHANGED <<setup, sent>>
      PROVE  TInv'
  <2>1. First(r, "rate_limit") = WithType(429, "text", Only("Retry-After", "seconds"))
    BY DEF First
  <2> QED
    BY <1>1, <1>2, <1>6, <2>1 DEF Decided
<1>7. CASE Check(r) \/ StoreAnswers(r)
  BY <1>6, <1>7 DEF Check, StoreAnswers
<1>8. CASE Ask(r) \/ StoreDecides(r)
  BY <1>3, <1>8 DEF Ask, StoreDecides
<1>9. CASE AppBefore(r)
  <2>1. First(r, "app") = IF setup.custom = "refuse" THEN WithType(401, "json", NoHeaders) ELSE ServerError
    BY DEF First
  <2> QED
    BY <1>1, <1>2, <1>9, <2>1 DEF AppBefore
<1>10. CASE Dispatch(r)
  <2>1. First(r, "route") = IF setup.route = "bound" THEN Bound(setup.plan, asked[r]) ELSE Routed(setup.route)
    BY DEF First
  <2> QED
    BY <1>2, <1>10, <2>1 DEF Dispatch
<1> QED
  BY <1>4, <1>5, <1>7, <1>8, <1>9, <1>10

\* Every after hook takes a course on, but one that fails.
LEMMA AfterTraced ==
  ASSUME IInv, IInv', TInv, NEW r \in Request,
         \/ CompressResponse(r) \/ AddCorsHeaders(r) \/ SendBack(r) \/ AddLimitHeaders(r)
         \/ AddSecurityHeaders(r) \/ AppAfter(r)
  PROVE  TInv'
<1> PICK it : it = response[r]
  OBVIOUS
<1>1. ASSUME NEW hook \in Hook, AtAfter(r, hook), NEW other, Changes(r, other), Made(r, hook, it, other) PROVE TInv'
  BY <1>1, ChangesTraced
<1>2. CASE CompressResponse(r)
  <2>1. PICK other : Changes(r, other) /\ AtAfter(r, "compress") /\
          (IF ~Compressible(it) THEN other = it
           ELSE IF Pick(r) = {} THEN other = Varied(it)
           ELSE \E e \in Pick(r) : other = Encoded(Varied(it), e))
    BY <1>2 DEF CompressResponse
  <2>2. Made(r, "compress", it, other) /\ "compress" \in Hook
    BY <2>1 DEF Made, Hook
  <2> QED
    BY <1>1, <2>1, <2>2
<1>3. CASE AddCorsHeaders(r)
  <2> DEFINE other == IF Origin \in DOMAIN it.headers \/ ValueFor(r) = None THEN it
                      ELSE [it EXCEPT !.headers = CommonHeaders(it.headers, ValueFor(r))]
  <2>1. AtAfter(r, "cors") /\ Changes(r, other)
    BY <1>3 DEF AddCorsHeaders, ValueFor, Origin
  <2>2. Made(r, "cors", it, other) /\ "cors" \in Hook
    BY DEF Made, Hook
  <2> HIDE DEF other
  <2> QED
    BY <1>1, <2>1, <2>2
<1>4. ASSUME NEW hook \in {"request_id", "rate_limit"}, AtAfter(r, hook), NEW name \in Private, NEW value, NEW other, Changes(r, other),
             other = it \/ other = [it EXCEPT !.headers = SetHeader(it.headers, name, value)]
      PROVE  TInv'
  <2> PICK headers : headers = SetHeader(it.headers, name, value)
    OBVIOUS
  <2>1. IsResponse(it)
    BY <1>4, AtAfterSound DEF Sound
  <2>2. \A n : n \notin Private => Same(it.headers, headers, n)
    BY <1>4, SetDoes
  <2>3. Like(it, other)
    <3>1. CASE other = it
      BY <3>1 DEF Like, Loose, Same
    <3>2. CASE other = [it EXCEPT !.headers = headers]
      <4>1. /\ other.headers = headers /\ other.coded = it.coded
            /\ other.status = it.status /\ other.streamed = it.streamed /\ other.size = it.size
        BY <2>1, <3>2, HeadersKept
      <4> QED
        BY <2>2, <4>1 DEF Like, Loose
    <3> QED
      BY <1>4, <3>1, <3>2
  <2>4. Made(r, hook, it, other) /\ hook \in Hook
    BY <1>4, <2>3 DEF Made, Hook
  <2> QED
    BY <1>1, <1>4, <2>4
<1>5. CASE SendBack(r)
  <2> PICK name, value, hook : name = ID /\ value = context[r].id /\ hook = "request_id"
    OBVIOUS
  <2>1. PICK other : /\ Changes(r, other) /\ AtAfter(r, hook)
                     /\ other = it \/ other = [it EXCEPT !.headers = SetHeader(it.headers, name, value)]
    BY <1>5 DEF SendBack, CurrentRequestId, ID
  <2> QED
    BY <1>4, <2>1 DEF Private
<1>6. CASE AddLimitHeaders(r)
  <2> PICK name, value, hook : name = Limit /\ value = context[r].decision.remaining /\ hook = "rate_limit"
    OBVIOUS
  <2>1. PICK other : /\ Changes(r, other) /\ AtAfter(r, hook)
                     /\ other = it \/ other = [it EXCEPT !.headers = SetHeader(it.headers, name, value)]
    BY <1>6 DEF AddLimitHeaders, Limit
  <2> QED
    BY <1>4, <2>1 DEF Private
<1>7. CASE AddSecurityHeaders(r)
  <2> DEFINE other == [it EXCEPT !.headers = Hardened(r, it.headers)]
  <2>1. AtAfter(r, "security_headers") /\ Changes(r, other)
    BY <1>7 DEF AddSecurityHeaders, Hardened, Frame, Transport
  <2>2. Made(r, "security_headers", it, other) /\ "security_headers" \in Hook
    BY DEF Made, Hook
  <2> HIDE DEF other
  <2> QED
    BY <1>1, <2>1, <2>2
<1>8. CASE AppAfter(r)
  <2>1. AtAfter(r, "app") /\ "app" \in Hook
    BY <1>8 DEF AppAfter, Hook
  <2>2. CASE setup.custom \notin {"replace", "fail"} /\ Changes(r, it)
    <3>1. Made(r, "app", it, it)
      BY <2>2 DEF Made
    <3> QED
      BY <1>1, <2>1, <2>2, <3>1
  <2>3. CASE setup.custom = "replace" /\ Changes(r, WithType(200, "text", NoHeaders))
    <3> PICK other : other = WithType(200, "text", NoHeaders)
      OBVIOUS
    <3>1. Made(r, "app", it, other)
      BY <2>3 DEF Made
    <3> QED
      BY <1>1, <2>1, <2>3, <3>1
  <2>4. CASE /\ setup.custom = "fail"
             /\ response' = [response EXCEPT ![r] = ServerError]
             /\ at' = [at EXCEPT ![r] = Len(AfterHooks) + 1]
             /\ UNCHANGED <<setup, pc, context, reply, used, answered, sent, logged>>
    <3>1. /\ response'[r] = ServerError /\ at'[r] = Len(AfterHooks) + 1 /\ pc'[r] = "after"
          /\ \A q \in Request \ {r} : at'[q] = at[q] /\ response'[q] = response[q]
      BY <2>1, <2>4 DEF IInv, TypeOK, AtAfter
    <3>2. /\ DOMAIN AfterHooks = 1..Len(setup.hooks) /\ Len(AfterHooks) = Len(setup.hooks) /\ Len(setup.hooks) \in Nat
          /\ AfterHooks' = AfterHooks /\ at[r] \in DOMAIN AfterHooks /\ AfterHooks[at[r]] = "app"
      BY <2>1, <2>4, HooksFacts DEF IInv, TypeOK, AtAfter, AfterHooks
    <3>3. Failed(r)'
      BY <2>4, <3>1, <3>2 DEF Failed
    <3>4. Traced(r)' /\ SentWhole(r)'
      BY <3>1, <3>3 DEF Traced, SentWhole
    <3> QED
      BY <2>4, <3>1, <3>4, OneTraced
  <2> QED
    BY <1>8, <2>2, <2>3, <2>4 DEF AppAfter
<1> QED
  BY <1>2, <1>3, <1>5, <1>6, <1>7, <1>8

\* What goes out is the end of it.
LEMMA SendTraced ==
  ASSUME IInv, TInv, NEW r \in Request, Send(r)
  PROVE  TInv'
<1>1. /\ UNCHANGED <<setup, at, response, answered>> /\ pc[r] = "after" /\ pc'[r] = "done"
      /\ \A q \in Request \ {r} : pc'[q] = pc[q] /\ sent'[q] = sent[q]
  BY DEF IInv, TypeOK, Send
<1>2. sent'[r].status = response[r].status /\ sent'[r].streamed = response[r].streamed
  BY DEF IInv, TypeOK, Send
<1>3. SentWhole(r)'
  BY <1>1, <1>2 DEF SentWhole
<1>4. (Failed(r)' <=> Failed(r)) /\ ~Coming(r) /\ Traced(r)
  BY <1>1 DEF Failed, AfterHooks, Coming, TInv
<1>5. Traced(r)'
  <2>1. CASE Failed(r)
    BY <1>1, <1>4, <2>1 DEF Traced
  <2>2. CASE ~Failed(r)
    <3>1. PICK who, n, f : who = answered[r] /\ n = at[r] /\ f[n] = response[r] /\ Course(r, who, n, f)
      BY <1>4, <2>2 DEF Traced
    <3>2. Course(r, who, n, f)'
      BY <1>1, <3>1, CourseKept
    <3>3. \E who1, n1, f1 : who1 = answered'[r] /\ n1 = at'[r] /\ f1[n1] = response'[r] /\ Course(r, who1, n1, f1)'
      BY <1>1, <3>1, <3>2
    <3> QED
      BY <1>4, <2>2, <3>3 DEF Traced
  <2> QED
    BY <2>1, <2>2
<1> QED
  BY <1>1, <1>3, <1>5, OneTraced

\* Every response has a course, in every state.
THEOREM Tracing == Spec => []TInv
<1>1. Init => TInv
  BY DEF Init, TInv, Traced, SentWhole, Coming
<1>2. IInv /\ IInv' /\ TInv /\ [Next]_vars => TInv'
  <2> SUFFICES ASSUME IInv, IInv', TInv, [Next]_vars
               PROVE  TInv'
    OBVIOUS
  <2>1. CASE UNCHANGED vars
    <3>1. UNCHANGED <<setup, pc, at, response, answered, sent>>
      BY <2>1 DEF vars
    <3>2. ASSUME NEW q \in Request PROVE Traced(q)' /\ SentWhole(q)'
      BY <3>1, StillTraced DEF TInv, SentWhole
    <3> QED
      BY <3>2 DEF TInv
  <2>2. ASSUME NEW r \in Request,
               \/ Preflight(r) \/ Assign(r) \/ Exempt(r) \/ Check(r) \/ Ask(r) \/ StoreDecides(r) \/ StoreAnswers(r)
               \/ AppBefore(r) \/ Dispatch(r)
        PROVE  TInv'
    BY <2>2, BeforeTraced
  <2>3. ASSUME NEW r \in Request,
               \/ CompressResponse(r) \/ AddCorsHeaders(r) \/ SendBack(r) \/ AddLimitHeaders(r)
               \/ AddSecurityHeaders(r) \/ AppAfter(r)
        PROVE  TInv'
    BY <2>3, AfterTraced
  <2>4. ASSUME NEW r \in Request, Send(r) PROVE TInv'
    BY <2>4, SendTraced
  <2> QED
    BY <2>1, <2>2, <2>3, <2>4 DEF Next
<1> QED
  BY <1>1, <1>2, Invariance, PTL DEF Spec

-----------------------------------------------------------------------------
(* What twins get                                                          *)

\* The final responses of twins
LEMMA TwinsEnd ==
  ASSUME IInv, TInv, NEW r \in Over, NEW q \in Over, answered[r] = answered[q],
         \A f \in {"origin", "wants", "https", "fields", "body", "credentials"} : asked[q][f] = asked[r][f]
  PROVE  /\ Near(response[r], response[q])
         /\ asked[q].accepts = asked[r].accepts => Like(response[r], response[q])
<1>1. /\ asked[q].origin = asked[r].origin /\ asked[q].wants = asked[r].wants /\ asked[q].https = asked[r].https
      /\ asked[q].fields = asked[r].fields /\ asked[q].body = asked[r].body /\ asked[q].credentials = asked[r].credentials
  OBVIOUS
<1>2. AllowedOrigin(r) = AllowedOrigin(q) /\ Twin(r, q)
  BY <1>1 DEF AllowedOrigin, ValueFor, Twin
<1>3. \A who : First(r, who) = First(q, who)
  BY <1>1, <1>2, FirstAlike
<1>4. asked[q].accepts = asked[r].accepts => Pick(r) = Pick(q)
  <2>1. asked[q].accepts = asked[r].accepts => \A e : Quality(r, e) = Quality(q, e)
    BY DEF Quality
  <2> QED
    BY <2>1 DEF Pick
<1>5. /\ r \in Request /\ q \in Request /\ TypeOK /\ setup \in Setup /\ ~Coming(r) /\ ~Coming(q)
      /\ at[r] = Len(setup.hooks) + 1 /\ at[q] = Len(setup.hooks) + 1 /\ Len(setup.hooks) \in Nat
  <2>1. /\ r \in Request /\ q \in Request /\ TypeOK /\ setup \in Setup /\ ~Coming(r) /\ ~Coming(q)
        /\ at[r] > Len(setup.hooks) /\ at[q] > Len(setup.hooks)
    BY OverFacts DEF TypeOK
  <2> QED
    BY <2>1, HooksFacts DEF TypeOK
<1>6. Traced(r) /\ Traced(q)
  BY <1>5 DEF TInv
<1>7. CASE Failed(r)
  <2>1. Failed(q)
    BY <1>5, <1>7 DEF Failed
  <2>2. response[r] = response[q]
    BY <1>5, <1>6, <1>7, <2>1 DEF Traced
  <2> QED
    BY <2>2 DEF Near, Like, Loose, Same
<1>8. CASE ~Failed(r)
  <2> PICK n, who : n = Len(setup.hooks) + 1 /\ who = answered[r]
    OBVIOUS
  <2>1. ~Failed(q)
    BY <1>5, <1>8 DEF Failed
  <2>2. PICK f : f[n] = response[r] /\ Course(r, who, n, f)
    BY <1>5, <1>6, <1>8 DEF Traced
  <2>3. PICK g : g[n] = response[q] /\ Course(q, who, n, g)
    BY <1>5, <1>6, <2>1 DEF Traced
  <2>4. n \in 1..(Len(setup.hooks) + 1)
    BY <1>5
  <2>5. Near(f[n], g[n])
    BY <1>2, <1>3, <1>5, <2>2, <2>3, <2>4, CoursesNear
  <2>6. Pick(r) = Pick(q) => Like(f[n], g[n])
    BY <1>2, <1>3, <1>5, <2>2, <2>3, <2>4, CoursesLike
  <2> QED
    BY <1>4, <2>2, <2>3, <2>5, <2>6
<1> QED
  BY <1>7, <1>8

\* What goes out of a response
LEMMA OverSent ==
  ASSUME IInv, TInv, NEW r \in Over
  PROVE  /\ sent[r].status = response[r].status /\ sent[r].streamed = response[r].streamed
         /\ sent[r].headers = RawHeaders(response[r], asked[r].method = "HEAD")
         /\ sent[r].body = IF asked[r].method = "HEAD" THEN None ELSE Length(response[r])
         /\ \A n : n # "Content-Length" => Values(r, n) = GetAll(response[r].headers, n)
<1>1. r \in Request /\ pc[r] = "done" /\ \A n : n # "Content-Length" => Same(response[r].headers, sent[r].headers, n)
  BY OverFacts
<1>2. SentAsIs(r) /\ SentWhole(r)
  BY <1>1 DEF IInv, TInv
<1>3. /\ sent[r].headers = RawHeaders(response[r], asked[r].method = "HEAD")
      /\ sent[r].body = IF asked[r].method = "HEAD" THEN None ELSE Length(response[r])
  BY <1>1, <1>2 DEF SentAsIs
<1> QED
  BY <1>1, <1>2, <1>3 DEF SentWhole, Values, Same

\* HEAD has the status, the headers and the length of GET, and two responses
\* that differ in their encoding both have Accept-Encoding in Vary.
THEOREM Twins == Spec => []TwinAnswers
<1>1. IInv /\ TInv => TwinAnswers
  <2> SUFFICES ASSUME IInv, TInv, NEW r \in Over, NEW q \in Over, answered[r] = answered[q]
               PROVE  /\ asked[r].method = "GET" /\ asked[q] = [asked[r] EXCEPT !.method = "HEAD"] =>
                           /\ sent[r].status = sent[q].status /\ sent[q].body = None
                           /\ \A n \in (DOMAIN sent[r].headers \union DOMAIN sent[q].headers) \ Personal : Values(r, n) = Values(q, n)
                           /\ SeenLength(r) = SeenLength(q)
                      /\ asked[q] = [asked[r] EXCEPT !.accepts = asked[q].accepts] /\ sent[r].body # sent[q].body =>
                           "Accept-Encoding" \in Range(Values(r, "Vary")) \intersect Range(Values(q, "Vary"))
    BY DEF TwinAnswers
  <2> PICK a, b : a = response[r] /\ b = response[q]
    OBVIOUS
  <2>1. DOMAIN asked[r] = {"method", "origin", "wants", "accepts", "id", "exempt", "https", "fields", "body", "credentials"}
    <3>1. r \in Request /\ setup \in Setup
      BY OverFacts DEF TypeOK
    <3> QED
      BY <3>1, ExchangeAssumption DEF asked
  <2>2. /\ sent[r].status = a.status /\ sent[r].streamed = a.streamed
        /\ sent[r].headers = RawHeaders(a, asked[r].method = "HEAD")
        /\ sent[r].body = IF asked[r].method = "HEAD" THEN None ELSE Length(a)
        /\ \A n : n # "Content-Length" => Values(r, n) = GetAll(a.headers, n)
    BY OverSent
  <2>3. /\ sent[q].status = b.status /\ sent[q].streamed = b.streamed
        /\ sent[q].headers = RawHeaders(b, asked[q].method = "HEAD")
        /\ sent[q].body = IF asked[q].method = "HEAD" THEN None ELSE Length(b)
        /\ \A n : n # "Content-Length" => Values(q, n) = GetAll(b.headers, n)
    BY OverSent
  <2>4. ASSUME asked[r].method = "GET", asked[q] = [asked[r] EXCEPT !.method = "HEAD"]
        PROVE  /\ sent[r].status = sent[q].status /\ sent[q].body = None
               /\ \A n \in (DOMAIN sent[r].headers \union DOMAIN sent[q].headers) \ Personal : Values(r, n) = Values(q, n)
               /\ SeenLength(r) = SeenLength(q)
    <3>1. /\ asked[q].method = "HEAD" /\ asked[q].accepts = asked[r].accepts
          /\ \A f \in {"origin", "wants", "https", "fields", "body", "credentials"} : asked[q][f] = asked[r][f]
      BY <2>1, <2>4
    <3>2. Like(a, b)
      BY <3>1, TwinsEnd
    <3>3. /\ a.status = b.status /\ a.streamed = b.streamed /\ Length(a) = Length(b)
          /\ \A n : n \notin Private => Same(a.headers, b.headers, n)
      BY <3>2 DEF Like, Loose, Length
    <3>4. \A n : n \notin Personal => Values(r, n) = Values(q, n)
      BY <2>2, <2>3, <3>3 DEF Same, Personal, Private, ID, Limit
    <3>5. Same(a.headers, b.headers, "Content-Length")
      BY <3>3 DEF Private, ID, Limit
    <3>6. sent[r].headers = a.headers /\ sent[r].body = Length(a)
      BY <2>2, <2>4 DEF RawHeaders
    <3>7. SeenLength(r) = SeenLength(q)
      <4>1. CASE "Content-Length" \in DOMAIN a.headers
        <5>1. sent[q].headers = b.headers
          BY <2>3, <3>5, <4>1 DEF RawHeaders, Same
        <5>2. Values(r, "Content-Length") = Values(q, "Content-Length")
          BY <3>5, <3>6, <5>1 DEF Values, Same
        <5>3. Values(r, "Content-Length") # <<>>
          <6> PICK length : length = Length(a)
            OBVIOUS
          <6>1. Sound(r, a)
            BY OverFacts
          <6>2. GetAll(a.headers, "Content-Length") = <<length>>
            BY <4>1, <6>1 DEF Sound, BodySound
          <6>3. <<length>> # <<>>
            OBVIOUS
          <6>4. Values(r, "Content-Length") = <<length>>
            BY <3>6, <6>2 DEF Values
          <6> QED
            BY <6>3, <6>4
        <5> QED
          BY <5>2, <5>3 DEF SeenLength
      <4>2. CASE "Content-Length" \notin DOMAIN a.headers
        <5>1. Values(r, "Content-Length") = <<>> /\ SeenLength(r) = IF a.streamed THEN <<>> ELSE <<Length(a)>>
          BY <2>2, <2>4, <3>6, <4>2 DEF SeenLength, Values, GetAll
        <5>2. "Content-Length" \notin DOMAIN b.headers
          BY <3>5, <4>2 DEF Same
        <5>3. CASE a.streamed
          <6>1. sent[q].headers = b.headers
            BY <2>3, <3>3, <5>3 DEF RawHeaders
          <6>2. Values(q, "Content-Length") = <<>>
            BY <5>2, <6>1 DEF Values, GetAll
          <6> QED
            BY <3>1, <5>1, <5>3, <6>2 DEF SeenLength
        <5>4. CASE ~a.streamed
          <6>1. sent[q].headers = SetHeader(b.headers, "Content-Length", Length(b))
            BY <2>3, <3>1, <3>3, <5>2, <5>4 DEF RawHeaders
          <6>2. Values(q, "Content-Length") = <<Length(a)>>
            BY <3>3, <6>1, SetDoes DEF Values
          <6> QED
            BY <5>1, <5>4, <6>2 DEF SeenLength
        <5> QED
          BY <5>3, <5>4
      <4> QED
        BY <4>1, <4>2
    <3> QED
      BY <2>2, <2>3, <3>1, <3>3, <3>4, <3>7
  <2>5. ASSUME asked[q] = [asked[r] EXCEPT !.accepts = asked[q].accepts], sent[r].body # sent[q].body
        PROVE  "Accept-Encoding" \in Range(Values(r, "Vary")) \intersect Range(Values(q, "Vary"))
    <3>1. /\ asked[q].method = asked[r].method
          /\ \A f \in {"origin", "wants", "https", "fields", "body", "credentials"} : asked[q][f] = asked[r][f]
      BY <2>1, <2>5
    <3>2. Near(a, b)
      BY <3>1, TwinsEnd
    <3>3. Length(a) # Length(b)
      BY <2>2, <2>3, <2>5, <3>1
    <3>4. ~Like(a, b)
      BY <3>3 DEF Like, Loose, Length
    <3>5. "Accept-Encoding" \in Range(GetAll(a.headers, "Vary")) /\ Same(a.headers, b.headers, "Vary")
      BY <3>2, <3>4 DEF Near, Loose, Private, BodyNames, ID, Limit
    <3> QED
      BY <2>2, <2>3, <3>5 DEF Same
  <2> QED
    BY <2>4, <2>5
<1> QED
  BY <1>1, Invariance, Tracing, PTL
=============================================================================
