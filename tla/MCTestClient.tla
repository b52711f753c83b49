---------------------------- MODULE MCTestClient ----------------------------
(* One use of the client of every kind, with cookies and redirects, and    *)
(* two at a time.                                                          *)
EXTENDS TestClient

Plain == [cookie |-> "keep", to |-> "none"]
Cookies ==
  { Plain, [cookie |-> "secret", to |-> "http"], [cookie |-> "plain", to |-> "https"],
    [cookie |-> "expired", to |-> "http"] }

MCSetup ==
  [kind : {[b1 |-> k, b2 |-> "unused"] : k \in {"stream", "websocket", "lifespan"}},
   sync : BOOLEAN, enabled : BOOLEAN, secure : {FALSE}, replies : {{Plain}}, maxSends : {3}]
  \union
  [kind : {[b1 |-> "request", b2 |-> "unused"]},
   sync : {FALSE}, enabled : {TRUE}, secure : BOOLEAN, replies : {Cookies}, maxSends : {2}]
  \union
  [kind : {[b1 |-> "request", b2 |-> "websocket"]},
   sync : BOOLEAN, enabled : {TRUE}, secure : {FALSE}, replies : {{Plain}}, maxSends : {2}]
=============================================================================
