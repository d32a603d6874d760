----------------------------- MODULE MCEgressGate -----------------------------
(* Values for TLC: each run says which calls its requests make.              *)
EXTENDS EgressGate, TLC

CONSTANTS r1, r2, h1, h2

Ask4(route, method, body, cargo, granted) ==
  [route |-> route, host |-> h1, method |-> method, body |-> body,
   cargo |-> cargo, granted |-> granted]

(* A class that must be asked about, a page handed over to read, and a call  *)
(* from the event loop that is handed over with a body.                      *)
EachKind ==
  {Ask4("request", "POST", "original", "image", FALSE),
   Ask4("request", "GET", "none", "text", TRUE),
   Ask4("governed", "POST", "original", "text", TRUE)}
(* A body the person may edit, to a host that must be asked about. *)
Pictures == {Ask4("stream", "POST", "original", "image", FALSE)}

(* Requests have no identity of their own. *)
Symmetry == Permutations(Requests)

Downloads  == {Ask4("download", "GET", "none", "text", FALSE)}
Fetches    == {Ask4("request", "GET", "none", "text", FALSE)}
AsyncPosts == {Ask4("async_post", "POST", "original", "text", FALSE)}
Chats      == {Ask4("stream", "POST", "original", "facts", FALSE)}
=============================================================================
