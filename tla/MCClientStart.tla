--------------------------- MODULE MCClientStart ---------------------------
(* ClientStart with three clients of one tenant: two of one server, between*)
(* which the API key was rotated, and one of another server.               *)
EXTENDS ClientStart

CONSTANTS t1, t2, out, c1, c2, c3

BaseUrls == [c \in Clients |-> IF c = c3 THEN "other" ELSE "server"]
ApiKeys == [c \in Clients |-> IF c = c2 THEN "new_key" ELSE "key"]
Tenants == [c \in Clients |-> "acme"]
=============================================================================
