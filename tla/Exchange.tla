------------------------------ MODULE Exchange ------------------------------
(***************************************************************************)
(* What an HTTP server promises on each connection: a request is carried   *)
(* out once at most, and only when all of it was sent; its answer reaches  *)
(* the client once at most, and only when it was carried out.              *)
(***************************************************************************)
EXTENDS Naturals

CONSTANTS
  Conns,        \* connections
  MaxRequests   \* bound: requests on one connection

VARIABLES
  asked,        \* requests sent, the last byte included
  served,       \* requests carried out
  got           \* answers received, the last byte included

vars == <<asked, served, got>>

Init ==
  /\ asked = [c \in Conns |-> 0]
  /\ served = [c \in Conns |-> 0]
  /\ got = [c \in Conns |-> 0]

Ask(c) ==
  /\ asked[c] = got[c]
  /\ asked[c] < MaxRequests
  /\ asked' = [asked EXCEPT ![c] = @ + 1]
  /\ UNCHANGED <<served, got>>

Serve(c) ==
  /\ served[c] < asked[c]
  /\ served' = [served EXCEPT ![c] = @ + 1]
  /\ UNCHANGED <<asked, got>>

Get(c) ==
  /\ got[c] < served[c]
  /\ got' = [got EXCEPT ![c] = @ + 1]
  /\ UNCHANGED <<asked, served>>

Next == \E c \in Conns : Ask(c) \/ Serve(c) \/ Get(c)

Spec == Init /\ [][Next]_vars
=============================================================================
