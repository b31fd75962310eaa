--------------------------- MODULE MCHttpRequest ---------------------------
(* Requests for TLC: addresses that are, begin or end like a handler's, and *)
(* bodies that look like headers.                                           *)
EXTENDS HttpRequest

Addresses ==
  {c.addr : c \in {Callbacks[i] : i \in 1..Len(Callbacks)}}
  \cup {<<47, 97>>, <<47, 97, 98>>, <<47, 97, 98, 47, 53>>, <<47, 97, 108, 49>>, <<46>>}

BodiesVal == {HeaderEnd, ContentLength \o <<49>> \o HeaderEnd}

MessagesVal ==
  {[addr |-> a, body |-> << >>, headers |-> h] :
     a \in Addresses, h \in {<<"cookie">>, <<"other", "cookie", "version">>}}
  \cup {[addr |-> Callbacks[i].addr, body |-> b, headers |-> h] :
     i \in {4, 7}, b \in BodiesVal,
     h \in {<<"length", "cookie">>, <<"cookie", "other", "length">>}}

PagesVal == {<< >>, <<50, 51>>, HeaderEnd}
SessionsVal == {7, -12}
=============================================================================
