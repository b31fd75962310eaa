---------------------------- MODULE HttpRequest ----------------------------
(***************************************************************************)
(* A request as bytes: how http_parse_request cuts what a connection's     *)
(* buffer holds, how the request finds its handler and its session, and    *)
(* the answer that http_assemble_response makes (http.c, http_server.c,    *)
(* getuserid and the table of handlers in server.c).                       *)
(*                                                                         *)
(* One connection, on which the client has one request at a time; its      *)
(* bytes come in any pieces.  The names of headers, and what all addresses *)
(* begin with, are shortened to letters; a status is one character.  The   *)
(* requests here fit the 4096 bytes of a connection's buffer: HttpServer   *)
(* has longer ones, and the errors that end a connection.                  *)
(***************************************************************************)
EXTENDS Bytes, FiniteSetsExt

CONSTANTS
  Messages,   \* requests: [addr, body, headers], the last in their order
  Pages,      \* what handlers have to send
  Sessions,   \* the sessions a login may give out
  MaxAsked    \* bound: requests

\* An address has no space and no line end, and does not hold the name of a
\* header: the page asks for none that does (network.js, accountview.js, user.js).
ASSUME RequestAssumption ==
  /\ \A m \in Messages :
       /\ m.addr \in Seq(Nat \ {10, 13, 32, 75, 76, 86}) /\ m.addr # << >>
       /\ m.body \in Seq(Nat) /\ Len(m.body) < Int32 \div 2
       /\ m.headers \in Seq({"length", "cookie", "version", "other"})
       /\ m.body # << >> => \E i \in 1..Len(m.headers) : m.headers[i] = "length"
  /\ Pages \subseteq Seq(Nat) /\ \A page \in Pages : Len(page) < Int64 \div 2
  /\ Sessions \subseteq (-(Int64 \div 2)..((Int64 \div 2) - 1)) \ {0}
  /\ 13 < Int32 \div 2
  /\ MaxAsked \in Nat

VARIABLES
  message,  \* the request of the client
  unsent,   \* its characters that are still to come
  buffer,   \* http_tls->buffer
  outcome,  \* how it was carried out: handler, payload, session, and answer
  stream,   \* characters of answers that the client has not read
  heard,    \* the answer that the client read
  jar,      \* the cookies of the client
  asked, carried, answered    \* requests begun, carried out, answered

server == <<buffer, outcome, carried>>
vars == <<message, unsent, server, stream, heard, jar, asked, answered>>

Space == 32
Semicolon == 59
LineEnd == <<13, 10>>
HeaderEnd == LineEnd \o LineEnd
ContentLength == <<76, 58, 32>>     \* "Content-Length: "
SetCookie == <<84, 58, 32>>         \* "Set-Cookie: "
Cookie == <<75>>                    \* "Cookie"
SessionIs == <<83, 61>>             \* "session="
WebSocketVersion == <<86>>          \* "Sec-WebSocket-Version"

\* The handlers and their addresses; of "/api/0/" the first two characters
\* are kept, of a name one or two.
Callbacks == <<
  [fun |-> "root",      addr |-> <<47>>],
  [fun |-> "newbranch", addr |-> <<47, 97, 110>>],
  [fun |-> "branch",    addr |-> <<47, 97, 98, 47>>],
  [fun |-> "branches",  addr |-> <<47, 97, 98, 115>>],
  [fun |-> "feed",      addr |-> <<47, 97, 102>>],
  [fun |-> "user",      addr |-> <<47, 97, 117>>],
  [fun |-> "login",     addr |-> <<47, 97, 108>>] >>

Answer(status, value, payload) ==
  [status |-> status, value |-> value, payload |-> payload, length |-> Len(payload)]

Nothing == Answer(0, << >>, << >>)
Unknown == [fun |-> "none", payload |-> << >>, session |-> 0, answer |-> Nothing]

Init ==
  /\ message = [addr |-> << >>, body |-> << >>, headers |-> << >>]
  /\ unsent = << >> /\ buffer = << >> /\ stream = << >>
  /\ outcome = Unknown /\ heard = Nothing
  /\ jar = << >>
  /\ asked = 0 /\ carried = 0 /\ answered = 0

(***************************************************************************)
(* What the client sends (external: browsers write requests so).           *)
(***************************************************************************)
HeaderLine(m, name) ==
  CASE name = "length"  -> LineEnd \o ContentLength \o Digits(Len(m.body))
    [] name = "cookie"  -> IF jar = << >> THEN << >>
                           ELSE LineEnd \o Cookie \o <<58, 32>> \o jar
    [] name = "version" -> LineEnd \o WebSocketVersion \o <<58, 32>> \o Digits(13)
    [] name = "other"   -> LineEnd \o <<79, 58, 32, Minus>>

Rendered(m) ==
  LET lines[i \in 0..Len(m.headers)] ==
        IF i = 0 THEN << >> ELSE lines[i - 1] \o HeaderLine(m, m.headers[i]) IN
  <<80, Space>> \o m.addr \o <<Space, 72>> \o lines[Len(m.headers)]
    \o HeaderEnd \o m.body

Ask(m) ==
  /\ answered = asked /\ asked < MaxAsked
  /\ heard.status # 101
  /\ message' = m
  /\ unsent' = Rendered(m)
  /\ outcome' = Unknown /\ heard' = Nothing
  /\ asked' = asked + 1
  /\ UNCHANGED <<buffer, stream, jar, carried, answered>>

(***************************************************************************)
(* The server.                                                             *)
(***************************************************************************)

\* http_extract_param: what stands after a name and two more characters.
ExtractParam(mem, header, field) ==
  LET f == Find(mem, header, field) IN
  Find(mem, Slice(f.after, 2, 0), LineEnd).before

Numbers == [text \in Seq(Nat) |-> ToNumber(text)]
Number(mem, b) == Numbers[Chars(mem, b)]

\* btoi
IntOf(mem, b) == Truncated(Number(mem, b))

\* Seeded fault: the length is not compared.
WholeByHeader(mem, header, payload) ==
  TRUE

\* The payload is as long as the header says, if it says so.
Whole(mem, header, payload) ==
  LET f == Find(mem, header, ContentLength)
      length == Find(mem, f.after, LineEnd).before IN
  f.found.len > 0 => IntOf(mem, length) = payload.len

\* http_parse_request: an empty address stands for a request that is not whole.
ParseRequest(mem) ==
  LET f == Find(mem, All(mem), HeaderEnd)
      method == Find(mem, f.before, <<Space>>) IN
  IF f.found.len = 0 \/ ~Whole(mem, f.before, f.after)
  THEN [header |-> Void, payload |-> Void, addr |-> Void]
  ELSE [header |-> f.before, payload |-> f.after,
        addr |-> Find(mem, method.after, <<Space>>).before]

\* Seeded fault: the address "/" is a beginning like others.
HitRoot(mem, addr, callback) ==
  Same(mem, Slice(addr, 0, Len(callback.addr)), callback.addr)

\* A handler takes its address and those that begin with it, "/" only itself.
\* The characters compared may lie past the end of the address.
Hit(mem, addr, callback) ==
  \/ Same(mem, addr, callback.addr)
  \/ /\ Len(callback.addr) > 1
     /\ Same(mem, Slice(addr, 0, Len(callback.addr)), callback.addr)

\* http_websocket_accept looks at every request first, then
\* http_server_callback_dispatch takes the first handler that fits.
HandlerOf(mem, r) ==
  LET hits == {i \in 1..Len(Callbacks) : Hit(mem, r.addr, Callbacks[i])}
      version == ExtractParam(mem, r.header, WebSocketVersion) IN
  CASE IntOf(mem, version) = 13 -> "websocket"
    [] IntOf(mem, version) # 13 /\ hits = {} -> "not_found"
    [] OTHER -> Callbacks[Min(hits)].fun

\* Seeded fault: the session is looked for in the whole header.
SessionInHeader(mem, header) ==
  LET f == Find(mem, header, SessionIs) IN
  Number(mem, Find(mem, f.after, <<Semicolon>>).before)

\* getuserid: the session that the cookie names, 0 without one.
SessionOf(mem, header) ==
  LET cookie == ExtractParam(mem, header, Cookie)
      f == Find(mem, cookie, SessionIs) IN
  Number(mem, Find(mem, f.after, <<Semicolon>>).before)

\* What root and branch answer when open has failed, unchecked: read returns
\* the length of the payload, and nothing is written of it.
Unread == [Answer(200, << >>, << >>) EXCEPT !.length = -1]

\* What a handler may answer, as far as the bytes of the answer go.  The
\* value of the cookie brings two line ends of its own.
Answers(fun) ==
  LET Plain(status) == Answer(status, << >>, << >>)
      Found == {Answer(200, << >>, page) : page \in Pages} IN
  CASE fun \in {"root", "branch"} -> Found \cup {Unread}
    [] fun = "branches" -> Found \cup {Plain(400)}
    [] fun = "login" ->
         {Answer(200, SessionIs \o Decimal(s) \o <<Semicolon>> \o HeaderEnd, << >>) :
            s \in Sessions}
         \cup {Plain(400)}
    [] fun \in {"newbranch", "feed", "user"} -> {Plain(200), Plain(400)}
    [] fun = "websocket" -> {Plain(101)}
    [] fun = "not_found" -> {Plain(404)}

\* Seeded fault: the header is ended twice.
AssembledTwice(a) ==
  <<a.status>> \o LineEnd
    \o ContentLength \o Decimal(a.length) \o LineEnd
    \o (IF a.value = << >> THEN << >> ELSE SetCookie \o a.value \o LineEnd)
    \o HeaderEnd \o a.payload

\* http_assemble_response, and the payload after it.
Assembled(a) ==
  <<a.status>> \o LineEnd
    \o (IF a.status = 101 THEN << >>
        ELSE ContentLength \o Decimal(a.length) \o LineEnd)
    \o (IF a.value = << >> THEN << >> ELSE SetCookie \o a.value \o LineEnd)
    \o LineEnd \o a.payload

\* All that the server finds in what a buffer holds.
Crunched == [mem \in Seq(Nat) |->
  LET r == ParseRequest(mem) IN
  [whole |-> r.addr.len > 0,
   fun |-> HandlerOf(mem, r),
   payload |-> Chars(mem, r.payload),
   session |-> SessionOf(mem, r.header)]]

\* http_tls_ondata, n more characters.
OnData(n) ==
  LET mem == buffer \o SubSeq(unsent, 1, n)
      request == Crunched[mem] IN
  /\ unsent' = SubSeq(unsent, n + 1, Len(unsent))
  /\ \/ /\ ~request.whole
        /\ buffer' = mem
        /\ UNCHANGED <<outcome, stream, carried>>
     \/ /\ request.whole
        /\ \E a \in Answers(request.fun) :
             /\ outcome' = [fun |-> request.fun, payload |-> request.payload,
                            session |-> request.session, answer |-> a]
             /\ stream' = stream \o Assembled(a)
        /\ buffer' = << >>
        /\ carried' = carried + 1
  /\ UNCHANGED <<message, heard, jar, asked, answered>>

(***************************************************************************)
(* What the client reads (external).  It passes over line ends before an   *)
(* answer, as browsers do, or makes a new connection when there are any.   *)
(* It gives up a connection, here for good, on an answer of length -1.     *)
(***************************************************************************)

\* The first whole answer in what came, and what is left after it.
Understood == [characters \in Seq(Nat) |->
  LET lead == {i \in 1..Len(characters) : characters[i] \notin {13, 10}}
      text == SubSeq(characters, Min(lead \cup {Len(characters) + 1}), Len(characters))
      f == Find(text, All(text), HeaderEnd)
      number == Find(text, Find(text, f.before, ContentLength).after, LineEnd).before
      length == Number(text, number)
      value == Find(text, Find(text, f.before, SetCookie).after, <<Semicolon>>).before
      whole == f.found.len > 0 /\ length \in 0..f.after.len IN
  IF ~whole THEN [whole |-> FALSE]
  ELSE [whole |-> TRUE,
        answer |-> Answer(text[1], Chars(text, value),
                          Chars(text, [f.after EXCEPT !.len = length])),
        rest |-> SubSeq(text, f.after.at + length, Len(text))]]

Hear ==
  LET u == Understood[stream] IN
  /\ answered < asked
  /\ u.whole
  /\ heard' = u.answer
  /\ jar' = IF u.answer.value = << >> THEN jar ELSE u.answer.value
  /\ stream' = u.rest
  /\ answered' = answered + 1
  /\ UNCHANGED <<message, unsent, server, asked>>

Reconnect ==
  /\ answered = asked /\ stream # << >>
  /\ stream' = << >> /\ buffer' = << >>
  /\ UNCHANGED <<message, unsent, outcome, carried, heard, jar, asked, answered>>

\* The log out button, see accountview.js.
Logout ==
  /\ answered = asked
  /\ jar' = SessionIs \o <<Zero>>
  /\ UNCHANGED <<message, unsent, server, stream, heard, asked, answered>>

Next ==
  \/ answered = asked /\ \E m \in Messages : Ask(m)
  \/ \E n \in 1..Len(unsent) : OnData(n)
  \/ Hear
  \/ Reconnect
  \/ Logout

Spec == Init /\ [][Next]_vars

-----------------------------------------------------------------------------
\* However a request is cut into pieces and whatever its body holds, it is
\* carried out with its last character, once, with all of its body.
CarriedOutWhole ==
  /\ carried = asked <=> unsent = << >>
  /\ carried < asked => buffer \o unsent = Rendered(message)
  /\ carried = asked => buffer = << >>
  /\ outcome # Unknown => outcome.payload = message.body

Begins(addr, start) == Len(start) <= Len(addr) /\ SubSeq(addr, 1, Len(start)) = start

\* The handler is the only one whose address the request's begins with, "/"
\* only itself: characters past the end of the address do not matter, and
\* none stands before another it is a beginning of.
DispatchedRight ==
  LET Wanted == {i \in 1..Len(Callbacks) :
                   \/ message.addr = Callbacks[i].addr
                   \/ i > 1 /\ Begins(message.addr, Callbacks[i].addr)}
      upgrade == \E i \in 1..Len(message.headers) : message.headers[i] = "version" IN
  outcome # Unknown =>
    {outcome.fun} =
      IF upgrade THEN {"websocket"}
      ELSE IF Wanted = {} THEN {"not_found"} ELSE {Callbacks[i].fun : i \in Wanted}

\* The session a handler finds is the one that the client was last given, as
\* the server's number and not only as its digits, also when it is negative,
\* and 0 before a login and after logging out.
OwnSession ==
  LET sent == \E i \in 1..Len(message.headers) : message.headers[i] = "cookie" IN
  outcome # Unknown /\ answered < asked =>
    IF sent /\ jar # << >>
    THEN outcome.session \in Sessions \cup {0} /\ jar = SessionIs \o Decimal(outcome.session)
    ELSE outcome.session = 0

\* The client reads the answer to its own request, whole and with nothing of
\* another, though a login leaves line ends behind its answer; and there is a
\* whole answer to read as soon as its request is carried out, unless it asked
\* for a page that the server could not read.
InStep ==
  /\ answered = asked /\ heard # Nothing =>
       /\ heard.status = outcome.answer.status
       /\ heard.payload = outcome.answer.payload
  /\ carried > answered => (Understood[stream].whole <=> outcome.answer # Unread)

\* The one connection, as the abstract exchange sees it: a request is there
\* when it is begun, and answered when the client has understood the answer.
Exchanges ==
  INSTANCE Exchange WITH
    Conns <- {"connection"}, MaxRequests <- MaxAsked,
    asked <- [c \in {"connection"} |-> asked],
    served <- [c \in {"connection"} |-> carried],
    got <- [c \in {"connection"} |-> answered]

\* Whatever the characters of requests and answers are and however they are
\* cut into pieces, they are an exchange of whole requests and answers.
IsExchange == Exchanges!Spec
=============================================================================
