----------------------------- MODULE HttpServer -----------------------------
(***************************************************************************)
(* The event loop of the server and the life of its connections (epoll.c,  *)
(* http_server.c, tcp.c, tls.c, and of http.c what decides when a request  *)
(* is complete).                                                           *)
(*                                                                         *)
(* One thread: epoll_wait() reports the ready connections, and each is     *)
(* handled in turn from what was reported then.  A handler reads once,     *)
(* adds the plaintext to the connection's 4096-byte buffer, carries out    *)
(* the request when the buffer holds all of it, and writes the answer to a *)
(* blocking socket.                                                        *)
(*                                                                         *)
(* Bytes are counted in units.  A request is a record: its size, the size  *)
(* of its answer, and whether its handler opens a file, which none closes, *)
(* and checks that open() succeeded: feed does, and has an answer ready.   *)
(* root and branch do not, also when the file is absent (a branch is made  *)
(* without one); theirs is a header of one unit, and a page.               *)
(* The TLS handshake is left out: connections are accepted with it done.   *)
(***************************************************************************)
EXTENDS Integers, FiniteSets

CONSTANTS
  Conns,        \* connections that clients make; bound: each is made once
  None,         \* no connection
  Requests,     \* records [size, answer, opens], see HttpAssumption
  MaxRequests,  \* bound: requests on one connection
  Buffer,       \* units in the buffers of a connection (4096 bytes)
  MaxWrite,     \* units written in one event (1 MiB)
  SendSpace,    \* units that fit in the kernel's send buffer
  MaxFds,       \* descriptors for connections and files (RLIMIT_NOFILE)
  MaxStops      \* bound: crashes and stops of the server

ASSUME HttpAssumption ==
  /\ None \notin Conns /\ IsFiniteSet(Conns)
  /\ Requests # {}
  /\ Requests \subseteq [size : Nat \ {0}, answer : Nat \ {0},
                            opens : {"no", "checked", "unchecked", "absent"}]
  /\ \A r \in Requests : r.opens \in {"unchecked", "absent"} => r.answer > 1
  /\ {MaxRequests, MaxStops, MaxFds} \subseteq Nat
  /\ {Buffer, MaxWrite, SendSpace} \subseteq Nat \ {0}

VARIABLES
  peer,     \* the client's end: "none", "open", "fin" or "reset"
  req,      \* the request it is busy with
  unsent,   \* units of it that the client still has to send
  sock,     \* units in the kernel's receive buffer
  raw,      \* units in the TLS layer that are not yet a whole record
  buf,      \* http_tls->buffer.len
  due,      \* units of the answer that the last handler gave
  wbio,     \* units of answers in the TLS layer, not yet written
  out,      \* units in the kernel's send buffer
  read,     \* units of the answer that the client has
  con,      \* the server's end: "none", "live" or "freed"
  ready,    \* what is left of epoll_wait's events: <<connection, event>>
  listening,\* is the listener's event among them
  writing,  \* the connection that write() is busy with
  left,     \* units it has still to write
  errors,   \* are errors left in the thread's queue of the TLS library
  files,    \* files that handlers opened: none is ever closed
  stops,    \* crashes and stops so far
  asked, served, got   \* requests and answers, see Exchange

client == <<peer, req, unsent, read, asked, got>>
exchange == <<asked, served, got>>
thread == <<ready, listening, writing, left, errors>>
vars == <<client, sock, raw, buf, due, wbio, out, con, thread, files, stops, served>>

Descriptors == Cardinality({c \in Conns : con[c] = "live"}) + files

Lesser(a, b) == IF a < b THEN a ELSE b

\* Connections that wait to be accepted.
Backlog == {c \in Conns : peer[c] # "none" /\ con[c] = "none"}

Zero == [c \in Conns |-> 0]

Init ==
  /\ peer = [c \in Conns |-> "none"]
  /\ req = [c \in Conns |-> CHOOSE r \in Requests : TRUE]
  /\ unsent = Zero /\ sock = Zero /\ raw = Zero /\ buf = Zero
  /\ due = Zero /\ wbio = Zero /\ out = Zero /\ read = Zero
  /\ con = [c \in Conns |-> "none"]
  /\ ready = {} /\ listening = FALSE
  /\ writing = None /\ left = 0 /\ errors = FALSE
  /\ files = 0 /\ stops = 0
  /\ asked = Zero /\ served = Zero /\ got = Zero

(***************************************************************************)
(* The client: a browser, which has one request at a time on a connection. *)
(***************************************************************************)
Connect(c) ==
  /\ peer[c] = "none"
  /\ peer' = [peer EXCEPT ![c] = "open"]
  /\ UNCHANGED <<req, unsent, read, exchange, sock, raw, buf, due, wbio, out,
                 con, thread, files, stops>>

\* A request starts when the last one was answered.
Start(c, r) ==
  /\ peer[c] = "open"
  /\ unsent[c] = 0
  /\ asked[c] = got[c]
  /\ asked[c] < MaxRequests
  /\ req' = [req EXCEPT ![c] = r]
  /\ unsent' = [unsent EXCEPT ![c] = r.size]
  /\ read' = [read EXCEPT ![c] = 0]
  /\ UNCHANGED <<peer, exchange, sock, raw, buf, due, wbio, out, con,
                 thread, files, stops>>

\* It arrives in pieces.
Send(c, n) ==
  /\ peer[c] = "open"
  /\ con[c] # "freed"
  /\ n <= unsent[c]
  /\ unsent' = [unsent EXCEPT ![c] = @ - n]
  /\ sock' = [sock EXCEPT ![c] = @ + n]
  /\ asked' = IF n = unsent[c] THEN [asked EXCEPT ![c] = @ + 1] ELSE asked
  /\ UNCHANGED <<peer, req, read, served, got, raw, buf, due, wbio, out, con,
                 thread, files, stops>>

Read(c) ==
  /\ peer[c] = "open"
  /\ out[c] > 0
  /\ out' = [out EXCEPT ![c] = @ - 1]
  /\ read' = [read EXCEPT ![c] = @ + 1]
  /\ got' = IF read[c] + 1 = req[c].answer THEN [got EXCEPT ![c] = @ + 1] ELSE got
  /\ UNCHANGED <<peer, req, unsent, asked, served, sock, raw, buf, due, wbio,
                 con, thread, files, stops>>

\* The client closes the connection, or it breaks.
Hangup(c) ==
  /\ peer[c] = "open"
  /\ peer' \in {[peer EXCEPT ![c] = e] : e \in {"fin", "reset"}}
  /\ unsent' = [unsent EXCEPT ![c] = 0]
  /\ out' = [out EXCEPT ![c] = 0]
  /\ UNCHANGED <<req, read, exchange, sock, raw, buf, due, wbio, con, thread,
                 files, stops>>

(***************************************************************************)
(* The loop of epoll_listen.                                               *)
(***************************************************************************)
Idle == ready = {} /\ ~listening /\ writing = None

Readable(c) == sock[c] > 0 \/ peer[c] = "fin"

\* Seeded fault: an error is reported besides the data, and both are handled.
EventsTwice(c) ==
  {<<c, e>> : e \in
    {f \in {"err", "in"} :
       /\ con[c] = "live"
       /\ f = "err" => peer[c] = "reset"
       /\ f = "in" => Readable(c) \/ peer[c] = "reset"}}

\* How a connection is handled.  An error comes before data; the end of the
\* stream is data to read, so the last branch of epoll_listen is not reached.
Events(c) ==
  {<<c, e>> : e \in
    {f \in {"err", "in"} :
       /\ con[c] = "live"
       /\ f = "err" <=> peer[c] = "reset"
       /\ f = "in" => Readable(c)}}

\* epoll_wait, level-triggered.
Wait ==
  /\ Idle
  /\ ready' = UNION {Events(c) : c \in Conns}
  /\ listening' = (Backlog # {})
  /\ ready' # {} \/ listening'
  /\ UNCHANGED <<client, sock, raw, buf, due, wbio, out, con, writing, left, errors,
                 files, stops, served>>

\* tls_listener_ondata: without a descriptor accept() fails, the connection
\* stays in the backlog, and the structure made for it is forgotten.
Accept ==
  /\ listening /\ writing = None
  /\ listening' = FALSE
  /\ IF Descriptors < MaxFds
     THEN \E c \in Backlog : con' = [con EXCEPT ![c] = "live"]
     ELSE UNCHANGED con
  /\ UNCHANGED <<client, sock, raw, buf, due, wbio, out, ready, writing, left, errors,
                 files, stops, served>>

\* http_tls_onclose
Free(c) ==
  /\ con' = [con EXCEPT ![c] = "freed"]
  /\ sock' = [sock EXCEPT ![c] = 0]
  /\ raw' = [raw EXCEPT ![c] = 0]
  /\ buf' = [buf EXCEPT ![c] = 0]
  /\ wbio' = [wbio EXCEPT ![c] = 0]
  /\ UNCHANGED <<client, due, out, listening, writing, left, files, stops, served>>

\* The next event of the array, in whatever order the kernel put them.
Take(c, e) ==
  /\ writing = None
  /\ <<c, e>> \in ready
  /\ ready' = ready \ {<<c, e>>}

OnError(c) == Take(c, "err") /\ Free(c) /\ UNCHANGED errors

\* recv() returns no data, or an error that came after epoll_wait.
OnEnd(c) ==
  /\ Take(c, "in")
  /\ sock[c] = 0 \/ peer[c] = "reset"
  /\ Free(c)
  /\ UNCHANGED errors

\* Units that one recv() moves to the TLS layer, and what is then there.
Received(c) == Lesser(sock[c], Buffer)
Records(c) == raw[c] + Received(c)

\* SSL_read returns whole records only: m of the units, and all of them when
\* the last byte of a request has come in.
Decrypted(c, m) ==
  /\ Take(c, "in")
  /\ sock[c] > 0
  /\ m \in 0..Records(c)
  /\ asked[c] > served[c] /\ Received(c) = sock[c] => m = Records(c)

\* tls_ondata: there is no room for the plaintext, or the client's
\* close_notify came with its last data, or the library has left an error in
\* its queue, of whatever connection: SSL_get_error finds that first, and
\* ERR_print_errors_fp empties the queue.
OnTlsError(c) ==
  /\ \E m \in 0..Records(c) :
       /\ Decrypted(c, m)
       /\ \/ errors
          \/ m > Buffer - buf[c]
          \/ peer[c] = "fin" /\ Received(c) = sock[c]
  /\ errors' = FALSE
  /\ Free(c)

\* Seeded fault: what bff has no room for is dropped.
FlushDrops(c, w) ==
  LET r == Lesser(w, MaxWrite) IN
  /\ wbio' = [wbio EXCEPT ![c] = 0]
  /\ left' = r
  /\ writing' = IF r > 0 THEN c ELSE None

\* The end of http_tls_ondata: what there is to write, up to the size of bff.
Flush(c, w) ==
  LET r == Lesser(w, MaxWrite) IN
  /\ wbio' = [wbio EXCEPT ![c] = w - r]
  /\ left' = r
  /\ writing' = IF r > 0 THEN c ELSE None

\* Seeded fault: all of the buffer is taken to be free.
ConsumeUnbounded(c, m) ==
  /\ Decrypted(c, m) /\ ~errors
  /\ m <= Buffer
  /\ sock' = [sock EXCEPT ![c] = @ - Received(c)]
  /\ raw' = [raw EXCEPT ![c] = Records(c) - m]
  /\ UNCHANGED <<client, out, con, listening, stops>>

\* The plaintext goes behind what the buffer holds.
Consume(c, m) ==
  /\ Decrypted(c, m) /\ ~errors
  /\ m <= Buffer - buf[c]
  /\ sock' = [sock EXCEPT ![c] = @ - Received(c)]
  /\ raw' = [raw EXCEPT ![c] = Records(c) - m]
  /\ UNCHANGED <<client, out, con, listening, stops>>

\* root and branch, which take it that open() succeeds.
AsksPage(c) == req[c].opens \in {"unchecked", "absent"}

\* It fails, for want of a descriptor or of the file: read() returns -1, which
\* becomes the length of the page, and SSL_write refuses to send that.
Bodiless(c) ==
  AsksPage(c) /\ (Descriptors = MaxFds \/ req[c].opens = "absent")

Answer(c) == IF Bodiless(c) THEN 1 ELSE req[c].answer

\* http_server_callback_dispatch: the handler of the request runs.  One that
\* opens a file leaves it open; one that cannot answers as well, feed with 400,
\* root and branch with a header that has no page behind it and an error for
\* the next tls_ondata.
Dispatch(c) ==
  /\ served' = [served EXCEPT ![c] = @ + 1]
  /\ due' = [due EXCEPT ![c] = Answer(c)]
  /\ files' = IF req[c].opens \in {"checked", "unchecked"} /\ Descriptors < MaxFds
              THEN files + 1 ELSE files
  /\ errors' = Bodiless(c)

\* http_assemble_response, after what may be left of earlier answers.
Assembled(c) == wbio[c] + Answer(c)

\* Seeded fault: a request is taken for complete with its header.
CompleteEarly(c, n) == n > 0

\* Seeded fault: the length is compared before the last piece is counted.
CompleteLate(c, n) == n = req[c].size + 1

\* http_parse_request: the payload is as long as Content-Length says.
Complete(c, n) ==
  n = req[c].size

\* http_tls_ondata, no plaintext or a part of a request.
OnPart(c) ==
  \E m \in 0..Records(c) :
    /\ Consume(c, m)
    /\ m = 0 \/ ~Complete(c, buf[c] + m)
    /\ buf' = [buf EXCEPT ![c] = @ + m]
    /\ Flush(c, wbio[c])
    /\ UNCHANGED <<due, files, errors, served>>

\* Seeded fault: the buffer is not freed after the answer.
OnRequestKeepsBuffer(c) ==
  \E m \in 1..Records(c) :
    /\ Consume(c, m)
    /\ Complete(c, buf[c] + m)
    /\ buf' = [buf EXCEPT ![c] = @ + m]
    /\ Dispatch(c)
    /\ Flush(c, Assembled(c))

\* http_tls_ondata, a whole request: its handler runs, the answer is written
\* and the buffer freed.
OnRequest(c) ==
  \E m \in 1..Records(c) :
    /\ Consume(c, m)
    /\ Complete(c, buf[c] + m)
    /\ buf' = [buf EXCEPT ![c] = 0]
    /\ Dispatch(c)
    /\ Flush(c, Assembled(c))

\* The process ends and is started again: its connections, and those it has
\* not accepted, are gone, and so are its open files.
Restart ==
  /\ stops < MaxStops
  /\ stops' = stops + 1
  /\ con' = [c \in Conns |-> IF peer[c] = "none" THEN "none" ELSE "freed"]
  /\ sock' = Zero /\ raw' = Zero /\ buf' = Zero /\ wbio' = Zero
  /\ ready' = {} /\ listening' = FALSE
  /\ writing' = None /\ left' = 0 /\ errors' = FALSE
  /\ files' = 0
  /\ UNCHANGED <<client, due, out, served>>

\* A page of length -1, and a library that does not refuse it: SSL_write runs
\* out of the memory.
OnUnchecked(c) ==
  /\ ~errors
  /\ \E m \in 1..Records(c) :
       /\ writing = None /\ <<c, "in">> \in ready
       /\ sock[c] > 0
       /\ m = Records(c) /\ m <= Buffer - buf[c]
       /\ Complete(c, buf[c] + m)
  /\ Bodiless(c)
  /\ Restart

\* A signal: stop().
Stop == Restart

\* write() to a blocking socket goes on while there is space.
WriteUnit ==
  /\ writing # None
  /\ peer[writing] = "open"
  /\ out[writing] < SendSpace
  /\ out' = [out EXCEPT ![writing] = @ + 1]
  /\ left' = left - 1
  /\ writing' = IF left = 1 THEN None ELSE writing
  /\ UNCHANGED <<client, sock, raw, buf, due, wbio, con, ready, listening, errors,
                 files, stops, served>>

\* It finds that the client is gone: it fails, which nobody looks at,
WriteFails ==
  /\ writing # None
  /\ peer[writing] # "open"
  /\ writing' = None /\ left' = 0
  /\ UNCHANGED <<client, sock, raw, buf, due, wbio, out, con, ready, listening,
                 errors, files, stops, served>>

\* or raises SIGPIPE, which ends the process, as main() sets no action for it.
WriteKills ==
  /\ writing # None
  /\ peer[writing] # "open"
  /\ Restart

-----------------------------------------------------------------------------
Handle(c) ==
  \/ OnError(c)
  \/ OnEnd(c)
  \/ OnTlsError(c)
  \/ OnPart(c)
  \/ OnRequest(c)
  \/ OnUnchecked(c)

Server ==
  \/ Wait
  \/ Accept
  \/ \E c \in Conns : Handle(c)
  \/ WriteUnit
  \/ WriteFails
  \/ WriteKills

Next ==
  \/ \E c \in Conns :
       \/ Connect(c)
       \/ \E r \in Requests : Start(c, r)
       \/ \E n \in 1..unsent[c] : Send(c, n)
       \/ Read(c)
       \/ Hangup(c)
  \/ Server
  \/ Stop

Spec == Init /\ [][Next]_vars

CONSTANT Readers    \* the clients that read what they are sent

(***************************************************************************)
(* The thread of the server runs on, a client goes on sending what it has  *)
(* begun, and the Readers read.                                            *)
(***************************************************************************)
Fairness ==
  /\ WF_vars(Server)
  /\ \A c \in Conns : WF_vars(\E n \in 1..unsent[c] : Send(c, n))
  /\ \A c \in Readers : WF_vars(Read(c))

FairSpec == Spec /\ Fairness

-----------------------------------------------------------------------------
TypeOK ==
  /\ peer \in [Conns -> {"none", "open", "fin", "reset"}]
  /\ req \in [Conns -> Requests]
  /\ \A f \in {unsent, sock, raw, buf, due, wbio, out, read, asked, served, got} :
       f \in [Conns -> Nat]
  /\ \A c \in Conns : buf[c] <= Buffer /\ out[c] <= SendSpace
  /\ con \in [Conns -> {"none", "live", "freed"}]
  /\ ready \subseteq Conns \X {"err", "in"}
  /\ listening \in BOOLEAN
  /\ writing \in Conns \cup {None} /\ left \in 0..MaxWrite
  /\ errors \in BOOLEAN
  /\ files \in 0..MaxFds /\ Descriptors <= MaxFds
  /\ stops \in 0..MaxStops

\* epoll_listen keeps the events of one epoll_wait while it handles them, and
\* handlers free connections: none is freed while an event or a write() that
\* is still to come refers to it.
NothingFreedInUse ==
  /\ \A e \in ready : con[e[1]] = "live"
  /\ writing # None => con[writing] = "live"

\* A request on its way to the server: begun, and not carried out.
Asking(c) == unsent[c] > 0 \/ asked[c] > served[c]

\* However a request is cut into pieces and records, its bytes are on their
\* way or in the buffer, with none of the request before it.
NoByteAstray ==
  \A c \in Conns : peer[c] = "open" /\ con[c] # "freed" =>
    unsent[c] + sock[c] + raw[c] + buf[c] = IF Asking(c) THEN req[c].size ELSE 0

\* What a handler has answered is read, on its way, or in the hands of the
\* server; a part that one write() had no room for stays in the TLS layer.
\* That is the whole answer, or the header of a page that could not be read.
NoAnswerAstray ==
  \A c \in Conns :
    peer[c] = "open" /\ con[c] = "live" /\ served[c] > got[c] =>
      /\ read[c] + out[c] + wbio[c] + (IF writing = c THEN left ELSE 0)
           = due[c]
      /\ due[c] = req[c].answer \/ (AsksPage(c) /\ due[c] = 1)

\* The server is an exchange of whole requests and whole answers.
Exchanges ==
  INSTANCE Exchange WITH asked <- asked, served <- served, got <- got
IsExchange == Exchanges!Spec

\* A client that does not read holds up the only thread.
HeldUp == writing # None /\ writing \notin Readers /\ out[writing] = SendSpace

\* The handler could not open the page: the answer ends with its header.
Unreadable(c) == served[c] > got[c] /\ due[c] < req[c].answer

\* A client that reads gets an answer to every request, unless its connection
\* is gone, or cannot be accepted since files nobody closed use up the
\* descriptors, or the page it asked for could not be opened, or the answer is
\* longer than what one event writes, or the server waits for another client
\* that does not read.
EventuallyAnswered ==
  \A c \in Readers : \A n \in 1..MaxRequests :
    asked[c] >= n ~>
      \/ got[c] >= n
      \/ peer[c] # "open" \/ con[c] = "freed"
      \/ con[c] = "none" /\ Descriptors = MaxFds
      \/ Unreadable(c)
      \/ wbio[c] > 0
      \/ HeldUp
=============================================================================
