----------------------------- MODULE HttpProofs -----------------------------
(***************************************************************************)
(* Proofs about HttpServer, for every set of connections and requests and  *)
(* every size of the buffers.                                              *)
(***************************************************************************)
EXTENDS HttpServer, FiniteSetTheorems, TLAPS

(***************************************************************************)
(* The inductive invariant.  That no event refers to a freed connection is *)
(* kept by a handler that frees its own only because epoll_wait reported   *)
(* that one once: the event that is handled is the last one that names it. *)
(***************************************************************************)
ReportedOnce == \A e, f \in ready : e[1] = f[1] => e = f

IInv ==
  /\ ready \subseteq Conns \X {"err", "in"}
  /\ writing \in Conns \cup {None}
  /\ con \in [Conns -> {"none", "live", "freed"}]
  /\ ReportedOnce
  /\ NothingFreedInUse

\* Steps that free nothing, and add neither an event nor a write.
LEMMA Kept ==
  ASSUME IInv, UNCHANGED con, ready' \subseteq ready,
         writing' = writing \/ writing' = None
  PROVE  IInv'
<1>1. ReportedOnce'
  BY DEF IInv, ReportedOnce
<1>2. NothingFreedInUse'
  BY DEF IInv, NothingFreedInUse
<1>3. QED
  BY <1>1, <1>2 DEF IInv

\* Handling an event leaves none for its connection.
LEMMA Taken ==
  ASSUME IInv, NEW c \in Conns, NEW e \in {"err", "in"}, Take(c, e)
  PROVE  /\ con[c] = "live"
         /\ ready' \subseteq ready
         /\ \A f \in ready' : f[1] # c
<1>1. <<c, e>> \in ready /\ ready' = ready \ {<<c, e>>}
  BY DEF Take
<1>2. con[c] = "live"
  BY <1>1 DEF IInv, NothingFreedInUse
<1>3. ASSUME NEW f \in ready', f[1] = c
      PROVE  FALSE
  BY <1>1, <1>3 DEF IInv, ReportedOnce
<1>4. QED
  BY <1>1, <1>2, <1>3

\* epoll_wait: each live connection is reported once.
LEMMA WaitStep ==
  ASSUME IInv, Wait
  PROVE  IInv'
<1>1. \A f \in ready' : \E c \in Conns : f \in Events(c)
  BY DEF Wait
<1>2. ASSUME NEW c \in Conns, NEW f \in Events(c)
      PROVE  /\ f \in Conns \X {"err", "in"} /\ f[1] = c /\ con[c] = "live"
             /\ f[2] = "err" <=> peer[c] = "reset"
  BY DEF Events
<1>3. ready' \subseteq Conns \X {"err", "in"}
  BY <1>1, <1>2
<1>4. ReportedOnce'
  <2> SUFFICES ASSUME NEW e \in ready', NEW f \in ready', e[1] = f[1]
               PROVE  e = f
    BY DEF ReportedOnce
  <2>1. e[2] = f[2]
    BY <1>1, <1>2, <1>3
  <2>2. QED
    BY <1>3, <2>1
<1>5. UNCHANGED <<con, writing>>
  BY DEF Wait
<1>6. NothingFreedInUse'
  BY <1>1, <1>2, <1>5 DEF NothingFreedInUse, IInv
<1>7. QED
  BY <1>3, <1>4, <1>5, <1>6 DEF IInv

\* A connection that is accepted was not in use.
LEMMA AcceptStep ==
  ASSUME IInv, Accept
  PROVE  IInv'
<1>1. UNCHANGED <<ready, writing>>
  BY DEF Accept
<1>2. \A c \in Conns : con[c] = "live" => con'[c] = "live"
  BY DEF Accept, IInv
<1>3. con' \in [Conns -> {"none", "live", "freed"}]
  BY DEF Accept, IInv, Backlog
<1>4. NothingFreedInUse'
  BY <1>1, <1>2 DEF NothingFreedInUse, IInv
<1>5. QED
  BY <1>1, <1>3, <1>4 DEF IInv, ReportedOnce

\* http_tls_onclose, called for the event that is being handled.
LEMMA FreeStep ==
  ASSUME IInv, NEW c \in Conns, NEW e \in {"err", "in"}, Take(c, e), Free(c)
  PROVE  IInv'
<1>1. /\ ready' \subseteq ready
      /\ \A f \in ready' : f[1] # c
  BY Taken
<1>2. writing = None /\ writing' = None
  BY DEF Take, Free
<1>3. con' = [con EXCEPT ![c] = "freed"]
  BY DEF Free
<1>4. NothingFreedInUse'
  BY <1>1, <1>2, <1>3 DEF NothingFreedInUse, IInv
<1>5. QED
  BY <1>1, <1>2, <1>3, <1>4 DEF IInv, ReportedOnce

\* Data that does not end the connection: its answer is written to it.
LEMMA ConsumeStep ==
  ASSUME IInv, NEW c \in Conns, NEW m, Consume(c, m), NEW w, Flush(c, w)
  PROVE  IInv'
<1>1. Take(c, "in") /\ con' = con
  BY DEF Consume, Decrypted
<1>2. con[c] = "live" /\ ready' \subseteq ready
  BY <1>1, Taken
<1>3. writing' \in {c, None}
  BY DEF Flush
<1>4. NothingFreedInUse'
  BY <1>1, <1>2, <1>3 DEF NothingFreedInUse, IInv
<1>5. QED
  BY <1>1, <1>2, <1>3, <1>4 DEF IInv, ReportedOnce

\* After a restart nothing is in use.
LEMMA RestartStep ==
  ASSUME IInv, Restart
  PROVE  IInv'
BY DEF Restart, IInv, ReportedOnce, NothingFreedInUse

\* The invariant holds initially.
LEMMA InitInvariant == Init => IInv
BY DEF Init, IInv, ReportedOnce, NothingFreedInUse

\* Every step keeps it.
LEMMA StepInvariant ==
  ASSUME IInv, [Next]_vars
  PROVE  IInv'
<1>1. ASSUME NEW c \in Conns,
             \/ Connect(c)
             \/ \E r \in Requests : Start(c, r)
             \/ \E n \in 1..unsent[c] : Send(c, n)
             \/ Read(c)
             \/ Hangup(c)
      PROVE  IInv'
  <2>1. UNCHANGED <<con, thread>>
    BY <1>1 DEF Connect, Start, Send, Read, Hangup
  <2>2. QED
    BY <2>1, Kept DEF thread
<1>2. CASE Wait
  BY <1>2, WaitStep
<1>3. CASE Accept
  BY <1>3, AcceptStep
<1>4. ASSUME NEW c \in Conns, Handle(c)
      PROVE  IInv'
  <2>1. CASE OnError(c)
    BY <2>1, FreeStep DEF OnError
  <2>2. CASE OnEnd(c)
    BY <2>2, FreeStep DEF OnEnd
  <2>3. CASE OnTlsError(c)
    BY <2>3, FreeStep DEF OnTlsError, Decrypted
  <2>4. CASE OnPart(c)
    BY <2>4, ConsumeStep DEF OnPart
  <2>5. CASE OnRequest(c)
    BY <2>5, ConsumeStep DEF OnRequest
  <2>6. CASE OnUnchecked(c)
    BY <2>6, RestartStep DEF OnUnchecked
  <2>7. QED
    BY <1>4, <2>1, <2>2, <2>3, <2>4, <2>5, <2>6 DEF Handle
<1>5. CASE WriteUnit
  BY <1>5, Kept DEF WriteUnit
<1>6. CASE WriteFails
  BY <1>6, Kept DEF WriteFails
<1>7. CASE Stop \/ WriteKills
  BY <1>7, RestartStep DEF Stop, WriteKills
<1>8. CASE UNCHANGED vars
  BY <1>8, Kept DEF vars, thread
<1>9. QED
  BY <1>1, <1>2, <1>3, <1>4, <1>5, <1>6, <1>7, <1>8 DEF Next, Server

-----------------------------------------------------------------------------
\* No handler ever frees a connection to which an event that epoll_listen has
\* still to look at, or a write() it is busy with, refers.
THEOREM NoUseAfterFree == Spec => []NothingFreedInUse
<1>1. IInv => NothingFreedInUse
  BY DEF IInv
<1>2. IInv /\ [Next]_vars => IInv'
  BY StepInvariant
<1>3. QED
  BY <1>1, <1>2, InitInvariant, PTL DEF Spec

-----------------------------------------------------------------------------
(***************************************************************************)
(* Further proofs about HttpServer, for every set of connections and       *)
(* requests and every size of the buffers: no byte of a request or of an   *)
(* answer goes astray, and the server implements the abstract Exchange.    *)
(***************************************************************************)

(***************************************************************************)
(* The inductive invariant, one connection at a time.                      *)
(***************************************************************************)

\* Units of the request that the server's end holds, and of the answer that
\* write() is busy with.
Held(c) == sock[c] + raw[c] + buf[c]
Writing(c) == IF writing = c THEN left ELSE 0

\* A connection that was not made holds nothing, and one that was not accepted
\* has carried out nothing.
Fresh(c) ==
  /\ peer[c] = "none" =>
       con[c] = "none" /\ unsent[c] = 0 /\ sock[c] = 0 /\ asked[c] = 0
  /\ con[c] = "none" =>
       served[c] = 0 /\ raw[c] = 0 /\ buf[c] = 0 /\ wbio[c] = 0 /\ out[c] = 0

\* Requests and answers take turns.
Turns(c) ==
  /\ got[c] <= served[c] /\ served[c] <= asked[c] /\ asked[c] <= got[c] + 1
  /\ asked[c] <= MaxRequests
  /\ unsent[c] > 0 => asked[c] = got[c] /\ asked[c] < MaxRequests

\* The server's end holds all of a request that was sent and not carried out;
\* of one that was not sent, it holds less, also when the client is gone.
BytesHeld(c) ==
  con[c] # "freed" =>
    /\ asked[c] > served[c] => Held(c) = req[c].size
    /\ asked[c] = served[c] => Held(c) < req[c].size
    /\ asked[c] = served[c] /\ peer[c] = "open" =>
         Held(c) + unsent[c] = IF unsent[c] > 0 THEN req[c].size ELSE 0

\* Nothing of an answer is under way before its request is carried out, then
\* all of it until the client has it, or the server has freed the connection.
AnswerHeld(c) ==
  peer[c] = "open" =>
    /\ served[c] = got[c] =>
         /\ out[c] = 0 /\ wbio[c] = 0 /\ Writing(c) = 0
         /\ asked[c] > got[c] \/ unsent[c] > 0 => read[c] = 0
    /\ served[c] > got[c] =>
         /\ read[c] + out[c] + wbio[c] + Writing(c) <= req[c].answer
         /\ con[c] = "live" =>
              read[c] + out[c] + wbio[c] + Writing(c) = due[c]
         /\ due[c] = req[c].answer \/ (AsksPage(c) /\ due[c] = 1)

ConnInv(c) == Fresh(c) /\ Turns(c) /\ BytesHeld(c) /\ AnswerHeld(c)

XInv ==
  /\ IInv
  /\ TypeOK
  /\ writing = None <=> left = 0
  /\ \A c \in Conns : ConnInv(c)

\* What TypeOK says of the counters, one by one.
Counters ==
  /\ unsent \in [Conns -> Nat] /\ sock \in [Conns -> Nat]
  /\ raw \in [Conns -> Nat] /\ buf \in [Conns -> Nat]
  /\ wbio \in [Conns -> Nat] /\ out \in [Conns -> Nat]
  /\ read \in [Conns -> Nat] /\ asked \in [Conns -> Nat]
  /\ served \in [Conns -> Nat] /\ got \in [Conns -> Nat]
  /\ due \in [Conns -> Nat]

LEMMA CountersTyped == TypeOK => Counters
BY DEF TypeOK, Counters

LEMMA TypedCounters ==
  ASSUME Counters'
  PROVE  \A f \in {unsent', sock', raw', buf', due', wbio', out', read', asked',
                   served', got'} :
           f \in [Conns -> Nat]
BY DEF Counters

\* Descriptors are counted: the live connections are a finite set.
Live == {c \in Conns : con[c] = "live"}

LEMMA LiveFinite == IsFiniteSet(Live) /\ Cardinality(Live) \in Nat
<1>1. Live \subseteq Conns
  BY DEF Live
<1>2. IsFiniteSet(Live)
  BY <1>1, HttpAssumption, FS_Subset
<1>3. QED
  BY <1>2, FS_CardinalityType

\* A connection that a step does not touch.
LEMMA Elsewhere ==
  ASSUME NEW d \in Conns, ConnInv(d),
         peer'[d] = peer[d], con'[d] = con[d], req'[d] = req[d],
         unsent'[d] = unsent[d], sock'[d] = sock[d], raw'[d] = raw[d],
         buf'[d] = buf[d], wbio'[d] = wbio[d], out'[d] = out[d],
         read'[d] = read[d], asked'[d] = asked[d], served'[d] = served[d],
         got'[d] = got[d], due'[d] = due[d], Writing(d)' = Writing(d)
  PROVE  ConnInv(d)'
<1>1. Fresh(d)'
  BY DEF ConnInv, Fresh
<1>2. Turns(d)'
  BY DEF ConnInv, Turns
<1>3. BytesHeld(d)'
  BY DEF ConnInv, BytesHeld, Held
<1>4. AnswerHeld(d)'
  BY DEF ConnInv, AnswerHeld, AsksPage
<1>5. QED
  BY <1>1, <1>2, <1>3, <1>4 DEF ConnInv

-----------------------------------------------------------------------------
\* The initial state.
LEMMA XInit == Init => XInv
<1> SUFFICES ASSUME Init PROVE XInv
  OBVIOUS
<1>1. Counters
  BY DEF Init, Zero, Counters
<1>2. (CHOOSE r \in Requests : TRUE) \in Requests
  BY HttpAssumption
<1>3. req \in [Conns -> Requests]
  BY <1>2 DEF Init
<1>4. Live = {}
  BY DEF Init, Live
<1>5. Descriptors = 0
  BY <1>4, FS_EmptySet DEF Descriptors, Init, Live
<1>6. TypeOK
  <2>1. \A c \in Conns : buf[c] <= Buffer /\ out[c] <= SendSpace
    BY HttpAssumption DEF Init, Zero
  <2>2. /\ peer \in [Conns -> {"none", "open", "fin", "reset"}]
        /\ con \in [Conns -> {"none", "live", "freed"}]
        /\ ready \subseteq Conns \X {"err", "in"}
        /\ listening \in BOOLEAN /\ errors \in BOOLEAN
    BY DEF Init
  <2>3. /\ writing \in Conns \cup {None} /\ left \in 0..MaxWrite
        /\ files \in 0..MaxFds /\ Descriptors <= MaxFds
        /\ stops \in 0..MaxStops
    BY <1>5, HttpAssumption DEF Init
  <2>4. QED
    BY <1>1, <1>3, <2>1, <2>2, <2>3 DEF TypeOK, Counters
<1>7. ASSUME NEW c \in Conns
      PROVE  ConnInv(c)
  <2>1. req[c].size \in Nat \ {0}
    BY <1>3, HttpAssumption
  <2>2. Fresh(c) /\ Turns(c)
    BY HttpAssumption DEF Init, Zero, Fresh, Turns
  <2>3. BytesHeld(c)
    BY <2>1 DEF Init, Zero, BytesHeld, Held
  <2>4. AnswerHeld(c)
    BY DEF Init, Zero, AnswerHeld
  <2>5. QED
    BY <2>2, <2>3, <2>4 DEF ConnInv
<1>8. QED
  BY <1>6, <1>7, InitInvariant DEF XInv, Init

-----------------------------------------------------------------------------
\* A step that leaves alone descriptors and what the server's thread is doing
\* keeps XInv if it keeps the rest of the types, and ConnInv of every
\* connection.
LEMMA ClientSide ==
  ASSUME XInv, IInv', UNCHANGED <<con, thread, files, stops>>, Counters',
         peer' \in [Conns -> {"none", "open", "fin", "reset"}],
         req' \in [Conns -> Requests],
         \A c \in Conns : buf'[c] <= Buffer /\ out'[c] <= SendSpace,
         \A c \in Conns : ConnInv(c)'
  PROVE  XInv'
<1>1. UNCHANGED Descriptors
  BY DEF Descriptors
<1>2. TypeOK'
  BY <1>1, TypedCounters DEF XInv, TypeOK, thread
<1>3. QED
  BY <1>2 DEF XInv, thread

\* The invariant of HttpProofs, on the way.
LEMMA IInvStep == ASSUME XInv, [Next]_vars PROVE IInv'
BY StepInvariant DEF XInv

LEMMA ConnectStep ==
  ASSUME XInv, IInv', NEW c \in Conns, Connect(c)
  PROVE  XInv'
<1>1. Counters /\ Counters'
  BY CountersTyped DEF XInv, Connect, Counters, exchange
<1>2. peer' = [peer EXCEPT ![c] = "open"] /\ peer[c] = "none"
  BY DEF Connect
<1>3. UNCHANGED <<con, req, unsent, sock, raw, buf, due, wbio, out, read, asked,
                  served, got, writing, left>>
  BY DEF Connect, exchange, thread
<1>4. peer \in [Conns -> {"none", "open", "fin", "reset"}]
  BY DEF XInv, TypeOK
<1>5. ASSUME NEW d \in Conns
      PROVE  ConnInv(d)'
  <2>1. ConnInv(d) /\ Writing(d)' = Writing(d)
    BY <1>3 DEF XInv, Writing
  <2>2. CASE d # c
    BY <1>2, <1>3, <1>4, <2>1, <2>2, Elsewhere
  <2>3. CASE d = c
    <3>1. peer'[d] = "open" /\ peer[d] = "none"
      BY <1>2, <1>4, <2>3
    <3>2. /\ con[d] = "none" /\ unsent[d] = 0 /\ sock[d] = 0 /\ asked[d] = 0
          /\ served[d] = 0 /\ raw[d] = 0 /\ buf[d] = 0 /\ wbio[d] = 0 /\ out[d] = 0
      BY <2>1, <3>1 DEF ConnInv, Fresh
    <3>3. got[d] = 0
      BY <1>1, <2>1, <3>2 DEF ConnInv, Turns, Counters
    <3>4. Writing(d) = 0
      BY <3>2 DEF XInv, IInv, NothingFreedInUse, Writing
    <3>5. Fresh(d)' /\ Turns(d)'
      BY <1>3, <2>1, <3>1, <3>2 DEF ConnInv, Fresh, Turns
    <3>6. BytesHeld(d)'
      BY <1>3, <2>1, <3>1, <3>2 DEF ConnInv, BytesHeld, Held
    <3>7. AnswerHeld(d)'
      BY <1>3, <2>1, <3>1, <3>2, <3>3, <3>4 DEF ConnInv, AnswerHeld
    <3>8. QED
      BY <3>5, <3>6, <3>7 DEF ConnInv
  <2>4. QED
    BY <2>2, <2>3
<1>6. peer' \in [Conns -> {"none", "open", "fin", "reset"}]
  BY <1>2, <1>4
<1>7. UNCHANGED <<con, thread, files, stops>>
  BY DEF Connect
<1>8. QED
  BY <1>1, <1>3, <1>5, <1>6, <1>7, ClientSide DEF XInv, TypeOK

LEMMA StartStep ==
  ASSUME XInv, IInv', NEW c \in Conns, NEW r \in Requests, Start(c, r)
  PROVE  XInv'
<1>1. Counters /\ r.size \in Nat \ {0}
  BY CountersTyped, HttpAssumption DEF XInv
<1>2. /\ peer[c] = "open" /\ unsent[c] = 0 /\ asked[c] = got[c]
      /\ asked[c] < MaxRequests
      /\ req' = [req EXCEPT ![c] = r]
      /\ unsent' = [unsent EXCEPT ![c] = r.size]
      /\ read' = [read EXCEPT ![c] = 0]
  BY DEF Start
<1>3. UNCHANGED <<con, peer, sock, raw, buf, due, wbio, out, asked, served, got,
                  writing, left>>
  BY DEF Start, exchange, thread
<1>4. req \in [Conns -> Requests]
  BY DEF XInv, TypeOK
<1>5. Counters'
  BY <1>1, <1>2, <1>3 DEF Counters
<1>6. ASSUME NEW d \in Conns
      PROVE  ConnInv(d)'
  <2>1. ConnInv(d) /\ Writing(d)' = Writing(d)
    BY <1>3 DEF XInv, Writing
  <2>2. CASE d # c
    BY <1>1, <1>2, <1>3, <1>4, <2>1, <2>2, Elsewhere DEF Counters
  <2>3. CASE d = c
    <3>1. req'[d] = r /\ unsent'[d] = r.size /\ read'[d] = 0
      BY <1>1, <1>2, <1>4, <2>3 DEF Counters
    <3>2. /\ served[d] = got[d] /\ asked[d] = served[d]
          /\ {asked[d], sock[d], raw[d], buf[d]} \subseteq Nat
      BY <1>1, <1>2, <2>1, <2>3 DEF ConnInv, Turns, Counters
    <3>3. con[d] # "freed" => Held(d) = 0
      BY <1>1, <1>2, <2>1, <2>3, <3>2 DEF ConnInv, BytesHeld, Held
    <3>4. Fresh(d)'
      BY <1>2, <1>3, <2>1, <2>3 DEF ConnInv, Fresh
    <3>5. Turns(d)'
      BY <1>2, <1>3, <2>1, <2>3 DEF ConnInv, Turns
    <3>6. BytesHeld(d)'
      BY <1>1, <1>3, <3>1, <3>2, <3>3 DEF BytesHeld, Held
    <3>7. AnswerHeld(d)'
      BY <1>2, <1>3, <2>1, <2>3, <3>1, <3>2 DEF ConnInv, AnswerHeld
    <3>8. QED
      BY <3>4, <3>5, <3>6, <3>7 DEF ConnInv
  <2>4. QED
    BY <2>2, <2>3
<1>7. req' \in [Conns -> Requests]
  BY <1>2, <1>4
<1>8. UNCHANGED <<con, thread, files, stops>>
  BY DEF Start
<1>9. QED
  BY <1>3, <1>5, <1>6, <1>7, <1>8, ClientSide DEF XInv, TypeOK

LEMMA SendStep ==
  ASSUME XInv, IInv', NEW c \in Conns, NEW n \in 1..unsent[c], Send(c, n)
  PROVE  XInv'
<1>1. Counters /\ n \in Nat \ {0}
  BY CountersTyped DEF XInv, Counters
<1>2. /\ peer[c] = "open" /\ con[c] # "freed" /\ n <= unsent[c]
      /\ unsent' = [unsent EXCEPT ![c] = @ - n]
      /\ sock' = [sock EXCEPT ![c] = @ + n]
      /\ asked' = IF n = unsent[c] THEN [asked EXCEPT ![c] = @ + 1] ELSE asked
  BY DEF Send
<1>3. UNCHANGED <<con, peer, req, raw, buf, due, wbio, out, read, served, got,
                  writing, left>>
  BY DEF Send, thread
<1>4. /\ unsent'[c] = unsent[c] - n /\ sock'[c] = sock[c] + n
      /\ asked'[c] = IF n = unsent[c] THEN asked[c] + 1 ELSE asked[c]
      /\ \A d \in Conns : d # c =>
           unsent'[d] = unsent[d] /\ sock'[d] = sock[d] /\ asked'[d] = asked[d]
  BY <1>1, <1>2 DEF Counters
<1>5. Counters'
  BY <1>1, <1>2, <1>3 DEF Counters
<1>6. ASSUME NEW d \in Conns
      PROVE  ConnInv(d)'
  <2>1. ConnInv(d) /\ Writing(d)' = Writing(d)
    BY <1>3 DEF XInv, Writing
  <2>2. CASE d # c
    BY <1>3, <1>4, <2>1, <2>2, Elsewhere
  <2>3. CASE d = c
    <3>1. /\ asked[d] = got[d] /\ asked[d] < MaxRequests /\ served[d] = got[d]
          /\ {asked[d], unsent[d], sock[d], raw[d], buf[d], n} \subseteq Nat
          /\ n > 0 /\ unsent[d] > 0
      BY <1>1, <1>2, <2>1, <2>3 DEF ConnInv, Turns, Counters
    <3>2. Held(d) + unsent[d] = req[d].size
      BY <1>2, <2>1, <2>3, <3>1 DEF ConnInv, BytesHeld
    <3>3. Fresh(d)'
      BY <1>2, <1>3, <2>1, <2>3 DEF ConnInv, Fresh
    <3>4. Turns(d)'
      <4>1. MaxRequests \in Nat
        BY HttpAssumption
      <4>2. QED
        BY <1>2, <1>3, <1>4, <2>1, <2>3, <3>1, <4>1 DEF ConnInv, Turns
    <3>5. Held(d)' = Held(d) + n /\ Held(d) \in Nat
      BY <1>3, <1>4, <2>3, <3>1 DEF Held
    <3>6. BytesHeld(d)'
      BY <1>2, <1>3, <1>4, <2>3, <3>1, <3>2, <3>5 DEF BytesHeld
    <3>7. AnswerHeld(d)'
      BY <1>2, <1>3, <1>4, <2>1, <2>3, <3>1 DEF ConnInv, AnswerHeld
    <3>8. QED
      BY <3>3, <3>4, <3>6, <3>7 DEF ConnInv
  <2>4. QED
    BY <2>2, <2>3
<1>7. UNCHANGED <<con, thread, files, stops>>
  BY DEF Send
<1>8. QED
  BY <1>3, <1>5, <1>6, <1>7, ClientSide DEF XInv, TypeOK

LEMMA ReadStep ==
  ASSUME XInv, IInv', NEW c \in Conns, Read(c)
  PROVE  XInv'
<1>1. Counters
  BY CountersTyped DEF XInv
<1>2. /\ peer[c] = "open" /\ out[c] > 0
      /\ out' = [out EXCEPT ![c] = @ - 1]
      /\ read' = [read EXCEPT ![c] = @ + 1]
      /\ got' = IF read[c] + 1 = req[c].answer
                THEN [got EXCEPT ![c] = @ + 1] ELSE got
  BY DEF Read
<1>3. UNCHANGED <<con, peer, req, unsent, sock, raw, buf, due, wbio, asked, served,
                  writing, left>>
  BY DEF Read, thread
<1>4. /\ out'[c] = out[c] - 1 /\ read'[c] = read[c] + 1
      /\ got'[c] = IF read[c] + 1 = req[c].answer THEN got[c] + 1 ELSE got[c]
      /\ \A d \in Conns : d # c =>
           out'[d] = out[d] /\ read'[d] = read[d] /\ got'[d] = got[d]
  BY <1>1, <1>2 DEF Counters
<1>5. Counters'
  BY <1>1, <1>2, <1>3 DEF Counters
<1>6. ASSUME NEW d \in Conns
      PROVE  ConnInv(d)'
  <2>1. ConnInv(d) /\ Writing(d)' = Writing(d)
    BY <1>3 DEF XInv, Writing
  <2>2. CASE d # c
    BY <1>3, <1>4, <2>1, <2>2, Elsewhere
  <2>3. CASE d = c
    <3>1. /\ {asked[d], served[d], got[d], unsent[d], out[d], read[d], wbio[d]} \subseteq Nat
          /\ Writing(d) \in Nat /\ req[d].answer \in Nat
      <4>1. req[d] \in Requests /\ left \in Nat
        BY HttpAssumption DEF XInv, TypeOK
      <4>2. QED
        BY <1>1, <4>1, HttpAssumption DEF Counters, Writing
    <3>2. served[d] > got[d]
      BY <1>2, <2>1, <2>3, <3>1 DEF ConnInv, AnswerHeld, Turns
    <3>3. read[d] + out[d] + wbio[d] + Writing(d) <= req[d].answer
      BY <1>2, <2>1, <2>3, <3>2 DEF ConnInv, AnswerHeld
    <3>4. unsent[d] = 0 /\ served[d] = got[d] + 1 /\ asked[d] = got[d] + 1
      BY <2>1, <3>1, <3>2 DEF ConnInv, Turns
    <3>5. Fresh(d)'
      BY <1>2, <1>3, <1>4, <2>1, <2>3 DEF ConnInv, Fresh
    <3>6. Turns(d)'
      BY <1>3, <1>4, <2>1, <2>3, <3>1, <3>4 DEF ConnInv, Turns
    <3>7. BytesHeld(d)'
      BY <1>3, <2>1 DEF ConnInv, BytesHeld, Held
    <3>8. AnswerHeld(d)'
      <4>1. CASE read[d] + 1 = req[d].answer
        <5>1. out'[d] = 0 /\ wbio[d] = 0 /\ Writing(d) = 0 /\ got'[d] = served[d]
          BY <1>2, <1>4, <2>3, <3>1, <3>3, <3>4, <4>1
        <5>2. QED
          BY <1>3, <2>1, <3>1, <3>4, <5>1 DEF AnswerHeld
      <4>2. CASE read[d] + 1 # req[d].answer
        <5>1. read'[d] + out'[d] = read[d] + out[d] /\ got'[d] = got[d]
          BY <1>4, <2>3, <3>1, <4>2
        <5>2. read'[d] + out'[d] + wbio[d] + Writing(d)
                = read[d] + out[d] + wbio[d] + Writing(d)
          BY <1>4, <2>3, <3>1, <5>1
        <5>3. QED
          BY <1>3, <2>1, <3>1, <3>2, <5>1, <5>2 DEF ConnInv, AnswerHeld, AsksPage
      <4>3. QED
        BY <4>1, <4>2
    <3>9. QED
      BY <3>5, <3>6, <3>7, <3>8 DEF ConnInv
  <2>4. QED
    BY <2>2, <2>3
<1>7. ASSUME NEW d \in Conns
      PROVE  buf'[d] <= Buffer /\ out'[d] <= SendSpace
  <2>1. buf[d] <= Buffer /\ out[d] <= SendSpace /\ out[d] \in Nat
    BY <1>1 DEF XInv, TypeOK, Counters
  <2>2. QED
    BY <1>3, <1>4, <2>1, HttpAssumption
<1>8. UNCHANGED <<con, thread, files, stops>>
  BY DEF Read
<1>9. QED
  BY <1>3, <1>5, <1>6, <1>7, <1>8, ClientSide DEF XInv, TypeOK

LEMMA HangupStep ==
  ASSUME XInv, IInv', NEW c \in Conns, Hangup(c)
  PROVE  XInv'
<1>1. Counters
  BY CountersTyped DEF XInv
<1>2. PICK e \in {"fin", "reset"} : peer' = [peer EXCEPT ![c] = e]
  BY DEF Hangup
<1>3. /\ peer[c] = "open"
      /\ unsent' = [unsent EXCEPT ![c] = 0]
      /\ out' = [out EXCEPT ![c] = 0]
  BY DEF Hangup
<1>4. UNCHANGED <<con, req, sock, raw, buf, due, wbio, read, asked, served, got,
                  writing, left>>
  BY DEF Hangup, thread, exchange
<1>5. peer \in [Conns -> {"none", "open", "fin", "reset"}]
  BY DEF XInv, TypeOK
<1>6. Counters'
  BY <1>1, <1>3, <1>4 DEF Counters
<1>7. ASSUME NEW d \in Conns
      PROVE  ConnInv(d)'
  <2>1. ConnInv(d) /\ Writing(d)' = Writing(d)
    BY <1>4 DEF XInv, Writing
  <2>2. CASE d # c
    BY <1>1, <1>2, <1>3, <1>4, <1>5, <2>1, <2>2, Elsewhere DEF Counters
  <2>3. CASE d = c
    <3>1. peer'[d] \in {"fin", "reset"} /\ unsent'[d] = 0 /\ out'[d] = 0
      BY <1>1, <1>2, <1>3, <1>5, <2>3 DEF Counters
    <3>2. Fresh(d)' /\ Turns(d)'
      BY <1>4, <2>1, <3>1 DEF ConnInv, Fresh, Turns
    <3>3. BytesHeld(d)' /\ AnswerHeld(d)'
      BY <1>4, <2>1, <3>1 DEF ConnInv, BytesHeld, AnswerHeld, Held
    <3>4. QED
      BY <3>2, <3>3 DEF ConnInv
  <2>4. QED
    BY <2>2, <2>3
<1>8. ASSUME NEW d \in Conns
      PROVE  buf'[d] <= Buffer /\ out'[d] <= SendSpace
  <2>1. buf[d] <= Buffer /\ out[d] <= SendSpace
    BY DEF XInv, TypeOK
  <2>2. out'[d] = 0 \/ out'[d] = out[d]
    BY <1>1, <1>3 DEF Counters
  <2>3. QED
    BY <1>4, <2>1, <2>2, HttpAssumption
<1>9. peer' \in [Conns -> {"none", "open", "fin", "reset"}]
  BY <1>2, <1>5
<1>10. UNCHANGED <<con, thread, files, stops>>
  BY DEF Hangup
<1>11. QED
  BY <1>4, <1>6, <1>7, <1>8, <1>9, <1>10, ClientSide DEF XInv, TypeOK

-----------------------------------------------------------------------------
\* The thread: epoll_wait touches no connection.
LEMMA WaitKeeps ==
  ASSUME XInv, IInv', Wait
  PROVE  XInv'
<1>1. UNCHANGED <<client, sock, raw, buf, due, wbio, out, con, writing, left, errors,
                  files, stops, served>>
  BY DEF Wait
<1>2. ASSUME NEW d \in Conns
      PROVE  ConnInv(d)'
  BY <1>1, Elsewhere DEF XInv, client, Writing
<1>3. listening' \in BOOLEAN
  BY DEF Wait
<1>4. UNCHANGED Descriptors
  BY <1>1 DEF Descriptors
<1>5. ready' \subseteq Conns \X {"err", "in"}
  BY DEF IInv
<1>6. TypeOK'
  BY <1>1, <1>3, <1>4, <1>5 DEF XInv, TypeOK, client
<1>7. QED
  BY <1>1, <1>2, <1>6 DEF XInv

\* One connection more is live, or one less.
LEMMA LiveMore ==
  ASSUME con \in [Conns -> {"none", "live", "freed"}], NEW c \in Conns,
         con[c] # "live", con' = [con EXCEPT ![c] = "live"]
  PROVE  Cardinality(Live') = Cardinality(Live) + 1
<1>1. Live' = Live \cup {c} /\ c \notin Live
  BY DEF Live
<1>2. QED
  BY <1>1, LiveFinite, FS_AddElement

LEMMA LiveLess ==
  ASSUME con \in [Conns -> {"none", "live", "freed"}], NEW c \in Conns,
         con' = [con EXCEPT ![c] = "freed"]
  PROVE  Cardinality(Live') <= Cardinality(Live)
<1>1. Live' \subseteq Live
  BY DEF Live
<1>2. QED
  BY <1>1, LiveFinite, FS_Subset

LEMMA AcceptKeeps ==
  ASSUME XInv, IInv', Accept
  PROVE  XInv'
<1>1. UNCHANGED <<client, sock, raw, buf, due, wbio, out, ready, writing, left, errors,
                  files, stops, served>>
  BY DEF Accept
<1>2. listening' \in BOOLEAN /\ files \in Nat /\ MaxFds \in Nat
  <2>1. listening' \in BOOLEAN
    BY DEF Accept
  <2>2. MaxFds \in Nat
    BY HttpAssumption
  <2>3. files \in 0..MaxFds
    BY DEF XInv, TypeOK
  <2>4. QED
    BY <2>1, <2>2, <2>3
<1>3. con \in [Conns -> {"none", "live", "freed"}]
  BY DEF XInv, TypeOK
<1>4. CASE UNCHANGED con
  <2>1. ASSUME NEW d \in Conns
        PROVE  ConnInv(d)'
    BY <1>1, <1>4, Elsewhere DEF XInv, client, Writing
  <2>2. UNCHANGED Descriptors
    BY <1>1, <1>4 DEF Descriptors
  <2>3. TypeOK'
    BY <1>1, <1>2, <1>4, <2>2 DEF XInv, TypeOK, client
  <2>4. QED
    BY <1>1, <2>1, <2>3 DEF XInv
<1>5. ASSUME Descriptors < MaxFds,
             NEW c \in Backlog, con' = [con EXCEPT ![c] = "live"]
      PROVE  XInv'
  <2>1. c \in Conns /\ peer[c] # "none" /\ con[c] = "none"
    BY DEF Backlog
  <2>2. con' \in [Conns -> {"none", "live", "freed"}]
    BY <1>3, <1>5
  <2>3. Descriptors' = Descriptors + 1
    <3>1. Cardinality(Live') = Cardinality(Live) + 1
      BY <1>3, <1>5, <2>1, LiveMore
    <3>2. QED
      BY <1>1, <1>2, <3>1, LiveFinite DEF Descriptors, Live
  <2>4. Descriptors' <= MaxFds
    BY <1>2, <1>5, <2>3, LiveFinite DEF Descriptors, Live
  <2>5. ASSUME NEW d \in Conns
        PROVE  ConnInv(d)'
    <3>1. ConnInv(d) /\ Writing(d)' = Writing(d)
      BY <1>1 DEF XInv, Writing
    <3>2. CASE d # c
      BY <1>1, <1>3, <1>5, <3>1, <3>2, Elsewhere DEF client, exchange
    <3>3. CASE d = c
      <4>1. con'[d] = "live" /\ con[d] = "none" /\ peer[d] # "none"
        BY <1>3, <1>5, <2>1, <3>3
      <4>2. Fresh(d)' /\ Turns(d)'
        BY <1>1, <3>1, <4>1 DEF ConnInv, Fresh, Turns, client
      <4>3. BytesHeld(d)'
        BY <1>1, <3>1, <4>1 DEF ConnInv, BytesHeld, Held, client
      <4>4. AnswerHeld(d)'
        <5>1. got[d] \in Nat /\ served[d] = 0
          BY <3>1, <4>1, CountersTyped DEF ConnInv, Fresh, XInv, Counters
        <5>2. got[d] = served[d]
          BY <3>1, <5>1 DEF ConnInv, Turns
        <5>3. QED
          BY <1>1, <3>1, <5>1, <5>2 DEF ConnInv, AnswerHeld, client
      <4>5. QED
        BY <4>2, <4>3, <4>4 DEF ConnInv
    <3>4. QED
      BY <3>2, <3>3
  <2>6. TypeOK'
    BY <1>1, <1>2, <2>2, <2>4 DEF XInv, TypeOK, client
  <2>7. QED
    BY <1>1, <2>5, <2>6 DEF XInv
<1>6. QED
  BY <1>4, <1>5 DEF Accept

\* What the steps of a handler have in common: the types of what they leave.
LEMMA HandlerSide ==
  ASSUME XInv, IInv', UNCHANGED <<peer, req, out, listening>>, Counters',
         con' \in [Conns -> {"none", "live", "freed"}],
         writing' \in Conns \cup {None}, left' \in 0..MaxWrite,
         writing' = None <=> left' = 0,
         files' \in Nat, Descriptors' <= MaxFds, stops' \in 0..MaxStops,
         errors' \in BOOLEAN,
         \A c \in Conns : buf'[c] <= Buffer,
         \A c \in Conns : ConnInv(c)'
  PROVE  XInv'
<1>1. ready' \subseteq Conns \X {"err", "in"}
  BY DEF IInv
<1>2. files' \in 0..MaxFds
  <2>1. Live' = {c \in Conns : con'[c] = "live"} /\ Cardinality(Live') \in Nat
    <3>1. Live' \subseteq Conns
      BY DEF Live
    <3>2. IsFiniteSet(Live')
      BY <3>1, HttpAssumption, FS_Subset
    <3>3. QED
      BY <3>2, FS_CardinalityType DEF Live
  <2>2. Descriptors' = Cardinality(Live') + files'
    BY DEF Descriptors, Live
  <2>3. QED
    BY <2>1, <2>2, HttpAssumption
<1>3. TypeOK'
  <2>1. \A c \in Conns : buf'[c] <= Buffer /\ out'[c] <= SendSpace
    BY DEF XInv, TypeOK
  <2>2. QED
    BY <1>1, <1>2, <2>1, TypedCounters DEF XInv, TypeOK
<1>4. QED
  BY <1>3 DEF XInv

\* http_tls_onclose, in whatever handler.
LEMMA FreeKeeps ==
  ASSUME XInv, IInv', NEW c \in Conns, NEW e \in {"err", "in"},
         Take(c, e), Free(c), errors' \in BOOLEAN
  PROVE  XInv'
<1>1. Counters /\ con \in [Conns -> {"none", "live", "freed"}]
  BY CountersTyped DEF XInv, TypeOK
<1>2. /\ con' = [con EXCEPT ![c] = "freed"]
      /\ sock' = [sock EXCEPT ![c] = 0] /\ raw' = [raw EXCEPT ![c] = 0]
      /\ buf' = [buf EXCEPT ![c] = 0] /\ wbio' = [wbio EXCEPT ![c] = 0]
  BY DEF Free
<1>3. UNCHANGED <<peer, req, unsent, read, asked, got, due, out, listening, writing,
                  left, files, stops, served>>
  BY DEF Free, client
<1>4. writing = None /\ con[c] = "live"
  <2>1. writing = None
    BY DEF Take
  <2>2. QED
    BY <2>1, Taken DEF XInv
<1>5. Counters'
  BY <1>1, <1>2, <1>3 DEF Counters
<1>6. con' \in [Conns -> {"none", "live", "freed"}]
  BY <1>1, <1>2
<1>7. Descriptors' <= MaxFds
  <2>1. Cardinality(Live') <= Cardinality(Live)
    BY <1>1, <1>2, LiveLess
  <2>2. Cardinality(Live') \in Nat
    <3>1. Live' \subseteq Live
      BY <1>1, <1>2 DEF Live
    <3>2. QED
      BY <3>1, LiveFinite, FS_Subset, FS_CardinalityType
  <2>3. files \in Nat /\ MaxFds \in Nat /\ Cardinality(Live) + files <= MaxFds
    BY HttpAssumption DEF XInv, TypeOK, Descriptors, Live
  <2>4. Cardinality(Live') + files' <= MaxFds
    BY <1>3, <2>1, <2>2, <2>3, LiveFinite
  <2>5. QED
    BY <2>4 DEF Descriptors, Live
<1>8. ASSUME NEW d \in Conns
      PROVE  ConnInv(d)' /\ buf'[d] <= Buffer
  <2>1. ConnInv(d) /\ Writing(d)' = Writing(d) /\ buf[d] <= Buffer
    BY <1>3 DEF XInv, TypeOK, Writing
  <2>2. CASE d # c
    <3>1. /\ con'[d] = con[d] /\ sock'[d] = sock[d] /\ raw'[d] = raw[d]
          /\ buf'[d] = buf[d] /\ wbio'[d] = wbio[d]
      BY <1>1, <1>2, <2>2 DEF Counters
    <3>2. QED
      BY <1>3, <2>1, <3>1, Elsewhere
  <2>3. CASE d = c
    <3>1. /\ con'[d] = "freed" /\ sock'[d] = 0 /\ raw'[d] = 0 /\ buf'[d] = 0
          /\ wbio'[d] = 0
      BY <1>1, <1>2, <2>3 DEF Counters
    <3>2. Writing(d) = 0 /\ peer[d] # "none"
      <4>1. d # None
        BY HttpAssumption
      <4>2. QED
        BY <1>4, <2>1, <2>3, <4>1 DEF Writing, ConnInv, Fresh
    <3>3. Fresh(d)' /\ Turns(d)' /\ BytesHeld(d)'
      BY <1>3, <2>1, <3>1, <3>2 DEF ConnInv, Fresh, Turns, BytesHeld
    <3>4. AnswerHeld(d)'
      <4>1. /\ {read[d], out[d], wbio[d]} \subseteq Nat
            /\ req[d].answer \in Nat
        <5>1. req[d] \in Requests
          BY DEF XInv, TypeOK
        <5>2. QED
          BY <1>1, <5>1, HttpAssumption DEF Counters
      <4>2. QED
        BY <1>3, <1>4, <2>1, <2>3, <3>1, <3>2, <4>1 DEF ConnInv, AnswerHeld, AsksPage
    <3>5. QED
      BY <3>1, <3>3, <3>4, HttpAssumption DEF ConnInv
  <2>4. QED
    BY <2>2, <2>3
<1>9. QED
  BY <1>3, <1>5, <1>6, <1>7, <1>8, HandlerSide DEF XInv, TypeOK

-----------------------------------------------------------------------------
\* What one read brings: nothing is lost between the socket, the TLS layer and
\* the buffer.
LEMMA Consumed ==
  ASSUME XInv, NEW c \in Conns, NEW m \in 0..Records(c), Consume(c, m)
  PROVE  /\ con[c] = "live" /\ writing = None
         /\ m \in Nat /\ m <= Buffer - buf[c]
         /\ sock'[c] \in Nat /\ raw'[c] \in Nat
         /\ sock'[c] + raw'[c] + m = sock[c] + raw[c]
         /\ sock' \in [Conns -> Nat] /\ raw' \in [Conns -> Nat]
         /\ \A d \in Conns : d # c => sock'[d] = sock[d] /\ raw'[d] = raw[d]
         /\ UNCHANGED <<peer, req, unsent, read, asked, got, out, con,
                        listening, stops>>
<1>1. Take(c, "in") /\ m <= Buffer - buf[c]
  BY DEF Consume, Decrypted
<1>2. writing = None /\ con[c] = "live"
  <2>1. writing = None
    BY <1>1 DEF Take
  <2>2. QED
    BY <1>1, <2>1, Taken DEF XInv
<1>3. /\ sock' = [sock EXCEPT ![c] = sock[c] - Received(c)]
      /\ raw' = [raw EXCEPT ![c] = Records(c) - m]
  BY DEF Consume
<1>4. sock \in [Conns -> Nat] /\ raw \in [Conns -> Nat]
  BY CountersTyped DEF XInv, Counters
<1>5. Received(c) \in 0..sock[c]
  BY <1>4, HttpAssumption DEF Received, Lesser
<1>6. m \in Nat /\ m <= raw[c] + Received(c) /\ Records(c) = raw[c] + Received(c)
  BY <1>4, <1>5 DEF Records
<1>7. sock'[c] = sock[c] - Received(c) /\ raw'[c] = raw[c] + Received(c) - m
  BY <1>3, <1>4, <1>5, <1>6
<1>8. UNCHANGED <<peer, req, unsent, read, asked, got, out, con, listening, stops>>
  BY DEF Consume, client
<1>9. /\ sock'[c] \in Nat /\ raw'[c] \in Nat
      /\ sock'[c] + raw'[c] + m = sock[c] + raw[c]
  BY <1>4, <1>5, <1>6, <1>7
<1>10. sock' \in [Conns -> Nat] /\ raw' \in [Conns -> Nat]
  BY <1>3, <1>4, <1>7, <1>9
<1>11. QED
  BY <1>1, <1>2, <1>3, <1>4, <1>6, <1>8, <1>9, <1>10

\* What is flushed is written, or stays in the TLS layer.
LEMMA Flushed ==
  ASSUME XInv, writing = None, NEW c \in Conns, NEW w \in Nat, Flush(c, w)
  PROVE  /\ wbio' \in [Conns -> Nat]
         /\ wbio'[c] + Writing(c)' = w /\ Writing(c)' \in Nat
         /\ \A d \in Conns : d # c => wbio'[d] = wbio[d] /\ Writing(d)' = 0
         /\ writing' \in Conns \cup {None} /\ left' \in 0..MaxWrite
         /\ writing' = None <=> left' = 0
<1> DEFINE r == Lesser(w, MaxWrite)
<1>1. r \in Nat /\ r <= w /\ r <= MaxWrite
  BY HttpAssumption DEF Lesser
<1>2. /\ wbio' = [wbio EXCEPT ![c] = w - r]
      /\ left' = r
      /\ writing' = IF r > 0 THEN c ELSE None
  BY DEF Flush
<1>3. wbio \in [Conns -> Nat] /\ None \notin Conns
  BY CountersTyped, HttpAssumption DEF XInv, Counters
<1> HIDE DEF r
<1>4. wbio' \in [Conns -> Nat] /\ wbio'[c] = w - r
  BY <1>1, <1>2, <1>3
<1>5. Writing(c)' = r
  BY <1>1, <1>2, <1>3 DEF Writing
<1>6. ASSUME NEW d \in Conns, d # c
      PROVE  wbio'[d] = wbio[d] /\ Writing(d)' = 0
  BY <1>2, <1>3, <1>6 DEF Writing
<1>7. /\ writing' \in Conns \cup {None} /\ left' \in 0..MaxWrite
      /\ writing' = None <=> left' = 0
  BY <1>1, <1>2, <1>3
<1>8. QED
  BY <1>1, <1>4, <1>5, <1>6, <1>7

\* Before a handler's write nothing is being written.
LEMMA NotWriting ==
  ASSUME writing = None, NEW d \in Conns
  PROVE  Writing(d) = 0
<1>1. d # None
  BY HttpAssumption
<1>2. QED
  BY <1>1 DEF Writing

\* Sizes of requests and of answers.
LEMMA Sizes ==
  ASSUME XInv, NEW c \in Conns
  PROVE  req[c].size \in Nat \ {0} /\ req[c].answer \in Nat \ {0}
<1>1. req[c] \in Requests
  BY DEF XInv, TypeOK
<1>2. QED
  BY <1>1, HttpAssumption

LEMMA OnPartKeeps ==
  ASSUME XInv, IInv', NEW c \in Conns, OnPart(c)
  PROVE  XInv'
<1>1. Counters
  BY CountersTyped DEF XInv
<1>2. PICK m \in 0..Records(c) :
        /\ Consume(c, m)
        /\ buf' = [buf EXCEPT ![c] = @ + m]
        /\ Flush(c, wbio[c])
        /\ UNCHANGED <<due, files, errors, served>>
  BY DEF OnPart
<1>3. /\ con[c] = "live" /\ writing = None
      /\ m \in Nat /\ m <= Buffer - buf[c]
      /\ sock'[c] \in Nat /\ raw'[c] \in Nat
      /\ sock'[c] + raw'[c] + m = sock[c] + raw[c]
      /\ sock' \in [Conns -> Nat] /\ raw' \in [Conns -> Nat]
      /\ \A d \in Conns : d # c => sock'[d] = sock[d] /\ raw'[d] = raw[d]
      /\ UNCHANGED <<peer, req, unsent, read, asked, got, out, con,
                     listening, stops>>
  BY <1>2, Consumed
<1>4. wbio[c] \in Nat /\ buf[c] \in Nat
  BY <1>1 DEF Counters
<1>5. /\ wbio' \in [Conns -> Nat]
      /\ wbio'[c] + Writing(c)' = wbio[c] /\ Writing(c)' \in Nat
      /\ \A d \in Conns : d # c => wbio'[d] = wbio[d] /\ Writing(d)' = 0
      /\ writing' \in Conns \cup {None} /\ left' \in 0..MaxWrite
      /\ writing' = None <=> left' = 0
  BY <1>2, <1>3, <1>4, Flushed
<1>6. buf' \in [Conns -> Nat] /\ buf'[c] = buf[c] + m
  BY <1>1, <1>2, <1>3 DEF Counters
<1>7. Counters'
  BY <1>1, <1>2, <1>3, <1>5, <1>6 DEF Counters
<1>8. ASSUME NEW d \in Conns
      PROVE  ConnInv(d)' /\ buf'[d] <= Buffer
  <2>1. ConnInv(d) /\ Writing(d) = 0 /\ buf[d] <= Buffer
    BY <1>3, NotWriting DEF XInv, TypeOK
  <2>2. CASE d # c
    <3>1. buf'[d] = buf[d]
      BY <1>1, <1>2, <2>2 DEF Counters
    <3>2. QED
      BY <1>2, <1>3, <1>5, <2>1, <2>2, <3>1, Elsewhere
  <2>3. CASE d = c
    <3>1. buf'[d] <= Buffer
      BY <1>3, <1>4, <1>6, <2>3, HttpAssumption
    <3>2. Held(d)' = Held(d)
      BY <1>1, <1>3, <1>6, <2>3 DEF Held, Counters
    <3>3. wbio'[d] \in Nat /\ wbio'[d] + Writing(d)' = wbio[d] + Writing(d)
      BY <1>4, <1>5, <2>1, <2>3
    <3>4. Fresh(d)'
      BY <1>2, <1>3, <2>1, <2>3 DEF ConnInv, Fresh
    <3>5. Turns(d)'
      BY <1>2, <1>3, <2>1 DEF ConnInv, Turns
    <3>6. BytesHeld(d)'
      BY <1>2, <1>3, <2>1, <3>2 DEF ConnInv, BytesHeld
    <3>7. AnswerHeld(d)'
      <4>1. read[d] \in Nat /\ out[d] \in Nat /\ wbio[d] \in Nat
        BY <1>1 DEF Counters
      <4>2. read[d] + out[d] + wbio'[d] + Writing(d)'
              = read[d] + out[d] + wbio[d] + Writing(d)
        BY <1>5, <2>1, <2>3, <3>3, <4>1
      <4>3. wbio[d] = 0 => wbio'[d] = 0 /\ Writing(d)' = 0
        BY <1>5, <2>3, <3>3
      <4>4. QED
        BY <1>2, <1>3, <2>1, <4>2, <4>3 DEF ConnInv, AnswerHeld, AsksPage
    <3>8. QED
      BY <3>1, <3>4, <3>5, <3>6, <3>7 DEF ConnInv
  <2>4. QED
    BY <2>2, <2>3
<1>9. Descriptors' <= MaxFds
  BY <1>2, <1>3 DEF XInv, TypeOK, Descriptors
<1>10. /\ files' \in Nat /\ stops' \in 0..MaxStops /\ errors' \in BOOLEAN
       /\ con' \in [Conns -> {"none", "live", "freed"}]
  BY <1>2, <1>3 DEF XInv, TypeOK
<1>11. QED
  BY <1>3, <1>5, <1>7, <1>8, <1>9, <1>10, HandlerSide

LEMMA OnRequestKeeps ==
  ASSUME XInv, IInv', NEW c \in Conns, OnRequest(c)
  PROVE  /\ XInv'
         /\ served[c] < asked[c] /\ served' = [served EXCEPT ![c] = @ + 1]
         /\ UNCHANGED <<asked, got>>
<1>1. Counters
  BY CountersTyped DEF XInv
<1>2. Records(c) \in Nat
  BY <1>1, HttpAssumption DEF Counters, Records, Received, Lesser
<1>3. PICK m \in 0..Records(c) :
        /\ m > 0
        /\ Consume(c, m)
        /\ Complete(c, buf[c] + m)
        /\ buf' = [buf EXCEPT ![c] = 0]
        /\ Dispatch(c)
        /\ Flush(c, Assembled(c))
  BY <1>2 DEF OnRequest
<1>4. /\ con[c] = "live" /\ writing = None
      /\ m \in Nat /\ m <= Buffer - buf[c]
      /\ sock'[c] \in Nat /\ raw'[c] \in Nat
      /\ sock'[c] + raw'[c] + m = sock[c] + raw[c]
      /\ sock' \in [Conns -> Nat] /\ raw' \in [Conns -> Nat]
      /\ \A d \in Conns : d # c => sock'[d] = sock[d] /\ raw'[d] = raw[d]
      /\ UNCHANGED <<peer, req, unsent, read, asked, got, out, con,
                     listening, stops>>
  BY <1>3, Consumed
<1>5. /\ wbio[c] \in Nat /\ buf[c] \in Nat /\ sock[c] \in Nat /\ raw[c] \in Nat
      /\ asked[c] \in Nat /\ served[c] \in Nat /\ got[c] \in Nat
      /\ unsent[c] \in Nat
  BY <1>1 DEF Counters
<1>6. req[c].size \in Nat \ {0} /\ req[c].answer \in Nat \ {0}
  BY Sizes
<1>7. /\ Answer(c) \in Nat /\ Answer(c) <= req[c].answer
      /\ Answer(c) = req[c].answer \/ (AsksPage(c) /\ Answer(c) = 1)
      /\ Assembled(c) = wbio[c] + Answer(c) /\ Assembled(c) \in Nat
  BY <1>5, <1>6 DEF Assembled, Answer, Bodiless
<1>8. /\ wbio' \in [Conns -> Nat]
      /\ wbio'[c] + Writing(c)' = Assembled(c) /\ Writing(c)' \in Nat
      /\ \A d \in Conns : d # c => wbio'[d] = wbio[d] /\ Writing(d)' = 0
      /\ writing' \in Conns \cup {None} /\ left' \in 0..MaxWrite
      /\ writing' = None <=> left' = 0
  BY <1>3, <1>4, <1>7, Flushed
<1>9. /\ served' = [served EXCEPT ![c] = @ + 1]
      /\ due' = [due EXCEPT ![c] = Answer(c)]
      /\ errors' = Bodiless(c)
  BY <1>3 DEF Dispatch
<1>10. /\ buf' \in [Conns -> Nat] /\ buf'[c] = 0
       /\ served' \in [Conns -> Nat] /\ served'[c] = served[c] + 1
       /\ due' \in [Conns -> Nat] /\ due'[c] = Answer(c)
  BY <1>1, <1>3, <1>7, <1>9 DEF Counters
<1>11. Counters'
  BY <1>1, <1>4, <1>8, <1>10 DEF Counters
<1>12. ConnInv(c)
  BY DEF XInv
<1>13. Held(c) = sock[c] + raw[c] + buf[c] /\ buf[c] + m = req[c].size
  BY <1>3 DEF Held, Complete
<1>14. served[c] < asked[c]
  <2>1. served[c] <= asked[c] /\ (asked[c] = served[c] => Held(c) < req[c].size)
    BY <1>4, <1>12 DEF ConnInv, Turns, BytesHeld
  <2>2. Held(c) >= req[c].size
    BY <1>4, <1>5, <1>6, <1>13
  <2>3. QED
    BY <1>5, <1>6, <1>13, <2>1, <2>2
<1>15. Held(c) = req[c].size
  BY <1>4, <1>5, <1>12, <1>14 DEF ConnInv, BytesHeld
<1>16. sock'[c] = 0 /\ raw'[c] = 0
  BY <1>4, <1>5, <1>6, <1>13, <1>15
<1>17. served[c] = got[c] /\ asked[c] = got[c] + 1 /\ unsent[c] = 0
  BY <1>5, <1>12, <1>14 DEF ConnInv, Turns
<1>18. ASSUME NEW d \in Conns
       PROVE  ConnInv(d)' /\ buf'[d] <= Buffer
  <2>1. ConnInv(d) /\ Writing(d) = 0 /\ buf[d] <= Buffer
    BY <1>4, NotWriting DEF XInv, TypeOK
  <2>2. CASE d # c
    <3>1. buf'[d] = buf[d] /\ served'[d] = served[d] /\ due'[d] = due[d]
      BY <1>1, <1>3, <1>9, <2>2 DEF Counters
    <3>2. QED
      BY <1>4, <1>8, <2>1, <2>2, <3>1, Elsewhere
  <2>3. CASE d = c
    <3>1. peer[d] # "none"
      BY <1>4, <2>1, <2>3 DEF ConnInv, Fresh
    <3>2. Fresh(d)'
      BY <1>4, <2>3, <3>1 DEF Fresh
    <3>3. Turns(d)'
      BY <1>4, <1>5, <1>10, <1>12, <1>17, <2>3 DEF ConnInv, Turns
    <3>4. Held(d)' = 0
      BY <1>10, <1>16, <2>3 DEF Held
    <3>5. BytesHeld(d)'
      BY <1>4, <1>5, <1>6, <1>10, <1>17, <2>3, <3>4 DEF BytesHeld
    <3>6. AnswerHeld(d)'
      <4>1. ASSUME peer[d] = "open"
            PROVE  out[d] = 0 /\ wbio[d] = 0 /\ read[d] = 0
        BY <1>5, <1>17, <2>1, <2>3, <4>1 DEF ConnInv, AnswerHeld
      <4>2. served'[d] > got'[d]
        BY <1>4, <1>5, <1>10, <1>17, <2>3
      <4>3. ASSUME peer[d] = "open"
            PROVE  read'[d] + out'[d] + wbio'[d] + Writing(d)' = due'[d]
        BY <1>4, <1>7, <1>8, <1>10, <2>3, <4>1, <4>3
      <4>4. /\ req'[d].answer \in Nat /\ due'[d] <= req'[d].answer
            /\ \/ due'[d] = req'[d].answer
               \/ AsksPage(d)' /\ due'[d] = 1
        BY <1>4, <1>6, <1>7, <1>10, <2>3 DEF AsksPage
      <4>5. QED
        BY <1>4, <1>5, <1>10, <1>17, <2>3, <4>2, <4>3, <4>4 DEF AnswerHeld
    <3>7. QED
      BY <1>10, <2>3, <3>2, <3>3, <3>5, <3>6, HttpAssumption DEF ConnInv
  <2>4. QED
    BY <2>2, <2>3
<1>19. files' \in Nat /\ Descriptors' <= MaxFds
  <2>1. files \in Nat /\ MaxFds \in Nat /\ Descriptors <= MaxFds
    <3>1. MaxFds \in Nat
      BY HttpAssumption
    <3>2. files \in 0..MaxFds /\ Descriptors <= MaxFds
      BY DEF XInv, TypeOK
    <3>3. QED
      BY <3>1, <3>2
  <2>2. Cardinality(Live) \in Nat /\ Descriptors = Cardinality(Live) + files
    BY LiveFinite DEF Descriptors, Live
  <2>3. Descriptors' = Cardinality(Live) + files'
    BY <1>4 DEF Descriptors, Live
  <2>4. files' = files \/ (files' = files + 1 /\ Descriptors < MaxFds)
    BY <1>3 DEF Dispatch
  <2>5. QED
    BY <2>1, <2>2, <2>3, <2>4
<1>20. /\ stops' \in 0..MaxStops /\ errors' \in BOOLEAN
       /\ con' \in [Conns -> {"none", "live", "freed"}]
  BY <1>4, <1>9 DEF XInv, TypeOK, Bodiless
<1>21. XInv'
  BY <1>4, <1>8, <1>11, <1>18, <1>19, <1>20, HandlerSide
<1>22. QED
  BY <1>4, <1>9, <1>14, <1>21

-----------------------------------------------------------------------------
\* The process ends.
LEMMA RestartKeeps ==
  ASSUME XInv, IInv', Restart
  PROVE  XInv'
<1>1. Counters
  BY CountersTyped DEF XInv
<1>2. /\ con' = [c \in Conns |-> IF peer[c] = "none" THEN "none" ELSE "freed"]
      /\ sock' = Zero /\ raw' = Zero /\ buf' = Zero /\ wbio' = Zero
      /\ writing' = None /\ left' = 0 /\ files' = 0 /\ errors' = FALSE
      /\ stops < MaxStops /\ stops' = stops + 1
  BY DEF Restart
<1>3. UNCHANGED <<peer, req, unsent, read, asked, got, due, out, served>>
  BY DEF Restart, client
<1>4. Counters'
  BY <1>1, <1>2, <1>3 DEF Counters, Zero
<1>5. con' \in [Conns -> {"none", "live", "freed"}]
  BY <1>2
<1>6. stops' \in 0..MaxStops
  <2>1. MaxStops \in Nat
    BY HttpAssumption
  <2>2. stops \in 0..MaxStops
    BY DEF XInv, TypeOK
  <2>3. QED
    BY <1>2, <2>1, <2>2
<1>7. Descriptors' <= MaxFds
  <2>1. Live' = {}
    BY <1>2 DEF Live
  <2>2. Descriptors' = 0
    BY <1>2, <2>1, FS_EmptySet DEF Descriptors, Live
  <2>3. QED
    BY <2>2, HttpAssumption
<1>8. ASSUME NEW d \in Conns
      PROVE  ConnInv(d)' /\ buf'[d] <= Buffer
  <2>1. ConnInv(d)
    BY DEF XInv
  <2>2. /\ sock'[d] = 0 /\ raw'[d] = 0 /\ buf'[d] = 0 /\ wbio'[d] = 0
        /\ con'[d] = IF peer[d] = "none" THEN "none" ELSE "freed"
    BY <1>2 DEF Zero
  <2>3. Writing(d)' = 0
    BY <1>2 DEF Writing
  <2>4. {read[d], out[d], wbio[d], got[d], served[d], Writing(d)} \subseteq Nat
    <3>1. left \in Nat
      BY HttpAssumption DEF XInv, TypeOK
    <3>2. QED
      BY <1>1, <3>1 DEF Counters, Writing
  <2>5. req[d].size \in Nat \ {0} /\ req[d].answer \in Nat \ {0}
    BY Sizes
  <2>6. Fresh(d)' /\ Turns(d)'
    BY <1>3, <2>1, <2>2 DEF ConnInv, Fresh, Turns
  <2>7. BytesHeld(d)'
    <3>1. CASE peer[d] = "none"
      BY <1>3, <2>1, <2>2, <2>5, <3>1 DEF ConnInv, Fresh, BytesHeld, Held
    <3>2. CASE peer[d] # "none"
      BY <2>2, <3>2 DEF BytesHeld
    <3>3. QED
      BY <3>1, <3>2
  <2>8. AnswerHeld(d)'
    <3>1. CASE served[d] = got[d]
      BY <1>3, <2>1, <2>2, <2>3, <2>4, <3>1 DEF ConnInv, AnswerHeld
    <3>2. CASE served[d] > got[d] /\ peer[d] = "open"
      <4>1. read[d] + out[d] + wbio[d] + Writing(d) <= req[d].answer
        BY <2>1, <3>2 DEF ConnInv, AnswerHeld
      <4>2. read'[d] + out'[d] + wbio'[d] + Writing(d)' <= req'[d].answer
        BY <1>3, <2>2, <2>3, <2>4, <2>5, <4>1
      <4>3. con'[d] = "freed"
        BY <2>2, <3>2
      <4>4. QED
        BY <1>3, <2>1, <2>4, <3>2, <4>2, <4>3 DEF ConnInv, AnswerHeld, AsksPage
    <3>3. QED
      BY <1>3, <2>1, <2>4, <3>1, <3>2 DEF ConnInv, Turns, AnswerHeld
  <2>9. QED
    BY <2>2, <2>6, <2>7, <2>8, HttpAssumption DEF ConnInv
<1>9. /\ listening' \in BOOLEAN /\ errors' \in BOOLEAN
      /\ ready' \subseteq Conns \X {"err", "in"}
  BY DEF Restart
<1>10. TypeOK'
  <2>1. \A c \in Conns : buf'[c] <= Buffer /\ out'[c] <= SendSpace
    BY <1>3, <1>8 DEF XInv, TypeOK
  <2>2. /\ writing' \in Conns \cup {None} /\ left' \in 0..MaxWrite
        /\ files' \in 0..MaxFds
    BY <1>2, HttpAssumption
  <2>3. QED
    BY <1>3, <1>4, <1>5, <1>6, <1>7, <1>9, <2>1, <2>2, TypedCounters
       DEF XInv, TypeOK
<1>11. QED
  BY <1>2, <1>8, <1>10 DEF XInv

-----------------------------------------------------------------------------
\* write() goes on.
LEMMA WriteUnitKeeps ==
  ASSUME XInv, IInv', WriteUnit
  PROVE  XInv'
<1>1. Counters
  BY CountersTyped DEF XInv
<1>2. PICK c \in Conns :
      /\ c = writing /\ c # None /\ peer[c] = "open" /\ out[c] < SendSpace
      /\ out' = [out EXCEPT ![c] = @ + 1]
      /\ left' = left - 1
      /\ writing' = IF left = 1 THEN None ELSE c
  BY DEF WriteUnit, XInv, TypeOK
<1>3. UNCHANGED <<peer, req, unsent, read, asked, got, sock, raw, buf, due, wbio, con,
                  ready, listening, errors, files, stops, served>>
  BY DEF WriteUnit, client
<1>4. left \in Nat \ {0} /\ MaxWrite \in Nat /\ left <= MaxWrite
  BY <1>2, HttpAssumption DEF XInv, TypeOK
<1>5. con[c] = "live"
  BY <1>2 DEF XInv, IInv, NothingFreedInUse
<1>6. Writing(c) = left
  BY <1>2 DEF Writing
<1>7. Writing(c)' = left - 1
  BY <1>2, <1>4 DEF Writing
<1>8. ASSUME NEW d \in Conns, d # c
      PROVE  Writing(d) = 0 /\ Writing(d)' = 0
  BY <1>2, <1>8, HttpAssumption DEF Writing
<1>9. out' \in [Conns -> Nat] /\ out'[c] = out[c] + 1
  BY <1>1, <1>2 DEF Counters
<1>10. Counters'
  BY <1>1, <1>3, <1>9 DEF Counters
<1>11. ASSUME NEW d \in Conns
       PROVE  ConnInv(d)' /\ buf'[d] <= Buffer /\ out'[d] <= SendSpace
  <2>1. ConnInv(d) /\ buf[d] <= Buffer /\ out[d] <= SendSpace
    BY DEF XInv, TypeOK
  <2>2. CASE d # c
    <3>1. out'[d] = out[d]
      BY <1>1, <1>2, <2>2 DEF Counters
    <3>2. QED
      BY <1>3, <1>8, <2>1, <2>2, <3>1, Elsewhere
  <2>3. CASE d = c
    <3>1. out'[d] <= SendSpace
      BY <1>1, <1>2, <1>9, <2>3, HttpAssumption DEF Counters
    <3>2. Fresh(d)' /\ Turns(d)' /\ BytesHeld(d)'
      BY <1>3, <1>5, <2>1, <2>3 DEF ConnInv, Fresh, Turns, BytesHeld, Held
    <3>3. served[d] # got[d]
      BY <1>2, <1>4, <1>6, <2>1, <2>3 DEF ConnInv, AnswerHeld
    <3>4. {read[d], out[d], wbio[d]} \subseteq Nat
      BY <1>1 DEF Counters
    <3>5. read[d] + (out[d] + 1) + wbio[d] + (left - 1) = read[d] + out[d] + wbio[d] + left
      BY <1>4, <3>4
    <3>6. read'[d] + out'[d] + wbio'[d] + Writing(d)'
            = read[d] + out[d] + wbio[d] + Writing(d)
      BY <1>3, <1>6, <1>7, <1>9, <2>3, <3>5
    <3>7. AnswerHeld(d)'
      BY <1>3, <2>1, <3>3, <3>6 DEF ConnInv, AnswerHeld, AsksPage
    <3>8. QED
      BY <1>3, <2>1, <3>1, <3>2, <3>7 DEF ConnInv
  <2>4. QED
    BY <2>2, <2>3
<1>12. /\ writing' \in Conns \cup {None} /\ left' \in 0..MaxWrite
       /\ writing' = None <=> left' = 0
  BY <1>2, <1>4
<1>13. UNCHANGED Descriptors
  BY <1>3 DEF Descriptors
<1>14. TypeOK'
  BY <1>3, <1>10, <1>11, <1>12, <1>13, TypedCounters DEF XInv, TypeOK
<1>15. QED
  BY <1>11, <1>12, <1>14 DEF XInv

\* write() finds that the client is gone.
LEMMA WriteFailsKeeps ==
  ASSUME XInv, IInv', WriteFails
  PROVE  XInv'
<1>1. Counters
  BY CountersTyped DEF XInv
<1>2. /\ writing \in Conns /\ peer[writing] # "open"
      /\ writing' = None /\ left' = 0
  BY DEF WriteFails, XInv, TypeOK
<1>3. UNCHANGED <<peer, req, unsent, read, asked, got, sock, raw, buf, due, wbio, out,
                  con, ready, listening, errors, files, stops, served>>
  BY DEF WriteFails, client
<1>4. ASSUME NEW d \in Conns
      PROVE  ConnInv(d)'
  <2>1. ConnInv(d)
    BY DEF XInv
  <2>2. CASE d # writing
    <3>1. Writing(d)' = Writing(d)
      BY <1>2, <2>2, HttpAssumption DEF Writing
    <3>2. QED
      BY <1>3, <2>1, <3>1, Elsewhere
  <2>3. CASE d = writing
    <3>1. Fresh(d)' /\ Turns(d)' /\ BytesHeld(d)'
      BY <1>3, <2>1 DEF ConnInv, Fresh, Turns, BytesHeld, Held
    <3>2. AnswerHeld(d)'
      BY <1>2, <1>3, <2>3 DEF AnswerHeld
    <3>3. QED
      BY <3>1, <3>2 DEF ConnInv
  <2>4. QED
    BY <2>2, <2>3
<1>5. writing' \in Conns \cup {None} /\ left' \in 0..MaxWrite
  BY <1>2, HttpAssumption
<1>6. UNCHANGED Descriptors
  BY <1>3 DEF Descriptors
<1>7. TypeOK'
  BY <1>3, <1>5, <1>6 DEF XInv, TypeOK
<1>8. QED
  BY <1>2, <1>4, <1>7 DEF XInv

-----------------------------------------------------------------------------
\* The steps of the clients, each of which leaves `served` alone.
ClientStep(c) ==
  \/ Connect(c)
  \/ \E r \in Requests : Start(c, r)
  \/ \E n \in 1..unsent[c] : Send(c, n)
  \/ Read(c)
  \/ Hangup(c)

\* Every step keeps the invariant.
LEMMA XStep ==
  ASSUME XInv, [Next]_vars
  PROVE  XInv'
<1>1. IInv'
  BY IInvStep
<1>2. ASSUME NEW c \in Conns, ClientStep(c)
      PROVE  XInv'
  BY <1>1, <1>2, ConnectStep, StartStep, SendStep, ReadStep, HangupStep
     DEF ClientStep
<1>3. ASSUME NEW c \in Conns, Handle(c)
      PROVE  XInv'
  <2>1. CASE OnError(c)
    BY <1>1, <2>1, FreeKeeps DEF OnError, XInv, TypeOK
  <2>2. CASE OnEnd(c)
    BY <1>1, <2>2, FreeKeeps DEF OnEnd, XInv, TypeOK
  <2>3. CASE OnTlsError(c)
    BY <1>1, <2>3, FreeKeeps DEF OnTlsError, Decrypted
  <2>4. CASE OnPart(c)
    BY <1>1, <2>4, OnPartKeeps
  <2>5. CASE OnRequest(c)
    BY <1>1, <2>5, OnRequestKeeps
  <2>6. CASE OnUnchecked(c)
    BY <1>1, <2>6, RestartKeeps DEF OnUnchecked
  <2>7. QED
    BY <1>3, <2>1, <2>2, <2>3, <2>4, <2>5, <2>6 DEF Handle
<1>4. CASE Wait
  BY <1>1, <1>4, WaitKeeps
<1>5. CASE Accept
  BY <1>1, <1>5, AcceptKeeps
<1>6. CASE WriteUnit
  BY <1>1, <1>6, WriteUnitKeeps
<1>7. CASE WriteFails
  BY <1>1, <1>7, WriteFailsKeeps
<1>8. CASE Stop \/ WriteKills
  BY <1>1, <1>8, RestartKeeps DEF Stop, WriteKills
<1>9. CASE UNCHANGED vars
  <2>1. UNCHANGED <<client, sock, raw, buf, due, wbio, out, con, thread, files, stops, served>>
    BY <1>9 DEF vars
  <2>2. \A d \in Conns : ConnInv(d)'
    BY <2>1, Elsewhere DEF XInv, client, thread, Writing
  <2>3. UNCHANGED Descriptors
    BY <2>1 DEF Descriptors
  <2>4. TypeOK'
    BY <2>1, <2>3 DEF XInv, TypeOK, client, thread
  <2>5. QED
    BY <1>1, <2>1, <2>2, <2>4 DEF XInv, thread
<1>10. QED
  BY <1>2, <1>3, <1>4, <1>5, <1>6, <1>7, <1>8, <1>9 DEF Next, Server, ClientStep

-----------------------------------------------------------------------------
\* The types of HttpServer, among them that no buffer takes more than it has
\* room for and that descriptors are not used beyond their limit.
THEOREM TypeCorrect == Spec => []TypeOK
<1>1. XInv => TypeOK
  BY DEF XInv
<1>2. QED
  BY <1>1, XInit, XStep, PTL DEF Spec

\* However requests are cut into pieces, read and decrypted, on any number of
\* connections, each buffer holds bytes of its own request only, and of all of
\* them none is lost.
THEOREM RequestBytesKept == Spec => []NoByteAstray
<1>1. ASSUME XInv PROVE NoByteAstray
  <2> SUFFICES ASSUME NEW c \in Conns, peer[c] = "open", con[c] # "freed"
               PROVE  unsent[c] + sock[c] + raw[c] + buf[c]
                        = IF Asking(c) THEN req[c].size ELSE 0
    BY DEF NoByteAstray
  <2>1. /\ {unsent[c], sock[c], raw[c], buf[c], asked[c], served[c], got[c]} \subseteq Nat
        /\ ConnInv(c)
    BY <1>1, CountersTyped DEF XInv, Counters
  <2>2. unsent[c] + sock[c] + raw[c] + buf[c] = Held(c) + unsent[c]
    BY <2>1 DEF Held
  <2>3. CASE asked[c] > served[c]
    <3>1. unsent[c] = 0 /\ Held(c) = req[c].size
      BY <2>1, <2>3 DEF ConnInv, Turns, BytesHeld
    <3>2. QED
      BY <2>1, <2>3, <3>1 DEF Asking, Held
  <2>4. CASE asked[c] = served[c]
    <3>1. Held(c) + unsent[c] = IF unsent[c] > 0 THEN req[c].size ELSE 0
      BY <2>1, <2>4 DEF ConnInv, BytesHeld
    <3>2. QED
      BY <2>1, <2>2, <2>4, <3>1 DEF Asking
  <2>5. served[c] <= asked[c] /\ asked[c] \in Nat /\ served[c] \in Nat
    BY <2>1 DEF ConnInv, Turns
  <2>6. asked[c] > served[c] \/ asked[c] = served[c]
    BY <2>5
  <2>7. QED
    BY <2>3, <2>4, <2>6
<1>2. QED
  BY <1>1, XInit, XStep, PTL DEF Spec

\* An answer is never mixed with another's and no part of it is lost on a
\* connection that lives, whatever one write() has room for; it is the whole
\* answer, or the header of a page that the handler could not open.
THEOREM AnswerBytesKept == Spec => []NoAnswerAstray
<1>1. ASSUME XInv PROVE NoAnswerAstray
  BY <1>1 DEF XInv, ConnInv, AnswerHeld, NoAnswerAstray, Writing
<1>2. QED
  BY <1>1, XInit, XStep, PTL DEF Spec

-----------------------------------------------------------------------------
\* The refinement: each step of the server is one of Exchange or changes
\* nothing that Exchange is about.
LEMMA ExchangeStep ==
  ASSUME XInv, [Next]_vars
  PROVE  [Exchanges!Next]_<<asked, served, got>>
<1>1. Counters
  BY CountersTyped DEF XInv
<1>2. ASSUME NEW c \in Conns, NEW n \in 1..unsent[c], Send(c, n)
      PROVE  Exchanges!Ask(c) \/ UNCHANGED <<asked, served, got>>
  <2>1. unsent[c] > 0
    BY <1>1 DEF Counters
  <2>2. asked[c] = got[c] /\ asked[c] < MaxRequests
    BY <2>1 DEF XInv, ConnInv, Turns
  <2>3. QED
    BY <1>2, <2>2 DEF Send, Exchanges!Ask
<1>3. ASSUME NEW c \in Conns, Read(c)
      PROVE  Exchanges!Get(c) \/ UNCHANGED <<asked, served, got>>
  <2>1. got[c] < served[c]
    <3>1. peer[c] = "open" /\ out[c] > 0 /\ ConnInv(c)
      BY <1>3 DEF Read, XInv
    <3>2. out[c] \in Nat /\ got[c] \in Nat /\ served[c] \in Nat
      BY <1>1 DEF Counters
    <3>3. QED
      BY <3>1, <3>2 DEF ConnInv, Turns, AnswerHeld
  <2>2. QED
    BY <1>3, <2>1 DEF Read, Exchanges!Get
<1>4. ASSUME NEW c \in Conns, Handle(c)
      PROVE  Exchanges!Serve(c) \/ UNCHANGED <<asked, served, got>>
  <2>1. CASE OnRequest(c)
    <3>1. IInv'
      BY IInvStep
    <3>2. QED
      BY <2>1, <3>1, OnRequestKeeps DEF Exchanges!Serve
  <2>2. CASE OnPart(c)
    BY <2>2 DEF OnPart, Consume, client
  <2>3. CASE OnError(c) \/ OnEnd(c) \/ OnTlsError(c)
    BY <2>3 DEF OnError, OnEnd, OnTlsError, Free, client
  <2>4. CASE OnUnchecked(c)
    BY <2>4 DEF OnUnchecked, Restart, client
  <2>5. QED
    BY <1>4, <2>1, <2>2, <2>3, <2>4 DEF Handle
<1>5. ASSUME NEW c \in Conns,
             Connect(c) \/ Hangup(c) \/ \E r \in Requests : Start(c, r)
      PROVE  UNCHANGED <<asked, served, got>>
  BY <1>5 DEF Connect, Hangup, Start, exchange
<1>6. CASE Wait \/ Accept \/ WriteUnit \/ WriteFails
  BY <1>6 DEF Wait, Accept, WriteUnit, WriteFails, client
<1>7. CASE Stop \/ WriteKills
  BY <1>7 DEF Stop, WriteKills, Restart, client
<1>8. CASE UNCHANGED vars
  BY <1>8 DEF vars, client
<1>9. QED
  BY <1>2, <1>3, <1>4, <1>5, <1>6, <1>7, <1>8 DEF Next, Server, Exchanges!Next

\* The event loop implements the exchange of whole requests and whole answers:
\* nothing is carried out twice, early, or in part.
THEOREM Implements == Spec => IsExchange
<1>1. Init => Exchanges!Init
  BY DEF Init, Zero, Exchanges!Init
<1>2. XInv /\ [Next]_vars => [Exchanges!Next]_<<asked, served, got>>
  BY ExchangeStep
<1>3. QED
  BY <1>1, <1>2, XInit, XStep, PTL DEF Spec, IsExchange, Exchanges!Spec, Exchanges!vars
=============================================================================
