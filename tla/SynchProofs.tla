---------------------------- MODULE SynchProofs ----------------------------
(***************************************************************************)
(* Proofs about Synch, for every set of pages and connections and every    *)
(* value of the bounds: the types, and that nothing is lost or reordered.  *)
(***************************************************************************)
EXTENDS Synch, SequenceTheorems, TLAPS

(***************************************************************************)
(* The inductive invariant.  NoLoss alone is not inductive: a 200 forgets  *)
(* a transfer, so the invariant must say that an answered 200 stands for   *)
(* changes that are in the file; and a retry is in order only if whatever  *)
(* an old transfer in some socket starts with has its predecessors saved.  *)
(***************************************************************************)
Settled(c, n) == Saved(c, n) \/ <<c, n>> \in cut

\* How many changes page c no longer has in memory.
Gone(c) == typed[c] - Len(intransfer[c]) - Len(queue[c])

\* A page has a connection exactly while it has a transfer; a closed page
\* has nothing.
Waiting ==
  \A c \in Clients :
    /\ cur[c] = None <=> intransfer[c] = << >>
    /\ ~open[c] => intransfer[c] = << >> /\ queue[c] = << >>

\* That connection carries that transfer, or the answer to it.
Carried ==
  \A c \in Clients : cur[c] # None =>
    /\ conn[cur[c]].owner = c
    /\ conn[cur[c]].st # "free"
    /\ conn[cur[c]].st = "sent" => conn[cur[c]].batch = intransfer[c]
    /\ conn[cur[c]].status = "200" =>
         \A i \in 1..Len(intransfer[c]) : Settled(c, intransfer[c][i])

\* The memory of an open page is the tail of what was typed, in order, and
\* what is no longer there has been settled.
TailOf(c) ==
  /\ Gone(c) \in Nat
  /\ \A i \in 1..Len(intransfer[c]) : intransfer[c][i] = Gone(c) + i
  /\ \A i \in 1..Len(queue[c]) : queue[c][i] = Gone(c) + Len(intransfer[c]) + i
  /\ \A n \in 1..Gone(c) : Settled(c, n)

MemoryIsTail == \A c \in Clients : open[c] => TailOf(c)

\* A transfer in a socket, abandoned or not, is a run of changes whose
\* predecessors are settled.
SentIsRun ==
  \A k \in Conns : conn[k].st = "sent" =>
    /\ conn[k].owner \in Clients
    /\ conn[k].batch # << >>
    /\ conn[k].status = "none"
    /\ \A i \in 1..Len(conn[k].batch) :
         conn[k].batch[i] = conn[k].batch[1] + i - 1
    /\ conn[k].batch[Len(conn[k].batch)] <= typed[conn[k].owner]
    /\ \A n \in 1..(conn[k].batch[1] - 1) : Settled(conn[k].owner, n)

NothingCut == ~ShortWrites => cut = {}

IInv ==
  /\ TypeOK
  /\ Waiting
  /\ Carried
  /\ MemoryIsTail
  /\ SentIsRun
  /\ OrderKept
  /\ NothingCut

-----------------------------------------------------------------------------
(***************************************************************************)
(* Types of the pieces, named for the steps below.                         *)
(***************************************************************************)
LEMMA ConnType ==
  ASSUME TypeOK, NEW k \in Conns
  PROVE  /\ conn[k] \in Transfer
         /\ conn[k].batch \in Seq(1..MaxChanges)
         /\ Len(conn[k].batch) \in Nat
         /\ \A i \in 1..Len(conn[k].batch) : conn[k].batch[i] \in 1..MaxChanges
<1>1. conn[k] \in Transfer
  BY DEF TypeOK
<1>2. conn[k].batch \in Seq(1..MaxChanges)
  BY <1>1 DEF Transfer
<1>3. Len(conn[k].batch) \in Nat
  BY <1>2, LenProperties
<1>4. \A i \in 1..Len(conn[k].batch) : conn[k].batch[i] \in 1..MaxChanges
  BY <1>2, ElementOfSeq
<1>5. QED
  BY <1>1, <1>2, <1>3, <1>4

\* What a page has in memory are sequences of change numbers.
LEMMA PageType ==
  ASSUME TypeOK, NEW c \in Clients
  PROVE  /\ queue[c] \in Seq(1..MaxChanges) /\ Len(queue[c]) \in Nat
         /\ intransfer[c] \in Seq(1..MaxChanges) /\ Len(intransfer[c]) \in Nat
         /\ typed[c] \in Nat
<1>1. queue[c] \in Seq(1..MaxChanges) /\ intransfer[c] \in Seq(1..MaxChanges)
  BY DEF TypeOK
<1>2. typed[c] \in 0..MaxChanges
  BY DEF TypeOK
<1>3. QED
  BY <1>1, <1>2, LenProperties

\* An answer, or its absence, leaves a well-typed connection.
LEMMA ReplyType ==
  ASSUME TypeOK, NEW k \in Conns, NEW s \in Statuses, Reply(k, s)
  PROVE  conn' \in [Conns -> Transfer]
<1>1. Idle \in Transfer
  BY EmptySeq DEF Idle, Transfer, ConnStates, Statuses
<1>2. [st |-> "answered", owner |-> conn[k].owner, batch |-> << >>, status |-> s]
        \in Transfer
  BY EmptySeq, ConnType DEF Transfer, ConnStates
<1>3. QED
  BY <1>1, <1>2 DEF TypeOK, Reply

(***************************************************************************)
(* What a write does: the file grows by the first m changes of the         *)
(* transfer, and every change of the transfer is settled.                  *)
(***************************************************************************)
LEMMA WriteEffect ==
  ASSUME TypeOK, NEW k \in Conns, NEW m \in Nat, m <= Len(conn[k].batch),
         conn[k].owner \in Clients, Write(k, m)
  PROVE  /\ log' \in Seq(Clients \X (1..MaxChanges))
         /\ Len(log') = Len(log) + m
         /\ \A i \in 1..Len(log) : log'[i] = log[i]
         /\ \A i \in 1..m : log'[Len(log) + i] = <<conn[k].owner, conn[k].batch[i]>>
<1> DEFINE c == conn[k].owner
           batch == conn[k].batch
           sub == SubSeq(batch, 1, m)
           E == Entries(c, sub)
<1>1. \A i \in 1..m : batch[i] \in 1..MaxChanges
  BY ConnType
<1>2. /\ sub \in Seq(1..MaxChanges)
      /\ Len(sub) = m
      /\ \A i \in 1..m : sub[i] = batch[i]
  BY <1>1, SubSeqProperties
<1>3. /\ E \in Seq(Clients \X (1..MaxChanges))
      /\ Len(E) = m
      /\ \A i \in 1..m : E[i] = <<c, batch[i]>>
  BY <1>1, <1>2 DEF Entries
<1>4. log \in Seq(Clients \X (1..MaxChanges)) /\ Len(log) \in Nat
  BY LenProperties DEF TypeOK
<1>5. log' = log \o E
  BY DEF Write
<1> HIDE DEF E
<1>6. /\ log \o E \in Seq(Clients \X (1..MaxChanges))
      /\ Len(log \o E) = Len(log) + m
      /\ \A i \in 1..(Len(log) + m) :
           (log \o E)[i] = IF i <= Len(log) THEN log[i] ELSE E[i - Len(log)]
  <2>1. E \in Seq(Clients \X (1..MaxChanges))
    BY <1>3
  <2>2. log \in Seq(Clients \X (1..MaxChanges))
    BY <1>4
  <2>3. /\ log \o E \in Seq(Clients \X (1..MaxChanges))
        /\ Len(log \o E) = Len(log) + Len(E)
        /\ \A i \in 1..(Len(log) + Len(E)) :
             (log \o E)[i] = IF i <= Len(log) THEN log[i] ELSE E[i - Len(log)]
    BY <2>1, <2>2, ConcatProperties, Zenon
  <2>4. QED
    BY <1>3, <2>3, Zenon
<1>7. \A i \in 1..Len(log) : (log \o E)[i] = log[i]
  BY <1>4, <1>6
<1>8. ASSUME NEW i \in 1..m
      PROVE  (log \o E)[Len(log) + i] = <<c, batch[i]>>
  <2>1. /\ Len(log) + i \in 1..(Len(log) + m)
        /\ ~(Len(log) + i <= Len(log))
        /\ Len(log) + i - Len(log) = i
    BY <1>4
  <2>2. QED
    BY <1>3, <1>6, <2>1, SMTT(30)
<1>9. QED
  BY <1>5, <1>6, <1>7, <1>8

\* A change of the transfer is in the file after the write or among the cut
\* ones, and what was settled before stays settled.
LEMMA WriteSettles ==
  ASSUME TypeOK, NEW k \in Conns, NEW m \in Nat, m <= Len(conn[k].batch),
         NEW o \in Clients, o = conn[k].owner, NEW b, b = conn[k].batch,
         Write(k, m)
  PROVE  /\ \A c, n : Settled(c, n) => Settled(c, n)'
         /\ \A i \in 1..Len(b) : Settled(o, b[i])'
<1>1. /\ Len(log') = Len(log) + m
      /\ \A i \in 1..Len(log) : log'[i] = log[i]
      /\ \A i \in 1..m : log'[Len(log) + i] = <<o, b[i]>>
  BY WriteEffect
<1>2. Len(log) \in Nat /\ Len(b) \in Nat
  BY ConnType, LenProperties DEF TypeOK
<1>3. \A i \in 1..Len(log) : i \in 1..Len(log')
  BY <1>1, <1>2
<1>4. cut' = cut \cup {<<o, b[i]>> : i \in (m + 1)..Len(b)}
  BY DEF Write
<1>5. \A c, n : Settled(c, n) => Settled(c, n)'
  BY <1>1, <1>3, <1>4 DEF Settled, Saved
<1>6. ASSUME NEW i \in 1..Len(b)
      PROVE  Settled(o, b[i])'
  <2>1. CASE i <= m
    <3>1. i \in 1..m /\ Len(log) + i \in 1..Len(log')
      BY <1>1, <1>2, <2>1
    <3>2. log'[Len(log) + i] = <<o, b[i]>>
      BY <1>1, <3>1
    <3>3. QED
      BY <3>1, <3>2 DEF Settled, Saved
  <2>2. CASE i > m
    BY <1>2, <1>4, <2>2 DEF Settled
  <2>3. QED
    BY <1>2, <2>1, <2>2
<1>7. QED
  BY <1>5, <1>6

\* Where neither the file nor the set of cut changes moves, nothing is unsettled.
LEMMA SettledSame ==
  ASSUME UNCHANGED <<log, cut>>
  PROVE  \A c, n : Settled(c, n)' <=> Settled(c, n)
BY DEF Settled, Saved

\* A transfer stays a run of changes when the page types on, or more of its
\* changes are settled.
LEMMA RunStays ==
  ASSUME TypeOK, TypeOK', NEW k \in Conns, NEW o \in Clients,
         o = conn[k].owner, conn[k].st = "sent", SentIsRun,
         conn'[k] = conn[k],
         typed[o] <= typed'[o],
         \A c, n : Settled(c, n) => Settled(c, n)'
  PROVE  /\ conn'[k].owner \in Clients
         /\ conn'[k].batch # << >>
         /\ conn'[k].status = "none"
         /\ \A i \in 1..Len(conn'[k].batch) :
              conn'[k].batch[i] = conn'[k].batch[1] + i - 1
         /\ conn'[k].batch[Len(conn'[k].batch)] <= typed'[o]
         /\ \A n \in 1..(conn'[k].batch[1] - 1) : Settled(o, n)'
<1>1. conn[k].batch \in Seq(1..MaxChanges) /\ conn[k].batch # << >>
  BY ConnType DEF SentIsRun
<1>2. Len(conn[k].batch) \in 1..Len(conn[k].batch)
  BY <1>1, EmptySeq
<1>3. conn[k].batch[Len(conn[k].batch)] \in Nat
  BY <1>1, <1>2, ConnType
<1>4. typed[o] \in Nat /\ typed'[o] \in Nat
  BY DEF TypeOK
<1>5. conn[k].batch[Len(conn[k].batch)] <= typed'[o]
  BY <1>3, <1>4 DEF SentIsRun
<1>6. QED
  BY <1>5 DEF SentIsRun

\* The same for every transfer on its way.
LEMMA SentIsRunStays ==
  ASSUME TypeOK, TypeOK', SentIsRun,
         \A k \in Conns : conn'[k].st = "sent" => conn'[k] = conn[k],
         \A c \in Clients : typed[c] <= typed'[c],
         \A c, n : Settled(c, n) => Settled(c, n)'
  PROVE  SentIsRun'
BY RunStays DEF SentIsRun

\* A page whose memory does not change still holds the tail of what it typed.
LEMMA TailStays ==
  ASSUME NEW d \in Clients, TailOf(d),
         typed'[d] = typed[d], intransfer'[d] = intransfer[d],
         queue'[d] = queue[d],
         \A c, n : Settled(c, n) => Settled(c, n)'
  PROVE  TailOf(d)'
<1>1. Gone(d)' = Gone(d)
  BY DEF Gone
<1>2. QED
  BY <1>1 DEF TailOf

-----------------------------------------------------------------------------
(***************************************************************************)
(* The steps of a page.                                                    *)
(***************************************************************************)
\* oninput keeps the invariant.
LEMMA TypeStep ==
  ASSUME IInv, NEW c \in Clients, Type(c)
  PROVE  IInv'
<1> USE DEF IInv, page, server
<1>1. /\ UNCHANGED <<open, intransfer, cur, alerted, conn, log, cut, branch, files, faults>>
      /\ typed' = [typed EXCEPT ![c] = @ + 1]
      /\ queue' = [queue EXCEPT ![c] = Append(@, typed[c] + 1)]
      /\ open[c] /\ typed[c] < MaxChanges
  BY DEF Type
<1>2. \A d, n : Settled(d, n)' <=> Settled(d, n)
  BY <1>1, SettledSame
<1>3. typed[c] \in Nat /\ typed[c] + 1 \in 1..MaxChanges
  BY <1>1, SynchAssumption DEF TypeOK
<1>4. /\ Append(queue[c], typed[c] + 1) \in Seq(1..MaxChanges)
      /\ Append(queue[c], typed[c] + 1) # << >>
      /\ Len(Append(queue[c], typed[c] + 1)) = Len(queue[c]) + 1
      /\ \A i \in 1..Len(queue[c]) : Append(queue[c], typed[c] + 1)[i] = queue[c][i]
      /\ Append(queue[c], typed[c] + 1)[Len(queue[c]) + 1] = typed[c] + 1
  BY <1>3, PageType, AppendProperties, SMTT(30)
<1>5. /\ typed' \in [Clients -> 0..MaxChanges]
      /\ queue' \in [Clients -> Seq(1..MaxChanges)]
      /\ typed'[c] = typed[c] + 1
      /\ queue'[c] = Append(queue[c], typed[c] + 1)
      /\ \A d \in Clients \ {c} : typed'[d] = typed[d] /\ queue'[d] = queue[d]
  BY <1>1, <1>3, <1>4 DEF TypeOK
<1>6. TypeOK'
  BY <1>1, <1>5 DEF TypeOK
<1>7. Waiting'
  BY <1>1, <1>5 DEF Waiting
<1>8. Carried'
  BY <1>1, <1>2 DEF Carried
<1>9. MemoryIsTail'
  <2>1. ASSUME NEW d \in Clients \ {c}, open[d]
        PROVE  TailOf(d)'
    BY <1>1, <1>2, <1>5, <2>1, TailStays DEF MemoryIsTail
  <2>2. Gone(c)' = Gone(c)
    BY <1>1, <1>3, <1>4, <1>5, PageType DEF Gone
  <2>3. \A i \in 1..Len(queue'[c]) :
          queue'[c][i] = Gone(c) + Len(intransfer[c]) + i
    <3>1. \A i \in 1..Len(queue'[c]) :
            i \in 1..Len(queue[c]) \/ i = Len(queue[c]) + 1
      BY <1>4, <1>5, PageType
    <3>2. Gone(c) + Len(intransfer[c]) + (Len(queue[c]) + 1) = typed[c] + 1
      BY PageType DEF Gone
    <3>3. QED
      BY <1>1, <1>4, <1>5, <3>1, <3>2 DEF MemoryIsTail, TailOf
  <2>4. TailOf(c)'
    BY <1>1, <1>2, <2>2, <2>3 DEF MemoryIsTail, TailOf
  <2>5. QED
    BY <1>1, <2>1, <2>4 DEF MemoryIsTail
<1>10. SentIsRun'
  <2>1. ASSUME NEW d \in Clients
        PROVE  typed[d] <= typed'[d]
    <3>1. typed[d] \in Nat
      BY PageType
    <3>2. typed'[d] = typed[d] \/ typed'[d] = typed[d] + 1
      BY <1>5
    <3>3. QED
      BY <3>1, <3>2
  <2>2. QED
    BY <1>1, <1>2, <1>6, <2>1, SentIsRunStays
<1>11. OrderKept' /\ NothingCut'
  BY <1>1 DEF OrderKept, NothingCut
<1>12. QED
  BY <1>6, <1>7, <1>8, <1>9, <1>10, <1>11

\* The timer of synch() keeps the invariant.
LEMMA TickStep ==
  ASSUME IInv, NEW c \in Clients, Tick(c)
  PROVE  IInv'
<1> USE DEF IInv
<1>1. PICK k \in Conns :
        /\ conn[k].st = "free"
        /\ conn' = [conn EXCEPT ![k] =
             [st |-> "sent", owner |-> c, batch |-> queue[c], status |-> "none"]]
        /\ cur' = [cur EXCEPT ![c] = k]
  BY DEF Tick
<1>2. /\ UNCHANGED <<open, typed, alerted, log, cut, branch, files, faults>>
      /\ open[c] /\ intransfer[c] = << >> /\ queue[c] # << >>
      /\ intransfer' = [intransfer EXCEPT ![c] = queue[c]]
      /\ queue' = [queue EXCEPT ![c] = << >>]
  BY DEF Tick
<1>3. \A d, n : Settled(d, n)' <=> Settled(d, n)
  BY <1>2, SettledSame
<1>4. << >> \in Seq(1..MaxChanges) /\ Len(<< >>) = 0
  BY EmptySeq
<1>5. [st |-> "sent", owner |-> c, batch |-> queue[c], status |-> "none"] \in Transfer
  BY PageType DEF Transfer, ConnStates, Statuses
<1>6. TypeOK'
  BY <1>1, <1>2, <1>4, <1>5 DEF TypeOK
<1>7. /\ intransfer'[c] = queue[c] /\ queue'[c] = << >> /\ cur'[c] = k
      /\ conn'[k].st = "sent" /\ conn'[k].owner = c
      /\ conn'[k].batch = queue[c] /\ conn'[k].status = "none"
      /\ \A d \in Clients \ {c} :
           /\ intransfer'[d] = intransfer[d] /\ queue'[d] = queue[d]
           /\ cur'[d] = cur[d]
      /\ \A l \in Conns \ {k} : conn'[l] = conn[l]
  BY <1>1, <1>2 DEF TypeOK
<1>8. \A d \in Clients : cur[d] # k
  BY <1>1, SynchAssumption DEF Carried
<1>9. cur[c] = None
  BY <1>2 DEF Waiting
<1>10. Waiting'
  BY <1>2, <1>7, SynchAssumption DEF Waiting
<1>11. Carried'
  <2>1. ASSUME NEW d \in Clients \ {c}, cur'[d] # None
        PROVE  conn'[cur'[d]] = conn[cur[d]] /\ cur[d] \in Conns
    BY <1>7, <1>8, <2>1 DEF TypeOK
  <2>2. QED
    BY <1>3, <1>7, <2>1 DEF Carried
<1>12. Gone(c)' = Gone(c) /\ typed[c] = Gone(c) + Len(queue[c])
  BY <1>2, <1>4, <1>7, PageType DEF Gone
<1>13. \A d \in Clients \ {c} : Gone(d)' = Gone(d)
  BY <1>2, <1>7 DEF Gone
<1>14. Gone(c) \in Nat /\ \A i \in 1..Len(queue[c]) : queue[c][i] = Gone(c) + i
  BY <1>2, <1>4, PageType DEF MemoryIsTail, TailOf
<1>15. MemoryIsTail'
  <2>1. \A i \in 1..Len(queue'[c]) :
          queue'[c][i] = Gone(c) + Len(intransfer'[c]) + i
    BY <1>4, <1>7
  <2>2. QED
    BY <1>2, <1>3, <1>7, <1>12, <1>13, <1>14, <2>1 DEF MemoryIsTail, TailOf
<1>16. SentIsRun'
  <2>1. /\ 1 \in 1..Len(queue[c]) /\ Len(queue[c]) \in 1..Len(queue[c])
    BY <1>2, PageType, EmptySeq
  <2>2. /\ queue[c][1] = Gone(c) + 1
        /\ queue[c][Len(queue[c])] = typed[c]
    BY <1>12, <1>14, <2>1
  <2>3. \A i \in 1..Len(queue[c]) : queue[c][i] = queue[c][1] + i - 1
    BY <1>14, <2>2, PageType
  <2>4. queue[c][1] - 1 = Gone(c) /\ typed[c] <= typed'[c]
    BY <1>2, <1>14, <2>2, PageType
  <2>5. \A n \in 1..(queue[c][1] - 1) : Settled(c, n)'
    BY <1>2, <1>3, <2>4 DEF MemoryIsTail, TailOf
  <2>6. QED
    BY <1>2, <1>3, <1>7, <2>2, <2>3, <2>4, <2>5, SMTT(30) DEF SentIsRun
<1>17. OrderKept' /\ NothingCut'
  BY <1>2 DEF OrderKept, NothingCut
<1>18. QED
  BY <1>6, <1>10, <1>11, <1>15, <1>16, <1>17

\* A failed transfer put back in front of the queue leaves the page's memory
\* the same tail of what was typed.
LEMMA RequeueKeepsMemory ==
  ASSUME TypeOK, MemoryIsTail, NEW c \in Clients, Requeue(c),
         UNCHANGED <<open, typed>>,
         \A d, n : Settled(d, n) => Settled(d, n)'
  PROVE  /\ MemoryIsTail'
         /\ intransfer' \in [Clients -> Seq(1..MaxChanges)]
         /\ queue' \in [Clients -> Seq(1..MaxChanges)]
         /\ alerted' \in [Clients -> BOOLEAN]
         /\ intransfer'[c] = << >>
         /\ \A d \in Clients \ {c} :
              intransfer'[d] = intransfer[d] /\ queue'[d] = queue[d]
<1>1. PICK t \in Seq(1..MaxChanges), q \in Seq(1..MaxChanges) :
        t = intransfer[c] /\ q = queue[c]
  BY PageType
<1>2. /\ Len(t) \in Nat /\ Len(q) \in Nat
      /\ t \o q \in Seq(1..MaxChanges)
      /\ Len(t \o q) = Len(t) + Len(q)
      /\ \A i \in 1..(Len(t) + Len(q)) :
           (t \o q)[i] = IF i <= Len(t) THEN t[i] ELSE q[i - Len(t)]
  BY LenProperties, ConcatProperties, Zenon
<1>3. << >> \in Seq(1..MaxChanges) /\ Len(<< >>) = 0
  BY EmptySeq
<1>4. /\ intransfer' \in [Clients -> Seq(1..MaxChanges)]
      /\ queue' \in [Clients -> Seq(1..MaxChanges)]
      /\ alerted' \in [Clients -> BOOLEAN]
      /\ intransfer'[c] = << >> /\ queue'[c] = t \o q
      /\ \A d \in Clients \ {c} :
           intransfer'[d] = intransfer[d] /\ queue'[d] = queue[d]
  BY <1>1, <1>2, <1>3 DEF TypeOK, Requeue
<1>5. PICK g : g = Gone(c)
  OBVIOUS
<1>6. /\ typed[c] \in Nat
      /\ g = typed[c] - Len(t) - Len(q)
      /\ Gone(c)' = typed[c] - 0 - Len(t \o q)
  BY <1>1, <1>3, <1>4, <1>5, PageType DEF Gone
<1>7. Gone(c)' = g
  BY <1>2, <1>6
<1>9. ASSUME open[c]
      PROVE  /\ g \in Nat
             /\ \A i \in 1..Len(t) : t[i] = g + i
             /\ \A i \in 1..Len(q) : q[i] = g + Len(t) + i
             /\ \A n \in 1..g : Settled(c, n)
  BY <1>1, <1>5, <1>9 DEF MemoryIsTail, TailOf
<1>10. ASSUME open[c], NEW i \in 1..Len(t \o q)
       PROVE  (t \o q)[i] = g + i
  <2>1. i \in 1..(Len(t) + Len(q))
    BY <1>2
  <2>2. CASE i <= Len(t)
    BY <1>2, <1>9, <1>10, <2>1, <2>2
  <2>3. CASE ~(i <= Len(t))
    <3>1. i - Len(t) \in 1..Len(q)
      BY <1>2, <2>1, <2>3
    <3>2. q[i - Len(t)] = g + Len(t) + (i - Len(t))
      BY <1>9, <1>10, <3>1
    <3>3. g + Len(t) + (i - Len(t)) = g + i
      BY <1>2, <1>9, <1>10, <2>1
    <3>4. QED
      BY <1>2, <2>1, <2>3, <3>2, <3>3
  <2>4. QED
    BY <2>2, <2>3
<1>11. MemoryIsTail'
  <2>1. SUFFICES ASSUME NEW d \in Clients, open'[d]
                 PROVE  TailOf(d)'
    BY DEF MemoryIsTail
  <2>2. open[d]
    BY <2>1
  <2>3. CASE d = c
    <3>1. g \in Nat /\ Len(intransfer'[d]) = 0 /\ Gone(d)' = g
      BY <1>3, <1>4, <1>7, <1>9, <2>2, <2>3
    <3>2. \A i \in 1..Len(queue'[d]) : queue'[d][i] = g + i
      BY <1>4, <1>10, <2>2, <2>3, Zenon
    <3>3. \A i \in 1..Len(queue'[d]) : g + i = g + 0 + i
      BY <3>1
    <3>4. QED
      BY <1>9, <2>2, <2>3, <3>1, <3>2, <3>3 DEF TailOf
  <2>4. CASE d # c
    BY <1>4, <2>2, <2>4, TailStays DEF MemoryIsTail
  <2>5. QED
    BY <2>3, <2>4
<1>12. QED
  BY <1>4, <1>11

\* A page that no longer waits on connection k disturbs no other page's transfer.
LEMMA LetGo ==
  ASSUME TypeOK, Waiting, Carried, NEW c \in Clients, NEW k \in Conns,
         cur[c] = k, cur' = [cur EXCEPT ![c] = None],
         conn' = [conn EXCEPT ![k] = Idle] \/ conn' = conn,
         intransfer'[c] = << >>,
         \A d \in Clients \ {c} :
           /\ intransfer'[d] = intransfer[d] /\ open'[d] = open[d]
           /\ queue'[d] = queue[d],
         ~open'[c] => queue'[c] = << >>,
         \A d, n : Settled(d, n) => Settled(d, n)'
  PROVE  /\ cur' \in [Clients -> Conns \cup {None}]
         /\ conn' \in [Conns -> Transfer]
         /\ Waiting'
         /\ Carried'
         /\ \A l \in Conns : conn'[l].st = "sent" => conn'[l] = conn[l]
<1>1. Idle \in Transfer /\ Idle.st = "free"
  BY EmptySeq DEF Idle, Transfer, ConnStates, Statuses
<1>2. cur' \in [Clients -> Conns \cup {None}] /\ conn' \in [Conns -> Transfer]
  BY <1>1 DEF TypeOK
<1>3. /\ cur'[c] = None
      /\ \A d \in Clients \ {c} : cur'[d] = cur[d]
  BY DEF TypeOK
<1>4. \A l \in Conns \ {k} : conn'[l] = conn[l]
  BY DEF TypeOK
<1>5. conn'[k] = Idle \/ conn'[k] = conn[k]
  BY DEF TypeOK
<1>6. \A d \in Clients \ {c} : cur[d] # k
  BY SynchAssumption DEF Carried
<1>7. Waiting'
  BY <1>3 DEF Waiting
<1>8. Carried'
  <2>1. ASSUME NEW d \in Clients, cur'[d] # None
        PROVE  /\ d # c
               /\ cur'[d] = cur[d] /\ cur[d] \in Conns
               /\ conn'[cur'[d]] = conn[cur[d]]
    BY <1>3, <1>4, <1>6, <2>1 DEF TypeOK
  <2>2. QED
    BY <2>1 DEF Carried
<1>9. \A l \in Conns : conn'[l].st = "sent" => conn'[l] = conn[l]
  BY <1>1, <1>4, <1>5
<1>10. QED
  BY <1>2, <1>7, <1>8, <1>9

\* onreadystatechange keeps the invariant.
LEMMA AnswerStep ==
  ASSUME IInv, NEW c \in Clients, Answer(c)
  PROVE  IInv'
<1> USE DEF IInv
<1>1. PICK k \in Conns :
        /\ cur[c] = k
        /\ conn[k].st = "answered"
        /\ \/ /\ conn[k].status = "200"
              /\ intransfer' = [intransfer EXCEPT ![c] = << >>]
              /\ UNCHANGED <<queue, alerted>>
           \/ /\ conn[k].status # "200"
              /\ Requeue(c)
        /\ cur' = [cur EXCEPT ![c] = None]
        /\ conn' = [conn EXCEPT ![k] = Idle]
        /\ UNCHANGED <<open, typed, log, cut, branch, files, faults>>
  BY DEF Answer
<1>2. \A d, n : Settled(d, n)' <=> Settled(d, n)
  BY <1>1, SettledSame
<1>3. open[c]
  BY <1>1, SynchAssumption DEF Waiting
<1>4. /\ MemoryIsTail'
      /\ intransfer' \in [Clients -> Seq(1..MaxChanges)]
      /\ queue' \in [Clients -> Seq(1..MaxChanges)]
      /\ alerted' \in [Clients -> BOOLEAN]
      /\ intransfer'[c] = << >>
      /\ \A d \in Clients \ {c} :
           intransfer'[d] = intransfer[d] /\ queue'[d] = queue[d]
  <2>1. CASE conn[k].status # "200"
    <3>1. Requeue(c) /\ UNCHANGED <<open, typed>>
      BY <1>1, <2>1
    <3>2. QED
      BY <1>2, <3>1, RequeueKeepsMemory
  <2>2. CASE conn[k].status = "200"
    <3>1. /\ intransfer' = [intransfer EXCEPT ![c] = << >>]
          /\ queue' = queue /\ alerted' = alerted
          /\ open' = open /\ typed' = typed
      BY <1>1, <2>2
    <3>2. << >> \in Seq(1..MaxChanges) /\ Len(<< >>) = 0
      BY EmptySeq
    <3>3. /\ intransfer' \in [Clients -> Seq(1..MaxChanges)]
          /\ queue' \in [Clients -> Seq(1..MaxChanges)]
          /\ alerted' \in [Clients -> BOOLEAN]
          /\ intransfer'[c] = << >>
          /\ \A d \in Clients \ {c} :
               intransfer'[d] = intransfer[d] /\ queue'[d] = queue[d]
      BY <3>1, <3>2 DEF TypeOK
    <3>4. PICK t \in Seq(1..MaxChanges), q \in Seq(1..MaxChanges), g \in Int :
            g = Gone(c) /\ t = intransfer[c] /\ q = queue[c]
      BY PageType DEF Gone
    <3>5. /\ Len(t) \in Nat /\ Len(q) \in Nat /\ typed[c] \in Nat
          /\ g = typed[c] - Len(t) - Len(q)
          /\ Gone(c)' = typed[c] - 0 - Len(q)
      BY <3>1, <3>2, <3>3, <3>4, PageType DEF Gone
    <3>6. Gone(c)' = g + Len(t) /\ Len(t) \in Nat
      BY <3>5
    <3>7. /\ g \in Nat
          /\ \A i \in 1..Len(t) : t[i] = g + i
          /\ \A i \in 1..Len(q) : q[i] = g + Len(t) + i
          /\ \A n \in 1..g : Settled(c, n)
      BY <1>3, <3>4 DEF MemoryIsTail, TailOf
    <3>8. \A i \in 1..Len(t) : Settled(c, t[i])
      BY <1>1, <2>2, <3>4, SynchAssumption DEF Carried
    <3>9. ASSUME NEW n \in 1..(g + Len(t))
          PROVE  Settled(c, n)
      <4>1. CASE n <= g
        BY <3>5, <3>7, <4>1
      <4>2. CASE ~(n <= g)
        <5>1. PICK l \in Nat : l = Len(t)
          BY <3>6
        <5>2. n \in 1..(g + l) /\ g \in Nat
          BY <3>7, <3>9, <5>1
        <5>3. n - g \in 1..l /\ g + (n - g) = n
          BY <4>2, <5>2
        <5>4. QED
          BY <3>7, <3>8, <5>1, <5>3
      <4>3. QED
        BY <4>1, <4>2
    <3>11. MemoryIsTail'
      <4>1. SUFFICES ASSUME NEW d \in Clients, open'[d]
                     PROVE  TailOf(d)'
        BY DEF MemoryIsTail
      <4>2. CASE d = c
        <5>1. /\ Gone(d)' = g + Len(t) /\ g + Len(t) \in Nat
              /\ intransfer'[d] = << >> /\ Len(intransfer'[d]) = 0
              /\ queue'[d] = q
          BY <3>1, <3>2, <3>3, <3>4, <3>5, <3>6, <3>7, <4>2
        <5>2. \A i \in 1..Len(q) : g + Len(t) + i = g + Len(t) + 0 + i
          BY <3>5, <3>7
        <5>3. \A i \in 1..Len(queue'[d]) :
                queue'[d][i] = Gone(d)' + Len(intransfer'[d]) + i
          BY <3>7, <5>1, <5>2
        <5>4. \A n \in 1..Gone(d)' : Settled(d, n)'
          BY <1>2, <3>9, <4>2, <5>1
        <5>5. QED
          BY <5>1, <5>3, <5>4 DEF TailOf
      <4>3. CASE d # c
        BY <1>2, <3>1, <3>3, <4>1, <4>3, TailStays DEF MemoryIsTail
      <4>4. QED
        BY <4>2, <4>3
    <3>12. QED
      BY <3>3, <3>11
  <2>3. QED
    BY <2>1, <2>2
<1>5. /\ cur' \in [Clients -> Conns \cup {None}]
      /\ conn' \in [Conns -> Transfer]
      /\ Waiting' /\ Carried'
      /\ \A l \in Conns : conn'[l].st = "sent" => conn'[l] = conn[l]
  BY <1>1, <1>2, <1>3, <1>4, LetGo
<1>6. TypeOK'
  BY <1>1, <1>4, <1>5 DEF TypeOK
<1>7. SentIsRun'
  <2>1. \A d \in Clients : typed[d] <= typed'[d]
    BY <1>1, PageType
  <2>2. QED
    BY <1>2, <1>5, <1>6, <2>1, SentIsRunStays
<1>8. OrderKept' /\ NothingCut'
  BY <1>1 DEF OrderKept, NothingCut
<1>9. QED
  BY <1>4, <1>5, <1>6, <1>7, <1>8

\* A timeout of the page keeps the invariant.
LEMMA GiveUpStep ==
  ASSUME IInv, NEW c \in Clients, GiveUp(c)
  PROVE  IInv'
<1> USE DEF IInv
<1>1. PICK k \in Conns :
        /\ cur[c] = k
        /\ cur' = [cur EXCEPT ![c] = None]
        /\ conn' = [conn EXCEPT ![k] = Idle] \/ conn' = conn
  BY DEF GiveUp, Abandon
<1>2. /\ Requeue(c)
      /\ UNCHANGED <<open, typed, log, cut, branch, files>>
      /\ faults < MaxFaults /\ faults' = faults + 1
  BY DEF GiveUp, Fault
<1>3. \A d, n : Settled(d, n)' <=> Settled(d, n)
  BY <1>2, SettledSame
<1>4. open[c]
  BY <1>1, SynchAssumption DEF Waiting
<1>5. /\ MemoryIsTail'
      /\ intransfer' \in [Clients -> Seq(1..MaxChanges)]
      /\ queue' \in [Clients -> Seq(1..MaxChanges)]
      /\ alerted' \in [Clients -> BOOLEAN]
      /\ intransfer'[c] = << >>
      /\ \A d \in Clients \ {c} :
           intransfer'[d] = intransfer[d] /\ queue'[d] = queue[d]
  <2>1. UNCHANGED <<open, typed>>
    BY <1>2
  <2>2. QED
    BY <1>2, <1>3, <2>1, RequeueKeepsMemory
<1>6. /\ cur' \in [Clients -> Conns \cup {None}]
      /\ conn' \in [Conns -> Transfer]
      /\ Waiting' /\ Carried'
      /\ \A l \in Conns : conn'[l].st = "sent" => conn'[l] = conn[l]
  BY <1>1, <1>2, <1>3, <1>4, <1>5, LetGo
<1>7. faults' \in 0..MaxFaults
  BY <1>2, SynchAssumption DEF TypeOK
<1>8. TypeOK'
  BY <1>2, <1>5, <1>6, <1>7 DEF TypeOK
<1>9. SentIsRun'
  <2>1. \A d \in Clients : typed[d] <= typed'[d]
    BY <1>2, PageType
  <2>2. QED
    BY <1>3, <1>6, <1>8, <2>1, SentIsRunStays
<1>10. OrderKept' /\ NothingCut'
  BY <1>2 DEF OrderKept, NothingCut
<1>11. QED
  BY <1>5, <1>6, <1>8, <1>9, <1>10

\* Closing a tab keeps the invariant.
LEMMA CloseStep ==
  ASSUME IInv, NEW c \in Clients, Close(c)
  PROVE  IInv'
<1> USE DEF IInv
<1>1. /\ open' = [open EXCEPT ![c] = FALSE]
      /\ queue' = [queue EXCEPT ![c] = << >>]
      /\ intransfer' = [intransfer EXCEPT ![c] = << >>]
      /\ UNCHANGED <<typed, alerted, log, cut, branch, files, faults>>
  BY DEF Close
<1>2. \A d, n : Settled(d, n)' <=> Settled(d, n)
  BY <1>1, SettledSame
<1>3. << >> \in Seq(1..MaxChanges)
  BY EmptySeq
<1>4. /\ open' \in [Clients -> BOOLEAN]
      /\ queue' \in [Clients -> Seq(1..MaxChanges)]
      /\ intransfer' \in [Clients -> Seq(1..MaxChanges)]
      /\ ~open'[c] /\ intransfer'[c] = << >> /\ queue'[c] = << >>
      /\ \A d \in Clients \ {c} :
           /\ intransfer'[d] = intransfer[d] /\ open'[d] = open[d]
           /\ queue'[d] = queue[d]
  BY <1>1, <1>3 DEF TypeOK
<1>5. /\ cur' \in [Clients -> Conns \cup {None}]
      /\ conn' \in [Conns -> Transfer]
      /\ Waiting' /\ Carried'
      /\ \A l \in Conns : conn'[l].st = "sent" => conn'[l] = conn[l]
  <2>1. CASE cur[c] = None
    <3>1. cur' = cur /\ conn' = conn
      BY <2>1 DEF Close
    <3>2. Waiting'
      BY <1>4, <2>1, <3>1 DEF Waiting
    <3>3. Carried'
      BY <1>2, <1>4, <2>1, <3>1 DEF Carried
    <3>4. QED
      BY <3>1, <3>2, <3>3 DEF TypeOK
  <2>2. CASE cur[c] # None
    <3>1. PICK k \in Conns : cur[c] = k
      BY <2>2 DEF TypeOK
    <3>2. /\ cur' = [cur EXCEPT ![c] = None]
          /\ conn' = [conn EXCEPT ![k] = Idle] \/ conn' = conn
      BY <2>2, <3>1 DEF Close, Abandon
    <3>3. QED
      BY <1>2, <1>4, <3>1, <3>2, LetGo
  <2>3. QED
    BY <2>1, <2>2
<1>6. TypeOK'
  BY <1>1, <1>4, <1>5 DEF TypeOK
<1>7. MemoryIsTail'
  <2>1. \A d \in Clients : open'[d] => d # c /\ open[d] /\ typed'[d] = typed[d]
    BY <1>1, <1>4
  <2>2. QED
    BY <1>2, <1>4, <2>1, TailStays DEF MemoryIsTail
<1>8. SentIsRun'
  <2>1. \A d \in Clients : typed[d] <= typed'[d]
    BY <1>1, PageType
  <2>2. QED
    BY <1>2, <1>5, <1>6, <2>1, SentIsRunStays
<1>9. OrderKept' /\ NothingCut'
  BY <1>1 DEF OrderKept, NothingCut
<1>10. QED
  BY <1>5, <1>6, <1>7, <1>8, <1>9

-----------------------------------------------------------------------------
(***************************************************************************)
(* The steps of the server.                                                *)
(***************************************************************************)

\* What no step of the server touches.
PageSame == UNCHANGED page

\* Steps that leave the pages alone, and settle no less, keep what is known of
\* the pages' memory.
LEMMA MemoryStays ==
  ASSUME MemoryIsTail, Waiting, PageSame,
         \A d, n : Settled(d, n) => Settled(d, n)'
  PROVE  MemoryIsTail' /\ Waiting'
<1>1. UNCHANGED <<open, typed, queue, intransfer, cur>>
  BY DEF PageSame, page
<1>2. Waiting'
  BY <1>1 DEF Waiting
<1>3. MemoryIsTail'
  BY <1>1, TailStays DEF MemoryIsTail
<1>4. QED
  BY <1>2, <1>3

\* Transfers that the server answers, or loses, without an answer of 200.
LEMMA FailedKeeps ==
  ASSUME TypeOK, Carried, PageSame, UNCHANGED <<log, cut>>,
         conn' \in [Conns -> Transfer],
         \A k \in Conns :
           \/ conn'[k] = conn[k]
           \/ ~Awaited(k) /\ conn'[k].st # "sent"
           \/ /\ conn'[k].st = "answered" /\ conn'[k].status # "200"
              /\ conn'[k].owner = conn[k].owner
  PROVE  /\ Carried'
         /\ \A k \in Conns : conn'[k].st = "sent" => conn'[k] = conn[k]
<1>1. UNCHANGED <<open, typed, queue, intransfer, cur>>
  BY DEF PageSame, page
<1>2. \A d, n : Settled(d, n)' <=> Settled(d, n)
  BY SettledSame
<1>3. \A d \in Clients : cur[d] # None => cur[d] \in Conns /\ Awaited(cur[d])
  BY DEF TypeOK, Awaited
<1>4. Carried'
  BY <1>1, <1>2, <1>3 DEF Carried
<1>5. QED
  BY <1>4

\* Closing a connection, or answering 400 on it, keeps the invariant.
LEMMA FailedStep ==
  ASSUME IInv, NEW k \in Conns, NEW s \in {"0", "400"}, Reply(k, s),
         PageSame, UNCHANGED <<log, cut, branch, files>>,
         faults' \in 0..MaxFaults
  PROVE  IInv'
<1> USE DEF IInv
<1>1. conn' \in [Conns -> Transfer]
  BY ReplyType DEF Statuses
<1>2. ASSUME NEW l \in Conns
      PROVE  \/ conn'[l] = conn[l]
             \/ ~Awaited(l) /\ conn'[l].st # "sent"
             \/ /\ conn'[l].st = "answered" /\ conn'[l].status # "200"
                /\ conn'[l].owner = conn[l].owner
  BY DEF Reply, TypeOK, Idle
<1>3. /\ Carried'
      /\ \A l \in Conns : conn'[l].st = "sent" => conn'[l] = conn[l]
  BY <1>1, <1>2, FailedKeeps
<1>4. \A d, n : Settled(d, n)' <=> Settled(d, n)
  BY SettledSame
<1>5. MemoryIsTail' /\ Waiting'
  BY <1>4, MemoryStays
<1>6. TypeOK'
  BY <1>1 DEF TypeOK, PageSame, page
<1>7. SentIsRun'
  <2>1. \A d \in Clients : typed[d] <= typed'[d]
    BY PageType DEF PageSame, page
  <2>2. QED
    BY <1>3, <1>4, <1>6, <2>1, SentIsRunStays
<1>8. OrderKept' /\ NothingCut'
  BY DEF OrderKept, NothingCut
<1>9. QED
  BY <1>3, <1>5, <1>6, <1>7, <1>8

\* stop() and the restart of the server keep the invariant.
LEMMA StopStep ==
  ASSUME IInv, Stop
  PROVE  IInv'
<1> USE DEF IInv
<1>1. /\ PageSame /\ UNCHANGED <<log, cut, branch>> /\ files' = 0
      /\ faults < MaxFaults /\ faults' = faults + 1
      /\ conn' = [k \in Conns |->
           IF conn[k].st # "sent" THEN conn[k]
           ELSE IF Awaited(k)
                THEN [st |-> "answered", owner |-> conn[k].owner,
                      batch |-> << >>, status |-> "0"]
                ELSE Idle]
  BY DEF Stop, Fault, PageSame
<1>2. Idle \in Transfer
  BY EmptySeq DEF Idle, Transfer, ConnStates, Statuses
<1>3. \A k \in Conns :
        [st |-> "answered", owner |-> conn[k].owner, batch |-> << >>, status |-> "0"]
          \in Transfer
  BY EmptySeq, ConnType DEF Transfer, ConnStates, Statuses
<1>4. conn' \in [Conns -> Transfer]
  BY <1>1, <1>2, <1>3, ConnType
<1>5. \A k \in Conns :
        \/ conn'[k] = conn[k]
        \/ ~Awaited(k) /\ conn'[k].st # "sent"
        \/ /\ conn'[k].st = "answered" /\ conn'[k].status # "200"
           /\ conn'[k].owner = conn[k].owner
  BY <1>1 DEF Idle
<1>6. /\ Carried'
      /\ \A k \in Conns : conn'[k].st = "sent" => conn'[k] = conn[k]
  BY <1>1, <1>4, <1>5, FailedKeeps
<1>7. \A d, n : Settled(d, n)' <=> Settled(d, n)
  BY <1>1, SettledSame
<1>8. MemoryIsTail' /\ Waiting'
  BY <1>1, <1>7, MemoryStays
<1>9. files' \in 0..MaxFiles /\ faults' \in 0..MaxFaults
  BY <1>1, SynchAssumption DEF TypeOK
<1>10. TypeOK'
  BY <1>1, <1>4, <1>9 DEF TypeOK, PageSame, page
<1>11. SentIsRun'
  <2>1. \A d \in Clients : typed[d] <= typed'[d]
    BY <1>1, PageType DEF PageSame, page
  <2>2. QED
    BY <1>6, <1>7, <1>10, <2>1, SentIsRunStays
<1>12. OrderKept' /\ NothingCut'
  BY <1>1 DEF OrderKept, NothingCut
<1>13. QED
  BY <1>6, <1>8, <1>10, <1>11, <1>12

\* A write() of feed(), whole or short, keeps the invariant.
LEMMA WriteStep ==
  ASSUME IInv, NEW k \in Conns, NEW m \in 0..Len(conn[k].batch), Write(k, m),
         m = Len(conn[k].batch) \/ ShortWrites,
         faults' \in 0..MaxFaults
  PROVE  IInv'
<1> USE DEF IInv
<1>1. PICK o \in Clients, b \in Seq(1..MaxChanges) :
        o = conn[k].owner /\ b = conn[k].batch
  BY ConnType DEF Write, SentIsRun
<1>2. /\ Len(b) \in Nat /\ m \in Nat /\ m <= Len(b) /\ conn[k].st = "sent"
      /\ PageSame
      /\ Reply(k, "200")
  BY <1>1, LenProperties DEF Write, PageSame
<1>3. /\ log' \in Seq(Clients \X (1..MaxChanges))
      /\ Len(log') = Len(log) + m
      /\ \A i \in 1..Len(log) : log'[i] = log[i]
      /\ \A i \in 1..m : log'[Len(log) + i] = <<o, b[i]>>
  BY <1>1, <1>2, WriteEffect
<1>4. /\ \A c, n : Settled(c, n) => Settled(c, n)'
      /\ \A i \in 1..Len(b) : Settled(o, b[i])'
  BY <1>1, <1>2, WriteSettles
<1>5. MemoryIsTail' /\ Waiting'
  BY <1>2, <1>4, MemoryStays
<1>6. conn' \in [Conns -> Transfer]
  BY <1>2, ReplyType DEF Statuses
<1>7. TypeOK'
  <2>1. cut' \subseteq Clients \X (1..MaxChanges)
    <3>1. cut' = cut \cup {<<o, b[i]>> : i \in (m + 1)..Len(b)}
      BY <1>1 DEF Write
    <3>2. \A i \in (m + 1)..Len(b) : i \in 1..Len(b)
      BY <1>2
    <3>3. \A i \in 1..Len(b) : b[i] \in 1..MaxChanges
      BY ElementOfSeq
    <3>4. QED
      BY <3>1, <3>2, <3>3 DEF TypeOK
  <2>2. files' \in 0..MaxFiles
    BY SynchAssumption DEF TypeOK, Write
  <2>3. branch' \in {"absent", "usable", "unusable"}
    BY DEF Write
  <2>4. QED
    BY <1>2, <1>3, <1>6, <2>1, <2>2, <2>3 DEF TypeOK, PageSame, page
<1>8. \A l \in Conns : conn'[l].st = "sent" => conn'[l] = conn[l]
  BY <1>2 DEF Reply, TypeOK, Idle
<1>9. Carried'
  <2>1. UNCHANGED <<cur, intransfer>>
    BY <1>2 DEF PageSame, page
  <2>2. ASSUME NEW d \in Clients, cur[d] = k
        PROVE  /\ d = o /\ b = intransfer[d]
               /\ conn'[k].owner = d /\ conn'[k].st = "answered"
    BY <1>1, <1>2, <2>2, SynchAssumption DEF Carried, Reply, Awaited, TypeOK
  <2>3. ASSUME NEW d \in Clients, cur[d] # None, cur[d] # k
        PROVE  conn'[cur[d]] = conn[cur[d]]
    BY <1>2, <2>3 DEF Reply, TypeOK
  <2>4. QED
    BY <1>4, <2>1, <2>2, <2>3 DEF Carried
<1>10. SentIsRun'
  <2>1. \A d \in Clients : typed[d] <= typed'[d]
    BY <1>2, PageType DEF PageSame, page
  <2>2. QED
    BY <1>4, <1>7, <1>8, <2>1, SentIsRunStays
<1>11. OrderKept'
  <2>1. SUFFICES ASSUME NEW j \in 1..Len(log'), log'[j][2] > 1
                 PROVE  \/ \E i \in 1..(j - 1) :
                             log'[i] = <<log'[j][1], log'[j][2] - 1>>
                        \/ <<log'[j][1], log'[j][2] - 1>> \in cut'
    BY DEF OrderKept
  <2>2. Len(log) \in Nat
    BY LenProperties DEF TypeOK
  <2>3. cut \subseteq cut'
    BY DEF Write
  <2>4. CASE j \in 1..Len(log)
    <3>1. \A i \in 1..(j - 1) : i \in 1..Len(log)
      BY <2>2, <2>4
    <3>2. log'[j] = log[j] /\ \A i \in 1..(j - 1) : log'[i] = log[i]
      BY <1>3, <2>4, <3>1
    <3>3. \/ \E i \in 1..(j - 1) : log[i] = <<log[j][1], log[j][2] - 1>>
          \/ <<log[j][1], log[j][2] - 1>> \in cut
      BY <2>1, <2>4, <3>2 DEF OrderKept
    <3>4. QED
      BY <2>3, <3>2, <3>3
  <2>5. CASE j \notin 1..Len(log)
    <3>1. PICK i \in 1..m : j = Len(log) + i
      <4>1. j - Len(log) \in 1..m /\ j = Len(log) + (j - Len(log))
        BY <1>2, <1>3, <2>2, <2>5, SMTT(30)
      <4>2. QED
        BY <4>1
    <3>2. log'[j] = <<o, b[i]>> /\ i \in 1..Len(b)
      <4>1. i \in 1..Len(b)
        BY <1>2
      <4>2. QED
        BY <1>3, <3>1, <4>1
    <3>3. b[i] = b[1] + i - 1 /\ b[1] \in Nat /\ b[i] \in Nat
      <4>1. 1 \in 1..Len(b)
        BY <1>2, <3>2
      <4>2. b[1] \in 1..MaxChanges /\ b[i] \in 1..MaxChanges
        BY <3>2, <4>1, ElementOfSeq
      <4>3. b[i] = b[1] + i - 1
        BY <1>1, <1>2, <3>2 DEF SentIsRun
      <4>4. QED
        BY <4>2, <4>3
    <3>4. CASE i = 1
      <4>1. b[i] - 1 \in 1..(b[1] - 1)
        BY <2>1, <3>2, <3>3, <3>4
      <4>2. Settled(o, b[i] - 1)
        BY <1>1, <1>2, <4>1 DEF SentIsRun
      <4>3. CASE <<o, b[i] - 1>> \in cut
        BY <2>3, <3>2, <4>3
      <4>4. CASE Saved(o, b[i] - 1)
        <5>1. PICK l \in 1..Len(log) : log[l] = <<o, b[i] - 1>>
          BY <4>4 DEF Saved
        <5>2. l \in 1..(j - 1) /\ log'[l] = log[l]
          BY <1>3, <2>2, <3>1, <3>4
        <5>3. QED
          BY <3>2, <5>1, <5>2
      <4>5. QED
        BY <4>2, <4>3, <4>4 DEF Settled
    <3>5. CASE i # 1
      <4>1. i - 1 \in 1..m /\ i - 1 \in 1..Len(b)
        BY <1>2, <3>1, <3>5
      <4>2. b[i - 1] = b[1] + (i - 1) - 1
        BY <1>1, <1>2, <4>1 DEF SentIsRun
      <4>3. b[i - 1] = b[i] - 1
        <5>1. i \in Int
          BY <3>1
        <5>2. PICK x \in Nat : x = b[1]
          BY <3>3
        <5>3. b[i] = x + i - 1 /\ b[i - 1] = x + (i - 1) - 1
          BY <3>3, <4>2, <5>2
        <5>4. x + (i - 1) - 1 = (x + i - 1) - 1
          BY <5>1
        <5>5. QED
          BY <5>3, <5>4
      <4>4. log'[Len(log) + (i - 1)] = <<o, b[i] - 1>>
        BY <1>3, <4>1, <4>3
      <4>5. Len(log) + (i - 1) \in 1..(j - 1)
        BY <2>2, <3>1, <4>1
      <4>6. QED
        BY <3>2, <4>4, <4>5
    <3>6. QED
      BY <3>4, <3>5
  <2>6. QED
    BY <2>4, <2>5
<1>12. NothingCut'
  <2>1. CASE ShortWrites
    BY <2>1 DEF NothingCut
  <2>2. CASE m = Len(b)
    <3>1. (m + 1)..Len(b) = {}
      BY <1>2, <2>2
    <3>2. QED
      BY <1>1, <3>1 DEF Write, NothingCut
  <2>3. QED
    BY <1>1, <2>1, <2>2
<1>13. QED
  BY <1>5, <1>7, <1>9, <1>10, <1>11, <1>12

-----------------------------------------------------------------------------
(***************************************************************************)
(* The invariant holds initially and every step preserves it.              *)
(***************************************************************************)
LEMMA InitInvariant ==
  ASSUME Init
  PROVE  IInv
<1> USE DEF Init
<1>1. << >> \in Seq(1..MaxChanges) /\ Len(<< >>) = 0
  BY EmptySeq
<1>2. << >> \in Seq(Clients \X (1..MaxChanges))
  BY EmptySeq
<1>3. Idle \in Transfer
  BY EmptySeq DEF Idle, Transfer, ConnStates, Statuses
<1>4. TypeOK
  BY <1>1, <1>2, <1>3, SynchAssumption DEF TypeOK
<1>5. Waiting /\ Carried /\ SentIsRun /\ NothingCut
  BY DEF Waiting, Carried, SentIsRun, NothingCut, Idle
<1>6. MemoryIsTail
  BY <1>1 DEF MemoryIsTail, TailOf, Gone
<1>7. OrderKept
  BY <1>1 DEF OrderKept
<1>8. QED
  BY <1>4, <1>5, <1>6, <1>7 DEF IInv

\* Every step of Next keeps the invariant.
LEMMA StepInvariant ==
  ASSUME IInv, [Next]_vars
  PROVE  IInv'
<1>1. TypeOK /\ faults \in 0..MaxFaults
  BY DEF IInv, TypeOK
<1>2. CASE UNCHANGED vars
  <2>1. UNCHANGED <<open, typed, queue, intransfer, cur, alerted, conn, log,
                    cut, branch, files, faults>>
    BY <1>2 DEF vars, page, server
  <2>2. \A d, n : Settled(d, n)' <=> Settled(d, n)
    BY <2>1, SettledSame
  <2>3. TypeOK'
    BY <2>1 DEF IInv, TypeOK
  <2>4. Waiting' /\ Carried'
    BY <2>1, <2>2 DEF IInv, Waiting, Carried
  <2>5. MemoryIsTail'
    BY <2>1, <2>2, TailStays DEF IInv, MemoryIsTail
  <2>6. SentIsRun'
    BY <2>1, <2>2 DEF IInv, SentIsRun
  <2>7. OrderKept' /\ NothingCut'
    BY <2>1 DEF IInv, OrderKept, NothingCut
  <2>8. QED
    BY <2>3, <2>4, <2>5, <2>6, <2>7 DEF IInv
<1>3. ASSUME NEW c \in Clients, Type(c) \/ Tick(c) \/ Answer(c) \/ GiveUp(c) \/ Close(c)
      PROVE  IInv'
  BY <1>3, TypeStep, TickStep, AnswerStep, GiveUpStep, CloseStep
<1>4. ASSUME NEW k \in Conns, Serve(k) \/ ServeShortWrite(k) \/ LoseRequest(k)
      PROVE  IInv'
  <2>1. Len(conn[k].batch) \in Nat
    BY <1>1, ConnType
  <2>2. CASE ServeTooLong(k)
    <3>1. /\ Reply(k, "0") /\ PageSame /\ UNCHANGED <<log, cut, branch, files>>
          /\ faults' \in 0..MaxFaults
      BY <1>1, <2>2 DEF ServeTooLong, PageSame
    <3>2. QED
      BY <3>1, FailedStep
  <2>3. CASE ServeNoFile(k)
    <3>1. /\ Reply(k, "400") /\ PageSame /\ UNCHANGED <<log, cut, branch, files>>
          /\ faults' \in 0..MaxFaults
      BY <1>1, <2>3 DEF ServeNoFile, PageSame
    <3>2. QED
      BY <3>1, FailedStep
  <2>4. CASE ServeFeed(k)
    <3>1. /\ Write(k, Len(conn[k].batch)) /\ faults' \in 0..MaxFaults
          /\ Len(conn[k].batch) \in 0..Len(conn[k].batch)
      BY <1>1, <2>1, <2>4 DEF ServeFeed
    <3>2. QED
      BY <3>1, WriteStep
  <2>5. CASE ServeShortWrite(k)
    <3>1. PICK m \in 0..(Len(conn[k].batch) - 1) : Write(k, m)
      BY <2>5 DEF ServeShortWrite
    <3>2. m \in 0..Len(conn[k].batch)
      BY <2>1
    <3>3. ShortWrites /\ faults' \in 0..MaxFaults
      BY <1>1, <2>5, SynchAssumption DEF ServeShortWrite, Fault
    <3>4. QED
      BY <3>1, <3>2, <3>3, WriteStep
  <2>6. CASE LoseRequest(k)
    <3>1. /\ Reply(k, "0") /\ PageSame /\ UNCHANGED <<log, cut, branch, files>>
          /\ faults' \in 0..MaxFaults
      BY <1>1, <2>6, SynchAssumption DEF LoseRequest, PageSame, Fault
    <3>2. QED
      BY <3>1, FailedStep
  <2>7. QED
    BY <1>4, <2>2, <2>3, <2>4, <2>5, <2>6 DEF Serve
<1>5. CASE Stop
  BY <1>5, StopStep
<1>6. QED
  BY <1>2, <1>3, <1>4, <1>5 DEF Next

\* The inductive invariant holds in every behaviour.
LEMMA Invariance == Spec => []IInv
<1>1. Init => IInv
  BY InitInvariant
<1>2. IInv /\ [Next]_vars => IInv'
  BY StepInvariant
<1>3. QED
  BY <1>1, <1>2, PTL DEF Spec

\* Every variable keeps its type: in particular the server never holds more
\* branch files open than it may, and feed() never writes without one.
THEOREM TypeCorrect == Spec => []TypeOK
<1>1. IInv => TypeOK
  BY DEF IInv
<1>2. QED
  BY <1>1, Invariance, PTL

\* What an open page has in memory is the rest of what was typed on it.
LEMMA MemoryRun ==
  ASSUME IInv, NEW c \in Clients, open[c]
  PROVE  /\ Gone(c) \in Nat /\ Len(Pending(c)) \in Nat
         /\ typed[c] = Gone(c) + Len(Pending(c))
         /\ \A i \in 1..Len(Pending(c)) : Pending(c)[i] = Gone(c) + i
         /\ \A n \in 1..Gone(c) : Settled(c, n)
<1>1. PICK t \in Seq(1..MaxChanges), q \in Seq(1..MaxChanges), g \in Int :
        t = intransfer[c] /\ q = queue[c] /\ g = Gone(c)
  BY PageType DEF IInv, Gone
<1>2. /\ Len(t) \in Nat /\ Len(q) \in Nat
      /\ Len(t \o q) = Len(t) + Len(q)
      /\ \A i \in 1..(Len(t) + Len(q)) :
           (t \o q)[i] = IF i <= Len(t) THEN t[i] ELSE q[i - Len(t)]
  BY LenProperties, ConcatProperties, Zenon
<1>3. /\ g \in Nat
      /\ \A i \in 1..Len(t) : t[i] = g + i
      /\ \A i \in 1..Len(q) : q[i] = g + Len(t) + i
      /\ \A i \in 1..g : Settled(c, i)
  BY <1>1 DEF IInv, MemoryIsTail, TailOf
<1>4. PICK y \in Nat, lt \in Nat, lq \in Nat :
        y = typed[c] /\ lt = Len(t) /\ lq = Len(q)
  BY <1>2, PageType DEF IInv
<1>5. y = g + (lt + lq)
  <2>1. g = typed[c] - Len(t) - Len(q)
    BY <1>1 DEF Gone
  <2>2. QED
    BY <1>3, <1>4, <2>1
<1>6. ASSUME NEW i \in 1..(lt + lq)
      PROVE  (t \o q)[i] = g + i
  <2>1. CASE i <= lt
    <3>1. i \in 1..lt
      BY <2>1
    <3>2. t[i] = g + i
      BY <1>3, <1>4, <3>1
    <3>3. (t \o q)[i] = t[i]
      BY <1>2, <1>4, <2>1
    <3>4. QED
      BY <3>2, <3>3
  <2>2. CASE ~(i <= lt)
    <3>1. i - lt \in 1..lq /\ g + lt + (i - lt) = g + i
      BY <1>3, <2>2
    <3>2. q[i - lt] = g + lt + (i - lt)
      BY <1>3, <1>4, <3>1
    <3>3. (t \o q)[i] = q[i - lt]
      BY <1>2, <1>4, <2>2
    <3>4. QED
      BY <3>1, <3>2, <3>3
  <2>3. QED
    BY <2>1, <2>2
<1>7. Pending(c) = t \o q /\ Len(t \o q) = lt + lq
  BY <1>1, <1>2, <1>4 DEF Pending
<1>8. Len(Pending(c)) = lt + lq /\ \A i \in 1..(lt + lq) : Pending(c)[i] = g + i
  BY <1>6, <1>7
<1>9. Gone(c) \in Nat /\ \A n \in 1..Gone(c) : Settled(c, n)
  BY <1>1, <1>3
<1>10. typed[c] = Gone(c) + Len(Pending(c))
  BY <1>1, <1>4, <1>5, <1>8
<1>11. \A i \in 1..Len(Pending(c)) : Pending(c)[i] = Gone(c) + i
  BY <1>1, <1>8
<1>12. Len(Pending(c)) \in Nat
  BY <1>8
<1>13. QED
  BY <1>9, <1>10, <1>11, <1>12

\* However timeouts, retries, late requests and restarts interleave, a change
\* typed on a page that is still open is in the branch file, in the page's
\* memory, or was left out by a short write() that feed() does not notice.
THEOREM NothingLost == Spec => []NoLoss
<1>1. IInv => NoLoss
  <2>1. SUFFICES ASSUME IInv, NEW c \in Clients, open[c], NEW n \in 1..typed[c]
                 PROVE  \/ Settled(c, n)
                        \/ \E i \in 1..Len(Pending(c)) : Pending(c)[i] = n
    BY DEF NoLoss, Settled
  <2>2. PICK g \in Nat, l \in Nat : g = Gone(c) /\ l = Len(Pending(c))
    BY <2>1, MemoryRun
  <2>3. /\ typed[c] = g + l
        /\ \A i \in 1..l : Pending(c)[i] = g + i
        /\ \A i \in 1..g : Settled(c, i)
    BY <2>1, <2>2, MemoryRun
  <2>4. CASE n <= g
    BY <2>3, <2>4
  <2>5. CASE ~(n <= g)
    <3>1. n - g \in 1..l /\ g + (n - g) = n
      BY <2>3, <2>5
    <3>2. QED
      BY <2>2, <2>3, <3>1
  <2>6. QED
    BY <2>4, <2>5
<1>2. QED
  BY <1>1, Invariance, PTL

\* A change is never in the branch file before its predecessor on the same
\* page, even when a transfer the page gave up on is served after its retry,
\* unless that predecessor was left out by a short write().
THEOREM OrderIsKept == Spec => []OrderKept
<1>1. IInv => OrderKept
  BY DEF IInv
<1>2. QED
  BY <1>1, Invariance, PTL

-----------------------------------------------------------------------------
(***************************************************************************)
(* More about Synch, for every set of pages and connections and every      *)
(* value of the bounds: it implements Delivery, where write() stores what  *)
(* it is given; a change is saved twice only after an alert; and a backlog *)
(* longer than a request stays.                                            *)
(***************************************************************************)

\* One write of a whole transfer is one run of changes, and all that was typed
\* before it on its page is in the file.
LEMMA WriteIsRun ==
  ASSUME IInv, ~ShortWrites, NEW k \in Conns, Write(k, Len(conn[k].batch))
  PROVE  \E c \in Clients : \E lo, hi \in 1..MaxChanges : Promise!SaveRun(c, lo, hi)
<1>1. PICK o \in Clients, b \in Seq(1..MaxChanges) :
        o = conn[k].owner /\ b = conn[k].batch
  BY ConnType DEF IInv, Write, SentIsRun
<1>2. /\ conn[k].st = "sent" /\ b # << >>
      /\ Len(b) \in Nat
      /\ \A i \in 1..Len(b) : b[i] = b[1] + i - 1
      /\ b[Len(b)] <= typed[o]
      /\ \A n \in 1..(b[1] - 1) : Settled(o, n)
  BY <1>1, LenProperties DEF IInv, Write, SentIsRun
<1>3. 1 \in 1..Len(b) /\ Len(b) \in 1..Len(b)
  BY <1>1, <1>2, EmptySeq
<1>4. PICK lo \in 1..MaxChanges, hi \in 1..MaxChanges : lo = b[1] /\ hi = b[Len(b)]
  BY <1>1, <1>3, ElementOfSeq
<1>5. hi - lo + 1 = Len(b)
  <2>1. b[Len(b)] = b[1] + Len(b) - 1
    BY <1>2, <1>3
  <2>2. lo \in Int /\ hi \in Int
    BY SynchAssumption
  <2>3. hi = lo + Len(b) - 1
    BY <1>4, <2>1
  <2>4. QED
    BY <1>2, <2>2, <2>3
<1>6. b = [i \in 1..(hi - lo + 1) |-> lo + i - 1]
  <2>1. DOMAIN b = 1..Len(b) /\ b = [i \in DOMAIN b |-> b[i]]
    BY <1>1
  <2>2. QED
    BY <1>2, <1>4, <1>5, <2>1
<1>7. SubSeq(b, 1, Len(b)) = b
  BY <1>1
<1>8. log' = log \o Promise!Entries(o, [i \in 1..(hi - lo + 1) |-> lo + i - 1])
  BY <1>1, <1>6, <1>7 DEF Write, Entries, Promise!Entries
<1>9. \A n \in 1..(lo - 1) : Promise!Saved(o, n)
  BY <1>2, <1>4 DEF IInv, NothingCut, Settled, Saved, Promise!Saved
<1>10. typed' = typed
  BY DEF Write, page
<1>11. hi <= typed[o]
  BY <1>2, <1>4
<1>12. Promise!SaveRun(o, lo, hi)
  BY <1>8, <1>9, <1>10, <1>11 DEF Promise!SaveRun
<1>13. QED
  BY <1>12

\* Every step is one of the promise, or changes nothing it is about.
LEMMA DeliveryStep ==
  ASSUME IInv, ~ShortWrites, [Next]_vars
  PROVE  [Promise!Next]_<<typed, log>>
<1>1. ASSUME NEW c \in Clients, Type(c)
      PROVE  Promise!Next
  BY <1>1 DEF Type, server, Promise!Next, Promise!Type
<1>2. ASSUME NEW c \in Clients, Tick(c) \/ Answer(c) \/ GiveUp(c) \/ Close(c)
      PROVE  UNCHANGED <<typed, log>>
  BY <1>2 DEF Tick, Answer, GiveUp, Close
<1>3. ASSUME NEW k \in Conns, Serve(k)
      PROVE  Promise!Next \/ UNCHANGED <<typed, log>>
  <2>1. CASE ServeTooLong(k) \/ ServeNoFile(k)
    BY <2>1 DEF ServeTooLong, ServeNoFile, page
  <2>2. CASE ServeFeed(k)
    BY <2>2, WriteIsRun DEF ServeFeed, Promise!Next
  <2>3. QED
    BY <1>3, <2>1, <2>2 DEF Serve
<1>4. ASSUME NEW k \in Conns, LoseRequest(k) \/ ServeShortWrite(k)
      PROVE  UNCHANGED <<typed, log>>
  BY <1>4 DEF LoseRequest, ServeShortWrite, page
<1>5. CASE Stop
  BY <1>5 DEF Stop, page
<1>6. CASE UNCHANGED vars
  BY <1>6 DEF vars, page, server
<1>7. QED
  BY <1>1, <1>2, <1>3, <1>4, <1>5, <1>6 DEF Next

\* Where no write() is cut short, the transfer of changes is the delivery it
\* promises: every page's changes reach the branch file in order, in runs
\* without gaps, whatever is given up, sent again, served late or lost.
THEOREM Implements == ASSUME ~ShortWrites PROVE Spec => Delivers
<1>1. Init => Promise!Init
  BY DEF Init, Promise!Init
<1>2. ASSUME IInv, [Next]_vars
      PROVE  [Promise!Next]_<<typed, log>>
  BY <1>2, DeliveryStep
<1>3. QED
  BY <1>1, <1>2, Invariance, PTL DEF Spec, Delivers, Promise!Spec, Promise!vars

-----------------------------------------------------------------------------
(***************************************************************************)
(* A change is saved twice only after an alert.  The invariant: a page     *)
(* that has shown none has at most one transfer in a socket, which is the  *)
(* one it waits for as long as it is open; neither its changes nor those   *)
(* in the queue are in the file, which has no change of the page twice.    *)
(***************************************************************************)
SentBy(c, k) == conn[k].st = "sent" /\ conn[k].owner = c

\* The file holds no change that was not typed.
LogIsTyped ==
  \A i \in 1..Len(log) : log[i][2] <= typed[log[i][1]]

LogOnce(c) ==
  \A i, j \in 1..Len(log) : i # j /\ log[i] = log[j] => log[i][1] # c

UnsavedSent(c) ==
  \A k \in Conns : SentBy(c, k) =>
    \A i \in 1..Len(conn[k].batch) : ~Saved(c, conn[k].batch[i])

OneSent(c) == \A k, l \in Conns : SentBy(c, k) /\ SentBy(c, l) => k = l

SentAwaited(c) == open[c] => \A k \in Conns : SentBy(c, k) => cur[c] = k

UnsavedQueue(c) == \A i \in 1..Len(queue[c]) : ~Saved(c, queue[c][i])

Once(c) ==
  /\ LogOnce(c)
  /\ UnsavedSent(c)
  /\ OneSent(c)
  /\ SentAwaited(c)
  /\ UnsavedQueue(c)

OInv ==
  /\ IInv
  /\ LogIsTyped
  /\ \A c \in Clients : ~alerted[c] => Once(c)

\* Where the file, the queue and the transfers of a page in sockets stay as
\* they are, or become fewer, so does what is known of them.
LEMMA OnceStays ==
  ASSUME NEW c \in Clients, Once(c), log' = log,
         \A k \in Conns : SentBy(c, k)' => conn'[k] = conn[k],
         SentAwaited(c)', UnsavedQueue(c)'
  PROVE  Once(c)'
<1>1. \A k \in Conns : SentBy(c, k)' => SentBy(c, k)
  BY DEF SentBy
<1>2. \A n : Saved(c, n)' <=> Saved(c, n)
  BY DEF Saved
<1>3. UnsavedSent(c)'
  BY <1>1, <1>2 DEF Once, UnsavedSent
<1>4. OneSent(c)'
  BY <1>1 DEF Once, OneSent
<1>5. LogOnce(c)'
  BY DEF Once, LogOnce
<1>6. QED
  BY <1>3, <1>4, <1>5 DEF Once

\* The same for a page that does nothing in a step.
LEMMA OnceOfOthers ==
  ASSUME NEW c \in Clients, Once(c), log' = log,
         \A k \in Conns : SentBy(c, k)' => conn'[k] = conn[k],
         open'[c] = open[c], cur'[c] = cur[c], queue'[c] = queue[c]
  PROVE  Once(c)'
<1>1. SentAwaited(c)'
  BY DEF Once, SentAwaited, SentBy
<1>2. UnsavedQueue(c)'
  BY DEF Once, UnsavedQueue, Saved
<1>3. QED
  BY <1>1, <1>2, OnceStays

\* Where nothing is written or typed, the file still holds what was typed.
LEMMA LogTypedStays ==
  ASSUME LogIsTyped, log' = log, typed' = typed
  PROVE  LogIsTyped'
BY DEF LogIsTyped

\* oninput: the new change has a number that none in the file has.
LEMMA OnceType ==
  ASSUME OInv, NEW c \in Clients, Type(c)
  PROVE  LogIsTyped' /\ \A d \in Clients : ~alerted'[d] => Once(d)'
<1> USE DEF OInv, IInv
<1>1. /\ UNCHANGED <<open, cur, alerted, conn, log>>
      /\ typed' = [typed EXCEPT ![c] = @ + 1]
      /\ queue' = [queue EXCEPT ![c] = Append(@, typed[c] + 1)]
  BY DEF Type, server
<1>2. typed[c] \in Nat /\ typed'[c] = typed[c] + 1
      /\ \A d \in Clients \ {c} : typed'[d] = typed[d] /\ queue'[d] = queue[d]
  BY <1>1, PageType DEF TypeOK
<1>3. ASSUME NEW i \in 1..Len(log)
      PROVE  log[i][1] \in Clients /\ log[i][2] \in Nat /\ typed[log[i][1]] \in Nat
             /\ log[i][2] <= typed[log[i][1]]
  <2>1. log[i] \in Clients \X (1..MaxChanges)
    BY ElementOfSeq DEF TypeOK
  <2>2. log[i][1] \in Clients /\ log[i][2] \in 1..MaxChanges
    BY <2>1
  <2>3. PICK d \in Clients : d = log[i][1]
    BY <2>2
  <2>4. typed[d] \in Nat
    BY PageType
  <2>5. log[i][2] <= typed[d]
    BY <2>3 DEF LogIsTyped
  <2>6. log[i][2] \in Nat
    BY <2>2
  <2>7. QED
    BY <2>2, <2>3, <2>4, <2>5, <2>6
<1>4. LogIsTyped'
  BY <1>1, <1>2, <1>3 DEF LogIsTyped
<1>5. ASSUME NEW d \in Clients \ {c}, ~alerted'[d]
      PROVE  Once(d)'
  BY <1>1, <1>2, <1>5, OnceOfOthers
<1>6. ASSUME ~alerted'[c]
      PROVE  Once(c)'
  <2>1. Once(c)
    BY <1>1, <1>6
  <2>2. SentAwaited(c)'
    BY <1>1, <2>1 DEF Once, SentAwaited, SentBy
  <2>3. PICK q \in Seq(1..MaxChanges) : q = queue[c]
    BY PageType
  <2>4. typed[c] + 1 \in Nat /\ queue'[c] = Append(q, typed[c] + 1)
    BY <1>1, <1>2, <2>3 DEF TypeOK
  <2>5. /\ Len(q) \in Nat /\ Len(queue'[c]) = Len(q) + 1
        /\ \A i \in 1..Len(q) : queue'[c][i] = q[i]
        /\ queue'[c][Len(q) + 1] = typed[c] + 1
    BY <2>4
  <2>6. ~Saved(c, typed[c] + 1)
    BY <1>2, <1>3 DEF Saved
  <2>7. \A i \in 1..Len(q) : ~Saved(c, q[i])
    BY <2>1, <2>3 DEF Once, UnsavedQueue
  <2>8. UnsavedQueue(c)'
    <3>1. SUFFICES ASSUME NEW i \in 1..Len(queue'[c])
                   PROVE  ~Saved(c, queue'[c][i])
      BY <1>1 DEF UnsavedQueue, Saved
    <3>2. i \in 1..Len(q) \/ i = Len(q) + 1
      BY <2>5
    <3>3. QED
      BY <2>5, <2>6, <2>7, <3>2
  <2>9. QED
    BY <1>1, <2>1, <2>2, <2>8, OnceStays
<1>7. QED
  BY <1>4, <1>5, <1>6

\* synch(): a page without an alert has nothing else in a socket.
LEMMA OnceTick ==
  ASSUME OInv, NEW c \in Clients, Tick(c)
  PROVE  LogIsTyped' /\ \A d \in Clients : ~alerted'[d] => Once(d)'
<1> USE DEF OInv, IInv
<1>1. PICK k \in Conns :
        /\ conn[k].st = "free"
        /\ conn' = [conn EXCEPT ![k] =
             [st |-> "sent", owner |-> c, batch |-> queue[c], status |-> "none"]]
        /\ cur' = [cur EXCEPT ![c] = k]
  BY DEF Tick
<1>2. /\ UNCHANGED <<open, typed, alerted, log>>
      /\ open[c] /\ intransfer[c] = << >>
      /\ queue' = [queue EXCEPT ![c] = << >>]
  BY DEF Tick
<1>3. /\ queue'[c] = << >> /\ cur'[c] = k
      /\ conn'[k].st = "sent" /\ conn'[k].owner = c /\ conn'[k].batch = queue[c]
      /\ \A d \in Clients \ {c} : queue'[d] = queue[d] /\ cur'[d] = cur[d]
      /\ \A l \in Conns \ {k} : conn'[l] = conn[l]
  BY <1>1, <1>2 DEF TypeOK
<1>4. ASSUME NEW d \in Clients \ {c}, ~alerted'[d]
      PROVE  Once(d)'
  <2>1. \A l \in Conns : SentBy(d, l)' => conn'[l] = conn[l]
    BY <1>3 DEF SentBy
  <2>2. QED
    BY <1>2, <1>3, <1>4, <2>1, OnceOfOthers
<1>5. ASSUME ~alerted'[c]
      PROVE  Once(c)'
  <2>1. Once(c) /\ cur[c] = None
    BY <1>2, <1>5 DEF Waiting
  <2>2. \A l \in Conns : ~SentBy(c, l)
    BY <1>2, <2>1, SynchAssumption DEF Once, SentAwaited
  <2>3. \A l \in Conns : SentBy(c, l)' => l = k
    BY <1>3, <2>2 DEF SentBy
  <2>4. \A n : Saved(c, n)' <=> Saved(c, n)
    BY <1>2 DEF Saved
  <2>5. UnsavedSent(c)'
    BY <1>3, <2>1, <2>3, <2>4 DEF Once, UnsavedQueue, UnsavedSent
  <2>6. OneSent(c)' /\ SentAwaited(c)'
    BY <1>3, <2>3 DEF OneSent, SentAwaited
  <2>7. UnsavedQueue(c)'
    <3>1. Len(queue'[c]) = 0
      BY <1>3, EmptySeq
    <3>2. QED
      BY <3>1 DEF UnsavedQueue
  <2>8. LogOnce(c)'
    BY <1>2, <2>1 DEF Once, LogOnce
  <2>9. QED
    BY <2>5, <2>6, <2>7, <2>8 DEF Once
<1>6. LogIsTyped'
  BY <1>2, LogTypedStays
<1>7. QED
  BY <1>4, <1>5, <1>6

\* onreadystatechange: without an alert it was a 200, and the transfer is not
\* in a socket any more.
LEMMA OnceAnswer ==
  ASSUME OInv, NEW c \in Clients, Answer(c)
  PROVE  LogIsTyped' /\ \A d \in Clients : ~alerted'[d] => Once(d)'
<1> USE DEF OInv, IInv
<1>1. PICK k \in Conns :
        /\ cur[c] = k
        /\ conn[k].st = "answered"
        /\ \/ UNCHANGED <<queue, alerted>>
           \/ Requeue(c)
        /\ cur' = [cur EXCEPT ![c] = None]
        /\ conn' = [conn EXCEPT ![k] = Idle]
        /\ UNCHANGED <<open, typed, log>>
  BY DEF Answer
<1>2. /\ \A l \in Conns \ {k} : conn'[l] = conn[l]
      /\ conn'[k].st = "free"
      /\ \A d \in Clients \ {c} :
           queue'[d] = queue[d] /\ cur'[d] = cur[d] /\ alerted'[d] = alerted[d]
  BY <1>1 DEF TypeOK, Idle, Requeue
<1>3. \A d \in Clients : \A l \in Conns : SentBy(d, l)' => conn'[l] = conn[l]
  BY <1>2 DEF SentBy
<1>4. ASSUME NEW d \in Clients \ {c}, ~alerted'[d]
      PROVE  Once(d)'
  BY <1>1, <1>2, <1>3, <1>4, OnceOfOthers
<1>5. ASSUME ~alerted'[c]
      PROVE  Once(c)'
  <2>1. UNCHANGED <<queue, alerted>>
    BY <1>1, <1>5 DEF Requeue, TypeOK
  <2>2. Once(c)
    BY <1>5, <2>1
  <2>3. open[c]
    BY <1>1, SynchAssumption DEF Waiting
  <2>4. SentAwaited(c)'
    <3>1. ASSUME NEW l \in Conns, SentBy(c, l)'
          PROVE  FALSE
      <4>1. SentBy(c, l) /\ l # k
        BY <1>2, <1>3, <3>1 DEF SentBy
      <4>2. QED
        BY <1>1, <2>2, <2>3, <4>1 DEF Once, SentAwaited
    <3>2. QED
      BY <3>1 DEF SentAwaited
  <2>5. UnsavedQueue(c)'
    BY <1>1, <2>1, <2>2 DEF Once, UnsavedQueue, Saved
  <2>6. QED
    BY <1>1, <1>3, <2>2, <2>4, <2>5, OnceStays
<1>6. LogIsTyped'
  BY <1>1, LogTypedStays
<1>7. QED
  BY <1>4, <1>5, <1>6

\* A timeout alerts; a tab that is closed leaves one transfer at most.
LEMMA OnceAbandon ==
  ASSUME OInv, NEW c \in Clients, GiveUp(c) \/ Close(c)
  PROVE  LogIsTyped' /\ \A d \in Clients : ~alerted'[d] => Once(d)'
<1> USE DEF OInv, IInv
<1>1. /\ UNCHANGED <<typed, log>>
      /\ \A d \in Clients \ {c} : open'[d] = open[d] /\ queue'[d] = queue[d]
                                  /\ cur'[d] = cur[d] /\ alerted'[d] = alerted[d]
      /\ \A k \in Conns : conn'[k].st = "sent" => conn'[k] = conn[k]
  <2>1. CASE GiveUp(c)
    <3>1. PICK k \in Conns : Abandon(c, k)
      BY <2>1 DEF GiveUp
    <3>2. UNCHANGED <<open, typed, log>> /\ Requeue(c)
      BY <2>1 DEF GiveUp
    <3>3. QED
      BY <3>1, <3>2 DEF TypeOK, Abandon, Requeue, Idle
  <2>2. CASE Close(c)
    BY <2>2 DEF Close, Abandon, TypeOK, Idle
  <2>3. QED
    BY <2>1, <2>2
<1>2. \A d \in Clients : \A k \in Conns : SentBy(d, k)' => conn'[k] = conn[k]
  BY <1>1 DEF SentBy
<1>3. ASSUME NEW d \in Clients \ {c}, ~alerted'[d]
      PROVE  Once(d)'
  BY <1>1, <1>2, <1>3, OnceOfOthers
<1>4. ASSUME ~alerted'[c]
      PROVE  Once(c)'
  <2>1. Close(c)
    BY <1>4 DEF GiveUp, Requeue, TypeOK
  <2>2. ~open'[c] /\ queue'[c] = << >> /\ alerted'[c] = alerted[c]
    BY <2>1 DEF Close, TypeOK
  <2>3. SentAwaited(c)'
    BY <2>2 DEF SentAwaited
  <2>4. UnsavedQueue(c)'
    <3>1. Len(queue'[c]) = 0
      BY <2>2, EmptySeq
    <3>2. QED
      BY <3>1 DEF UnsavedQueue
  <2>5. Once(c)
    BY <1>4, <2>2
  <2>6. QED
    BY <1>1, <1>2, <2>3, <2>4, <2>5, OnceStays
<1>5. LogIsTyped'
  BY <1>1, LogTypedStays
<1>6. QED
  BY <1>3, <1>4, <1>5

\* Steps of the server and the network that write nothing.
LEMMA OnceUnwritten ==
  ASSUME OInv, UNCHANGED <<page, log>>,
         \A k \in Conns : conn'[k].st = "sent" => conn'[k] = conn[k]
  PROVE  LogIsTyped' /\ \A d \in Clients : ~alerted'[d] => Once(d)'
<1>1. UNCHANGED <<open, typed, queue, cur, alerted>>
  BY DEF page
<1>2. \A d \in Clients : \A k \in Conns : SentBy(d, k)' => conn'[k] = conn[k]
  BY DEF SentBy
<1>3. QED
  BY <1>1, <1>2, OnceOfOthers, LogTypedStays DEF OInv
\* feed(): a page without an alert had none of the transfer's changes in the
\* file, and has no other transfer in a socket.
LEMMA OnceWrite ==
  ASSUME OInv, NEW k \in Conns, NEW m \in 0..Len(conn[k].batch), Write(k, m)
  PROVE  LogIsTyped' /\ \A d \in Clients : ~alerted'[d] => Once(d)'
<1> USE DEF OInv, IInv
<1>1. PICK o \in Clients, b \in Seq(1..MaxChanges), lb \in Nat, ll \in Nat :
        o = conn[k].owner /\ b = conn[k].batch /\ lb = Len(b) /\ ll = Len(log)
  <2>1. conn[k].owner \in Clients /\ conn[k].batch \in Seq(1..MaxChanges)
    BY ConnType DEF Write, SentIsRun
  <2>2. Len(conn[k].batch) \in Nat /\ Len(log) \in Nat
    BY <2>1, LenProperties DEF TypeOK
  <2>3. QED
    BY <2>1, <2>2
<1>2. /\ m \in 0..lb /\ conn[k].st = "sent" /\ b # << >>
      /\ UNCHANGED <<open, typed, queue, intransfer, cur, alerted>>
      /\ conn'[k].st # "sent"
      /\ \A l \in Conns \ {k} : conn'[l] = conn[l]
  BY <1>1 DEF Write, Reply, SentIsRun, TypeOK, Idle, page
<1>3. /\ Len(log') = ll + m
      /\ \A i \in 1..ll : log'[i] = log[i]
      /\ \A i \in 1..m : log'[ll + i] = <<o, b[i]>>
  <2>1. m \in Nat /\ m <= Len(conn[k].batch)
    BY <1>1, <1>2
  <2>2. QED
    BY <1>1, <2>1, WriteEffect
<1>4. \A i \in 1..m : i \in 1..lb
  BY <1>1, <1>2
<1>5. PICK f \in Nat : f = b[1] /\ \A i \in 1..lb : b[i] = f + i - 1
  <2>1. 1 \in 1..lb
    BY <1>1, <1>2, EmptySeq
  <2>2. b[1] \in 1..MaxChanges
    BY <1>1, <2>1, ElementOfSeq
  <2>3. QED
    BY <1>1, <1>2, <2>2 DEF SentIsRun
<1>6. ASSUME NEW i \in 1..Len(log'), i \notin 1..ll
      PROVE  \E x \in 1..m : i = ll + x /\ x \in 1..lb /\ log'[i] = <<o, b[x]>>
  <2>1. i - ll \in 1..m /\ i = ll + (i - ll)
    BY <1>1, <1>2, <1>3, <1>6
  <2>2. QED
    BY <1>3, <1>4, <2>1
<1>7. LogIsTyped'
  <2>1. \A x \in 1..lb : b[x] <= typed[o]
    <3>1. lb \in 1..lb /\ b[lb] <= typed[o] /\ typed[o] \in Nat
      BY <1>1, <1>2, EmptySeq, PageType DEF SentIsRun
    <3>2. PICK t \in Nat : t = typed[o]
      BY <3>1
    <3>3. b[lb] = f + lb - 1 /\ f + lb - 1 <= t
      BY <1>5, <3>1, <3>2
    <3>4. \A x \in 1..lb : f + x - 1 <= t
      BY <1>1, <3>3
    <3>5. QED
      BY <1>5, <3>2, <3>4
  <2>2. ASSUME NEW i \in 1..Len(log')
        PROVE  log'[i][2] <= typed[log'[i][1]]
    <3>1. CASE i \in 1..ll
      BY <1>1, <1>3, <3>1 DEF LogIsTyped
    <3>2. CASE i \notin 1..ll
      BY <1>6, <2>1, <3>2
    <3>3. QED
      BY <3>1, <3>2
  <2>3. QED
    BY <1>2, <2>2 DEF LogIsTyped
<1>8. ASSUME NEW d \in Clients, NEW n
      PROVE  Saved(d, n)' => Saved(d, n) \/ (d = o /\ \E x \in 1..lb : n = b[x])
  <2>1. SUFFICES ASSUME NEW i \in 1..Len(log'), log'[i] = <<d, n>>
                 PROVE  Saved(d, n) \/ (d = o /\ \E x \in 1..lb : n = b[x])
    BY DEF Saved
  <2>2. CASE i \in 1..ll
    <3>1. log[i] = <<d, n>> /\ i \in 1..Len(log)
      BY <1>1, <1>3, <2>1, <2>2
    <3>2. QED
      BY <3>1 DEF Saved
  <2>3. CASE i \notin 1..ll
    BY <1>6, <2>1, <2>3
  <2>4. QED
    BY <2>2, <2>3
<1>9. ASSUME NEW d \in Clients, d # o, ~alerted'[d]
      PROVE  Once(d)'
  <2>1. Once(d)
    BY <1>2, <1>9
  <2>2. \A n : Saved(d, n)' => Saved(d, n)
    BY <1>8, <1>9
  <2>3. \A l \in Conns : SentBy(d, l)' => SentBy(d, l) /\ conn'[l] = conn[l]
    BY <1>2 DEF SentBy
  <2>4. LogOnce(d)'
    <3>1. ASSUME NEW i \in 1..Len(log'), log'[i][1] = d
          PROVE  i \in 1..ll
      BY <1>6, <1>9, <3>1
    <3>2. QED
      BY <1>1, <1>3, <2>1, <3>1 DEF Once, LogOnce
  <2>5. UnsavedSent(d)'
    BY <2>1, <2>2, <2>3 DEF Once, UnsavedSent
  <2>6. OneSent(d)' /\ SentAwaited(d)'
    BY <1>2, <2>1, <2>3 DEF Once, OneSent, SentAwaited
  <2>7. UnsavedQueue(d)'
    BY <1>2, <2>1, <2>2 DEF Once, UnsavedQueue
  <2>8. QED
    BY <2>4, <2>5, <2>6, <2>7 DEF Once
<1>10. ASSUME ~alerted'[o]
       PROVE  Once(o)'
  <2>1. Once(o)
    BY <1>2, <1>10
  <2>2. SentBy(o, k)
    BY <1>1, <1>2 DEF SentBy
  <2>3. \A x \in 1..lb : ~Saved(o, b[x])
    BY <1>1, <2>1, <2>2 DEF Once, UnsavedSent
  <2>4. \A l \in Conns : ~SentBy(o, l)'
    BY <1>2, <2>1, <2>2 DEF Once, OneSent, SentBy
  <2>5. LogOnce(o)'
    <3>1. SUFFICES ASSUME NEW i \in 1..Len(log'), NEW j \in 1..Len(log'),
                          i # j, log'[i] = log'[j], log'[i][1] = o
                   PROVE  FALSE
      BY DEF LogOnce
    <3>2. ASSUME NEW u \in 1..Len(log'), NEW v \in 1..Len(log'),
                 log'[u] = log'[v], u \in 1..ll, v \notin 1..ll
          PROVE  FALSE
      <4>1. PICK x \in 1..lb : log'[v] = <<o, b[x]>>
        BY <1>6, <3>2
      <4>2. log[u] = <<o, b[x]>>
        BY <1>3, <3>2, <4>1
      <4>3. QED
        BY <1>1, <2>3, <3>2, <4>2 DEF Saved
    <3>3. CASE i \in 1..ll /\ j \in 1..ll
      BY <1>1, <1>3, <2>1, <3>1, <3>3 DEF Once, LogOnce
    <3>4. CASE i \notin 1..ll /\ j \notin 1..ll
      <4>1. PICK x \in 1..lb : i = ll + x /\ log'[i] = <<o, b[x]>>
        BY <1>6, <3>4
      <4>2. PICK y \in 1..lb : j = ll + y /\ log'[j] = <<o, b[y]>>
        BY <1>6, <3>4
      <4>3. b[x] = b[y]
        BY <3>1, <4>1, <4>2
      <4>4. x = y
        BY <1>5, <4>3, SMTT(30)
      <4>5. QED
        BY <3>1, <4>1, <4>2, <4>4
    <3>5. QED
      BY <3>1, <3>2, <3>3, <3>4
  <2>6. UnsavedSent(o)' /\ OneSent(o)' /\ SentAwaited(o)'
    BY <2>4 DEF UnsavedSent, OneSent, SentAwaited
  <2>7. UnsavedQueue(o)'
    <3>1. SUFFICES ASSUME NEW i \in 1..Len(queue[o]), NEW n, n = queue[o][i]
                   PROVE  ~Saved(o, n)'
      BY <1>2 DEF UnsavedQueue, Saved
    <3>2. ~Saved(o, n)
      BY <2>1, <3>1 DEF Once, UnsavedQueue
    <3>3. open[o]
      BY EmptySeq DEF Waiting
    <3>4. cur[o] = k /\ b = intransfer[o]
      BY <1>1, <1>2, <2>1, <2>2, <3>3, SynchAssumption DEF Once, SentAwaited, Carried
    <3>5. PICK g \in Nat : g = Gone(o)
      BY <3>3 DEF MemoryIsTail, TailOf
    <3>6. /\ \A x \in 1..lb : b[x] = g + x
          /\ queue[o][i] = g + lb + i
      BY <1>1, <3>3, <3>4, <3>5, SMTT(30) DEF MemoryIsTail, TailOf
    <3>7. i \in Nat /\ i >= 1
      BY <3>1
    <3>8. \A x \in 1..lb : n # b[x]
      BY <1>1, <3>1, <3>6, <3>7
    <3>9. QED
      BY <1>8, <3>2, <3>8
  <2>8. QED
    BY <2>5, <2>6, <2>7 DEF Once
<1>11. QED
  BY <1>7, <1>9, <1>10

\* Every step keeps it.
LEMMA OnceStep ==
  ASSUME OInv, [Next]_vars
  PROVE  OInv'
<1>1. IInv'
  BY StepInvariant DEF OInv
<1>2. ASSUME NEW c \in Clients, Type(c) \/ Tick(c) \/ Answer(c) \/ GiveUp(c) \/ Close(c)
      PROVE  LogIsTyped' /\ \A d \in Clients : ~alerted'[d] => Once(d)'
  BY <1>2, OnceType, OnceTick, OnceAnswer, OnceAbandon
<1>3. ASSUME NEW k \in Conns, Serve(k) \/ ServeShortWrite(k) \/ LoseRequest(k)
      PROVE  LogIsTyped' /\ \A d \in Clients : ~alerted'[d] => Once(d)'
  <2>1. Len(conn[k].batch) \in Nat
    BY ConnType DEF OInv, IInv
  <2>2. CASE ServeFeed(k)
    BY <2>1, <2>2, OnceWrite DEF ServeFeed
  <2>3. CASE ServeShortWrite(k)
    <3>1. PICK m \in 0..(Len(conn[k].batch) - 1) : Write(k, m)
      BY <2>3 DEF ServeShortWrite
    <3>2. m \in 0..Len(conn[k].batch)
      BY <2>1
    <3>3. QED
      BY <3>1, <3>2, OnceWrite
  <2>4. CASE ServeTooLong(k) \/ ServeNoFile(k) \/ LoseRequest(k)
    <3>1. UNCHANGED <<page, log>> /\ \E s \in Statuses : Reply(k, s)
      BY <2>4 DEF ServeTooLong, ServeNoFile, LoseRequest, Statuses
    <3>2. \A l \in Conns : conn'[l].st = "sent" => conn'[l] = conn[l]
      BY <3>1 DEF Reply, Idle, OInv, IInv, TypeOK
    <3>3. QED
      BY <3>1, <3>2, OnceUnwritten
  <2>5. QED
    BY <1>3, <2>2, <2>3, <2>4 DEF Serve
<1>4. ASSUME Stop
      PROVE  LogIsTyped' /\ \A d \in Clients : ~alerted'[d] => Once(d)'
  <2>1. UNCHANGED <<page, log>>
    BY <1>4 DEF Stop
  <2>2. \A l \in Conns : conn'[l].st = "sent" => conn'[l] = conn[l]
    BY <1>4 DEF Stop, Idle, OInv, IInv, TypeOK
  <2>3. QED
    BY <2>1, <2>2, OnceUnwritten
<1>5. ASSUME UNCHANGED vars
      PROVE  LogIsTyped' /\ \A d \in Clients : ~alerted'[d] => Once(d)'
  <2>1. UNCHANGED <<page, log, conn>>
    BY <1>5 DEF vars, server
  <2>2. QED
    BY <2>1, OnceUnwritten
<1>6. QED
  BY <1>1, <1>2, <1>3, <1>4, <1>5 DEF Next, OInv

LEMMA OnceInit ==
  Init => OInv
<1> SUFFICES ASSUME Init
             PROVE  OInv
  OBVIOUS
<1>1. IInv
  BY InitInvariant
<1>2. Len(log) = 0
  BY EmptySeq DEF Init
<1>3. \A c \in Clients : Len(queue[c]) = 0
  BY EmptySeq DEF Init
<1>4. \A c \in Clients : \A k \in Conns : ~SentBy(c, k)
  BY DEF Init, SentBy, Idle
<1>5. LogIsTyped /\ \A c \in Clients : Once(c)
  BY <1>2, <1>3, <1>4 DEF LogIsTyped, Once, LogOnce, UnsavedSent, OneSent,
                          SentAwaited, UnsavedQueue
<1>6. QED
  BY <1>1, <1>5 DEF OInv

\* The branch file holds a change twice only after its page has shown a
\* transfer error: in whatever order transfers are answered, given up, cut
\* short, lost or served after the page was closed.
THEOREM SavedOnceUnlessAlerted == Spec => []OnceUnlessAlerted
<1>1. Init => OInv
  BY OnceInit
<1>2. OInv /\ [Next]_vars => OInv'
  BY OnceStep
<1>3. OInv => OnceUnlessAlerted
  <2>1. SUFFICES ASSUME OInv, NEW i \in 1..Len(log), NEW j \in 1..Len(log),
                        i # j, log[i] = log[j]
                 PROVE  alerted[log[i][1]]
    BY DEF OnceUnlessAlerted
  <2>2. log[i][1] \in Clients
    BY <2>1, ElementOfSeq DEF OInv, IInv, TypeOK
  <2>3. QED
    BY <2>1, <2>2 DEF OInv, Once, LogOnce
<1>4. QED
  BY <1>1, <1>2, <1>3, PTL DEF Spec

-----------------------------------------------------------------------------
(***************************************************************************)
(* A page whose backlog once is longer than a request stays so.  The       *)
(* invariant: an answer of 200 on its way to a page is for a transfer that *)
(* fits, as those that do not are cut off without one.                     *)
(***************************************************************************)
AnsweredFits ==
  \A c \in Clients : cur[c] # None /\ conn[cur[c]].status = "200" =>
    Len(intransfer[c]) <= Capacity

\* Two pages never use one connection.
LEMMA CurOwn ==
  ASSUME IInv, NEW c \in Clients, NEW d \in Clients, cur[c] # None, cur[c] = cur[d]
  PROVE  c = d
BY DEF IInv, Carried

\* A page whose connection and transfer stay is as it was.
LEMMA FitsStays ==
  ASSUME AnsweredFits, NEW d \in Clients,
         intransfer'[d] = intransfer[d], cur'[d] = cur[d],
         cur[d] # None => conn'[cur[d]] = conn[cur[d]] \/ conn'[cur[d]].status # "200",
         cur'[d] # None, conn'[cur'[d]].status = "200"
  PROVE  Len(intransfer'[d]) <= Capacity
BY DEF AnsweredFits

\* The steps of a page.
LEMMA FitsPage ==
  ASSUME IInv, AnsweredFits, NEW c \in Clients,
         Type(c) \/ Tick(c) \/ Answer(c) \/ GiveUp(c) \/ Close(c)
  PROVE  AnsweredFits'
<1> USE DEF IInv
<1>1. CASE Type(c)
  BY <1>1 DEF Type, server, AnsweredFits
<1>2. CASE Tick(c)
  <2>1. PICK k \in Conns :
          /\ conn[k].st = "free"
          /\ conn' = [conn EXCEPT ![k] =
               [st |-> "sent", owner |-> c, batch |-> queue[c], status |-> "none"]]
          /\ cur' = [cur EXCEPT ![c] = k]
          /\ intransfer' = [intransfer EXCEPT ![c] = queue[c]]
    BY <1>2 DEF Tick
  <2>2. /\ conn'[k].status = "none" /\ cur'[c] = k
        /\ \A l \in Conns \ {k} : conn'[l] = conn[l]
        /\ \A d \in Clients \ {c} : cur'[d] = cur[d] /\ intransfer'[d] = intransfer[d]
    BY <2>1 DEF TypeOK
  <2>3. \A d \in Clients : cur[d] # None => cur[d] \in Conns \ {k}
    BY <2>1 DEF Carried, TypeOK
  <2>4. SUFFICES ASSUME NEW d \in Clients, cur'[d] # None,
                        conn'[cur'[d]].status = "200"
                 PROVE  Len(intransfer'[d]) <= Capacity
    BY DEF AnsweredFits
  <2>5. d # c
    BY <2>2, <2>4
  <2>6. QED
    BY <2>2, <2>3, <2>4, <2>5, FitsStays
<1>3. CASE Answer(c) \/ GiveUp(c) \/ Close(c)
  <2>1. /\ cur'[c] = None
        /\ \A d \in Clients \ {c} : cur'[d] = cur[d] /\ intransfer'[d] = intransfer[d]
        /\ \A l \in Conns : l # cur[c] => conn'[l] = conn[l]
    <3>1. CASE Answer(c)
      BY <3>1 DEF Answer, Requeue, TypeOK
    <3>2. CASE GiveUp(c)
      BY <3>2 DEF GiveUp, Abandon, Requeue, TypeOK
    <3>3. CASE Close(c)
      BY <3>3 DEF Close, Abandon, TypeOK
    <3>4. QED
      BY <1>3, <3>1, <3>2, <3>3
  <2>2. SUFFICES ASSUME NEW d \in Clients, cur'[d] # None,
                        conn'[cur'[d]].status = "200"
                 PROVE  Len(intransfer'[d]) <= Capacity
    BY DEF AnsweredFits
  <2>3. d # c
    BY <2>1, <2>2
  <2>4. cur[d] # None /\ cur[d] \in Conns /\ cur[d] # cur[c]
    BY <2>1, <2>2, <2>3, CurOwn DEF TypeOK
  <2>5. QED
    BY <2>1, <2>2, <2>3, <2>4, FitsStays
<1>4. QED
  BY <1>1, <1>2, <1>3

\* The steps of the server and the network.
LEMMA FitsServer ==
  ASSUME IInv, AnsweredFits, NEW k \in Conns,
         Serve(k) \/ ServeShortWrite(k) \/ LoseRequest(k)
  PROVE  AnsweredFits'
<1> USE DEF IInv
<1>1. UNCHANGED <<cur, intransfer>>
  BY DEF Serve, ServeTooLong, ServeNoFile, ServeFeed, ServeShortWrite, Write,
         LoseRequest, page
<1>2. conn[k].st = "sent" /\ \A l \in Conns \ {k} : conn'[l] = conn[l]
  BY DEF Serve, ServeTooLong, ServeNoFile, ServeFeed, ServeShortWrite, Write,
         LoseRequest, Reply, TypeOK
<1>3. conn'[k].status = "200" => Len(conn[k].batch) <= Capacity
  <2>1. CASE ServeTooLong(k) \/ ServeNoFile(k) \/ LoseRequest(k)
    BY <2>1 DEF ServeTooLong, ServeNoFile, LoseRequest, Reply, Idle, TypeOK
  <2>2. CASE ServeFeed(k) \/ ServeShortWrite(k)
    BY <2>2 DEF ServeFeed, ServeShortWrite, Write
  <2>3. QED
    BY <2>1, <2>2 DEF Serve
<1>4. SUFFICES ASSUME NEW d \in Clients, cur[d] # None, conn'[cur[d]].status = "200"
               PROVE  Len(intransfer[d]) <= Capacity
  BY <1>1 DEF AnsweredFits
<1>5. cur[d] \in Conns
  BY <1>4 DEF TypeOK
<1>6. CASE cur[d] = k
  BY <1>2, <1>3, <1>4, <1>6 DEF Carried
<1>7. CASE cur[d] # k
  BY <1>2, <1>4, <1>5, <1>7 DEF AnsweredFits
<1>8. QED
  BY <1>6, <1>7

\* A stop of the server answers nobody with a 200.
LEMMA FitsStop ==
  ASSUME IInv, AnsweredFits, Stop
  PROVE  AnsweredFits'
<1>1. UNCHANGED <<cur, intransfer>>
  BY DEF Stop, page
<1>2. \A l \in Conns : conn'[l] = conn[l] \/ conn'[l].status # "200"
  BY DEF Stop, Idle
<1>3. SUFFICES ASSUME NEW d \in Clients, cur[d] # None, conn'[cur[d]].status = "200"
               PROVE  Len(intransfer[d]) <= Capacity
  BY <1>1 DEF AnsweredFits
<1>4. cur[d] \in Conns
  BY <1>3 DEF IInv, TypeOK
<1>5. QED
  BY <1>2, <1>3, <1>4 DEF AnsweredFits

\* Two sequences one after the other are at least as long as either.
LEMMA JoinedLonger ==
  ASSUME TypeOK, NEW c \in Clients
  PROVE  /\ Len(intransfer[c] \o queue[c]) >= Len(intransfer[c])
         /\ Len(intransfer[c] \o queue[c]) >= Len(queue[c])
         /\ Len(intransfer[c] \o queue[c]) \in Nat
<1>1. PICK t \in Seq(1..MaxChanges), q \in Seq(1..MaxChanges) :
        t = intransfer[c] /\ q = queue[c]
  BY PageType
<1>2. Len(t \o q) = Len(t) + Len(q) /\ Len(t) \in Nat /\ Len(q) \in Nat
  BY LenProperties, ConcatProperties, Zenon
<1>3. Len(t \o q) >= Len(t) /\ Len(t \o q) >= Len(q) /\ Len(t \o q) \in Nat
  <2>1. PICK z : z = Len(t \o q)
    OBVIOUS
  <2>2. PICK x \in Nat, y \in Nat : x = Len(t) /\ y = Len(q)
    BY <1>2
  <2>3. z = x + y
    BY <1>2, <2>1, <2>2
  <2>4. z >= x /\ z >= y /\ z \in Nat
    BY <2>3
  <2>5. QED
    BY <2>1, <2>2, <2>4
<1>4. QED
  BY <1>1, <1>3

\* One step of a jammed page that stays open leaves it jammed.
LEMMA JamStep ==
  ASSUME IInv, AnsweredFits, NEW c \in Clients, Jammed(c), open'[c], [Next]_vars
  PROVE  Jammed(c)'
<1> USE DEF IInv
<1>1. Capacity \in Nat /\ Len(queue[c]) \in Nat /\ Len(intransfer[c]) \in Nat
  BY SynchAssumption, PageType
<1>2. CASE queue'[c] = queue[c] /\ intransfer'[c] = intransfer[c]
  BY <1>2 DEF Jammed
<1>3. CASE Type(c)
  <2>1. /\ intransfer'[c] = intransfer[c]
        /\ queue'[c] = Append(queue[c], typed[c] + 1)
    BY <1>3 DEF Type, TypeOK
  <2>2. Len(queue'[c]) = Len(queue[c]) + 1
    BY <2>1, PageType
  <2>3. QED
    BY <1>1, <2>1, <2>2 DEF Jammed
<1>4. CASE Tick(c)
  <2>1. intransfer[c] = << >> /\ intransfer'[c] = queue[c]
    BY <1>4 DEF Tick, TypeOK
  <2>2. Len(intransfer[c]) = 0
    BY <2>1, EmptySeq
  <2>3. Len(queue[c]) > Capacity
    BY <1>1, <2>2 DEF Jammed
  <2>4. QED
    BY <2>1, <2>3 DEF Jammed
<1>5. CASE Requeue(c)
  <2>1. queue'[c] = intransfer[c] \o queue[c] /\ intransfer'[c] = << >>
    BY <1>5 DEF Requeue, TypeOK
  <2>2. Len(intransfer[c]) > Capacity \/ Len(queue[c]) > Capacity
    BY DEF Jammed
  <2>3. PICK x \in Nat, y \in Nat, z \in Nat, k \in Nat :
          /\ x = Len(intransfer[c]) /\ y = Len(queue[c])
          /\ z = Len(intransfer[c] \o queue[c]) /\ k = Capacity
    BY <1>1, JoinedLonger
  <2>4. z >= x /\ z >= y
    BY <2>3, JoinedLonger, Zenon
  <2>5. x > k \/ y > k
    BY <2>2, <2>3, Zenon
  <2>6. z > k
    BY <2>4, <2>5
  <2>7. QED
    BY <2>1, <2>3, <2>6 DEF Jammed
<1>6. CASE Answer(c)
  <2>1. CASE Requeue(c)
    BY <1>5, <2>1
  <2>2. CASE ~Requeue(c)
    <3>1. PICK k \in Conns : cur[c] = k /\ conn[k].status = "200"
      BY <1>6, <2>2 DEF Answer
    <3>2. cur[c] # None /\ Len(intransfer[c]) <= Capacity
      BY <3>1, SynchAssumption DEF AnsweredFits
    <3>3. intransfer[c] # << >>
      BY <3>2 DEF Waiting
    <3>4. FALSE
      BY <1>1, <3>2, <3>3 DEF Jammed
    <3>5. QED
      BY <3>4
  <2>3. QED
    BY <2>1, <2>2
<1>7. CASE GiveUp(c)
  BY <1>5, <1>7 DEF GiveUp
<1>8. CASE Close(c)
  BY <1>8 DEF Close, TypeOK
<1>9. ASSUME NEW d \in Clients \ {c},
             Type(d) \/ Tick(d) \/ Answer(d) \/ GiveUp(d) \/ Close(d)
      PROVE  queue'[c] = queue[c] /\ intransfer'[c] = intransfer[c]
  BY <1>9 DEF Type, Tick, Answer, GiveUp, Close, Requeue, TypeOK
<1>10. ASSUME NEW k \in Conns, Serve(k) \/ ServeShortWrite(k) \/ LoseRequest(k)
       PROVE  queue'[c] = queue[c] /\ intransfer'[c] = intransfer[c]
  BY <1>10 DEF Serve, ServeTooLong, ServeNoFile, ServeFeed, ServeShortWrite, Write,
               LoseRequest, page
<1>11. CASE Stop \/ UNCHANGED vars
  BY <1>2, <1>11 DEF Stop, vars, page
<1>12. QED
  BY <1>2, <1>3, <1>4, <1>6, <1>7, <1>8, <1>9, <1>10, <1>11 DEF Next

\* An open page whose unsaved changes once do not fit in a request never gets
\* rid of them: whatever is typed, cut off and sent again.
THEOREM JamStays == Spec => JamIsForever
<1>1. Init => IInv /\ AnsweredFits
  <2>1. Init => AnsweredFits
    BY DEF Init, AnsweredFits
  <2>2. QED
    BY <2>1, InitInvariant
<1>2. IInv /\ AnsweredFits /\ [Next]_vars => IInv' /\ AnsweredFits'
  <2>1. IInv /\ AnsweredFits /\ UNCHANGED vars => AnsweredFits'
    BY DEF vars, page, server, AnsweredFits
  <2>2. QED
    BY <2>1, StepInvariant, FitsPage, FitsServer, FitsStop DEF Next
<1>3. IInv /\ AnsweredFits /\ [Next]_vars =>
        [\A c \in Clients : Jammed(c) /\ open'[c] => Jammed(c)']_vars
  BY JamStep
<1>4. QED
  BY <1>1, <1>2, <1>3, PTL DEF Spec, JamIsForever
=============================================================================
