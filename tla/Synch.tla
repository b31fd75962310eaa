------------------------------- MODULE Synch -------------------------------
(***************************************************************************)
(* The way of a change from the page where it is typed to the branch file. *)
(*                                                                         *)
(* Page (html/js): every oninput event pushes a change on `queue`; a timer *)
(* that runs every second moves the whole queue to `intransfer` and POSTs  *)
(* it with the page's one XMLHttpRequest, unless a transfer is under way.  *)
(* A 200 forgets the transfer; anything else puts it back in front of the  *)
(* queue and alerts.  Server (src): one thread takes the ready connections *)
(* in any order; a feed appends the whole transfer to the branch file with *)
(* one write(), and never closes the file.                                 *)
(*                                                                         *)
(* A change is the number it has on its page: its text is not looked at.   *)
(* All pages write to one file, as transferencode() names branch 1337.     *)
(***************************************************************************)
EXTENDS Integers, Sequences

CONSTANTS
  Clients,      \* the pages
  Conns,        \* TCP connections; bound: at most this many at a time
  None,         \* no page, or no connection
  MaxChanges,   \* bound: changes one page makes
  MaxFaults,    \* bound: faults of the network and stops of the server
  Capacity,     \* changes that fit in the server's 4096-byte request buffer
  MaxFiles,     \* branch files the process can hold open (RLIMIT_NOFILE)
  ShortWrites   \* whether write() on a full disk may store less than asked

ASSUME SynchAssumption ==
  /\ None \notin Clients \cup Conns
  /\ MaxChanges \in Nat
  /\ MaxFaults \in Nat
  /\ Capacity \in Nat \ {0}
  /\ MaxFiles \in Nat
  /\ ShortWrites \in BOOLEAN

VARIABLES
  open,         \* is the page still in a tab
  typed,        \* changes made on the page
  queue,        \* branch.js: queue
  intransfer,   \* branch.js: intransfer
  cur,          \* the connection that carries the page's XMLHttpRequest
  alerted,      \* has the page shown a "Transfer error" alert
  conn,         \* the server's end of every connection
  log,          \* branches/1337: the changes in it, as <<page, number>>
  cut,          \* changes that a short write() left out of the file
  branch,       \* the branch file: "absent", "usable" or "unusable"
  files,        \* branch files the server holds open
  faults        \* faults so far

page == <<open, typed, queue, intransfer, cur, alerted>>
server == <<conn, log, cut, branch, files>>
vars == <<page, server, faults>>

(***************************************************************************)
(* A connection is "free" (none, or idle), it has a transfer in its socket *)
(* that the server has not read ("sent"), or the answer is on its way to   *)
(* the page.  A page that gave up leaves its transfer behind: the bytes    *)
(* stay in the server's socket and may be read later.                      *)
(***************************************************************************)
ConnStates == {"free", "sent", "answered"}
Statuses == {"none", "200", "400", "0"}   \* "0": closed without an answer

Idle == [st |-> "free", owner |-> None, batch |-> << >>, status |-> "none"]

Awaited(k) == \E c \in Clients : cur[c] = k    \* a page waits for the answer

Pending(c) == intransfer[c] \o queue[c]        \* what the page has in memory

Entries(c, batch) == [i \in 1..Len(batch) |-> <<c, batch[i]>>]

Saved(c, n) == \E i \in 1..Len(log) : log[i] = <<c, n>>

Init ==
  /\ open = [c \in Clients |-> TRUE]
  /\ typed = [c \in Clients |-> 0]
  /\ queue = [c \in Clients |-> << >>]
  /\ intransfer = [c \in Clients |-> << >>]
  /\ cur = [c \in Clients |-> None]
  /\ alerted = [c \in Clients |-> FALSE]
  /\ conn = [k \in Conns |-> Idle]
  /\ log = << >>
  /\ cut = {}
  /\ branch = "absent"
  /\ files = 0
  /\ faults = 0

(***************************************************************************)
(* The page.                                                               *)
(***************************************************************************)

\* editorview.js, oninput: the change goes to the end of the queue.
Type(c) ==
  /\ open[c]
  /\ typed[c] < MaxChanges
  /\ typed' = [typed EXCEPT ![c] = @ + 1]
  /\ queue' = [queue EXCEPT ![c] = Append(@, typed[c] + 1)]
  /\ UNCHANGED <<open, intransfer, cur, alerted, server, faults>>

\* Seeded fault: the queue is sent but not emptied.
TickKeepsQueue(c) ==
  /\ open[c] /\ intransfer[c] = << >> /\ queue[c] # << >>
  /\ \E k \in Conns :
       /\ conn[k].st = "free"
       /\ conn' = [conn EXCEPT ![k] =
            [st |-> "sent", owner |-> c, batch |-> queue[c], status |-> "none"]]
       /\ cur' = [cur EXCEPT ![c] = k]
  /\ intransfer' = [intransfer EXCEPT ![c] = queue[c]]
  /\ UNCHANGED <<open, typed, queue, alerted, log, cut, branch, files, faults>>

\* network.js, synch(): the timer finds no transfer under way and something
\* to send.  (In any other state it only sets itself again.)
Tick(c) ==
  /\ open[c]
  /\ intransfer[c] = << >>
  /\ queue[c] # << >>
  /\ \E k \in Conns :
       /\ conn[k].st = "free"
       /\ conn' = [conn EXCEPT ![k] =
            [st |-> "sent", owner |-> c, batch |-> queue[c], status |-> "none"]]
       /\ cur' = [cur EXCEPT ![c] = k]
  /\ intransfer' = [intransfer EXCEPT ![c] = queue[c]]
  /\ queue' = [queue EXCEPT ![c] = << >>]
  /\ UNCHANGED <<open, typed, alerted, log, cut, branch, files, faults>>

\* Seeded faults: the failed transfer is forgotten, or queued up behind.
RequeueDropped(c) ==
  /\ intransfer' = [intransfer EXCEPT ![c] = << >>]
  /\ alerted' = [alerted EXCEPT ![c] = TRUE]
  /\ UNCHANGED queue

RequeueBehind(c) ==
  /\ queue' = [queue EXCEPT ![c] = @ \o intransfer[c]]
  /\ intransfer' = [intransfer EXCEPT ![c] = << >>]
  /\ alerted' = [alerted EXCEPT ![c] = TRUE]

\* The transfer failed: it goes back in front of what was typed meanwhile.
Requeue(c) ==
  /\ queue' = [queue EXCEPT ![c] = intransfer[c] \o @]
  /\ intransfer' = [intransfer EXCEPT ![c] = << >>]
  /\ alerted' = [alerted EXCEPT ![c] = TRUE]

\* onreadystatechange, readyState 4: an answer came or the connection closed.
Answer(c) ==
  \E k \in Conns :
    /\ cur[c] = k
    /\ conn[k].st = "answered"
    /\ \/ /\ conn[k].status = "200"
          /\ intransfer' = [intransfer EXCEPT ![c] = << >>]
          /\ UNCHANGED <<queue, alerted>>
       \/ /\ conn[k].status # "200"
          /\ Requeue(c)
    /\ cur' = [cur EXCEPT ![c] = None]
    /\ conn' = [conn EXCEPT ![k] = Idle]
    /\ UNCHANGED <<open, typed, log, cut, branch, files, faults>>

\* The page stops waiting for connection k: unread bytes stay with the server.
Abandon(c, k) ==
  /\ cur' = [cur EXCEPT ![c] = None]
  /\ conn' = IF conn[k].st = "answered" THEN [conn EXCEPT ![k] = Idle] ELSE conn

Fault == faults < MaxFaults /\ faults' = faults + 1

\* readyState 4 with status 0: the five seconds are over, or the network
\* broke on the page's side.  What was sent may still be served.
GiveUp(c) ==
  /\ Fault
  /\ \E k \in Conns : cur[c] = k /\ Abandon(c, k)
  /\ Requeue(c)
  /\ UNCHANGED <<open, typed, log, cut, branch, files>>

\* The tab is closed: the queue lived in its memory only.
Close(c) ==
  /\ open[c]
  /\ open' = [open EXCEPT ![c] = FALSE]
  /\ queue' = [queue EXCEPT ![c] = << >>]
  /\ intransfer' = [intransfer EXCEPT ![c] = << >>]
  /\ IF cur[c] = None THEN UNCHANGED <<cur, conn>> ELSE Abandon(c, cur[c])
  /\ UNCHANGED <<typed, alerted, log, cut, branch, files, faults>>

(***************************************************************************)
(* The server.  The answer reaches a page that still waits for it.         *)
(***************************************************************************)
Reply(k, s) ==
  conn' = [conn EXCEPT ![k] =
    IF Awaited(k)
    THEN [st |-> "answered", owner |-> conn[k].owner,
          batch |-> << >>, status |-> s]
    ELSE Idle]

\* http_tls_ondata, tls_ondata: the buffer is full and the request is not
\* complete, so the next bytes make SSL_read fail and the connection closes.
ServeTooLong(k) ==
  /\ conn[k].st = "sent"
  /\ Len(conn[k].batch) > Capacity
  /\ Reply(k, "0")
  /\ UNCHANGED <<page, log, cut, branch, files, faults>>

\* feed(): open() fails, the answer is 400.
ServeNoFile(k) ==
  /\ conn[k].st = "sent"
  /\ Len(conn[k].batch) <= Capacity
  /\ files = MaxFiles \/ branch = "unusable"
  /\ Reply(k, "400")
  /\ UNCHANGED <<page, log, cut, branch, files, faults>>

\* Seeded fault: the result of open() is not looked at.
WriteUnchecked(k, m) ==
  LET c == conn[k].owner
      batch == conn[k].batch IN
  /\ conn[k].st = "sent"
  /\ Len(batch) <= Capacity
  /\ files' = files + 1
  /\ branch' = IF branch = "absent" THEN "usable" ELSE branch
  /\ log' = log \o Entries(c, SubSeq(batch, 1, m))
  /\ cut' = cut \cup {<<c, batch[i]>> : i \in (m + 1)..Len(batch)}
  /\ Reply(k, "200")
  /\ UNCHANGED page

\* feed(): the file is opened (and stays open) and write() stores the first
\* m changes; its result is not looked at, the answer is 200.  open() creates
\* the file without a mode argument: its permission bits are left to chance,
\* and may be such that no later open() succeeds.
Write(k, m) ==
  LET c == conn[k].owner
      batch == conn[k].batch IN
  /\ conn[k].st = "sent"
  /\ Len(batch) <= Capacity
  /\ files < MaxFiles
  /\ files' = files + 1
  /\ \/ branch = "absent" /\ branch' \in {"usable", "unusable"}
     \/ branch = "usable" /\ branch' = "usable"
  /\ log' = log \o Entries(c, SubSeq(batch, 1, m))
  /\ cut' = cut \cup {<<c, batch[i]>> : i \in (m + 1)..Len(batch)}
  /\ Reply(k, "200")
  /\ UNCHANGED page

ServeFeed(k) ==
  /\ Write(k, Len(conn[k].batch))
  /\ UNCHANGED faults

ServeShortWrite(k) ==
  /\ ShortWrites
  /\ Fault
  /\ \E m \in 0..(Len(conn[k].batch) - 1) : Write(k, m)

Serve(k) == ServeTooLong(k) \/ ServeNoFile(k) \/ ServeFeed(k)

\* The connection dies before the server reads the transfer.
LoseRequest(k) ==
  /\ conn[k].st = "sent"
  /\ Fault
  /\ Reply(k, "0")
  /\ UNCHANGED <<page, log, cut, branch, files>>

\* stop(): a signal ends the process, and it is started again.  Transfers it
\* has not read are gone, its open files are closed, the branch file stays.
Stop ==
  /\ Fault
  /\ conn' = [k \in Conns |->
       IF conn[k].st # "sent" THEN conn[k]
       ELSE IF Awaited(k)
            THEN [st |-> "answered", owner |-> conn[k].owner,
                  batch |-> << >>, status |-> "0"]
            ELSE Idle]
  /\ files' = 0
  /\ UNCHANGED <<page, log, cut, branch>>

-----------------------------------------------------------------------------
Next ==
  \/ \E c \in Clients : Type(c) \/ Tick(c) \/ Answer(c) \/ GiveUp(c) \/ Close(c)
  \/ \E k \in Conns : Serve(k) \/ ServeShortWrite(k) \/ LoseRequest(k)
  \/ Stop

Spec == Init /\ [][Next]_vars

(***************************************************************************)
(* The one-second timer and the network callbacks of an open page do run,  *)
(* and the level-triggered epoll loop comes back to a connection until its *)
(* bytes are read.  Nothing is assumed of typing, closing or faults.       *)
(***************************************************************************)
Fairness ==
  /\ \A c \in Clients : WF_vars(Tick(c)) /\ WF_vars(Answer(c))
  /\ \A k \in Conns : WF_vars(Serve(k))

FairSpec == Spec /\ Fairness

-----------------------------------------------------------------------------
Transfer ==
  [st: ConnStates, owner: Clients \cup {None},
   batch: Seq(1..MaxChanges), status: Statuses]

TypeOK ==
  /\ open \in [Clients -> BOOLEAN]
  /\ typed \in [Clients -> 0..MaxChanges]
  /\ queue \in [Clients -> Seq(1..MaxChanges)]
  /\ intransfer \in [Clients -> Seq(1..MaxChanges)]
  /\ cur \in [Clients -> Conns \cup {None}]
  /\ alerted \in [Clients -> BOOLEAN]
  /\ conn \in [Conns -> Transfer]
  /\ log \in Seq(Clients \X (1..MaxChanges))
  /\ cut \subseteq Clients \X (1..MaxChanges)
  /\ branch \in {"absent", "usable", "unusable"}
  /\ files \in 0..MaxFiles
  /\ faults \in 0..MaxFaults

\* Nothing typed on an open page is lost: however answers, timeouts and
\* retries interleave, a change is in the branch file, or still in the page's
\* memory, or was left out by a short write() whose result feed() ignores.
NoLoss ==
  \A c \in Clients : open[c] =>
    \A n \in 1..typed[c] :
      \/ Saved(c, n)
      \/ \E i \in 1..Len(Pending(c)) : Pending(c)[i] = n
      \/ <<c, n>> \in cut

\* A change never reaches the branch file before its predecessor on the same
\* page, not even when an abandoned transfer is served after its retry.
OrderKept ==
  \A j \in 1..Len(log) :
    LET c == log[j][1]
        n == log[j][2] IN
    n > 1 => \/ \E i \in 1..(j - 1) : log[i] = <<c, n - 1>>
             \/ <<c, n - 1>> \in cut

\* The file holds a change twice only after the page has shown an alert.
OnceUnlessAlerted ==
  \A i, j \in 1..Len(log) :
    i # j /\ log[i] = log[j] => alerted[log[i][1]]

\* More unsaved changes than fit in one request: synch() always sends all.
Jammed(c) ==
  /\ open[c]
  /\ \/ Len(intransfer[c]) > Capacity
     \/ intransfer[c] = << >> /\ Len(queue[c]) > Capacity

\* A page whose backlog once outgrew the server's request buffer never gets
\* rid of it: each retry is at least as long as the one that was cut off.
JamIsForever ==
  [][\A c \in Clients : Jammed(c) /\ open'[c] => Jammed(c)']_vars

\* Every change is eventually saved, except on a page that was closed or is
\* jammed, or when the server ran out of the files that feed() never closes
\* or created the branch file with permission bits that keep it out.
EventuallySaved ==
  \A c \in Clients : \A n \in 1..MaxChanges :
    (typed[c] >= n) ~>
      (Saved(c, n) \/ ~open[c] \/ Jammed(c)
        \/ files = MaxFiles \/ branch = "unusable")

\* With no short write the file grows as the abstract delivery promises: each
\* write() is a run of changes, and every other step of pages, connections and
\* faults changes nothing that the promise is about.
Promise == INSTANCE Delivery WITH typed <- typed, log <- log
Delivers == Promise!Spec

\* network.js:72 says a transfer is refused while "the resource is being
\* worked on from another device": two pages then never alternate in it.
OneDeviceAtATime ==
  ~ \E i, j, k \in 1..Len(log) :
      /\ i < j /\ j < k
      /\ log[i][1] = log[k][1] /\ log[j][1] # log[i][1]
      /\ log[k][2] > log[i][2]
=============================================================================
