-------------------------------- MODULE Site --------------------------------
(***************************************************************************)
(* A page with its editor and its transfers, and the server: Editor and    *)
(* Synch, joined where the code joins them.  oninput pushes one change on  *)
(* the branch, on the history in view and on the queue; the timer and the  *)
(* answers go on in every view; nothing else is shared.                    *)
(*                                                                         *)
(* Synch numbers changes: here `made` says what they are, and so what the  *)
(* branch file says.                                                       *)
(***************************************************************************)
EXTENDS History

CONSTANTS
  Page, Chars, MaxText, MaxBranches, MaxChanges,        \* see Editor
  Conns, None, MaxFaults, Capacity, MaxFiles, ShortWrites    \* see Synch

ASSUME SiteAssumption ==
  /\ MaxText \in Nat
  /\ MaxBranches \in Nat \ {0}
  /\ MaxChanges \in Nat
  /\ None \notin {Page} \cup Conns
  /\ MaxFaults \in Nat
  /\ Capacity \in Nat \ {0}
  /\ MaxFiles \in Nat
  /\ ShortWrites \in BOOLEAN

VARIABLES
  heap, view, current, steps, position, render, last,   \* see Editor
  open, typed, queue, intransfer, cur, alerted,         \* see Synch
  conn, log, cut, branch, files, faults,
  made      \* the changes typed, by number

editor == <<heap, view, current, steps, position, render, last>>
transfer == <<open, typed, queue, intransfer, cur, alerted,
              conn, log, cut, branch, files, faults>>
vars == <<editor, transfer, made>>

E == INSTANCE Editor WITH typed <- typed[Page]
S == INSTANCE Synch WITH Clients <- {Page}

Init ==
  /\ S!Init
  /\ E!Init
  /\ made = << >>

\* Seeded fault: what is typed in the past goes on the branch it makes, and
\* not on the queue.
InputForgets(text) ==
  /\ open[Page]
  /\ IF position = Len(steps)
     THEN S!Type(Page) /\ E!Input(text)
     ELSE /\ UNCHANGED transfer
          /\ MaxBranches > Len(heap)
          /\ LET h == E!Branched(heap) IN
               E!Record(h, Len(h), E!HistoryOf(h, Len(h)), text)
          /\ UNCHANGED view
  /\ made' = Append(made, Diff(last, text))

\* oninput
Input(text) ==
  /\ open[Page]
  /\ S!Type(Page)
  /\ E!Input(text)
  /\ made' = Append(made, Diff(last, text))

\* The rest of the editor: nothing is transferred.
Edit ==
  /\ open[Page]
  /\ UNCHANGED <<transfer, made>>
  /\ \/ E!Login
     \/ E!Leave
     \/ E!OpenGraph
     \/ \E b \in 1..Len(heap) : E!ClickVertex(b)
     \/ E!BranchButton
     \/ \E p \in 0..Len(steps) : E!Slide(p)

\* The timer, the answers and the server, whatever the page shows.
Carry ==
  /\ \/ S!Tick(Page)
     \/ S!Answer(Page)
     \/ S!GiveUp(Page)
     \/ S!Close(Page)
     \/ \E k \in Conns : S!Serve(k) \/ S!ServeShortWrite(k) \/ S!LoseRequest(k)
     \/ S!Stop
  /\ UNCHANGED <<editor, made>>

Next ==
  \/ \E text \in E!Texts : Input(text)
  \/ Edit
  \/ Carry

Spec == Init /\ [][Next]_vars

-----------------------------------------------------------------------------
\* What of a list of changes is not in the branch file.
Unsaved(pending) ==
  LET left[i \in 0..Len(pending)] ==
        IF i = 0 THEN << >>
        ELSE IF S!Saved(Page, pending[i]) THEN left[i - 1]
        ELSE Append(left[i - 1], pending[i]) IN
  left[Len(pending)]

\* The numbers of the changes in the file, and then of those that are to come.
Numbers ==
  [i \in 1..Len(log) |-> log[i][2]] \o Unsaved(S!Pending(Page))

\* What the branch file says, and then what is not in it yet.
Told == [i \in 1..Len(Numbers) |-> made[Numbers[i]]]

\* As long as a page has one branch, no write() was cut short and no transfer
\* that had arrived was sent again, the file on the server and what is on its
\* way to it tell the text that the page shows at the end of its history,
\* however much was typed, slid, sent and sent again in the meantime.
FileTellsText ==
  /\ open[Page] /\ view = "editor" /\ Len(heap) = 1 /\ cut = {}
  /\ \A i, j \in 1..Len(log) : i # j => log[i] # log[j]
  => /\ Told = steps
     /\ position = Len(steps) => Replay(Told, Len(Told)) = last

\* s is what is left of t when some of its elements are left out.
Within(s, t) ==
  LET matched[i \in 0..Len(t)] ==
        IF i = 0 THEN 0
        ELSE LET m == matched[i - 1] IN
             IF m < Len(s) /\ t[i] = s[m + 1] THEN m + 1 ELSE m IN
  matched[Len(t)] = Len(s)

\* Whatever fails and is sent again, the changes of every branch are in the
\* file, or on their way to it, in the order in which they were typed.  (Those
\* of other branches stand between them: the file does not tell them apart.)
BranchesTold ==
  open[Page] /\ cut = {} =>
    \A b \in 1..Len(heap) : Within(heap[b].data, Told)
=============================================================================
