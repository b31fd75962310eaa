------------------------------ MODULE Editor -------------------------------
(***************************************************************************)
(* Branches of a document and the page that edits them (branch.js,         *)
(* editorview.js, and the clicks of graphview.js and accountview.js that   *)
(* lead to the editor).                                                    *)
(*                                                                         *)
(* A branch holds the changes typed in it, and where it leaves its parent: *)
(* its history is the first `pos` changes of the parent's history followed *)
(* by its own.  It also caches the text they lead to.  The slider moves    *)
(* the page back and forth in the history; typing at an earlier position   *)
(* makes a branch first.                                                   *)
(*                                                                         *)
(* Branches are numbered in the order of their creation.  A random id is   *)
(* taken to be new, and is that number.  Only entereditorview() without a  *)
(* branch uses an id twice: it makes a new branch with id 1 every time.    *)
(***************************************************************************)
EXTENDS History

CONSTANTS
  Chars,        \* characters
  MaxText,      \* bound: length of a text
  MaxBranches,  \* bound: branches made
  MaxChanges    \* bound: changes typed, in all branches together

ASSUME EditorAssumption ==
  /\ MaxText \in Nat
  /\ MaxBranches \in Nat \ {0}
  /\ MaxChanges \in Nat

VARIABLES
  heap,      \* every branch made: id, parent, pos, data and cached render
  view,      \* "account", "graph" or "editor"
  current,   \* view.branch, as its number in heap; 0 outside the editor
  steps,     \* view.history.steps
  position,  \* view.history.position
  render,    \* view.history.render
  last,      \* view.editor.last, which is always view.editor.value too
  typed      \* changes typed so far

editor == <<current, steps, position, render, last>>
vars == <<heap, view, editor, typed>>

Texts == UNION {[1..n -> Chars] : n \in 0..MaxText}

\* The global `branches`: for an id, the branch made last with it.
Branch(h, id) == Max({b \in 1..Len(h) : h[b].id = id})

Parent(h, b) == Branch(h, h[b].parent)

\* Seeded fault: the parent's own past is not counted in `pos`.
PrecedingUncounted(h, b) ==
  LET past[a \in 1..Len(h)] ==
        IF h[a].parent = 0 THEN << >>
        ELSE past[Parent(h, a)] \o Slice(h[Parent(h, a)].data, h[a].pos) IN
  past[b]

\* getprecedinghistory: the parent's past, and as many of its own changes as
\* are missing to make `pos`.
Preceding(h, b) ==
  LET past[a \in 1..Len(h)] ==
        IF h[a].parent = 0 THEN << >>
        ELSE LET before == past[Parent(h, a)] IN
             before \o Slice(h[Parent(h, a)].data, h[a].pos - Len(before)) IN
  past[b]

\* gethistory
HistoryOf(h, b) == Preceding(h, b) \o h[b].data

NewBranch(id, parent, pos) ==
  [id |-> id, parent |-> parent, pos |-> pos, data |-> << >>, render |-> << >>]

Init ==
  /\ heap = << >>
  /\ view = "account"
  /\ current = 0
  /\ steps = << >>
  /\ position = 0
  /\ render = << >>
  /\ last = << >>
  /\ typed = 0

(***************************************************************************)
(* Views.                                                                  *)
(***************************************************************************)

\* entereditorview(b): the page shows the text the branch has cached.
Enter(h, b) ==
  /\ heap' = h
  /\ view' = "editor"
  /\ current' = b
  /\ steps' = HistoryOf(h, b)
  /\ position' = Len(HistoryOf(h, b))
  /\ render' = h[b].render
  /\ last' = h[b].render
  /\ UNCHANGED typed

\* Logging in or registering: the editor opens on a new branch with id 1.
Login ==
  /\ view = "account"
  /\ Len(heap) < MaxBranches
  /\ Enter(Append(heap, NewBranch(1, 0, 0)), Len(heap) + 1)

\* Leaving the editor drops its view, and with it the history.
Leave ==
  /\ view = "editor"
  /\ view' \in {"account", "graph"}
  /\ current' = 0
  /\ steps' = << >>
  /\ position' = 0
  /\ render' = << >>
  /\ last' = << >>
  /\ UNCHANGED <<heap, typed>>

\* The user view lists the document: a click shows its graph.
OpenGraph ==
  /\ view = "account"
  /\ heap # << >>
  /\ view' = "graph"
  /\ UNCHANGED <<heap, editor, typed>>

\* A click on a vertex.  Vertices are kept by id: the last branch wins.
ClickVertex(b) ==
  /\ view = "graph"
  /\ b = Branch(heap, heap[b].id)
  /\ Enter(heap, b)

(***************************************************************************)
(* The editor.                                                             *)
(***************************************************************************)

\* branchout(): a new branch at the current position, with no text cached.
Branched(h) ==
  Append(h, NewBranch(Len(h) + 1, h[current].id, position))

\* The branch button.  The text in the textarea is not touched.
BranchButton ==
  /\ view = "editor"
  /\ Len(heap) < MaxBranches
  /\ LET h == Branched(heap) IN
       /\ heap' = h
       /\ current' = Len(h)
       /\ steps' = HistoryOf(h, Len(h))
       /\ position' = Len(HistoryOf(h, Len(h)))
  /\ render' = << >>
  /\ UNCHANGED <<view, last, typed>>

\* Seeded fault: the change goes into the page's history only.
RecordUnsaved(h, b, past, text) ==
  LET change == Diff(last, text) IN
  /\ heap' = [h EXCEPT ![b].render = text]
  /\ current' = b
  /\ steps' = Append(past, change)
  /\ position' = Len(past) + 1
  /\ render' = text
  /\ last' = text

\* oninput: the change is recorded in branch h[b] and in the page's history.
Record(h, b, past, text) ==
  LET change == Diff(last, text) IN
  /\ heap' = [h EXCEPT ![b].data = Append(@, change), ![b].render = text]
  /\ current' = b
  /\ steps' = Append(past, change)
  /\ position' = Len(past) + 1
  /\ render' = text
  /\ last' = text

\* Seeded fault: typing in the past does not make a branch.
InputInPlace(text) ==
  /\ view = "editor"
  /\ typed < MaxChanges
  /\ Record(heap, current, steps, text)
  /\ typed' = typed + 1
  /\ UNCHANGED view

\* oninput: typing anywhere but at the end of the history branches out first.
Input(text) ==
  /\ view = "editor"
  /\ typed < MaxChanges
  /\ \/ /\ position = Len(steps)
        /\ Record(heap, current, steps, text)
     \/ /\ position # Len(steps)
        /\ Len(heap) < MaxBranches
        /\ LET h == Branched(heap) IN
             Record(h, Len(h), HistoryOf(h, Len(h)), text)
  /\ typed' = typed + 1
  /\ UNCHANGED view

\* Seeded fault: the slider reaches past the last change.
SlidePast(p) ==
  /\ view = "editor"
  /\ position' = p + 1
  /\ UNCHANGED <<heap, view, current, steps, render, last, typed>>

\* The slider: go to change p and show the text there.
Slide(p) ==
  /\ view = "editor"
  /\ position' = p
  /\ render' = Go(steps, render, position, p)
  /\ last' = render'
  /\ UNCHANGED <<heap, view, current, steps, typed>>

Next ==
  \/ Login
  \/ Leave
  \/ OpenGraph
  \/ \E b \in 1..Len(heap) : ClickVertex(b)
  \/ BranchButton
  \/ \E text \in Texts : Input(text)
  \/ \E p \in 0..Len(steps) : Slide(p)

Spec == Init /\ [][Next]_vars

-----------------------------------------------------------------------------
IsText(t) == t \in Seq(Chars)

Changes == [pos : Nat, last : Seq(Chars), now : Seq(Chars)]

Branches ==
  [id : 1..MaxBranches, parent : 0..MaxBranches, pos : Nat,
   data : Seq(Changes), render : Seq(Chars)]

TypeOK ==
  /\ heap \in Seq(Branches) /\ Len(heap) <= MaxBranches
  /\ view \in {"account", "graph", "editor"}
  /\ current \in 0..Len(heap) /\ (current = 0 <=> view # "editor")
  /\ steps \in Seq(Changes)
  /\ position \in 0..Len(steps)
  /\ IsText(render) /\ IsText(last)
  /\ typed \in 0..MaxChanges

\* The page keeps a copy of its branch's history: whatever was typed, forked
\* or opened since, the copy and the branches tell the same history.
HistoryInView ==
  view = "editor" => steps = HistoryOf(heap, current)

\* Every change of a history can be taken back.
Reversible(history) ==
  \A k \in 1..Len(history) :
    Undo(Replay(history, k), history[k]) = Replay(history, k - 1)

\* The page shows the text its history leads to, and the way back.
Shows(history, p, text) == Reversible(history) /\ text = Replay(history, p)

Faithful == view = "editor" => Shows(steps, position, last)

\* The text cached in branch b is what its history leads to.
Sound(h, b) ==
  LET history == HistoryOf(h, b) IN
  Shows(history, Len(history), h[b].render)

\* The page is before the point where its own branch leaves its parent.
BeforeFork == position < Len(Preceding(heap, current))

\* However the user types, slides, forks and moves between views, the page
\* shows what its history leads to, with three exceptions: a fork before the
\* branch's own fork; a move of the slider just after the branch button,
\* which has emptied `render`; and entering a branch that is not sound.
FaithfulStays ==
  [][Faithful =>
       \/ view' = "editor" => Shows(steps', position', last')
       \/ view = "editor" /\ current' # current /\ BeforeFork
       \/ view = "editor" /\ heap' = heap /\ render # last
       \/ view # "editor" /\ ~Sound(heap', current')]_vars

\* Branch b and its ancestors have all of the past they were forked from.
Whole(h, b) ==
  LET whole[a \in 1..Len(h)] ==
        h[a].parent # 0 =>
          /\ Len(Preceding(h, a)) = h[a].pos
          /\ whole[Parent(h, a)] IN
  whole[b]

\* The past of a branch is fixed: nothing typed elsewhere, in its parent
\* neither, changes what it was forked from, unless that was not whole: a fork
\* before the parent's own fork, or a parent replaced by a login.
PastIsFixed ==
  [][heap' # heap => \A b \in 1..Len(heap) :
       view # "account" /\ Whole(heap, b) =>
         Preceding(heap', b) = Preceding(heap, b)]_vars

\* A sound branch stays sound while others are typed in, forked and opened;
\* only typing in it on a page that is not faithful may spoil it.
SoundStays ==
  [][heap' # heap => \A b \in 1..Len(heap) :
       view # "account" /\ Whole(heap, b) /\ Sound(heap, b) =>
         Sound(heap', b) \/ (b = current /\ ~Faithful)]_vars
=============================================================================
