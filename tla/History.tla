------------------------------ MODULE History ------------------------------
(***************************************************************************)
(* Changes and histories of changes (html/js/history.js, and the part of   *)
(* oninput in editorview.js that finds out what was changed).  A text is a *)
(* sequence of characters, a change says that at `pos` the text `last` was *)
(* replaced by `now`, and a history is a sequence of changes.              *)
(***************************************************************************)
EXTENDS Integers, Sequences, FiniteSetsExt

Least(a, b) == IF a < b THEN a ELSE b

\* String.substr(0, n) and String.substr(n): neither fails past the end.
Left(text, n) == SubSeq(text, 1, Least(n, Len(text)))
From(text, n) == SubSeq(text, n + 1, Len(text))

\* Array.slice(0, n): a negative n counts from the end.
Slice(s, n) ==
  SubSeq(s, 1, IF n < 0 THEN Len(s) + n ELSE Least(n, Len(s)))

\* What history.forward and history.back do to `render`.
Redo(text, change) ==
  Left(text, change.pos) \o change.now
    \o From(text, change.pos + Len(change.last))

Undo(text, change) ==
  Left(text, change.pos) \o change.last
    \o From(text, change.pos + Len(change.now))

\* How far two texts agree from the front, and, past the first i characters
\* of the shorter one, from the back.
Prefix(last, text) ==
  Max({i \in 0..Least(Len(last), Len(text)) :
         \A k \in 1..i : last[k] = text[k]})

Suffix(last, text, i) ==
  Max({j \in 0..(Least(Len(last), Len(text)) - i) :
         \A k \in 0..(j - 1) : last[Len(last) - k] = text[Len(text) - k]})

Change(last, text, i, j) ==
  [pos |-> i,
   last |-> SubSeq(last, i + 1, Len(last) - j),
   now |-> SubSeq(text, i + 1, Len(text) - j)]

\* Seeded fault: the suffix may run over the prefix.
DiffOverlap(last, text) ==
  Change(last, text, Prefix(last, text), Suffix(last, text, 0))

\* The change that oninput records: what the prefix and the suffix leave.
Diff(last, text) ==
  LET i == Prefix(last, text) IN
  Change(last, text, i, Suffix(last, text, i))

\* The text after the first n changes of a history.
Replay(steps, n) ==
  LET text[k \in 0..n] ==
        IF k = 0 THEN << >>
        ELSE LET before == text[k - 1] IN Redo(before, steps[k]) IN
  text[n]

\* history.go: forward or back from one position to another, step by step.
Go(steps, render, from, to) ==
  LET forward[k \in from..to] ==
        IF k = from THEN render ELSE Redo(forward[k - 1], steps[k])
      back[k \in to..from] ==
        IF k = from THEN render ELSE Undo(back[k + 1], steps[k + 1]) IN
  IF from <= to THEN forward[to] ELSE back[to]
=============================================================================
