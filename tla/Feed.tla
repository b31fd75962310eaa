-------------------------------- MODULE Feed --------------------------------
(***************************************************************************)
(* The transfer of changes as bytes: what transferencode() of network.js   *)
(* makes of a list of changes, and how http_callback_feed of server.c      *)
(* reads it, one opcode at a time, and appends changes to branch files.    *)
(*                                                                         *)
(* A byte is a digit of base Base, an integer is Width of them, the first  *)
(* one most significant; the code has 256 and 4.  Lengths are turned into  *)
(* the machine's order (the last byte most significant) where they are, in *)
(* the request, before it is written to a file.                            *)
(***************************************************************************)
EXTENDS Bytes

CONSTANTS
  Base,       \* values of a byte (256)
  Width,      \* bytes of an integer (4)
  OpBranch,   \* 'b'
  OpInsert,   \* 'i'
  Texts,      \* bodies of requests that no page has made
  Lists,      \* what pages send: records [id, changes]
  None,       \* no list
  Disks,      \* branch files that earlier transfers may have left
  MaxFeeds    \* bound: transfers

Byte == 0..(Base - 1)
Word == Power(Base, Width)
Header == 1 + 3 * Width     \* opcode, pos, lastlen, newlen

\* The length of a header is a byte, as 13 is; a size_t tells more numbers
\* apart than an integer has bytes.
ASSUME FeedAssumption ==
  /\ Base \in Nat /\ Width \in Nat \ {0} /\ Header < Base /\ Width < Int64
  /\ OpBranch \in Byte /\ OpInsert \in Byte /\ OpBranch # OpInsert
  /\ Texts \subseteq Seq(Byte)
  /\ Lists \subseteq
       [id : 0..(Word - 1),
        changes : Seq([pos : 0..(Word - 1), last : Seq(Byte), now : Seq(Byte)])]
  /\ None \notin Lists
  /\ \A d \in Disks : \E ids \in SUBSET (0..(Word - 1)) : d \in [ids -> Seq(Byte)]
  /\ MaxFeeds \in Nat

VARIABLES
  buf,      \* the body of the request, as the handler changes it
  p,        \* what is still to be read of it
  commit,   \* changes read and not yet written
  file,     \* the branch that is open, or -1
  disk,     \* branch files: their bytes
  result,   \* "idle", "running", or the status of the answer
  list,     \* the list of changes that was sent, if a page sent it
  text,     \* the body as it was sent
  before,   \* the files when it was received
  branches, \* branch opcodes met
  refusal,  \* has open() failed
  wrapped,  \* has the length of a change wrapped
  stale,    \* has a branch id been read past the end of the request
  feeds     \* transfers so far

handler == <<buf, p, commit, file, disk, result, branches, refusal, wrapped, stale>>
request == <<list, text, before, feeds>>
vars == <<handler, request>>

Value(word) ==
  LET v[i \in 0..Len(word)] == IF i = 0 THEN 0 ELSE v[i - 1] * Base + word[i] IN
  v[Len(word)]

Reversed(word) == [i \in 1..Len(word) |-> word[Len(word) + 1 - i]]

\* encode_int32
Encoded(n) == [i \in 1..Width |-> (n \div Power(Base, Width - i)) % Base]

\* The length of a text, in the order of the network or of the machine.
Size(str, local) ==
  IF local THEN Reversed(Encoded(Len(str))) ELSE Encoded(Len(str))

\* One change, as transferencode makes it or as it is stored.
ChangeBytes(change, local) ==
  <<OpInsert>> \o Encoded(change.pos) \o Size(change.last, local)
    \o Size(change.now, local) \o change.last \o change.now

\* All changes of a list.
Flat(changes, local) ==
  LET bytes[i \in 0..Len(changes)] ==
        IF i = 0 THEN << >> ELSE bytes[i - 1] \o ChangeBytes(changes[i], local) IN
  bytes[Len(changes)]

\* transferencode
TransferEncode(l) == <<OpBranch>> \o Encoded(l.id) \o Flat(l.changes, FALSE)

\* A request is read into a buffer of 4096 bytes: the length of a transfer that
\* arrives fits in an integer.
ASSUME TransferAssumption ==
  \A l \in Lists : Len(TransferEncode(l)) < Word

Init ==
  /\ buf = << >> /\ p = Void /\ commit = Void /\ file = -1
  /\ disk \in Disks
  /\ result = "idle"
  /\ list = None /\ text = << >> /\ before = disk
  /\ branches = 0 /\ refusal = FALSE /\ wrapped = FALSE /\ stale = FALSE
  /\ feeds = 0

\* A request has come in, and the handler starts.
Receive(body, l) ==
  /\ feeds' = feeds + 1
  /\ list' = l /\ text' = body /\ before' = disk
  /\ buf' = body /\ p' = All(body) /\ commit' = All(<< >>) /\ file' = -1
  /\ result' = "running"
  /\ branches' = 0 /\ refusal' = FALSE /\ wrapped' = FALSE /\ stale' = FALSE
  /\ UNCHANGED disk

Opcode(op) == result = "running" /\ p.len > 0 /\ buf[p.at] = op

Refuse ==
  /\ result' = "400"
  /\ UNCHANGED <<buf, p, commit, request>>

\* write(): without an open file it fails, and nobody looks.
Written ==
  IF file = -1 THEN disk
  ELSE [disk EXCEPT ![file] = @ \o Chars(buf, commit)]

\* The ids that may stand at an address: past the end of the request the
\* buffer holds whatever was there before.
IdsAt(a) ==
  LET inside == SubSeq(buf, a, Smaller(a + Width - 1, Len(buf))) IN
  {Value(inside \o left) : left \in [1..(Width - Len(inside)) -> Byte]}

\* Seeded fault: the file is not created.
BranchOpUncreated ==
  /\ Opcode(OpBranch)
  /\ branches' = branches + 1
  /\ Slice(p, 1, 1 + Width).len = Width
  /\ \E id \in IdsAt(p.at + 1) : file' = id
  /\ disk' = Written
  /\ p' = Slice(p, 1 + Width, 0)
  /\ commit' = [at |-> p'.at, len |-> 0]
  /\ UNCHANGED <<buf, result, refusal, wrapped, stale, request>>

\* Seeded fault: what was written stays in the changes to write.
BranchOpKeepsCommit ==
  /\ Opcode(OpBranch)
  /\ branches' = branches + 1
  /\ Slice(p, 1, 1 + Width).len = Width
  /\ \E id \in IdsAt(p.at + 1) :
       /\ file' = id
       /\ disk' = [f \in DOMAIN disk \cup {id} |->
                     IF f \in DOMAIN disk THEN Written[f] ELSE << >>]
  /\ p' = Slice(p, 1 + Width, 0)
  /\ UNCHANGED <<buf, commit, result, refusal, wrapped, stale, request>>

\* A branch opcode.  What was read for the branch before it is written first.
BranchOp ==
  LET bid == Slice(p, 1, 1 + Width)
      rest == Slice(p, 1 + Width, 0) IN
  /\ Opcode(OpBranch)
  /\ branches' = branches + 1
  /\ UNCHANGED wrapped
  /\ \/ /\ bid.len # Width
        /\ disk' = Written
        /\ Refuse
        /\ UNCHANGED <<file, refusal, stale>>
     \/ /\ bid.len = Width
        /\ stale' = (stale \/ p.len < 1 + Width)
        /\ \/ /\ disk' = Written
              /\ file' = -1 /\ refusal' = TRUE
              /\ Refuse
           \/ \E id \in IdsAt(bid.at) :
                /\ disk' = [f \in DOMAIN disk \cup {id} |->
                              IF f \in DOMAIN disk THEN Written[f] ELSE << >>]
                /\ file' = id
                /\ p' = rest
                /\ commit' = [at |-> rest.at, len |-> 0]
                /\ UNCHANGED <<buf, result, refusal, request>>

\* Where the lengths of the change at p are in the request.
LastLen == p.at + 1 + Width
NewLen == p.at + 1 + 2 * Width

\* The integer at an address, by ntohl().
At(a) == Value(SubSeq(buf, a, a + Width - 1))

\* Seeded fault: the length of the new text is forgotten.
ChangeLenOld ==
  (Header + At(LastLen)) % Word

\* 13 + lastlen + newlen, in 32 bits.
ChangeLen ==
  (Header + At(LastLen) + At(NewLen)) % Word

\* Seeded fault: the lengths are converted in variables, not in the request.
ConvertAside ==
  /\ UNCHANGED buf
  /\ wrapped' = (wrapped \/ Header + At(LastLen) + At(NewLen) >= Word)

\* ntohl() turns both lengths round in place.
Convert ==
  /\ buf' = [a \in DOMAIN buf |->
               IF a \in LastLen..(NewLen - 1) THEN buf[LastLen + NewLen - 1 - a]
               ELSE IF a \in NewLen..(NewLen + Width - 1)
               THEN buf[2 * NewLen + Width - 1 - a]
               ELSE buf[a]]
  /\ wrapped' = (wrapped \/ Header + At(LastLen) + At(NewLen) >= Word)

\* An insert opcode that cannot be read.
BadInsert ==
  /\ Opcode(OpInsert)
  /\ file = -1 \/ p.len < Header
  /\ Refuse
  /\ UNCHANGED <<file, disk, branches, refusal, wrapped, stale>>

\* Its lengths are converted before they are compared with what there is.
InsertOp ==
  /\ Opcode(OpInsert)
  /\ file # -1 /\ p.len >= Header
  /\ Convert
  /\ \/ /\ p.len < ChangeLen
        /\ result' = "400"
        /\ UNCHANGED <<p, commit>>
     \/ /\ p.len >= ChangeLen
        /\ commit' = [commit EXCEPT !.len = @ + ChangeLen]
        /\ p' = Slice(p, ChangeLen, 0)
        /\ UNCHANGED result
  /\ UNCHANGED <<file, disk, branches, refusal, stale, request>>

\* Seeded fault: what was read so far is written first.
UnknownOpWrites ==
  /\ result = "running" /\ p.len > 0
  /\ buf[p.at] \notin {OpBranch, OpInsert}
  /\ disk' = Written
  /\ Refuse
  /\ UNCHANGED <<file, branches, refusal, wrapped, stale>>

\* Seeded fault: an opcode that is not known is passed over.
UnknownOpSkips ==
  /\ result = "running" /\ p.len > 0
  /\ buf[p.at] \notin {OpBranch, OpInsert}
  /\ p' = Slice(p, 1, 0)
  /\ commit' = [at |-> p'.at, len |-> 0]
  /\ UNCHANGED <<buf, result, file, disk, branches, refusal, wrapped, stale, request>>

UnknownOp ==
  /\ result = "running" /\ p.len > 0
  /\ buf[p.at] \notin {OpBranch, OpInsert}
  /\ Refuse
  /\ UNCHANGED <<file, disk, branches, refusal, wrapped, stale>>

\* The end of the request: what was read is written, and answered 200.
Finish ==
  /\ result = "running" /\ p.len = 0
  /\ disk' = Written
  /\ result' = "200"
  /\ UNCHANGED <<buf, p, commit, file, branches, refusal, wrapped, stale, request>>

Step == BranchOp \/ BadInsert \/ InsertOp \/ UnknownOp \/ Finish

Call ==
  /\ result # "running"
  /\ feeds < MaxFeeds
  /\ \/ \E l \in Lists : Receive(TransferEncode(l), l)
     \/ \E t \in Texts : Receive(t, None)

Next == Call \/ Step

Spec == Init /\ [][Next]_vars

\* The handler runs on.
FairSpec == Spec /\ WF_vars(Step)

-----------------------------------------------------------------------------
TypeOK ==
  /\ buf \in Seq(Byte) /\ text \in Seq(Byte)
  /\ p \in [at : Nat, len : Nat] /\ commit \in [at : Nat, len : Nat]
  /\ file \in {-1} \cup DOMAIN disk
  /\ DOMAIN disk \subseteq 0..(Word - 1)
  /\ \A f \in DOMAIN disk : disk[f] \in Seq(Byte)
  /\ result \in {"idle", "running", "200", "400"}
  /\ list \in Lists \cup {None}
  /\ {refusal, wrapped, stale} \subseteq BOOLEAN
  /\ branches \in Nat /\ feeds \in 0..MaxFeeds

\* Whatever lengths a change claims, also such that wrap, the changes that
\* will be written are a piece of the request that ends where reading goes on,
\* and reading never leaves the request.
CommitInside ==
  result = "running" =>
    /\ p.at >= 1 /\ commit.at >= 1
    /\ p.len > 0 => p.at + p.len = Len(buf) + 1
    /\ commit.at + commit.len <= Len(buf) + 1
    /\ file # -1 /\ p.len > 0 => commit.at + commit.len = p.at

\* What a page sends is stored as it sent it, the lengths in the machine's
\* order: byte for byte at the end of its branch, and nothing else changes,
\* unless the file cannot be opened.
StoredAsSent ==
  LET old == IF list.id \in DOMAIN before THEN before[list.id] ELSE << >> IN
  list # None /\ result \in {"200", "400"} /\ ~refusal =>
    /\ result = "200"
    /\ disk[list.id] = old \o Flat(list.changes, TRUE)
    /\ \A f \in DOMAIN disk \ {list.id} :
         f \in DOMAIN before /\ disk[f] = before[f]

\* A request that is refused leaves no change in any file, unless it is for
\* more than one branch: what came for those before is written already.
RefusedLeavesFiles ==
  result = "400" /\ branches <= 1 =>
    \A f \in DOMAIN disk :
      disk[f] = IF f \in DOMAIN before THEN before[f] ELSE << >>

\* Where a request can be read on from, to its end, by exact lengths.
ReadableFrom(t) ==
  LET Long(k, from) == Value(SubSeq(t, k + from, k + from + Width - 1))
      Span(k) == Header + Long(k, 1 + Width) + Long(k, 1 + 2 * Width)
      ok[k \in 1..(Len(t) + 1)] ==
        \/ k = Len(t) + 1
        \/ t[k] = OpBranch /\ k + Width <= Len(t) /\ ok[k + 1 + Width]
        \/ /\ t[k] = OpInsert /\ k + Header - 1 <= Len(t)
           /\ k + Span(k) <= Len(t) + 1 /\ ok[k + Span(k)] IN
  ok

\* The requests that are sequences of branches and changes.
WellFormed(t) == t # << >> => t[1] = OpBranch /\ ReadableFrom(t)[1]

\* A request is accepted if and only if it is one of those, unless a length
\* wraps, an id is read past the end, or a file cannot be opened.
AcceptsWellFormed ==
  result \in {"200", "400"} /\ ~wrapped /\ ~stale /\ ~refusal =>
    (result = "200" <=> WellFormed(text))

\* The handler comes to an end with every request: a length that wraps to 0
\* reads the same change again, and its converted lengths do not wrap to 0.
FeedEnds == result = "running" ~> result # "running"
=============================================================================
