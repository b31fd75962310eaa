# Sleepytext in TLA+

Sleepytext is an editor in a browser that records every change of a text and
sends the changes to a small HTTPS server, which appends them to a file per
branch. This directory holds TLA+ models of it, their TLC configurations, and
machine-checked proofs. Paths below are those of the repository, under `src/`.

## Inventory

| component | code | state | operations |
|---|---|---|---|
| Transfer of changes, page side | `html/js/network.js`, `branch.js` | `queue`, `intransfer`, one `XMLHttpRequest` | `oninput` pushes a change; `synch()` runs every second; `onreadystatechange` |
| Transfer of changes, server side | `src/server.c` (`feed`), `src/http_server.c`, `src/epoll.c` | connections with a 4096-byte buffer, branch files on disk, open descriptors | `http_tls_ondata`, `feed`, `stop` |
| Branches and histories | `html/js/branch.js`, `history.js` | `branches` (by id), `docs` (by document), a history with a position and a text | `getprecedinghistory`, `gethistory`, `forward`, `back`, `go` |
| Editor view | `html/js/editorview.js` | `view.branch`, `view.history`, the textarea and its last text | `oninput`, `branchout`, the slider, leaving |
| Navigation | `accountview.js`, `graphview.js`, `run.js`, `loadingview.js`, `lockedview.js` | `view` | login, logout, opening a graph, clicking a vertex |
| Feed format | `transferencode()` in `network.js`, the loop of `feed` | none (bytes of one transfer) | encode, parse and write |
| HTTP server | `src/http_server.c`, `http.c`, `epoll.c`, `tcp.c`, `tls.c` | listener, connections, callbacks, the ready list of `epoll_wait` | accept, data, close, dispatch, answer |
| Byte strings | `src/bytes.c` | none | `bfind`, `bslice`, `bsame`, `btoi64`, ... |
| Accounts and sessions | `src/server.c`, `accountview.js`, `user.js` | sqlite tables `users` and `branches`, the session cookie | `user`, `login`, `newbranch`, `branches`, `fetchupdates()` |
| Websocket frames | `src/http.c` | none | called from nowhere |
| Graph drawing, widgets | `graph.js`, `slider.js`, `tags.js` | positions on a canvas, DOM nodes | layout and drawing |
| SQLite header, build, page | `src/sqlite3.h`, `makefile`, `html/build.sh`, `html/main.html` | | vendored or generated |

How they interact:

- The page and the server share nothing but requests. The page has one
  transfer under way at most, but a transfer it gave up may still lie in a
  socket of the server, so several of one page's transfers can exist.
- The server is one thread. `epoll_wait` hands it ready connections in any
  order, and one call of `http_tls_ondata` handles a request from its last
  bytes to the answer. Nothing runs in between except a signal handler, `stop`.
- All state of a page is in memory; what survives a restart of the server is
  the database and the branch files.
- Within a page, callbacks (input, timer, answer, clicks) run one at a time.
  `branches`, `queue` and `view` are globals that all of them use.

What is hard about it, and what makes each component correct:

- *Transfer.* A timeout races with a late answer; a failed transfer is sent
  again together with what was typed meanwhile; the server may stop between
  the arrival of a transfer and its write. Correct: a change is neither lost
  nor overtaken by a later one, it is in the file twice only after the user
  has been warned, and it is saved eventually.
- *Branches and editor.* The text on the page, the text a branch caches and
  the text the history leads to are three copies of one thing, kept equal by
  eight handlers; a branch names its past by a position in another branch
  that keeps growing. Correct: the copies agree, and the past is fixed.
- *HTTP server.* A request comes in pieces, cut anywhere, and its body may look
  like a header. Correct: it is carried out once, when it is complete, by the
  handler of its address and in the session of its client; no byte gets lost;
  and a connection that was freed is not used again.
- *Feed format.* Lengths are 32-bit numbers that the server adds. Correct:
  what `transferencode` makes is what `feed` writes, a transfer with a wrong
  length leaves the file alone, and nothing outside the request is written.
- *Byte strings.* Correct: each function agrees with its plain definition.
- *Accounts.* Several requests of a page are under way at once, each answer
  acts on the view it finds, and `request()` calls `success` after `failure`.
  Correct: a page is logged in only as someone whose password was typed there,
  lists and makes documents of that user only, and does not wait for ever.

The full list of hazards, each with its line and the properties that cover it,
is in `PROJECT.json`.

## Modules

| module | what it is |
|---|---|
| `Delivery` | abstract: a shared log that grows by runs of changes, at least once, in the order of typing, without gaps |
| `Synch` | the page side and the server side of the transfer, connections, faults, and the properties |
| `SynchProofs` | inductive invariants of `Synch`, its safety properties, and that it implements `Delivery` |
| `History` | pure: changes, redo, undo, the difference of two texts, replay |
| `Editor` | branches, the editor view and the navigation to it, and the properties |
| `EditorProofs` | theorems about changes and histories of every length, and the properties of `Editor` |
| `Site` | `Editor` and `Synch` in one page: what the branch file tells of the text |
| `SiteProofs` | that a page is an editor and a client of the transfer, and the properties of `Site` |
| `Exchange` | abstract: per connection, requests asked, carried out and answered, each once at most |
| `HttpServer` | the event loop, the connections and their buffers, whole and partial requests, and the properties |
| `HttpProofs` | inductive invariants of `HttpServer`, its safety properties, and that it implements `Exchange` |
| `Bytes` | pure: the byte strings of `bytes.c` |
| `BytesSpec` | what those functions are for, on every text up to a length |
| `BytesProofs` | recursive functions, and what the functions of `Bytes` return |
| `TextProofs` | the properties of `BytesSpec`, and those of `HttpRequest` with its refinement |
| `Feed` | `transferencode()` and `feed` on bytes and integers of a given width (extends `Bytes`) |
| `FeedProofs` | inductive invariants of `Feed`, and its safety properties |
| `HttpRequest` | one connection, on the level of characters: cutting, dispatching, sessions, answers (extends `Bytes`); implements `Exchange` too |
| `Accounts` | pages and their requests outside the editor, and the handlers and tables behind them |
| `AccountsProofs` | inductive invariants of `Accounts` and its safety properties |
| `MC...` | values of constants and symmetries for TLC |

`Synch`, `Editor`, `HttpServer` and `Accounts` are each about one kind of
interleaving; `Bytes`, `Feed` and `HttpRequest` are about what the bytes are.
They meet as follows:

- `Site` instantiates `Synch` and `Editor` and joins them where `oninput` does.
- `Synch` and `Accounts` take a request as one message. `Exchange` justifies
  that: a request is carried out only when all of it was sent, and once. It is
  implemented twice, by `HttpServer`, where requests have a size and no
  contents, and by `HttpRequest`, where they have contents and one connection.
- `Synch` takes a transfer as a list of changes that is written in one piece;
  `StoredAsSent` of `Feed` is what that rests on.
- `Synch` and `HttpServer` overlap in the descriptors that `feed` does not close.

### Synch

`queue`, `intransfer` are the arrays of `branch.js`, one pair per page; `cur`
is the connection its `XMLHttpRequest` uses, and `conn` the server's end of
each connection. `log` is the file `branches/1337`: `transferencode()` names
that branch in every transfer, whatever branch is edited.

| action | code |
|---|---|
| `Type` | `oninput`, as far as `queue.push` |
| `Tick` | `synch()` when it sends |
| `Answer` | `onreadystatechange` at `readyState` 4, with its success and failure parts |
| `GiveUp` | the five-second timeout, or the page's network breaking: `readyState` 4 with status 0 |
| `Close` | the tab is closed |
| `ServeTooLong` | `http_tls_ondata` with a request that does not fit the buffer |
| `ServeNoFile` | `feed` when `open` fails |
| `ServeFeed`, `ServeShortWrite` | `feed` up to its `write`, complete or short |
| `LoseRequest` | the connection breaks before the request is read |
| `Stop` | `stop()`, and a new start |

A change is its number on its page. Its bytes are left out: a transfer fits
the buffer if it has at most `Capacity` changes, and a short write cuts
between changes. The file is opened without a mode argument although
`O_CREAT` asks for one, so the permission bits of a new file are undefined;
the model chooses between a file that later calls can open and one they cannot.

### History and Editor

A text is a sequence of characters and a change a record `pos`, `last`, `now`,
as in `history.js`. `heap` holds all branch objects in the order of their
creation; `Branch(h, id)` is the lookup in the global `branches`, where the
object made last wins. `steps`, `position`, `render` and `last` are the fields
of `view.history` and `view.editor`; the assignment of `value` and of `last`
is always one statement, so one variable stands for both.

| action | code |
|---|---|
| `Login` | `entereditorview()` without a branch: a new branch with id 1 |
| `OpenGraph`, `ClickVertex` | `entergraphview`, and `entereditorview(active.branch)` from it |
| `Leave` | the account and the graph button |
| `BranchButton` | `branchout()` |
| `Input` | `oninput`, with `branchout()` before it when the slider is not at the end |
| `Slide` | the slider's callback, `history.go` |

### Site

`E` and `S` are instances of `Editor` and `Synch`; `typed` is shared, and
everything else is one part's own. `Input` is `oninput` as a whole: `E!Input`
and `S!Type` at once. `Edit` is every other step of the editor, `Carry` every
other step of the transfer: the timer and the answers go on in every view.
`made` keeps what the numbers of `Synch` stand for, so that the log of numbers
can be read as the changes in the branch file (`Told`).

### HttpServer

`con` is the server's end of a connection, `peer` the client's. The bytes of a
request are counted in units on their way through four places: still with the
client (`unsent`), in the kernel (`sock`), in the TLS layer (`raw`), in
`http_tls->buffer` (`buf`). Those of an answer are in the TLS layer (`wbio`), in
the hands of `write()` (`left`), in the kernel (`out`), or with the client
(`read`). `due` is how many units the last handler's answer has. `ready` and
`listening` are what is left of the array that `epoll_wait` filled; it is not
read again while handlers free connections. `errors` tells whether there is
something in the error queue that the TLS library keeps for the thread.

| action | code |
|---|---|
| `Wait`, `Take` | `epoll_listen`: a new array of events, and the next one of it |
| `Accept` | `tls_listener_ondata`, with a failing `accept()` |
| `OnError`, `OnEnd` | the branches of `epoll_listen` and `tcp_ondata` that close a connection, with `http_tls_onclose` (`Free`) |
| `OnTlsError` | `tls_ondata` when `SSL_read` fails, as it does with no room in the buffer, or when `SSL_get_error` finds an error that was left in the queue |
| `OnPart` | `http_tls_ondata` when the request is not complete |
| `OnRequest` | `http_tls_ondata` with a whole request: dispatch, handler, answer, buffer freed |
| `OnUnchecked` | the same for `root` and `branch` with a failed `open`, under an old TLS library, which does not refuse a negative length and runs out of the memory; the process ends |
| `Flush`, `WriteUnit`, `WriteFails`, `WriteKills` | `BIO_read` and the blocking `write()` at the end of `http_tls_ondata`; with the client gone it fails, or raises SIGPIPE, for which `main` sets no action |
| `Stop`, `Restart` | `stop()`, and a new start |

`write()` is several steps, since the clients go on meanwhile; a handler is
one. A request has a size, the size of its answer, and a flag that says how
its handler treats the file it opens. `feed` checks that `open()` succeeded;
`root` and `branch` do not, be it that no descriptor is left or that the branch
has no file yet (`"absent"`). Then `read()` returns -1 and that is the length of
the page (`Bodiless`): the header says `Content-Length: -1`, `SSL_write` refuses to
send -1 characters, and the error that this leaves in the thread's queue closes
the connection that is read next, whosever it is. What the handlers do otherwise is in
`Feed` and `Synch` (`feed`) and in `Accounts` (`login`, `user`, `newbranch`, `branches`). The third branch
of `epoll_listen` cannot be reached: on a TCP connection `EPOLLHUP` and
`EPOLLRDHUP` come with `EPOLLIN`, which the second takes.

### Bytes

A byte string is a record `[at, len]` over a memory, a function from addresses
to character codes, as `bytes` is a pointer and a length. `EndOfMatch` is the
loop of `bfind` with its position and its progress as arguments. `ToNumber` is
`btoi64`, `Truncated` the `int` that `btoi` makes of its result; `Itob` is `itob`,
which takes an `int` and writes no negative one, and `Decimal` what `bprintf`
writes for `%ld` and `%zd`. `Slice` trusts its `end` and subtracts in `size_t`, as
`bslice` does; `Copied`, `Joined` and `Printed` are `bcpy`, `bcat` and the lengths of
`bprintf`. `Int64` is 2^64 and `Int32` 2^32 in the code, and both are small in the
runs, so that numbers wrap there.

### Feed

A byte is a digit of base `Base`, an integer is `Width` of them. `buf` is the
request body as the handler changes it, `p` and `commit` are the local
variables of `feed`, `disk` the branch files with their bytes, `file` the one
that is open. Each pass of the loop is one action.

| action | code |
|---|---|
| `Call`, `Receive` | a transfer comes in: `transferencode()` of a list, or any bytes |
| `BranchOp` | `case 'b'`: writing what was read before, the id, `open` (which may fail) |
| `BadInsert`, `InsertOp` | `case 'i'`: its checks, `ntohl()` on both lengths in the request, `13 + lastlen + newlen` in `Width` bytes, the check against what is left |
| `UnknownOp` | `default` |
| `Finish` | the `write` after the loop, and 200 |

A branch id that is cut off by the end of the request takes its last bytes from
what the buffer held before: the model chooses them.

### HttpRequest

`message` is the client's request, `unsent` what is still to come, `buffer` is
`http_tls->buffer`, `jar` the client's cookies. The names of headers, and what
all addresses begin with, are shortened to letters.

| action | code |
|---|---|
| `Ask` | the browser sends a request (external) |
| `OnData` | `http_tls_ondata` with any number of further characters: `http_parse_request`, and for a whole request `http_websocket_accept`, `http_server_callback_dispatch`, the handler and `http_assemble_response` |
| `Hear`, `Reconnect` | the browser reads an answer, or finds something else and opens another connection (external) |
| `Logout` | the log out button, which sets the cookie to 0 |

A handler is its name, the payload and the session it is given, and any of the
answers it can make (`Answers`). One of those of `root` and `branch` is `Unread`, of
length -1 and without a page, after a failed `open`: the client never finds a
whole answer in it, and gives up the connection, which in this module is the
only one. Requests are taken to fit the 4096 bytes of a connection's buffer;
longer ones, and the errors that end a connection, are in `HttpServer`.

### Accounts

`users` and `rows` are the sqlite tables; `view`, `armed`, `drawn`, `edited`,
`cookie`, `docs` are a page's `view`, the mouse handlers its graph leaves on the
window, the document of that graph, the document in the editor,
`document.cookie` and `docs`. `calls` are requests under way; one that was
given up (`~awaited`) may still be carried out. A list of `MaxRows` rows is taken
to fit the 4096 bytes that `branches` has for it (`bytes_parts` is about one
that does not). `tried`, `creates`, `loadedas`
and `hasty` only record what the properties speak of.

| action | code |
|---|---|
| `Serve` with `Login`, `Register`, `Branches`, `NewBranch` | the handlers `login`, `user`, `branches`, `newbranch` |
| `Load` | `run.js` and `loadingview.js` |
| `ClickLogin`, `ClickCreate`, `ClickLogout`, `ClickDocument` | the buttons of `accountview.js` |
| `ClickAccount`, `ClickGraph` | the buttons of the editor |
| `ClickVertex`, `GraphEnds` | `window.onmouseup` of `graphview.js`, and the end of its animation |
| `Settle`, `Fail` | `request()` at `readyState` 4, with an answer or with status 0: `failure()` and then `success()` |
| `Lose` | a request that was given up never arrives |

Two things in it look like mistakes and are the code's: `newbranch` stores
numbers from uninitialised memory, as the page's request begins with a word
that `bscanf` does not match (`Garbage`), and `fetchupdates()` goes from one
line to the next but one (`Listed`), so that a branch may come without its
parent, and its graph cannot be drawn (`Drawable`, the view `"blank"`).

## Runs

| run | question | answer |
|---|---|---|
| `synch_safety` | Can a change be lost, overtaken or silently doubled, with two pages, three connections, late requests, restarts, short writes and too few descriptors? | No: `NoLoss`, `OrderKept`, `OnceUnlessAlerted`. A page whose backlog once is longer than a request never gets rid of it: `JamIsForever` |
| `synch_live` | Does the transfer implement `Delivery`, and is every change saved in the end? | Yes, without short writes (`Delivers`). Saved, unless the page is closed or jammed, the server has run out of descriptors (`feed` closes no file), or the file it created cannot be opened again (`EventuallySaved`) |
| `synch_devices` | Is a transfer refused while another device works on the file, as the comment at `network.js:72` has it? | No: two pages append in turns, each answered 200 (`OneDeviceAtATime` is violated) |
| `editor` | Do the text shown, the cached text and the history agree however the user types, slides, forks and moves between views? | Yes, apart from the uses named below (`HistoryInView`, `FaithfulStays`, `PastIsFixed`, `SoundStays`) |
| `site` | Does the branch file, with what is on its way to it, tell what the page shows? | Yes, for a page with one branch as long as no write was cut short and no transfer that had arrived was sent again (`FileTellsText`). With several branches and any retries each branch's changes are there in their order (`BranchesTold`) |
| `http_safety` | Is a freed connection used, or a byte of a request or an answer lost or mixed with another's, with requests cut anywhere, pages that cannot be opened, clients that go away at any time and restarts? Does the server implement `Exchange`? | No: `NothingFreedInUse`, `NoByteAstray`, `NoAnswerAstray`. Yes: `IsExchange` |
| `http_live` | Does a client that reads get its answer? | Yes, unless one of the five cases below holds (`EventuallyAnswered`) |
| `request` | Is every request carried out whole, once, by the right handler and in its client's session, wherever it is cut and whatever its body looks like, and does the client understand the answer? | Yes, except for the answer of length -1: `CarriedOutWhole`, `DispatchedRight`, `OwnSession`, `InStep`, `IsExchange` |
| `feed` | Is what a page sends stored byte for byte, and what else may a request do to the files? | Stored (`StoredAsSent`). Whatever lengths it claims, only bytes of the request are written (`CommitInside`), it is accepted just when it is well formed (`AcceptsWellFormed`), a refused one leaves no trace unless it is for several branches (`RefusedLeavesFiles`), and the loop ends (`FeedEnds`) |
| `bytes` | Do the byte strings do what they are for? | Yes: `FindRight`, `NumbersRight`, `JoinsWithin`, with one exception below |
| `bytes_parts` | Do they "take into account the specified length of their arguments" (`bytes.c:35`)? | No: what `bprintf` returns reaches past a string that is too short for what it prints (`PartsWithin` is violated by two characters and room for one) |
| `accounts` | Who is a page logged in as, what does it list, what does it make, and does it get stuck, while answers fail, come late or not at all? | Nobody but who typed the password (`SessionIsOwner`), one row per click (`RowsOwned`), the documents of the user it was loaded as (`ListsOwn`), and it gets past its loading view (`LoadingEnds`). An answer acts on the view it was asked from if the user waits for it (`AnswersInPlace`) |

The exceptions in `EventuallyAnswered` are what the code does:

1. The connection is gone: the client left, or the server closed it, as it
   does without an answer when a request does not fit the buffer, and when
   the error that a page of length -1 has left is found while it is read.
2. It is not accepted, as all descriptors are in use by files nobody closed.
3. The page it asked for could not be opened: the answer ends with its header,
   which announces a length of -1.
4. The answer is longer than what one event writes (1 MiB); the rest waits in
   the TLS layer for the client's next bytes.
5. Another client does not read, and the only thread waits in `write()`.

The exceptions in the editor's properties are what the code does:

1. A fork at a position before the branch's own fork gets a `pos` smaller
   than the length of its parent's past, and `slice` with a negative end
   (`branch.js:37`) returns changes from after the fork.
2. The branch button leaves the new history with an empty `render`
   (`editorview.js:82`), so the next move of the slider starts from an empty
   text at a position that is not 0.
3. Logging in again makes another branch with id 1; branches forked from the
   first one take the new one as their parent.

The others:

- `bfind` does not look again at a character that breaks off a match
  (`bytes.c:225`), so it overlooks what begins there. No request of a browser
  has a lone CR before a line end, which is why `request` is not affected.
- `feed` accepts a request that is not well formed when a length wraps
  (`server.c:285`), or when a branch opcode is cut short (`server.c:240`).
- `ListsOwn` is about the user a page was *loaded* as: after logging out and in
  as another it lists the first one's documents until it is loaded again.
- `AnswersInPlace` needs a user who does not click while a request is under way.

### Bounds

- `synch_safety`: two pages are the least that share the file; three
  connections let a page have an abandoned transfer and a retry in sockets
  while the other page sends; two faults give a timeout followed by a lost
  answer, a stop, or a short write; three changes per page let a transfer, its
  retry and something typed meanwhile differ, and `Capacity` 2 makes one
  backlog too long; three files run out within a behaviour.
- `synch_live`: no symmetry, as it is not sound for liveness; `Capacity` 1
  so that jams occur, and two changes so that they do not have to.
- `editor`: two characters make texts whose common prefix and suffix overlap;
  three branches make a fork of a fork; three changes reach a fork before a
  fork with something typed on both sides.
- `site`: two branches and three changes make a queue that goes from one branch
  to the other and back; one fault gives a retry, a short write or a restart
  under it. Texts of one character are enough, as nothing here depends on what
  `Diff` finds: that is the business of `editor`.
- `http_safety`, `http_live`: two connections are the least for one to be freed or held up while
  an event of the other waits. A buffer of two units takes a request of two
  pieces and not the one of three or four (`Long`, `Longer`); a write of two units takes an
  answer of two and not the one of three (`Huge`); a send buffer of one
  unit makes each longer answer wait for the client. Two descriptors are used
  up by two connections, or by one and a file; `Page` is a file that exists and
  `Absent` one that does not. Two requests per connection
  make the second one meet what the first left behind.
- `http_live` has no restarts (`MaxStops` 0), which only cut connections, and
  one client that reads and one that need not.
- `request`: three requests, so that a login is followed by a request with the
  cookie and by one after logging out or in again; every address of the table,
  addresses that begin a handler's, go on after it or fit none; bodies that
  hold a header's end or a length; a negative session. Requests are cut at
  every place, since `OnData` takes any number of characters.
- `feed`: with bytes 0..7 and integers of two of them, every pair of lengths
  0..63 is tried, of which most wrap; bodies and tails look like opcodes, are
  cut short, or go on with another branch. One transfer is enough, as the
  handler keeps nothing but the files, and these come from `Disks`.
- `bytes`: six characters hold the longest needle after a match that was broken
  off; with `Int64` 64 and `Int32` 16 the numbers from 32 on wrap, and all of
  three digits, and those from 8 on do not fit the `int` of `itob`.
- `accounts`: one page, four requests: loading, logging in, making a document
  and one more that crosses them, each carried out, given up or late; two
  logins and passwords; two users that are there from the start, so that four
  requests also load the page as the first, log in as the second and list or
  make documents while the first one's requests are late; three rows of the
  first, of which `fetchupdates()` leaves out the middle one. Several pages share nothing but
  the tables; the proofs are for any number of them.

No run checks for deadlock: with the bounds on what users and faults do, the
system comes to rest.

### Fairness

`Synch`'s `FairSpec` assumes weak fairness of `Tick`, `Answer` and `Serve` only. The
timer of `synch()` sets itself again whatever happens, the browser delivers an
answer that has arrived, and the level-triggered `epoll_wait` reports a
connection until its bytes are read. Nothing is assumed of typing, of faults
or of closing a page. Faults are bounded by `MaxFaults`: with a fault at every
retry nothing is ever saved, and nobody would promise it.

`HttpServer` assumes weak fairness of the server's thread (`epoll_wait` is
level-triggered and the loop never ends), of sending a request that was begun,
and of reading, for the `Readers` only. That the events of one `epoll_wait` are
all handled needs no assumption of its own: the next call comes after them.

`Feed` assumes weak fairness of the loop of the handler (`Step`): a thread that
can go on does. `FeedEnds` is not a matter of course, since the loop may go on
without reading anything when a length has wrapped to 0.

`Accounts` assumes weak fairness of `Settles`: the browser gives up on a request
after five seconds at the latest (`network.js:4`). Nothing is assumed of the
server.

## Proofs

All of them hold for every value of the constants that the `ASSUME` of the
module allows, which TLC evaluates in every run. Each safety property and each
refinement that a passing run checks is also proved.

`SynchProofs`, for all sets of pages and connections and all bounds, from
`SynchAssumption` (the sentinel is no page and no connection, the bounds are
numbers, a request holds at least one change):

- `TypeCorrect`, `NothingLost`, `OrderIsKept`: `TypeOK`, `NoLoss`, `OrderKept`.
  Neither of the last two is inductive. A 200 makes the page forget its
  transfer, so `NoLoss` needs that an answer of 200 on the way stands for
  changes that are settled (in the file, or cut by a short write): `Carried`.
  A transfer that was given up can be served after its retry, so `OrderKept`
  needs that every transfer in a socket is a run of consecutive changes whose
  predecessors are settled: `SentIsRun`. That, for a transfer that is just being
  sent, follows from the page's memory being a tail of what it typed, in order,
  with everything before it settled: `MemoryIsTail`. `IInv` is the conjunction;
  one lemma per action shows that it is preserved.
- `SavedOnceUnlessAlerted`: `OnceUnlessAlerted`, by `OInv`. As long as a page has
  not shown an alert, none of its changes is in two of these places: the file
  and a transfer that is yet to be served, or a transfer and what is in memory
  beside it (`Once`); it has given up nothing so far, so that it has one
  transfer under way at most. The lemmas follow the log's growth, write by write.
- `Implements`: `Delivers`, without short writes. From `IInv`: what a write
  appends is a run whose predecessors are in the file.
- `JamStays`: `JamIsForever`, by `AnsweredFits`: an answer of 200 on its way is
  for a transfer that fits a request, so none comes for one that does not.

`HttpProofs`, for all finite sets of connections, requests and sizes, from
`HttpAssumption`:

- `NoUseAfterFree`: `NothingFreedInUse`. It is not inductive: a handler that
  frees its connection would leave a second event of it in the array.
  `ReportedOnce`, which holds as `epoll_listen` does one thing per event of
  `epoll_wait`, excludes that; `EventsTwice` is the loop without its `else`,
  and TLC finds the freed connection used.
- `TypeCorrect`, `RequestBytesKept`, `AnswerBytesKept`: `TypeOK`,
  `NoByteAstray`, `NoAnswerAstray`. The invariant `XInv` is, for each
  connection: requests and answers take turns (`Turns`); what the server holds
  of a request is all of it, or less than all if it is not yet sent, also when
  the client has gone in the middle (`BytesHeld`); an answer is under way just
  from the handling of its request to its last character, and is the whole one
  or, of a page that could not be opened, the header (`AnswerHeld`); and a
  connection that does not exist holds nothing (`Fresh`).
- `Implements`: `IsExchange`, action by action from `XInv`: a request is whole
  in the buffer only when all of it was sent and it is the next one.

`AccountsProofs`, for all sets of pages, logins and passwords and all tables
that may be there, from `AccountsAssumption`:

- `TypeCorrect`: `TypeOK`, with `DrawnKnown`, since a graph that is left for the
  editor long after it was drawn must still be of a document the page knows.
- `OwnSessions`, `ListsOnlyOwn`: `SessionIsOwner`, `ListsOwn`, by `IInv`, which
  says of every call under way what its answer may do (`Good`): what it carries
  was typed in on its page, the session it brings is that user's, what it found
  is of the user it was sent as, and that is who its page was loaded as, if
  that still waits for it.
- `RowsAreOwned`: `RowsOwned`, by `AllPaid`: the rows of a user *and the
  requests that may still make one* are at most its clicks. A request that was
  given up counts until it is carried out or lost.
- `ActsInPlace`: `AnswersInPlace`, by `AllCalm`: a page that is not clicked on
  while it waits has one request under way at most, and none while the mouse
  handlers of a graph are there.

`EditorProofs`, for all alphabets, lengths of texts and numbers of branches,
from `EditorAssumption` (the bounds are numbers):

- `DiffRedoes`, `DiffUndoes`: the change `Diff` finds between any two texts is
  one. Redoing it on the old text gives the new one, and undoing it on the new
  text gives the old one, also where prefix and suffix compete for letters.
- `GoReplays`: the slider, from any position to any other, leads to what
  replaying the history up to there gives, if every change of it can be taken
  back. `RecordedReplays`: that stays so when `oninput` appends what it records.
- `EditorTyped`, `HistoryStaysInView`: `TypeOK`, `HistoryInView`, by `EditorInv`.
  `HistoryInView` is not inductive: a history is put together by looking up
  parents by id, and what the page keeps stays its branch's history only if ids
  lead back to that branch (`Latest`), and only if a parent's id exists and is
  smaller than the child's (`Grown`), without which a new branch could give an
  old one a parent, or a branch be its own ancestor.
- `PastStaysFixed`, `SoundnessStays`, `FaithfulnessStays`: the action properties
  `PastIsFixed`, `SoundStays`, `FaithfulStays`, from `EditorInv`. A login makes a
  second branch 1 and is excluded by name; for every other step the past of a
  branch is found to be the same by induction on its number, as parents are
  older. The other two come down to `RecordedReplays` and `GoReplays`.
- `Alone`, which `Site` needs: as long as there is one branch, it is sound, and
  the page that shows it is faithful. None of the exceptions below the table of
  runs is possible then.

`SiteProofs`, from `SiteAssumption` (those of `Editor` and `Synch`):

- `PageIsBoth`: every behaviour of `Site` is one of `Editor` and one of `Synch`.
- `FileTells`, `BranchesAreTold`: `FileTellsText`, `BranchesTold`, by `SiteInv`,
  which joins the invariants of the two with `Spelled`: the number of a change
  is its place among all that were typed, and each branch holds some of them
  in that order; the first branch, alone, holds all. What `SynchProofs` knows
  then says that the file, followed by what is still in memory and not in the
  file, has every number from 1 to the last, each one behind its predecessor
  (`NumbersInOrder`). Without repetitions that is the list 1, 2, ..., and so
  `Told` is the history in view. With repetitions the places where the numbers
  stand first are in order (`FirstTimes`), so each branch can be read off in
  one pass (`WovenIsWithin`).

`FeedProofs`, for bytes and integers of every width, lists of every length and
all contents of disks, from `FeedAssumption` and `TransferAssumption`. The first
asks that an `int64_t` counts to more than the width of an integer, the second
that a transfer is shorter than a 32-bit number can say: requests are of 4096
bytes at most, so the code never comes near it.

- `FeedTyped`, `ReadingStaysInside`: `TypeOK`, `CommitInside`, together (`ReadInv`):
  a length that has wrapped passes the check against what is left, so the
  request cannot be read past its end.
- `RefusalLeavesFiles`: `RefusedLeavesFiles`, by `RefusedInv`: until a second
  branch opcode comes, nothing of the request is written.
- `ListsAreStored`: `StoredAsSent`, by `SendInv`: while `transferencode`'s bytes of a
  list are read, the parser has passed the opcode of the branch and some number
  of changes (`Gathered`); what it keeps for writing is their bytes,
  although it converts every length in place and back.
- `WellFormedAreAccepted`: `AcceptsWellFormed`, by `AcceptInv`: the whole request can
  be read by exact lengths if and only if the rest of it can.

`TextProofs` on the functions of `bytes.c` (the specification `Texts` of
`BytesSpec`), for texts of every length, from `BytesAssumption` and
`BytesSpecAssumption`:

- `FindsRight`: `FindRight`. The loop of `bfind` stands in the middle of a match
  just when the last characters read begin what is looked for
  (`MatchFollows`); so what it finds is there (`MatchIsFound`). It is the first
  one, as an earlier one, if no match is broken off by its beginning, would have
  been followed to its end (`MatchIsFirst`).
- `ReadsNumbers`: `NumbersRight`. `btoi64` is Horner's rule with every step
  wrapped; wrapping at the end gives the same. The figures of a number are put
  at their places from the last one, and are read back: by `bprintf` those of
  every number, and by `itob` those of the `int` that it takes (`ReadsDecimal`).
- `JoinsRight`: `JoinsWithin`, address by address.

`TextProofs` on a connection (`HttpRequest`), for all messages, pages and
sessions and every way of cutting requests into pieces, from
`RequestAssumption`. It asks that an address has no space, no line end, and does
not hold the name of a header, which `http_get_header_value` would find there
first. The page asks for no such address (`network.js`, `accountview.js`,
`user.js`). Bodies have to be shorter than half of the numbers of an `int`, as the
server reads their length with `btoi`, and pages shorter than half of those of an
`int64_t`, so that their lengths are read back as they were written. Then

- What has come of a request is never taken for the whole (`CrunchedShort`), and
  the whole is (`CrunchedWhole`). The header is built line by line; up to each of
  them it holds the names of the lines so far and no others (`HeaderLineIs`,
  `HeaderIs`), and the first `HeaderEnd` is where the header ends
  (`HeaderEndFound`). So the body begins there, its length and the session are
  read from their own lines, and `AtMostOne` says that no two handlers match.
- An answer is understood behind any number of line ends, and
  line ends alone are not (`NothingUnderstood`). They have to be allowed for: the
  server sends more of them than the length of an answer tells. In the answer
  of length -1 no whole answer is found (`AnswerUnderstood`).
- `RequestsWhole`, `RequestsDispatched`, `RequestsOwned`, `RequestsAnswered`:
  `CarriedOutWhole`, `DispatchedRight`, `OwnSession`, `InStep`, by `RInv`. None of
  the four is inductive: that what is carried out is the request needs that
  buffer and rest together are always the request (`Coming`); that an answer is
  that of the last request needs that the stream never holds more than one answer,
  behind line ends, and that one the last handler's (`Outgoing`); that the session
  is the client's own needs that the cookie jar is either empty or of the form the
  server gives out, with the number of a session or 0 (`Baked`).
- `RequestsImplement`: `IsExchange`, from `RInv`: an answer is only understood when
  a request was carried out that has none.

### Recursive functions

Histories, texts and requests are gone through by recursive functions
(`Preceding`, `Replay`, `EndOfMatch`, `Value`, `Unsaved`, ...). TLA+ defines such
a function as some `f` with `f = F(f)`, so that a proof must show that there is
one. `RecursionExists` of `BytesProofs` does that for any scheme in which an
argument's value depends on the values at arguments of lower rank, and
`SequenceRecursion` for the most frequent case, a loop over a list. The
library's theorems on this, and on induction, take an operator as a parameter,
which the provers at hand cannot instantiate. So the scheme is a function here,
and induction is about a set of numbers that has 0 and with each number the
next (`Induction`, `RankInduction`); both rest on the well-foundedness of strict
inclusion on finite sets (`GreatestExists`).

### Only model-checked

- Liveness (`EventuallySaved`, `EventuallyAnswered`, `FeedEnds`, `LoadingEnds`):
  the prover handles neither fairness nor `ENABLED`.

## Not modelled

- The 403 branch of `synch()` (`network.js:71-75`) and the locked view: no
  handler answers 403.
- Short writes that cut inside a change: `Synch` cuts between changes, `Feed`
  writes all it is told to.
- Random branch ids that collide (`editorview.js:79`) and random sessions that
  do: both are taken to be new. The first is listed as a hazard.
- The TLS handshake and the set-up of the TLS library (connections are accepted
  with it done), and the start of the server.
- `s->callbacks`, which `http_init` counts up in memory that nobody has set
  (`http_server.c:83`): whether the table of handlers is found at all depends on
  the allocator, and all else takes it to be empty at first.
- `stop()` in the middle of a library call: `Synch` and `HttpServer` let the
  process end between any two of their steps.
- Positions in UTF-16 units and lengths in bytes of UTF-8: `History` and `Feed`
  have one kind of character each.
- Memory that is never freed (a buffer per event, `http_server.c:200`), and
  functions of `bytes.c` that are one library call.
- Websocket frames (`http.c` parses them, and nothing calls that), drawing, widgets, `makefile`, `build.sh`.
- SQLite: its header is vendored, and at 7160 of the roughly 8600 lines of C it
  is most of what is there. The statements of `server.c` are the operators
  on `users` and `rows` in `Accounts`.

Left to do: a second document in `Editor`, with branches that come from
`fetchupdates()`; and the handshake in `HttpServer`.
