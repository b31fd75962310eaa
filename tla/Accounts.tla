------------------------------ MODULE Accounts ------------------------------
(***************************************************************************)
(* Accounts: the pages of accountview.js, loadingview.js and graphview.js, *)
(* what they ask of the server through request() of network.js, and the    *)
(* handlers login, user, branches and newbranch of server.c with the       *)
(* tables behind them.                                                     *)
(*                                                                         *)
(* A request is on its way while the page goes on: its answer acts on the  *)
(* view that it finds.  It may come too late for the page, or not at all,  *)
(* and the server may carry out what the page has given up.                *)
(*                                                                         *)
(* A user is its place in the table, and so is its session: the random     *)
(* numbers that sessions are are taken to be different and not 0.  The     *)
(* lastseen column, which nothing reads, is left out.                      *)
(***************************************************************************)
EXTENDS Integers, Sequences, FiniteSets

CONSTANTS
  Pages,        \* browsers, with one page each
  Logins, Passwords,
  Garbage,      \* numbers that memory nobody has written may hold
  Tables,       \* the tables that earlier pages may have left: [users, rows]
  MaxRows,      \* bound: users, and rows of the table of branches
                \* (a list of that many fits the 4096 bytes that branches() has)
  MaxRequests   \* bound: requests sent

ASSUME AccountsAssumption ==
  /\ IsFiniteSet(Pages)
  /\ Garbage \subseteq Int
  /\ MaxRows \in Nat /\ MaxRequests \in Nat
  /\ \A t \in Tables :
       /\ t.users \in Seq([login : Logins, password : Passwords])
       /\ Len(t.users) <= MaxRows /\ Len(t.rows) <= MaxRows
       /\ t.rows \in Seq([user : 1..Len(t.users), parent : Garbage, document : Garbage])

VARIABLES
  users,    \* the table of users
  rows,     \* the table of branches: user, parent, document
  view,     \* what a page shows, "blank" if drawing a graph has failed
  armed,    \* do the mouse handlers of a graph still wait for a click, and has
            \* there been one: "no", "armed", "ending"
  drawn,    \* the document of that graph
  edited,   \* the document of view.branch in the editor
  cookie,   \* the session in document.cookie, 0 if there is none
  docs,     \* the branches in `docs`: id, parent, document
  calls,    \* requests that are on their way
  sent,     \* requests sent so far
  tried,    \* what was typed in to log in
  creates,  \* rows that were there, and clicks on "New document", by session
  loadedas, \* the session that a page was loaded with
  hasty     \* has a page been clicked on while a request was on its way

tables == <<users, rows>>
page == <<view, armed, drawn, edited, cookie, docs>>
past == <<tried, creates, loadedas, hasty>>
vars == <<tables, page, calls, sent, past>>

Sessions == 0..MaxRows

\* What entereditorview() makes when it is given no branch.
FirstBranch == [id |-> 1, parent |-> 0, document |-> 1]

\* How many rows belong to u.
Rows(table, u) == Cardinality({i \in 1..Len(table) : table[i].user = u})

Init ==
  /\ \E t \in Tables : users = t.users /\ rows = t.rows
  /\ view = [p \in Pages |-> "closed"]
  /\ armed = [p \in Pages |-> "no"]
  /\ drawn = [p \in Pages |-> 0]
  /\ edited = [p \in Pages |-> 0]
  /\ cookie = [p \in Pages |-> 0]
  /\ docs = [p \in Pages |-> {}]
  /\ calls = {} /\ sent = 0
  /\ tried = [p \in Pages |-> {}]
  /\ creates = [s \in Sessions |-> Rows(rows, s)]
  /\ loadedas = [p \in Pages |-> 0]
  /\ hasty = [p \in Pages |-> FALSE]

Waiting(p) == {r \in calls : r.page = p /\ r.awaited}

\* req.send(): the browser adds the cookie it has.  `left` tells whether the
\* page has gone to another view since.
Sent(p, kind, login, password) ==
  [n |-> sent + 1, page |-> p, kind |-> kind, login |-> login, password |-> password,
   cookie |-> cookie[p], status |-> 0, session |-> 0, found |-> {},
   served |-> FALSE, awaited |-> TRUE, left |-> FALSE]

Leaving(p, requests) ==
  {IF r.page = p THEN [r EXCEPT !.left = TRUE] ELSE r : r \in requests}

(***************************************************************************)
(* The server: one handler at a time.                                      *)
(***************************************************************************)

WithAnswer(r, status, session, found) ==
  [r EXCEPT !.served = TRUE, !.status = status, !.session = session, !.found = found]

\* The answer to r; nobody waits for one that the page has given up.
Answered(r, status, session, found) ==
  calls' = (calls \ {r}) \cup
    IF r.awaited THEN {WithAnswer(r, status, session, found)} ELSE {}

Refused(r) == Answered(r, 400, 0, {}) /\ UNCHANGED tables

\* Seeded fault: the password is not compared.
LoginAny(r) ==
  \E u \in 1..Len(users) :
    /\ users[u].login = r.login
    /\ Answered(r, 200, u, {})
    /\ UNCHANGED tables

\* login: the table may hold a login twice.
Login(r) ==
  \/ /\ \A u \in 1..Len(users) : users[u].login # r.login
     /\ Refused(r)
  \/ \E u \in 1..Len(users) :
       /\ users[u].login = r.login
       /\ IF users[u].password = r.password
          THEN Answered(r, 200, u, {}) /\ UNCHANGED tables
          ELSE Refused(r)

\* user: the insertion may fail, for a login that is taken too.
Register(r) ==
  \/ Refused(r)
  \/ /\ Len(users) < MaxRows
     /\ users' = Append(users, [login |-> r.login, password |-> r.password])
     /\ Answered(r, 200, 0, {})
     /\ UNCHANGED rows

Listing(i) ==
  [id |-> i, parent |-> rows[i].parent, document |-> rows[i].document]

\* Seeded fault: the branches of all users are selected.
RowsOfAll(u) ==
  {Listing(i) : i \in 1..Len(rows)}

\* selectbranches, which finds rows in the order of their ids.
RowsOf(u) ==
  {Listing(i) : i \in {k \in 1..Len(rows) : rows[k].user = u}}

\* branches.  getuserid finds no user for session 0.
Branches(r) ==
  IF r.cookie = 0 THEN Refused(r)
  ELSE Answered(r, 200, 0, RowsOf(r.cookie)) /\ UNCHANGED tables

\* Seeded fault: a failed insertion is tried again, and may have been done.
NewBranchTwice(r) ==
  /\ r.cookie # 0 /\ Len(rows) < MaxRows
  /\ \E parent, document \in Garbage :
       LET row == [user |-> r.cookie, parent |-> parent, document |-> document] IN
       rows' = rows \o <<row, row>>
  /\ Answered(r, 200, 0, {})
  /\ UNCHANGED users

\* newbranch: the page begins its request with a word, so that bscanf reads
\* no number, and the row gets what was in memory.
NewBranch(r) ==
  \/ Refused(r)
  \/ /\ r.cookie # 0 /\ Len(rows) < MaxRows
     /\ \E parent, document \in Garbage :
          rows' = Append(rows, [user |-> r.cookie, parent |-> parent,
                                document |-> document])
     /\ Answered(r, 200, 0, {})
     /\ UNCHANGED users

Serve(r) ==
  /\ ~r.served
  /\ CASE r.kind = "login" -> Login(r)
       [] r.kind = "user" -> Register(r)
       [] r.kind = "branches" -> Branches(r)
       [] r.kind = "newbranch" -> NewBranch(r)
  /\ UNCHANGED <<page, sent, past>>

(***************************************************************************)
(* The page: clicks.                                                       *)
(***************************************************************************)

\* A click of the user.
Clicked(p) == hasty' = [hasty EXCEPT ![p] = @ \/ Waiting(p) # {}]

\* run.js: the page is loaded, or loaded again; nobody waits any longer for
\* what the old one asked.
Load(p) ==
  LET old == {IF r.page = p THEN [r EXCEPT !.awaited = FALSE] ELSE r : r \in calls} IN
  /\ sent < MaxRequests
  /\ view' = [view EXCEPT ![p] = "loading"]
  /\ armed' = [armed EXCEPT ![p] = "no"]
  /\ drawn' = [drawn EXCEPT ![p] = 0]
  /\ edited' = [edited EXCEPT ![p] = 0]
  /\ docs' = [docs EXCEPT ![p] = {}]
  /\ calls' = {r \in old : r.awaited \/ ~r.served}
                \cup {Sent(p, "branches", 0, 0)}
  /\ sent' = sent + 1
  /\ loadedas' = [loadedas EXCEPT ![p] = cookie[p]]
  /\ hasty' = [hasty EXCEPT ![p] = FALSE]
  /\ UNCHANGED <<tables, cookie, tried, creates>>

\* "Log in" and "Register".
ClickLogin(p, kind, login, password) ==
  /\ view[p] = "login"
  /\ sent < MaxRequests
  /\ calls' = calls \cup {Sent(p, kind, login, password)}
  /\ sent' = sent + 1
  /\ tried' = [tried EXCEPT ![p] =
                 IF kind = "login" THEN @ \cup {<<login, password>>} ELSE @]
  /\ Clicked(p)
  /\ UNCHANGED <<tables, page, creates, loadedas>>

\* "New document"
ClickCreate(p) ==
  /\ view[p] = "user"
  /\ sent < MaxRequests
  /\ calls' = calls \cup {Sent(p, "newbranch", 0, 0)}
  /\ sent' = sent + 1
  /\ creates' = [creates EXCEPT ![cookie[p]] = @ + 1]
  /\ Clicked(p)
  /\ UNCHANGED <<tables, page, tried, loadedas>>

\* A click leads from one view to another.
Turn(p, from, to) ==
  /\ view[p] = from
  /\ view' = [view EXCEPT ![p] = to]
  /\ calls' = Leaving(p, calls)
  /\ edited' = [edited EXCEPT ![p] = 0]
  /\ Clicked(p)
  /\ UNCHANGED <<tables, docs, sent, tried, creates, loadedas>>

\* enteraccountview
AccountView(session) == IF session # 0 THEN "user" ELSE "login"

\* "Log out"
ClickLogout(p) ==
  /\ cookie' = [cookie EXCEPT ![p] = 0]
  /\ Turn(p, "user", AccountView(0))
  /\ UNCHANGED <<armed, drawn>>

\* "account", in the editor
ClickAccount(p) ==
  /\ Turn(p, "editor", AccountView(cookie[p]))
  /\ UNCHANGED <<armed, drawn, cookie>>

\* createEdge needs the vertices of both ends: the graph of a document is
\* drawn if the branches that its branches come from are there.
Drawable(p, document) ==
  LET shown == {b \in docs[p] : b.document = document} IN
  \A b \in shown : b.parent # 0 => \E a \in shown : a.id = b.parent

\* entergraphview
Draw(p, from, document) ==
  LET good == Drawable(p, document) IN
  /\ armed' = [armed EXCEPT ![p] = IF good THEN "armed" ELSE "no"]
  /\ drawn' = [drawn EXCEPT ![p] = IF good THEN document ELSE 0]
  /\ Turn(p, from, IF good THEN "graph" ELSE "blank")
  /\ UNCHANGED cookie

\* A click on a document.
ClickDocument(p) == \E b \in docs[p] : Draw(p, "user", b.document)

\* "graph", in the editor
ClickGraph(p) == Draw(p, "editor", edited[p])

\* A click on a vertex.  The handlers are those of the window: they are there
\* also when an answer has replaced the graph by another view.
ClickVertex(p) ==
  /\ armed[p] = "armed"
  /\ armed' = [armed EXCEPT ![p] = "ending"]
  /\ Clicked(p)
  /\ UNCHANGED <<tables, view, drawn, edited, cookie, docs, calls, sent, tried,
                 creates, loadedas>>

\* 300 ms later the editor opens on the branch, whatever the page shows.
GraphEnds(p) ==
  /\ armed[p] = "ending"
  /\ armed' = [armed EXCEPT ![p] = "no"]
  /\ view' = [view EXCEPT ![p] = "editor"]
  /\ drawn' = [drawn EXCEPT ![p] = 0]
  /\ edited' = [edited EXCEPT ![p] = drawn[p]]
  /\ calls' = Leaving(p, calls)
  /\ UNCHANGED <<tables, cookie, docs, sent, past>>

(***************************************************************************)
(* The page: answers.  request() calls failure() for any status but 200,   *)
(* and then success() all the same.                                        *)
(***************************************************************************)

\* The view that success() of a request leads to.
Opened(r) ==
  IF r.kind = "branches" THEN "user"
  ELSE IF r.kind = "newbranch" THEN AccountView(cookie'[r.page])
  ELSE "editor"

\* Seeded fault: success() is left out after failure().
EnteredIfGood(r, good) == IF good THEN Opened(r) ELSE view[r.page]

\* The view after the callbacks.  A graph that was not drawn cannot be left:
\* removeChild() fails.
Entered(r, good) ==
  IF view[r.page] = "blank" THEN "blank" ELSE Opened(r)

\* fetchupdates goes from one line to the next but one.
Listed(found) ==
  {b \in found : Cardinality({a \in found : a.id <= b.id}) % 2 = 1}

\* Seeded fault: the editor is entered without a branch to edit.
CallBackBare(r, good) ==
  LET p == r.page IN
  /\ cookie' = [cookie EXCEPT ![p] =
                  IF good /\ r.kind = "login" THEN r.session ELSE @]
  /\ view' = [view EXCEPT ![p] = Entered(r, good)]
  /\ docs' = [docs EXCEPT ![p] =
       @ \cup (IF good /\ r.kind = "branches" THEN Listed(r.found) ELSE {})]
  /\ edited' = [edited EXCEPT ![p] = IF Entered(r, good) = "editor" THEN 1 ELSE 0]
  /\ UNCHANGED <<tables, armed, drawn, sent, past>>

\* The callbacks of r, good or not.
CallBack(r, good) ==
  LET p == r.page IN
  /\ cookie' = [cookie EXCEPT ![p] =
                  IF good /\ r.kind = "login" THEN r.session ELSE @]
  /\ view' = [view EXCEPT ![p] = Entered(r, good)]
  /\ docs' = [docs EXCEPT ![p] =
       @ \cup (IF good /\ r.kind = "branches" THEN Listed(r.found) ELSE {})
         \cup (IF Entered(r, good) = "editor" THEN {FirstBranch} ELSE {})]
  /\ edited' = [edited EXCEPT ![p] = IF Entered(r, good) = "editor" THEN 1 ELSE 0]
  /\ UNCHANGED <<tables, armed, drawn, sent, past>>

\* Seeded fault: the callbacks are called again when the answer is complete.
SettleTwice(r) ==
  /\ r.awaited /\ r.served
  /\ CallBack(r, r.status = 200)
  /\ calls' = Leaving(r.page, calls)

\* The answer comes in.
Settle(r) ==
  /\ r.awaited /\ r.served
  /\ CallBack(r, r.status = 200)
  /\ calls' = Leaving(r.page, calls \ {r})

\* Five seconds are over, or the connection has broken: status 0.
Fail(r) ==
  /\ r.awaited
  /\ CallBack(r, FALSE)
  /\ calls' = Leaving(r.page, calls \ {r})
                \cup (IF r.served THEN {} ELSE {[r EXCEPT !.awaited = FALSE]})

\* A request that was given up has never reached the server.
Lose(r) ==
  /\ ~r.awaited
  /\ calls' = calls \ {r}
  /\ UNCHANGED <<tables, page, sent, past>>

-----------------------------------------------------------------------------
Settles(p) == \E r \in calls : r.page = p /\ (Settle(r) \/ Fail(r))

Clicks(p) ==
  \/ Load(p)
  \/ \E kind \in {"login", "user"}, l \in Logins, w \in Passwords :
       ClickLogin(p, kind, l, w)
  \/ ClickCreate(p)
  \/ ClickLogout(p)
  \/ ClickAccount(p)
  \/ ClickDocument(p)
  \/ ClickGraph(p)
  \/ ClickVertex(p)

Next ==
  \/ \E r \in calls : Serve(r) \/ Lose(r)
  \/ \E p \in Pages : Clicks(p) \/ GraphEnds(p) \/ Settles(p)

Spec == Init /\ [][Next]_vars

\* Browsers give up on requests; nothing is asked of the server or the users.
FairSpec == Spec /\ \A p \in Pages : WF_vars(Settles(p))

-----------------------------------------------------------------------------
Views == {"closed", "loading", "login", "user", "editor", "graph", "blank"}

Listings == [id : Nat, parent : Int, document : Int]

Kinds == {"login", "user", "branches", "newbranch"}

LoginOrNone == Logins \cup {0}
PasswordOrNone == Passwords \cup {0}

Calls ==
  [n : Nat, page : Pages, kind : Kinds, login : LoginOrNone,
   password : PasswordOrNone, cookie : Sessions, status : {0, 200, 400},
   session : Sessions, found : SUBSET Listings,
   served : BOOLEAN, awaited : BOOLEAN, left : BOOLEAN]

TypeOK ==
  /\ users \in Seq([login : Logins, password : Passwords]) /\ Len(users) <= MaxRows
  /\ rows \in Seq([user : 1..Len(users), parent : Garbage, document : Garbage])
  /\ Len(rows) <= MaxRows
  /\ view \in [Pages -> Views]
  /\ armed \in [Pages -> {"no", "armed", "ending"}]
  /\ drawn \in [Pages -> Int] /\ edited \in [Pages -> Int]
  /\ cookie \in [Pages -> 0..Len(users)]
  /\ docs \in [Pages -> SUBSET Listings]
  /\ \A p \in Pages :
       view[p] = "editor" => \E b \in docs[p] : b.document = edited[p]
  /\ calls \subseteq Calls
  /\ \A r \in calls : r.awaited \/ ~r.served
  /\ sent \in 0..MaxRequests
  /\ tried \in [Pages -> SUBSET (Logins \X Passwords)]
  /\ creates \in [Sessions -> Nat]
  /\ loadedas \in [Pages -> Sessions]
  /\ hasty \in [Pages -> BOOLEAN]

\* Who a page is logged in as has a login and a password that were typed in
\* there, whatever was refused, given up or answered late in between.
SessionIsOwner ==
  \A p \in Pages : cookie[p] # 0 =>
    <<users[cookie[p]].login, users[cookie[p]].password>> \in tried[p]

\* A row of the table of branches is there because the user it belongs to has
\* clicked for it, once for each, though requests are given up and carried
\* out later, when the page may be logged in as someone else.
RowsOwned ==
  \A u \in 1..Len(users) : Rows(rows, u) <= creates[u]

\* A page lists what it has made itself, and branches of the user it was
\* loaded as, also after logging in as another.
ListsOwn ==
  \A p \in Pages : \A b \in docs[p] \ {FirstBranch} :
    /\ loadedas[p] # 0
    /\ b.id \in 1..Len(rows) /\ rows[b.id].user = loadedas[p]

\* On a page that is not clicked on while it waits, an answer acts on the view
\* that its request was made in, and a click on the graph on the graph; on
\* others both may replace whatever they find.
AnswersInPlace ==
  \A p \in Pages : ~hasty[p] =>
    /\ \A r \in Waiting(p) : ~r.left
    /\ armed[p] # "no" => view[p] = "graph"

\* A page gets past its loading view, without a server too: a request that
\* fails calls success() after failure().
LoadingEnds == \A p \in Pages : view[p] = "loading" ~> view[p] # "loading"
=============================================================================
