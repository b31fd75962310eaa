--------------------------- MODULE AccountsProofs ---------------------------
(***************************************************************************)
(* Proofs about Accounts, for every set of pages, logins and passwords,    *)
(* whatever the tables hold and however many requests are under way.       *)
(***************************************************************************)
EXTENDS Accounts, FiniteSetTheorems, SequenceTheorems, TLAPS

(***************************************************************************)
(* Types.  A graph can be left for the editor only if its document is one  *)
(* that the page knows, which is so since drawing takes it from there.     *)
(***************************************************************************)
DrawnKnown ==
  \A p \in Pages :
    armed[p] # "no" => \E b \in docs[p] : b.document = drawn[p]

Types == TypeOK /\ DrawnKnown

\* A request that is sent is a call.
LEMMA SentType ==
  ASSUME TypeOK, NEW p \in Pages, sent < MaxRequests,
         NEW kind \in Kinds,
         NEW login \in LoginOrNone, NEW password \in PasswordOrNone
  PROVE  /\ Sent(p, kind, login, password) \in Calls
         /\ sent + 1 \in 0..MaxRequests
<1>1. sent \in Nat /\ sent + 1 \in Nat /\ sent + 1 <= MaxRequests
  BY AccountsAssumption DEF TypeOK
<1>2. cookie[p] \in Sessions /\ 0 \in Sessions
  <2>1. Len(users) \in Nat /\ Len(users) <= MaxRows
    BY LenProperties DEF TypeOK
  <2>2. cookie[p] \in 0..Len(users)
    BY DEF TypeOK
  <2>3. QED
    BY <2>1, <2>2, AccountsAssumption DEF Sessions
<1>3. QED
  BY <1>1, <1>2 DEF Sent, Calls

\* Noting that the page has left, or given up, or got an answer, gives a call.
LEMMA CallChanged ==
  ASSUME NEW r \in Calls
  PROVE  /\ [r EXCEPT !.left = TRUE] \in Calls
         /\ [r EXCEPT !.awaited = FALSE] \in Calls
<1>1. [r EXCEPT !.left = TRUE] \in Calls
  BY ZenonT(30) DEF Calls
<1>2. [r EXCEPT !.awaited = FALSE] \in Calls
  BY ZenonT(30) DEF Calls
<1>3. QED
  BY <1>1, <1>2

\* s is the call r, with something noted of it or not.
Same(s, r) ==
  /\ s.page = r.page /\ s.kind = r.kind /\ s.login = r.login
  /\ s.password = r.password /\ s.cookie = r.cookie

Noted(s, r) ==
  /\ Same(s, r)
  /\ s.status = r.status /\ s.session = r.session /\ s.found = r.found
  /\ s.served = r.served

\* What stays the same.
LEMMA CallKept ==
  ASSUME NEW r \in Calls
  PROVE  /\ Noted(r, r)
         /\ Noted([r EXCEPT !.left = TRUE], r)
         /\ [r EXCEPT !.left = TRUE].awaited = r.awaited
         /\ Noted([r EXCEPT !.awaited = FALSE], r)
         /\ [r EXCEPT !.awaited = FALSE].awaited = FALSE
<1>1. Noted([r EXCEPT !.left = TRUE], r)
  BY Zenon DEF Calls, Noted, Same
<1>2. [r EXCEPT !.left = TRUE].awaited = r.awaited
  BY Zenon DEF Calls
<1>3. Noted([r EXCEPT !.awaited = FALSE], r)
  BY Zenon DEF Calls, Noted, Same
<1>4. [r EXCEPT !.awaited = FALSE].awaited = FALSE
  BY Zenon DEF Calls
<1>5. QED
  BY <1>1, <1>2, <1>3, <1>4 DEF Noted, Same

\* What an answer adds.
LEMMA AnswerKept ==
  ASSUME NEW r \in Calls, NEW status \in {0, 200, 400},
         NEW session \in Sessions, NEW found \in SUBSET Listings
  PROVE  /\ WithAnswer(r, status, session, found) \in Calls
         /\ Same(WithAnswer(r, status, session, found), r)
         /\ WithAnswer(r, status, session, found).awaited = r.awaited
         /\ WithAnswer(r, status, session, found).left = r.left
         /\ WithAnswer(r, status, session, found).served
         /\ WithAnswer(r, status, session, found).session = session
         /\ WithAnswer(r, status, session, found).found = found
<1>1. /\ WithAnswer(r, status, session, found).awaited = r.awaited
      /\ WithAnswer(r, status, session, found).left = r.left
  BY Zenon DEF Calls, WithAnswer
<1>2. Same(WithAnswer(r, status, session, found), r)
  BY Zenon DEF Calls, Same, WithAnswer
<1>3. WithAnswer(r, status, session, found).served
  BY Zenon DEF Calls, WithAnswer
<1>4. /\ WithAnswer(r, status, session, found).session = session
      /\ WithAnswer(r, status, session, found).found = found
  BY Zenon DEF Calls, WithAnswer
<1>5. WithAnswer(r, status, session, found) \in Calls
  BY ZenonT(30) DEF Calls, WithAnswer
<1>6. QED
  BY <1>1, <1>2, <1>3, <1>4, <1>5

\* Going to another view and drawing a graph, as far as calls go.
LEMMA FoundType ==
  ASSUME TypeOK, NEW u \in Sessions
  PROVE  RowsOf(u) \in SUBSET Listings
<1>1. ASSUME NEW i \in 1..Len(rows)
      PROVE  Listing(i) \in Listings
  <2>1. rows[i] \in [user : 1..Len(users), parent : Garbage, document : Garbage]
    BY ElementOfSeq DEF TypeOK
  <2>2. i \in Nat
    BY LenProperties DEF TypeOK
  <2>3. QED
    BY <2>1, <2>2, AccountsAssumption DEF Listing, Listings
<1>2. QED
  BY <1>1 DEF RowsOf

\* A call of a view that has been left.
LEMMA LeavingCalls ==
  ASSUME NEW p \in Pages, NEW S \in SUBSET Calls
  PROVE  \A s \in Leaving(p, S) :
           /\ s \in Calls
           /\ \E r \in S : Noted(s, r) /\ s.awaited = r.awaited
<1>1. \A s \in Leaving(p, S) : \E r \in S : s = r \/ s = [r EXCEPT !.left = TRUE]
  BY DEF Leaving
<1>2. ASSUME NEW r \in S
      PROVE  /\ r \in Calls /\ Noted(r, r)
             /\ [r EXCEPT !.left = TRUE] \in Calls
             /\ Noted([r EXCEPT !.left = TRUE], r)
             /\ [r EXCEPT !.left = TRUE].awaited = r.awaited
  BY CallChanged, CallKept
<1>3. SUFFICES ASSUME NEW s \in Leaving(p, S)
               PROVE  s \in Calls /\ \E r \in S : Noted(s, r) /\ s.awaited = r.awaited
  OBVIOUS
<1>4. PICK r \in S : s = r \/ s = [r EXCEPT !.left = TRUE]
  BY <1>1
<1>5. QED
  BY <1>2, <1>4

-----------------------------------------------------------------------------
(***************************************************************************)
(* The inductive invariant behind who is logged in and what is listed: a   *)
(* call carries what was typed in, the session that it was answered with   *)
(* is that user, what it found is of the user that it was sent as, and on  *)
(* a page that still waits that is the user it was loaded as.              *)
(***************************************************************************)
Good(r) ==
  /\ r.cookie \in 0..Len(users)
  /\ r.kind \in {"login", "user"} => r.login \in Logins /\ r.password \in Passwords
  /\ r.kind = "login" => <<r.login, r.password>> \in tried[r.page]
  /\ r.session # 0 =>
       /\ r.kind = "login" /\ r.session \in 1..Len(users)
       /\ users[r.session].login = r.login
       /\ users[r.session].password = r.password
  /\ r.awaited /\ r.kind = "branches" => r.cookie = loadedas[r.page]
  /\ r.found # {} => r.kind = "branches"
  /\ \A b \in r.found : b.id \in 1..Len(rows) /\ rows[b.id].user = r.cookie

IInv ==
  /\ Types
  /\ \A r \in calls : Good(r)
  /\ SessionIsOwner
  /\ ListsOwn

\* The tables only grow.
Grows ==
  /\ Len(users') \in Nat /\ Len(users) \in Nat /\ Len(users') >= Len(users)
  /\ \A i \in 1..Len(users) : users'[i] = users[i]
  /\ Len(rows') \in Nat /\ Len(rows) \in Nat /\ Len(rows') >= Len(rows)
  /\ \A i \in 1..Len(rows) : rows'[i] = rows[i]

LEMMA GrowsNot ==
  ASSUME TypeOK, UNCHANGED tables
  PROVE  Grows
BY LenProperties DEF TypeOK, Grows, tables

\* What is noted of a call leaves it as good as it was.
LEMMA GoodKept ==
  ASSUME NEW r, Good(r), NEW s, Noted(s, r), s.awaited => r.awaited,
         Grows, tried[r.page] \subseteq tried'[r.page],
         s.awaited => loadedas'[r.page] = loadedas[r.page]
  PROVE  Good(s)'
<1>1. /\ s.cookie \in 0..Len(users')
      /\ s.kind \in {"login", "user"} => s.login \in Logins /\ s.password \in Passwords
  BY DEF Good, Grows, Noted, Same
<1>2. s.kind = "login" => <<s.login, s.password>> \in tried'[s.page]
  BY DEF Good, Noted, Same
<1>3. s.session # 0 =>
        /\ s.kind = "login" /\ s.session \in 1..Len(users')
        /\ users'[s.session].login = s.login
        /\ users'[s.session].password = s.password
  BY DEF Good, Grows, Noted, Same
<1>4. s.awaited /\ s.kind = "branches" => s.cookie = loadedas'[s.page]
  BY DEF Good, Noted, Same
<1>5. /\ s.found # {} => s.kind = "branches"
      /\ \A b \in s.found : b.id \in 1..Len(rows') /\ rows'[b.id].user = s.cookie
  BY DEF Good, Grows, Noted, Same
<1>6. QED
  BY <1>1, <1>2, <1>3, <1>4, <1>5 DEF Good
-----------------------------------------------------------------------------
(***************************************************************************)
(* The server.  What is left of TypeOK when the tables and calls change.   *)
(***************************************************************************)
TablesOK ==
  /\ users \in Seq([login : Logins, password : Passwords]) /\ Len(users) <= MaxRows
  /\ rows \in Seq([user : 1..Len(users), parent : Garbage, document : Garbage])
  /\ Len(rows) <= MaxRows

CallsOK ==
  /\ calls \subseteq Calls
  /\ \A r \in calls : r.awaited \/ ~r.served

\* The users' table as it was.
LEMMA TablesKept ==
  ASSUME TypeOK, UNCHANGED tables
  PROVE  TablesOK' /\ Grows
BY GrowsNot DEF TypeOK, TablesOK, tables

\* The calls after an answer that is as good as the call was.
LEMMA AnsweredGood ==
  ASSUME IInv, NEW r \in calls, NEW status \in {0, 200, 400},
         NEW session \in Sessions, NEW found \in SUBSET Listings,
         Answered(r, status, session, found), Grows,
         UNCHANGED past,
         session # 0 =>
           /\ r.kind = "login" /\ session \in 1..Len(users')
           /\ users'[session].login = r.login
           /\ users'[session].password = r.password,
         found # {} => r.kind = "branches",
         \A b \in found : b.id \in 1..Len(rows') /\ rows'[b.id].user = r.cookie
  PROVE  CallsOK' /\ \A s \in calls' : Good(s)'
<1> DEFINE answer == WithAnswer(r, status, session, found)
<1>1. r \in Calls /\ \A s \in calls : s \in Calls /\ (s.awaited \/ ~s.served)
  BY DEF IInv, Types, TypeOK
<1>2. /\ answer \in Calls /\ answer.awaited = r.awaited /\ Same(answer, r)
      /\ answer.served /\ answer.session = session /\ answer.found = found
  BY <1>1, AnswerKept
<1>3. \A s \in calls' : s \in calls \/ (r.awaited /\ s = answer)
  BY DEF Answered
<1>4. CallsOK'
  BY <1>1, <1>2, <1>3 DEF CallsOK
<1>5. tried' = tried /\ loadedas' = loadedas
  BY DEF past
<1>6. ASSUME NEW s \in calls
      PROVE  Good(s)'
  <2>1. Good(s) /\ Noted(s, s)
    BY <1>1, CallKept DEF IInv
  <2>2. tried[s.page] \subseteq tried'[s.page] /\ loadedas'[s.page] = loadedas[s.page]
    BY <1>5
  <2>3. QED
    BY <2>1, <2>2, GoodKept
<1>7. Good(answer)'
  <2>1. Good(r) /\ Good(r)'
    BY <1>6 DEF IInv
  <2> HIDE DEF answer
  <2>2. QED
    BY <1>2, <1>5, <2>1 DEF Good, Same
<1>8. QED
  BY <1>3, <1>4, <1>6, <1>7
-----------------------------------------------------------------------------
\* What a handler has done when it is as good as the answer it gives.
Served == TablesOK' /\ Grows /\ CallsOK' /\ \A s \in calls' : Good(s)'

\* A refusal.
LEMMA RefusedStep ==
  ASSUME IInv, NEW r \in calls, Refused(r), UNCHANGED past
  PROVE  Served
<1>1. Answered(r, 400, 0, {}) /\ UNCHANGED tables
  BY DEF Refused
<1>2. TablesOK' /\ Grows
  BY <1>1, TablesKept DEF IInv, Types
<1>3. 0 \in Sessions
  BY AccountsAssumption DEF Sessions
<1>4. QED
  BY <1>1, <1>2, <1>3, AnsweredGood DEF Served

\* login: the session is the user whose login and password were compared.
LEMMA LoginStep ==
  ASSUME IInv, NEW r \in calls, r.kind = "login", Login(r), UNCHANGED past
  PROVE  Served
<1>1. CASE Refused(r)
  BY <1>1, RefusedStep
<1>2. ASSUME NEW u \in 1..Len(users), users[u].login = r.login,
             users[u].password = r.password, Answered(r, 200, u, {}), UNCHANGED tables
      PROVE  Served
  <2>1. TablesOK' /\ Grows
    BY <1>2, TablesKept DEF IInv, Types
  <2>2. u \in Sessions
    BY AccountsAssumption, LenProperties DEF IInv, Types, TypeOK, Sessions
  <2>3. users' = users
    BY <1>2 DEF tables
  <2>4. QED
    BY <1>2, <2>1, <2>2, <2>3, AnsweredGood DEF Served
<1>3. QED
  BY <1>1, <1>2 DEF Login

\* user: a row is added to the table of users.
LEMMA RegisterStep ==
  ASSUME IInv, NEW r \in calls, r.kind = "user", Register(r), UNCHANGED past
  PROVE  Served
<1>1. CASE Refused(r)
  BY <1>1, RefusedStep
<1>2. CASE /\ Len(users) < MaxRows
           /\ users' = Append(users, [login |-> r.login, password |-> r.password])
           /\ Answered(r, 200, 0, {}) /\ UNCHANGED rows
  <2>1. [login |-> r.login, password |-> r.password] \in [login : Logins, password : Passwords]
    BY DEF IInv, Good
  <2>2. users \in Seq([login : Logins, password : Passwords]) /\ Len(users) \in Nat
    BY LenProperties DEF IInv, Types, TypeOK
  <2>3. /\ users' \in Seq([login : Logins, password : Passwords])
        /\ Len(users') = Len(users) + 1
        /\ \A i \in 1..Len(users) : users'[i] = users[i]
    BY <1>2, <2>1, <2>2, AppendProperties
  <2>4. rows' \in Seq([user : 1..Len(users'), parent : Garbage, document : Garbage])
    <3> DEFINE R(n) == [user : 1..n, parent : Garbage, document : Garbage]
    <3>1. R(Len(users)) \subseteq R(Len(users'))
      BY <2>2, <2>3
    <3>2. rows \in Seq(R(Len(users)))
      BY DEF IInv, Types, TypeOK
    <3> HIDE DEF R
    <3>3. rows \in Seq(R(Len(users')))
      BY <3>1, <3>2, SeqMonotonic
    <3>4. QED
      BY <1>2, <3>3 DEF R
  <2>5. TablesOK'
    BY <1>2, <2>2, <2>3, <2>4, AccountsAssumption DEF TablesOK, IInv, Types, TypeOK
  <2>6. Grows
    BY <1>2, <2>2, <2>3, LenProperties DEF Grows, IInv, Types, TypeOK
  <2>7. 0 \in Sessions
    BY AccountsAssumption DEF Sessions
  <2>8. QED
    BY <1>2, <2>5, <2>6, <2>7, AnsweredGood DEF Served
<1>3. QED
  BY <1>1, <1>2 DEF Register

\* branches: what is found is of the user that the request came from.
LEMMA BranchesStep ==
  ASSUME IInv, NEW r \in calls, r.kind = "branches", Branches(r), UNCHANGED past
  PROVE  Served
<1>1. CASE Refused(r)
  BY <1>1, RefusedStep
<1>2. CASE Answered(r, 200, 0, RowsOf(r.cookie)) /\ UNCHANGED tables
  <2>1. TablesOK' /\ Grows
    BY <1>2, TablesKept DEF IInv, Types
  <2>2. 0 \in Sessions
    BY AccountsAssumption DEF Sessions
  <2>3. RowsOf(r.cookie) \in SUBSET Listings
    <3>1. r.cookie \in Sessions
      BY DEF IInv, Types, TypeOK, Calls
    <3>2. QED
      BY <3>1, FoundType DEF IInv, Types
  <2>4. \A b \in RowsOf(r.cookie) :
          b.id \in 1..Len(rows') /\ rows'[b.id].user = r.cookie
    BY <1>2 DEF RowsOf, Listing, tables
  <2>5. QED
    BY <1>2, <2>1, <2>2, <2>3, <2>4, AnsweredGood DEF Served
<1>3. QED
  BY <1>1, <1>2 DEF Branches

\* newbranch: a row is added for the user that the request came from.
LEMMA NewBranchStep ==
  ASSUME IInv, NEW r \in calls, r.kind = "newbranch", NewBranch(r), UNCHANGED past
  PROVE  Served
<1>1. CASE Refused(r)
  BY <1>1, RefusedStep
<1>2. ASSUME NEW parent \in Garbage, NEW document \in Garbage,
             r.cookie # 0, Len(rows) < MaxRows,
             rows' = Append(rows, [user |-> r.cookie, parent |-> parent,
                                   document |-> document]),
             Answered(r, 200, 0, {}), UNCHANGED users
      PROVE  Served
  <2> DEFINE R == [user : 1..Len(users), parent : Garbage, document : Garbage]
  <2>1. [user |-> r.cookie, parent |-> parent, document |-> document] \in R
    <3>1. r.cookie \in 0..Len(users) /\ Len(users) \in Nat
      BY LenProperties DEF IInv, Good, Types, TypeOK
    <3>2. r.cookie \in 1..Len(users)
      BY <1>2, <3>1
    <3>3. QED
      BY <1>2, <3>2
  <2>2. rows \in Seq(R) /\ Len(rows) \in Nat
    BY LenProperties DEF IInv, Types, TypeOK
  <2> HIDE DEF R
  <2>3. /\ rows' \in Seq(R)
        /\ Len(rows') = Len(rows) + 1
        /\ \A i \in 1..Len(rows) : rows'[i] = rows[i]
    BY <1>2, <2>1, <2>2, AppendProperties
  <2> USE DEF R
  <2>4. TablesOK'
    BY <1>2, <2>2, <2>3, AccountsAssumption DEF TablesOK, IInv, Types, TypeOK
  <2>5. Grows
    BY <1>2, <2>2, <2>3, LenProperties DEF Grows, IInv, Types, TypeOK
  <2>6. 0 \in Sessions
    BY AccountsAssumption DEF Sessions
  <2>7. QED
    BY <1>2, <2>4, <2>5, <2>6, AnsweredGood DEF Served
<1>3. QED
  BY <1>1, <1>2 DEF NewBranch
-----------------------------------------------------------------------------
(***************************************************************************)
(* The rest of Types, and what goes on from one step to the next.          *)
(***************************************************************************)
PageOK ==
  /\ view \in [Pages -> Views]
  /\ armed \in [Pages -> {"no", "armed", "ending"}]
  /\ drawn \in [Pages -> Int] /\ edited \in [Pages -> Int]
  /\ cookie \in [Pages -> 0..Len(users)]
  /\ docs \in [Pages -> SUBSET Listings]
  /\ \A p \in Pages :
       view[p] = "editor" => \E b \in docs[p] : b.document = edited[p]
  /\ DrawnKnown

PastOK ==
  /\ sent \in 0..MaxRequests
  /\ tried \in [Pages -> SUBSET (Logins \X Passwords)]
  /\ creates \in [Sessions -> Nat]
  /\ loadedas \in [Pages -> Sessions]
  /\ hasty \in [Pages -> BOOLEAN]

LEMMA Parts ==
  /\ Types <=> TablesOK /\ CallsOK /\ PageOK /\ PastOK
  /\ Types' <=> TablesOK' /\ CallsOK' /\ PageOK' /\ PastOK'
BY DEF Types, TypeOK, TablesOK, CallsOK, PageOK, PastOK

\* Who is logged in stays who it was.
LEMMA OwnersStay ==
  ASSUME PageOK, SessionIsOwner, Grows,
         \A p \in Pages : tried[p] \subseteq tried'[p],
         \A p \in Pages : cookie'[p] = cookie[p] \/ cookie'[p] = 0
  PROVE  SessionIsOwner'
<1> SUFFICES ASSUME NEW p \in Pages, cookie'[p] # 0
             PROVE  <<users'[cookie'[p]].login, users'[cookie'[p]].password>> \in tried'[p]
  BY DEF SessionIsOwner
<1>1. cookie'[p] = cookie[p] /\ cookie[p] \in 0..Len(users)
  BY DEF PageOK
<1>2. cookie[p] \in 1..Len(users)
  BY <1>1 DEF Grows
<1>3. users'[cookie'[p]] = users[cookie[p]]
  BY <1>1, <1>2 DEF Grows
<1>4. QED
  BY <1>1, <1>3 DEF SessionIsOwner

\* What is listed stays what it was.
LEMMA ListsStay ==
  ASSUME ListsOwn, Grows,
         \A p \in Pages :
           \/ docs'[p] = {}
           \/ docs'[p] \subseteq docs[p] \cup {FirstBranch} /\ loadedas'[p] = loadedas[p]
  PROVE  ListsOwn'
<1> SUFFICES ASSUME NEW p \in Pages, NEW b \in docs'[p] \ {FirstBranch}
             PROVE  /\ loadedas'[p] # 0
                    /\ b.id \in 1..Len(rows') /\ rows'[b.id].user = loadedas'[p]
  BY DEF ListsOwn, FirstBranch
<1>1. b \in docs[p] \ {FirstBranch} /\ loadedas'[p] = loadedas[p]
  OBVIOUS
<1>2. /\ loadedas[p] # 0
      /\ b.id \in 1..Len(rows) /\ rows[b.id].user = loadedas[p]
  BY <1>1 DEF ListsOwn
<1>3. QED
  BY <1>1, <1>2 DEF Grows

\* A handler keeps the invariant.
LEMMA ServeStep ==
  ASSUME IInv, NEW r \in calls, Serve(r)
  PROVE  IInv'
<1>1. UNCHANGED <<page, sent, past>>
  BY DEF Serve
<1>2. r.kind \in Kinds
  BY DEF IInv, Types, TypeOK, Calls
<1>3. Served
  BY <1>1, <1>2, LoginStep, RegisterStep, BranchesStep, NewBranchStep
  DEF Serve, Kinds
<1>4. PageOK'
  <2>1. \A n \in 0..Len(users) : n \in 0..Len(users')
    BY <1>3 DEF Served, Grows
  <2>2. cookie' \in [Pages -> 0..Len(users')]
    BY <1>1, <2>1 DEF IInv, Types, TypeOK, page
  <2>3. QED
    BY <1>1, <2>2 DEF IInv, Types, TypeOK, page, PageOK, DrawnKnown
<1>5. PastOK'
  BY <1>1 DEF IInv, Types, TypeOK, past, PastOK
<1>6. Types'
  BY <1>3, <1>4, <1>5, Parts DEF Served
<1>7. SessionIsOwner'
  BY <1>1, <1>3, OwnersStay, Parts DEF IInv, Served, page, past
<1>8. ListsOwn'
  BY <1>1, <1>3, ListsStay DEF IInv, Served, page, past
<1>9. QED
  BY <1>3, <1>6, <1>7, <1>8 DEF IInv, Served
-----------------------------------------------------------------------------
(***************************************************************************)
(* The page.                                                               *)
(***************************************************************************)

\* A request as it is sent.
LEMMA SentFields ==
  ASSUME NEW p, NEW kind, NEW login, NEW password, NEW s,
         s = Sent(p, kind, login, password)
  PROVE  /\ s.page = p /\ s.kind = kind /\ s.login = login /\ s.password = password
         /\ s.cookie = cookie[p] /\ s.session = 0 /\ s.found = {}
         /\ s.awaited /\ ~s.served /\ ~s.left
BY DEF Sent

\* A call that was there before the page did something.
WasThere(s) ==
  \E r \in calls : /\ Noted(s, r)
                   /\ s.awaited => r.awaited /\ loadedas'[r.page] = loadedas[r.page]

LEMMA WasGood ==
  ASSUME IInv, UNCHANGED tables, NEW s, WasThere(s),
         \A p \in Pages : tried[p] \subseteq tried'[p]
  PROVE  Good(s)'
<1>1. PICK r \in calls :
        /\ Noted(s, r)
        /\ s.awaited => r.awaited /\ loadedas'[r.page] = loadedas[r.page]
  BY DEF WasThere
<1>2. Good(r) /\ r.page \in Pages
  BY DEF IInv, Types, TypeOK, Calls
<1>3. Grows
  BY GrowsNot DEF IInv, Types
<1>4. QED
  BY <1>1, <1>2, <1>3, GoodKept

\* What a step of the page has to show.
LEMMA PageStep ==
  ASSUME IInv, UNCHANGED tables, CallsOK', PageOK', PastOK',
         \A s \in calls' : Good(s)', SessionIsOwner', ListsOwn'
  PROVE  IInv'
BY TablesKept, Parts DEF IInv, Types

PageTypes ==
  /\ view \in [Pages -> Views]
  /\ armed \in [Pages -> {"no", "armed", "ending"}]
  /\ drawn \in [Pages -> Int] /\ edited \in [Pages -> Int]
  /\ cookie \in [Pages -> 0..Len(users)]
  /\ docs \in [Pages -> SUBSET Listings]

\* What one page has to show.
LEMMA AtPage ==
  ASSUME IInv, NEW p \in Pages, PageTypes',
         \A q \in Pages \ {p} : /\ view'[q] = view[q] /\ armed'[q] = armed[q]
                               /\ drawn'[q] = drawn[q] /\ edited'[q] = edited[q]
                               /\ docs'[q] = docs[q],
         view'[p] = "editor" => \E b \in docs'[p] : b.document = edited'[p],
         armed'[p] # "no" => \E b \in docs'[p] : b.document = drawn'[p]
  PROVE  PageOK'
<1>1. \A q \in Pages :
        view'[q] = "editor" => \E b \in docs'[q] : b.document = edited'[q]
  BY DEF IInv, Types, TypeOK
<1>2. DrawnKnown'
  BY DEF DrawnKnown, IInv, Types
<1>3. QED
  BY <1>1, <1>2 DEF PageOK, PageTypes

\* The page is loaded: it waits for the branches of its session.
LEMMA LoadStep ==
  ASSUME IInv, NEW p \in Pages, Load(p)
  PROVE  IInv'
<1>0. PICK new : new = Sent(p, "branches", 0, 0)
  OBVIOUS
<1> DEFINE GivenUp(r) == IF r.page = p THEN [r EXCEPT !.awaited = FALSE] ELSE r
<1>1. /\ UNCHANGED tables /\ UNCHANGED cookie /\ UNCHANGED tried /\ UNCHANGED creates
      /\ sent < MaxRequests /\ sent' = sent + 1
      /\ view' = [view EXCEPT ![p] = "loading"]
      /\ armed' = [armed EXCEPT ![p] = "no"]
      /\ drawn' = [drawn EXCEPT ![p] = 0]
      /\ edited' = [edited EXCEPT ![p] = 0]
      /\ docs' = [docs EXCEPT ![p] = {}]
      /\ loadedas' = [loadedas EXCEPT ![p] = cookie[p]]
      /\ hasty' = [hasty EXCEPT ![p] = FALSE]
  BY DEF Load
<1>2. \A s \in calls' :
        \/ s = new
        \/ (s.awaited \/ ~s.served) /\ \E r \in calls : s = GivenUp(r)
  BY <1>0 DEF Load
<1>3. /\ TypeOK /\ users' = users
      /\ calls \subseteq Calls
  BY <1>1 DEF IInv, Types, TypeOK, tables
<1>4. /\ new \in Calls /\ sent' \in 0..MaxRequests
  BY <1>0, <1>1, <1>3, SentType DEF Kinds, LoginOrNone, PasswordOrNone
<1>5. /\ new.awaited /\ new.page = p /\ new.cookie = cookie[p]
      /\ new.session = 0 /\ new.found = {} /\ new.kind = "branches"
  BY <1>0, SentFields
<1>6. ASSUME NEW r \in calls
      PROVE  /\ GivenUp(r) \in Calls /\ Noted(GivenUp(r), r)
             /\ GivenUp(r).awaited => r.awaited /\ r.page # p
  BY <1>3, CallChanged, CallKept
<1> HIDE DEF GivenUp
<1>7. CallsOK'
  BY <1>2, <1>4, <1>5, <1>6 DEF CallsOK
<1>8. PageOK'
  <2>1. PageTypes'
    BY <1>1, <1>3 DEF TypeOK, Views, PageTypes
  <2>2. /\ view'[p] = "loading" /\ armed'[p] = "no"
        /\ \A q \in Pages \ {p} : /\ view'[q] = view[q] /\ armed'[q] = armed[q]
                                  /\ drawn'[q] = drawn[q] /\ edited'[q] = edited[q]
                                  /\ docs'[q] = docs[q]
    BY <1>1, <1>3 DEF TypeOK
  <2>3. QED
    BY <2>1, <2>2, AtPage
<1>9. cookie[p] \in Sessions /\ cookie[p] \in 0..Len(users)
  <2>1. Len(users) \in Nat /\ Len(users) <= MaxRows /\ cookie[p] \in 0..Len(users)
    BY <1>3, LenProperties DEF TypeOK
  <2>2. QED
    BY <2>1, AccountsAssumption DEF Sessions
<1>10. PastOK'
  BY <1>1, <1>3, <1>4, <1>9 DEF PastOK, TypeOK
<1>11. Good(new)'
  BY <1>1, <1>3, <1>5, <1>9 DEF Good, TypeOK
<1>12. ASSUME NEW r \in calls
       PROVE  Good(GivenUp(r))'
  <2>1. r.page \in Pages
    BY <1>3 DEF Calls
  <2>2. r.page # p => loadedas'[r.page] = loadedas[r.page]
    BY <1>1, <1>3, <2>1 DEF TypeOK
  <2>3. WasThere(GivenUp(r))
    BY <1>6, <2>2 DEF WasThere
  <2>4. QED
    BY <1>1, <2>3, WasGood
<1>13. SessionIsOwner'
  BY <1>1, <1>3, OwnersStay, GrowsNot, Parts DEF IInv
<1>14. ListsOwn'
  <2>1. \A q \in Pages :
          \/ docs'[q] = {}
          \/ docs'[q] \subseteq docs[q] \cup {FirstBranch} /\ loadedas'[q] = loadedas[q]
    BY <1>1, <1>3 DEF TypeOK
  <2>2. QED
    BY <1>1, <1>3, <2>1, ListsStay, GrowsNot DEF IInv
<1>15. QED
  BY <1>1, <1>2, <1>7, <1>8, <1>10, <1>11, <1>12, <1>13, <1>14, PageStep

\* A page that does no more than send a request: it knows what it has typed in.
LEMMA SendStep ==
  ASSUME IInv, NEW p \in Pages, NEW kind \in Kinds \ {"branches"},
         NEW login \in LoginOrNone, NEW password \in PasswordOrNone,
         sent < MaxRequests, calls' = calls \cup {Sent(p, kind, login, password)},
         sent' = sent + 1, UNCHANGED <<tables, page, loadedas>>,
         kind \in {"login", "user"} => login \in Logins /\ password \in Passwords,
         tried' \in [Pages -> SUBSET (Logins \X Passwords)],
         \A q \in Pages : tried[q] \subseteq tried'[q],
         kind = "login" => <<login, password>> \in tried'[p],
         creates' \in [Sessions -> Nat], hasty' \in [Pages -> BOOLEAN]
  PROVE  IInv'
<1>0. PICK new : new = Sent(p, kind, login, password)
  OBVIOUS
<1>1. TypeOK /\ users' = users /\ calls \subseteq Calls
  BY DEF IInv, Types, TypeOK, tables
<1>2. new \in Calls /\ sent' \in 0..MaxRequests
  BY <1>0, <1>1, SentType
<1>3. /\ new.page = p /\ new.kind = kind /\ new.login = login
      /\ new.password = password /\ new.cookie = cookie[p] /\ new.session = 0
      /\ new.found = {} /\ new.awaited
  BY <1>0, SentFields
<1>4. CallsOK'
  BY <1>0, <1>1, <1>2, <1>3 DEF CallsOK, TypeOK
<1>5. PageOK'
  BY <1>1 DEF page, PageOK, DrawnKnown, TypeOK, IInv, Types
<1>6. PastOK'
  BY <1>1, <1>2 DEF PastOK, TypeOK
<1>7. cookie[p] \in 0..Len(users)
  BY <1>1 DEF TypeOK
<1>8. Good(new)'
  BY <1>1, <1>3, <1>7 DEF Good
<1>9. ASSUME NEW s \in calls
      PROVE  Good(s)'
  <2>1. WasThere(s)
    BY <1>1, CallKept DEF WasThere
  <2>2. QED
    BY <2>1, WasGood
<1>10. SessionIsOwner' /\ ListsOwn'
  <2>1. PageOK /\ Grows
    BY <1>1, Parts, GrowsNot DEF IInv
  <2>2. SessionIsOwner'
    BY <2>1, OwnersStay DEF IInv, page
  <2>3. ListsOwn'
    BY <2>1, ListsStay DEF IInv, page
  <2>4. QED
    BY <2>2, <2>3
<1>11. QED
  BY <1>0, <1>4, <1>5, <1>6, <1>8, <1>9, <1>10, PageStep

LEMMA ClickLoginStep ==
  ASSUME IInv, NEW p \in Pages, NEW kind \in {"login", "user"},
         NEW login \in Logins, NEW password \in Passwords,
         ClickLogin(p, kind, login, password)
  PROVE  IInv'
<1>1. /\ tried \in [Pages -> SUBSET (Logins \X Passwords)]
      /\ hasty \in [Pages -> BOOLEAN] /\ creates \in [Sessions -> Nat]
  BY DEF IInv, Types, TypeOK
<1>2. /\ tried' \in [Pages -> SUBSET (Logins \X Passwords)]
      /\ \A q \in Pages : tried[q] \subseteq tried'[q]
      /\ kind = "login" => <<login, password>> \in tried'[p]
  BY <1>1 DEF ClickLogin
<1>3. hasty' \in [Pages -> BOOLEAN]
  BY <1>1 DEF ClickLogin, Clicked
<1>4. QED
  BY <1>1, <1>2, <1>3, SendStep DEF ClickLogin, Kinds, LoginOrNone, PasswordOrNone

LEMMA ClickCreateStep ==
  ASSUME IInv, NEW p \in Pages, ClickCreate(p)
  PROVE  IInv'
<1>1. /\ tried \in [Pages -> SUBSET (Logins \X Passwords)]
      /\ hasty \in [Pages -> BOOLEAN] /\ creates \in [Sessions -> Nat]
  BY DEF IInv, Types, TypeOK
<1>2. creates' \in [Sessions -> Nat]
  <2>1. PICK u : u = cookie[p]
    OBVIOUS
  <2>2. creates' = [creates EXCEPT ![u] = creates[u] + 1]
    BY <2>1 DEF ClickCreate
  <2>3. \A v \in Sessions : creates[v] \in Nat /\ creates[v] + 1 \in Nat
    BY <1>1
  <2>4. QED
    BY <1>1, <2>2, <2>3
<1>3. hasty' \in [Pages -> BOOLEAN]
  BY <1>1 DEF ClickCreate, Clicked
<1>4. QED
  BY <1>1, <1>2, <1>3, SendStep DEF ClickCreate, Kinds, LoginOrNone, PasswordOrNone

\* A page that goes from one view to another, or waits to.
LEMMA MoveStep ==
  ASSUME IInv, NEW p \in Pages,
         UNCHANGED <<tables, docs, sent, tried, creates, loadedas>>,
         calls' = calls \/ calls' = Leaving(p, calls),
         PageTypes', hasty' \in [Pages -> BOOLEAN],
         \A q \in Pages : cookie'[q] = cookie[q] \/ cookie'[q] = 0,
         \A q \in Pages \ {p} : /\ view'[q] = view[q] /\ armed'[q] = armed[q]
                               /\ drawn'[q] = drawn[q] /\ edited'[q] = edited[q],
         view'[p] = "editor" => \E b \in docs[p] : b.document = edited'[p],
         armed'[p] # "no" => \E b \in docs[p] : b.document = drawn'[p]
  PROVE  IInv'
<1>1. TypeOK /\ users' = users /\ calls \in SUBSET Calls
  BY DEF IInv, Types, TypeOK, tables
<1>2. \A s \in calls' : s \in Calls /\ \E r \in calls : Noted(s, r) /\ s.awaited = r.awaited
  BY <1>1, LeavingCalls, CallKept
<1>3. CallsOK'
  BY <1>1, <1>2 DEF CallsOK, TypeOK, Noted
<1>4. PageOK'
  BY AtPage
<1>5. PastOK'
  BY <1>1 DEF PastOK, TypeOK
<1>6. ASSUME NEW s \in calls'
      PROVE  Good(s)'
  <2>1. WasThere(s)
    BY <1>2 DEF WasThere
  <2>2. QED
    BY <2>1, WasGood
<1>7. PageOK /\ Grows
  BY <1>1, Parts, GrowsNot DEF IInv
<1>8. SessionIsOwner'
  BY <1>7, OwnersStay DEF IInv
<1>9. ListsOwn'
  BY <1>7, ListsStay DEF IInv
<1>10. QED
  BY <1>3, <1>4, <1>5, <1>6, <1>8, <1>9, PageStep

LEMMA ClickLogoutStep ==
  ASSUME IInv, NEW p \in Pages, ClickLogout(p)
  PROVE  IInv'
<1>1. TypeOK /\ DrawnKnown
  BY DEF IInv, Types
<1>2. /\ view' = [view EXCEPT ![p] = "login"]
      /\ edited' = [edited EXCEPT ![p] = 0]
      /\ cookie' = [cookie EXCEPT ![p] = 0]
      /\ UNCHANGED <<armed, drawn, tables, docs, sent, tried, creates, loadedas>>
      /\ calls' = Leaving(p, calls)
  BY DEF ClickLogout, Turn, AccountView
<1>3. PageTypes'
  <2>1. 0 \in 0..Len(users)
    BY <1>1, LenProperties DEF TypeOK
  <2>2. QED
    BY <1>1, <1>2, <2>1 DEF TypeOK, PageTypes, Views, tables
<1>4. hasty' \in [Pages -> BOOLEAN]
  BY <1>1 DEF ClickLogout, Turn, Clicked, TypeOK
<1>5. \A q \in Pages : cookie'[q] = cookie[q] \/ cookie'[q] = 0
  BY <1>1, <1>2 DEF TypeOK
<1>6. \A q \in Pages \ {p} : /\ view'[q] = view[q] /\ armed'[q] = armed[q]
                            /\ drawn'[q] = drawn[q] /\ edited'[q] = edited[q]
  BY <1>1, <1>2 DEF TypeOK
<1>7. view'[p] # "editor"
  BY <1>1, <1>2 DEF TypeOK
<1>8. armed'[p] # "no" => \E b \in docs[p] : b.document = drawn'[p]
  BY <1>1, <1>2 DEF DrawnKnown
<1>9. QED
  BY <1>2, <1>3, <1>4, <1>5, <1>6, <1>7, <1>8, MoveStep

LEMMA ClickAccountStep ==
  ASSUME IInv, NEW p \in Pages, ClickAccount(p)
  PROVE  IInv'
<1>1. TypeOK /\ DrawnKnown
  BY DEF IInv, Types
<1>2. /\ view' = [view EXCEPT ![p] = AccountView(cookie[p])]
      /\ edited' = [edited EXCEPT ![p] = 0]
      /\ UNCHANGED <<cookie, armed, drawn, tables, docs, sent, tried, creates, loadedas>>
      /\ calls' = Leaving(p, calls)
  BY DEF ClickAccount, Turn
<1>3. AccountView(cookie[p]) \in Views \ {"editor"}
  BY DEF AccountView, Views
<1>4. PageTypes'
  BY <1>1, <1>2, <1>3 DEF TypeOK, PageTypes, tables
<1>5. hasty' \in [Pages -> BOOLEAN]
  BY <1>1 DEF ClickAccount, Turn, Clicked, TypeOK
<1>6. \A q \in Pages \ {p} : /\ view'[q] = view[q] /\ armed'[q] = armed[q]
                            /\ drawn'[q] = drawn[q] /\ edited'[q] = edited[q]
  BY <1>1, <1>2 DEF TypeOK
<1>7. view'[p] # "editor"
  BY <1>1, <1>2, <1>3 DEF TypeOK
<1>8. armed'[p] # "no" => \E b \in docs[p] : b.document = drawn'[p]
  BY <1>1, <1>2 DEF DrawnKnown
<1>9. QED
  BY <1>2, <1>4, <1>5, <1>6, <1>7, <1>8, MoveStep

\* The graph of a document that the page knows.
LEMMA DrawStep ==
  ASSUME IInv, NEW p \in Pages, NEW from, NEW b \in docs[p], Draw(p, from, b.document)
  PROVE  IInv'
<1>1. TypeOK /\ b \in Listings /\ b.document \in Int
  <2>1. TypeOK
    BY DEF IInv, Types
  <2>2. b \in Listings
    BY <2>1 DEF TypeOK
  <2>3. QED
    BY <2>1, <2>2 DEF Listings
<1>2. PICK v \in {"graph", "blank"}, a \in {"no", "armed"}, d \in {0, b.document} :
        /\ view' = [view EXCEPT ![p] = v]
        /\ armed' = [armed EXCEPT ![p] = a]
        /\ drawn' = [drawn EXCEPT ![p] = d]
        /\ a # "no" => d = b.document
  BY Zenon DEF Draw, Turn
<1>3. /\ edited' = [edited EXCEPT ![p] = 0]
      /\ UNCHANGED <<cookie, tables, docs, sent, tried, creates, loadedas>>
      /\ calls' = Leaving(p, calls)
  BY DEF Draw, Turn
<1>4. PageTypes'
  BY <1>1, <1>2, <1>3 DEF TypeOK, PageTypes, tables, Views
<1>5. hasty' \in [Pages -> BOOLEAN]
  BY <1>1 DEF Draw, Turn, Clicked, TypeOK
<1>6. \A q \in Pages \ {p} : /\ view'[q] = view[q] /\ armed'[q] = armed[q]
                            /\ drawn'[q] = drawn[q] /\ edited'[q] = edited[q]
  BY <1>1, <1>2, <1>3 DEF TypeOK
<1>7. view'[p] # "editor"
  BY <1>1, <1>2 DEF TypeOK
<1>8. armed'[p] # "no" => b.document = drawn'[p]
  BY <1>1, <1>2 DEF TypeOK
<1>9. QED
  BY <1>3, <1>4, <1>5, <1>6, <1>7, <1>8, MoveStep

LEMMA ClickVertexStep ==
  ASSUME IInv, NEW p \in Pages, ClickVertex(p)
  PROVE  IInv'
<1>1. TypeOK /\ DrawnKnown
  BY DEF IInv, Types
<1>2. /\ armed' = [armed EXCEPT ![p] = "ending"] /\ armed[p] = "armed"
      /\ UNCHANGED <<view, drawn, edited, cookie, tables, docs, calls, sent, tried,
                     creates, loadedas>>
  BY DEF ClickVertex
<1>3. PageTypes'
  BY <1>1, <1>2 DEF TypeOK, PageTypes, tables
<1>4. hasty' \in [Pages -> BOOLEAN]
  BY <1>1 DEF ClickVertex, Clicked, TypeOK
<1>5. \A q \in Pages \ {p} : armed'[q] = armed[q]
  BY <1>1, <1>2 DEF TypeOK
<1>6. view'[p] = "editor" => \E b \in docs[p] : b.document = edited'[p]
  BY <1>1, <1>2 DEF TypeOK
<1>7. \E b \in docs[p] : b.document = drawn'[p]
  BY <1>1, <1>2 DEF DrawnKnown
<1>8. QED
  BY <1>2, <1>3, <1>4, <1>5, <1>6, <1>7, MoveStep

LEMMA GraphEndsStep ==
  ASSUME IInv, NEW p \in Pages, GraphEnds(p)
  PROVE  IInv'
<1>1. TypeOK /\ DrawnKnown
  BY DEF IInv, Types
<1>2. /\ armed' = [armed EXCEPT ![p] = "no"] /\ armed[p] = "ending"
      /\ view' = [view EXCEPT ![p] = "editor"]
      /\ drawn' = [drawn EXCEPT ![p] = 0]
      /\ edited' = [edited EXCEPT ![p] = drawn[p]]
      /\ calls' = Leaving(p, calls)
      /\ UNCHANGED <<cookie, tables, docs, sent, tried, creates, loadedas, hasty>>
  BY DEF GraphEnds, past
<1>3. PageTypes'
  BY <1>1, <1>2 DEF TypeOK, PageTypes, tables, Views
<1>4. hasty' \in [Pages -> BOOLEAN]
  BY <1>1, <1>2 DEF TypeOK
<1>5. \A q \in Pages \ {p} : /\ view'[q] = view[q] /\ armed'[q] = armed[q]
                            /\ drawn'[q] = drawn[q] /\ edited'[q] = edited[q]
  BY <1>1, <1>2 DEF TypeOK
<1>6. \E b \in docs[p] : b.document = drawn[p]
  BY <1>1, <1>2 DEF DrawnKnown
<1>7. edited'[p] = drawn[p] /\ armed'[p] = "no"
  BY <1>1, <1>2 DEF TypeOK
<1>8. QED
  BY <1>2, <1>3, <1>4, <1>5, <1>6, <1>7, MoveStep

\* The callbacks of a request: they enter a view, log in as the user that the
\* answer names, and list what it found.
LEMMA CallBackStep ==
  ASSUME IInv, NEW r \in calls, r.awaited, NEW good \in BOOLEAN, CallBack(r, good),
         \A s \in calls' :
           /\ s \in Calls /\ (s.awaited \/ ~s.served)
           /\ \E q \in calls : Noted(s, q) /\ (s.awaited => q.awaited)
  PROVE  IInv'
<1>1. PICK p \in Pages : p = r.page
  BY DEF IInv, Types, TypeOK, Calls
<1>2. PICK v : v = Entered(r, good)
  OBVIOUS
<1>3. PICK new : new = (IF good /\ r.kind = "branches" THEN Listed(r.found) ELSE {})
                         \cup (IF v = "editor" THEN {FirstBranch} ELSE {})
  OBVIOUS
<1>4. /\ \/ cookie' = cookie
         \/ r.kind = "login" /\ cookie' = [cookie EXCEPT ![p] = r.session]
      /\ view' = [view EXCEPT ![p] = v]
      /\ docs' = [docs EXCEPT ![p] = docs[p] \cup new]
      /\ edited' = [edited EXCEPT ![p] = IF v = "editor" THEN 1 ELSE 0]
      /\ UNCHANGED <<tables, armed, drawn, sent, past>>
  <2>1. \/ cookie' = cookie
        \/ r.kind = "login" /\ cookie' = [cookie EXCEPT ![p] = r.session]
    <3>1. cookie' = [cookie EXCEPT ![r.page] =
                       IF good /\ r.kind = "login" THEN r.session ELSE @]
      BY Zenon DEF CallBack
    <3>2. cookie = [cookie EXCEPT ![p] = cookie[p]]
      BY DEF IInv, Types, TypeOK
    <3>3. QED
      BY <1>1, <3>1, <3>2
  <2>2. /\ view' = [view EXCEPT ![p] = v]
        /\ edited' = [edited EXCEPT ![p] = IF v = "editor" THEN 1 ELSE 0]
        /\ UNCHANGED <<tables, armed, drawn, sent, past>>
    BY <1>1, <1>2, Zenon DEF CallBack
  <2>3. docs' = [docs EXCEPT ![r.page] =
          @ \cup (IF good /\ r.kind = "branches" THEN Listed(r.found) ELSE {})
            \cup (IF v = "editor" THEN {FirstBranch} ELSE {})]
    BY <1>2, Zenon DEF CallBack
  <2>4. docs' = [docs EXCEPT ![p] = @ \cup new]
    BY <1>1, <1>3, <2>3
  <2>5. QED
    BY <2>1, <2>2, <2>4
<1>5. /\ TypeOK /\ DrawnKnown /\ users' = users /\ rows' = rows
      /\ UNCHANGED <<sent, tried, creates, loadedas, hasty>>
      /\ r \in Calls /\ Good(r)
  BY <1>4 DEF IInv, Types, TypeOK, tables, past
<1>6. v \in Views
  <2>1. r.kind \in Kinds /\ view[p] \in Views
    BY <1>5 DEF Calls, TypeOK
  <2>2. AccountView(cookie'[r.page]) \in Views
    BY DEF AccountView, Views
  <2>3. QED
    BY <1>1, <1>2, <2>1, <2>2 DEF Entered, Opened, Kinds, Views
<1>7. /\ new \subseteq r.found \cup {FirstBranch}
      /\ new \subseteq Listings
      /\ v = "editor" => FirstBranch \in new
      /\ r.kind # "branches" => new \subseteq {FirstBranch}
  <2>1. Listed(r.found) \subseteq r.found
    BY DEF Listed
  <2>2. r.found \subseteq Listings
    BY <1>5 DEF Calls
  <2>3. FirstBranch \in Listings
    BY DEF FirstBranch, Listings
  <2>4. QED
    BY <1>3, <2>1, <2>2, <2>3
<1>8. r.session \in 0..Len(users)
  BY <1>5 DEF Good, Calls, Sessions
<1>9. CallsOK' /\ PastOK'
  BY <1>5 DEF CallsOK, PastOK, TypeOK
<1>10. PageOK'
  <2>1. cookie' \in [Pages -> 0..Len(users')]
    BY <1>4, <1>5, <1>8 DEF TypeOK
  <2>2. docs' \in [Pages -> SUBSET Listings]
    BY <1>4, <1>5, <1>7 DEF TypeOK
  <2>3. PageTypes'
    BY <1>4, <1>5, <1>6, <2>1, <2>2 DEF TypeOK, PageTypes
  <2>4. \A q \in Pages \ {p} : /\ view'[q] = view[q] /\ armed'[q] = armed[q]
                              /\ drawn'[q] = drawn[q] /\ edited'[q] = edited[q]
                              /\ docs'[q] = docs[q]
    BY <1>4, <1>5 DEF TypeOK
  <2>5. docs'[p] = docs[p] \cup new /\ view'[p] = v
    BY <1>4, <1>5 DEF TypeOK
  <2>6. view'[p] = "editor" => FirstBranch \in docs'[p] /\ FirstBranch.document = edited'[p]
    BY <1>4, <1>5, <1>7, <2>5 DEF TypeOK, FirstBranch
  <2>7. armed'[p] # "no" => \E b \in docs'[p] : b.document = drawn'[p]
    BY <1>4, <1>5, <2>5 DEF DrawnKnown
  <2>8. QED
    BY <2>3, <2>4, <2>6, <2>7, AtPage
<1>11. ASSUME NEW s \in calls'
       PROVE  Good(s)'
  <2>1. WasThere(s)
    BY <1>5 DEF WasThere
  <2>2. QED
    BY <1>4, <1>5, <2>1, WasGood
<1>12. SessionIsOwner'
  <2>1. ASSUME NEW q \in Pages, cookie'[q] # 0
        PROVE  <<users'[cookie'[q]].login, users'[cookie'[q]].password>> \in tried'[q]
    <3>1. CASE cookie'[q] = cookie[q]
      BY <1>5, <2>1, <3>1 DEF SessionIsOwner, IInv
    <3>2. CASE cookie'[q] # cookie[q]
      <4>1. q = p /\ r.kind = "login" /\ cookie'[q] = r.session
        BY <1>4, <1>5, <3>2 DEF TypeOK
      <4>2. QED
        BY <1>1, <1>5, <2>1, <4>1 DEF Good
    <3>3. QED
      BY <3>1, <3>2
  <2>2. QED
    BY <2>1 DEF SessionIsOwner
<1>13. ListsOwn'
  <2>1. ASSUME NEW q \in Pages, NEW b \in docs'[q] \ {FirstBranch}
        PROVE  /\ loadedas'[q] # 0
               /\ b.id \in 1..Len(rows') /\ rows'[b.id].user = loadedas'[q]
    <3>1. CASE b \in docs[q]
      BY <1>5, <3>1 DEF ListsOwn, IInv
    <3>2. CASE b \notin docs[q]
      <4>1. q = p /\ b \in new
        BY <1>4, <1>5, <3>2 DEF TypeOK
      <4>2. b \in r.found /\ r.kind = "branches"
        BY <1>7, <4>1
      <4>3. b.id \in 1..Len(rows) /\ rows[b.id].user = loadedas[p]
        BY <1>1, <1>5, <4>2 DEF Good
      <4>4. rows[b.id].user \in 1..Len(users)
        <5>1. rows \in Seq([user : 1..Len(users), parent : Garbage, document : Garbage])
          BY <1>5 DEF TypeOK
        <5>2. rows[b.id] \in [user : 1..Len(users), parent : Garbage, document : Garbage]
          BY <4>3, <5>1, ElementOfSeq
        <5>3. QED
          BY <5>2
      <4>5. QED
        BY <1>5, <4>1, <4>3, <4>4
    <3>3. QED
      BY <3>1, <3>2
  <2>2. QED
    BY <2>1 DEF ListsOwn, FirstBranch
<1>14. QED
  BY <1>4, <1>9, <1>10, <1>11, <1>12, <1>13, PageStep

\* The calls that a page leaves when its view changes.
LEMMA LeftCalls ==
  ASSUME IInv, NEW p \in Pages, NEW S \in SUBSET calls
  PROVE  \A s \in Leaving(p, S) :
           /\ s \in Calls /\ (s.awaited \/ ~s.served)
           /\ \E q \in calls : Noted(s, q) /\ (s.awaited => q.awaited)
<1>1. S \in SUBSET Calls /\ \A q \in calls : q.awaited \/ ~q.served
  BY DEF IInv, Types, TypeOK
<1>2. SUFFICES ASSUME NEW s \in Leaving(p, S)
               PROVE  /\ s \in Calls /\ (s.awaited \/ ~s.served)
                      /\ \E q \in calls : Noted(s, q) /\ (s.awaited => q.awaited)
  OBVIOUS
<1>3. s \in Calls /\ \E q \in S : Noted(s, q) /\ s.awaited = q.awaited
  BY <1>1, LeavingCalls
<1>4. PICK q \in S : Noted(s, q) /\ s.awaited = q.awaited
  BY <1>3
<1>5. QED
  BY <1>1, <1>3, <1>4 DEF Noted

LEMMA SettleStep ==
  ASSUME IInv, NEW r \in calls, Settle(r)
  PROVE  IInv'
<1>1. r.awaited /\ CallBack(r, r.status = 200) /\ calls' = Leaving(r.page, calls \ {r})
  BY DEF Settle
<1>2. r.page \in Pages
  BY DEF IInv, Types, TypeOK, Calls
<1>3. PICK good \in BOOLEAN : CallBack(r, good)
  BY <1>1
<1>4. QED
  BY <1>1, <1>2, <1>3, LeftCalls, CallBackStep

LEMMA FailStep ==
  ASSUME IInv, NEW r \in calls, Fail(r)
  PROVE  IInv'
<1> DEFINE given == [r EXCEPT !.awaited = FALSE]
<1>1. /\ r.awaited /\ CallBack(r, FALSE)
      /\ \A s \in calls' : s \in Leaving(r.page, calls \ {r}) \/ (~r.served /\ s = given)
  BY DEF Fail
<1>2. r \in Calls /\ r.page \in Pages
  BY DEF IInv, Types, TypeOK, Calls
<1>3. given \in Calls /\ Noted(given, r) /\ ~given.awaited
  BY <1>2, CallChanged, CallKept
<1> HIDE DEF given
<1>4. ASSUME NEW s \in calls'
      PROVE  /\ s \in Calls /\ (s.awaited \/ ~s.served)
             /\ \E q \in calls : Noted(s, q) /\ (s.awaited => q.awaited)
  <2>1. CASE s \in Leaving(r.page, calls \ {r})
    BY <1>2, <2>1, LeftCalls
  <2>2. CASE ~r.served /\ s = given
    BY <1>3, <2>2 DEF Noted
  <2>3. QED
    BY <1>1, <2>1, <2>2
<1>5. QED
  BY <1>1, <1>4, CallBackStep

\* A request that the page has given up is lost.
LEMMA LoseStep ==
  ASSUME IInv, NEW r \in calls, Lose(r)
  PROVE  IInv'
<1>1. /\ calls' \subseteq calls /\ UNCHANGED <<tables, page, sent, past>>
  BY DEF Lose
<1>2. /\ UNCHANGED tables
      /\ UNCHANGED <<view, armed, drawn, edited, cookie, docs>>
      /\ UNCHANGED <<sent, tried, creates, loadedas, hasty>>
      /\ users' = users /\ rows' = rows
  BY <1>1 DEF tables, page, past
<1>3. CallsOK' /\ PageOK' /\ PastOK'
  BY <1>1, <1>2 DEF IInv, Types, TypeOK, DrawnKnown, CallsOK, PageOK, PastOK
<1>4. ASSUME NEW s \in calls'
      PROVE  Good(s)'
  <2>1. s \in calls /\ Noted(s, s)
    BY <1>1, CallKept DEF IInv, Types, TypeOK
  <2>2. QED
    BY <1>2, <2>1, WasGood DEF WasThere
<1>5. SessionIsOwner' /\ ListsOwn'
  BY <1>2 DEF IInv, SessionIsOwner, ListsOwn
<1>6. QED
  BY <1>2, <1>3, <1>4, <1>5, PageStep

-----------------------------------------------------------------------------
LEMMA InitInvariant ==
  Init => IInv
<1> SUFFICES ASSUME Init
             PROVE  IInv
  OBVIOUS
<1>1. PICK t \in Tables : users = t.users /\ rows = t.rows
  BY DEF Init
<1>2. TablesOK
  BY <1>1, AccountsAssumption DEF TablesOK
<1>3. Len(users) \in Nat /\ Len(rows) \in Nat
  BY <1>2, LenProperties DEF TablesOK
<1>4. CallsOK
  BY DEF Init, CallsOK
<1>5. PageOK
  BY <1>3 DEF Init, PageOK, DrawnKnown, Views
<1>6. PastOK
  <2>1. ASSUME NEW s \in Sessions
        PROVE  Rows(rows, s) \in Nat
    <3>1. IsFiniteSet({i \in 1..Len(rows) : rows[i].user = s})
      <4>1. IsFiniteSet(1..Len(rows))
        BY <1>3, FS_Interval
      <4>2. {i \in 1..Len(rows) : rows[i].user = s} \in SUBSET (1..Len(rows))
        OBVIOUS
      <4>3. QED
        BY <4>1, <4>2, FS_Subset
    <3>2. QED
      BY <3>1, FS_CardinalityType DEF Rows
  <2>2. 0 \in Sessions /\ 0 \in 0..MaxRequests
    BY AccountsAssumption DEF Sessions
  <2>3. QED
    BY <2>1, <2>2 DEF Init, PastOK
<1>7. (\A r \in calls : Good(r)) /\ SessionIsOwner /\ ListsOwn
  BY DEF Init, SessionIsOwner, ListsOwn
<1>8. QED
  BY <1>2, <1>4, <1>5, <1>6, <1>7, Parts DEF IInv

LEMMA StepInvariant ==
  IInv /\ [Next]_vars => IInv'
<1> SUFFICES ASSUME IInv, [Next]_vars
             PROVE  IInv'
  OBVIOUS
<1>1. ASSUME NEW r \in calls, Serve(r)
      PROVE  IInv'
  BY <1>1, ServeStep
<1>2. ASSUME NEW r \in calls, Lose(r)
      PROVE  IInv'
  BY <1>2, LoseStep
<1>3. ASSUME NEW p \in Pages, Clicks(p)
      PROVE  IInv'
  <2>1. CASE Load(p)
    BY <2>1, LoadStep
  <2>2. ASSUME NEW kind \in {"login", "user"}, NEW l \in Logins, NEW w \in Passwords,
               ClickLogin(p, kind, l, w)
        PROVE  IInv'
    BY <2>2, ClickLoginStep
  <2>3. CASE ClickCreate(p)
    BY <2>3, ClickCreateStep
  <2>4. CASE ClickLogout(p)
    BY <2>4, ClickLogoutStep
  <2>5. CASE ClickAccount(p)
    BY <2>5, ClickAccountStep
  <2>6. CASE ClickDocument(p)
    <3>1. PICK b \in docs[p] : Draw(p, "user", b.document)
      BY <2>6 DEF ClickDocument
    <3>2. QED
      BY <3>1, DrawStep
  <2>7. CASE ClickGraph(p)
    <3>1. Draw(p, "editor", edited[p])
      BY <2>7 DEF ClickGraph
    <3>2. view[p] = "editor"
      BY <3>1 DEF Draw, Turn
    <3>3. PICK b \in docs[p] : b.document = edited[p]
      BY <3>2 DEF IInv, Types, TypeOK
    <3>4. QED
      BY <3>1, <3>3, DrawStep
  <2>8. CASE ClickVertex(p)
    BY <2>8, ClickVertexStep
  <2>9. QED
    BY <1>3, <2>1, <2>2, <2>3, <2>4, <2>5, <2>6, <2>7, <2>8 DEF Clicks
<1>4. ASSUME NEW p \in Pages, GraphEnds(p)
      PROVE  IInv'
  BY <1>4, GraphEndsStep
<1>5. ASSUME NEW p \in Pages, Settles(p)
      PROVE  IInv'
  <2>1. PICK r \in calls : Settle(r) \/ Fail(r)
    BY <1>5 DEF Settles
  <2>2. QED
    BY <2>1, SettleStep, FailStep
<1>6. CASE UNCHANGED vars
  BY <1>6, ZenonT(30) DEF vars, tables, page, past, IInv, Types, TypeOK, DrawnKnown, Good,
              SessionIsOwner, ListsOwn
<1>7. QED
  BY <1>1, <1>2, <1>3, <1>4, <1>5, <1>6 DEF Next

\* The tables, the pages and the calls have their types: a page in the editor
\* shows a branch that it knows, and what it has given up is never answered.
THEOREM TypeCorrect == Spec => []TypeOK
<1>1. IInv => TypeOK
  BY DEF IInv, Types
<1>2. QED
  BY <1>1, InitInvariant, StepInvariant, PTL DEF Spec

\* Who a page is logged in as was logged in there with login and password,
\* in whatever order requests are answered, refused, given up and retried.
THEOREM OwnSessions == Spec => []SessionIsOwner
<1>1. IInv => SessionIsOwner
  BY DEF IInv
<1>2. QED
  BY <1>1, InitInvariant, StepInvariant, PTL DEF Spec

\* What a page lists is its own work or is of the user that it was loaded as.
THEOREM ListsOnlyOwn == Spec => []ListsOwn
<1>1. IInv => ListsOwn
  BY DEF IInv
<1>2. QED
  BY <1>1, InitInvariant, StepInvariant, PTL DEF Spec

-----------------------------------------------------------------------------
(***************************************************************************)
(* More about Accounts, for every set of pages, logins and passwords: a    *)
(* row for every click at most, and answers that act in place.             *)
(***************************************************************************)

(***************************************************************************)
(* Rows.  RowsOwned is not inductive: a request for a row may be carried   *)
(* out long after the click, so the invariant counts the rows of a user    *)
(* together with the requests that may still make one.                     *)
(***************************************************************************)
Orders(u) ==
  {r \in calls : r.kind = "newbranch" /\ ~r.served /\ r.cookie = u}

Paid(u) ==
  /\ IsFiniteSet(Orders(u))
  /\ Rows(rows, u) + Cardinality(Orders(u)) <= creates[u]

AllPaid == \A u \in Sessions : Paid(u)

\* A set is at most as large as one whose images make it up.
LEMMA ImageBound ==
  ASSUME NEW S, IsFiniteSet(S), NEW T, NEW f, \A t \in T : \E r \in S : t = f[r]
  PROVE  IsFiniteSet(T) /\ Cardinality(T) <= Cardinality(S)
<1> DEFINE R == {r \in S : f[r] \in T}
           g == [r \in R |-> f[r]]
<1>1. R \in SUBSET S
  OBVIOUS
<1>2. g \in Surjection(R, T)
  BY DEF Surjection
<1>3. IsFiniteSet(R) /\ Cardinality(R) <= Cardinality(S)
  BY <1>1, FS_Subset
<1>4. IsFiniteSet(T) /\ Cardinality(T) <= Cardinality(R)
  BY <1>2, <1>3, FS_Surjection
<1>5. Cardinality(S) \in Nat /\ Cardinality(R) \in Nat /\ Cardinality(T) \in Nat
  BY <1>3, <1>4, FS_CardinalityType
<1>6. QED
  BY <1>3, <1>4, <1>5

\* The number of rows of a user is one.
LEMMA RowsNat ==
  ASSUME TypeOK, NEW u
  PROVE  /\ IsFiniteSet({i \in 1..Len(rows) : rows[i].user = u})
         /\ Rows(rows, u) \in Nat
<1>1. IsFiniteSet(1..Len(rows))
  BY LenProperties, FS_Interval DEF TypeOK
<1>2. {i \in 1..Len(rows) : rows[i].user = u} \in SUBSET (1..Len(rows))
  OBVIOUS
<1>3. IsFiniteSet({i \in 1..Len(rows) : rows[i].user = u})
  BY <1>1, <1>2, FS_Subset
<1>4. QED
  BY <1>3, FS_CardinalityType DEF Rows

\* A step that only notes something of calls, or drops them, orders no more.
LEMMA OrdersFewer ==
  ASSUME NEW u, IsFiniteSet(Orders(u)), NEW f, NEW N,
         \A s \in calls' :
           s \in N \/ \E r \in calls : s = f[r] /\ Noted(s, r)
  PROVE  /\ IsFiniteSet(Orders(u)' \ N)
         /\ Cardinality(Orders(u)' \ N) <= Cardinality(Orders(u))
<1>1. ASSUME NEW s \in Orders(u)' \ N
      PROVE  \E r \in Orders(u) : s = f[r]
  <2>1. s \in calls' /\ s \notin N /\ s.kind = "newbranch" /\ ~s.served /\ s.cookie = u
    BY DEF Orders
  <2>2. PICK r \in calls : s = f[r] /\ Noted(s, r)
    BY <2>1
  <2>3. r \in Orders(u)
    BY <2>1, <2>2 DEF Orders, Noted, Same
  <2>4. QED
    BY <2>2, <2>3
<1>2. QED
  BY <1>1, ImageBound

\* So all rows stay paid for, also with new calls that order none, or with one
\* that comes with a click.
LEMMA PaidStays ==
  ASSUME TypeOK, AllPaid, NEW f, NEW N, UNCHANGED rows,
         \A s \in calls' :
           s \in N \/ \E r \in calls : s = f[r] /\ Noted(s, r),
         \A u \in Sessions :
           \/ (\A s \in N : s \notin Orders(u)') /\ creates'[u] = creates[u]
           \/ (\E new : N = {new}) /\ creates'[u] = creates[u] + 1
  PROVE  AllPaid'
<1>1. SUFFICES ASSUME NEW u \in Sessions
               PROVE  Paid(u)'
  BY DEF AllPaid, Sessions
<1>2. IsFiniteSet(Orders(u)) /\ Rows(rows, u) + Cardinality(Orders(u)) <= creates[u]
  BY DEF AllPaid, Paid
<1>3. PICK T : T = Orders(u)'
  OBVIOUS
<1>4. IsFiniteSet(T \ N) /\ Cardinality(T \ N) <= Cardinality(Orders(u))
  BY <1>2, <1>3, OrdersFewer
<1>5. PICK k \in Nat, m \in Nat, n \in Nat, z \in Nat :
        /\ k = Cardinality(Orders(u)) /\ m = Cardinality(T \ N)
        /\ n = Rows(rows, u) /\ z = creates[u]
  BY <1>2, <1>4, FS_CardinalityType, RowsNat DEF TypeOK
<1>6. m <= k /\ n + k <= z
  BY <1>2, <1>4, <1>5, Zenon
<1>7. CASE (\A s \in N : s \notin T) /\ creates'[u] = z
  <2>1. T \ N = T
    BY <1>7
  <2>2. IsFiniteSet(T) /\ Cardinality(T) = m
    BY <1>4, <1>5, <2>1
  <2>3. n + m <= creates'[u]
    BY <1>5, <1>6, <1>7
  <2>4. QED
    BY <1>3, <1>5, <2>2, <2>3 DEF Paid
<1>8. ASSUME NEW new, N = {new}, creates'[u] = z + 1
      PROVE  Paid(u)'
  <2>1. PICK W : W = T \ {new}
    OBVIOUS
  <2>2. IsFiniteSet(W) /\ Cardinality(W) = m /\ new \notin W
    BY <1>4, <1>5, <1>8, <2>1
  <2>3. /\ IsFiniteSet(W \cup {new})
        /\ Cardinality(W \cup {new}) = m + 1
    BY <2>2, FS_AddElement
  <2>4. T \in SUBSET (W \cup {new})
    BY <2>1
  <2>5. IsFiniteSet(T) /\ Cardinality(T) <= m + 1
    BY <2>3, <2>4, FS_Subset
  <2>6. PICK t \in Nat : t = Cardinality(T)
    BY <2>5, FS_CardinalityType
  <2>7. n + t <= z + 1
    BY <1>6, <2>5, <2>6
  <2>8. QED
    BY <1>3, <1>5, <1>8, <2>5, <2>6, <2>7 DEF Paid
<1>9. QED
  BY <1>3, <1>5, <1>7, <1>8

\* What happens to calls when their page goes to another view.
LeavingMap(p) ==
  [r \in Calls |-> IF r.page = p THEN [r EXCEPT !.left = TRUE] ELSE r]

LEMMA LeavingIs ==
  ASSUME NEW p, NEW S \in SUBSET Calls
  PROVE  \A s \in Leaving(p, S) : \E r \in S :
           /\ s = LeavingMap(p)[r] /\ Noted(s, r) /\ s.awaited = r.awaited
           /\ r.page # p => s = r
<1>1. SUFFICES ASSUME NEW r \in S, NEW s,
                      s = IF r.page = p THEN [r EXCEPT !.left = TRUE] ELSE r
               PROVE  /\ s = LeavingMap(p)[r] /\ Noted(s, r) /\ s.awaited = r.awaited
                      /\ r.page # p => s = r
  BY DEF Leaving
<1>2. r \in Calls
  OBVIOUS
<1>3. s = LeavingMap(p)[r]
  BY <1>1, <1>2 DEF LeavingMap
<1>4. Noted(s, r) /\ s.awaited = r.awaited
  BY <1>1, <1>2, CallKept
<1>5. QED
  BY <1>1, <1>3, <1>4

-----------------------------------------------------------------------------
\* A handler carries out one request: it orders nothing any more.
LEMMA OrdersServed ==
  ASSUME IInv, NEW r \in calls, ~r.served, NEW status, NEW session, NEW found,
         Answered(r, status, session, found), NEW u
  PROVE  Orders(u)' = Orders(u) \ {r}
<1>1. r \in Calls
  BY DEF IInv, Types, TypeOK
<1>2. WithAnswer(r, status, session, found).served
  BY <1>1, Zenon DEF Calls, WithAnswer
<1>3. PICK answer : answer = WithAnswer(r, status, session, found) /\ answer.served
  BY <1>2
<1>4. \A s \in calls' : s # answer => s \in calls \ {r}
  BY <1>3 DEF Answered
<1>5. calls \ {r} \subseteq calls'
  BY DEF Answered
<1>6. QED
  BY <1>3, <1>4, <1>5 DEF Orders

\* Where no row is made, rows stay paid for.
LEMMA PaidServed ==
  ASSUME IInv, AllPaid, UNCHANGED <<rows, creates>>, NEW r,
         \A u \in Sessions : Orders(u)' = Orders(u) \ {r}
  PROVE  AllPaid'
<1>1. SUFFICES ASSUME NEW u \in Sessions
               PROVE  Paid(u)'
  BY DEF AllPaid, Sessions
<1>2. IsFiniteSet(Orders(u)) /\ Rows(rows, u) + Cardinality(Orders(u)) <= creates[u]
  BY DEF AllPaid, Paid
<1>3. Orders(u)' \in SUBSET Orders(u)
  BY <1>1
<1>4. IsFiniteSet(Orders(u)') /\ Cardinality(Orders(u)') <= Cardinality(Orders(u))
  BY <1>2, <1>3, FS_Subset
<1>5. /\ Cardinality(Orders(u)) \in Nat /\ Cardinality(Orders(u)') \in Nat
      /\ Rows(rows, u) \in Nat /\ creates[u] \in Nat
  BY <1>2, <1>4, FS_CardinalityType, RowsNat DEF IInv, Types, TypeOK
<1>6. Rows(rows, u) + Cardinality(Orders(u)') <= creates[u]
  BY <1>2, <1>4, <1>5
<1>7. QED
  BY <1>4, <1>6 DEF Paid

\* A new row is one more of its user, and none of others.
LEMMA RowsAppended ==
  ASSUME TypeOK, NEW row, rows' = Append(rows, row), NEW u
  PROVE  Rows(rows', u) = IF row.user = u THEN Rows(rows, u) + 1 ELSE Rows(rows, u)
<1> DEFINE S(table) == {i \in 1..Len(table) : table[i].user = u}
<1>1. PICK n \in Nat : n = Len(rows)
  BY LenProperties DEF TypeOK
<1>2. /\ Len(rows') = n + 1 /\ rows'[n + 1] = row
      /\ \A i \in 1..n : rows'[i] = rows[i]
  BY <1>1 DEF TypeOK
<1>3. n + 1 \notin S(rows) /\ IsFiniteSet(S(rows))
  <2>1. n + 1 \notin S(rows)
    BY <1>1
  <2>2. IsFiniteSet(S(rows))
    BY RowsNat
  <2>3. QED
    BY <2>1, <2>2
<1>4. CASE row.user = u
  <2>1. S(rows') = S(rows) \cup {n + 1}
    BY <1>1, <1>2, <1>4
  <2>2. Cardinality(S(rows) \cup {n + 1}) = Cardinality(S(rows)) + 1
    <3> HIDE DEF S
    <3>1. QED
      BY <1>3, FS_AddElement
  <2>3. QED
    BY <1>4, <2>1, <2>2 DEF Rows
<1>5. CASE row.user # u
  <2>1. S(rows') = S(rows)
    BY <1>1, <1>2, <1>5
  <2>2. QED
    BY <1>5, <2>1 DEF Rows
<1>6. QED
  BY <1>4, <1>5

\* newbranch: the row comes for the request that is carried out.
LEMMA PaidRow ==
  ASSUME IInv, AllPaid, UNCHANGED creates, NEW r \in calls, ~r.served,
         r.kind = "newbranch", NEW row, row.user = r.cookie,
         rows' = Append(rows, row),
         \A u \in Sessions : Orders(u)' = Orders(u) \ {r}
  PROVE  AllPaid'
<1>1. SUFFICES ASSUME NEW u \in Sessions
               PROVE  Paid(u)'
  BY DEF AllPaid, Sessions
<1>2. IsFiniteSet(Orders(u)) /\ Rows(rows, u) + Cardinality(Orders(u)) <= creates[u]
  BY DEF AllPaid, Paid
<1>3. PICK S : S = Orders(u) /\ Orders(u)' = S \ {r}
  BY <1>1
<1>4. /\ IsFiniteSet(S \ {r})
      /\ Cardinality(S \ {r}) = IF r \in S THEN Cardinality(S) - 1 ELSE Cardinality(S)
  BY <1>2, <1>3, FS_RemoveElement
<1>5. PICK k \in Nat, n \in Nat, z \in Nat :
        k = Cardinality(S) /\ n = Rows(rows, u) /\ z = creates[u]
  BY <1>2, <1>3, FS_CardinalityType, RowsNat DEF IInv, Types, TypeOK
<1>6. Rows(rows', u) = IF r.cookie = u THEN n + 1 ELSE n
  BY <1>5, RowsAppended DEF IInv, Types
<1>7. r \in S <=> r.cookie = u
  BY <1>3 DEF Orders
<1>8. n + k <= z
  BY <1>2, <1>3, <1>5, Zenon
<1>9. CASE r.cookie = u
  <2>1. Cardinality(S \ {r}) = k - 1 /\ Rows(rows', u) = n + 1
    BY <1>4, <1>5, <1>6, <1>7, <1>9
  <2>2. (n + 1) + (k - 1) <= z
    BY <1>8
  <2>3. QED
    BY <1>3, <1>4, <1>5, <2>1, <2>2 DEF Paid
<1>10. CASE r.cookie # u
  <2>1. Cardinality(S \ {r}) = k /\ Rows(rows', u) = n
    BY <1>4, <1>5, <1>6, <1>7, <1>10
  <2>2. QED
    BY <1>3, <1>4, <1>5, <1>8, <2>1 DEF Paid
<1>11. QED
  BY <1>9, <1>10

\* The server.
LEMMA PaidServe ==
  ASSUME IInv, AllPaid, NEW r \in calls, Serve(r)
  PROVE  AllPaid'
<1>1. ~r.served /\ UNCHANGED creates
  BY DEF Serve, past
<1>2. ASSUME NEW status, NEW session, NEW found,
             Answered(r, status, session, found), UNCHANGED rows
      PROVE  AllPaid'
  <2>1. \A u \in Sessions : Orders(u)' = Orders(u) \ {r}
    BY <1>1, <1>2, OrdersServed
  <2>2. QED
    BY <1>1, <1>2, <2>1, PaidServed
<1>3. CASE Refused(r)
  BY <1>2, <1>3 DEF Refused, tables
<1>4. r.kind \in Kinds
  BY DEF IInv, Types, TypeOK, Calls
<1>5. CASE r.kind = "login"
  <2>1. Login(r)
    BY <1>5 DEF Serve
  <2>2. QED
    BY <1>2, <1>3, <2>1 DEF Login, tables
<1>6. CASE r.kind = "user"
  <2>1. Register(r)
    BY <1>6 DEF Serve
  <2>2. QED
    BY <1>2, <1>3, <2>1 DEF Register
<1>7. CASE r.kind = "branches"
  <2>1. Branches(r)
    BY <1>7 DEF Serve
  <2>2. QED
    BY <1>2, <1>3, <2>1 DEF Branches, tables
<1>8. CASE r.kind = "newbranch"
  <2>1. NewBranch(r)
    BY <1>8 DEF Serve
  <2>2. ASSUME NEW parent \in Garbage, NEW document \in Garbage,
               rows' = Append(rows, [user |-> r.cookie, parent |-> parent,
                                     document |-> document]),
               Answered(r, 200, 0, {})
        PROVE  AllPaid'
    <3>1. \A u \in Sessions : Orders(u)' = Orders(u) \ {r}
      BY <1>1, <2>2, OrdersServed
    <3>2. PICK row : row = [user |-> r.cookie, parent |-> parent, document |-> document]
      OBVIOUS
    <3>3. row.user = r.cookie /\ rows' = Append(rows, row)
      BY <2>2, <3>2
    <3>4. QED
      BY <1>1, <1>8, <3>1, <3>3, PaidRow
  <2>3. QED
    BY <1>3, <2>1, <2>2 DEF NewBranch
<1>9. QED
  BY <1>4, <1>5, <1>6, <1>7, <1>8 DEF Kinds

-----------------------------------------------------------------------------
(***************************************************************************)
(* The steps of a page.                                                    *)
(***************************************************************************)
LEMMA PaidLoad ==
  ASSUME IInv, AllPaid, NEW p \in Pages, Load(p)
  PROVE  AllPaid'
<1>1. PICK new : new = Sent(p, "branches", 0, 0)
  OBVIOUS
<1>2. PICK f : f = [r \in Calls |-> IF r.page = p THEN [r EXCEPT !.awaited = FALSE] ELSE r]
  OBVIOUS
<1>3. /\ UNCHANGED <<rows, creates>>
      /\ calls' \subseteq {IF r.page = p THEN [r EXCEPT !.awaited = FALSE] ELSE r : r \in calls}
                            \cup {new}
  BY <1>1 DEF Load, tables
<1>4. ASSUME NEW s \in calls', s # new
      PROVE  \E r \in calls : s = f[r] /\ Noted(s, r)
  <2>1. PICK r \in calls : s = IF r.page = p THEN [r EXCEPT !.awaited = FALSE] ELSE r
    BY <1>3, <1>4
  <2>2. r \in Calls
    BY DEF IInv, Types, TypeOK
  <2>3. s = f[r]
    BY <1>2, <2>1, <2>2
  <2>4. Noted(s, r)
    BY <2>1, <2>2, CallKept
  <2>5. QED
    BY <2>3, <2>4
<1>5. new.kind = "branches"
  BY <1>1, SentFields
<1>6. \A u \in Sessions : new \notin Orders(u)'
  BY <1>5 DEF Orders
<1>7. PICK N : N = {new}
  OBVIOUS
<1>8. \A s \in calls' : s \in N \/ \E r \in calls : s = f[r] /\ Noted(s, r)
  BY <1>4, <1>7
<1>9. \A u \in Sessions :
          \/ (\A s \in N : s \notin Orders(u)') /\ creates'[u] = creates[u]
          \/ (\E x : N = {x}) /\ creates'[u] = creates[u] + 1
  BY <1>3, <1>6, <1>7
<1>10. TypeOK /\ UNCHANGED rows
  BY <1>3 DEF IInv, Types
<1>11. QED
  BY <1>8, <1>9, <1>10, PaidStays

\* A request is added to the calls.
LEMMA PaidSend ==
  ASSUME IInv, AllPaid, NEW new, \A s \in calls' : s = new \/ s \in calls, UNCHANGED rows,
         \A u \in Sessions :
           \/ new \notin Orders(u)' /\ creates'[u] = creates[u]
           \/ creates'[u] = creates[u] + 1
  PROVE  AllPaid'
<1>1. PICK f : f = [r \in calls |-> r]
  OBVIOUS
<1>2. \A s \in calls' : s \in {new} \/ \E r \in calls : s = f[r] /\ Noted(s, r)
  BY <1>1 DEF Noted, Same
<1>3. PICK N : N = {new}
  OBVIOUS
<1>4. \A s \in calls' : s \in N \/ \E r \in calls : s = f[r] /\ Noted(s, r)
  BY <1>2, <1>3
<1>5. \A u \in Sessions :
          \/ (\A s \in N : s \notin Orders(u)') /\ creates'[u] = creates[u]
          \/ (\E x : N = {x}) /\ creates'[u] = creates[u] + 1
  BY <1>3
<1>6. TypeOK /\ UNCHANGED rows
  BY DEF IInv, Types
<1>7. QED
  BY <1>4, <1>5, <1>6, PaidStays

\* "Log in", "Register", "New document".
LEMMA PaidClick ==
  ASSUME IInv, AllPaid, NEW p \in Pages,
         \/ \E kind \in {"login", "user"}, l \in Logins, w \in Passwords :
              ClickLogin(p, kind, l, w)
         \/ ClickCreate(p)
  PROVE  AllPaid'
<1>1. ASSUME NEW kind \in {"login", "user"}, NEW l \in Logins, NEW w \in Passwords,
             ClickLogin(p, kind, l, w)
      PROVE  AllPaid'
  <2>1. PICK new : new = Sent(p, kind, l, w)
    OBVIOUS
  <2>2. new.kind = kind
    BY <2>1, SentFields
  <2>3. \A u \in Sessions : new \notin Orders(u)'
    BY <2>2 DEF Orders
  <2>4. calls' = calls \cup {new} /\ UNCHANGED <<rows, creates>>
    BY <1>1, <2>1 DEF ClickLogin, tables
  <2>5. QED
    BY <2>3, <2>4, PaidSend
<1>2. CASE ClickCreate(p)
  <2>1. PICK new : new = Sent(p, "newbranch", 0, 0)
    OBVIOUS
  <2>2. new.cookie = cookie[p]
    BY <2>1, SentFields
  <2>3. /\ calls' = calls \cup {new} /\ UNCHANGED rows
        /\ creates' = [creates EXCEPT ![cookie[p]] = @ + 1]
    BY <1>2, <2>1 DEF ClickCreate, tables
  <2>4. ASSUME NEW u \in Sessions
        PROVE  \/ new \notin Orders(u)' /\ creates'[u] = creates[u]
               \/ creates'[u] = creates[u] + 1
    BY <2>2, <2>3 DEF Orders, IInv, Types, TypeOK
  <2>5. QED
    BY <2>3, <2>4, PaidSend
<1>3. QED
  BY <1>1, <1>2

\* The page goes to another view, after an answer that it got too.
LEMMA PaidMove ==
  ASSUME IInv, AllPaid, NEW p \in Pages, NEW S \in SUBSET calls,
         calls' = Leaving(p, S), UNCHANGED <<rows, creates>>
  PROVE  AllPaid'
<1>1. S \in SUBSET Calls
  BY DEF IInv, Types, TypeOK
<1>2. PICK f : f = LeavingMap(p)
  OBVIOUS
<1>3. \A s \in calls' : \E r \in calls : s = f[r] /\ Noted(s, r)
  BY <1>1, <1>2, LeavingIs
<1>4. PICK N : N = {}
  OBVIOUS
<1>5. \A s \in calls' : s \in N \/ \E r \in calls : s = f[r] /\ Noted(s, r)
  BY <1>3
<1>6. \A u \in Sessions :
          \/ (\A s \in N : s \notin Orders(u)') /\ creates'[u] = creates[u]
          \/ (\E new : N = {new}) /\ creates'[u] = creates[u] + 1
  BY <1>4
<1>7. TypeOK /\ UNCHANGED rows
  BY DEF IInv, Types
<1>8. QED
  BY <1>5, <1>6, <1>7, PaidStays

\* A request is given up: it may be carried out all the same.
LEMMA PaidFail ==
  ASSUME IInv, AllPaid, NEW r \in calls, Fail(r)
  PROVE  AllPaid'
<1>1. /\ UNCHANGED <<rows, creates>>
      /\ calls' \subseteq Leaving(r.page, calls \ {r}) \cup {[r EXCEPT !.awaited = FALSE]}
  BY DEF Fail, CallBack, tables, past
<1>2. r \in Calls /\ calls \ {r} \in SUBSET Calls
  BY DEF IInv, Types, TypeOK
<1>3. PICK given : given = [r EXCEPT !.awaited = FALSE] /\ Noted(given, r)
  BY <1>2, CallKept
<1>4. PICK f : f = [q \in Calls |-> IF q = r THEN given ELSE LeavingMap(r.page)[q]]
  OBVIOUS
<1>5. ASSUME NEW s \in calls'
      PROVE  \E q \in calls : s = f[q] /\ Noted(s, q)
  <2>1. CASE s = given
    BY <1>2, <1>3, <1>4, <2>1
  <2>2. CASE s \in Leaving(r.page, calls \ {r})
    <3>1. PICK q \in calls \ {r} : s = LeavingMap(r.page)[q] /\ Noted(s, q)
      BY <1>2, <2>2, LeavingIs
    <3>2. q \in Calls /\ q # r
      BY <1>2
    <3>3. s = f[q]
      BY <1>4, <3>1, <3>2
    <3>4. QED
      BY <3>1, <3>3
  <2>3. QED
    BY <1>1, <1>3, <2>1, <2>2
<1>6. PICK N : N = {}
  OBVIOUS
<1>7. \A s \in calls' : s \in N \/ \E q \in calls : s = f[q] /\ Noted(s, q)
  BY <1>5
<1>8. \A u \in Sessions :
          \/ (\A s \in N : s \notin Orders(u)') /\ creates'[u] = creates[u]
          \/ (\E new : N = {new}) /\ creates'[u] = creates[u] + 1
  BY <1>1, <1>6
<1>9. TypeOK /\ UNCHANGED rows
  BY <1>1 DEF IInv, Types
<1>10. QED
  BY <1>7, <1>8, <1>9, PaidStays

\* Steps that move no call but drop some.
LEMMA PaidRest ==
  ASSUME IInv, AllPaid, calls' \subseteq calls, UNCHANGED <<rows, creates>>
  PROVE  AllPaid'
<1>1. PICK f : f = [r \in calls |-> r]
  OBVIOUS
<1>2. \A s \in calls' : \E r \in calls : s = f[r] /\ Noted(s, r)
  BY <1>1 DEF Noted, Same
<1>3. PICK N : N = {}
  OBVIOUS
<1>4. QED
  BY <1>2, <1>3, PaidStays DEF IInv, Types

LEMMA PaidStep ==
  ASSUME IInv, AllPaid, [Next]_vars
  PROVE  AllPaid'
<1>1. calls \in SUBSET calls
  OBVIOUS
<1>2. ASSUME NEW r \in calls, Serve(r) \/ Lose(r)
      PROVE  AllPaid'
  BY <1>2, PaidServe, PaidRest DEF Lose, tables, past
<1>3. ASSUME NEW p \in Pages, Clicks(p)
      PROVE  AllPaid'
  <2>1. CASE \/ ClickLogout(p) \/ ClickAccount(p) \/ ClickDocument(p) \/ ClickGraph(p)
    <3>1. calls' = Leaving(p, calls) /\ UNCHANGED <<rows, creates>>
      BY <2>1 DEF ClickLogout, ClickAccount, ClickDocument, ClickGraph, Draw, Turn, tables
    <3>2. QED
      BY <1>1, <3>1, PaidMove
  <2>2. CASE ClickVertex(p)
    BY <2>2, PaidRest DEF ClickVertex, tables
  <2>3. QED
    BY <1>3, <2>1, <2>2, PaidLoad, PaidClick DEF Clicks
<1>4. ASSUME NEW p \in Pages, GraphEnds(p)
      PROVE  AllPaid'
  BY <1>1, <1>4, PaidMove DEF GraphEnds, tables, past
<1>5. ASSUME NEW p \in Pages, Settles(p)
      PROVE  AllPaid'
  <2>1. PICK r \in calls : Settle(r) \/ Fail(r)
    BY <1>5 DEF Settles
  <2>2. CASE Settle(r)
    <3>1. r.page \in Pages
      BY DEF IInv, Types, TypeOK, Calls
    <3>2. PICK S : S = calls \ {r}
      OBVIOUS
    <3>3. S \in SUBSET calls /\ calls' = Leaving(r.page, S) /\ UNCHANGED <<rows, creates>>
      BY <2>2, <3>2 DEF Settle, CallBack, tables, past
    <3>4. QED
      BY <3>1, <3>3, PaidMove
  <2>3. QED
    BY <2>1, <2>2, PaidFail
<1>6. CASE UNCHANGED vars
  BY <1>6, PaidRest DEF vars, tables, past
<1>7. QED
  BY <1>2, <1>3, <1>4, <1>5, <1>6 DEF Next

\* A row of the table of branches is there because its user has clicked for
\* it, once for each row, however requests are given up and carried out late.
THEOREM RowsAreOwned == Spec => []RowsOwned
<1>1. Init => AllPaid
  <2>1. SUFFICES ASSUME Init, NEW u \in Sessions
                 PROVE  Paid(u)
    BY DEF AllPaid
  <2>2. Orders(u) = {}
    BY <2>1 DEF Init, Orders
  <2>3. creates[u] = Rows(rows, u)
    BY <2>1 DEF Init
  <2>4. Rows(rows, u) \in Nat
    BY <2>1, InitInvariant, RowsNat DEF IInv, Types
  <2>5. QED
    BY <2>2, <2>3, <2>4, FS_EmptySet DEF Paid
<1>2. IInv /\ AllPaid /\ [Next]_vars => AllPaid'
  BY PaidStep
<1>3. IInv /\ AllPaid => RowsOwned
  <2>1. SUFFICES ASSUME IInv, AllPaid, NEW u \in 1..Len(users)
                 PROVE  Rows(rows, u) <= creates[u]
    BY DEF RowsOwned
  <2>2. u \in Sessions
    BY <2>1, AccountsAssumption, LenProperties DEF IInv, Types, TypeOK, Sessions
  <2>3. IsFiniteSet(Orders(u)) /\ Rows(rows, u) + Cardinality(Orders(u)) <= creates[u]
    BY <2>1, <2>2 DEF AllPaid, Paid
  <2>4. Cardinality(Orders(u)) \in Nat /\ Rows(rows, u) \in Nat /\ creates[u] \in Nat
    BY <2>1, <2>2, <2>3, FS_CardinalityType, RowsNat DEF IInv, Types, TypeOK
  <2>5. QED
    BY <2>3, <2>4
<1>4. QED
  BY <1>1, <1>2, <1>3, InitInvariant, StepInvariant, PTL DEF Spec

-----------------------------------------------------------------------------
(***************************************************************************)
(* Answers in place.  What makes it inductive: a page that is not clicked  *)
(* on while it waits has one request on its way at most, and none while    *)
(* the handlers of a graph are there.                                      *)
(***************************************************************************)
Calm(p) == ~hasty[p] =>
  /\ \A r, s \in Waiting(p) : r = s
  /\ \A r \in Waiting(p) : ~r.left
  /\ armed[p] # "no" => view[p] = "graph" /\ Waiting(p) = {}

AllCalm == \A p \in Pages : Calm(p)

\* Nothing the page knows of changes, save what its request has got.
LEMMA CalmKept ==
  ASSUME NEW p, Calm(p), NEW f,
         \A s \in Waiting(p)' : \E r \in Waiting(p) : s = f[r] /\ s.left = r.left,
         hasty'[p] = hasty[p], armed'[p] = armed[p], view'[p] = view[p]
  PROVE  Calm(p)'
<1>1. SUFFICES ASSUME ~hasty[p]
               PROVE  /\ \A r, s \in Waiting(p)' : r = s
                      /\ \A r \in Waiting(p)' : ~r.left
                      /\ armed'[p] # "no" => view'[p] = "graph" /\ Waiting(p)' = {}
  BY DEF Calm
<1>2. /\ \A r, s \in Waiting(p) : r = s
      /\ \A r \in Waiting(p) : ~r.left
      /\ armed[p] # "no" => view[p] = "graph" /\ Waiting(p) = {}
  BY <1>1 DEF Calm
<1>3. PICK W, V : W = Waiting(p) /\ V = Waiting(p)'
  OBVIOUS
<1>4. /\ \A r, s \in V : r = s
      /\ \A r \in V : ~r.left
      /\ armed[p] # "no" => V = {}
  BY <1>2, <1>3
<1>5. QED
  BY <1>2, <1>3, <1>4

\* The page waits for nothing afterwards.
LEMMA CalmAlone ==
  ASSUME NEW p, ~hasty'[p] => Waiting(p)' = {},
         ~hasty'[p] /\ armed'[p] # "no" => view'[p] = "graph"
  PROVE  Calm(p)'
BY DEF Calm

\* The page waits for what it has just asked for.
LEMMA CalmAsked ==
  ASSUME NEW p, NEW new, ~new.left, ~hasty'[p] => Waiting(p)' \subseteq {new},
         ~hasty'[p] => armed'[p] = "no"
  PROVE  Calm(p)'
BY DEF Calm

\* Another page does something.
LEMMA CalmElsewhere ==
  ASSUME NEW p, Calm(p), Waiting(p)' \subseteq Waiting(p),
         hasty'[p] = hasty[p], armed'[p] = armed[p], view'[p] = view[p]
  PROVE  Calm(p)'
<1>1. PICK f : f = [r \in Waiting(p) |-> r]
  OBVIOUS
<1>2. \A s \in Waiting(p)' : \E r \in Waiting(p) : s = f[r] /\ s.left = r.left
  BY <1>1
<1>3. QED
  BY <1>2, CalmKept

\* What a page waits for when another, or it, goes to another view.
LEMMA WaitingLeft ==
  ASSUME TypeOK, NEW q, NEW p, NEW S \in SUBSET calls, calls' = Leaving(q, S)
  PROVE  /\ p # q => Waiting(p)' \subseteq Waiting(p)
         /\ Waiting(p) \cap S = {} => Waiting(p)' = {}
<1>1. S \in SUBSET Calls
  BY DEF TypeOK
<1>2. ASSUME NEW s \in Waiting(p)'
      PROVE  \E r \in S \cap Waiting(p) : r.page # q => s = r
  <2>1. s \in Leaving(q, S) /\ s.page = p /\ s.awaited
    BY DEF Waiting
  <2>2. PICK r \in S : /\ s = LeavingMap(q)[r] /\ Noted(s, r) /\ s.awaited = r.awaited
                       /\ r.page # q => s = r
    BY <1>1, <2>1, LeavingIs, Zenon
  <2>3. r \in Waiting(p)
    BY <2>1, <2>2 DEF Waiting, Noted, Same
  <2>4. QED
    BY <2>2, <2>3
<1>3. \A r \in Waiting(p) : r.page = p
  BY DEF Waiting
<1>4. QED
  BY <1>2, <1>3

-----------------------------------------------------------------------------
LEMMA CalmServe ==
  ASSUME IInv, AllCalm, NEW r \in calls, Serve(r), NEW p \in Pages
  PROVE  Calm(p)'
<1>1. UNCHANGED <<view, armed, hasty>>
  BY DEF Serve, page, past
<1>2. ASSUME NEW status, NEW session, NEW found, Answered(r, status, session, found)
      PROVE  Calm(p)'
  <2>1. PICK answer : answer = WithAnswer(r, status, session, found)
    OBVIOUS
  <2>2. answer.page = r.page /\ answer.awaited = r.awaited /\ answer.left = r.left
    <3>1. r \in Calls
      BY DEF IInv, Types, TypeOK
    <3>2. QED
      BY <2>1, <3>1, Zenon DEF Calls, WithAnswer
  <2>3. PICK f : f = [q \in calls |-> IF q = r THEN answer ELSE q]
    OBVIOUS
  <2>4. \A s \in calls' : s \in calls \ {r} \/ (r.awaited /\ s = answer)
    BY <1>2, <2>1 DEF Answered
  <2>5. ASSUME NEW s \in Waiting(p)'
        PROVE  \E q \in Waiting(p) : s = f[q] /\ s.left = q.left
    <3>1. s \in calls' /\ s.page = p /\ s.awaited
      BY DEF Waiting
    <3>2. CASE s \in calls \ {r}
      BY <2>3, <3>1, <3>2 DEF Waiting
    <3>3. CASE s = answer
      <4>1. r \in Waiting(p) /\ s = f[r] /\ s.left = r.left
        BY <2>2, <2>3, <2>4, <3>1, <3>3 DEF Waiting
      <4>2. QED
        BY <4>1
    <3>4. QED
      BY <2>4, <3>1, <3>2, <3>3
  <2>6. Calm(p)
    BY DEF AllCalm
  <2>7. QED
    BY <1>1, <2>5, <2>6, CalmKept
<1>3. CASE Refused(r)
  BY <1>2, <1>3 DEF Refused
<1>4. r.kind \in Kinds
  BY DEF IInv, Types, TypeOK, Calls
<1>5. \/ Login(r) \/ Register(r) \/ Branches(r) \/ NewBranch(r)
  BY <1>4 DEF Serve, Kinds
<1>6. QED
  BY <1>2, <1>3, <1>5 DEF Login, Register, Branches, NewBranch

LEMMA CalmLoad ==
  ASSUME IInv, AllCalm, NEW q \in Pages, Load(q), NEW p \in Pages
  PROVE  Calm(p)'
<1>1. PICK new : new = Sent(q, "branches", 0, 0)
  OBVIOUS
<1>2. new.page = q /\ ~new.left
  BY <1>1, SentFields
<1>3. calls' \subseteq {IF r.page = q THEN [r EXCEPT !.awaited = FALSE] ELSE r : r \in calls}
                          \cup {new}
  BY <1>1 DEF Load
<1>4. ASSUME NEW s \in Waiting(p)', s # new
      PROVE  p # q /\ s \in Waiting(p)
  <2>1. s \in calls' /\ s.page = p /\ s.awaited
    BY DEF Waiting
  <2>2. PICK r \in calls : s = IF r.page = q THEN [r EXCEPT !.awaited = FALSE] ELSE r
    BY <1>3, <1>4, <2>1
  <2>3. r \in Calls
    BY DEF IInv, Types, TypeOK
  <2>4. r.page # q
    BY <2>1, <2>2, <2>3, CallKept
  <2>5. QED
    BY <2>1, <2>2, <2>4 DEF Waiting
<1>5. CASE p = q
  <2>1. Waiting(p)' \subseteq {new}
    BY <1>4, <1>5
  <2>2. armed'[p] = "no"
    BY <1>5 DEF Load, IInv, Types, TypeOK
  <2>3. QED
    BY <1>2, <2>1, <2>2, CalmAsked
<1>6. CASE p # q
  <2>1. \A s \in Waiting(p)' : s.page = p
    BY DEF Waiting
  <2>2. Waiting(p)' \subseteq Waiting(p)
    BY <1>2, <1>4, <1>6, <2>1
  <2>3. hasty'[p] = hasty[p] /\ armed'[p] = armed[p] /\ view'[p] = view[p]
    BY <1>6 DEF Load, IInv, Types, TypeOK
  <2>4. QED
    BY <2>2, <2>3, CalmElsewhere DEF AllCalm
<1>7. QED
  BY <1>5, <1>6

\* A click that asks for something.
LEMMA CalmSend ==
  ASSUME IInv, AllCalm, NEW q \in Pages, NEW new, new.page = q, ~new.left,
         calls' = calls \cup {new}, Clicked(q), view[q] # "graph",
         UNCHANGED <<view, armed>>, NEW p \in Pages
  PROVE  Calm(p)'
<1>1. Waiting(p)' \subseteq Waiting(p) \cup {new}
  BY DEF Waiting
<1>2. CASE p = q
  <2>1. ~hasty'[p] => ~hasty[p] /\ Waiting(p) = {}
    BY <1>2 DEF Clicked, IInv, Types, TypeOK
  <2>2. ~hasty'[p] => armed'[p] = "no"
    BY <1>2, <2>1 DEF AllCalm, Calm
  <2>3. QED
    BY <1>1, <2>1, <2>2, CalmAsked
<1>3. CASE p # q
  <2>1. \A s \in Waiting(p)' : s.page = p
    BY DEF Waiting
  <2>2. Waiting(p)' \subseteq Waiting(p)
    BY <1>1, <1>3, <2>1
  <2>3. hasty'[p] = hasty[p]
    BY <1>3 DEF Clicked, IInv, Types, TypeOK
  <2>4. QED
    BY <2>2, <2>3, CalmElsewhere DEF AllCalm
<1>4. QED
  BY <1>2, <1>3

\* A click that leads to another view.
LEMMA CalmTurn ==
  ASSUME IInv, AllCalm, NEW q \in Pages, NEW from, NEW to, Turn(q, from, to),
         NEW p \in Pages, p # q => armed'[p] = armed[p],
         ~hasty'[q] /\ armed'[q] # "no" => to = "graph"
  PROVE  Calm(p)'
<1>1. TypeOK /\ calls \in SUBSET calls /\ calls' = Leaving(q, calls)
  BY DEF Turn, IInv, Types
<1>2. /\ p # q => Waiting(p)' \subseteq Waiting(p)
      /\ Waiting(p) \cap calls = {} => Waiting(p)' = {}
  BY <1>1, WaitingLeft
<1>3. CASE p = q
  <2>1. ~hasty'[p] => Waiting(p) = {}
    BY <1>3 DEF Turn, Clicked, IInv, Types, TypeOK
  <2>2. view'[p] = to
    BY <1>3 DEF Turn, IInv, Types, TypeOK
  <2>3. ~hasty'[p] => Waiting(p)' = {}
    BY <1>2, <2>1
  <2>4. ~hasty'[p] /\ armed'[p] # "no" => view'[p] = "graph"
    BY <1>3, <2>2
  <2>5. QED
    BY <2>3, <2>4, CalmAlone
<1>4. CASE p # q
  <2>1. hasty'[p] = hasty[p] /\ view'[p] = view[p]
    BY <1>4 DEF Turn, Clicked, IInv, Types, TypeOK
  <2>2. QED
    BY <1>2, <1>4, <2>1, CalmElsewhere DEF AllCalm
<1>5. QED
  BY <1>3, <1>4

LEMMA CalmClicks ==
  ASSUME IInv, AllCalm, NEW q \in Pages, Clicks(q), NEW p \in Pages
  PROVE  Calm(p)'
<1>1. armed \in [Pages -> {"no", "armed", "ending"}]
  BY DEF IInv, Types, TypeOK
<1>2. ASSUME NEW kind \in {"login", "user"}, NEW l \in Logins, NEW w \in Passwords,
             ClickLogin(q, kind, l, w)
      PROVE  Calm(p)'
  <2>1. PICK new : new = Sent(q, kind, l, w)
    OBVIOUS
  <2>2. /\ calls' = calls \cup {new} /\ Clicked(q) /\ view[q] # "graph"
        /\ UNCHANGED <<view, armed>>
    BY <1>2, <2>1 DEF ClickLogin, page
  <2>3. new.page = q /\ ~new.left
    BY <2>1, SentFields
  <2>4. QED
    BY <2>2, <2>3, CalmSend
<1>3. CASE ClickCreate(q)
  <2>1. PICK new : new = Sent(q, "newbranch", 0, 0)
    OBVIOUS
  <2>2. /\ calls' = calls \cup {new} /\ Clicked(q) /\ view[q] # "graph"
        /\ UNCHANGED <<view, armed>>
    BY <1>3, <2>1 DEF ClickCreate, page
  <2>3. new.page = q /\ ~new.left
    BY <2>1, SentFields
  <2>4. QED
    BY <2>2, <2>3, CalmSend
<1>4. ASSUME NEW from, NEW to, from # "graph", Turn(q, from, to), UNCHANGED armed
      PROVE  Calm(p)'
  <2>1. ~hasty'[q] => ~hasty[q]
    BY <1>4 DEF Turn, Clicked, IInv, Types, TypeOK
  <2>2. ~hasty'[q] => armed'[q] = "no"
    BY <1>4, <2>1 DEF Turn, AllCalm, Calm
  <2>3. p # q => armed'[p] = armed[p]
    BY <1>4
  <2>4. QED
    BY <1>4, <2>2, <2>3, CalmTurn
<1>5. ASSUME NEW from, NEW document, Draw(q, from, document)
      PROVE  Calm(p)'
  <2>1. PICK good : good = Drawable(q, document)
    OBVIOUS
  <2>2. /\ armed' = [armed EXCEPT ![q] = IF good THEN "armed" ELSE "no"]
        /\ Turn(q, from, IF good THEN "graph" ELSE "blank")
    BY <1>5, <2>1 DEF Draw
  <2>3. PICK to : to = IF good THEN "graph" ELSE "blank"
    OBVIOUS
  <2>4. armed'[q] # "no" => to = "graph"
    BY <1>1, <2>2, <2>3
  <2>5. (p # q => armed'[p] = armed[p]) /\ Turn(q, from, to)
    BY <1>1, <2>2, <2>3
  <2>6. QED
    BY <2>4, <2>5, CalmTurn
<1>6. CASE ClickVertex(q)
  <2>1. UNCHANGED <<calls, view>> /\ Clicked(q) /\ armed[q] = "armed"
    BY <1>6 DEF ClickVertex
  <2>2. armed' = [armed EXCEPT ![q] = "ending"]
    BY <1>6 DEF ClickVertex
  <2>3. Waiting(p)' = Waiting(p)
    BY <2>1 DEF Waiting
  <2>4. CASE p = q
    <3>1. ~hasty'[p] => ~hasty[p]
      BY <2>1, <2>4 DEF Clicked, IInv, Types, TypeOK
    <3>2. ~hasty'[p] => view[p] = "graph" /\ Waiting(p) = {}
      BY <2>1, <2>4, <3>1 DEF AllCalm, Calm
    <3>3. QED
      BY <2>1, <2>3, <3>2, CalmAlone
  <2>5. CASE p # q
    <3>1. hasty'[p] = hasty[p] /\ armed'[p] = armed[p] /\ view'[p] = view[p]
      BY <1>1, <2>1, <2>2, <2>5 DEF Clicked, IInv, Types, TypeOK
    <3>2. QED
      BY <2>3, <3>1, CalmElsewhere DEF AllCalm
  <2>6. QED
    BY <2>4, <2>5
<1>7. CASE ClickLogout(q) \/ ClickAccount(q)
  <2>1. \E from \in {"user", "editor"} : \E to : Turn(q, from, to)
    BY <1>7 DEF ClickLogout, ClickAccount
  <2>2. UNCHANGED armed
    BY <1>7 DEF ClickLogout, ClickAccount
  <2>3. QED
    BY <1>4, <2>1, <2>2
<1>8. CASE ClickDocument(q) \/ ClickGraph(q)
  BY <1>5, <1>8 DEF ClickDocument, ClickGraph
<1>9. QED
  BY <1>2, <1>3, <1>6, <1>7, <1>8, CalmLoad DEF Clicks

LEMMA CalmGraphEnds ==
  ASSUME IInv, AllCalm, NEW q \in Pages, GraphEnds(q), NEW p \in Pages
  PROVE  Calm(p)'
<1>1. TypeOK /\ calls \in SUBSET calls /\ calls' = Leaving(q, calls)
  BY DEF GraphEnds, IInv, Types
<1>2. /\ p # q => Waiting(p)' \subseteq Waiting(p)
      /\ Waiting(p) \cap calls = {} => Waiting(p)' = {}
  BY <1>1, WaitingLeft
<1>3. hasty' = hasty
  BY DEF GraphEnds, past
<1>4. CASE p = q
  <2>1. ~hasty[p] => Waiting(p) = {}
    BY <1>4 DEF GraphEnds, AllCalm, Calm
  <2>2. armed'[p] = "no"
    BY <1>4 DEF GraphEnds, IInv, Types, TypeOK
  <2>3. QED
    BY <1>2, <1>3, <2>1, <2>2, CalmAlone
<1>5. CASE p # q
  <2>1. armed'[p] = armed[p] /\ view'[p] = view[p]
    BY <1>5 DEF GraphEnds, IInv, Types, TypeOK
  <2>2. QED
    BY <1>2, <1>3, <1>5, <2>1, CalmElsewhere DEF AllCalm
<1>6. QED
  BY <1>4, <1>5

\* An answer, or none: the one request of a calm page is over.
LEMMA CalmSettles ==
  ASSUME IInv, AllCalm, NEW r \in calls, Settle(r) \/ Fail(r), NEW p \in Pages
  PROVE  Calm(p)'
<1>1. /\ r \in Calls /\ r.awaited /\ UNCHANGED <<armed, hasty>>
      /\ \E good : view' = [view EXCEPT ![r.page] = Entered(r, good)]
  BY DEF Settle, Fail, CallBack, past, IInv, Types, TypeOK
<1>2. PICK S : S = calls \ {r}
  OBVIOUS
<1>3. PICK C : C = Leaving(r.page, S)
  OBVIOUS
<1>4. \A s \in calls' : s \in C \/ ~s.awaited
  <2>1. PICK given : given = [r EXCEPT !.awaited = FALSE] /\ ~given.awaited
    BY <1>1, CallKept
  <2>2. calls' \subseteq C \cup {given}
    BY <1>2, <1>3, <2>1 DEF Settle, Fail
  <2>3. QED
    BY <2>1, <2>2
<1>5. ASSUME NEW s \in Waiting(p)'
      PROVE  \E q \in S \cap Waiting(p) : r.page # p => s = q
  <2>1. s \in Leaving(r.page, S) /\ s.page = p /\ s.awaited
    BY <1>3, <1>4 DEF Waiting
  <2>2. S \in SUBSET Calls
    BY <1>2 DEF IInv, Types, TypeOK
  <2>3. PICK q \in S : /\ s = LeavingMap(r.page)[q] /\ Noted(s, q) /\ s.awaited = q.awaited
                       /\ q.page # r.page => s = q
    BY <2>1, <2>2, LeavingIs, Zenon
  <2>4. q \in Waiting(p)
    BY <1>2, <2>1, <2>3 DEF Waiting, Noted, Same
  <2>5. QED
    BY <2>3, <2>4 DEF Waiting
<1>6. CASE r.page = p
  <2>1. r \in Waiting(p)
    BY <1>1, <1>6 DEF Waiting
  <2>2. ~hasty[p] => Waiting(p)' = {} /\ armed[p] = "no"
    BY <1>2, <1>5, <2>1 DEF AllCalm, Calm
  <2>3. QED
    BY <1>1, <2>2, CalmAlone
<1>7. CASE r.page # p
  <2>1. Waiting(p)' \subseteq Waiting(p)
    BY <1>5, <1>7
  <2>2. view'[p] = view[p]
    BY <1>1, <1>7 DEF IInv, Types, TypeOK
  <2>3. QED
    BY <1>1, <2>1, <2>2, CalmElsewhere DEF AllCalm
<1>8. QED
  BY <1>6, <1>7

LEMMA CalmStep ==
  ASSUME IInv, AllCalm, [Next]_vars
  PROVE  AllCalm'
<1>1. SUFFICES ASSUME NEW p \in Pages
               PROVE  Calm(p)'
  BY DEF AllCalm
<1>2. ASSUME calls' \subseteq calls, UNCHANGED <<view, armed, hasty>>
      PROVE  Calm(p)'
  <2>1. Waiting(p)' \subseteq Waiting(p)
    BY <1>2 DEF Waiting
  <2>2. QED
    BY <1>2, <2>1, CalmElsewhere DEF AllCalm
<1>3. CASE \E r \in calls : Serve(r) \/ Lose(r)
  BY <1>2, <1>3, CalmServe DEF Lose, page, past
<1>4. ASSUME NEW q \in Pages, Clicks(q) \/ GraphEnds(q) \/ Settles(q)
      PROVE  Calm(p)'
  BY <1>4, CalmClicks, CalmGraphEnds, CalmSettles DEF Settles
<1>5. CASE UNCHANGED vars
  BY <1>2, <1>5 DEF vars, page, past
<1>6. QED
  BY <1>3, <1>4, <1>5 DEF Next

\* On a page that is not clicked on while it waits, an answer acts on the view
\* that its request was made in, and a click on the graph on the graph.
THEOREM ActsInPlace == Spec => []AnswersInPlace
<1>1. Init => AllCalm
  BY DEF Init, AllCalm, Calm, Waiting
<1>2. IInv /\ AllCalm /\ [Next]_vars => AllCalm'
  BY CalmStep
<1>3. AllCalm => AnswersInPlace
  BY DEF AllCalm, Calm, AnswersInPlace
<1>4. QED
  BY <1>1, <1>2, <1>3, InitInvariant, StepInvariant, PTL DEF Spec
=============================================================================
