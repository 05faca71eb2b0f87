--------------------------- MODULE AdminServerProofs ---------------------------
(***************************************************************************)
(* The safety of the admin server in module AdminServer on the SQL user    *)
(* store, and that this store implements the in-memory one, for any number *)
(* of users, blogs, sessions, requests and faults.                         *)
(***************************************************************************)
EXTENDS AdminServer, TLAPS

\* A user who is not there has no blogs: the foreign key of the table.
NoOrphans == \A u \in User : rows[u] = NoUser => titles[u] = [s \in Slug |-> NoBlog]

\* A transaction is the only one on its row, and starts from what it found.
RowLocks ==
  /\ \A c, d \in Caller : tx[c] # NoTx /\ tx[d] # NoTx /\ call[c].u = call[d].u => c = d
  /\ \A c \in Caller : tx[c] # NoTx =>
       LET x == call[c]
           t == tx[c]
       IN  /\ rows[x.u] # NoUser /\ t.row.name = x.name
           /\ x.password = NoPassword => t.ready /\ t.row = [rows[x.u] EXCEPT !.name = x.name]
           /\ x.password # NoPassword /\ t.ready =>
                t.row.hash[1] = x.password /\ t.row.hash[2] = t.row.salt

\* Whose sessions there are.
Identities ==
  /\ \A sid \in Sid : sessions[sid] # NoUser => issued[sid] = sessions[sid]
  /\ \A sid \in Sid : sid > logins => issued[sid] = NoUser
  /\ \A r \in Caller : ctx[r] # NoSession =>
       /\ ctx[r].sid <= logins
       /\ issued[ctx[r].sid] # NoUser \/ at[r] \in {"login", "set"}
       /\ issued[ctx[r].sid] \in {NoUser, ctx[r].u}
  /\ \A r, v \in Caller : ctx[r] # NoSession /\ ctx[v] # NoSession /\ ctx[r].sid = ctx[v].sid
                          => ctx[r].u = ctx[v].u

\* A call that changes something is made for the user of its session.
Authorised ==
  \A r \in Caller : call[r] \notin Answer \union {NoCall} /\ call[r].op \notin Anonymous =>
    at[r] \in {"call", "delete"} /\ ctx[r] # NoSession /\ ctx[r].u = call[r].u

\* The inductive invariant.
AdminInv == TypeOK /\ NoOrphans /\ RowLocks /\ Identities /\ Authorised

USE StoreAssumption, ServerAssumption, AbsenceAssumption DEF StoreAssumption, ServerAssumption

-------------------------------------------------------------------------------
\* What the parts of a call are.
LEMMA CallFields ==
  ASSUME NEW x \in M!Call
  PROVE  /\ x.u \in User
         /\ x.op \in {"CreateUser", "UpdateUser", "AuthenticateUser"}
              => x.password \in Password \union {NoPassword}
         /\ x.op \in {"CreateUser", "UpdateUser"} => x.name \in Name
         /\ x.op \in {"AddBlog", "UpdateBlog"} => x.slug \in Slug /\ x.name \in Name
         /\ x.op \in {"GetBlog", "DeleteBlog"} => x.slug \in Slug
         /\ x.op \in {"CreateUser", "UpdateUser", "AuthenticateUser", "GetUser", "DeleteUser",
                      "ListBlogs", "AddBlog", "UpdateBlog", "GetBlog", "DeleteBlog"}
<1> QED BY DEF M!Call

Calls == M!Call \union Answer \union {NoCall}
Tx == [row : Row, ready : BOOLEAN]
Places == {"idle", "call", "login", "delete", "set", "unset"}
StoreTypes ==
  /\ rows \in [User -> Row \union {NoUser}]
  /\ titles \in [User -> [Slug -> Name \union {NoBlog}]]
  /\ tx \in [Caller -> Tx \union {NoTx}] /\ call \in [Caller -> Calls]
  /\ faults \in 0..MaxFaults
ServerTypes ==
  /\ logins \in 0..MaxSids /\ calls \in 0..MaxCalls
  /\ at \in [Caller -> Places]
  /\ ctx \in [Caller -> [sid : Sid, u : User] \union {NoSession}]
  /\ sessions \in [Sid -> User \union {NoUser}] /\ issued \in [Sid -> User \union {NoUser}]
Linked ==
  \A r \in Caller :
    /\ call[r] # NoCall <=> at[r] \in {"call", "login", "delete"}
    /\ tx[r] # NoTx => InCall(r, {"UpdateUser"})
    /\ at[r] = "idle" => ctx[r] = NoSession
    /\ at[r] \in {"login", "delete", "set", "unset"} => ctx[r] # NoSession

LEMMA TypeParts == TypeOK <=> StoreTypes /\ ServerTypes /\ Linked
<1> QED BY DEF TypeOK, StoreTypes, ServerTypes, Linked, Calls, Tx, Places

\* Nobody has called at the start; the rows are those of users who registered.
LEMMA InitAdmin == Init => AdminInv
<1> SUFFICES ASSUME Init PROVE AdminInv
  OBVIOUS
<1> USE DEF Init, StoreInit
<1>1. FirstRow \in Row
  <2>1. /\ (CHOOSE salt \in Salt : TRUE) \in Salt
        /\ (CHOOSE name \in Name : TRUE) \in Name
        /\ (CHOOSE password \in Password : TRUE) \in Password
    OBVIOUS
  <2> QED BY <2>1 DEF FirstRow, Row, Hash
<1>2. StoreTypes
  <2>1. rows \in [User -> Row \union {NoUser}]
    BY <1>1
  <2> QED BY <2>1 DEF StoreTypes, Calls
<1>3. ServerTypes
  BY DEF ServerTypes, Places
<1>4. Linked
  BY DEF Linked
<1>5. NoOrphans /\ RowLocks /\ Authorised
  BY DEF NoOrphans, RowLocks, Authorised
<1>6. Identities
  BY DEF Identities
<1> QED BY <1>2, <1>3, <1>4, <1>5, <1>6, TypeParts DEF AdminInv

-------------------------------------------------------------------------------
\* A caller in a call is in one of those of the interface.
LEMMA InCallFacts ==
  ASSUME TypeOK, NEW c \in Caller, NEW ops, InCall(c, ops)
  PROVE  call[c] \in M!Call /\ call[c].op \in ops /\ call[c] # NoCall /\ call[c] \notin Answer
<1> QED BY DEF TypeOK, InCall

LEMMA AnswersFacts ==
  ASSUME TypeOK, NEW c \in Caller, NEW a \in Answer, Answers(c, a)
  PROVE  /\ call' \in [Caller -> Calls] /\ call'[c] = a
         /\ \A d \in Caller \ {c} : call'[d] = call[d]
<1> QED BY DEF TypeOK, Answers, Calls

LEMMA DoneFacts ==
  ASSUME TypeOK, NEW c \in Caller, Done(c)
  PROVE  faults' \in 0..MaxFaults /\ \E a \in {Ok, Error} : Answers(c, a)
<1> QED BY DEF TypeOK, Done

\* A call that is answered is in no transaction any more.
LEMMA AnswerTypes ==
  ASSUME TypeOK, NEW c \in Caller, call[c] # NoCall, NEW a \in Answer, Answers(c, a),
         \/ UNCHANGED tx /\ tx[c] = NoTx
         \/ tx' = [tx EXCEPT ![c] = NoTx],
         rows' \in [User -> Row \union {NoUser}],
         titles' \in [User -> [Slug -> Name \union {NoBlog}]],
         faults' \in 0..MaxFaults, UNCHANGED serverVars
  PROVE  TypeOK'
<1>1. /\ call' \in [Caller -> Calls] /\ call'[c] = a /\ a # NoCall
      /\ \A d \in Caller \ {c} : call'[d] = call[d]
  BY AnswersFacts
<1>2. tx' \in [Caller -> Tx \union {NoTx}] /\ tx'[c] = NoTx /\ \A d \in Caller \ {c} : tx'[d] = tx[d]
  BY DEF TypeOK, Tx
<1>3. StoreTypes'
  BY <1>1, <1>2 DEF StoreTypes
<1>4. ServerTypes'
  BY TypeParts DEF ServerTypes, serverVars
<1>5. Linked'
  BY <1>1, <1>2, TypeParts DEF Linked, InCall, serverVars
<1> QED BY <1>3, <1>4, <1>5, TypeParts, PTL

\* A refused call changes nothing else.
LEMMA RefusalTypes ==
  ASSUME TypeOK, NEW c \in Caller, call[c] # NoCall, tx[c] = NoTx, Refusal(c), UNCHANGED serverVars
  PROVE  TypeOK'
<1>1. Refused \in Answer /\ Answers(c, Refused) /\ UNCHANGED <<rows, titles, tx, faults>>
  BY DEF Answer, Refusal
<1> QED BY <1>1, AnswerTypes DEF TypeOK

LEMMA NoTransaction ==
  ASSUME TypeOK, NEW c \in Caller, NEW ops, InCall(c, ops), "UpdateUser" \notin ops
  PROVE  tx[c] = NoTx
<1> QED BY DEF TypeOK, InCall

\* What CreateUser writes is a row.
LEMMA NewRow ==
  ASSUME NEW x \in M!Call, x.op = "CreateUser", NEW salt \in Salt
  PROVE  [name |-> x.name, salt |-> salt, hash |-> Hash(x.password, salt)] \in Row
<1> QED BY CallFields DEF Row, Hash

\* What the two statements of UpdateUser write in their transaction.
LEMMA DataRow ==
  ASSUME NEW row \in Row, NEW x \in M!Call, x.op = "UpdateUser"
  PROVE  LET t == [row |-> [row EXCEPT !.name = x.name], ready |-> x.password = NoPassword]
         IN  /\ t \in Tx /\ t.row.name = x.name /\ t.row = [row EXCEPT !.name = x.name]
             /\ t.ready <=> x.password = NoPassword
<1>1. [row EXCEPT !.name = x.name] \in Row
  BY CallFields DEF Row
<1>2. (x.password = NoPassword) \in BOOLEAN
  OBVIOUS
<1> QED BY <1>1, <1>2 DEF Tx, Row

LEMMA PasswordRow ==
  ASSUME NEW row \in Row, NEW x \in M!Call, x.op = "UpdateUser", NEW salt \in Salt \union {NoSalt}
  PROVE  LET u == [row EXCEPT !.salt = salt, !.hash = Hash(x.password, salt)]
         IN  /\ u \in Row /\ u.name = row.name
             /\ u.salt = salt /\ u.hash = <<x.password, salt>>
<1>1. x.password \in Password \union {NoPassword}
  BY CallFields
<1> QED BY <1>1 DEF Row, Hash

\* CreateUser keeps the types.
LEMMA CreateTypes ==
  ASSUME TypeOK, NEW c \in Caller, CreateUser(c), UNCHANGED serverVars
  PROVE  TypeOK'
<1> DEFINE x == call[c]
<1>1. x \in M!Call /\ x.op = "CreateUser" /\ x # NoCall /\ tx[c] = NoTx /\ x.u \in User
  BY InCallFacts, NoTransaction, CallFields DEF CreateUser
<1>2. CASE Refusal(c)
  BY <1>1, <1>2, RefusalTypes
<1>3. CASE ~Refusal(c)
  <2>1. PICK salt \in Salt :
          rows' = [rows EXCEPT ![x.u] = [name |-> x.name, salt |-> salt, hash |-> Hash(x.password, salt)]]
    BY <1>3 DEF CreateUser
  <2>2. rows' \in [User -> Row \union {NoUser}]
    BY <1>1, <2>1, NewRow DEF TypeOK
  <2>3. faults' \in 0..MaxFaults /\ UNCHANGED <<titles, tx>>
    BY <1>3, DoneFacts DEF CreateUser
  <2>4. PICK a \in Answer : Answers(c, a)
    BY <1>3, DoneFacts DEF CreateUser, Answer
  <2> QED BY <1>1, <2>2, <2>3, <2>4, AnswerTypes DEF TypeOK
<1> QED BY <1>2, <1>3

\* The steps of a transaction leave the call where it is, in the transaction.
LEMMA InTransactionTypes ==
  ASSUME TypeOK, NEW c \in Caller, InCall(c, {"UpdateUser"}), NEW t \in Tx,
         tx' = [tx EXCEPT ![c] = t], UNCHANGED <<rows, titles, call, serverVars>>,
         faults' \in 0..MaxFaults
  PROVE  TypeOK'
<1>1. tx' \in [Caller -> Tx \union {NoTx}] /\ \A d \in Caller \ {c} : tx'[d] = tx[d]
  BY DEF TypeOK, Tx
<1>2. StoreTypes'
  BY <1>1, TypeParts DEF StoreTypes
<1>3. ServerTypes'
  BY TypeParts DEF ServerTypes, serverVars
<1>4. Linked'
  BY <1>1, TypeParts DEF Linked, InCall, serverVars
<1> QED BY <1>2, <1>3, <1>4, TypeParts, PTL

LEMMA UpdateDataTypes ==
  ASSUME TypeOK, NEW c \in Caller, UpdateData(c), UNCHANGED serverVars
  PROVE  TypeOK'
<1> DEFINE x == call[c]
           t == [row |-> [rows[x.u] EXCEPT !.name = x.name], ready |-> x.password = NoPassword]
<1>1. InCall(c, {"UpdateUser"}) /\ x \in M!Call /\ x.op = "UpdateUser" /\ x # NoCall /\ x.u \in User
  BY InCallFacts, CallFields DEF UpdateData
<1>2. CASE rows[x.u] = NoUser
  BY <1>1, <1>2, RefusalTypes DEF UpdateData
<1>3. CASE rows[x.u] # NoUser
  <2>1. rows[x.u] \in Row
    BY <1>1, <1>3 DEF TypeOK
  <2>2. t \in Tx
    BY <1>1, <2>1, DataRow
  <2>3. tx' = [tx EXCEPT ![c] = t] /\ UNCHANGED <<rows, titles, call, faults>>
    BY <1>3 DEF UpdateData
  <2> QED BY <1>1, <2>2, <2>3, InTransactionTypes DEF TypeOK
<1> QED BY <1>2, <1>3

LEMMA UpdatePasswordTypes ==
  ASSUME TypeOK, NEW c \in Caller, UpdatePassword(c), UNCHANGED serverVars
  PROVE  TypeOK'
<1> DEFINE x == call[c]
<1>1. InCall(c, {"UpdateUser"}) /\ x \in M!Call /\ x.op = "UpdateUser" /\ x # NoCall /\ x.u \in User
  BY InCallFacts, CallFields DEF UpdatePassword
<1>2. CASE rows[x.u] = NoUser
  <2>1. Error \in Answer /\ Answers(c, Error) /\ tx' = [tx EXCEPT ![c] = NoTx]
    BY <1>2 DEF UpdatePassword, Answer
  <2> QED BY <1>1, <1>2, <2>1, AnswerTypes DEF UpdatePassword, TypeOK
<1>3. CASE rows[x.u] # NoUser
  <2>1. rows[x.u] \in Row /\ tx[c] \in Tx /\ tx[c].row \in Row
    BY <1>1, <1>3 DEF UpdatePassword, TypeOK, Tx
  <2>2. PICK salt \in {rows[x.u].salt, NoSalt} :
          /\ tx' = [tx EXCEPT ![c] =
               [row |-> [tx[c].row EXCEPT !.salt = salt, !.hash = Hash(x.password, salt)], ready |-> TRUE]]
          /\ salt # rows[x.u].salt => faults < MaxFaults
          /\ faults' = IF salt # rows[x.u].salt THEN faults + 1 ELSE faults
          /\ UNCHANGED call
    BY <1>3 DEF UpdatePassword
  <2>3. salt \in Salt \union {NoSalt} /\ faults' \in 0..MaxFaults
    BY <2>1, <2>2 DEF Row, TypeOK
  <2> DEFINE t == [row |-> [tx[c].row EXCEPT !.salt = salt, !.hash = Hash(x.password, salt)], ready |-> TRUE]
  <2>4. t \in Tx
    BY <1>1, <2>1, <2>3, PasswordRow DEF Tx
  <2> QED BY <1>1, <2>2, <2>3, <2>4, InTransactionTypes DEF UpdatePassword
<1> QED BY <1>2, <1>3

LEMMA CommitTypes ==
  ASSUME TypeOK, NEW c \in Caller, Commit(c), UNCHANGED serverVars
  PROVE  TypeOK'
<1>1. tx[c].row \in Row /\ call[c] \in M!Call /\ call[c] # NoCall /\ call[c].u \in User
  BY InCallFacts, CallFields DEF Commit, TypeOK, Tx
<1>2. rows' \in [User -> Row \union {NoUser}]
  BY <1>1 DEF Commit, TypeOK
<1>3. faults' \in 0..MaxFaults /\ tx' = [tx EXCEPT ![c] = NoTx] /\ UNCHANGED titles
  BY DoneFacts DEF Commit
<1>4. PICK a \in Answer : Answers(c, a)
  BY DoneFacts DEF Commit, Answer
<1> QED BY <1>1, <1>2, <1>3, <1>4, AnswerTypes DEF TypeOK

LEMMA ReadTypes ==
  ASSUME TypeOK, NEW c \in Caller, AuthenticateUser(c) \/ Read(c), UNCHANGED serverVars
  PROVE  TypeOK'
<1>1. call[c] # NoCall /\ tx[c] = NoTx
  BY InCallFacts, NoTransaction DEF AuthenticateUser, Read
<1>2. CASE Refusal(c)
  BY <1>1, <1>2, RefusalTypes
<1>3. CASE ~Refusal(c)
  <2>1. Ok \in Answer /\ Answers(c, Ok) /\ UNCHANGED <<rows, titles, tx, faults>>
    BY <1>3 DEF AuthenticateUser, Read, Answer
  <2> QED BY <1>1, <2>1, AnswerTypes DEF TypeOK
<1> QED BY <1>2, <1>3

LEMMA DeleteTypes ==
  ASSUME TypeOK, NEW c \in Caller, DeleteUser(c), UNCHANGED serverVars
  PROVE  TypeOK'
<1>1. /\ call[c] \in M!Call /\ call[c].op = "DeleteUser" /\ call[c] # NoCall
      /\ tx[c] = NoTx /\ call[c].u \in User
  BY InCallFacts, NoTransaction, CallFields DEF DeleteUser
<1>2. CASE Refusal(c)
  BY <1>1, <1>2, RefusalTypes
<1>3. CASE ~Refusal(c)
  <2>1. rows' \in [User -> Row \union {NoUser}]
    BY <1>1, <1>3 DEF DeleteUser, TypeOK
  <2>2. titles' \in [User -> [Slug -> Name \union {NoBlog}]]
    BY <1>1, <1>3 DEF DeleteUser, Cascade, TypeOK
  <2>3. faults' \in 0..MaxFaults /\ UNCHANGED tx
    BY <1>3, DoneFacts DEF DeleteUser
  <2>4. PICK a \in Answer : Answers(c, a)
    BY <1>3, DoneFacts DEF DeleteUser, Answer
  <2> QED BY <1>1, <2>1, <2>2, <2>3, <2>4, AnswerTypes
<1> QED BY <1>2, <1>3

\* The blogs that WriteBlog leaves: one title of one user changes.
LEMMA WrittenBlog ==
  ASSUME TypeOK, NEW c \in Caller, WriteBlog(c), ~Refusal(c)
  PROVE  LET x == call[c]
             title == IF x.op = "DeleteBlog" THEN NoBlog ELSE x.name
         IN  /\ x \in M!Call /\ x.u \in User /\ x.slug \in Slug /\ title \in Name \union {NoBlog}
             /\ x.op \in {"AddBlog", "UpdateBlog", "DeleteBlog"} /\ AffectsBlog(x)
             /\ titles' = [titles EXCEPT ![x.u] = [titles[x.u] EXCEPT ![x.slug] = title]]
             /\ titles' \in [User -> [Slug -> Name \union {NoBlog}]]
<1> DEFINE x == call[c]
           title == IF x.op = "DeleteBlog" THEN NoBlog ELSE x.name
<1>1. x \in M!Call /\ x.op \in {"AddBlog", "UpdateBlog", "DeleteBlog"}
  BY InCallFacts DEF WriteBlog
<1>2. x.u \in User /\ x.slug \in Slug /\ title \in Name \union {NoBlog}
  BY <1>1, CallFields
<1>3. AffectsBlog(x) /\ titles' = [titles EXCEPT ![x.u] = [titles[x.u] EXCEPT ![x.slug] = title]]
  BY DEF WriteBlog
<1> HIDE DEF x, title
<1>4. titles' \in [User -> [Slug -> Name \union {NoBlog}]]
  BY <1>2, <1>3 DEF TypeOK
<1> QED BY <1>1, <1>2, <1>3, <1>4 DEF x, title

LEMMA WriteTypes ==
  ASSUME TypeOK, NEW c \in Caller, WriteBlog(c), UNCHANGED serverVars
  PROVE  TypeOK'
<1>1. call[c] # NoCall /\ tx[c] = NoTx
  BY InCallFacts, NoTransaction DEF WriteBlog
<1>2. CASE Refusal(c)
  BY <1>1, <1>2, RefusalTypes
<1>3. CASE ~Refusal(c)
  <2>1. titles' \in [User -> [Slug -> Name \union {NoBlog}]]
    BY <1>3, WrittenBlog
  <2>2. faults' \in 0..MaxFaults /\ UNCHANGED <<rows, tx>>
    BY <1>3, DoneFacts DEF WriteBlog
  <2>3. PICK a \in Answer : Answers(c, a)
    BY <1>3, DoneFacts DEF WriteBlog, Answer
  <2> QED BY <1>1, <2>1, <2>2, <2>3, AnswerTypes DEF TypeOK
<1> QED BY <1>2, <1>3

LEMMA FailsTypes ==
  ASSUME TypeOK, NEW c \in Caller, Fails(c), UNCHANGED serverVars
  PROVE  TypeOK'
<1>1. call[c] # NoCall /\ Error \in Answer /\ faults' \in 0..MaxFaults
  BY DEF Fails, Answer, TypeOK
<1> QED BY <1>1, AnswerTypes DEF Fails, TypeOK

\* The user store keeps the types.
LEMMA StatementTypes ==
  ASSUME TypeOK, NEW c \in Caller, StoreCall(c) \/ StoreFails(c)
  PROVE  TypeOK'
<1> QED BY CreateTypes, UpdateDataTypes, UpdatePasswordTypes, CommitTypes, ReadTypes, DeleteTypes,
           WriteTypes, FailsTypes DEF StoreCall, StoreFails, Statement

-------------------------------------------------------------------------------
\* The session of a cookie is one that the session store has.
LEMMA SessionFacts ==
  ASSUME TypeOK, NEW sid \in Cookie
  PROVE  /\ SessionOf(sid) \in [sid : Sid, u : User] \union {NoSession}
         /\ SessionOf(sid) # NoSession =>
              /\ SessionOf(sid).sid \in Sid
              /\ sessions[SessionOf(sid).sid] = SessionOf(sid).u /\ SessionOf(sid).u \in User
<1> QED BY DEF TypeOK, SessionOf, Cookie

\* What a request that is let in does to its own variables.
LEMMA ReceiveFacts ==
  ASSUME TypeOK, NEW r \in Caller, NEW q \in Request, NEW cookie \in Cookie, Receive(r, q, cookie)
  PROVE  /\ at'[r] = Handler(q) /\ at'[r] \in Places \ {"idle"}
         /\ \A v \in Caller \ {r} : at'[v] = at[v] /\ ctx'[v] = ctx[v] /\ call'[v] = call[v]
         /\ ctx' \in [Caller -> [sid : Sid, u : User] \union {NoSession}]
         /\ at' \in [Caller -> Places] /\ call' \in [Caller -> Calls]
         /\ IF q.op = "AuthenticateUser"
            THEN logins' = logins + 1 /\ logins' \in Sid /\ ctx'[r] = [sid |-> logins + 1, u |-> q.u]
            ELSE logins' = logins /\ ctx'[r] = SessionOf(cookie)
         /\ IF q.op \in {"Refresh", "Logout"} THEN call'[r] = NoCall /\ at'[r] \in {"set", "unset"}
            ELSE q \in M!Call /\ call'[r] = q /\ at'[r] \in {"call", "login", "delete"}
         /\ q.op \notin Anonymous => ctx'[r] # NoSession
         /\ q.op \notin Anonymous /\ q.op \notin {"Refresh", "Logout"} =>
              ctx'[r].u = q.u /\ at'[r] \in {"call", "delete"}
         /\ at'[r] = "login" <=> q.op = "AuthenticateUser"
<1>1. at[r] = "idle" /\ call[r] = NoCall
  BY DEF Receive, TypeOK
<1>2. q.op \in {"Refresh", "Logout"} \/ q \in M!Call
  BY DEF Request
<1>3. at'[r] = Handler(q) /\ \A v \in Caller \ {r} : at'[v] = at[v] /\ ctx'[v] = ctx[v] /\ call'[v] = call[v]
  BY DEF Receive, TypeOK
<1>4. /\ at'[r] \in Places \ {"idle"}
      /\ at'[r] = "login" <=> q.op = "AuthenticateUser"
      /\ q.op \in {"Refresh", "Logout"} => at'[r] \in {"set", "unset"}
      /\ q.op \notin {"Refresh", "Logout"} => at'[r] \in {"call", "login", "delete"}
  BY <1>3 DEF Handler, Places
<1>5. IF q.op = "AuthenticateUser"
      THEN logins' = logins + 1 /\ logins' \in Sid /\ ctx'[r] = [sid |-> logins + 1, u |-> q.u]
      ELSE logins' = logins /\ ctx'[r] = SessionOf(cookie)
  BY DEF Receive, TypeOK, Sid
<1>6. IF q.op \in {"Refresh", "Logout"} THEN call'[r] = NoCall ELSE q \in M!Call /\ call'[r] = q
  BY <1>1, <1>2 DEF Receive, TypeOK
<1>7. ctx' \in [Caller -> [sid : Sid, u : User] \union {NoSession}]
  <2>1. CASE q.op = "AuthenticateUser"
    <3>1. [sid |-> logins + 1, u |-> q.u] \in [sid : Sid, u : User]
      BY <1>2, <1>5, <2>1, CallFields
    <3> QED BY <2>1, <3>1 DEF Receive, TypeOK
  <2>2. CASE q.op # "AuthenticateUser"
    BY <2>2, SessionFacts DEF Receive, TypeOK
  <2> QED BY <2>1, <2>2
<1>8. at' \in [Caller -> Places]
  BY <1>3, <1>4 DEF Receive, TypeOK, Places
<1>9. call' \in [Caller -> Calls]
  BY <1>2 DEF Receive, TypeOK, Calls
<1>10. /\ q.op \notin Anonymous => ctx'[r] # NoSession
       /\ q.op \notin Anonymous /\ q.op \notin {"Refresh", "Logout"} => ctx'[r].u = q.u
  BY <1>5 DEF Receive, Admits, Anonymous
<1>11. q.op \notin Anonymous => at'[r] # "login"
  BY <1>4 DEF Anonymous
<1> QED BY <1>3, <1>4, <1>5, <1>6, <1>7, <1>8, <1>9, <1>10, <1>11

\* A request ends; the others go on.
LEMMA EndFacts ==
  ASSUME TypeOK, NEW r \in Caller, EndRequest(r)
  PROVE  /\ at' \in [Caller -> Places] /\ at'[r] = "idle"
         /\ ctx' \in [Caller -> [sid : Sid, u : User] \union {NoSession}] /\ ctx'[r] = NoSession
         /\ \A v \in Caller \ {r} : at'[v] = at[v] /\ ctx'[v] = ctx[v]
<1> QED BY DEF EndRequest, TypeOK, Places

\* What Return does to the variables of requests.
LEMMA ReturnFacts ==
  ASSUME TypeOK, NEW r \in Caller, Return(r)
  PROVE  /\ call' \in [Caller -> Calls] /\ call'[r] = NoCall /\ call[r] \in Answer
         /\ at' \in [Caller -> Places] /\ ctx' \in [Caller -> [sid : Sid, u : User] \union {NoSession}]
         /\ \A v \in Caller \ {r} : at'[v] = at[v] /\ ctx'[v] = ctx[v] /\ call'[v] = call[v]
         /\ \/ at'[r] = "idle" /\ ctx'[r] = NoSession
            \/ /\ ctx'[r] = ctx[r] /\ ctx[r] # NoSession
               /\ \/ at[r] = "login" /\ at'[r] = "set"
                  \/ at[r] = "delete" /\ at'[r] = "unset"
<1>1. call[r] \in Answer /\ call' = [call EXCEPT ![r] = NoCall]
  BY DEF Return
<1>2. call' \in [Caller -> Calls] /\ call'[r] = NoCall /\ \A v \in Caller \ {r} : call'[v] = call[v]
  BY <1>1 DEF TypeOK, Calls
<1>3. CASE at[r] = "login" /\ call[r] = Ok
  BY <1>1, <1>2, <1>3 DEF Return, TypeOK, Places
<1>4. CASE at[r] = "delete" /\ call[r] = Ok
  BY <1>1, <1>2, <1>4 DEF Return, TypeOK, Places
<1>5. CASE ~(at[r] = "login" /\ call[r] = Ok) /\ ~(at[r] = "delete" /\ call[r] = Ok)
  BY <1>1, <1>2, <1>5, EndFacts DEF Return
<1> QED BY <1>3, <1>4, <1>5

\* Every step keeps the types.
LEMMA TypeStep == TypeOK /\ [Next]_vars => TypeOK'
<1> SUFFICES ASSUME TypeOK, [Next]_vars PROVE TypeOK'
  OBVIOUS
<1> USE TypeParts
<1>0. TypeOK' <=> StoreTypes' /\ ServerTypes' /\ Linked'
  BY PTL
<1>1. ASSUME NEW r \in Caller, NEW q \in Request, NEW cookie \in Cookie, Receive(r, q, cookie)
      PROVE  TypeOK'
  <2>1. at[r] = "idle" /\ tx[r] = NoTx /\ calls' \in 0..MaxCalls
        /\ UNCHANGED <<rows, titles, tx, faults, sessions, issued>>
    BY <1>1 DEF Receive, TypeOK, InCall
  <2>2. logins' \in 0..MaxSids
    <3>1. logins' = logins \/ logins' \in Sid
      BY <1>1, ReceiveFacts
    <3> QED BY <3>1 DEF TypeOK, Sid
  <2>3. StoreTypes'
    BY <1>1, <2>1, ReceiveFacts DEF StoreTypes
  <2>4. ServerTypes'
    BY <1>1, <2>1, <2>2, ReceiveFacts DEF ServerTypes
  <2>5. Linked'
    <3> SUFFICES ASSUME NEW v \in Caller
                 PROVE  /\ call'[v] # NoCall <=> at'[v] \in {"call", "login", "delete"}
                        /\ tx'[v] # NoTx => InCall(v, {"UpdateUser"})'
                        /\ at'[v] = "idle" => ctx'[v] = NoSession
                        /\ at'[v] \in {"login", "delete", "set", "unset"} => ctx'[v] # NoSession
      BY DEF Linked
    <3>1. CASE v # r
      <4>1. at'[v] = at[v] /\ ctx'[v] = ctx[v] /\ call'[v] = call[v] /\ tx'[v] = tx[v]
        BY <1>1, <2>1, <3>1, ReceiveFacts
      <4> QED BY <4>1 DEF Linked, InCall
    <3>2. CASE v = r
      <4>1. q.op = "AuthenticateUser" => ctx'[r] # NoSession
        <5>1. q.op = "AuthenticateUser" => ctx'[r] = [sid |-> logins + 1, u |-> q.u] /\ logins + 1 \in Sid
          BY <1>1, ReceiveFacts
        <5>2. q.op = "AuthenticateUser" => q.u \in User
          BY CallFields DEF Request
        <5> QED BY <5>1, <5>2
      <4>2. at'[r] \in {"delete", "set", "unset"} => q.op \notin Anonymous
        BY <1>1, ReceiveFacts DEF Handler, Anonymous
      <4>3. at'[r] # "idle"
        BY <1>1, ReceiveFacts
      <4>4. call'[r] # NoCall <=> at'[r] \in {"call", "login", "delete"}
        <5>1. IF q.op \in {"Refresh", "Logout"} THEN call'[r] = NoCall /\ at'[r] \in {"set", "unset"}
              ELSE q \in M!Call /\ call'[r] = q /\ at'[r] \in {"call", "login", "delete"}
          BY <1>1, ReceiveFacts
        <5> QED BY <5>1
      <4> QED BY <1>1, <2>1, <3>2, <4>1, <4>2, <4>3, <4>4, ReceiveFacts
    <3> QED BY <3>1, <3>2
  <2> QED BY <1>0, <2>3, <2>4, <2>5
<1>2. ASSUME NEW r \in Caller, StoreCall(r) \/ StoreFails(r) PROVE TypeOK'
  BY <1>2, StatementTypes
<1>3. ASSUME NEW r \in Caller, Return(r) PROVE TypeOK'
  <2>1. tx[r] = NoTx /\ UNCHANGED <<rows, titles, tx, faults, sessions, logins, calls, issued>>
    BY <1>3 DEF Return, TypeOK, InCall
  <2>2. StoreTypes'
    BY <1>3, <2>1, ReturnFacts DEF StoreTypes
  <2>3. ServerTypes'
    BY <1>3, <2>1, ReturnFacts DEF ServerTypes
  <2>4. Linked'
    BY <1>3, <2>1, ReturnFacts DEF Linked, InCall
  <2> QED BY <1>0, <2>2, <2>3, <2>4
<1>4. ASSUME NEW r \in Caller, SetSession(r) \/ UnsetSession(r) \/ SessionFails(r) PROVE TypeOK'
  <2>1. /\ EndRequest(r) /\ call[r] = NoCall /\ at[r] \in {"set", "unset"}
        /\ UNCHANGED <<rows, titles, tx, call, logins, calls>>
    BY <1>4 DEF SetSession, UnsetSession, SessionFails, storeVars
  <2>2. ctx[r].sid \in Sid /\ ctx[r].u \in User /\ tx[r] = NoTx
    BY <2>1 DEF TypeOK, InCall
  <2>3. sessions' \in [Sid -> User \union {NoUser}] /\ issued' \in [Sid -> User \union {NoUser}]
    BY <1>4, <2>2 DEF SetSession, Stored, UnsetSession, SessionFails, TypeOK
  <2>4. faults' \in 0..MaxFaults
    BY <1>4 DEF SetSession, UnsetSession, SessionFails, storeVars, TypeOK
  <2>5. StoreTypes'
    BY <2>1, <2>4 DEF StoreTypes
  <2>6. ServerTypes'
    BY <2>1, <2>3, EndFacts DEF ServerTypes
  <2>7. Linked'
    BY <2>1, <2>2, EndFacts DEF Linked, InCall
  <2> QED BY <1>0, <2>5, <2>6, <2>7
<1>5. ASSUME NEW sid \in Sid, Expire(sid) PROVE TypeOK'
  <2>1. sessions' \in [Sid -> User \union {NoUser}]
    BY <1>5 DEF Expire, TypeOK
  <2> QED BY <1>5, <2>1 DEF Expire, TypeOK, InCall, storeVars
<1>6. CASE Crash
  <2>1. StoreTypes'
    BY <1>6 DEF Crash, StoreTypes, Calls
  <2>2. ServerTypes'
    BY <1>6 DEF Crash, ServerTypes, Places
  <2>3. Linked'
    BY <1>6 DEF Crash, Linked
  <2> QED BY <1>0, <2>1, <2>2, <2>3
<1>7. CASE UNCHANGED vars
  BY <1>7 DEF vars, storeVars, serverVars, TypeOK, InCall
<1> QED BY <1>1, <1>2, <1>3, <1>4, <1>5, <1>6, <1>7 DEF Next

-------------------------------------------------------------------------------
\* A step that leaves the rows of the transactions in peace.
LEMMA QuietLocks ==
  ASSUME RowLocks,
         \A c \in Caller : tx'[c] # NoTx =>
           tx'[c] = tx[c] /\ call'[c] = call[c] /\ rows'[call[c].u] = rows[call[c].u]
  PROVE  RowLocks'
<1>1. \A c, d \in Caller : tx'[c] # NoTx /\ tx'[d] # NoTx /\ call'[c].u = call'[d].u => c = d
  BY DEF RowLocks
<1>2. ASSUME NEW c \in Caller, tx'[c] # NoTx
      PROVE  LET x == call'[c]
                 t == tx'[c]
             IN  /\ rows'[x.u] # NoUser /\ t.row.name = x.name
                 /\ x.password = NoPassword => t.ready /\ t.row = [rows'[x.u] EXCEPT !.name = x.name]
                 /\ x.password # NoPassword /\ t.ready =>
                      t.row.hash[1] = x.password /\ t.row.hash[2] = t.row.salt
  BY <1>2 DEF RowLocks
<1> QED BY <1>1, <1>2 DEF RowLocks

\* The answer to c, which ends its transaction, leaves the others in theirs.
LEMMA AnswerLocks ==
  ASSUME TypeOK, RowLocks, NEW c \in Caller, NEW a \in Answer, Answers(c, a),
         \/ UNCHANGED tx /\ tx[c] = NoTx
         \/ tx' = [tx EXCEPT ![c] = NoTx],
         \A d \in Caller \ {c} : tx[d] # NoTx => rows'[call[d].u] = rows[call[d].u]
  PROVE  RowLocks'
<1>1. tx'[c] = NoTx /\ \A d \in Caller \ {c} : tx'[d] = tx[d] /\ call'[d] = call[d]
  BY AnswersFacts DEF TypeOK
<1> QED BY <1>1, QuietLocks

\* The first statement finds the row unlocked and locks it.
LEMMA UpdateDataLocks ==
  ASSUME TypeOK, RowLocks, NEW c \in Caller, UpdateData(c)
  PROVE  RowLocks'
<1> DEFINE x == call[c]
           t == [row |-> [rows[x.u] EXCEPT !.name = x.name], ready |-> x.password = NoPassword]
<1>1. x \in M!Call /\ x.op = "UpdateUser" /\ x.u \in User /\ tx[c] = NoTx /\ ~Locked(x.u)
  BY InCallFacts, CallFields DEF UpdateData
<1>2. CASE rows[x.u] = NoUser
  <2>1. Refused \in Answer /\ Answers(c, Refused) /\ UNCHANGED <<rows, tx>>
    BY <1>2 DEF UpdateData, Refusal, Answer
  <2> QED BY <1>1, <2>1, AnswerLocks
<1>3. CASE rows[x.u] # NoUser
  <2>1. tx'[c] = t /\ (\A d \in Caller \ {c} : tx'[d] = tx[d]) /\ UNCHANGED <<rows, call>>
    BY <1>3 DEF UpdateData, TypeOK
  <2>2. /\ t.row.name = x.name /\ t.row = [rows[x.u] EXCEPT !.name = x.name]
        /\ t.ready <=> x.password = NoPassword
    <3>1. rows[x.u] \in Row
      BY <1>1, <1>3 DEF TypeOK
    <3> HIDE DEF x
    <3> QED BY <1>1, <3>1, DataRow
  <2> HIDE DEF t
  <2>3. \A d \in Caller \ {c} : tx'[d] # NoTx => call'[d].u # x.u
    BY <1>1, <2>1 DEF Locked
  <2>4. \A d, e \in Caller : tx'[d] # NoTx /\ tx'[e] # NoTx /\ call'[d].u = call'[e].u => d = e
    BY <2>1, <2>3 DEF RowLocks
  <2>5. ASSUME NEW d \in Caller, tx'[d] # NoTx
        PROVE  LET y == call'[d]
                   s == tx'[d]
               IN  /\ rows'[y.u] # NoUser /\ s.row.name = y.name
                   /\ y.password = NoPassword => s.ready /\ s.row = [rows'[y.u] EXCEPT !.name = y.name]
                   /\ y.password # NoPassword /\ s.ready =>
                        s.row.hash[1] = y.password /\ s.row.hash[2] = s.row.salt
    <3>1. CASE d = c
      BY <1>3, <2>1, <2>2, <3>1
    <3>2. CASE d # c
      BY <2>1, <2>5, <3>2 DEF RowLocks
    <3> QED BY <3>1, <3>2
  <2> QED BY <2>4, <2>5 DEF RowLocks
<1> QED BY <1>2, <1>3

\* The second statement completes the row of its transaction.
LEMMA UpdatePasswordLocks ==
  ASSUME TypeOK, RowLocks, NEW c \in Caller, UpdatePassword(c)
  PROVE  RowLocks'
<1> DEFINE x == call[c]
<1>1. x \in M!Call /\ x.op = "UpdateUser" /\ x.u \in User /\ tx[c] # NoTx /\ ~tx[c].ready
  BY InCallFacts, CallFields DEF UpdatePassword
<1>2. x.password # NoPassword /\ rows[x.u] # NoUser /\ tx[c].row.name = x.name
  BY <1>1 DEF RowLocks
<1>3. rows[x.u] \in Row /\ tx[c] \in Tx /\ tx[c].row \in Row
  BY <1>1, <1>2 DEF TypeOK, Tx
<1>4. PICK salt \in {rows[x.u].salt, NoSalt} :
        tx' = [tx EXCEPT ![c] =
          [row |-> [tx[c].row EXCEPT !.salt = salt, !.hash = Hash(x.password, salt)], ready |-> TRUE]]
  BY <1>2 DEF UpdatePassword
<1> DEFINE old == tx[c].row
           row == [old EXCEPT !.salt = salt, !.hash = Hash(x.password, salt)]
<1>5. salt \in Salt \union {NoSalt}
  BY <1>3 DEF Row
<1>6. row.name = x.name /\ row.salt = salt /\ row.hash = <<x.password, salt>>
  <2>1. old \in Row /\ old.name = x.name
    BY <1>2, <1>3
  <2> HIDE DEF x, old
  <2>2. row.name = old.name /\ row.salt = salt /\ row.hash = <<x.password, salt>>
    BY <2>1 DEF Row, Hash
  <2> QED BY <2>1, <2>2
<1>7. tx'[c] = [row |-> row, ready |-> TRUE] /\ \A d \in Caller \ {c} : tx'[d] = tx[d]
  BY <1>4 DEF TypeOK
<1>8. UNCHANGED <<rows, call>>
  BY <1>2 DEF UpdatePassword
<1> HIDE DEF row
<1>9. \A d, e \in Caller : tx'[d] # NoTx /\ tx'[e] # NoTx /\ call'[d].u = call'[e].u => d = e
  BY <1>1, <1>7, <1>8 DEF RowLocks
<1>10. ASSUME NEW d \in Caller, tx'[d] # NoTx
       PROVE  LET y == call'[d]
                  s == tx'[d]
              IN  /\ rows'[y.u] # NoUser /\ s.row.name = y.name
                  /\ y.password = NoPassword => s.ready /\ s.row = [rows'[y.u] EXCEPT !.name = y.name]
                  /\ y.password # NoPassword /\ s.ready =>
                       s.row.hash[1] = y.password /\ s.row.hash[2] = s.row.salt
  <2>1. CASE d = c
    BY <1>2, <1>6, <1>7, <1>8, <2>1
  <2>2. CASE d # c
    BY <1>7, <1>8, <1>10, <2>2 DEF RowLocks
  <2> QED BY <2>1, <2>2
<1> QED BY <1>9, <1>10 DEF RowLocks

\* A blog that can be written has a user.
LEMMA BlogHasUser ==
  ASSUME TypeOK, NoOrphans, NEW c \in Caller, WriteBlog(c), ~Refusal(c)
  PROVE  rows[call[c].u] # NoUser
<1>1. call[c].u \in User /\ call[c].slug \in Slug /\ AffectsBlog(call[c])
  BY WrittenBlog
<1> QED BY <1>1 DEF AffectsBlog, NoOrphans

\* Every statement keeps blogs with their users and transactions alone with
\* their rows.
LEMMA StatementLocks ==
  ASSUME TypeOK, NoOrphans, RowLocks, NEW c \in Caller, Statement(c) \/ Fails(c)
  PROVE  NoOrphans' /\ RowLocks'
<1> DEFINE x == call[c]
<1>1. ASSUME tx[c] = NoTx, Refusal(c) PROVE NoOrphans' /\ RowLocks'
  <2>1. Refused \in Answer /\ Answers(c, Refused) /\ UNCHANGED <<rows, titles, tx>>
    BY <1>1 DEF Refusal, Answer
  <2> QED BY <1>1, <2>1, AnswerLocks DEF NoOrphans
<1>2. CASE CreateUser(c)
  <2>1. x.u \in User /\ tx[c] = NoTx
    BY <1>2, InCallFacts, NoTransaction, CallFields DEF CreateUser
  <2>2. CASE ~Refusal(c)
    <3>1. rows[x.u] = NoUser /\ UNCHANGED <<titles, tx>> /\ \A u \in User \ {x.u} : rows'[u] = rows[u]
      BY <1>2, <2>2 DEF CreateUser, TypeOK
    <3>2. PICK a \in Answer : Answers(c, a)
      BY <1>2, <2>2, DoneFacts DEF CreateUser, Answer
    <3>3. \A d \in Caller : tx[d] # NoTx => call[d].u \in User /\ call[d].u # x.u
      BY <3>1, InCallFacts, CallFields DEF RowLocks, TypeOK
    <3>4. RowLocks'
      BY <2>1, <3>1, <3>2, <3>3, AnswerLocks
    <3> QED BY <3>1, <3>4 DEF NoOrphans
  <2> QED BY <1>1, <2>1, <2>2
<1>3. CASE UpdateData(c)
  BY <1>3, UpdateDataLocks DEF UpdateData, Refusal, NoOrphans
<1>4. CASE UpdatePassword(c)
  BY <1>4, UpdatePasswordLocks DEF UpdatePassword, NoOrphans
<1>5. CASE Commit(c)
  <2>1. x.u \in User /\ tx[c] \in Tx /\ tx[c].row \in Row
    BY <1>5, InCallFacts, CallFields DEF Commit, TypeOK, Tx
  <2>2. rows[x.u] # NoUser /\ rows'[x.u] # NoUser /\ \A u \in User \ {x.u} : rows'[u] = rows[u]
    BY <1>5, <2>1 DEF Commit, RowLocks, TypeOK
  <2>3. PICK a \in Answer : Answers(c, a)
    BY <1>5, DoneFacts DEF Commit, Answer
  <2>4. \A d \in Caller \ {c} : tx[d] # NoTx => call[d].u \in User /\ call[d].u # x.u
    BY <1>5, InCallFacts, CallFields DEF Commit, RowLocks, TypeOK
  <2>5. RowLocks'
    BY <1>5, <2>2, <2>3, <2>4, AnswerLocks DEF Commit
  <2> QED BY <1>5, <2>2, <2>5 DEF Commit, NoOrphans
<1>6. CASE AuthenticateUser(c) \/ Read(c)
  <2>1. tx[c] = NoTx
    BY <1>6, NoTransaction DEF AuthenticateUser, Read
  <2>2. CASE ~Refusal(c)
    <3>1. Ok \in Answer /\ Answers(c, Ok) /\ UNCHANGED <<rows, titles, tx>>
      BY <1>6, <2>2 DEF AuthenticateUser, Read, Answer
    <3> QED BY <2>1, <3>1, AnswerLocks DEF NoOrphans
  <2> QED BY <1>1, <2>1, <2>2
<1>7. CASE DeleteUser(c)
  <2>1. x.u \in User /\ tx[c] = NoTx /\ ~Locked(x.u)
    BY <1>7, InCallFacts, NoTransaction, CallFields DEF DeleteUser
  <2>2. CASE ~Refusal(c)
    <3>1. /\ UNCHANGED tx /\ \A u \in User \ {x.u} : rows'[u] = rows[u] /\ titles'[u] = titles[u]
          /\ titles'[x.u] = [s \in Slug |-> NoBlog]
      BY <1>7, <2>1, <2>2 DEF DeleteUser, Cascade, TypeOK
    <3>2. PICK a \in Answer : Answers(c, a)
      BY <1>7, <2>2, DoneFacts DEF DeleteUser, Answer
    <3>3. \A d \in Caller : tx[d] # NoTx => call[d].u \in User /\ call[d].u # x.u
      BY <2>1, InCallFacts, CallFields DEF Locked, TypeOK
    <3>4. RowLocks'
      BY <2>1, <3>1, <3>2, <3>3, AnswerLocks
    <3> QED BY <3>1, <3>4 DEF NoOrphans
  <2> QED BY <1>1, <2>1, <2>2
<1>8. CASE WriteBlog(c)
  <2>1. tx[c] = NoTx
    BY <1>8, NoTransaction DEF WriteBlog
  <2>2. CASE ~Refusal(c)
    <3>1. x.u \in User /\ rows[x.u] # NoUser /\ UNCHANGED <<rows, tx>>
      BY <1>8, <2>2, WrittenBlog, BlogHasUser DEF WriteBlog
    <3>2. \A u \in User \ {x.u} : titles'[u] = titles[u]
      <4>1. PICK blogs : titles' = [titles EXCEPT ![x.u] = blogs]
        BY <1>8, <2>2, WrittenBlog
      <4> QED BY <4>1 DEF TypeOK
    <3>3. PICK a \in Answer : Answers(c, a)
      BY <1>8, <2>2, DoneFacts DEF WriteBlog, Answer
    <3>4. RowLocks'
      BY <2>1, <3>1, <3>3, AnswerLocks
    <3> QED BY <3>1, <3>2, <3>4 DEF NoOrphans
  <2> QED BY <1>1, <2>1, <2>2
<1>9. CASE Fails(c)
  <2>1. Error \in Answer /\ Answers(c, Error) /\ tx' = [tx EXCEPT ![c] = NoTx] /\ UNCHANGED <<rows, titles>>
    BY <1>9 DEF Fails, Answer
  <2> QED BY <2>1, AnswerLocks DEF NoOrphans
<1> QED BY <1>2, <1>3, <1>4, <1>5, <1>6, <1>7, <1>8, <1>9 DEF Statement

-------------------------------------------------------------------------------
\* A statement answers its caller or leaves it in its call.
LEMMA StatementCalls ==
  ASSUME NEW c \in Caller, Statement(c) \/ Fails(c)
  PROVE  UNCHANGED call \/ \E a \in Answer : Answers(c, a)
<1>1. CASE CreateUser(c) \/ UpdateData(c)
  BY <1>1 DEF CreateUser, UpdateData, Refusal, Done, Answer
<1>2. CASE UpdatePassword(c) \/ Commit(c)
  BY <1>2 DEF UpdatePassword, Commit, Done, Answer
<1>3. CASE AuthenticateUser(c) \/ Read(c)
  BY <1>3 DEF AuthenticateUser, Read, Refusal, Answer
<1>4. CASE DeleteUser(c) \/ WriteBlog(c)
  BY <1>4 DEF DeleteUser, WriteBlog, Refusal, Done, Answer
<1>5. CASE Fails(c)
  BY <1>5 DEF Fails, Answer
<1> QED BY <1>1, <1>2, <1>3, <1>4, <1>5 DEF Statement

\* A request that gets the session of a stored cookie, or a new one, knows
\* whose it is.
LEMMA ReceiveIdentities ==
  ASSUME TypeOK, Identities, NEW r \in Caller, NEW q \in Request, NEW cookie \in Cookie,
         Receive(r, q, cookie)
  PROVE  Identities'
<1>1. UNCHANGED <<sessions, issued>>
  BY DEF Receive
<1>2. /\ logins \in Nat /\ logins' \in {logins, logins + 1} /\ at'[r] # "idle"
      /\ \A v \in Caller \ {r} : at'[v] = at[v] /\ ctx'[v] = ctx[v]
  <2>1. /\ at'[r] \in Places \ {"idle"}
        /\ \A v \in Caller \ {r} : at'[v] = at[v] /\ ctx'[v] = ctx[v] /\ call'[v] = call[v]
    BY ReceiveFacts
  <2>2. logins \in Nat /\ logins' \in {logins, logins + 1}
    BY DEF Receive, TypeOK
  <2> QED BY <2>1, <2>2
<1>3. \A sid \in Sid : sid > logins' => issued'[sid] = NoUser
  BY <1>1, <1>2 DEF Identities, Sid
<1>4. ctx'[r] # NoSession =>
        /\ ctx'[r].sid <= logins'
        /\ issued'[ctx'[r].sid] # NoUser \/ at'[r] = "login"
        /\ issued'[ctx'[r].sid] \in {NoUser, ctx'[r].u}
        /\ \A v \in Caller \ {r} : ctx[v] # NoSession /\ ctx[v].sid = ctx'[r].sid => ctx[v].u = ctx'[r].u
  <2>1. CASE q.op = "AuthenticateUser"
    <3>1. logins' = logins + 1 /\ logins + 1 \in Sid /\ ctx'[r] = [sid |-> logins + 1, u |-> q.u] /\ at'[r] = "login"
      BY <2>1, ReceiveFacts
    <3>2. issued[logins + 1] = NoUser
      BY <1>2, <3>1 DEF Identities
    <3>3. \A v \in Caller : ctx[v] # NoSession => ctx[v].sid # logins + 1
      BY <1>2 DEF Identities, TypeOK, Sid
    <3> QED BY <1>1, <1>2, <3>1, <3>2, <3>3
  <2>2. CASE q.op # "AuthenticateUser"
    <3> DEFINE s == SessionOf(cookie)
    <3>1. ctx'[r] = s /\ logins' = logins
      BY <2>2 DEF Receive, TypeOK
    <3>2. s # NoSession => s.sid \in Sid /\ s.u \in User /\ sessions[s.sid] = s.u
      BY SessionFacts
    <3> HIDE DEF s
    <3>3. s # NoSession => issued[s.sid] = s.u /\ issued[s.sid] # NoUser
      BY <3>2 DEF Identities
    <3>4. s # NoSession => s.sid <= logins
      BY <1>2, <3>2, <3>3 DEF Identities, Sid
    <3>5. s # NoSession => \A v \in Caller : ctx[v] # NoSession /\ ctx[v].sid = s.sid => ctx[v].u = s.u
      BY <3>3 DEF Identities
    <3> QED BY <1>1, <3>1, <3>3, <3>4, <3>5
  <2> QED BY <2>1, <2>2
<1>5. ASSUME NEW v \in Caller, ctx'[v] # NoSession
      PROVE  /\ ctx'[v].sid <= logins'
             /\ issued'[ctx'[v].sid] # NoUser \/ at'[v] \in {"login", "set"}
             /\ issued'[ctx'[v].sid] \in {NoUser, ctx'[v].u}
  <2>1. CASE v = r
    BY <1>4, <1>5, <2>1
  <2>2. CASE v # r
    <3>1. ctx[v].sid <= logins /\ ctx[v].sid \in Sid
      BY <1>2, <1>5, <2>2 DEF Identities, TypeOK
    <3>2. ctx[v].sid <= logins'
      BY <1>2, <3>1 DEF Sid
    <3> QED BY <1>1, <1>2, <1>5, <2>2, <3>2 DEF Identities
  <2> QED BY <2>1, <2>2
<1>6. \A w, v \in Caller : ctx'[w] # NoSession /\ ctx'[v] # NoSession /\ ctx'[w].sid = ctx'[v].sid
                           => ctx'[w].u = ctx'[v].u
  BY <1>2, <1>4 DEF Identities
<1> QED BY <1>1, <1>3, <1>5, <1>6 DEF Identities

\* A step that leaves requests with the session they had, or with none.
LEMMA QuietIdentities ==
  ASSUME TypeOK, Identities, UNCHANGED <<issued, logins>>,
         \A sid \in Sid : sessions'[sid] \in {NoUser, sessions[sid]},
         \A r \in Caller : ctx'[r] # NoSession =>
           ctx'[r] = ctx[r] /\ (at[r] \in {"login", "set"} => at'[r] \in {"login", "set"})
  PROVE  Identities'
<1>1. \A sid \in Sid : sessions'[sid] # NoUser => issued'[sid] = sessions'[sid]
  BY DEF Identities
<1>2. \A r \in Caller : ctx'[r] # NoSession =>
        /\ ctx'[r].sid <= logins'
        /\ issued'[ctx'[r].sid] # NoUser \/ at'[r] \in {"login", "set"}
        /\ issued'[ctx'[r].sid] \in {NoUser, ctx'[r].u}
  BY DEF Identities
<1> QED BY <1>1, <1>2 DEF Identities

\* The session that SetSession stores is under an id that others know it by.
LEMMA SetIdentities ==
  ASSUME TypeOK, Identities, NEW r \in Caller, SetSession(r)
  PROVE  Identities'
<1> DEFINE s == ctx[r]
<1>1. s # NoSession /\ s.sid \in Sid /\ s.u \in User /\ s.sid <= logins
  BY DEF SetSession, TypeOK, Identities
<1>2. /\ sessions'[s.sid] = s.u /\ issued'[s.sid] = s.u /\ UNCHANGED logins
      /\ \A sid \in Sid \ {s.sid} : sessions'[sid] = sessions[sid] /\ issued'[sid] = issued[sid]
  BY <1>1 DEF SetSession, Stored, TypeOK
<1>3. ctx'[r] = NoSession /\ \A v \in Caller \ {r} : at'[v] = at[v] /\ ctx'[v] = ctx[v]
  BY EndFacts DEF SetSession
<1>4. \A v \in Caller : ctx[v] # NoSession /\ ctx[v].sid = s.sid => ctx[v].u = s.u
  BY <1>1 DEF Identities
<1>5. \A v \in Caller : ctx[v] # NoSession => ctx[v].sid \in Sid
  BY DEF TypeOK
<1> HIDE DEF s
<1>6. \A sid \in Sid : sessions'[sid] # NoUser => issued'[sid] = sessions'[sid]
  BY <1>2 DEF Identities
<1>7. \A sid \in Sid : sid > logins' => issued'[sid] = NoUser
  BY <1>1, <1>2 DEF Identities, Sid, TypeOK
<1>8. ASSUME NEW v \in Caller, ctx'[v] # NoSession
      PROVE  /\ ctx'[v].sid <= logins'
             /\ issued'[ctx'[v].sid] # NoUser \/ at'[v] \in {"login", "set"}
             /\ issued'[ctx'[v].sid] \in {NoUser, ctx'[v].u}
  <2>1. v # r /\ ctx'[v] = ctx[v] /\ at'[v] = at[v]
    BY <1>3, <1>8
  <2>2. CASE ctx[v].sid = s.sid
    BY <1>1, <1>2, <1>4, <1>8, <2>1, <2>2
  <2>3. CASE ctx[v].sid # s.sid
    BY <1>2, <1>5, <1>8, <2>1, <2>3 DEF Identities
  <2> QED BY <2>2, <2>3
<1>9. \A w, v \in Caller : ctx'[w] # NoSession /\ ctx'[v] # NoSession /\ ctx'[w].sid = ctx'[v].sid
                           => ctx'[w].u = ctx'[v].u
  BY <1>3 DEF Identities
<1> QED BY <1>6, <1>7, <1>8, <1>9 DEF Identities

\* What a step of the requests themselves leaves alone.
QuietStore == UNCHANGED <<rows, titles>> /\ \A c \in Caller : tx'[c] # NoTx => tx'[c] = tx[c] /\ call'[c] = call[c]

\* Every request keeps the invariant.
LEMMA ReceiveStep ==
  ASSUME AdminInv, NEW r \in Caller, NEW q \in Request, NEW cookie \in Cookie, Receive(r, q, cookie)
  PROVE  QuietStore /\ Identities' /\ Authorised'
<1>1. /\ \A v \in Caller \ {r} : at'[v] = at[v] /\ ctx'[v] = ctx[v] /\ call'[v] = call[v]
      /\ IF q.op \in {"Refresh", "Logout"} THEN call'[r] = NoCall ELSE call'[r] = q
      /\ q.op \notin Anonymous => ctx'[r] # NoSession
      /\ q.op \notin Anonymous /\ q.op \notin {"Refresh", "Logout"} =>
           ctx'[r].u = q.u /\ at'[r] \in {"call", "delete"}
  <2>0. TypeOK
    BY DEF AdminInv
  <2>1. \A v \in Caller \ {r} : at'[v] = at[v] /\ ctx'[v] = ctx[v] /\ call'[v] = call[v]
    BY <2>0, ReceiveFacts
  <2>2. IF q.op \in {"Refresh", "Logout"} THEN call'[r] = NoCall ELSE call'[r] = q
    <3>1. at[r] = "idle" /\ call[r] = NoCall
      BY <2>0 DEF Receive, TypeOK
    <3> QED BY <2>0, <3>1 DEF Receive, TypeOK
  <2>3. /\ q.op \notin Anonymous => ctx'[r] # NoSession
        /\ q.op \notin Anonymous /\ q.op \notin {"Refresh", "Logout"} =>
             ctx'[r].u = q.u /\ at'[r] \in {"call", "delete"}
    BY <2>0, ReceiveFacts
  <2> QED BY <2>1, <2>2, <2>3
<1>2. tx[r] = NoTx /\ UNCHANGED <<rows, titles, tx>>
  BY DEF Receive, AdminInv, TypeOK, InCall
<1>3. QuietStore
  BY <1>1, <1>2 DEF QuietStore
<1>4. Identities'
  BY ReceiveIdentities DEF AdminInv
<1>5. Authorised'
  <2> SUFFICES ASSUME NEW v \in Caller, call'[v] \notin Answer \union {NoCall}, call'[v].op \notin Anonymous
               PROVE  at'[v] \in {"call", "delete"} /\ ctx'[v] # NoSession /\ ctx'[v].u = call'[v].u
    BY DEF Authorised
  <2>1. CASE v = r
    BY <1>1, <2>1
  <2>2. CASE v # r
    BY <1>1, <2>2 DEF AdminInv, Authorised
  <2> QED BY <2>1, <2>2
<1> QED BY <1>3, <1>4, <1>5

LEMMA StoreStep ==
  ASSUME AdminInv, NEW r \in Caller, StoreCall(r) \/ StoreFails(r)
  PROVE  NoOrphans' /\ RowLocks' /\ Identities' /\ Authorised'
<1>1. (Statement(r) \/ Fails(r)) /\ UNCHANGED serverVars
  BY DEF StoreCall, StoreFails
<1>2. NoOrphans' /\ RowLocks'
  BY <1>1, StatementLocks DEF AdminInv
<1>3. Identities'
  BY <1>1 DEF AdminInv, Identities, serverVars
<1>4. Authorised'
  <2>1. CASE UNCHANGED call
    BY <1>1, <2>1 DEF AdminInv, Authorised, serverVars
  <2>2. CASE \E a \in Answer : Answers(r, a)
    <3>1. call'[r] \in Answer /\ \A v \in Caller \ {r} : call'[v] = call[v]
      BY <2>2, AnswersFacts DEF AdminInv
    <3> QED BY <1>1, <3>1 DEF AdminInv, Authorised, serverVars
  <2> QED BY <1>1, <2>1, <2>2, StatementCalls
<1> QED BY <1>2, <1>3, <1>4

LEMMA ReturnStep ==
  ASSUME AdminInv, NEW r \in Caller, Return(r)
  PROVE  QuietStore /\ Identities' /\ Authorised'
<1>1. /\ call[r] \in Answer /\ call'[r] = NoCall
      /\ \A v \in Caller \ {r} : at'[v] = at[v] /\ ctx'[v] = ctx[v] /\ call'[v] = call[v]
      /\ \/ ctx'[r] = NoSession
         \/ ctx'[r] = ctx[r] /\ ((at[r] = "login" /\ at'[r] = "set") \/ at[r] = "delete")
  BY ReturnFacts DEF AdminInv
<1>2. UNCHANGED <<rows, titles, tx, sessions, logins, issued>> /\ tx[r] = NoTx
  BY <1>1 DEF Return, AdminInv, TypeOK, InCall
<1>3. QuietStore
  BY <1>1, <1>2 DEF QuietStore
<1>4. at[r] \in {"call", "login", "delete"}
  BY <1>1 DEF AdminInv, TypeOK
<1>5. Identities'
  BY <1>1, <1>2, <1>4, QuietIdentities DEF AdminInv
<1>6. Authorised'
  BY <1>1 DEF AdminInv, Authorised
<1> QED BY <1>3, <1>5, <1>6

LEMMA SessionStep ==
  ASSUME AdminInv, NEW r \in Caller, SetSession(r) \/ UnsetSession(r) \/ SessionFails(r)
  PROVE  QuietStore /\ Identities' /\ Authorised'
<1>1. /\ EndRequest(r) /\ call[r] = NoCall /\ at[r] \in {"set", "unset"}
      /\ UNCHANGED <<rows, titles, tx, call, logins>>
  BY DEF SetSession, UnsetSession, SessionFails, storeVars
<1>2. /\ at'[r] = "idle" /\ ctx'[r] = NoSession
      /\ \A v \in Caller \ {r} : at'[v] = at[v] /\ ctx'[v] = ctx[v]
  BY <1>1, EndFacts DEF AdminInv
<1>3. QuietStore
  BY <1>1 DEF QuietStore
<1>4. Authorised'
  BY <1>1, <1>2 DEF AdminInv, Authorised
<1>5. CASE SetSession(r)
  BY <1>3, <1>4, <1>5, SetIdentities DEF AdminInv
<1>6. CASE UnsetSession(r) \/ SessionFails(r)
  <2>1. UNCHANGED issued /\ \A sid \in Sid : sessions'[sid] \in {NoUser, sessions[sid]}
    BY <1>6 DEF UnsetSession, SessionFails, AdminInv, TypeOK
  <2>2. Identities'
    BY <1>1, <1>2, <2>1, QuietIdentities DEF AdminInv
  <2> QED BY <1>3, <1>4, <2>2
<1> QED BY <1>5, <1>6

LEMMA QuietStep ==
  ASSUME AdminInv, QuietStore
  PROVE  NoOrphans' /\ RowLocks'
<1>1. NoOrphans'
  BY DEF AdminInv, NoOrphans, QuietStore
<1>2. RowLocks'
  BY QuietLocks DEF AdminInv, QuietStore
<1> QED BY <1>1, <1>2

\* Every step keeps the invariant.
LEMMA AdminStep == AdminInv /\ [Next]_vars => AdminInv'
<1> SUFFICES ASSUME AdminInv, [Next]_vars PROVE AdminInv'
  OBVIOUS
<1>0. TypeOK'
  BY TypeStep DEF AdminInv
<1>1. ASSUME NEW r \in Caller, NEW q \in Request, NEW cookie \in Cookie, Receive(r, q, cookie)
      PROVE  AdminInv'
  BY <1>0, <1>1, ReceiveStep, QuietStep DEF AdminInv
<1>2. ASSUME NEW r \in Caller, StoreCall(r) \/ StoreFails(r) PROVE AdminInv'
  BY <1>0, <1>2, StoreStep DEF AdminInv
<1>3. ASSUME NEW r \in Caller, Return(r) PROVE AdminInv'
  BY <1>0, <1>3, ReturnStep, QuietStep DEF AdminInv
<1>4. ASSUME NEW r \in Caller, SetSession(r) \/ UnsetSession(r) \/ SessionFails(r) PROVE AdminInv'
  BY <1>0, <1>4, SessionStep, QuietStep DEF AdminInv
<1>5. ASSUME NEW sid \in Sid, Expire(sid) PROVE AdminInv'
  <2>1. /\ UNCHANGED <<rows, titles, tx, call, at, ctx, logins, issued>>
        /\ \A i \in Sid : sessions'[i] \in {NoUser, sessions[i]}
    BY <1>5 DEF Expire, storeVars, AdminInv, TypeOK
  <2>2. Identities'
    BY <2>1, QuietIdentities DEF AdminInv
  <2>3. QuietStore /\ Authorised'
    BY <2>1 DEF QuietStore, AdminInv, Authorised
  <2> QED BY <1>0, <2>2, <2>3, QuietStep DEF AdminInv
<1>6. CASE Crash
  <2>1. /\ \A c \in Caller : tx'[c] = NoTx /\ call'[c] = NoCall /\ ctx'[c] = NoSession
        /\ UNCHANGED <<rows, titles, sessions, logins, issued>>
    BY <1>6 DEF Crash
  <2>2. QuietStore /\ Authorised'
    BY <2>1 DEF QuietStore, Authorised
  <2>3. Identities'
    BY <2>1, QuietIdentities DEF AdminInv
  <2> QED BY <1>0, <2>2, <2>3, QuietStep DEF AdminInv
<1>7. CASE UNCHANGED vars
  <2>1. QuietStore /\ Authorised'
    BY <1>7 DEF vars, storeVars, serverVars, QuietStore, AdminInv, Authorised
  <2>2. Identities'
    BY <1>7 DEF vars, serverVars, AdminInv, Identities
  <2> QED BY <1>0, <2>1, <2>2, QuietStep DEF AdminInv
<1> QED BY <1>1, <1>2, <1>3, <1>4, <1>5, <1>6, <1>7 DEF Next

-------------------------------------------------------------------------------
\* The invariant of the admin server: blogs belong to users who are there, a
\* transaction of UpdateUser is alone on its row, every session is that of the
\* user who logged in, and calls that change something are made for the user
\* of their session.
THEOREM AdminInvariant == Spec => []AdminInv
<1> QED BY InitAdmin, AdminStep, PTL DEF Spec

\* The variables have their types, and a request is in a call, a transaction
\* and a session only where its handler is.
THEOREM AdminTypes == Spec => []TypeOK
<1>1. AdminInv => TypeOK
  BY DEF AdminInv
<1> QED BY <1>1, AdminInvariant, PTL

\* An account changes only for a request in whose session the password of that
\* account was given, whatever runs at the same time.
THEOREM OwnerOnlyTheorem == Spec => OwnerOnly
<1> DEFINE Changed(u) == rows[u] # NoUser /\ (rows'[u] # rows[u] \/ titles'[u] # titles[u])
           Owned(u) == \E r \in Caller : call[r] # NoCall /\ call'[r] # call[r] /\ ActsFor(r, u)
<1>1. ASSUME AdminInv, NEW r \in Caller, Statement(r), NEW u \in User, Changed(u)
      PROVE  Owned(u)
  <2> DEFINE x == call[r]
  <2>1. x \in M!Call /\ x # NoCall /\ x \notin Answer /\ x.op \notin Anonymous /\ x.u = u /\ \E a \in Answer : Answers(r, a)
    <3>1. CASE CreateUser(r)
      <4>1. x \in M!Call /\ x.u \in User
        BY <1>1, <3>1, InCallFacts, CallFields DEF CreateUser, AdminInv
      <4>2. ~Refusal(r) /\ rows[x.u] = NoUser /\ UNCHANGED titles
        BY <1>1, <3>1 DEF CreateUser, Refusal
      <4>3. \A v \in User \ {x.u} : rows'[v] = rows[v]
        BY <1>1, <3>1, <4>1, <4>2 DEF CreateUser, AdminInv, TypeOK
      <4> QED BY <1>1, <4>2, <4>3
    <3>2. CASE UpdateData(r) \/ UpdatePassword(r) \/ AuthenticateUser(r) \/ Read(r)
      BY <1>1, <3>2 DEF UpdateData, UpdatePassword, AuthenticateUser, Read, Refusal
    <3>3. CASE Commit(r)
      <4>1. x \in M!Call /\ x.op = "UpdateUser" /\ x # NoCall /\ x \notin Answer /\ x.u \in User
        BY <1>1, <3>3, InCallFacts, CallFields DEF Commit, AdminInv, TypeOK
      <4>2. UNCHANGED titles /\ \A v \in User \ {x.u} : rows'[v] = rows[v]
        BY <1>1, <3>3, <4>1 DEF Commit, AdminInv, TypeOK
      <4>3. \E a \in Answer : Answers(r, a)
        BY <1>1, <3>3, DoneFacts DEF Commit, Answer, AdminInv
      <4> QED BY <1>1, <4>1, <4>2, <4>3 DEF Anonymous
    <3>4. CASE DeleteUser(r)
      <4>1. x \in M!Call /\ x.op = "DeleteUser" /\ x # NoCall /\ x \notin Answer /\ x.u \in User
        BY <1>1, <3>4, InCallFacts, CallFields DEF DeleteUser, AdminInv
      <4>2. ~Refusal(r)
        BY <1>1 DEF Refusal
      <4>3. \A v \in User \ {x.u} : rows'[v] = rows[v] /\ titles'[v] = titles[v]
        BY <1>1, <3>4, <4>1, <4>2 DEF DeleteUser, Cascade, AdminInv, TypeOK
      <4>4. \E a \in Answer : Answers(r, a)
        BY <1>1, <3>4, <4>2, DoneFacts DEF DeleteUser, Answer, AdminInv
      <4> QED BY <1>1, <4>1, <4>3, <4>4 DEF Anonymous
    <3>5. CASE WriteBlog(r)
      <4>1. /\ x \in M!Call /\ x.op \in {"AddBlog", "UpdateBlog", "DeleteBlog"} /\ x # NoCall
            /\ x \notin Answer /\ x.u \in User
        BY <1>1, <3>5, InCallFacts, CallFields DEF WriteBlog, AdminInv
      <4>2. ~Refusal(r)
        BY <1>1 DEF Refusal
      <4>3. PICK blogs : titles' = [titles EXCEPT ![x.u] = blogs]
        BY <1>1, <3>5, <4>2, WrittenBlog DEF AdminInv
      <4>4. UNCHANGED rows /\ \A v \in User \ {x.u} : titles'[v] = titles[v]
        BY <1>1, <3>5, <4>2, <4>3 DEF WriteBlog, AdminInv, TypeOK
      <4>5. \E a \in Answer : Answers(r, a)
        BY <1>1, <3>5, <4>2, DoneFacts DEF WriteBlog, Answer, AdminInv
      <4> QED BY <1>1, <4>1, <4>4, <4>5 DEF Anonymous
    <3> QED BY <1>1, <3>1, <3>2, <3>3, <3>4, <3>5 DEF Statement
  <2>2. call'[r] # call[r]
    BY <1>1, <2>1, AnswersFacts DEF AdminInv
  <2>3. at[r] \in {"call", "delete"} /\ ctx[r] # NoSession /\ ctx[r].u = u
    BY <1>1, <2>1 DEF AdminInv, Authorised
  <2>4. issued[ctx[r].sid] = u
    BY <1>1, <2>3 DEF AdminInv, Identities
  <2> QED BY <2>1, <2>2, <2>3, <2>4 DEF ActsFor
<1>2. AdminInv /\ [Next]_vars => \A u \in User : Changed(u) => Owned(u)
  <2> SUFFICES ASSUME AdminInv, [Next]_vars, NEW u \in User, Changed(u) PROVE Owned(u)
    OBVIOUS
  <2>1. \E r \in Caller : Statement(r)
    BY DEF Next, Receive, StoreCall, StoreFails, Fails, Return, SetSession, UnsetSession, SessionFails,
           Expire, Crash, vars, storeVars
  <2> QED BY <1>1, <2>1
<1>3. AdminInv /\ [Next]_vars => [\A u \in User : Changed(u) => Owned(u)]_vars
  BY <1>2
<1> QED BY <1>3, AdminInvariant, PTL DEF Spec, OwnerOnly

\* The id of a session that has ended brings nothing back by itself.
THEOREM DeadStaysDeadTheorem == Spec => DeadStaysDead
<1> DEFINE Dead(sid) ==
             /\ sessions[sid] = NoUser
             /\ \A r \in Caller : ctx[r] # NoSession => ctx[r].sid # sid
<1>1. AdminInv /\ [Next]_vars => \A sid \in Sid : Dead(sid) => sessions'[sid] = NoUser
  <2> SUFFICES ASSUME AdminInv, [Next]_vars, NEW sid \in Sid, Dead(sid) PROVE sessions'[sid] = NoUser
    OBVIOUS
  <2>1. ASSUME NEW r \in Caller, SetSession(r) PROVE sessions'[sid] = NoUser
    <3>1. ctx[r] # NoSession
      BY <2>1 DEF SetSession, AdminInv, TypeOK
    <3> QED BY <2>1, <3>1 DEF SetSession, Stored, AdminInv, TypeOK
  <2>2. ASSUME NEW r \in Caller, UnsetSession(r) PROVE sessions'[sid] = NoUser
    BY <2>2 DEF UnsetSession, AdminInv, TypeOK
  <2>3. ASSUME NEW i \in Sid, Expire(i) PROVE sessions'[sid] = NoUser
    BY <2>3 DEF Expire, AdminInv, TypeOK
  <2>4. CASE UNCHANGED sessions
    BY <2>4
  <2> QED BY <2>1, <2>2, <2>3, <2>4
          DEF Next, Receive, StoreCall, StoreFails, Return, SessionFails, Crash, vars, serverVars
<1>2. AdminInv /\ [Next]_vars => [\A sid \in Sid : Dead(sid) => sessions'[sid] = NoUser]_vars
  BY <1>1
<1> QED BY <1>2, AdminInvariant, PTL DEF Spec, DeadStaysDead

-------------------------------------------------------------------------------
\* The record of the in-memory store that a row and its blogs stand for.
RecordOf(row, blogs) ==
  IF row = NoUser THEN NoUser
  ELSE [password |-> IF row.hash[2] = row.salt THEN row.hash[1] ELSE NoSalt,
        name |-> row.name, blogs |-> blogs]

LEMMA RowHash ==
  ASSUME NEW row \in Row
  PROVE  /\ row.hash[1] \in Password \union {NoPassword} /\ row.hash[2] \in Salt \union {NoSalt}
         /\ row.hash = <<row.hash[1], row.hash[2]>> /\ row.name \in Name
         /\ row # NoUser
<1> QED BY DEF Row

\* A row is somebody, also in the in-memory store.
LEMMA RecordFacts ==
  ASSUME NEW row \in Row, NEW blogs \in [Slug -> Name \union {NoBlog}]
  PROVE  LET v == RecordOf(row, blogs)
         IN  /\ v # NoUser /\ v.name = row.name /\ v.blogs = blogs
             /\ v.password = IF row.hash[2] = row.salt THEN row.hash[1] ELSE NoSalt
<1> DEFINE password == IF row.hash[2] = row.salt THEN row.hash[1] ELSE NoSalt
<1>1. password \in Password \union {NoPassword, NoSalt} /\ row.name \in Name /\ row # NoUser
  BY RowHash
<1>2. RecordOf(row, blogs) = [password |-> password, name |-> row.name, blogs |-> blogs]
  BY <1>1 DEF RecordOf
<1> HIDE DEF password
<1>3. [password |-> password, name |-> row.name, blogs |-> blogs]
        \in [password : Password \union {NoPassword, NoSalt}, name : Name, blogs : [Slug -> Name \union {NoBlog}]]
  BY <1>1
<1> QED BY <1>1, <1>2, <1>3, AbsenceAssumption DEF password

\* What the in-memory store asks of a call, in terms of the tables.
LEMMA AcceptsFacts ==
  ASSUME TypeOK, NEW x \in M!Call
  PROVE  M!Accepts(x) <=>
           LET row == rows[x.u]
           IN  IF x.op = "CreateUser" THEN x.password # NoPassword /\ row = NoUser
               ELSE /\ row # NoUser
                    /\ x.op = "AuthenticateUser" => row.hash = Hash(x.password, row.salt)
                    /\ x.op = "AddBlog" => titles[x.u][x.slug] = NoBlog
                    /\ x.op \in {"UpdateBlog", "GetBlog", "DeleteBlog"} => titles[x.u][x.slug] # NoBlog
<1> DEFINE row == rows[x.u]
           v == RecordOf(row, titles[x.u])
<1>1. x.u \in User /\ row \in Row \union {NoUser} /\ titles[x.u] \in [Slug -> Name \union {NoBlog}]
  BY CallFields DEF TypeOK
<1>2. M!Accepts(x) <=>
        IF x.op = "CreateUser" THEN x.password # NoPassword /\ v = NoUser
        ELSE /\ v # NoUser
             /\ x.op = "AuthenticateUser" => v.password = x.password
             /\ x.op = "AddBlog" => v.blogs[x.slug] = NoBlog
             /\ x.op \in {"UpdateBlog", "GetBlog", "DeleteBlog"} => v.blogs[x.slug] # NoBlog
  BY <1>1 DEF M!Accepts, RecordOf
<1>3. CASE row = NoUser
  BY <1>2, <1>3 DEF RecordOf
<1>4. CASE row # NoUser
  <2>1. row \in Row
    BY <1>1, <1>4
  <2>2. /\ v # NoUser /\ v.blogs = titles[x.u]
        /\ v.password = IF row.hash[2] = row.salt THEN row.hash[1] ELSE NoSalt
    <3> HIDE DEF row
    <3> QED BY <1>1, <2>1, RecordFacts
  <2>3. x.op = "AuthenticateUser" => (v.password = x.password <=> row.hash = Hash(x.password, row.salt))
    <3>1. x.op = "AuthenticateUser" => x.password # NoSalt
      BY CallFields
    <3>2. row.hash = <<row.hash[1], row.hash[2]>>
      BY <2>1, RowHash
    <3>3. row.hash = <<x.password, row.salt>> <=> row.hash[1] = x.password /\ row.hash[2] = row.salt
      BY <3>2
    <3> QED BY <2>2, <3>1, <3>3 DEF Hash
  <2> HIDE DEF row, v
  <2> QED BY <1>2, <1>4, <2>2, <2>3 DEF row
<1> QED BY <1>3, <1>4

\* An accepted call takes effect on the record of its user and on no other.
LEMMA AppliesRule ==
  ASSUME TypeOK, NEW c \in Caller, call[c] \in M!Call, M!Accepts(call[c]),
         NEW a \in {Ok, Error}, Answers(c, a),
         \A u \in User \ {call[c].u} : rows'[u] = rows[u] /\ titles'[u] = titles[u],
         RecordOf(rows'[call[c].u], titles'[call[c].u]) = M!After(call[c])
  PROVE  M!Apply(c)
<1> DEFINE x == call[c]
           users == [u \in User |-> RecordOf(rows[u], titles[u])]
           later == [u \in User |-> RecordOf(rows'[u], titles'[u])]
<1>1. x.u \in User
  BY CallFields
<1>2. later = [users EXCEPT ![x.u] = M!After(x)]
  <2> HIDE DEF x
  <2>1. later[x.u] = M!After(x) /\ \A u \in User \ {x.u} : later[u] = users[u]
    BY <1>1 DEF x
  <2> QED BY <1>1, <2>1
<1> QED BY <1>2 DEF M!Apply, Answers, RecordOf

\* A call that is not accepted, or fails, changes nothing.
LEMMA RefusesRule ==
  ASSUME NEW c \in Caller, call[c] \in M!Call, UNCHANGED <<rows, titles>>,
         \/ ~M!Accepts(call[c]) /\ Answers(c, Refused)
         \/ Answers(c, Error)
  PROVE  M!Refuse(c)
<1> QED BY DEF M!Refuse, Answers

\* The records that accepted calls leave.
LEMMA AfterFacts ==
  ASSUME TypeOK, NEW x \in M!Call, M!Accepts(x)
  PROVE  /\ x.op = "CreateUser" =>
              \A salt \in Salt :
                M!After(x) = RecordOf([name |-> x.name, salt |-> salt, hash |-> Hash(x.password, salt)],
                                      [s \in Slug |-> NoBlog])
         /\ x.op = "UpdateUser" =>
              \A row \in Row : row.name = x.name /\ row.hash[1] = x.password /\ row.hash[2] = row.salt =>
                M!After(x) = RecordOf(row, titles[x.u])
         /\ x.op = "DeleteUser" => \A blogs : M!After(x) = RecordOf(NoUser, blogs)
         /\ x.op \in {"AddBlog", "UpdateBlog"} =>
              M!After(x) = RecordOf(rows[x.u], [titles[x.u] EXCEPT ![x.slug] = x.name])
         /\ x.op = "DeleteBlog" =>
              M!After(x) = RecordOf(rows[x.u], [titles[x.u] EXCEPT ![x.slug] = NoBlog])
         /\ x.op \in {"AuthenticateUser", "GetUser", "ListBlogs", "GetBlog"} =>
              M!After(x) = RecordOf(rows[x.u], titles[x.u])
<1> DEFINE v == RecordOf(rows[x.u], titles[x.u])
<1>1. x.u \in User
  BY CallFields
<1>2. /\ x.op = "CreateUser" => M!After(x) = [password |-> x.password, name |-> x.name, blogs |-> [s \in Slug |-> NoBlog]]
      /\ x.op = "UpdateUser" => M!After(x) = [v EXCEPT !.password = x.password, !.name = x.name]
      /\ x.op = "DeleteUser" => M!After(x) = NoUser
      /\ x.op \in {"AddBlog", "UpdateBlog"} => M!After(x) = [v EXCEPT !.blogs[x.slug] = x.name]
      /\ x.op = "DeleteBlog" => M!After(x) = [v EXCEPT !.blogs[x.slug] = NoBlog]
      /\ x.op \in {"AuthenticateUser", "GetUser", "ListBlogs", "GetBlog"} => M!After(x) = v
  BY <1>1 DEF M!After, M!NoBlogs, RecordOf
<1>3. x.op # "CreateUser" =>
        LET password == IF rows[x.u].hash[2] = rows[x.u].salt THEN rows[x.u].hash[1] ELSE NoSalt
        IN  rows[x.u] # NoUser /\ v = [password |-> password, name |-> rows[x.u].name, blogs |-> titles[x.u]]
  BY AcceptsFacts DEF RecordOf
<1>4. CASE x.op = "CreateUser"
  <2>1. ASSUME NEW salt \in Salt
        PROVE  RecordOf([name |-> x.name, salt |-> salt, hash |-> Hash(x.password, salt)], [s \in Slug |-> NoBlog])
                 = [password |-> x.password, name |-> x.name, blogs |-> [s \in Slug |-> NoBlog]]
    <3> DEFINE row == [name |-> x.name, salt |-> salt, hash |-> Hash(x.password, salt)]
    <3>1. row \in Row
      BY <1>4, NewRow
    <3>2. row.hash[1] = x.password /\ row.hash[2] = row.salt /\ row.name = x.name
      BY DEF Hash
    <3>3. ASSUME NEW r, r = row PROVE RecordOf(r, [s \in Slug |-> NoBlog]) =
            [password |-> x.password, name |-> x.name, blogs |-> [s \in Slug |-> NoBlog]]
      <4>1. r \in Row /\ r.hash[1] = x.password /\ r.hash[2] = r.salt /\ r.name = x.name
        BY <3>1, <3>2, <3>3
      <4> QED BY <4>1, RowHash DEF RecordOf
    <3> QED BY <3>3
  <2> QED BY <1>2, <1>4, <2>1
<1>5. CASE x.op = "UpdateUser"
  <2>1. M!After(x) = [password |-> x.password, name |-> x.name, blogs |-> titles[x.u]]
    <3>1. PICK password : v = [password |-> password, name |-> rows[x.u].name, blogs |-> titles[x.u]]
      BY <1>3, <1>5
    <3>2. M!After(x) = [v EXCEPT !.password = x.password, !.name = x.name]
      BY <1>2, <1>5
    <3> HIDE DEF v
    <3> QED BY <3>1, <3>2
  <2>2. ASSUME NEW row \in Row, row.name = x.name, row.hash[1] = x.password, row.hash[2] = row.salt
        PROVE  RecordOf(row, titles[x.u]) = [password |-> x.password, name |-> x.name, blogs |-> titles[x.u]]
    BY <2>2, RowHash DEF RecordOf
  <2> QED BY <1>5, <2>1, <2>2
<1>6. CASE x.op = "DeleteUser"
  BY <1>2, <1>6 DEF RecordOf
<1>7. CASE x.op \in {"AddBlog", "UpdateBlog"}
  BY <1>2, <1>3, <1>7 DEF RecordOf
<1>8. CASE x.op = "DeleteBlog"
  BY <1>2, <1>3, <1>8 DEF RecordOf
<1>9. CASE x.op \in {"AuthenticateUser", "GetUser", "ListBlogs", "GetBlog"}
  BY <1>2, <1>9
<1>10. x.op \in {"CreateUser", "UpdateUser", "AuthenticateUser", "GetUser", "DeleteUser",
                 "ListBlogs", "AddBlog", "UpdateBlog", "GetBlog", "DeleteBlog"}
  BY CallFields
<1> HIDE DEF v
<1> QED BY <1>4, <1>5, <1>6, <1>7, <1>8, <1>9, <1>10

\* A step of the in-memory store, or one of those in which the SQL store
\* differs from it.
MemoryStep == M!Next \/ \E c \in Caller : KeepsPassword(c) \/ ListsNobody(c)

\* Every statement is a step of the in-memory store or invisible to it.
LEMMA StatementImplements ==
  ASSUME TypeOK, NoOrphans, RowLocks, NEW c \in Caller, Statement(c) \/ Fails(c)
  PROVE  MemoryStep \/ UNCHANGED M!vars
<1> DEFINE x == call[c]
<1>1. ASSUME M!Apply(c) \/ M!Refuse(c) PROVE MemoryStep
  BY <1>1 DEF M!Next, MemoryStep
<1>2. ASSUME x \in M!Call, ~M!Accepts(x), Refusal(c) PROVE MemoryStep
  BY <1>1, <1>2, RefusesRule DEF Refusal
<1>3. CASE CreateUser(c)
  <2>1. x \in M!Call /\ x.op = "CreateUser" /\ x.u \in User
    BY <1>3, InCallFacts, CallFields DEF CreateUser
  <2>2. CASE x.password = NoPassword \/ rows[x.u] # NoUser
    <3>1. Refusal(c)
      BY <1>3, <2>2 DEF CreateUser
    <3>2. ~M!Accepts(x)
      BY <2>1, <2>2, AcceptsFacts
    <3> QED BY <1>2, <2>1, <3>1, <3>2
  <2>3. CASE ~(x.password = NoPassword \/ rows[x.u] # NoUser)
    <3>1. PICK salt \in Salt :
            rows' = [rows EXCEPT ![x.u] = [name |-> x.name, salt |-> salt, hash |-> Hash(x.password, salt)]]
      BY <1>3, <2>3 DEF CreateUser
    <3>2. PICK a \in {Ok, Error} : Answers(c, a)
      BY <1>3, <2>3, DoneFacts DEF CreateUser
    <3>3. M!Accepts(x)
      BY <2>1, <2>3, AcceptsFacts
    <3>4. UNCHANGED titles /\ titles[x.u] = [s \in Slug |-> NoBlog]
      BY <1>3, <2>1, <2>3 DEF CreateUser, NoOrphans
    <3>5. RecordOf([name |-> x.name, salt |-> salt, hash |-> Hash(x.password, salt)],
                   [s \in Slug |-> NoBlog]) = M!After(x)
      BY <2>1, <3>3, AfterFacts
    <3>6. /\ rows'[x.u] = [name |-> x.name, salt |-> salt, hash |-> Hash(x.password, salt)]
          /\ \A u \in User \ {x.u} : rows'[u] = rows[u]
      BY <2>1, <3>1 DEF TypeOK
    <3>7. RecordOf(rows'[x.u], titles'[x.u]) = M!After(x)
      BY <3>4, <3>5, <3>6
    <3> QED BY <1>1, <2>1, <3>2, <3>3, <3>4, <3>6, <3>7, AppliesRule
  <2> QED BY <2>2, <2>3
<1>4. CASE UpdateData(c)
  <2>1. x \in M!Call /\ x.op = "UpdateUser"
    BY <1>4, InCallFacts DEF UpdateData
  <2>2. CASE rows[x.u] = NoUser
    <3>1. Refusal(c)
      BY <1>4, <2>2 DEF UpdateData
    <3>2. ~M!Accepts(x)
      BY <2>1, <2>2, AcceptsFacts
    <3> QED BY <1>2, <2>1, <3>1, <3>2
  <2>3. CASE rows[x.u] # NoUser
    BY <1>4, <2>3 DEF UpdateData, M!vars
  <2> QED BY <2>2, <2>3
<1>5. CASE UpdatePassword(c)
  BY <1>5 DEF UpdatePassword, RowLocks, M!vars
<1>6. CASE Commit(c)
  <2>1. /\ x \in M!Call /\ x.op = "UpdateUser" /\ x.u \in User /\ InCall(c, {"UpdateUser"})
        /\ tx[c] # NoTx /\ tx[c] \in Tx
    BY <1>6, InCallFacts, CallFields DEF Commit, TypeOK, Tx
  <2>2. rows' = [rows EXCEPT ![x.u] = tx[c].row] /\ UNCHANGED titles /\ tx[c].ready
    BY <1>6 DEF Commit
  <2>3. PICK a \in {Ok, Error} : Answers(c, a)
    BY <1>6, DoneFacts DEF Commit
  <2>4. rows[x.u] # NoUser /\ tx[c].row \in Row /\ tx[c].row.name = x.name
    BY <2>1 DEF RowLocks, Tx
  <2>5. CASE x.password = NoPassword
    <3>1. tx[c].row = [rows[x.u] EXCEPT !.name = x.name]
      BY <2>1, <2>5 DEF RowLocks
    <3>2. call'[c] \in {Ok, Error}
      BY <2>3, AnswersFacts DEF Answer
    <3>3. KeepsPassword(c)
      BY <2>1, <2>2, <2>4, <2>5, <3>1, <3>2 DEF KeepsPassword
    <3> QED BY <3>3 DEF MemoryStep
  <2>6. CASE x.password # NoPassword
    <3>1. tx[c].row.hash[1] = x.password /\ tx[c].row.hash[2] = tx[c].row.salt
      BY <2>1, <2>2, <2>6 DEF RowLocks
    <3>2. M!Accepts(x)
      BY <2>1, <2>4, AcceptsFacts
    <3>3. RecordOf(tx[c].row, titles[x.u]) = M!After(x)
      BY <2>1, <2>4, <3>1, <3>2, AfterFacts
    <3>4. rows'[x.u] = tx[c].row /\ \A u \in User \ {x.u} : rows'[u] = rows[u]
      BY <2>1, <2>2 DEF TypeOK
    <3>5. RecordOf(rows'[x.u], titles'[x.u]) = M!After(x)
      BY <2>2, <3>3, <3>4
    <3> QED BY <1>1, <2>1, <2>2, <2>3, <3>2, <3>4, <3>5, AppliesRule
  <2> QED BY <2>5, <2>6
<1>7. CASE AuthenticateUser(c) \/ Read(c)
  <2>1. /\ x \in M!Call /\ x.u \in User
        /\ x.op \in {"AuthenticateUser", "GetUser", "GetBlog", "ListBlogs"}
        /\ x.op \in {"GetUser", "GetBlog", "ListBlogs"} => Read(c)
        /\ x.op = "AuthenticateUser" => AuthenticateUser(c)
        /\ x.op = "GetBlog" => x.slug \in Slug
    BY <1>7, InCallFacts, CallFields DEF AuthenticateUser, Read
  <2>2. ASSUME M!Accepts(x), Answers(c, Ok), UNCHANGED <<rows, titles>> PROVE MemoryStep
    <3>1. RecordOf(rows'[x.u], titles'[x.u]) = M!After(x)
      BY <2>1, <2>2, AfterFacts
    <3> QED BY <1>1, <2>1, <2>2, <3>1, AppliesRule
  <2>3. CASE x.op = "AuthenticateUser"
    <3>1. M!Accepts(x) <=> rows[x.u] # NoUser /\ rows[x.u].hash = Hash(x.password, rows[x.u].salt)
      BY <2>1, <2>3, AcceptsFacts
    <3> QED BY <1>2, <2>1, <2>2, <2>3, <3>1 DEF AuthenticateUser
  <2>4. CASE x.op = "GetUser"
    <3>1. M!Accepts(x) <=> rows[x.u] # NoUser
      BY <2>1, <2>4, AcceptsFacts
    <3> QED BY <1>2, <2>1, <2>2, <2>4, <3>1 DEF Read
  <2>5. CASE x.op = "GetBlog"
    <3>1. M!Accepts(x) <=> rows[x.u] # NoUser /\ titles[x.u][x.slug] # NoBlog
      BY <2>1, <2>5, AcceptsFacts
    <3>2. titles[x.u][x.slug] # NoBlog => rows[x.u] # NoUser
      BY <2>1, <2>5 DEF NoOrphans
    <3> QED BY <1>2, <2>1, <2>2, <2>5, <3>1, <3>2 DEF Read
  <2>6. CASE x.op = "ListBlogs"
    <3>1. InCall(c, {"ListBlogs"}) /\ Answers(c, Ok) /\ UNCHANGED <<rows, titles>>
      BY <2>1, <2>6 DEF Read, InCall
    <3>2. CASE rows[x.u] = NoUser
      <4>1. call'[c] = Ok
        BY <3>1, AnswersFacts DEF Answer
      <4>2. ListsNobody(c)
        BY <3>1, <3>2, <4>1 DEF ListsNobody
      <4> QED BY <4>2 DEF MemoryStep
    <3>3. CASE rows[x.u] # NoUser
      <4>1. M!Accepts(x)
        BY <2>1, <2>6, <3>3, AcceptsFacts
      <4> QED BY <2>2, <3>1, <4>1
    <3> QED BY <3>2, <3>3
  <2> QED BY <2>1, <2>3, <2>4, <2>5, <2>6
<1>8. CASE DeleteUser(c)
  <2>1. x \in M!Call /\ x.op = "DeleteUser" /\ x.u \in User
    BY <1>8, InCallFacts, CallFields DEF DeleteUser
  <2>2. M!Accepts(x) <=> rows[x.u] # NoUser
    BY <2>1, AcceptsFacts
  <2>3. CASE rows[x.u] = NoUser
    BY <1>2, <1>8, <2>1, <2>2, <2>3 DEF DeleteUser
  <2>4. CASE rows[x.u] # NoUser
    <3>1. rows' = [rows EXCEPT ![x.u] = NoUser] /\ titles' = Cascade(x.u)
      BY <1>8, <2>4 DEF DeleteUser
    <3>2. PICK a \in {Ok, Error} : Answers(c, a)
      BY <1>8, <2>4, DoneFacts DEF DeleteUser
    <3>3. rows'[x.u] = NoUser /\ \A u \in User \ {x.u} : rows'[u] = rows[u] /\ titles'[u] = titles[u]
      BY <2>1, <3>1 DEF Cascade, TypeOK
    <3>4. RecordOf(rows'[x.u], titles'[x.u]) = M!After(x)
      BY <2>1, <2>2, <2>4, <3>3, AfterFacts
    <3> QED BY <1>1, <2>1, <2>2, <2>4, <3>2, <3>3, <3>4, AppliesRule
  <2> QED BY <2>3, <2>4
<1>9. CASE WriteBlog(c)
  <2>1. /\ x \in M!Call /\ x.op \in {"AddBlog", "UpdateBlog", "DeleteBlog"} /\ x.u \in User
        /\ x.slug \in Slug
    BY <1>9, InCallFacts, CallFields DEF WriteBlog
  <2>2. M!Accepts(x) <=> AffectsBlog(x)
    <3>1. titles[x.u][x.slug] # NoBlog => rows[x.u] # NoUser
      BY <2>1 DEF NoOrphans
    <3>2. M!Accepts(x) <=> /\ rows[x.u] # NoUser
                           /\ x.op = "AddBlog" => titles[x.u][x.slug] = NoBlog
                           /\ x.op \in {"UpdateBlog", "DeleteBlog"} => titles[x.u][x.slug] # NoBlog
      BY <2>1, AcceptsFacts
    <3> QED BY <2>1, <3>1, <3>2 DEF AffectsBlog
  <2>3. CASE ~AffectsBlog(x)
    BY <1>2, <1>9, <2>1, <2>2, <2>3 DEF WriteBlog
  <2>4. CASE AffectsBlog(x)
    <3> DEFINE title == IF x.op = "DeleteBlog" THEN NoBlog ELSE x.name
               blogs == [titles[x.u] EXCEPT ![x.slug] = title]
    <3>1. titles' = [titles EXCEPT ![x.u] = blogs] /\ UNCHANGED rows
      BY <1>9, <2>4 DEF WriteBlog
    <3>2. PICK a \in {Ok, Error} : Answers(c, a)
      BY <1>9, <2>4, DoneFacts DEF WriteBlog
    <3>3. RecordOf(rows[x.u], blogs) = M!After(x)
      BY <2>1, <2>2, <2>4, AfterFacts
    <3> HIDE DEF blogs
    <3>4. titles'[x.u] = blogs /\ \A u \in User \ {x.u} : titles'[u] = titles[u]
      BY <2>1, <3>1 DEF TypeOK
    <3>5. RecordOf(rows'[x.u], titles'[x.u]) = M!After(x)
      BY <3>1, <3>3, <3>4
    <3> QED BY <1>1, <2>1, <2>2, <2>4, <3>1, <3>2, <3>4, <3>5, AppliesRule
  <2> QED BY <2>3, <2>4
<1>10. CASE Fails(c)
  <2>1. x \in M!Call /\ Answers(c, Error) /\ UNCHANGED <<rows, titles>>
    BY <1>10 DEF Fails, TypeOK
  <2> QED BY <1>1, <2>1, RefusesRule
<1> QED BY <1>3, <1>4, <1>5, <1>6, <1>7, <1>8, <1>9, <1>10 DEF Statement

\* The SQL store implements the in-memory one: whatever statements, failures
\* and crashes there are, each call takes effect at one instant, is answered as
\* the in-memory store would and changes one record, but for the two
\* differences.
THEOREM ImplementsMemoryStoreTheorem == Spec => ImplementsMemoryStore
<1>1. AdminInv /\ [Next]_vars => MemoryStep \/ UNCHANGED M!vars
  <2> SUFFICES ASSUME AdminInv, [Next]_vars PROVE MemoryStep \/ UNCHANGED M!vars
    OBVIOUS
  <2>1. ASSUME NEW r \in Caller, NEW q \in Request, NEW cookie \in Cookie, Receive(r, q, cookie)
        PROVE  MemoryStep \/ UNCHANGED M!vars
    <3>1. UNCHANGED <<rows, titles>> /\ call[r] = NoCall
      BY <2>1 DEF Receive, AdminInv, TypeOK
    <3>2. CASE q.op \in {"Refresh", "Logout"}
      BY <2>1, <3>1, <3>2 DEF Receive, M!vars
    <3>3. CASE q.op \notin {"Refresh", "Logout"}
      <4>1. q \in M!Call /\ call' = [call EXCEPT ![r] = q]
        BY <2>1, <3>3 DEF Receive, Request
      <4>2. M!Begin(r, q)
        BY <3>1, <4>1 DEF M!Begin
      <4> QED BY <4>1, <4>2 DEF M!Next, MemoryStep
    <3> QED BY <3>2, <3>3
  <2>2. ASSUME NEW r \in Caller, StoreCall(r) \/ StoreFails(r) PROVE MemoryStep \/ UNCHANGED M!vars
    BY <2>2, StatementImplements DEF StoreCall, StoreFails, AdminInv
  <2>3. ASSUME NEW r \in Caller, Return(r) PROVE MemoryStep
    <3>1. call' = [call EXCEPT ![r] = NoCall] /\ UNCHANGED <<rows, titles>>
      BY <2>3 DEF Return
    <3>2. call' = [c \in Caller |-> IF c \in {r} THEN NoCall ELSE call[c]]
      BY <3>1 DEF AdminInv, TypeOK
    <3>3. M!End({r})
      BY <3>1, <3>2 DEF M!End
    <3> QED BY <3>3 DEF M!Next, MemoryStep
  <2>4. CASE Crash
    <3>1. call' = [c \in Caller |-> IF c \in Caller THEN NoCall ELSE call[c]] /\ UNCHANGED <<rows, titles>>
      BY <2>4 DEF Crash
    <3>2. M!End(Caller)
      BY <3>1 DEF M!End
    <3> QED BY <3>2 DEF M!Next, MemoryStep
  <2>5. CASE UNCHANGED <<rows, titles, call>>
    BY <2>5 DEF M!vars
  <2> QED BY <2>1, <2>2, <2>3, <2>4, <2>5
          DEF Next, SetSession, UnsetSession, SessionFails, Expire, vars, storeVars
<1>2. AdminInv /\ [Next]_vars => [M!Next \/ \E c \in Caller : KeepsPassword(c) \/ ListsNobody(c)]_(M!vars)
  BY <1>1 DEF MemoryStep
<1> QED BY <1>2, AdminInvariant, PTL DEF Spec, ImplementsMemoryStore
===============================================================================
