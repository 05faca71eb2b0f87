----------------------------- MODULE SQLUserStore -----------------------------
(***************************************************************************)
(* The user store on PostgreSQL (src/server/pkg/userstore/sqluserstore.go, *)
(* src/server/sql/1_initialize_schema.up.sql).  A call is one statement    *)
(* that commits by itself, except UpdateUser, a transaction of two         *)
(* statements with a read on another connection between them; from its     *)
(* first statement on it holds the lock of the user's row.                 *)
(***************************************************************************)
EXTENDS Integers

CONSTANTS
  Caller, User, Slug, Password, Name, NoPassword, NoUser, NoBlog, NoCall,
  Ok, Refused, Error,
  Salt, NoSalt,   \* random salts, and the one of a read that failed
  NoTx,
  MaxFaults       \* bound: statements that fail or whose answer is lost

ASSUME StoreAssumption ==
  MaxFaults \in Nat /\ Salt # {} /\ Name # {} /\ Password # {}

VARIABLES
  rows,    \* table users: rows[u], or NoUser
  titles,  \* table blogs: titles[u][slug], or NoBlog
  tx,      \* tx[c]: the row that c's transaction would commit, or NoTx
  call,    \* call[c]: the store call that c is in, its answer, or NoCall
  faults   \* faults so far

storeVars == <<rows, titles, tx, call, faults>>

Answer == {Ok, Refused, Error}
Hash(password, salt) == <<password, salt>>
Row == [name : Name, salt : Salt \union {NoSalt},
        hash : (Password \union {NoPassword}) \X (Salt \union {NoSalt})]

FirstRow ==
  LET salt == CHOOSE salt \in Salt : TRUE
  IN  [name |-> CHOOSE name \in Name : TRUE, salt |-> salt,
       hash |-> Hash(CHOOSE password \in Password : TRUE, salt)]

\* The database is there before the process: some users have registered.
StoreInit ==
  /\ rows \in [User -> {NoUser, FirstRow}]
  /\ titles = [u \in User |-> [s \in Slug |-> NoBlog]]
  /\ tx = [c \in Caller |-> NoTx]
  /\ call = [c \in Caller |-> NoCall]
  /\ faults = 0

\* Mutant of Locked: the first statement commits by itself.
LockedByNobody(u) == FALSE

\* A transaction holds the lock of the row it has updated.
Locked(u) == \E c \in Caller : tx[c] # NoTx /\ call[c].u = u
InCall(c, ops) == call[c] \notin Answer \union {NoCall} /\ call[c].op \in ops
Answers(c, a) == call' = [call EXCEPT ![c] = a]

\* The statement has run; its answer may get lost.
Done(c) ==
  \/ Answers(c, Ok) /\ UNCHANGED faults
  \/ faults < MaxFaults /\ Answers(c, Error) /\ faults' = faults + 1
Refusal(c) == Answers(c, Refused) /\ UNCHANGED <<rows, titles, tx, faults>>

\* The statement has no effect, and neither has the transaction it is part of.
Fails(c) ==
  /\ call[c] # NoCall /\ call[c] \notin Answer /\ faults < MaxFaults
  /\ tx' = [tx EXCEPT ![c] = NoTx]
  /\ Answers(c, Error) /\ faults' = faults + 1
  /\ UNCHANGED <<rows, titles>>

\* The primary key refuses a second user of that name.
CreateUser(c) ==
  LET x == call[c] IN
  /\ InCall(c, {"CreateUser"})
  /\ IF x.password = NoPassword \/ rows[x.u] # NoUser THEN Refusal(c)
     ELSE /\ \E salt \in Salt :
               rows' = [rows EXCEPT ![x.u] = [name |-> x.name, salt |-> salt,
                                              hash |-> Hash(x.password, salt)]]
          /\ Done(c) /\ UNCHANGED <<titles, tx>>

\* The first statement of UpdateUser takes the row lock and sees whether there
\* is a row.
UpdateData(c) ==
  LET x == call[c] IN
  /\ InCall(c, {"UpdateUser"}) /\ tx[c] = NoTx /\ ~Locked(x.u)
  /\ IF rows[x.u] = NoUser THEN Refusal(c)
     ELSE /\ tx' = [tx EXCEPT ![c] = [row |-> [rows[x.u] EXCEPT !.name = x.name],
                                      ready |-> x.password = NoPassword]]
          /\ UNCHANGED <<rows, titles, call, faults>>

\* Mutant of InTx: the second statement waits for the lock of the first.
OutsideTx(c) == ~Locked(call[c].u)

\* tx.Stmt runs a statement in the transaction that holds the lock.
InTx(c) == TRUE

\* The salt comes from a query outside the transaction; of its errors only "no
\* rows" is looked at, which ends the transaction, any other one leaves the
\* salt empty.
UpdatePassword(c) ==
  LET x == call[c] IN
  /\ InCall(c, {"UpdateUser"}) /\ tx[c] # NoTx /\ ~tx[c].ready /\ InTx(c)
  /\ IF rows[x.u] = NoUser
     THEN tx' = [tx EXCEPT ![c] = NoTx] /\ Answers(c, Error) /\ UNCHANGED faults
     ELSE \E salt \in {rows[x.u].salt, NoSalt} :
            /\ tx' = [tx EXCEPT ![c] =
                 [row |-> [@.row EXCEPT !.salt = salt, !.hash = Hash(x.password, salt)],
                  ready |-> TRUE]]
            /\ salt # rows[x.u].salt => faults < MaxFaults
            /\ faults' = IF salt # rows[x.u].salt THEN faults + 1 ELSE faults
            /\ UNCHANGED call
  /\ UNCHANGED <<rows, titles>>

Commit(c) ==
  /\ tx[c] # NoTx /\ tx[c].ready
  /\ rows' = [rows EXCEPT ![call[c].u] = tx[c].row]
  /\ tx' = [tx EXCEPT ![c] = NoTx]
  /\ Done(c) /\ UNCHANGED titles

AuthenticateUser(c) ==
  LET x == call[c] IN
  /\ InCall(c, {"AuthenticateUser"})
  /\ IF rows[x.u] # NoUser /\ rows[x.u].hash = Hash(x.password, rows[x.u].salt)
     THEN Answers(c, Ok) /\ UNCHANGED <<rows, titles, tx, faults>> ELSE Refusal(c)

\* GetUser, GetBlog, ListBlogs; nobody has an empty list of blogs.
Read(c) ==
  LET x == call[c] IN
  /\ InCall(c, {"GetUser", "GetBlog", "ListBlogs"})
  /\ IF \/ x.op = "GetUser" /\ rows[x.u] = NoUser
        \/ x.op = "GetBlog" /\ titles[x.u][x.slug] = NoBlog
     THEN Refusal(c) ELSE Answers(c, Ok) /\ UNCHANGED <<rows, titles, tx, faults>>

\* The blogs of a deleted user go with it: ON DELETE CASCADE.
Cascade(u) == [titles EXCEPT ![u] = [s \in Slug |-> NoBlog]]

DeleteUser(c) ==
  LET x == call[c] IN
  /\ InCall(c, {"DeleteUser"}) /\ ~Locked(x.u)
  /\ IF rows[x.u] = NoUser THEN Refusal(c)
     ELSE /\ rows' = [rows EXCEPT ![x.u] = NoUser]
          /\ titles' = Cascade(x.u)
          /\ Done(c) /\ UNCHANGED tx

\* AddBlog needs the user and a new key, UpdateBlog and DeleteBlog the row.
AffectsBlog(x) ==
  IF x.op = "AddBlog" THEN rows[x.u] # NoUser /\ titles[x.u][x.slug] = NoBlog
  ELSE titles[x.u][x.slug] # NoBlog

WriteBlog(c) ==
  LET x == call[c] IN
  /\ InCall(c, {"AddBlog", "UpdateBlog", "DeleteBlog"})
  /\ IF ~AffectsBlog(x) THEN Refusal(c)
     ELSE /\ titles' = [titles EXCEPT ![x.u][x.slug] =
                          IF x.op = "DeleteBlog" THEN NoBlog ELSE x.name]
          /\ Done(c) /\ UNCHANGED <<rows, tx>>

Statement(c) ==
  \/ CreateUser(c) \/ UpdateData(c) \/ UpdatePassword(c) \/ Commit(c)
  \/ AuthenticateUser(c) \/ Read(c) \/ DeleteUser(c) \/ WriteBlog(c)
===============================================================================
