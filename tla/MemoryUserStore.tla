---------------------------- MODULE MemoryUserStore ----------------------------
(***************************************************************************)
(* What the UserStore interface promises (src/server/pkg/userstore/        *)
(* userstore.go), as the in-memory store keeps it: one map under one       *)
(* mutex, so that each call takes effect at one instant between its start  *)
(* and its answer, or is refused and changes nothing.                      *)
(*                                                                         *)
(* The names stand for those the regular expression of userstore.go        *)
(* accepts.  Only a store on a database gives the answer Error.          *)
(***************************************************************************)
CONSTANTS
  Caller,             \* the requests that may be in a call
  User, Slug,
  Password, Name,     \* passwords, display names of users and of blogs
  NoPassword,         \* the empty password
  NoUser, NoBlog, NoCall,
  Ok, Refused, Error  \* the answers

VARIABLES
  users,  \* users[u]: the record of u, or NoUser
  call    \* call[c]: the call that c is in, its answer, or NoCall

vars == <<users, call>>

NoBlogs == [s \in Slug |-> NoBlog]
Record == [password : Password \union {NoPassword}, name : Name,
           blogs : [Slug -> Name \union {NoBlog}]]

\* The calls of the interface.
Call ==
  [op : {"CreateUser", "UpdateUser"}, u : User,
   password : Password \union {NoPassword}, name : Name]
  \union [op : {"AuthenticateUser"}, u : User, password : Password \union {NoPassword}]
  \union [op : {"GetUser", "DeleteUser", "ListBlogs"}, u : User]
  \union [op : {"AddBlog", "UpdateBlog"}, u : User, slug : Slug, name : Name]
  \union [op : {"GetBlog", "DeleteBlog"}, u : User, slug : Slug]

Answer == {Ok, Refused, Error}

Init ==
  /\ users = [u \in User |-> NoUser]
  /\ call = [c \in Caller |-> NoCall]

\* What a call asks of the record it names.
Accepts(x) ==
  IF x.op = "CreateUser" THEN x.password # NoPassword /\ users[x.u] = NoUser
  ELSE /\ users[x.u] # NoUser
       /\ x.op = "AuthenticateUser" => users[x.u].password = x.password
       /\ x.op = "AddBlog" => users[x.u].blogs[x.slug] = NoBlog
       /\ x.op \in {"UpdateBlog", "GetBlog", "DeleteBlog"} => users[x.u].blogs[x.slug] # NoBlog

\* The record that an accepted call leaves.
After(x) ==
  CASE x.op = "CreateUser" ->
         [password |-> x.password, name |-> x.name, blogs |-> NoBlogs]
    [] x.op = "UpdateUser" ->
         [users[x.u] EXCEPT !.password = x.password, !.name = x.name]
    [] x.op = "DeleteUser" -> NoUser
    [] x.op \in {"AddBlog", "UpdateBlog"} -> [users[x.u] EXCEPT !.blogs[x.slug] = x.name]
    [] x.op = "DeleteBlog" -> [users[x.u] EXCEPT !.blogs[x.slug] = NoBlog]
    [] OTHER -> users[x.u]

Begin(c, x) == call[c] = NoCall /\ call' = [call EXCEPT ![c] = x] /\ UNCHANGED users

Apply(c) ==
  /\ call[c] \in Call /\ Accepts(call[c])
  /\ users' = [users EXCEPT ![call[c].u] = After(call[c])]
  /\ \E a \in {Ok, Error} : call' = [call EXCEPT ![c] = a]

Refuse(c) ==
  /\ call[c] \in Call
  /\ \/ ~Accepts(call[c]) /\ call' = [call EXCEPT ![c] = Refused]
     \/ call' = [call EXCEPT ![c] = Error]
  /\ UNCHANGED users

\* A caller has its answer, or the process of all callers ends.
End(C) ==
  /\ call' = [c \in Caller |-> IF c \in C THEN NoCall ELSE call[c]]
  /\ UNCHANGED users

Next ==
  \/ \E c \in Caller : (\E x \in Call : Begin(c, x)) \/ Apply(c) \/ Refuse(c)
  \/ \E c \in Caller : End({c})
  \/ End(Caller)

Spec == Init /\ [][Next]_vars
===============================================================================
