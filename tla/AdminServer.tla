------------------------------ MODULE AdminServer ------------------------------
(***************************************************************************)
(* The admin server (src/server/pkg/adminserver/server.go, session.go) on  *)
(* the SQL user store and a session store (src/server/pkg/sessionstore).   *)
(* Requests run concurrently: one reads the session of its cookie, then    *)
(* checks it, calls the user store and possibly writes the session store,  *)
(* each at a time of its own and with the session it read at the start.    *)
(***************************************************************************)
EXTENDS SQLUserStore

CONSTANTS
  NoSid, NoSession,
  MaxSids,        \* bound: logins
  MaxCalls,       \* bound: requests
  CanExpire       \* may sessions expire?

Sid == 1..MaxSids

ASSUME ServerAssumption ==
  /\ MaxSids \in Nat /\ MaxCalls \in Nat /\ CanExpire \in BOOLEAN
  /\ NoSid \notin Sid

VARIABLES
  at,        \* at[r]: what request r does next
  ctx,       \* ctx[r]: the session in the context of r, or NoSession
  sessions,  \* sessions[sid]: the user in the stored session, or NoUser
  logins,    \* session ids drawn so far
  calls,     \* requests so far
  issued     \* history: issued[sid]: whose password opened the session, or NoUser

serverVars == <<at, ctx, sessions, logins, calls, issued>>
vars == <<storeVars, serverVars>>

Init ==
  /\ StoreInit
  /\ at = [r \in Caller |-> "idle"]
  /\ ctx = [r \in Caller |-> NoSession]
  /\ sessions = [sid \in Sid |-> NoUser]
  /\ logins = 0 /\ calls = 0
  /\ issued = [sid \in Sid |-> NoUser]

M == INSTANCE MemoryUserStore WITH
       users <- [u \in User |->
         IF rows[u] = NoUser THEN NoUser
         ELSE [password |-> IF rows[u].hash[2] = rows[u].salt THEN rows[u].hash[1] ELSE NoSalt,
               name |-> rows[u].name, blogs |-> titles[u]]]

\* What stands for nothing is none of the things it is told from.
ASSUME AbsenceAssumption ==
  /\ NoUser \notin User /\ NoUser \notin Row
  /\ NoUser \notin [password : Password \union {NoPassword, NoSalt}, name : Name,
                     blogs : [Slug -> Name \union {NoBlog}]]
  /\ NoBlog \notin Name /\ NoSalt \notin Password \union {NoPassword}
  /\ NoTx \notin [row : Row, ready : BOOLEAN]
  /\ NoCall \notin M!Call /\ NoCall \notin Answer
  /\ NoSession \notin [sid : Sid, u : User]

-------------------------------------------------------------------------------
\* The session of a cookie: none, or the one the store has under that id.
SessionOf(sid) ==
  IF sid = NoSid \/ sessions[sid] = NoUser THEN NoSession
  ELSE [sid |-> sid, u |-> sessions[sid]]

\* Mutants of Anonymous: Users.Update trusts its argument, a refresh does
\* without a session.
AnonymousUpdate == {"CreateUser", "GetUser", "GetBlog", "AuthenticateUser", "UpdateUser"}
AnonymousRefresh == {"CreateUser", "GetUser", "GetBlog", "AuthenticateUser", "Refresh"}

\* Anonymous callers may register, log in and read users and blogs.
Anonymous == {"CreateUser", "GetUser", "GetBlog", "AuthenticateUser"}

\* The other methods need a session, and act on or insist on the user of that
\* session.  (A logout without one dies of a nil pointer, with the same effect.)
Admits(q, s) ==
  q.op \notin Anonymous => /\ s # NoSession
                           /\ q.op \notin {"Refresh", "Logout"} => q.u = s.u

\* Where the handler of q goes.
Handler(q) ==
  CASE q.op = "Refresh" -> "set" [] q.op = "Logout" -> "unset"
    [] q.op = "AuthenticateUser" -> "login" [] q.op = "DeleteUser" -> "delete"
    [] OTHER -> "call"

Request == M!Call \union [op : {"Refresh", "Logout"}]
Cookie == {sid \in Sid : issued[sid] # NoUser} \union {NoSid}

\* A request comes in; a refused one changes nothing.
Receive(r, q, cookie) ==
  /\ at[r] = "idle" /\ calls < MaxCalls
  /\ q.op = "AuthenticateUser" => logins < MaxSids
  /\ Admits(q, SessionOf(cookie))
  /\ calls' = calls + 1
  /\ at' = [at EXCEPT ![r] = Handler(q)]
  /\ IF q.op = "AuthenticateUser"
     THEN /\ logins' = logins + 1
          /\ ctx' = [ctx EXCEPT ![r] = [sid |-> logins + 1, u |-> q.u]]
     ELSE UNCHANGED logins /\ ctx' = [ctx EXCEPT ![r] = SessionOf(cookie)]
  /\ IF q.op \in {"Refresh", "Logout"} THEN UNCHANGED call
     ELSE call' = [call EXCEPT ![r] = q]
  /\ UNCHANGED <<rows, titles, tx, faults, sessions, issued>>

StoreCall(r) == Statement(r) /\ UNCHANGED serverVars
StoreFails(r) == Fails(r) /\ UNCHANGED serverVars

EndRequest(r) ==
  /\ at' = [at EXCEPT ![r] = "idle"]
  /\ ctx' = [ctx EXCEPT ![r] = NoSession]

\* The user store has answered: a login or the deletion of a user goes on to
\* the session store, every other request is answered.
Return(r) ==
  /\ call[r] \in Answer
  /\ call' = [call EXCEPT ![r] = NoCall]
  /\ CASE at[r] = "login" /\ call[r] = Ok -> at' = [at EXCEPT ![r] = "set"] /\ UNCHANGED ctx
       [] at[r] = "delete" /\ call[r] = Ok -> at' = [at EXCEPT ![r] = "unset"] /\ UNCHANGED ctx
       [] OTHER -> EndRequest(r)
  /\ UNCHANGED <<rows, titles, tx, faults, sessions, logins, calls, issued>>

\* Mutant of Stored: the session goes under the id drawn last.
StoredUnderLatest(session) == [sessions EXCEPT ![logins] = session.u]
Stored(session) == [sessions EXCEPT ![session.sid] = session.u]

\* loginHandler stores the new session, or the one the request came with.
SetSession(r) ==
  /\ at[r] = "set" /\ call[r] = NoCall
  /\ sessions' = Stored(ctx[r])
  /\ issued' = [issued EXCEPT ![ctx[r].sid] = ctx[r].u]
  /\ EndRequest(r) /\ UNCHANGED <<storeVars, logins, calls>>

UnsetSession(r) ==
  /\ at[r] = "unset" /\ call[r] = NoCall
  /\ sessions' = [sessions EXCEPT ![ctx[r].sid] = NoUser]
  /\ EndRequest(r) /\ UNCHANGED <<storeVars, logins, calls, issued>>

\* The session store answers with an error.
SessionFails(r) ==
  /\ at[r] \in {"set", "unset"} /\ call[r] = NoCall /\ faults < MaxFaults
  /\ faults' = faults + 1
  /\ EndRequest(r) /\ UNCHANGED <<rows, titles, tx, call, sessions, logins, calls, issued>>

\* Thirty days after the last refresh a session is gone from Redis, or is
\* deleted by the in-memory store at the next Get.
Expire(sid) ==
  /\ CanExpire /\ sessions[sid] # NoUser
  /\ sessions' = [sessions EXCEPT ![sid] = NoUser]
  /\ UNCHANGED <<storeVars, at, ctx, logins, calls, issued>>

\* The process ends: open transactions are rolled back, and the sessions stay
\* in Redis.
Crash ==
  /\ faults < MaxFaults /\ faults' = faults + 1
  /\ at' = [r \in Caller |-> "idle"] /\ ctx' = [r \in Caller |-> NoSession]
  /\ tx' = [r \in Caller |-> NoTx] /\ call' = [r \in Caller |-> NoCall]
  /\ UNCHANGED <<rows, titles, sessions, logins, calls, issued>>

Next ==
  \/ \E r \in Caller :
       \/ \E q \in Request, cookie \in Cookie : Receive(r, q, cookie)
       \/ StoreCall(r) \/ StoreFails(r) \/ Return(r)
       \/ SetSession(r) \/ UnsetSession(r) \/ SessionFails(r)
  \/ \E sid \in Sid : Expire(sid)
  \/ Crash

Spec == Init /\ [][Next]_vars

\* A handler that can go on does, and a row lock is granted in turn.
Fairness ==
  \A r \in Caller :
    /\ SF_vars(StoreCall(r)) /\ WF_vars(Return(r))
    /\ WF_vars(SetSession(r)) /\ WF_vars(UnsetSession(r))

FairSpec == Spec /\ Fairness

-------------------------------------------------------------------------------
\* Every variable has its type, and a request is in a store call, in a
\* transaction and in possession of a session only where its handler is.
TypeOK ==
  /\ rows \in [User -> Row \union {NoUser}]
  /\ titles \in [User -> [Slug -> Name \union {NoBlog}]]
  /\ tx \in [Caller -> [row : Row, ready : BOOLEAN] \union {NoTx}]
  /\ call \in [Caller -> M!Call \union Answer \union {NoCall}]
  /\ faults \in 0..MaxFaults /\ logins \in 0..MaxSids /\ calls \in 0..MaxCalls
  /\ at \in [Caller -> {"idle", "call", "login", "delete", "set", "unset"}]
  /\ ctx \in [Caller -> [sid : Sid, u : User] \union {NoSession}]
  /\ sessions \in [Sid -> User \union {NoUser}] /\ issued \in [Sid -> User \union {NoUser}]
  /\ \A r \in Caller :
       /\ call[r] # NoCall <=> at[r] \in {"call", "login", "delete"}
       /\ tx[r] # NoTx => InCall(r, {"UpdateUser"})
       /\ at[r] = "idle" => ctx[r] = NoSession
       /\ at[r] \in {"login", "delete", "set", "unset"} => ctx[r] # NoSession

\* An account changes only for a request whose session was opened with the
\* password of that account (server.go, "You cannot update this user"),
\* whatever logins, refreshes and deletions run at the same time.
ActsFor(r, u) == ctx[r] # NoSession /\ ctx[r].u = u /\ issued[ctx[r].sid] = u
OwnerOnly ==
  [][\A u \in User :
       rows[u] # NoUser /\ (rows'[u] # rows[u] \/ titles'[u] # titles[u])
         => \E r \in Caller : call[r] # NoCall /\ call'[r] # call[r] /\ ActsFor(r, u)]_vars

\* A session that ended stays ended, unless a request that read it before is
\* still under way: its id alone brings nothing back.
DeadStaysDead ==
  [][\A sid \in Sid :
       /\ sessions[sid] = NoUser
       /\ \A r \in Caller : ctx[r] # NoSession => ctx[r].sid # sid
       => sessions'[sid] = NoUser]_vars

\* Without that exception: after a logout the session is no longer accepted
\* (adminserver_test.go, testLogout).
EndedStaysEnded ==
  [][\A sid \in Sid : issued[sid] # NoUser /\ sessions[sid] = NoUser => sessions'[sid] = NoUser]_vars

\* Every request is answered: no row lock is held for ever.
Answered == \A r \in Caller : at[r] # "idle" ~> at[r] = "idle"

\* Where the SQL store does not do what the in-memory one does: an update
\* without a password keeps the old one, and nobody has an empty list of blogs.
KeepsPassword(c) ==
  /\ InCall(c, {"UpdateUser"}) /\ call[c].password = NoPassword /\ rows[call[c].u] # NoUser
  /\ rows' = [rows EXCEPT ![call[c].u].name = call[c].name]
  /\ call'[c] \in {Ok, Error} /\ UNCHANGED titles
ListsNobody(c) ==
  InCall(c, {"ListBlogs"}) /\ rows[call[c].u] = NoUser /\ call'[c] = Ok /\ UNCHANGED <<rows, titles>>

\* Everywhere else each call of the SQL store takes effect at one instant and
\* is answered as the in-memory store would, concurrent calls, failing
\* statements and a crash notwithstanding.
ImplementsMemoryStore ==
  [][M!Next \/ \E c \in Caller : KeepsPassword(c) \/ ListsNobody(c)]_(M!vars)
===============================================================================
