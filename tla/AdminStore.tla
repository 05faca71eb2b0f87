------------------------------- MODULE AdminStore -------------------------------
(***************************************************************************)
(* The admin UI in one browser (src/admin-ui/src/store.ts, api.ts,         *)
(* router.ts and the views): a store of the user and their blogs, filled   *)
(* by calls that the server answers at one time and the page gets at a     *)
(* later one, in any order.  A commit, the watchers it wakes and the       *)
(* component they mount are one action.                                    *)
(***************************************************************************)
EXTENDS Integers, FiniteSets, Sequences
LOCAL INSTANCE SequencesExt

CONSTANTS
  User, Slug, Title,
  NoUser, NoBlog, NoAccount,
  MaxCalls,   \* bound: calls in flight after a click
  MaxClicks,  \* bound: what the user does
  MaxLost     \* bound: answers that are errors of the network or the server

List == [Slug -> Title \union {NoBlog}]
NoBlogs == [s \in Slug |-> NoBlog]

ASSUME StoreAssumption == MaxCalls \in Nat \ {0, 1, 2} /\ MaxClicks \in Nat /\ MaxLost \in Nat

VARIABLES
  page,      \* the view that is shown
  user,      \* state.user
  blogs,     \* state.blogs
  calls,     \* the calls in flight with their answers, as they were sent
  cookie,    \* whose session the browser's cookie names, or NoUser
  live,      \* users with a live session at the server
  server,    \* server[u]: the blogs of u at the server, or NoAccount
  clicks,    \* what the user did so far
  lost,      \* errors so far
  overtaken, \* history: was a call answered, or its answer handled, before an
             \* earlier one, or answered under a session the browser had left?
  crossed,   \* history: did an edit begin while another call than a whoami was
             \* in flight?
  diverged,  \* history: did an error hide that the server made an edit?
  thrown     \* history: did the error handler of checkLogin throw?

storeVars == <<page, user, blogs, calls>>
serverVars == <<cookie, live, server>>
historyVars == <<overtaken, crossed, diverged, thrown>>
vars == <<storeVars, serverVars, clicks, lost, historyVars>>

\* loadable.ts
UserIs(state) == [state |-> state, who |-> NoUser]
LoadedUser(u) == [state |-> "loaded", who |-> u]
BlogsAre(state) == [state |-> state, list |-> NoBlogs]
LoadedBlogs(list) == [state |-> "loaded", list |-> list]

Home == {"list", "edit"}
Edits == {"create", "update", "delete"}

\* A call: its arguments, the list it will amend, the cookie it was sent with
\* and, once there is one, the answer.
Call(op, who, slug, title) ==
  [op |-> op, who |-> who, slug |-> slug, title |-> title, old |-> blogs.list,
   as |-> cookie, answer |-> "none", data |-> NoUser]
Plain(op) == Call(op, NoUser, NoBlog, NoBlog)
Done(i) == RemoveAt(calls, i)
Send(cs, call) == Append(cs, call)

Init ==
  /\ page = "login" /\ user = UserIs("loading") /\ blogs = BlogsAre("uninitialized")
  /\ cookie \in User \union {NoUser}
  /\ live = {cookie} \ {NoUser}
  /\ calls = <<Plain("whoami")>>
  /\ server \in [User -> {NoBlogs, NoAccount}] /\ \A u \in live : server[u] # NoAccount
  /\ clicks = 0 /\ lost = 0
  /\ overtaken = FALSE /\ crossed = FALSE /\ diverged = FALSE /\ thrown = FALSE

-------------------------------------------------------------------------------
\* setUser drops the blogs unless the same user stays.
Forgets(new) ==
  \/ new.state # "loaded"
  \/ user.state = "loaded" /\ user.who # new.who

\* Mutant of Leaves: Home has no watcher of the user.
LeavesNever(new) == FALSE
Leaves(new) == page \in Home /\ new.state # "loaded"

\* The mutation setUser and its watchers: Home gives way to Login, which calls
\* checkLogin when it is mounted, and Login gives way to Home, whose BlogList
\* loads the blogs when there are none.
SetUser(new, cs) ==
  LET kept == IF Forgets(new) THEN BlogsAre("uninitialized") ELSE blogs
      enters == page \notin Home /\ new.state = "loaded"
  IN
  CASE Leaves(new) ->
         /\ page' = "login" /\ user' = UserIs("loading") /\ blogs' = kept
         /\ calls' = Send(cs, Plain("whoami"))
    [] enters /\ kept.state = "uninitialized" ->
         /\ page' = "list" /\ user' = new /\ blogs' = BlogsAre("loading")
         /\ calls' = Send(cs, Plain("list"))
    [] OTHER ->
         /\ page' = IF enters THEN "list" ELSE page
         /\ user' = new /\ blogs' = kept /\ calls' = cs

Click ==
  /\ clicks < MaxClicks /\ clicks' = clicks + 1
  /\ Len(calls) <= MaxCalls - 2
  /\ UNCHANGED <<serverVars, lost, overtaken, diverged, thrown>>

\* The forms of Login and Register are disabled while the user is loading.
Submit(op, u) ==
  /\ Click /\ user.state # "loading"
  /\ page = op
  /\ SetUser(UserIs("loading"), Send(calls, Call(op, u, NoBlog, NoBlog)))
  /\ UNCHANGED crossed

\* The links between Login and Register; Login is mounted and asks who it is.
GoRegister ==
  /\ Click /\ page = "login" /\ page' = "register"
  /\ UNCHANGED <<user, blogs, calls, crossed>>
GoLogin ==
  /\ Click /\ page = "register" /\ page' = "login"
  /\ user' = UserIs("loading") /\ blogs' = BlogsAre("uninitialized")
  /\ calls' = Send(calls, Plain("whoami")) /\ UNCHANGED crossed

Logout ==
  /\ Click /\ page \in Home
  /\ SetUser(UserIs("loading"), Send(calls, Plain("logout")))
  /\ UNCHANGED crossed

\* EditBlog and BlogList load the blogs when they are mounted and there are none.
GoTo(view) ==
  /\ Click /\ page \in Home \ {view} /\ page' = view
  /\ UNCHANGED <<user, crossed>>
  /\ IF blogs.state = "uninitialized"
     THEN blogs' = BlogsAre("loading") /\ calls' = Send(calls, Plain("list"))
     ELSE UNCHANGED <<blogs, calls>>

\* editBlogsHelper starts from the loaded list only, and the form tells a new
\* slug from one of the list.  (A form that shows an error is opened again.)
Edit(op, slug, title) ==
  /\ Click /\ page = "edit" /\ blogs.state = "loaded"
  /\ (op = "create") = (blogs.list[slug] = NoBlog)
  /\ calls' = Send(calls, Call(op, NoUser, slug, title))
  /\ blogs' = BlogsAre("loading") /\ UNCHANGED <<page, user>>
  /\ crossed' = (crossed \/ \E i \in DOMAIN calls : calls[i].op # "whoami")
Save(slug, title) == \E op \in {"create", "update"} : Edit(op, slug, title)
Delete(slug) == Edit("delete", slug, NoBlog)

\* What the server answers: whose session the call carries, if it is live.
Sender(i) == IF calls[i].as \in live THEN calls[i].as ELSE NoUser
Grants(i) ==
  LET c == calls[i] IN
  CASE c.op = "register" -> server[c.who] = NoAccount
    [] c.op = "login" -> server[c.who] # NoAccount
    [] OTHER -> /\ Sender(i) # NoUser
                /\ c.op = "create" => server[Sender(i)][c.slug] = NoBlog
                /\ c.op \in {"update", "delete"} => server[Sender(i)][c.slug] # NoBlog

Serve(i) ==
  /\ calls[i].answer = "none"
  /\ LET c == calls[i]
         me == Sender(i)
         data == CASE c.op = "whoami" -> me [] c.op = "list" -> server[me] [] OTHER -> NoUser
     IN
     IF ~Grants(i)
     THEN /\ calls' = [calls EXCEPT ![i].answer = IF c.op = "logout" THEN "thrown" ELSE "refused"]
          /\ UNCHANGED serverVars
     ELSE /\ calls' = [calls EXCEPT ![i].answer = "ok", ![i].data = data]
          /\ server' = CASE c.op = "register" -> [server EXCEPT ![c.who] = NoBlogs]
                         [] c.op \in Edits -> [server EXCEPT ![me][c.slug] = c.title]
                         [] OTHER -> server
          /\ live' = CASE c.op = "login" -> live \union {c.who}
                       [] c.op = "logout" -> live \ {me} [] OTHER -> live
          /\ cookie' = CASE c.op = "login" -> c.who [] c.op = "logout" -> NoUser [] OTHER -> cookie
  /\ overtaken' = \/ overtaken
                  \/ \E j \in 1..i-1 : calls[j].answer = "none"
                  \/ Sender(i) \notin {cookie, NoUser}
  /\ UNCHANGED <<page, user, blogs, clicks, lost, crossed, diverged, thrown>>

\* An error answer of a proxy ("error", a string) or of fetch itself ("thrown",
\* an object), whether or not the server did what it was asked.
Lose(i) ==
  /\ calls[i].answer \in {"none", "ok"} /\ lost < MaxLost
  /\ \E answer \in {"error", "thrown"} : calls' = [calls EXCEPT ![i].answer = answer]
  /\ lost' = lost + 1
  /\ diverged' = (diverged \/ (calls[i].answer = "ok" /\ calls[i].op \in Edits))
  /\ UNCHANGED <<page, user, blogs, serverVars, clicks, overtaken, crossed, thrown>>

Answered(i, op) == calls[i].op = op /\ calls[i].answer # "none"

\* register goes on with login, login with checkLogin.
DeliverLogin(i) ==
  /\ \E op \in {"register", "login"} : Answered(i, op)
  /\ IF calls[i].answer # "ok" THEN SetUser(UserIs("error"), Done(i))
     ELSE SetUser(UserIs("loading"),
            Send(Done(i), IF calls[i].op = "register"
                          THEN Call("login", calls[i].who, NoBlog, NoBlog)
                          ELSE Plain("whoami")))
  /\ UNCHANGED thrown

\* Mutant of LoggedOut: logout commits nothing more when it went well.
LoggedOutSilently == user
LoggedOut == UserIs("uninitialized")

DeliverLogout(i) ==
  /\ Answered(i, "logout")
  /\ SetUser(IF calls[i].answer = "ok" THEN LoggedOut ELSE UserIs("error"), Done(i))
  /\ UNCHANGED thrown

\* Mutant of NotLoggedIn: checkLogin only returns.
StillLoading == UserIs("loading")
NotLoggedIn == UserIs("uninitialized")

\* checkLogin looks for a text in the error, which throws when it is an object.
DeliverWhoami(i) ==
  /\ Answered(i, "whoami")
  /\ CASE calls[i].answer = "ok" -> SetUser(LoadedUser(calls[i].data), Done(i)) /\ UNCHANGED thrown
       [] calls[i].answer = "refused" -> SetUser(NotLoggedIn, Done(i)) /\ UNCHANGED thrown
       [] calls[i].answer = "error" -> SetUser(UserIs("error"), Done(i)) /\ UNCHANGED thrown
       [] OTHER -> calls' = Done(i) /\ thrown' = TRUE /\ UNCHANGED <<page, user, blogs>>

DeliverList(i) ==
  /\ Answered(i, "list")
  /\ blogs' = IF calls[i].answer = "ok" THEN LoadedBlogs(calls[i].data) ELSE BlogsAre("error")
  /\ calls' = Done(i) /\ UNCHANGED <<page, user, thrown>>

\* Mutant of Amended: the edit stays in the list when the server refused it.
AmendedAnyway(c) == [c.old EXCEPT ![c.slug] = c.title]
Amended(c) == IF c.answer = "ok" THEN [c.old EXCEPT ![c.slug] = c.title] ELSE c.old

\* editBlogsHelper amends the list it started from, or restores it; when that
\* went well EditBlog, even one no longer shown, goes home, and the router sends
\* who is not logged in to Login, whose checkLogin drops the list again.
DeliverEdit(i) ==
  /\ \E op \in Edits : Answered(i, op)
  /\ IF calls[i].answer = "ok" /\ page = "register"
     THEN /\ page' = "login" /\ user' = UserIs("loading") /\ blogs' = BlogsAre("uninitialized")
          /\ calls' = Send(Done(i), Plain("whoami"))
     ELSE /\ blogs' = LoadedBlogs(Amended(calls[i]))
          /\ page' = IF calls[i].answer = "ok" /\ page = "edit" THEN "list" ELSE page
          /\ calls' = Done(i) /\ UNCHANGED user
  /\ UNCHANGED thrown

Deliver(i) ==
  /\ DeliverLogin(i) \/ DeliverLogout(i) \/ DeliverWhoami(i) \/ DeliverList(i) \/ DeliverEdit(i)
  /\ overtaken' = (overtaken \/ i > 1)
  /\ UNCHANGED <<serverVars, clicks, lost, crossed, diverged>>

Next ==
  \/ \E u \in User, op \in {"login", "register"} : Submit(op, u)
  \/ GoRegister
  \/ GoLogin
  \/ Logout
  \/ \E view \in Home : GoTo(view)
  \/ \E slug \in Slug, title \in Title : Save(slug, title)
  \/ \E slug \in Slug : Delete(slug)
  \/ \E i \in DOMAIN calls : Serve(i)
  \/ \E i \in DOMAIN calls : Lose(i)
  \/ \E i \in DOMAIN calls : Deliver(i)

Spec == Init /\ [][Next]_vars

\* Every call is answered and its answer handled in the end.
FairSpec ==
  /\ Spec
  /\ WF_vars(\E i \in DOMAIN calls : Serve(i))
  /\ WF_vars(\E i \in DOMAIN calls : Deliver(i))

-------------------------------------------------------------------------------
States == {"uninitialized", "loading", "loaded", "error"}

\* Every variable has its type; the views behind the login are shown to a
\* loaded user only (router.ts).
TypeOK ==
  /\ page \in Home \union {"login", "register"}
  /\ user.state \in States /\ (user.who # NoUser <=> user.state = "loaded")
  /\ blogs.state \in States /\ blogs.list \in List
  /\ cookie \in User \union {NoUser} /\ live \subseteq User
  /\ server \in [User -> List \union {NoAccount}]
  /\ \A i \in DOMAIN calls : calls[i].op \in Edits \union {"login", "register", "logout", "whoami", "list"}
  /\ clicks \in 0..MaxClicks /\ lost \in 0..MaxLost
  /\ (page \in Home <=> user.state = "loaded")

\* As long as no call overtakes another, and when no login or logout is under
\* way, the user the UI shows is the one whose session the browser has, and that
\* session is live, whatever the whoamis in between have said.
Changing == \E i \in DOMAIN calls : calls[i].op \in {"login", "register", "logout"}
ShownIsLoggedIn ==
  ~overtaken /\ ~Changing /\ user.state = "loaded" => cookie = user.who /\ cookie \in live

\* The list the UI shows is the one the server has: local edits and their
\* roll-backs keep the two together, unless a call was overtaken, an edit began
\* while a list, an edit, a login or a logout was on its way, or an error hid
\* what the server did.
ListIsServers ==
  ~overtaken /\ ~crossed /\ ~diverged /\ user.state = "loaded" /\ blogs.state = "loaded"
    => Changing \/ blogs.list = server[user.who]

\* Nothing stays loading, unless the handler of checkLogin throws.
LoadingEnds ==
  /\ (user.state = "loading") ~> (user.state # "loading" \/ thrown)
  /\ (blogs.state = "loading") ~> (blogs.state # "loading")
===============================================================================
