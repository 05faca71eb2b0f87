--------------------------- MODULE AdminStoreProofs ---------------------------
(***************************************************************************)
(* The safety of the admin UI in module AdminStore, for any users, blogs,  *)
(* clicks, errors and calls in flight.                                     *)
(***************************************************************************)
EXTENDS AdminStore, SequenceTheorems, TLAPS
LOCAL INSTANCE SequencesExt

Account == User \union {NoUser}
Changes == {"login", "register", "logout"}
Ops == Edits \union Changes \union {"whoami", "list"}

\* A call, and what an answer to it holds.
CallRecord ==
  [op : Ops, who : Account, slug : Slug \union {NoBlog}, title : Title \union {NoBlog}, old : List,
   as : Account, answer : {"none", "ok", "refused", "error", "thrown"}, data : Account \union List]
Sound(c) ==
  /\ c.op \in {"login", "register"} => c.who \in User
  /\ c.op \in Edits => c.slug \in Slug
  /\ c.answer = "ok" /\ c.op = "whoami" => c.data \in Account \ {NoUser}
  /\ c.answer = "ok" /\ c.op = "list" => c.data \in List
SoundCall == {c \in CallRecord : Sound(c)}

\* The parts of the type invariant, with the types of the calls.
UserTypes(x) ==
  x \in [state : States, who : Account] /\ (x.who # NoUser <=> x.state = "loaded")
PageTypes ==
  /\ page \in Home \union {"login", "register"}
  /\ UserTypes(user) /\ blogs \in [state : States, list : List]
  /\ (page \in Home <=> user.state = "loaded")
ServerTypes ==
  /\ cookie \in Account /\ live \subseteq User
  /\ server \in [User -> List \union {NoAccount}]
  /\ \A u \in live : server[u] \in List
Bounded == clicks \in 0..MaxClicks /\ lost \in 0..MaxLost
StoreTypes == PageTypes /\ ServerTypes /\ Bounded /\ calls \in Seq(SoundCall)

\* The calls are answered in the order in which they were sent.
Ordered(cs) ==
  \A j \in 1..Len(cs) : cs[j].answer = "ok" => \A i \in 1..j-1 : cs[i].answer # "none"

\* Some call changes who is logged in; one after the i-th does.
SomeChange(cs) == \E j \in 1..Len(cs) : cs[j].op \in Changes
Later(cs, i) == \E j \in 1..Len(cs) : j > i /\ cs[j].op \in Changes

\* A whoami that has been answered says whose session the browser has (w) and
\* that it is live (in l), unless that is about to change.
Told(cs, w, l) ==
  \A i \in 1..Len(cs) : cs[i].op = "whoami" /\ cs[i].answer = "ok" =>
    Later(cs, i) \/ (w = cs[i].data /\ w \in l)

\* There is no edit; before an edit there are only whoamis.
NoEdit(cs) == \A j \in 1..Len(cs) : cs[j].op \notin Edits
EditsFirst(cs) ==
  \A j \in 1..Len(cs) : cs[j].op \in Edits => \A i \in 1..j-1 : cs[i].op = "whoami"

\* A list that is on its way, and the one an edit will leave, is the server's
\* (sv), unless another user is about to log in.
Listed(cs, w, l, sv) ==
  \A i \in 1..Len(cs) : cs[i].op = "list" /\ cs[i].answer = "ok" =>
    Later(cs, i) \/ w \notin l \/ cs[i].data = sv[w]
Edited(cs, w, l, sv) ==
  \A i \in 1..Len(cs) : cs[i].op \in Edits =>
    Later(cs, i) \/ w \notin l \/ Amended(cs[i]) = sv[w]

\* The user who is shown, and the list, are the server's unless a login or
\* logout is under way; an edit under way hides the list.
Shown == user.state = "loaded" => SomeChange(calls) \/ (cookie = user.who /\ cookie \in live)
Hidden == blogs.state = "loaded" => NoEdit(calls)
Current ==
  blogs.state = "loaded" => SomeChange(calls) \/ cookie \notin live \/ blogs.list = server[cookie]

\* The inductive invariant.
ShownPart == ~overtaken => Ordered(calls) /\ Told(calls, cookie, live) /\ Shown
ListPart ==
  ~overtaken /\ ~crossed => EditsFirst(calls) /\ Listed(calls, cookie, live, server) /\ Hidden
EditPart ==
  ~overtaken /\ ~crossed /\ ~diverged => Edited(calls, cookie, live, server) /\ Current
StoreInv == StoreTypes /\ ShownPart /\ ListPart /\ EditPart

USE StoreAssumption DEF StoreAssumption

-------------------------------------------------------------------------------
\* Sequences of calls: one is sent, the first one is handled.
LEMMA Rest ==
  ASSUME NEW C, NEW s \in Seq(C), NEW n \in Nat, n = Len(s), n >= 1
  PROVE  /\ Len(SubSeq(s, 2, n)) = n - 1
         /\ \A k \in 1..n-1 : SubSeq(s, 2, n)[k] = s[k + 1]
<1> DEFINE rest == SubSeq(s, 2, n)
<1>1. \A k \in 2..n : s[k] \in C
  OBVIOUS
<1>2. Len(rest) = IF 2 <= n THEN n-2+1 ELSE 0
  BY <1>1, SubSeqProperties
<1>3. \A k \in 1..n-2+1 : rest[k] = s[2+k-1]
  BY <1>1, SubSeqProperties
<1> HIDE DEF rest
<1>4. Len(rest) = n - 1
  BY <1>2
<1>5. ASSUME NEW k \in 1..n-1 PROVE rest[k] = s[k + 1]
  <2>1. k \in 1..n-2+1 /\ 2+k-1 = k+1
    OBVIOUS
  <2>2. rest[k] = s[2+k-1]
    BY <1>3, <2>1
  <2> QED BY <2>1, <2>2
<1> QED BY <1>4, <1>5 DEF rest

LEMMA DoneCalls ==
  ASSUME NEW C, calls \in Seq(C), NEW i \in DOMAIN calls
  PROVE  /\ Done(i) \in Seq(C)
         /\ i = 1 => /\ Len(Done(i)) = Len(calls) - 1
                     /\ \A k \in 1..Len(Done(i)) : Done(i)[k] = calls[k + 1]
<1> DEFINE front == SubSeq(calls, 1, i - 1)
           back == SubSeq(calls, i + 1, Len(calls))
<1>1. Done(i) = front \o back
  BY DEF Done, RemoveAt
<1>2. front \in Seq(C) /\ back \in Seq(C)
  OBVIOUS
<1>3. i = 1 => /\ Len(front) = 0 /\ Len(back) = Len(calls) - 1
               /\ \A k \in 1..Len(back) : back[k] = calls[k + 1]
  <2> SUFFICES ASSUME i = 1 PROVE /\ Len(front) = 0 /\ Len(back) = Len(calls) - 1
                                  /\ \A k \in 1..Len(back) : back[k] = calls[k + 1]
    OBVIOUS
  <2>1. PICK n \in Nat : n = Len(calls) /\ n >= 1
    OBVIOUS
  <2>2. front = SubSeq(calls, 1, 0) /\ back = SubSeq(calls, 2, n)
    BY <2>1
  <2>3. Len(SubSeq(calls, 1, 0)) = 0
    OBVIOUS
  <2>4. /\ Len(SubSeq(calls, 2, n)) = n - 1
        /\ \A k \in 1..n-1 : SubSeq(calls, 2, n)[k] = calls[k + 1]
    BY <2>1, Rest
  <2> HIDE DEF front, back
  <2> QED BY <2>1, <2>2, <2>3, <2>4
<1> HIDE DEF front, back
<1>4. front \o back \in Seq(C) /\ Len(front \o back) = Len(front) + Len(back)
  BY <1>2
<1>5. \A k \in 1..Len(back) : (front \o back)[Len(front) + k] = back[k]
  BY <1>2
<1> QED BY <1>1, <1>2, <1>3, <1>4, <1>5

LEMMA Appended ==
  ASSUME NEW cs \in Seq(SoundCall), NEW c \in SoundCall
  PROVE  /\ Append(cs, c) \in Seq(SoundCall)
         /\ Len(Append(cs, c)) = Len(cs) + 1
         /\ \A k \in 1..Len(cs) : Append(cs, c)[k] = cs[k]
         /\ Append(cs, c)[Len(cs) + 1] = c
<1> QED OBVIOUS

\* A call that was just sent disturbs nothing that is said of the others.
LEMMA SendKeeps ==
  ASSUME NEW cs \in Seq(SoundCall), NEW c \in SoundCall, c.answer = "none",
         NEW w, NEW l, NEW sv
  PROVE  LET ds == Append(cs, c) IN
         /\ ds \in Seq(SoundCall)
         /\ Ordered(cs) => Ordered(ds)
         /\ Told(cs, w, l) => Told(ds, w, l)
         /\ Listed(cs, w, l, sv) => Listed(ds, w, l, sv)
         /\ SomeChange(cs) \/ c.op \in Changes => SomeChange(ds)
         /\ c.op \notin Edits => /\ EditsFirst(cs) => EditsFirst(ds)
                                 /\ Edited(cs, w, l, sv) => Edited(ds, w, l, sv)
                                 /\ NoEdit(cs) => NoEdit(ds)
<1> DEFINE ds == Append(cs, c)
<1>1. /\ ds \in Seq(SoundCall) /\ Len(ds) = Len(cs) + 1 /\ Len(cs) \in Nat
      /\ \A k \in 1..Len(cs) : ds[k] = cs[k]
      /\ ds[Len(cs) + 1] = c
  BY Appended
<1> HIDE DEF ds
<1>2. \A i \in 1..Len(cs) : Later(cs, i) => Later(ds, i)
  BY <1>1 DEF Later
<1>3. \A i \in 1..Len(ds) : i \in 1..Len(cs) \/ i = Len(cs) + 1
  BY <1>1
<1>4. Ordered(cs) => Ordered(ds)
  BY <1>1, <1>3 DEF Ordered
<1>5. Told(cs, w, l) => Told(ds, w, l)
  BY <1>1, <1>2, <1>3 DEF Told
<1>6. Listed(cs, w, l, sv) => Listed(ds, w, l, sv)
  BY <1>1, <1>2, <1>3 DEF Listed
<1>7. c.op \notin Edits /\ EditsFirst(cs) => EditsFirst(ds)
  BY <1>1, <1>3 DEF EditsFirst
<1>8. c.op \notin Edits /\ Edited(cs, w, l, sv) => Edited(ds, w, l, sv)
  BY <1>1, <1>2, <1>3 DEF Edited
<1>9. SomeChange(cs) \/ c.op \in Changes => SomeChange(ds)
  BY <1>1 DEF SomeChange
<1>10. c.op \notin Edits /\ NoEdit(cs) => NoEdit(ds)
  BY <1>1, <1>3 DEF NoEdit
<1> QED BY <1>1, <1>4, <1>5, <1>6, <1>7, <1>8, <1>9, <1>10 DEF ds

\* Neither does the handling of the first one.
LEMMA FirstKeeps ==
  ASSUME NEW cs \in Seq(SoundCall), NEW ds \in Seq(SoundCall), NEW w, NEW l, NEW sv,
         Len(ds) = Len(cs) - 1, \A k \in 1..Len(ds) : ds[k] = cs[k + 1]
  PROVE  /\ Ordered(cs) => Ordered(ds)
         /\ Told(cs, w, l) => Told(ds, w, l)
         /\ Listed(cs, w, l, sv) => Listed(ds, w, l, sv)
         /\ EditsFirst(cs) => EditsFirst(ds)
         /\ Edited(cs, w, l, sv) => Edited(ds, w, l, sv)
         /\ Later(cs, 1) => SomeChange(ds)
         /\ SomeChange(cs) /\ cs[1].op \notin Changes => SomeChange(ds)
         /\ NoEdit(cs) => NoEdit(ds)
         /\ EditsFirst(cs) /\ cs[1].op # "whoami" => NoEdit(ds)
<1>1. \A i \in 1..Len(ds) : i + 1 \in 1..Len(cs)
  OBVIOUS
<1>2. ASSUME NEW i \in 1..Len(ds), Later(cs, i + 1) PROVE Later(ds, i)
  <2>1. PICK j \in 1..Len(cs) : j > i + 1 /\ cs[j].op \in Changes
    BY <1>2 DEF Later
  <2>2. j - 1 \in 1..Len(ds) /\ j - 1 > i /\ ds[j - 1] = cs[j]
    BY <2>1
  <2> QED BY <2>1, <2>2 DEF Later
<1>3. Ordered(cs) => Ordered(ds)
  BY <1>1 DEF Ordered
<1>4. Told(cs, w, l) => Told(ds, w, l)
  BY <1>1, <1>2 DEF Told
<1>5. Listed(cs, w, l, sv) => Listed(ds, w, l, sv)
  BY <1>1, <1>2 DEF Listed
<1>6. EditsFirst(cs) => EditsFirst(ds)
  BY <1>1 DEF EditsFirst
<1>7. Edited(cs, w, l, sv) => Edited(ds, w, l, sv)
  BY <1>1, <1>2 DEF Edited
<1>8. ASSUME NEW j \in 1..Len(cs), j > 1, cs[j].op \in Changes PROVE SomeChange(ds)
  <2>1. j - 1 \in 1..Len(ds) /\ ds[j - 1] = cs[j]
    BY <1>8
  <2> QED BY <1>8, <2>1 DEF SomeChange
<1>9. Later(cs, 1) => SomeChange(ds)
  BY <1>8 DEF Later
<1>10. SomeChange(cs) /\ cs[1].op \notin Changes => SomeChange(ds)
  BY <1>8 DEF SomeChange
<1>11. NoEdit(cs) => NoEdit(ds)
  BY <1>1 DEF NoEdit
<1>12. EditsFirst(cs) /\ cs[1].op # "whoami" => NoEdit(ds)
  <2> SUFFICES ASSUME EditsFirst(cs), NEW i \in 1..Len(ds), ds[i].op \in Edits PROVE cs[1].op = "whoami"
    BY DEF NoEdit
  <2>1. i + 1 \in 1..Len(cs) /\ cs[i + 1].op \in Edits /\ 1 \in 1..(i+1)-1
    OBVIOUS
  <2> QED BY <2>1 DEF EditsFirst
<1> QED BY <1>3, <1>4, <1>5, <1>6, <1>7, <1>9, <1>10, <1>11, <1>12

-------------------------------------------------------------------------------
\* What is sent.
LEMMA CallSound ==
  ASSUME blogs.list \in List, cookie \in Account,
         NEW op \in Ops, NEW who \in Account, NEW slug \in Slug \union {NoBlog},
         NEW title \in Title \union {NoBlog},
         op \in {"login", "register"} => who \in User, op \in Edits => slug \in Slug
  PROVE  LET c == Call(op, who, slug, title) IN
         /\ c \in SoundCall /\ c.op = op /\ c.answer = "none" /\ c.old = blogs.list
         /\ c.slug = slug /\ c.title = title
<1> QED BY DEF Call, SoundCall, CallRecord, Sound, Account

LEMMA PlainSound ==
  ASSUME blogs.list \in List, cookie \in Account, NEW op \in {"whoami", "list", "logout"}
  PROVE  Plain(op) \in SoundCall /\ Plain(op).op = op /\ Plain(op).answer = "none"
<1>1. op \in Ops /\ op \notin {"login", "register"} /\ op \notin Edits
  BY DEF Ops, Changes, Edits
<1>2. NoUser \in Account /\ NoBlog \in Slug \union {NoBlog} /\ NoBlog \in Title \union {NoBlog}
  BY DEF Account
<1> HIDE DEF Ops, Edits, Account
<1> QED BY <1>1, <1>2, CallSound DEF Plain

LEMMA NoBlogsList == NoBlogs \in List
<1> QED BY DEF NoBlogs, List

LEMMA LoadableTypes ==
  /\ \A state \in States \ {"loaded"} :
       UserTypes(UserIs(state)) /\ UserIs(state).state = state
  /\ \A state \in States :
       BlogsAre(state) \in [state : States, list : List] /\ BlogsAre(state).state = state
  /\ \A u \in Account \ {NoUser} :
       UserTypes(LoadedUser(u)) /\ LoadedUser(u).state = "loaded" /\ LoadedUser(u).who = u
  /\ \A list \in List :
       /\ LoadedBlogs(list) \in [state : States, list : List]
       /\ LoadedBlogs(list).state = "loaded" /\ LoadedBlogs(list).list = list
<1> QED BY NoBlogsList DEF UserTypes, UserIs, LoadedUser, BlogsAre, LoadedBlogs, States, Account

\* The mutation setUser keeps the list only for a user who is shown after it, and
\* sends at most one call.
LEMMA SetUserFacts ==
  ASSUME PageTypes, cookie \in Account, NEW new, UserTypes(new), NEW cs, SetUser(new, cs)
  PROVE  /\ PageTypes'
         /\ new.state # "loaded" => user'.state # "loaded" /\ blogs'.state # "loaded"
         /\ new.state = "loaded" => user' = new /\ (blogs' = blogs \/ blogs'.state # "loaded")
         /\ calls' = cs \/ \E op \in {"whoami", "list"} : calls' = Append(cs, Plain(op))
<1> DEFINE kept == IF Forgets(new) THEN BlogsAre("uninitialized") ELSE blogs
           enters == page \notin Home /\ new.state = "loaded"
<1>1. /\ kept \in [state : States, list : List] /\ (kept = blogs \/ kept.state # "loaded")
      /\ new.state # "loaded" => kept.state # "loaded"
  BY LoadableTypes DEF PageTypes, Forgets, States
<1>2. /\ UserTypes(UserIs("loading")) /\ UserIs("loading").state = "loading"
      /\ BlogsAre("loading") \in [state : States, list : List]
      /\ BlogsAre("loading").state = "loading"
  BY LoadableTypes DEF States
<1>3. CASE Leaves(new)
  <2>1. page' = "login" /\ user' = UserIs("loading") /\ blogs' = kept /\ calls' = Append(cs, Plain("whoami"))
    BY <1>3 DEF SetUser, Send, Leaves
  <2>2. new.state # "loaded"
    BY <1>3 DEF Leaves
  <2> HIDE DEF kept, enters
  <2> QED BY <1>1, <1>2, <2>1, <2>2 DEF PageTypes, UserTypes, Home
<1>4. CASE ~Leaves(new) /\ enters /\ kept.state = "uninitialized"
  <2>1. page' = "list" /\ user' = new /\ blogs' = BlogsAre("loading") /\ calls' = Append(cs, Plain("list"))
    BY <1>4 DEF SetUser, Send
  <2>2. new.state = "loaded"
    BY <1>4
  <2> HIDE DEF kept, enters
  <2> QED BY <1>1, <1>2, <2>1, <2>2 DEF PageTypes, UserTypes, Home
<1>5. CASE ~Leaves(new) /\ ~(enters /\ kept.state = "uninitialized")
  <2>1. page' = (IF enters THEN "list" ELSE page) /\ user' = new /\ blogs' = kept /\ calls' = cs
    BY <1>5 DEF SetUser
  <2>2. /\ page' \in Home \union {"login", "register"}
        /\ page' \in Home <=> new.state = "loaded"
    BY <1>5, <2>1 DEF Leaves, PageTypes, Home
  <2> HIDE DEF kept, enters
  <2> QED BY <1>1, <2>1, <2>2 DEF PageTypes, UserTypes
<1> QED BY <1>3, <1>4, <1>5

\* What the server does to the call c, the i-th, and by whose session.
Refused(i, c) ==
  /\ \E a \in {"thrown", "refused"} : calls' = [calls EXCEPT ![i] = [c EXCEPT !.answer = a]]
  /\ UNCHANGED serverVars
WithData(c, data) == [c EXCEPT !.answer = "ok", !.data = data]
Granted(i, c, data) == calls' = [calls EXCEPT ![i] = WithData(c, data)]
Reads(i, c, me) ==
  /\ me \in live /\ me # NoUser /\ UNCHANGED serverVars
  /\ \/ c.op = "whoami" /\ Granted(i, c, me)
     \/ c.op = "list" /\ Granted(i, c, server[me])
ChangesWho(i, c, me) ==
  /\ c.op \in Changes /\ Granted(i, c, NoUser)
  /\ \/ /\ c.op = "register" /\ server' = [server EXCEPT ![c.who] = NoBlogs]
        /\ UNCHANGED <<live, cookie>>
     \/ /\ c.op = "login" /\ server[c.who] # NoAccount
        /\ live' = live \union {c.who} /\ cookie' = c.who /\ UNCHANGED server
     \/ c.op = "logout" /\ live' = live \ {me} /\ cookie' = NoUser /\ UNCHANGED server
EditsBlog(i, c, me) ==
  /\ c.op \in Edits /\ me \in live /\ me # NoUser /\ Granted(i, c, NoUser)
  /\ server' = [server EXCEPT ![me][c.slug] = c.title] /\ UNCHANGED <<live, cookie>>

LEMMA OpOf == \A c \in SoundCall : c.op \in Edits \union Changes \union {"whoami", "list"}
<1> QED BY DEF SoundCall, CallRecord, Ops

LEMMA ServeCases ==
  ASSUME calls \in Seq(SoundCall), NEW i \in DOMAIN calls, Serve(i)
  PROVE  LET c == calls[i]
             me == Sender(i)
         IN  /\ c \in SoundCall /\ c.answer = "none"
             /\ Refused(i, c) \/ Reads(i, c, me) \/ ChangesWho(i, c, me) \/ EditsBlog(i, c, me)
<1> DEFINE c == calls[i]
           me == Sender(i)
<1>1. c \in SoundCall /\ c.answer = "none"
  BY DEF Serve
<1>2. c.op \in Edits \union Changes \union {"whoami", "list"}
  BY <1>1, OpOf
<1>3. me # NoUser => me \in live
  BY DEF Sender
<1>4. CASE ~Grants(i)
  <2>1. /\ calls' = [calls EXCEPT ![i].answer = IF c.op = "logout" THEN "thrown" ELSE "refused"]
        /\ UNCHANGED serverVars
    BY <1>4, Zenon DEF Serve
  <2>2. Refused(i, c)
    BY <2>1 DEF Refused
  <2> QED BY <1>1, <2>2
<1>5. CASE Grants(i)
  <2> DEFINE data == CASE c.op = "whoami" -> me [] c.op = "list" -> server[me] [] OTHER -> NoUser
  <2>1. /\ calls' = [calls EXCEPT ![i].answer = "ok", ![i].data = data]
        /\ server' = CASE c.op = "register" -> [server EXCEPT ![c.who] = NoBlogs]
                       [] c.op \in Edits -> [server EXCEPT ![me][c.slug] = c.title]
                       [] OTHER -> server
        /\ live' = CASE c.op = "login" -> live \union {c.who}
                     [] c.op = "logout" -> live \ {me} [] OTHER -> live
        /\ cookie' = CASE c.op = "login" -> c.who [] c.op = "logout" -> NoUser [] OTHER -> cookie
    BY <1>5, Zenon DEF Serve
  <2>2. calls' = [calls EXCEPT ![i] = [c EXCEPT !.answer = "ok", !.data = data]]
    BY <2>1
  <2>3. CASE c.op \in {"whoami", "list"}
    <3>1. me # NoUser
      BY <1>5, <2>3 DEF Grants
    <3>2. UNCHANGED serverVars /\ data = (IF c.op = "whoami" THEN me ELSE server[me])
      BY <2>1, <2>3 DEF serverVars, Edits
    <3> HIDE DEF c, me, data
    <3> QED BY <1>1, <1>3, <2>2, <2>3, <3>1, <3>2 DEF Reads, Granted, WithData, c, me
  <2>4. CASE c.op \in Changes
    <3>1. c.op = "login" => server[c.who] # NoAccount
      BY <1>5 DEF Grants
    <3>2. data = NoUser
      BY <2>4 DEF Changes
    <3>3. ChangesWho(i, c, me)
      BY <2>1, <2>2, <2>4, <3>1, <3>2 DEF ChangesWho, Granted, WithData, Changes, Edits
    <3> QED BY <1>1, <3>3
  <2>5. CASE c.op \in Edits
    <3>1. me # NoUser
      BY <1>5, <2>5 DEF Grants, Edits
    <3>2. data = NoUser
      BY <2>5 DEF Edits
    <3>3. EditsBlog(i, c, me)
      BY <1>3, <2>1, <2>2, <2>5, <3>1, <3>2 DEF EditsBlog, Granted, WithData, Edits
    <3> QED BY <1>1, <3>3
  <2> QED BY <1>2, <2>3, <2>4, <2>5
<1> QED BY <1>4, <1>5

\* The i-th call has an answer, or another one.
LEMMA AnswerSound ==
  ASSUME calls \in Seq(SoundCall), NEW i \in DOMAIN calls, NEW c \in SoundCall,
         calls' = [calls EXCEPT ![i] = c]
  PROVE  /\ calls' \in Seq(SoundCall) /\ Len(calls') = Len(calls)
         /\ calls'[i] = c /\ \A k \in DOMAIN calls : k # i => calls'[k] = calls[k]
<1> QED OBVIOUS

LEMMA FailedCall ==
  ASSUME NEW c \in SoundCall, NEW a \in {"none", "refused", "error", "thrown"}, NEW d,
         d = [c EXCEPT !.answer = a]
  PROVE  d \in SoundCall /\ d.op = c.op /\ d.answer = a /\ d.old = c.old
<1>1. c \in CallRecord /\ Sound(c)
  BY DEF SoundCall
<1>2. d \in CallRecord /\ d.answer = a /\ d.op = c.op /\ d.who = c.who /\ d.slug = c.slug /\ d.old = c.old
  BY <1>1 DEF CallRecord
<1>3. Sound(d)
  BY <1>1, <1>2 DEF Sound
<1> QED BY <1>2, <1>3 DEF SoundCall

LEMMA GrantedCall ==
  ASSUME NEW c \in SoundCall, NEW data \in Account \union List,
         c.op = "whoami" => data \in Account \ {NoUser}, c.op = "list" => data \in List
  PROVE  LET d == WithData(c, data) IN
         /\ d \in SoundCall /\ d.op = c.op /\ d.answer = "ok" /\ d.data = data
         /\ d.old = c.old /\ d.slug = c.slug /\ d.title = c.title
<1> DEFINE d == WithData(c, data)
<1>1. c \in CallRecord /\ Sound(c)
  BY DEF SoundCall
<1>2. /\ d \in CallRecord /\ d.answer = "ok" /\ d.data = data /\ d.op = c.op /\ d.who = c.who
      /\ d.slug = c.slug /\ d.old = c.old /\ d.title = c.title
  BY <1>1 DEF CallRecord, WithData
<1> HIDE DEF d
<1>3. Sound(d)
  BY <1>1, <1>2 DEF Sound
<1>4. d \in SoundCall
  BY <1>2, <1>3 DEF SoundCall
<1> QED BY <1>2, <1>4 DEF d

LEMMA SenderTypes ==
  ASSUME ServerTypes
  PROVE  \A me \in live : me \in User /\ server[me] \in List
<1> QED BY DEF ServerTypes

LEMMA ServeTypes ==
  ASSUME ServerTypes, calls \in Seq(SoundCall), NEW i \in DOMAIN calls, Serve(i)
  PROVE  ServerTypes' /\ calls' \in Seq(SoundCall)
<1> DEFINE c == calls[i]
           me == Sender(i)
<1>1. /\ c \in SoundCall /\ c.answer = "none"
      /\ Refused(i, c) \/ Reads(i, c, me) \/ ChangesWho(i, c, me) \/ EditsBlog(i, c, me)
  BY ServeCases
<1>2. /\ c.op \in {"login", "register"} => c.who \in User
      /\ c.op \in Edits => c.slug \in Slug
      /\ c.title \in Title \union {NoBlog}
  BY <1>1 DEF SoundCall, Sound, CallRecord
<1>3. NoUser \in Account /\ User \subseteq Account
  BY DEF Account
<1> HIDE DEF c, me
<1>4. CASE Refused(i, c)
  <2>1. ServerTypes'
    BY <1>4 DEF Refused, ServerTypes, serverVars
  <2>2. PICK a \in {"thrown", "refused"} : calls' = [calls EXCEPT ![i] = [c EXCEPT !.answer = a]]
    BY <1>4 DEF Refused
  <2>3. [c EXCEPT !.answer = a] \in SoundCall
    BY <1>1, FailedCall
  <2>4. calls' \in Seq(SoundCall)
    BY <2>2, <2>3, AnswerSound
  <2> QED BY <2>1, <2>4
<1>5. CASE Reads(i, c, me)
  <2>1. ServerTypes'
    BY <1>5 DEF Reads, ServerTypes, serverVars
  <2>2. me \in Account \ {NoUser} /\ server[me] \in List
    BY <1>3, <1>5, SenderTypes DEF Reads
  <2>3. PICK data \in Account \union List :
          /\ Granted(i, c, data)
          /\ c.op = "whoami" => data \in Account \ {NoUser}
          /\ c.op = "list" => data \in List
    BY <1>5, <2>2 DEF Reads
  <2>4. calls' \in Seq(SoundCall)
    <3>1. WithData(c, data) \in SoundCall /\ calls' = [calls EXCEPT ![i] = WithData(c, data)]
      BY <1>1, <2>3, GrantedCall DEF Granted
    <3> QED BY <3>1, AnswerSound
  <2> QED BY <2>1, <2>4
<1>6. CASE ChangesWho(i, c, me)
  <2>1. calls' \in Seq(SoundCall)
    <3>1. c.op \notin {"whoami", "list"} /\ Granted(i, c, NoUser)
      BY <1>6 DEF ChangesWho, Changes
    <3>2. WithData(c, NoUser) \in SoundCall /\ calls' = [calls EXCEPT ![i] = WithData(c, NoUser)]
      BY <1>1, <1>3, <3>1, GrantedCall DEF Granted
    <3> QED BY <3>2, AnswerSound
  <2>2. c.op = "register" => ServerTypes'
    BY <1>2, <1>6, NoBlogsList DEF ChangesWho, ServerTypes
  <2>3. c.op = "login" => ServerTypes'
    BY <1>2, <1>3, <1>6 DEF ChangesWho, ServerTypes
  <2>4. c.op = "logout" => ServerTypes'
    BY <1>3, <1>6 DEF ChangesWho, ServerTypes
  <2> QED BY <1>6, <2>1, <2>2, <2>3, <2>4 DEF ChangesWho
<1>7. CASE EditsBlog(i, c, me)
  <2>1. calls' \in Seq(SoundCall)
    <3>1. c.op \notin {"whoami", "list"} /\ Granted(i, c, NoUser)
      BY <1>7 DEF EditsBlog, Edits
    <3>2. WithData(c, NoUser) \in SoundCall /\ calls' = [calls EXCEPT ![i] = WithData(c, NoUser)]
      BY <1>1, <1>3, <3>1, GrantedCall DEF Granted
    <3> QED BY <3>2, AnswerSound
  <2>2. me \in User /\ server[me] \in List
    BY <1>7, SenderTypes DEF EditsBlog
  <2>3. [server[me] EXCEPT ![c.slug] = c.title] \in List
    BY <1>2, <1>7, <2>2 DEF EditsBlog, List
  <2>4. ServerTypes'
    BY <1>7, <2>2, <2>3 DEF EditsBlog, ServerTypes
  <2> QED BY <2>1, <2>4
<1> QED BY <1>1, <1>4, <1>5, <1>6, <1>7

LEMMA LoseFacts ==
  ASSUME calls \in Seq(SoundCall), NEW i \in DOMAIN calls, Lose(i)
  PROVE  \E a \in {"error", "thrown"} :
           /\ calls' = [calls EXCEPT ![i] = [calls[i] EXCEPT !.answer = a]]
           /\ [calls[i] EXCEPT !.answer = a] \in SoundCall
           /\ calls' \in Seq(SoundCall)
<1>1. calls[i] \in SoundCall
  OBVIOUS
<1>2. PICK a \in {"error", "thrown"} : calls' = [calls EXCEPT ![i].answer = a]
  BY DEF Lose
<1>3. calls' = [calls EXCEPT ![i] = [calls[i] EXCEPT !.answer = a]]
  BY <1>2
<1>4. [calls[i] EXCEPT !.answer = a] \in SoundCall
  BY <1>1, FailedCall
<1> QED BY <1>3, <1>4, AnswerSound

LEMMA AmendedList == \A c \in SoundCall : c.op \in Edits => Amended(c) \in List
<1> SUFFICES ASSUME NEW c \in SoundCall, c.op \in Edits PROVE Amended(c) \in List
  OBVIOUS
<1>1. c.old \in List /\ c.slug \in Slug /\ c.title \in Title \union {NoBlog}
  BY DEF SoundCall, CallRecord, Sound
<1>2. [c.old EXCEPT ![c.slug] = c.title] \in List
  BY <1>1 DEF List
<1> QED BY <1>1, <1>2 DEF Amended

LEMMA SetUserTypes ==
  ASSUME PageTypes, cookie \in Account, NEW new, UserTypes(new), NEW cs \in Seq(SoundCall),
         SetUser(new, cs)
  PROVE  PageTypes' /\ calls' \in Seq(SoundCall)
<1>1. blogs.list \in List
  BY DEF PageTypes
<1>2. \A op \in {"whoami", "list"} : Plain(op) \in SoundCall
  BY <1>1, PlainSound
<1> QED BY <1>2, SetUserFacts, Appended

\* The calls that the user's clicks send.
LEMMA FormCall ==
  ASSUME PageTypes, cookie \in Account, NEW u \in User, NEW op \in {"login", "register"}
  PROVE  LET c == Call(op, u, NoBlog, NoBlog) IN
         c \in SoundCall /\ c.op = op /\ c.answer = "none"
<1>1. blogs.list \in List /\ u \in Account /\ op \in Ops /\ op \notin Edits
  BY DEF PageTypes, Account, Ops, Changes, Edits
<1> QED BY <1>1, CallSound

LEMMA EditCall ==
  ASSUME PageTypes, cookie \in Account, NEW op \in Edits, NEW slug \in Slug,
         NEW title \in Title \union {NoBlog}
  PROVE  LET c == Call(op, NoUser, slug, title) IN
         c \in SoundCall /\ c.op = op /\ c.answer = "none" /\ c.old = blogs.list
<1>1. blogs.list \in List /\ NoUser \in Account /\ op \in Ops /\ op \notin {"login", "register"}
  BY DEF PageTypes, Account, Ops, Edits
<1> QED BY <1>1, CallSound

\* A click.
ClickStep ==
  \/ \E u \in User, op \in {"login", "register"} : Submit(op, u)
  \/ GoRegister
  \/ GoLogin
  \/ Logout
  \/ \E view \in Home : GoTo(view)
  \/ \E slug \in Slug, title \in Title, op \in {"create", "update"} : Edit(op, slug, title)
  \/ \E slug \in Slug : Edit("delete", slug, NoBlog)

LEMMA ClickTypes == StoreTypes /\ ClickStep => StoreTypes'
<1> SUFFICES ASSUME StoreTypes, ClickStep PROVE StoreTypes'
  OBVIOUS
<1> USE DEF StoreTypes
<1>1. cookie \in Account /\ blogs.list \in List /\ calls \in Seq(SoundCall)
  BY DEF ServerTypes, PageTypes
<1>2. Click
  BY DEF ClickStep, Submit, GoRegister, GoLogin, Logout, GoTo, Edit
<1>3. ServerTypes' /\ Bounded'
  BY <1>2 DEF Click, serverVars, ServerTypes, Bounded
<1>4. \A op \in {"whoami", "list", "logout"} : Plain(op) \in SoundCall
  BY <1>1, PlainSound
<1>5. /\ UserTypes(UserIs("loading")) /\ UserIs("loading").state = "loading"
      /\ \A state \in {"loading", "uninitialized"} : BlogsAre(state) \in [state : States, list : List]
  BY LoadableTypes DEF States
<1>6. PageTypes' /\ calls' \in Seq(SoundCall)
  <2>1. ASSUME NEW u \in User, NEW op \in {"login", "register"}, Submit(op, u)
        PROVE  PageTypes' /\ calls' \in Seq(SoundCall)
    <3>1. Append(calls, Call(op, u, NoBlog, NoBlog)) \in Seq(SoundCall)
      BY <1>1, FormCall, Appended
    <3> QED BY <1>1, <1>5, <2>1, <3>1, SetUserTypes DEF Submit, Send
  <2>2. CASE GoRegister
    BY <1>1, <2>2 DEF GoRegister, PageTypes, Home
  <2>3. CASE GoLogin
    <3>1. /\ page' = "login" /\ user' = UserIs("loading") /\ blogs' = BlogsAre("uninitialized")
          /\ calls' = Append(calls, Plain("whoami"))
      BY <2>3 DEF GoLogin, Send
    <3> QED BY <1>1, <1>4, <1>5, <3>1, Appended DEF PageTypes, Home
  <2>4. CASE Logout
    <3>1. Append(calls, Plain("logout")) \in Seq(SoundCall)
      BY <1>1, <1>4, Appended
    <3> QED BY <1>1, <1>5, <2>4, <3>1, SetUserTypes DEF Logout, Send
  <2>5. ASSUME NEW view \in Home, GoTo(view) PROVE PageTypes' /\ calls' \in Seq(SoundCall)
    <3>1. /\ page \in Home /\ page' = view /\ user' = user
          /\ \/ blogs' = BlogsAre("loading") /\ calls' = Append(calls, Plain("list"))
             \/ UNCHANGED <<blogs, calls>>
      BY <2>5, Zenon DEF GoTo, Send
    <3>2. calls' \in Seq(SoundCall)
      BY <1>1, <1>4, <3>1, Appended
    <3>3. blogs' \in [state : States, list : List]
      BY <1>5, <3>1 DEF PageTypes
    <3> QED BY <3>1, <3>2, <3>3 DEF PageTypes
  <2>6. ASSUME NEW op \in Edits, NEW slug \in Slug, NEW title \in Title \union {NoBlog},
               Edit(op, slug, title)
        PROVE  PageTypes' /\ calls' \in Seq(SoundCall)
    <3>1. Append(calls, Call(op, NoUser, slug, title)) \in Seq(SoundCall)
      BY <1>1, EditCall, Appended
    <3> QED BY <1>5, <2>6, <3>1 DEF Edit, Send, PageTypes
  <2> QED BY <2>1, <2>2, <2>3, <2>4, <2>5, <2>6 DEF ClickStep, Edits
<1> QED BY <1>3, <1>6

LEMMA DeliverTypes ==
  ASSUME StoreTypes, NEW i \in DOMAIN calls, Deliver(i)
  PROVE  StoreTypes'
<1> USE DEF StoreTypes
<1> DEFINE c == calls[i]
<1>1. cookie \in Account /\ blogs.list \in List /\ calls \in Seq(SoundCall) /\ c \in SoundCall
  BY DEF ServerTypes, PageTypes
<1>2. ServerTypes' /\ Bounded'
  BY DEF Deliver, serverVars, ServerTypes, Bounded
<1>3. Done(i) \in Seq(SoundCall)
  BY <1>1, DoneCalls
<1>4. Append(Done(i), Plain("whoami")) \in Seq(SoundCall)
  BY <1>1, <1>3, PlainSound, Appended
<1>5. /\ \A state \in States \ {"loaded"} : UserTypes(UserIs(state))
      /\ "loading" \in States \ {"loaded"} /\ "error" \in States \ {"loaded"}
      /\ "uninitialized" \in States \ {"loaded"}
  BY LoadableTypes DEF States
<1>6. PageTypes' /\ calls' \in Seq(SoundCall)
  <2>1. CASE DeliverLogin(i)
    <3>1. Append(Done(i), Call("login", c.who, NoBlog, NoBlog)) \in Seq(SoundCall) \/ c.op # "register"
      <4> SUFFICES ASSUME c.op = "register"
                   PROVE  Append(Done(i), Call("login", c.who, NoBlog, NoBlog)) \in Seq(SoundCall)
        OBVIOUS
      <4>1. c.who \in User
        BY <1>1 DEF SoundCall, Sound
      <4>2. Call("login", c.who, NoBlog, NoBlog) \in SoundCall
        BY <1>1, <4>1, FormCall
      <4> QED BY <1>3, <4>2, Appended
    <3>2. \/ SetUser(UserIs("error"), Done(i))
          \/ c.op = "register" /\ SetUser(UserIs("loading"), Append(Done(i), Call("login", c.who, NoBlog, NoBlog)))
          \/ SetUser(UserIs("loading"), Append(Done(i), Plain("whoami")))
      BY <2>1 DEF DeliverLogin, Send
    <3> HIDE DEF c
    <3> QED BY <1>1, <1>3, <1>4, <1>5, <3>1, <3>2, SetUserTypes
  <2>2. CASE DeliverLogout(i)
    <3>1. SetUser(UserIs("uninitialized"), Done(i)) \/ SetUser(UserIs("error"), Done(i))
      BY <2>2 DEF DeliverLogout, LoggedOut
    <3> QED BY <1>1, <1>3, <1>5, <3>1, SetUserTypes
  <2>3. CASE DeliverWhoami(i)
    <3>1. \/ c.op = "whoami" /\ c.answer = "ok" /\ SetUser(LoadedUser(c.data), Done(i))
          \/ SetUser(UserIs("uninitialized"), Done(i)) \/ SetUser(UserIs("error"), Done(i))
          \/ calls' = Done(i) /\ UNCHANGED <<page, user, blogs>>
      BY <2>3 DEF DeliverWhoami, NotLoggedIn, Answered
    <3>2. c.op = "whoami" /\ c.answer = "ok" => UserTypes(LoadedUser(c.data))
      BY <1>1, LoadableTypes DEF SoundCall, Sound
    <3>3. CASE calls' = Done(i) /\ UNCHANGED <<page, user, blogs>>
      BY <1>3, <3>3 DEF PageTypes
    <3> HIDE DEF c
    <3> QED BY <1>1, <1>3, <1>5, <3>1, <3>2, <3>3, SetUserTypes
  <2>4. CASE DeliverList(i)
    <3>1. /\ calls' = Done(i) /\ UNCHANGED <<page, user>>
          /\ \/ c.op = "list" /\ c.answer = "ok" /\ blogs' = LoadedBlogs(c.data)
             \/ blogs' = BlogsAre("error")
      BY <2>4, Zenon DEF DeliverList, Answered
    <3>2. c.op = "list" /\ c.answer = "ok" => c.data \in List
      BY <1>1 DEF SoundCall, Sound
    <3>3. blogs' \in [state : States, list : List]
      BY <1>5, <3>1, <3>2, LoadableTypes
    <3> QED BY <1>3, <3>1, <3>3 DEF PageTypes
  <2>5. CASE DeliverEdit(i)
    <3>1. Amended(c) \in List
      BY <1>1, <2>5, AmendedList DEF DeliverEdit, Answered
    <3>2. \/ /\ page = "register" /\ page' = "login" /\ user' = UserIs("loading")
             /\ blogs' = BlogsAre("uninitialized") /\ calls' = Append(Done(i), Plain("whoami"))
          \/ /\ page' = page \/ (page = "edit" /\ page' = "list")
             /\ blogs' = LoadedBlogs(Amended(c)) /\ calls' = Done(i) /\ user' = user
      BY <2>5 DEF DeliverEdit, Send
    <3>3. blogs' \in [state : States, list : List]
      BY <1>5, <3>1, <3>2, LoadableTypes
    <3>4. UserTypes(UserIs("loading")) /\ UserIs("loading").state = "loading"
      BY LoadableTypes DEF States
    <3> HIDE DEF c
    <3> QED BY <1>3, <1>4, <3>2, <3>3, <3>4 DEF PageTypes, Home
  <2> QED BY <2>1, <2>2, <2>3, <2>4, <2>5 DEF Deliver
<1> QED BY <1>2, <1>6

-------------------------------------------------------------------------------
\* An edit that is sent when there are only whoamis.
LEMMA EditKeeps ==
  ASSUME NEW cs \in Seq(SoundCall), NEW c \in SoundCall, NEW w, NEW l, NEW sv,
         \A i \in 1..Len(cs) : cs[i].op = "whoami", w \notin l \/ Amended(c) = sv[w]
  PROVE  EditsFirst(Append(cs, c)) /\ Edited(Append(cs, c), w, l, sv)
<1> DEFINE ds == Append(cs, c)
<1>1. /\ Len(ds) = Len(cs) + 1 /\ Len(cs) \in Nat
      /\ \A k \in 1..Len(cs) : ds[k] = cs[k]
      /\ ds[Len(cs) + 1] = c
  BY Appended
<1> HIDE DEF ds
<1>2. EditsFirst(ds)
  BY <1>1 DEF EditsFirst
<1>3. Edited(ds, w, l, sv)
  <2> SUFFICES ASSUME NEW i \in 1..Len(ds), ds[i].op \in Edits
               PROVE  w \notin l \/ Amended(ds[i]) = sv[w]
    BY DEF Edited
  <2>1. i = Len(cs) + 1
    BY <1>1 DEF Edits
  <2> QED BY <1>1, <2>1
<1> QED BY <1>2, <1>3 DEF ds

\* What setUser sends disturbs nothing, either.
LEMMA SetUserKeeps ==
  ASSUME PageTypes, cookie \in Account, NEW new, UserTypes(new), NEW cs \in Seq(SoundCall),
         SetUser(new, cs), NEW w, NEW l, NEW sv
  PROVE  /\ Ordered(cs) => Ordered(calls')
         /\ Told(cs, w, l) => Told(calls', w, l)
         /\ Listed(cs, w, l, sv) => Listed(calls', w, l, sv)
         /\ EditsFirst(cs) => EditsFirst(calls')
         /\ Edited(cs, w, l, sv) => Edited(calls', w, l, sv)
         /\ SomeChange(cs) => SomeChange(calls')
         /\ NoEdit(cs) => NoEdit(calls')
<1>1. blogs.list \in List
  BY DEF PageTypes
<1>2. calls' = cs \/ \E op \in {"whoami", "list"} : calls' = Append(cs, Plain(op))
  BY SetUserFacts
<1>3. \A op \in {"whoami", "list"} :
        Plain(op) \in SoundCall /\ Plain(op).answer = "none" /\ Plain(op).op \notin Edits
  BY <1>1, PlainSound DEF Edits
<1>4. CASE calls' = cs
  BY <1>4
<1>5. ASSUME NEW op \in {"whoami", "list"}, calls' = Append(cs, Plain(op))
      PROVE  /\ Ordered(cs) => Ordered(calls')
             /\ Told(cs, w, l) => Told(calls', w, l)
             /\ Listed(cs, w, l, sv) => Listed(calls', w, l, sv)
             /\ EditsFirst(cs) => EditsFirst(calls')
             /\ Edited(cs, w, l, sv) => Edited(calls', w, l, sv)
             /\ SomeChange(cs) => SomeChange(calls')
             /\ NoEdit(cs) => NoEdit(calls')
  BY <1>3, <1>5, SendKeeps
<1> QED BY <1>2, <1>4, <1>5

\* A step of the page that is no edit leaves what is said of the calls as it was.
Keeps ==
  /\ Ordered(calls) => Ordered(calls')
  /\ Told(calls, cookie, live) => Told(calls', cookie, live)
  /\ EditsFirst(calls) => EditsFirst(calls')
  /\ Listed(calls, cookie, live, server) => Listed(calls', cookie, live, server)
  /\ Edited(calls, cookie, live, server) => Edited(calls', cookie, live, server)

LEMMA PageStep ==
  ASSUME StoreInv, StoreTypes', UNCHANGED <<serverVars, crossed, diverged>>,
         overtaken => overtaken',
         ~overtaken' => Keeps /\ Shown' /\ (~crossed => Hidden' /\ (~diverged => Current'))
  PROVE  StoreInv'
<1>1. UNCHANGED <<cookie, live, server, crossed, diverged>>
  BY DEF serverVars
<1>2. ShownPart'
  BY <1>1 DEF StoreInv, ShownPart, Keeps
<1>3. ListPart'
  BY <1>1 DEF StoreInv, ListPart, Keeps
<1>4. EditPart'
  BY <1>1 DEF StoreInv, EditPart, Keeps
<1> QED BY <1>2, <1>3, <1>4 DEF StoreInv

\* A call was sent or not, and the page shows what it did, or nobody and nothing.
LEMMA ClickKeeps ==
  ASSUME StoreInv, StoreTypes', UNCHANGED <<serverVars, overtaken, crossed, diverged>>, Keeps,
         SomeChange(calls) => SomeChange(calls'), NoEdit(calls) => NoEdit(calls'),
         user' = user \/ user'.state # "loaded", blogs' = blogs \/ blogs'.state # "loaded"
  PROVE  StoreInv'
<1>1. UNCHANGED <<cookie, live, server, overtaken, crossed, diverged>>
  BY DEF serverVars
<1>2. Shown => Shown'
  BY <1>1 DEF Shown
<1>3. Hidden => Hidden'
  BY <1>1 DEF Hidden
<1>4. Current => Current'
  BY <1>1 DEF Current
<1> QED BY <1>1, <1>2, <1>3, <1>4, PageStep DEF StoreInv, ShownPart, ListPart, EditPart

\* Neither the form, nor a link, nor the logout brings anything on the page that
\* the server does not have; an edit starts from the server's list.
LEMMA ClickInv == StoreInv /\ ClickStep => StoreInv'
<1> SUFFICES ASSUME StoreInv, ClickStep PROVE StoreInv'
  OBVIOUS
<1>1. StoreTypes /\ StoreTypes'
  BY ClickTypes DEF StoreInv
<1>2. PageTypes /\ cookie \in Account /\ blogs.list \in List /\ calls \in Seq(SoundCall)
  BY <1>1 DEF StoreTypes, ServerTypes, PageTypes
<1>3. UNCHANGED <<serverVars, overtaken, diverged>>
  BY DEF ClickStep, Submit, GoRegister, GoLogin, Logout, GoTo, Edit, Click
<1>4. UserTypes(UserIs("loading")) /\ UserIs("loading").state # "loaded"
      /\ BlogsAre("loading").state # "loaded" /\ BlogsAre("uninitialized").state # "loaded"
  BY LoadableTypes DEF States
<1>5. \A op \in {"whoami", "list", "logout"} :
        Plain(op) \in SoundCall /\ Plain(op).answer = "none" /\ Plain(op).op \notin Edits
  BY <1>2, PlainSound DEF Edits
<1>6. ASSUME NEW c \in SoundCall, c.answer = "none", c.op \notin Edits, UNCHANGED crossed,
             SetUser(UserIs("loading"), Append(calls, c))
      PROVE  StoreInv'
  <2>1. Append(calls, c) \in Seq(SoundCall)
    BY <1>2, Appended
  <2>2. user'.state # "loaded" /\ blogs'.state # "loaded"
    BY <1>2, <1>4, <1>6, SetUserFacts
  <2>3. Keeps
    BY <1>2, <1>4, <1>6, <2>1, SendKeeps, SetUserKeeps DEF Keeps
  <2>4. (SomeChange(calls) => SomeChange(calls')) /\ (NoEdit(calls) => NoEdit(calls'))
    BY <1>2, <1>4, <1>6, <2>1, SendKeeps, SetUserKeeps
  <2> QED BY <1>1, <1>3, <1>6, <2>2, <2>3, <2>4, ClickKeeps
<1>7. ASSUME NEW op \in {"whoami", "list"}, UNCHANGED crossed, calls' = Append(calls, Plain(op)),
             user' = user \/ user'.state # "loaded", blogs'.state # "loaded"
      PROVE  StoreInv'
  <2>1. Keeps /\ (SomeChange(calls) => SomeChange(calls')) /\ (NoEdit(calls) => NoEdit(calls'))
    BY <1>2, <1>5, <1>7, SendKeeps DEF Keeps
  <2> QED BY <1>1, <1>3, <1>7, <2>1, ClickKeeps
<1>8. ASSUME UNCHANGED <<user, blogs, calls, crossed>> PROVE StoreInv'
  BY <1>1, <1>3, <1>8, ClickKeeps DEF Keeps
<1>9. ASSUME NEW u \in User, NEW op \in {"login", "register"}, Submit(op, u) PROVE StoreInv'
  <2>1. LET c == Call(op, u, NoBlog, NoBlog) IN c \in SoundCall /\ c.op \notin Edits /\ c.answer = "none"
    BY <1>2, FormCall DEF Edits
  <2> QED BY <1>6, <1>9, <2>1 DEF Submit, Send
<1>10. CASE GoRegister
  BY <1>8, <1>10 DEF GoRegister
<1>11. CASE GoLogin
  BY <1>4, <1>7, <1>11 DEF GoLogin, Send
<1>12. CASE Logout
  BY <1>5, <1>6, <1>12 DEF Logout, Send
<1>13. ASSUME NEW view \in Home, GoTo(view) PROVE StoreInv'
  <2>1. /\ user' = user /\ crossed' = crossed
        /\ \/ blogs' = BlogsAre("loading") /\ calls' = Append(calls, Plain("list"))
           \/ UNCHANGED <<blogs, calls>>
    BY <1>13, Zenon DEF GoTo, Send
  <2> QED BY <1>4, <1>7, <1>8, <2>1
<1>14. ASSUME NEW op \in Edits, NEW slug \in Slug, NEW title \in Title \union {NoBlog},
              Edit(op, slug, title)
       PROVE  StoreInv'
  <2> DEFINE c == Call(op, NoUser, slug, title)
  <2>1. c \in SoundCall /\ c.op = op /\ c.answer = "none" /\ c.old = blogs.list
    BY <1>2, EditCall
  <2>2. /\ calls' = Append(calls, c) /\ blogs.state = "loaded" /\ blogs'.state # "loaded" /\ user' = user
        /\ ~crossed' => ~crossed /\ \A i \in DOMAIN calls : calls[i].op = "whoami"
    BY <1>4, <1>14 DEF Edit, Send
  <2> HIDE DEF c
  <2>3. UNCHANGED <<cookie, live, server, overtaken, diverged>>
    BY <1>3 DEF serverVars
  <2>4. ShownPart'
    <3>1. /\ Ordered(calls) => Ordered(calls')
          /\ Told(calls, cookie, live) => Told(calls', cookie, live)
          /\ SomeChange(calls) => SomeChange(calls')
      BY <1>2, <2>1, <2>2, SendKeeps
    <3> QED BY <2>2, <2>3, <3>1 DEF StoreInv, ShownPart, Shown
  <2>5. ASSUME ~overtaken, ~crossed' PROVE ListPart' /\ EditPart'
    <3>1. ~crossed /\ \A i \in 1..Len(calls) : calls[i].op = "whoami"
      BY <1>2, <2>2, <2>5
    <3>2. ~SomeChange(calls)
      BY <3>1 DEF SomeChange, Changes
    <3>3. Listed(calls', cookie, live, server)
      BY <1>2, <2>1, <2>2, <2>5, <3>1, SendKeeps DEF StoreInv, ListPart
    <3>4. ~diverged => cookie \notin live \/ Amended(c) = server[cookie]
      BY <2>1, <2>2, <2>5, <3>1, <3>2 DEF StoreInv, EditPart, Current, Amended
    <3>5. EditsFirst(calls') /\ (~diverged => Edited(calls', cookie, live, server))
      <4>1. EditsFirst(calls')
        BY <1>2, <2>1, <2>2, <3>1 DEF EditsFirst
      <4>2. ~diverged => Edited(calls', cookie, live, server)
        BY <1>2, <2>1, <2>2, <3>1, <3>4, EditKeeps
      <4> QED BY <4>1, <4>2
    <3>6. Hidden' /\ Current'
      BY <2>2 DEF Hidden, Current
    <3> QED BY <2>3, <3>3, <3>5, <3>6 DEF ListPart, EditPart
  <2>6. overtaken \/ crossed' => ListPart' /\ EditPart'
    BY <2>3 DEF ListPart, EditPart
  <2> QED BY <1>1, <2>4, <2>5, <2>6 DEF StoreInv
<1> QED BY <1>9, <1>10, <1>11, <1>12, <1>13, <1>14 DEF ClickStep, Edits

-------------------------------------------------------------------------------
\* The i-th call gets an answer.
LEMMA Replaced ==
  ASSUME NEW cs \in Seq(SoundCall), NEW i \in 1..Len(cs), NEW c \in SoundCall, c.op = cs[i].op
  PROVE  LET ds == [cs EXCEPT ![i] = c] IN
         /\ Len(ds) = Len(cs) /\ ds[i] = c /\ \A k \in 1..Len(cs) : k # i => ds[k] = cs[k]
         /\ \A k \in 1..Len(cs) : ds[k].op = cs[k].op
         /\ \A k \in 1..Len(cs) : Later(cs, k) => Later(ds, k)
         /\ SomeChange(cs) => SomeChange(ds)
         /\ NoEdit(cs) => NoEdit(ds)
         /\ EditsFirst(cs) => EditsFirst(ds)
<1> DEFINE ds == [cs EXCEPT ![i] = c]
<1>1. /\ Len(ds) = Len(cs) /\ ds[i] = c /\ \A k \in 1..Len(cs) : k # i => ds[k] = cs[k]
  OBVIOUS
<1> HIDE DEF ds
<1>2. \A k \in 1..Len(cs) : ds[k].op = cs[k].op
  BY <1>1
<1>3. Len(cs) \in Nat
  OBVIOUS
<1>4. \A k \in 1..Len(cs) : Later(cs, k) => Later(ds, k)
  BY <1>1, <1>2 DEF Later
<1>5. (SomeChange(cs) => SomeChange(ds)) /\ (NoEdit(cs) => NoEdit(ds))
  BY <1>1, <1>2 DEF SomeChange, NoEdit
<1>6. EditsFirst(cs) => EditsFirst(ds)
  <2>1. \A j \in 1..Len(cs) : \A k \in 1..j-1 : k \in 1..Len(cs)
    BY <1>3
  <2> QED BY <1>1, <1>2, <2>1 DEF EditsFirst
<1> QED BY <1>1, <1>2, <1>4, <1>5, <1>6 DEF ds

\* The answer is a refusal or an error.
LEMMA FailureKeeps ==
  ASSUME NEW cs \in Seq(SoundCall), NEW i \in 1..Len(cs), NEW c \in SoundCall,
         c.op = cs[i].op, c.old = cs[i].old, c.answer \notin {"none", "ok"},
         NEW w, NEW l, NEW sv
  PROVE  LET ds == [cs EXCEPT ![i] = c] IN
         /\ Ordered(cs) => Ordered(ds)
         /\ Told(cs, w, l) => Told(ds, w, l)
         /\ Listed(cs, w, l, sv) => Listed(ds, w, l, sv)
         /\ cs[i].answer # "ok" \/ c.op \notin Edits =>
              (Edited(cs, w, l, sv) => Edited(ds, w, l, sv))
<1> DEFINE ds == [cs EXCEPT ![i] = c]
<1>1. /\ Len(ds) = Len(cs) /\ ds[i] = c /\ \A k \in 1..Len(cs) : k # i => ds[k] = cs[k]
      /\ \A k \in 1..Len(cs) : ds[k].op = cs[k].op
      /\ \A k \in 1..Len(cs) : Later(cs, k) => Later(ds, k)
  BY Replaced
<1>2. Len(cs) \in Nat /\ \A j \in 1..Len(cs) : \A k \in 1..j-1 : k \in 1..Len(cs)
  OBVIOUS
<1> HIDE DEF ds
<1>3. Ordered(cs) => Ordered(ds)
  BY <1>1, <1>2 DEF Ordered
<1>4. Told(cs, w, l) => Told(ds, w, l)
  BY <1>1 DEF Told
<1>5. Listed(cs, w, l, sv) => Listed(ds, w, l, sv)
  BY <1>1 DEF Listed
<1>6. ASSUME cs[i].answer # "ok" \/ c.op \notin Edits, Edited(cs, w, l, sv) PROVE Edited(ds, w, l, sv)
  <2>1. cs[i].answer # "ok" => Amended(c) = Amended(cs[i])
    BY DEF Amended
  <2>2. \A k \in 1..Len(cs) : cs[k].op \in Edits => Amended(ds[k]) = Amended(cs[k])
    BY <1>1, <1>6, <2>1
  <2> QED BY <1>1, <1>6, <2>2 DEF Edited
<1> QED BY <1>3, <1>4, <1>5, <1>6 DEF ds

\* The server does what it is asked, when all earlier calls have their answers.
LEMMA GrantKeeps ==
  ASSUME NEW cs \in Seq(SoundCall), NEW i \in 1..Len(cs), NEW c \in SoundCall,
         c.op = cs[i].op, c.answer = "ok", cs[i].answer = "none", Ordered(cs),
         \A k \in 1..i-1 : cs[k].answer # "none", NEW w, NEW l, NEW sv
  PROVE  LET ds == [cs EXCEPT ![i] = c] IN
         /\ Ordered(ds)
         /\ (c.op = "whoami" => w = c.data /\ w \in l) /\ Told(cs, w, l) => Told(ds, w, l)
         /\ (c.op = "list" => c.data = sv[w]) /\ Listed(cs, w, l, sv) => Listed(ds, w, l, sv)
         /\ c.op \notin Edits /\ Edited(cs, w, l, sv) => Edited(ds, w, l, sv)
         /\ c.op \in Changes => /\ Told(ds, w, l) /\ Listed(ds, w, l, sv)
                                /\ EditsFirst(cs) => Edited(ds, w, l, sv)
         /\ c.op \in Edits /\ EditsFirst(cs) =>
              /\ Listed(ds, w, l, sv)
              /\ Later(cs, i) \/ w \notin l \/ Amended(c) = sv[w] => Edited(ds, w, l, sv)
<1> DEFINE ds == [cs EXCEPT ![i] = c]
<1>1. /\ Len(ds) = Len(cs) /\ ds[i] = c /\ \A k \in 1..Len(cs) : k # i => ds[k] = cs[k]
      /\ \A k \in 1..Len(cs) : ds[k].op = cs[k].op
      /\ \A k \in 1..Len(cs) : Later(cs, k) => Later(ds, k)
  BY Replaced
<1>2. Len(cs) \in Nat /\ \A j \in 1..Len(cs) : \A k \in 1..j-1 : k \in 1..Len(cs)
  OBVIOUS
<1> HIDE DEF ds
<1>3. Ordered(ds)
  BY <1>1, <1>2 DEF Ordered
<1>4. (c.op = "whoami" => w = c.data /\ w \in l) /\ Told(cs, w, l) => Told(ds, w, l)
  BY <1>1 DEF Told
<1>5. (c.op = "list" => c.data = sv[w]) /\ Listed(cs, w, l, sv) => Listed(ds, w, l, sv)
  BY <1>1 DEF Listed
<1>6. c.op \notin Edits /\ Edited(cs, w, l, sv) => Edited(ds, w, l, sv)
  BY <1>1 DEF Edited
<1>7. \A k \in 1..Len(ds) : ds[k].answer = "ok" => k <= i
  <2> SUFFICES ASSUME NEW k \in 1..Len(ds), ds[k].answer = "ok", k > i PROVE FALSE
    BY <1>1
  <2>1. cs[k].answer = "ok" /\ i \in 1..k-1 /\ k \in 1..Len(cs)
    BY <1>1
  <2> QED BY <2>1 DEF Ordered
<1>8. ASSUME c.op \in Changes PROVE \A k \in 1..i-1 : Later(ds, k)
  BY <1>1, <1>2, <1>8 DEF Later
<1>9. ASSUME c.op \in Changes
      PROVE  Told(ds, w, l) /\ Listed(ds, w, l, sv) /\ (EditsFirst(cs) => Edited(ds, w, l, sv))
  <2>1. c.op \notin Edits \union {"whoami", "list"}
    BY <1>9 DEF Changes, Edits
  <2>2. \A k \in 1..Len(ds) : ds[k].answer = "ok" /\ ds[k].op \in {"whoami", "list"} => Later(ds, k)
    BY <1>1, <1>7, <1>8, <1>9, <2>1
  <2>3. EditsFirst(cs) => \A k \in 1..Len(ds) : ds[k].op \in Edits => Later(ds, k)
    <3> SUFFICES ASSUME EditsFirst(cs), NEW k \in 1..Len(cs), ds[k].op \in Edits PROVE Later(ds, k)
      BY <1>1
    <3>1. cs[k].op \in Edits /\ k # i
      BY <1>1, <2>1
    <3>2. ~(k > i)
      <4> SUFFICES ASSUME k > i PROVE FALSE
        OBVIOUS
      <4>1. i \in 1..k-1
        OBVIOUS
      <4> QED BY <2>1, <3>1, <4>1 DEF EditsFirst
    <3> QED BY <1>8, <1>9, <3>1, <3>2
  <2> QED BY <2>2, <2>3 DEF Told, Listed, Edited
<1>10. ASSUME c.op \in Edits, EditsFirst(cs)
       PROVE  /\ Listed(ds, w, l, sv)
              /\ Later(cs, i) \/ w \notin l \/ Amended(c) = sv[w] => Edited(ds, w, l, sv)
  <2>1. \A k \in 1..i-1 : cs[k].op = "whoami"
    BY <1>10 DEF EditsFirst
  <2>2. "whoami" \notin Edits /\ "list" \notin Edits
    BY DEF Edits
  <2>3. \A k \in 1..Len(ds) : ds[k].answer = "ok" => ds[k].op # "list"
    BY <1>1, <1>7, <1>10, <2>1, <2>2
  <2>4. \A k \in 1..Len(ds) : ds[k].op \in Edits => k = i
    <3> SUFFICES ASSUME NEW k \in 1..Len(cs), cs[k].op \in Edits, k # i PROVE FALSE
      BY <1>1
    <3>1. k > i
      BY <2>1, <2>2
    <3>2. i \in 1..k-1
      BY <3>1
    <3> QED BY <1>10, <2>2, <3>2 DEF EditsFirst
  <2> QED BY <1>1, <2>3, <2>4 DEF Listed, Edited
<1> QED BY <1>3, <1>4, <1>5, <1>6, <1>9, <1>10 DEF ds

\* An error in the place of an answer: the list is right as long as it did not
\* hide an edit.
LEMMA LoseInv ==
  ASSUME StoreInv, NEW i \in DOMAIN calls, Lose(i)
  PROVE  StoreInv'
<1> DEFINE c == calls[i]
<1>1. calls \in Seq(SoundCall) /\ i \in 1..Len(calls) /\ c \in SoundCall
  BY DEF StoreInv, StoreTypes
<1>2. PICK a \in {"error", "thrown"} :
        /\ calls' = [calls EXCEPT ![i] = [c EXCEPT !.answer = a]]
        /\ [c EXCEPT !.answer = a] \in SoundCall /\ calls' \in Seq(SoundCall)
  BY <1>1, LoseFacts
<1> DEFINE d == [c EXCEPT !.answer = a]
<1>3. d \in SoundCall /\ d.op = c.op /\ d.answer = a /\ d.old = c.old
  BY <1>1, FailedCall
<1>4. /\ UNCHANGED <<page, user, blogs, serverVars, clicks, overtaken, crossed>>
      /\ lost' = lost + 1 /\ lost < MaxLost
      /\ ~diverged' => ~diverged /\ (c.answer # "ok" \/ c.op \notin Edits)
  BY DEF Lose
<1> HIDE DEF c, d
<1>5. StoreTypes'
  BY <1>2, <1>4 DEF StoreInv, StoreTypes, PageTypes, ServerTypes, Bounded, serverVars
<1>6. calls' = [calls EXCEPT ![i] = d] /\ c = calls[i] /\ a \notin {"none", "ok"}
  BY <1>2 DEF d, c
<1>7. /\ SomeChange(calls) => SomeChange(calls')
      /\ NoEdit(calls) => NoEdit(calls')
      /\ EditsFirst(calls) => EditsFirst(calls')
  BY <1>1, <1>3, <1>6, Replaced
<1>8. /\ Ordered(calls) => Ordered(calls')
      /\ Told(calls, cookie, live) => Told(calls', cookie, live)
      /\ Listed(calls, cookie, live, server) => Listed(calls', cookie, live, server)
      /\ c.answer # "ok" \/ c.op \notin Edits =>
           (Edited(calls, cookie, live, server) => Edited(calls', cookie, live, server))
  BY <1>1, <1>3, <1>6, FailureKeeps
<1>9. UNCHANGED <<user, blogs, cookie, live, server, overtaken, crossed>>
  BY <1>4 DEF serverVars
<1>10. (Shown => Shown') /\ (Hidden => Hidden') /\ (Current => Current')
  BY <1>7, <1>9 DEF Shown, Hidden, Current
<1>11. ShownPart'
  BY <1>8, <1>9, <1>10 DEF StoreInv, ShownPart
<1>12. ListPart'
  BY <1>7, <1>8, <1>9, <1>10 DEF StoreInv, ListPart
<1>13. EditPart'
  BY <1>4, <1>8, <1>9, <1>10 DEF StoreInv, EditPart
<1> QED BY <1>5, <1>11, <1>12, <1>13 DEF StoreInv

\* What a call is when the server has done what it asked.
LEMMA GrantedStep ==
  ASSUME calls \in Seq(SoundCall), NEW i \in 1..Len(calls), NEW c \in SoundCall, c = calls[i],
         NEW data \in Account \union List, Granted(i, c, data),
         c.op = "whoami" => data \in Account \ {NoUser}, c.op = "list" => data \in List
  PROVE  \E d \in SoundCall :
           /\ d.op = c.op /\ d.answer = "ok" /\ d.data = data
           /\ d.old = c.old /\ d.slug = c.slug /\ d.title = c.title
           /\ calls' = [calls EXCEPT ![i] = d]
           /\ SomeChange(calls) \/ c.op \in Changes => SomeChange(calls')
           /\ NoEdit(calls) => NoEdit(calls')
           /\ EditsFirst(calls) => EditsFirst(calls')
<1> DEFINE d == WithData(c, data)
<1>1. /\ d \in SoundCall /\ d.op = c.op /\ d.answer = "ok" /\ d.data = data
      /\ d.old = c.old /\ d.slug = c.slug /\ d.title = c.title
  BY GrantedCall
<1>2. calls' = [calls EXCEPT ![i] = d]
  BY DEF Granted
<1> HIDE DEF d
<1>3. /\ SomeChange(calls) => SomeChange(calls')
      /\ NoEdit(calls) => NoEdit(calls')
      /\ EditsFirst(calls) => EditsFirst(calls')
      /\ calls'[i] = d /\ Len(calls') = Len(calls)
  <2>1. d.op = calls[i].op
    BY <1>1
  <2> DEFINE ds == [calls EXCEPT ![i] = d]
  <2>2. /\ SomeChange(calls) => SomeChange(ds)
        /\ NoEdit(calls) => NoEdit(ds)
        /\ EditsFirst(calls) => EditsFirst(ds)
        /\ ds[i] = d /\ Len(ds) = Len(calls)
    BY <1>1, <2>1, Replaced
  <2> HIDE DEF ds
  <2>3. calls' = ds
    BY <1>2 DEF ds
  <2> QED BY <2>2, <2>3
<1>4. c.op \in Changes => SomeChange(calls')
  BY <1>1, <1>3 DEF SomeChange
<1> QED BY <1>1, <1>2, <1>3, <1>4

\* The server answers in turn: what it says is right, and a change that it makes
\* is either the one of an edit or announced by a call that is still in flight.
LEMMA ServeInv ==
  ASSUME StoreInv, NEW i \in DOMAIN calls, Serve(i)
  PROVE  StoreInv'
<1> DEFINE c == calls[i]
           me == Sender(i)
<1>1. calls \in Seq(SoundCall) /\ i \in 1..Len(calls) /\ c \in SoundCall /\ ServerTypes
  BY DEF StoreInv, StoreTypes
<1>2. /\ UNCHANGED <<page, user, blogs, clicks, lost, crossed, diverged>>
      /\ ~overtaken' => /\ ~overtaken /\ me \in {cookie, NoUser}
                        /\ \A k \in 1..i-1 : calls[k].answer # "none"
  BY DEF Serve
<1>3. c.answer = "none" /\ (Refused(i, c) \/ Reads(i, c, me) \/ ChangesWho(i, c, me) \/ EditsBlog(i, c, me))
  BY <1>1, ServeCases
<1>4. StoreTypes'
  BY <1>1, <1>2, ServeTypes DEF StoreInv, StoreTypes, PageTypes, Bounded
<1>5. SUFFICES ASSUME ~overtaken' PROVE ShownPart' /\ ListPart' /\ EditPart'
  BY <1>4 DEF StoreInv, ShownPart, ListPart, EditPart
<1>6. Ordered(calls) /\ Told(calls, cookie, live) /\ Shown
  BY <1>2, <1>5 DEF StoreInv, ShownPart
<1>7. /\ ~crossed => EditsFirst(calls) /\ Listed(calls, cookie, live, server) /\ Hidden
      /\ ~crossed /\ ~diverged => Edited(calls, cookie, live, server) /\ Current
  BY <1>2, <1>5 DEF StoreInv, ListPart, EditPart
<1>8. NoUser \in Account /\ User \subseteq Account
  BY DEF Account
<1>9. c = calls[i]
  OBVIOUS
<1> HIDE DEF c, me
<1>10. CASE Refused(i, c)
  <2>1. UNCHANGED <<cookie, live, server>>
    BY <1>10 DEF Refused, serverVars
  <2>2. PICK a \in {"thrown", "refused"} : calls' = [calls EXCEPT ![i] = [c EXCEPT !.answer = a]]
    BY <1>10 DEF Refused
  <2> DEFINE d == [c EXCEPT !.answer = a]
  <2>3. d \in SoundCall /\ d.op = c.op /\ d.old = c.old /\ d.answer \notin {"none", "ok"} /\ c = calls[i]
    BY <1>1, FailedCall DEF c
  <2> HIDE DEF d
  <2>4. calls' = [calls EXCEPT ![i] = d]
    BY <2>2 DEF d
  <2>5. /\ SomeChange(calls) => SomeChange(calls')
        /\ NoEdit(calls) => NoEdit(calls')
        /\ EditsFirst(calls) => EditsFirst(calls')
    BY <1>1, <2>3, <2>4, Replaced
  <2>6. /\ Ordered(calls) => Ordered(calls')
        /\ Told(calls, cookie, live) => Told(calls', cookie, live)
        /\ Listed(calls, cookie, live, server) => Listed(calls', cookie, live, server)
        /\ Edited(calls, cookie, live, server) => Edited(calls', cookie, live, server)
    BY <1>1, <1>3, <2>3, <2>4, FailureKeeps
  <2>7. (Shown => Shown') /\ (Hidden => Hidden') /\ (Current => Current')
    BY <1>2, <2>1, <2>5 DEF Shown, Hidden, Current
  <2> QED BY <1>2, <1>6, <1>7, <2>1, <2>5, <2>6, <2>7 DEF ShownPart, ListPart, EditPart
<1>11. CASE Reads(i, c, me)
  <2>1. UNCHANGED <<cookie, live, server>> /\ me = cookie /\ me \in live /\ me # NoUser
    BY <1>2, <1>5, <1>11 DEF Reads, serverVars
  <2>2. me \in Account \ {NoUser} /\ server[me] \in List
    BY <1>1, <1>8, <2>1, SenderTypes
  <2>3. PICK data \in Account \union List :
          /\ Granted(i, c, data) /\ c.op \in {"whoami", "list"}
          /\ c.op = "whoami" => data = me /\ data \in Account \ {NoUser}
          /\ c.op = "list" => data = server[me] /\ data \in List
    BY <1>11, <2>2 DEF Reads
  <2>4. PICK d \in SoundCall :
          /\ d.op = c.op /\ d.answer = "ok" /\ d.data = data
          /\ c = calls[i] /\ calls' = [calls EXCEPT ![i] = d]
          /\ SomeChange(calls) => SomeChange(calls')
          /\ NoEdit(calls) => NoEdit(calls')
          /\ EditsFirst(calls) => EditsFirst(calls')
    BY <1>1, <1>9, <2>3, GrantedStep
  <2>5. c.op \notin Edits
    BY <2>3 DEF Edits
  <2>6. /\ Ordered(calls') /\ Told(calls', cookie, live)
        /\ Listed(calls, cookie, live, server) => Listed(calls', cookie, live, server)
        /\ Edited(calls, cookie, live, server) => Edited(calls', cookie, live, server)
    BY <1>1, <1>2, <1>3, <1>5, <1>6, <2>1, <2>3, <2>4, <2>5, GrantKeeps
  <2>7. (Shown => Shown') /\ (Hidden => Hidden') /\ (Current => Current')
    BY <1>2, <2>1, <2>4 DEF Shown, Hidden, Current
  <2> QED BY <1>2, <1>6, <1>7, <2>1, <2>4, <2>6, <2>7 DEF ShownPart, ListPart, EditPart
<1>12. CASE ChangesWho(i, c, me)
  <2>1. c.op \in Changes /\ Granted(i, c, NoUser) /\ c.op \notin {"whoami", "list"}
    BY <1>12 DEF ChangesWho, Changes
  <2>2. PICK d \in SoundCall :
          /\ d.op = c.op /\ d.answer = "ok"
          /\ c = calls[i] /\ calls' = [calls EXCEPT ![i] = d]
          /\ SomeChange(calls')
          /\ NoEdit(calls) => NoEdit(calls')
          /\ EditsFirst(calls) => EditsFirst(calls')
    BY <1>1, <1>8, <1>9, <2>1, GrantedStep
  <2>3. \A w, l, sv : /\ Ordered(calls') /\ Told(calls', w, l) /\ Listed(calls', w, l, sv)
                      /\ EditsFirst(calls) => Edited(calls', w, l, sv)
    BY <1>1, <1>2, <1>3, <1>5, <1>6, <2>1, <2>2, GrantKeeps
  <2>4. Shown' /\ Current' /\ (Hidden => Hidden')
    BY <1>2, <2>2 DEF Shown, Hidden, Current
  <2> QED BY <1>2, <1>6, <1>7, <2>2, <2>3, <2>4 DEF ShownPart, ListPart, EditPart
<1>13. CASE EditsBlog(i, c, me)
  <2>1. /\ c.op \in Edits /\ Granted(i, c, NoUser) /\ c.op \notin {"whoami", "list"} /\ c.op \notin Changes
        /\ me = cookie /\ me \in live /\ UNCHANGED <<live, cookie>>
        /\ server' = [server EXCEPT ![me][c.slug] = c.title]
    BY <1>2, <1>5, <1>13 DEF EditsBlog, Edits, Changes
  <2>2. PICK d \in SoundCall :
          /\ d.op = c.op /\ d.answer = "ok"
          /\ d.old = c.old /\ d.slug = c.slug /\ d.title = c.title
          /\ c = calls[i] /\ calls' = [calls EXCEPT ![i] = d]
          /\ SomeChange(calls) => SomeChange(calls')
          /\ NoEdit(calls) => NoEdit(calls')
          /\ EditsFirst(calls) => EditsFirst(calls')
    BY <1>1, <1>8, <1>9, <2>1, GrantedStep
  <2>3. /\ Ordered(calls') /\ Told(calls', cookie, live)
        /\ EditsFirst(calls) =>
             /\ Listed(calls', cookie, live, server')
             /\ Later(calls, i) \/ cookie \notin live \/ Amended(d) = server'[cookie]
                  => Edited(calls', cookie, live, server')
    BY <1>1, <1>2, <1>3, <1>5, <1>6, <2>1, <2>2, GrantKeeps
  <2>4. ~crossed /\ ~diverged => Later(calls, i) \/ Amended(d) = server'[cookie]
    <3> SUFFICES ASSUME ~crossed, ~diverged, ~Later(calls, i) PROVE Amended(d) = server'[cookie]
      OBVIOUS
    <3>1. Amended(c) = server[cookie]
      BY <1>1, <1>7, <2>1, <2>2 DEF Edited
    <3>2. c.old = server[cookie]
      BY <1>3, <3>1 DEF Amended
    <3>3. Amended(d) = [server[cookie] EXCEPT ![c.slug] = c.title]
      BY <2>2, <3>2 DEF Amended
    <3> QED BY <1>1, <2>1, <3>3 DEF ServerTypes
  <2>5. ~crossed => blogs.state # "loaded"
    BY <1>1, <1>7, <2>1, <2>2 DEF Hidden, NoEdit
  <2>6. (Shown => Shown') /\ (~crossed => Hidden' /\ Current')
    BY <1>2, <2>1, <2>2, <2>5 DEF Shown, Hidden, Current
  <2> QED BY <1>2, <1>6, <1>7, <2>1, <2>2, <2>3, <2>4, <2>6 DEF ShownPart, ListPart, EditPart
<1> QED BY <1>3, <1>10, <1>11, <1>12, <1>13

\* The page gets the first answer: what it shows then is what the answer says,
\* or nothing.
LEMMA DeliverInv ==
  ASSUME StoreInv, NEW i \in DOMAIN calls, Deliver(i)
  PROVE  StoreInv'
<1>1. /\ calls \in Seq(SoundCall) /\ cookie \in Account /\ PageTypes /\ blogs.list \in List
      /\ i \in 1..Len(calls)
  BY DEF StoreInv, StoreTypes, ServerTypes, PageTypes
<1>2. StoreTypes'
  BY DeliverTypes DEF StoreInv
<1>3. /\ UNCHANGED <<serverVars, crossed, diverged>>
      /\ overtaken => overtaken'
      /\ ~overtaken' => ~overtaken /\ ~(i > 1)
  BY DEF Deliver
<1>4. SUFFICES ASSUME ~overtaken'
               PROVE  Keeps /\ Shown' /\ (~crossed => Hidden' /\ (~diverged => Current'))
  BY <1>2, <1>3, PageStep
<1>5. UNCHANGED <<cookie, live, server, crossed, diverged>>
  BY <1>3 DEF serverVars
<1>6. /\ Told(calls, cookie, live) /\ Shown
      /\ ~crossed => EditsFirst(calls) /\ Listed(calls, cookie, live, server) /\ Hidden
      /\ ~crossed /\ ~diverged => Edited(calls, cookie, live, server) /\ Current
  BY <1>3, <1>4 DEF StoreInv, ShownPart, ListPart, EditPart
<1>7. i = 1 /\ 1 \in 1..Len(calls)
  BY <1>1, <1>3, <1>4
<1> DEFINE ds == Done(1)
           c == calls[1]
<1>8. /\ ds \in Seq(SoundCall) /\ Len(ds) = Len(calls) - 1
      /\ \A k \in 1..Len(ds) : ds[k] = calls[k + 1]
  BY <1>1, <1>7, DoneCalls
<1>9. c \in SoundCall
  BY <1>1, <1>7
<1> HIDE DEF ds
<1>10. /\ Ordered(calls) => Ordered(ds)
       /\ Told(calls, cookie, live) => Told(ds, cookie, live)
       /\ Listed(calls, cookie, live, server) => Listed(ds, cookie, live, server)
       /\ EditsFirst(calls) => EditsFirst(ds)
       /\ Edited(calls, cookie, live, server) => Edited(ds, cookie, live, server)
       /\ Later(calls, 1) => SomeChange(ds)
       /\ SomeChange(calls) /\ c.op \notin Changes => SomeChange(ds)
       /\ NoEdit(calls) => NoEdit(ds)
       /\ EditsFirst(calls) /\ c.op # "whoami" => NoEdit(ds)
  BY <1>1, <1>8, FirstKeeps
<1>11. calls' = ds => Keeps
  BY <1>10 DEF Keeps
<1>12. ASSUME NEW d \in SoundCall, d.answer = "none", d.op \notin Edits
       PROVE  /\ Append(ds, d) \in Seq(SoundCall)
              /\ Ordered(calls) => Ordered(Append(ds, d))
              /\ Told(calls, cookie, live) => Told(Append(ds, d), cookie, live)
              /\ Listed(calls, cookie, live, server) => Listed(Append(ds, d), cookie, live, server)
              /\ EditsFirst(calls) => EditsFirst(Append(ds, d))
              /\ Edited(calls, cookie, live, server) => Edited(Append(ds, d), cookie, live, server)
  BY <1>8, <1>10, <1>12, SendKeeps
<1>13. ASSUME user'.state # "loaded", blogs'.state # "loaded" PROVE Shown' /\ Hidden' /\ Current'
  BY <1>13 DEF Shown, Hidden, Current
<1>14. ASSUME NEW new, UserTypes(new), new.state # "loaded", NEW cs \in Seq(SoundCall),
              SetUser(new, cs),
              Ordered(calls) => Ordered(cs),
              Told(calls, cookie, live) => Told(cs, cookie, live),
              Listed(calls, cookie, live, server) => Listed(cs, cookie, live, server),
              EditsFirst(calls) => EditsFirst(cs),
              Edited(calls, cookie, live, server) => Edited(cs, cookie, live, server)
       PROVE  Keeps /\ Shown' /\ Hidden' /\ Current'
  <2>1. user'.state # "loaded" /\ blogs'.state # "loaded"
    BY <1>1, <1>14, SetUserFacts
  <2>2. Keeps
    BY <1>1, <1>14, SetUserKeeps DEF Keeps
  <2> QED BY <1>13, <2>1, <2>2
<1>15. \A state \in {"loading", "error", "uninitialized"} :
         /\ UserTypes(UserIs(state)) /\ UserIs(state).state # "loaded"
         /\ BlogsAre(state).state # "loaded"
  BY LoadableTypes DEF States
<1>16. ASSUME NEW state \in {"loading", "error", "uninitialized"}, SetUser(UserIs(state), ds)
       PROVE  Keeps /\ Shown' /\ Hidden' /\ Current'
  BY <1>8, <1>10, <1>14, <1>15, <1>16
<1>17. Plain("whoami") \in SoundCall /\ Plain("whoami").answer = "none" /\ Plain("whoami").op \notin Edits
  BY <1>1, PlainSound DEF Edits
<1>18. CASE DeliverLogin(1)
  <2>1. CASE c.answer # "ok"
    <3>1. SetUser(UserIs("error"), ds)
      BY <1>18, <2>1 DEF DeliverLogin, ds
    <3> QED BY <1>16, <3>1
  <2>2. CASE c.answer = "ok" /\ c.op = "register"
    <3> DEFINE d == Call("login", c.who, NoBlog, NoBlog)
    <3>1. SetUser(UserIs("loading"), Append(ds, d))
      BY <1>18, <2>2 DEF DeliverLogin, Send, ds
    <3>2. c.who \in User
      BY <1>9, <2>2 DEF SoundCall, Sound
    <3>3. d \in SoundCall /\ d.answer = "none" /\ d.op = "login"
      BY <1>1, <3>2, FormCall
    <3>4. "login" \notin Edits
      BY DEF Edits
    <3> HIDE DEF d
    <3> QED BY <1>12, <1>14, <1>15, <3>1, <3>3, <3>4
  <2>3. CASE c.answer = "ok" /\ c.op # "register"
    <3>1. SetUser(UserIs("loading"), Append(ds, Plain("whoami")))
      BY <1>18, <2>3 DEF DeliverLogin, Send, ds
    <3> QED BY <1>12, <1>14, <1>15, <1>17, <3>1
  <2> QED BY <2>1, <2>2, <2>3
<1>19. CASE DeliverLogout(1)
  <2>1. SetUser(UserIs("uninitialized"), ds) \/ SetUser(UserIs("error"), ds)
    BY <1>19 DEF DeliverLogout, LoggedOut, ds
  <2> QED BY <1>16, <2>1
<1>20. CASE DeliverWhoami(1)
  <2>1. c.op = "whoami" /\ c.op \notin Changes
    BY <1>20 DEF DeliverWhoami, Answered, Changes
  <2>2. CASE c.answer = "ok"
    <3> DEFINE new == LoadedUser(c.data)
    <3>1. SetUser(new, ds)
      BY <1>20, <2>2 DEF DeliverWhoami, ds
    <3>2. c.data \in Account \ {NoUser}
      BY <1>9, <2>1, <2>2 DEF SoundCall, Sound
    <3>3. UserTypes(new) /\ new.state = "loaded" /\ new.who = c.data
      BY <3>2, LoadableTypes
    <3>4. Later(calls, 1) \/ (cookie = c.data /\ cookie \in live)
      BY <1>6, <1>7, <2>1, <2>2 DEF Told
    <3> HIDE DEF new
    <3>5. user' = new /\ (blogs' = blogs \/ blogs'.state # "loaded")
      BY <1>1, <3>1, <3>3, SetUserFacts
    <3>6. /\ Keeps /\ (SomeChange(ds) => SomeChange(calls')) /\ (NoEdit(ds) => NoEdit(calls'))
      BY <1>1, <1>8, <1>10, <3>1, <3>3, SetUserKeeps DEF Keeps
    <3> HIDE DEF c
    <3>7. Shown'
      BY <1>5, <1>10, <3>3, <3>4, <3>5, <3>6 DEF Shown
    <3>8. (Hidden => Hidden') /\ (Current => Current')
      BY <1>5, <1>10, <2>1, <3>5, <3>6 DEF Hidden, Current
    <3> QED BY <1>6, <3>6, <3>7, <3>8
  <2>3. CASE c.answer = "refused"
    <3>1. SetUser(UserIs("uninitialized"), ds)
      BY <1>20, <2>3 DEF DeliverWhoami, NotLoggedIn, ds
    <3> QED BY <1>16, <3>1
  <2>4. CASE c.answer = "error"
    <3>1. SetUser(UserIs("error"), ds)
      BY <1>20, <2>4 DEF DeliverWhoami, ds
    <3> QED BY <1>16, <3>1
  <2>5. CASE c.answer \notin {"ok", "refused", "error"}
    <3>1. calls' = ds /\ UNCHANGED <<user, blogs>>
      BY <1>20, <2>5 DEF DeliverWhoami, ds
    <3> HIDE DEF c
    <3>2. (Shown => Shown') /\ (Hidden => Hidden') /\ (Current => Current')
      BY <1>5, <1>10, <2>1, <3>1 DEF Shown, Hidden, Current
    <3> QED BY <1>6, <1>11, <3>1, <3>2
  <2> QED BY <2>2, <2>3, <2>4, <2>5
<1>21. CASE DeliverList(1)
  <2>1. /\ c.op = "list" /\ c.op \notin Changes /\ c.op # "whoami"
        /\ calls' = ds /\ user' = user
        /\ \/ c.answer = "ok" /\ blogs' = LoadedBlogs(c.data)
           \/ blogs' = BlogsAre("error")
    BY <1>21, Zenon DEF DeliverList, Answered, Changes, ds
  <2>2. c.answer = "ok" => c.data \in List
    BY <1>9, <2>1 DEF SoundCall, Sound
  <2>3. ~crossed /\ c.answer = "ok" => Later(calls, 1) \/ cookie \notin live \/ c.data = server[cookie]
    BY <1>6, <1>7, <2>1 DEF Listed
  <2>4. blogs'.state = "loaded" => c.answer = "ok" /\ blogs'.list = c.data
    BY <1>15, <2>1, <2>2, LoadableTypes
  <2> HIDE DEF c
  <2>5. Shown => Shown'
    BY <1>5, <1>10, <2>1 DEF Shown
  <2>6. ~crossed => Hidden'
    BY <1>6, <1>10, <2>1 DEF Hidden
  <2>7. ~crossed => Current'
    BY <1>5, <1>10, <2>1, <2>3, <2>4 DEF Current
  <2> QED BY <1>6, <1>11, <2>1, <2>5, <2>6, <2>7
<1>22. CASE DeliverEdit(1)
  <2>1. c.op \in Edits /\ c.op \notin Changes /\ c.op # "whoami"
    BY <1>22 DEF DeliverEdit, Answered, Edits, Changes
  <2>2. CASE c.answer = "ok" /\ page = "register"
    <3>1. /\ user' = UserIs("loading") /\ blogs' = BlogsAre("uninitialized")
          /\ calls' = Append(ds, Plain("whoami"))
      BY <1>22, <2>2 DEF DeliverEdit, Send, ds
    <3>2. Keeps
      BY <1>12, <1>17, <3>1 DEF Keeps
    <3> QED BY <1>13, <1>15, <3>1, <3>2
  <2>3. CASE ~(c.answer = "ok" /\ page = "register")
    <3>1. blogs' = LoadedBlogs(Amended(c)) /\ calls' = ds /\ user' = user
      BY <1>22, <2>3 DEF DeliverEdit, ds
    <3>2. Amended(c) \in List
      BY <1>9, <2>1, AmendedList
    <3>3. blogs'.list = Amended(c)
      BY <3>1, <3>2, LoadableTypes
    <3>4. ~crossed /\ ~diverged => Later(calls, 1) \/ cookie \notin live \/ Amended(c) = server[cookie]
      BY <1>6, <1>7, <2>1 DEF Edited
    <3> HIDE DEF c
    <3>5. Shown => Shown'
      BY <1>5, <1>10, <2>1, <3>1 DEF Shown
    <3>6. ~crossed => Hidden'
      BY <1>6, <1>10, <2>1, <3>1 DEF Hidden
    <3>7. ~crossed /\ ~diverged => Current'
      BY <1>5, <1>10, <2>1, <3>1, <3>3, <3>4 DEF Current
    <3> QED BY <1>6, <1>11, <3>1, <3>5, <3>6, <3>7
  <2> QED BY <2>2, <2>3
<1> QED BY <1>7, <1>18, <1>19, <1>20, <1>21, <1>22 DEF Deliver

-------------------------------------------------------------------------------
\* The page starts with one question: who is logged in?
LEMMA InitStore == Init => StoreInv
<1> SUFFICES ASSUME Init PROVE StoreInv
  OBVIOUS
<1>1. cookie \in Account /\ live \subseteq User /\ \A u \in live : u = cookie
  BY DEF Init, Account
<1>2. ServerTypes
  <2>1. server \in [User -> {NoBlogs, NoAccount}] /\ \A u \in live : server[u] # NoAccount
    BY DEF Init
  <2> QED BY <1>1, <2>1, NoBlogsList DEF ServerTypes
<1>3. user = UserIs("loading") /\ blogs = BlogsAre("uninitialized") /\ page = "login"
  BY DEF Init
<1>4. PageTypes /\ user.state # "loaded" /\ blogs.state # "loaded"
  BY <1>3, LoadableTypes DEF PageTypes, Home, States
<1>5. blogs.list \in List
  BY <1>4 DEF PageTypes
<1>6. Plain("whoami") \in SoundCall /\ Plain("whoami").op = "whoami" /\ Plain("whoami").answer = "none"
  BY <1>1, <1>5, PlainSound
<1>7. PICK c \in SoundCall : calls = <<c>> /\ c.op = "whoami" /\ c.answer = "none"
  BY <1>6 DEF Init
<1>8. calls \in Seq(SoundCall) /\ Len(calls) = 1 /\ calls[1] = c
  BY <1>7
<1>9. Bounded
  BY DEF Init, Bounded
<1>10. ~overtaken /\ ~crossed /\ ~diverged
  BY DEF Init
<1>11. \A k \in 1..Len(calls) : calls[k].op = "whoami" /\ calls[k].answer = "none"
  BY <1>7, <1>8
<1>12. ShownPart
  BY <1>4, <1>11 DEF ShownPart, Ordered, Told, Shown
<1>13. ListPart /\ EditPart
  <2>1. "whoami" \notin Edits
    BY DEF Edits
  <2> QED BY <1>4, <1>11, <2>1 DEF ListPart, EditPart, EditsFirst, Listed, Edited, Hidden, Current
<1> QED BY <1>2, <1>4, <1>8, <1>9, <1>12, <1>13 DEF StoreInv, StoreTypes

LEMMA StoreStep == StoreInv /\ [Next]_vars => StoreInv'
<1> SUFFICES ASSUME StoreInv, [Next]_vars PROVE StoreInv'
  OBVIOUS
<1>1. CASE ClickStep
  BY <1>1, ClickInv
<1>2. CASE \E i \in DOMAIN calls : Serve(i)
  BY <1>2, ServeInv
<1>3. CASE \E i \in DOMAIN calls : Lose(i)
  BY <1>3, LoseInv
<1>4. CASE \E i \in DOMAIN calls : Deliver(i)
  BY <1>4, DeliverInv
<1>5. CASE UNCHANGED vars
  <2>1. UNCHANGED <<page, user, blogs, calls, cookie, live, server, clicks, lost, overtaken, crossed, diverged>>
    BY <1>5 DEF vars, storeVars, serverVars, historyVars
  <2>2. StoreTypes' /\ ShownPart'
    BY <2>1 DEF StoreInv, StoreTypes, PageTypes, ServerTypes, Bounded, ShownPart, Shown
  <2>3. ListPart' /\ EditPart'
    BY <2>1 DEF StoreInv, ListPart, EditPart, Hidden, Current
  <2> QED BY <2>2, <2>3 DEF StoreInv
<1>6. CASE Next
  <2>1. \/ ClickStep
        \/ \E i \in DOMAIN calls : Serve(i)
        \/ \E i \in DOMAIN calls : Lose(i)
        \/ \E i \in DOMAIN calls : Deliver(i)
    BY <1>6, Zenon DEF Next, ClickStep, Save, Delete
  <2> QED BY <1>1, <1>2, <1>3, <1>4, <2>1
<1> QED BY <1>5, <1>6

\* The inductive invariant of the admin UI: what is shown, and what every answer
\* on its way will show, agrees with the server as far as the histories allow.
THEOREM StoreInvariant == Spec => []StoreInv
<1> QED BY InitStore, StoreStep, PTL DEF Spec

\* Every variable of the UI has its type, and the views behind the login are
\* shown to a loaded user only (router.ts, the watchers of Home and Login).
THEOREM UITypes == Spec => []TypeOK
<1>1. StoreInv => TypeOK
  <2> SUFFICES ASSUME StoreInv PROVE TypeOK
    OBVIOUS
  <2>1. PageTypes /\ ServerTypes /\ Bounded /\ calls \in Seq(SoundCall)
    BY DEF StoreInv, StoreTypes
  <2>2. \A i \in DOMAIN calls : calls[i].op \in Ops
    BY <2>1 DEF SoundCall, CallRecord
  <2>3. \A i \in DOMAIN calls : calls[i].op \in Edits \union {"login", "register", "logout", "whoami", "list"}
    BY <2>2 DEF Ops, Changes
  <2> QED BY <2>1, <2>3 DEF TypeOK, PageTypes, UserTypes, ServerTypes, Bounded, Account
<1> QED BY <1>1, StoreInvariant, PTL

\* A login or logout is under way exactly when some call of the sequence is one.
LEMMA ChangeIsSome == StoreInv /\ SomeChange(calls) => Changing
<1> SUFFICES ASSUME StoreInv, NEW i \in 1..Len(calls), calls[i].op \in Changes PROVE Changing
  BY DEF SomeChange
<1>1. i \in DOMAIN calls
  BY DEF StoreInv, StoreTypes
<1> QED BY <1>1 DEF Changing, Changes

\* While calls are answered and their answers handled in order, and no login or
\* logout is under way, the user the UI shows is the one whose live session the
\* browser has, whatever the whoamis of checkLogin have said in between.
THEOREM ShownIsLoggedInTheorem == Spec => []ShownIsLoggedIn
<1>1. StoreInv => ShownIsLoggedIn
  BY ChangeIsSome DEF StoreInv, ShownPart, Shown, ShownIsLoggedIn
<1> QED BY <1>1, StoreInvariant, PTL

\* The list of blogs that the UI shows, with its local edits and their roll-backs
\* (editBlogsHelper), is the server's as long as no call overtakes another, no
\* edit crosses another call and no error hides what the server did.
THEOREM ListIsServersTheorem == Spec => []ListIsServers
<1>1. StoreInv => ListIsServers
  <2> SUFFICES ASSUME StoreInv, ~overtaken, ~crossed, ~diverged, user.state = "loaded",
                      blogs.state = "loaded", ~Changing
               PROVE  blogs.list = server[user.who]
    BY DEF ListIsServers
  <2>1. ~SomeChange(calls)
    BY ChangeIsSome
  <2>2. cookie = user.who /\ cookie \in live
    BY <2>1 DEF StoreInv, ShownPart, Shown
  <2> QED BY <2>1, <2>2 DEF StoreInv, EditPart, Current
<1> QED BY <1>1, StoreInvariant, PTL
===============================================================================
