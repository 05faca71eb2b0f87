------------------------------- MODULE GitServer -------------------------------
(***************************************************************************)
(* The git server (src/server/pkg/gitserver/server.go) and one repository  *)
(* on the disk that its replicas share (src/deployment/base/gitserver.yml).*)
(* A request of the blog's owner checks that the blog exists, initialises  *)
(* the repository when there is no directory yet, and runs git; a push     *)
(* then posts a render job.  Each system call is a step of its own; git    *)
(* init and RemoveAll take effect when they end.                           *)
(***************************************************************************)
EXTENDS Integers

CONSTANTS
  Request,
  MaxPushes,  \* bound: pushes that git accepts
  MaxFaults   \* bound: git or queue failures, cancelled requests, crashes

ASSUME GitAssumption == MaxPushes \in Nat /\ MaxFaults \in Nat

VARIABLES
  blog,     \* does the admin server list the blog?
  dir,      \* the directory of the repository
  head,     \* the last push in the repository, 0 when it is empty or absent
  pushes,   \* pushes accepted so far
  posted,   \* the newest push that the worker of a posted job will see
  at,       \* at[r]: what request r does next
  kind,     \* kind[r]: what r asks git for
  faults,   \* faults so far
  crashed   \* history: was one of them a crash?

vars == <<blog, dir, head, pushes, posted, at, kind, faults, crashed>>

Kind == {"read", "push"}  \* info/refs and upload-pack, receive-pack

Init ==
  /\ blog \in BOOLEAN /\ dir = "absent"
  /\ head = 0 /\ pushes = 0 /\ posted = 0
  /\ at = [r \in Request |-> "idle"]
  /\ kind = [r \in Request |-> "read"]
  /\ faults = 0 /\ crashed = FALSE

Goes(r, place) == at' = [at EXCEPT ![r] = place]
Fault == faults < MaxFaults /\ faults' = faults + 1

-------------------------------------------------------------------------------
\* The owner adds or deletes the blog at the admin server; the repository stays.
EditBlogs == blog' = ~blog /\ UNCHANGED <<dir, head, pushes, posted, at, kind, faults, crashed>>

\* withValidRepository has seen the session and the list of blogs.
Arrive(r, k) ==
  /\ at[r] = "idle" /\ blog
  /\ Goes(r, "stat") /\ kind' = [kind EXCEPT ![r] = k]
  /\ UNCHANGED <<blog, dir, head, pushes, posted, faults, crashed>>

\* Mutant of IsDir: the path that is looked at never exists.
IsDirNever == FALSE
IsDir == dir # "absent"

\* ensureRepository asks whether the directory exists, not whether git init has
\* finished in it.
Stat(r) ==
  /\ at[r] = "stat"
  /\ Goes(r, IF IsDir THEN "serve" ELSE "mkdir")
  /\ UNCHANGED <<blog, dir, head, pushes, posted, kind, faults, crashed>>

\* Mutant of MadeDir: the directory is made anew.
MadeDirAnew == "empty"
MadeDir == IF dir = "absent" THEN "empty" ELSE dir

Mkdir(r) ==
  /\ at[r] = "mkdir"
  /\ dir' = MadeDir
  /\ Goes(r, "init")
  /\ UNCHANGED <<blog, head, pushes, posted, kind, faults, crashed>>

\* git init makes the directory if need be, and leaves a finished repository
\* as it is.
InitDone(r) ==
  /\ at[r] = "init"
  /\ dir' = "ready"
  /\ Goes(r, "serve")
  /\ UNCHANGED <<blog, head, pushes, posted, kind, faults, crashed>>

\* Mutant of AfterFailure: the deferred function looks at another err.
AfterFailureShadowed == "idle"
AfterFailure == "cleanup"

\* The client goes away, which kills git, or two git init are in each other's
\* way.
InitFails(r) ==
  /\ at[r] = "init" /\ Fault
  /\ Goes(r, AfterFailure)
  /\ UNCHANGED <<blog, dir, head, pushes, posted, kind, crashed>>

\* os.RemoveAll
Cleanup(r) ==
  /\ at[r] = "cleanup"
  /\ dir' = "absent" /\ head' = 0
  /\ Goes(r, "idle")
  /\ UNCHANGED <<blog, pushes, posted, kind, faults, crashed>>

\* Mutant of AfterGit: the names of the services are swapped.
AfterGitSwapped(k) == IF k = "read" THEN "post" ELSE "idle"
AfterGit(k) == IF k = "push" THEN "post" ELSE "idle"

\* git answers; a push whose refs are refused is a success, too.
Serve(r) ==
  /\ at[r] = "serve" /\ dir = "ready"
  /\ Goes(r, AfterGit(kind[r]))
  /\ UNCHANGED <<blog, dir, head, pushes, posted, kind, faults, crashed>>

Accept(r) ==
  /\ at[r] = "serve" /\ kind[r] = "push" /\ dir = "ready" /\ pushes < MaxPushes
  /\ pushes' = pushes + 1 /\ head' = pushes + 1
  /\ UNCHANGED <<blog, dir, posted, kind, crashed>>

Push(r) == Accept(r) /\ Goes(r, AfterGit("push")) /\ UNCHANGED faults

\* The refs have moved, and then git fails or its client goes away.
PushCut(r) == Accept(r) /\ Goes(r, "idle") /\ Fault

\* git finds no repository in the directory.
ServeFails(r) ==
  /\ at[r] = "serve" /\ dir # "ready"
  /\ Goes(r, "idle")
  /\ UNCHANGED <<blog, dir, head, pushes, posted, kind, faults, crashed>>

\* The job names the repository only: its worker clones what is there then.
Post(r) ==
  /\ at[r] = "post"
  /\ posted' = head
  /\ Goes(r, "idle")
  /\ UNCHANGED <<blog, dir, head, pushes, kind, faults, crashed>>

\* A failed Post is logged.
PostFails(r) ==
  /\ at[r] = "post" /\ Fault
  /\ Goes(r, "idle")
  /\ UNCHANGED <<blog, dir, head, pushes, posted, kind, crashed>>

\* The process that serves r ends; the disk stays as it is.
Crash(r) ==
  /\ at[r] # "idle" /\ Fault
  /\ Goes(r, "idle") /\ crashed' = TRUE
  /\ UNCHANGED <<blog, dir, head, pushes, posted, kind>>

Step(r) ==
  \/ Stat(r) \/ Mkdir(r) \/ InitDone(r) \/ Cleanup(r)
  \/ Serve(r) \/ Push(r) \/ ServeFails(r) \/ Post(r)

Next ==
  \/ EditBlogs
  \/ \E r \in Request :
       \/ \E k \in Kind : Arrive(r, k)
       \/ Step(r)
       \/ InitFails(r) \/ PushCut(r) \/ PostFails(r) \/ Crash(r)

Spec == Init /\ [][Next]_vars

\* A handler that can go on does.
FairSpec == Spec /\ \A r \in Request : WF_vars(Step(r))

-------------------------------------------------------------------------------
\* Every variable has its type.
TypeOK ==
  /\ blog \in BOOLEAN /\ dir \in {"absent", "empty", "ready"}
  /\ pushes \in 0..MaxPushes /\ head \in 0..pushes /\ posted \in 0..pushes
  /\ at \in [Request -> {"idle", "stat", "mkdir", "init", "cleanup", "serve", "post"}]
  /\ kind \in [Request -> Kind]
  /\ faults \in 0..MaxFaults /\ crashed \in BOOLEAN
  /\ head # 0 => dir = "ready"

Initialising(r) == at[r] \in {"mkdir", "init", "cleanup"}
Settled == dir = "ready" /\ \A r \in Request : ~Initialising(r)

\* "We init the repository lazily on first access" (server.go): when those who
\* found no directory are done and the repository is there, no failure and no
\* crash takes a pushed commit away any more.
SettledStays == \A v \in 0..MaxPushes : [](Settled /\ head = v => [](dir = "ready" /\ head >= v))

\* Without faults every push is followed by a render job that sees it.
EveryPushPosted ==
  faults = 0 => posted = head \/ \E r \in Request : at[r] = "post"

\* An initialisation that fails leaves nothing behind that ensureRepository
\* would take for a repository, unless the process died.
NoHalfRepository == dir = "empty" ~> dir # "empty" \/ crashed

\* The safety behind it: a directory that is no repository yet has a request
\* that will finish or remove it, unless the process died.
HalfHasOwner == dir = "empty" => crashed \/ \E r \in Request : at[r] \in {"init", "cleanup"}

\* A commit that was pushed is there for those who come later
\* (gitserver_test.go: "Unexpected remote HEAD").
PushedStays == [][head' >= head]_vars
===============================================================================
