---------------------------- MODULE RenderPipeline ----------------------------
(***************************************************************************)
(* From a push to the HTML pages of the blog: the render jobs that the git *)
(* server posts, the work queue (module WorkQueue) and the workers         *)
(* (src/server/pkg/worker/worker.go, renderworker.go).  A worker checks    *)
(* the session of its job at the admin server, clones the blog, renders it *)
(* in a directory of its own and uploads one page after the other.  There  *)
(* are several workers (src/deployment/base/worker.yml) and one blog.      *)
(***************************************************************************)
EXTENDS Integers, Sequences, FiniteSets, FiniteSetsExt

CONSTANTS
  Worker,
  MaxPushes,  \* bound: pushes
  Pages,      \* Pages[v]: the pages of the blog as of push v
  NoJob,
  MaxFaults   \* bound: failures, crashes and late workers

Version == 1..MaxPushes
Page == UNION {Pages[v] : v \in Version}

ASSUME PipelineAssumption ==
  /\ MaxPushes \in Nat \ {0} /\ MaxFaults \in Nat
  /\ \A v \in Version : Pages[v] # {} /\ Pages[v] \subseteq Nat
  /\ NoJob \notin Version

VARIABLES
  queue, out, held, used,  \* the work queue; the job of push v is v
  head,      \* the last push in the repository
  session,   \* is the session that the pushes carried alive?
  at,        \* at[w]: what worker w does next
  source,    \* source[w]: the push in w's clone, 0 for none
  todo,      \* todo[w]: the pages w has still to upload
  output,    \* output[p]: the push whose page p is on the site, 0 for none
  faults,    \* faults so far
  rendered,  \* history: the newest push whose render was uploaded to the end
  failed,    \* history: jobs whose render ended with an error
  alone      \* history: alone[w]: has nobody rendered while w did?

queueVars == <<queue, out, held, used>>
workVars == <<at, source, todo>>
vars == <<queueVars, head, session, workVars, output, faults, rendered, failed, alone>>

Q == INSTANCE WorkQueue WITH Job <- Version, Exclusive <- FALSE, Lossy <- TRUE

Init ==
  /\ Q!Init
  /\ head = 0 /\ session = TRUE
  /\ at = [w \in Worker |-> "idle"]
  /\ source = [w \in Worker |-> 0]
  /\ todo = [w \in Worker |-> {}]
  /\ output = [p \in Page |-> 0]
  /\ faults = 0 /\ rendered = 0 /\ failed = {}
  /\ alone = [w \in Worker |-> TRUE]

Goes(w, place) == at' = [at EXCEPT ![w] = place]
Fault == faults < MaxFaults /\ faults' = faults + 1

-------------------------------------------------------------------------------
\* The git server accepts a push and posts its job.
Push ==
  /\ session /\ head < MaxPushes
  /\ head' = head + 1
  /\ Q!Post(head + 1)
  /\ UNCHANGED <<session, workVars, output, faults, rendered, failed, alone>>

\* The owner logs out, or the session expires.
EndSession ==
  /\ session /\ session' = FALSE
  /\ UNCHANGED <<queueVars, head, workVars, output, faults, rendered, failed, alone>>

\* consumeOneJob picks a job and clears the directory: no clone is left.
Pick(w) ==
  /\ at[w] = "idle"
  /\ Q!Pick(w)
  /\ Goes(w, "refresh")
  /\ source' = [source EXCEPT ![w] = 0]
  /\ UNCHANGED <<todo, head, session, output, faults, rendered, failed, alone>>

\* The admin server refreshes the session and returns the blog.
Refresh(w) ==
  /\ at[w] = "refresh" /\ session
  /\ Goes(w, "clone")
  /\ UNCHANGED <<queueVars, head, session, source, todo, output, faults, rendered, failed, alone>>

\* Mutants of Cloned: the worker takes the push that the job was posted for, or
\* the clone of the last render.
ClonedAtJob(w) == held[w]
ClonedFromCache(w) == IF rendered = 0 THEN head ELSE rendered
\* git clone takes what the repository holds now.
Cloned(w) == head

\* Mutant of Rendered: Hugo leaves nothing and nobody notices.
RenderedNothing(v) == {}
\* The pages that the walk over Hugo's result finds.
Rendered(v) == Pages[v]

Rendering(w) == at[w] \in {"upload", "done"}

\* Clone, theme, configuration and Hugo: nobody else sees them.
Clone(w) ==
  /\ at[w] = "clone" /\ session
  /\ source' = [source EXCEPT ![w] = Cloned(w)]
  /\ todo' = [todo EXCEPT ![w] = Rendered(Cloned(w))]
  /\ Goes(w, "upload")
  /\ LET others == {v \in Worker \ {w} : Rendering(v)}
     IN  alone' = [v \in Worker |-> IF v = w THEN others = {}
                                    ELSE alone[v] /\ v \notin others]
  /\ UNCHANGED <<queueVars, head, session, output, faults, rendered, failed>>

\* Mutant of Remaining: the walk ends with the first page.
RemainingNone(w, p) == {}
Remaining(w, p) == todo[w] \ {p}

\* The walk goes over the pages in lexical order.  Pages of older versions that
\* are gone in this one stay on the site.
Upload(w) ==
  /\ at[w] = "upload"
  /\ LET p == Min(todo[w]) IN
     /\ output' = [output EXCEPT ![p] = source[w]]
     /\ todo' = [todo EXCEPT ![w] = Remaining(w, p)]
     /\ IF Remaining(w, p) # {} THEN UNCHANGED <<at, rendered>>
        ELSE /\ Goes(w, "done")
             /\ rendered' = IF source[w] > rendered THEN source[w] ELSE rendered
  /\ UNCHANGED <<queueVars, head, session, source, faults, failed, alone>>

GivesUp(w) ==
  /\ Goes(w, "failed")
  /\ failed' = failed \union {held[w]}
  /\ todo' = [todo EXCEPT ![w] = {}]
  /\ UNCHANGED <<queueVars, head, session, source, output, rendered, alone>>

\* The admin server and the git server turn a dead session away.
TurnedAway(w) == at[w] \in {"refresh", "clone"} /\ ~session /\ GivesUp(w) /\ UNCHANGED faults

\* Any other error ends the render, too.
Fails(w) == at[w] \in {"refresh", "clone", "upload"} /\ Fault /\ GivesUp(w)

\* Mutant of Acknowledged: a worker gives its job back at the first step.
AcknowledgedEarly(w) == at[w] \in {"refresh", "done", "failed"}

\* The deferred Finish runs after a success and after an error.
Acknowledged(w) == at[w] \in {"done", "failed"}

Finish(w) ==
  /\ Acknowledged(w)
  /\ Q!Finish(w)
  /\ Goes(w, "idle")
  /\ UNCHANGED <<source, todo, head, session, output, faults, rendered, failed, alone>>

\* A worker dies, or its Finish gets lost: the job stays reserved.
Abandon(w) ==
  /\ Fault
  /\ Q!Abandon(w)
  /\ Goes(w, "idle")
  /\ todo' = [todo EXCEPT ![w] = {}]
  /\ UNCHANGED <<source, head, session, output, rendered, failed, alone>>

\* The time to run of a job is over, which counts as a fault while a worker
\* still runs it.
PutBack(j) ==
  /\ Q!PutBack({j})
  /\ IF \E w \in Worker : held[w] = j THEN Fault ELSE UNCHANGED faults
  /\ UNCHANGED <<head, session, workVars, output, rendered, failed, alone>>

WorkerStep(w) ==
  Pick(w) \/ Refresh(w) \/ Clone(w) \/ Upload(w) \/ TurnedAway(w) \/ Finish(w)

Next ==
  \/ Push \/ EndSession
  \/ \E w \in Worker : WorkerStep(w) \/ Fails(w) \/ Abandon(w)
  \/ \E j \in out : PutBack(j)

Spec == Init /\ [][Next]_vars

\* A worker goes on with its job, and a job whose worker is gone is groomed.
Fairness ==
  /\ \A w \in Worker : WF_vars(WorkerStep(w))
  /\ \A j \in Version : WF_vars(j \in out /\ (\A w \in Worker : held[w] # j) /\ PutBack(j))

FairSpec == Spec /\ Fairness

-------------------------------------------------------------------------------
\* Every variable has its type.
TypeOK ==
  /\ queue \in Seq(Version) /\ out \subseteq Version /\ used = 1..head
  /\ held \in [Worker -> Version \union {NoJob}]
  /\ head \in 0..MaxPushes /\ session \in BOOLEAN
  /\ at \in [Worker -> {"idle", "refresh", "clone", "upload", "done", "failed"}]
  /\ source \in [Worker -> 0..head] /\ todo \in [Worker -> SUBSET Page]
  /\ output \in [Page -> 0..head]
  /\ faults \in 0..MaxFaults /\ rendered \in 0..head /\ failed \subseteq Version
  /\ alone \in [Worker -> BOOLEAN]
  /\ \A w \in Worker : /\ at[w] = "idle" <=> held[w] = NoJob
                       /\ at[w] = "upload" <=> todo[w] # {}

\* What a worker uploads is at least as new as the push its job was posted for:
\* a job in the queue is never too old to cover its push.
FreshEnough == \A w \in Worker : Rendering(w) => source[w] >= held[w]

\* A worker that nobody rendered beside leaves all pages of one version on the
\* site, whatever earlier renders left half-way.
WholeSite ==
  \A w \in Worker : at[w] = "done" /\ alone[w] => \A p \in Pages[source[w]] : output[p] = source[w]

\* A page goes back to an older version only where two workers upload at the
\* same time.
NoStepBack ==
  [][\A p \in Page : output'[p] < output[p] => \E w \in Worker : at[w] = "upload" /\ ~alone[w]]_vars

\* Every push gets to the site, by its own job or a later one, although workers
\* die and are late, unless the job's render fails: it is not tried again.
EventuallyRendered == \A v \in Version : v \in used ~> rendered >= v \/ v \in failed
===============================================================================
