------------------------------- MODULE WorkQueue -------------------------------
(***************************************************************************)
(* What the Queue interface promises (src/server/pkg/workqueue/            *)
(* workqueue.go), shared by the Redis and the in-memory queue: jobs wait   *)
(* in order, "Gets a job from the queue and reserves it", and a reserved   *)
(* job leaves the queue when a worker finishes it, or goes back to wait.   *)
(* Nothing else makes a job disappear.                                     *)
(***************************************************************************)
EXTENDS Integers, Sequences, FiniteSets

CONSTANTS
  Job, Worker, NoJob,
  Exclusive,  \* is a job never put back while a worker runs it?
  Lossy       \* may workers and replies to them get lost?

VARIABLES
  queue,  \* the waiting jobs, next one first
  out,    \* the reserved jobs
  held,   \* held[w]: the job worker w runs, or NoJob
  used    \* the jobs posted so far

vars == <<queue, out, held, used>>

Init ==
  /\ queue = << >> /\ out = {}
  /\ held = [w \in Worker |-> NoJob]
  /\ used = {}

Post(j) ==
  /\ j \notin used
  /\ queue' = Append(queue, j)
  /\ used' = used \union {j}
  /\ UNCHANGED <<out, held>>

Reserve ==
  /\ queue # << >>
  /\ queue' = Tail(queue)
  /\ out' = out \union {Head(queue)}
  /\ UNCHANGED used

Pick(w) ==
  /\ held[w] = NoJob
  /\ Reserve
  /\ held' = [held EXCEPT ![w] = Head(queue)]

\* The picker never hears of the job it reserved.
PickLost == Lossy /\ Reserve /\ UNCHANGED held

\* The job is no longer reserved, unless it went back meanwhile and another
\* worker is just taking it.
Finish(w) ==
  /\ held[w] # NoJob
  /\ \/ out' = out \ {held[w]}
     \/ (\E v \in Worker \ {w} : held[v] = held[w]) /\ UNCHANGED out
  /\ held' = [held EXCEPT ![w] = NoJob]
  /\ UNCHANGED <<queue, used>>

\* The worker stops working on its job without finishing it.
Abandon(w) ==
  /\ Lossy
  /\ held[w] # NoJob
  /\ held' = [held EXCEPT ![w] = NoJob]
  /\ UNCHANGED <<queue, out, used>>

\* Reserved jobs whose time to run is over wait again, behind the others.
PutBack(S) ==
  /\ S # {}
  /\ Exclusive => \A w \in Worker : held[w] \notin S
  /\ out' = out \ S
  /\ \E order \in [1..Cardinality(S) -> S] :
       /\ {order[i] : i \in DOMAIN order} = S
       /\ queue' = queue \o order
  /\ UNCHANGED <<held, used>>

Clear ==
  /\ queue' = << >> /\ out' = {}
  /\ UNCHANGED <<held, used>>

Next ==
  \/ \E j \in Job : Post(j)
  \/ \E w \in Worker : Pick(w) \/ Finish(w) \/ Abandon(w)
  \/ PickLost \/ Clear
  \/ \E S \in SUBSET out : PutBack(S)

Spec == Init /\ [][Next]_vars
===============================================================================
