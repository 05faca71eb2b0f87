------------------------------ MODULE MemoryQueue ------------------------------
(***************************************************************************)
(* The in-process job queue of the omnibus binary                          *)
(* (src/server/pkg/workqueue/memoryworkqueue.go): a buffered channel of    *)
(* waiting jobs and a map, under a mutex, of the reserved ones.  Posters,  *)
(* workers and the groomer are goroutines of one process, so nothing is    *)
(* lost on the way and nobody crashes alone; a worker may be late.         *)
(*                                                                         *)
(* reserveEntry and Finish hold the mutex without blocking and are one     *)
(* action each.  groom holds it over blocking sends and is split there.    *)
(***************************************************************************)
EXTENDS Integers, Sequences, FiniteSets

CONSTANTS
  Worker,
  Capacity,   \* MemoryMaxPendingJobs
  TTR,        \* the time to run of every job, in clock units
  MaxPosts,   \* bound: calls of Post
  NoJob       \* "no job"

Job == 1..MaxPosts

\* What the map stores of a job is its age, the time since m.started; above
\* TTR all ages are alike.
NotReserved == -1
Age == NotReserved..(TTR + 1)

ASSUME MemoryAssumption ==
  /\ Capacity \in Nat \ {0} /\ TTR \in Nat /\ MaxPosts \in Nat
  /\ NoJob \notin Job

VARIABLES
  lastID,     \* the id counter
  channel,    \* pendingChan
  metadata,   \* metadata[j]: the age of reserved job j, or NotReserved
  at,         \* at[w]: where worker w is between Pick and Finish
  holding,    \* holding[w]: the job w received, or NoJob
  expired,    \* jobs the running groom has still to put back
  sending,    \* the job that groom is sending to the channel, or NoJob
  posted,     \* history: jobs a Post accepted
  finished    \* history: jobs some worker finished

workerVars == <<at, holding>>
groomVars == <<expired, sending>>
vars == <<lastID, channel, metadata, at, holding, expired, sending, posted, finished>>

Init ==
  /\ lastID = 0 /\ channel = << >>
  /\ metadata = [j \in Job |-> NotReserved]
  /\ at = [w \in Worker |-> "idle"]
  /\ holding = [w \in Worker |-> NoJob]
  /\ expired = {} /\ sending = NoJob
  /\ posted = {} /\ finished = {}

-------------------------------------------------------------------------------
\* groom keeps the mutex until all expired jobs are back in the channel.
MutexFree == expired = {} /\ sending = NoJob

Full == Len(channel) >= Capacity

\* Mutant of Post: the channel grows instead of refusing the job.
PostUnbounded ==
  /\ lastID < MaxPosts
  /\ lastID' = lastID + 1
  /\ channel' = Append(channel, lastID + 1)
  /\ posted' = posted \union {lastID + 1}
  /\ UNCHANGED <<metadata, workerVars, groomVars, finished>>

\* Post never blocks: the id is used up even when the queue is full.
Post ==
  /\ lastID < MaxPosts
  /\ lastID' = lastID + 1
  /\ IF Full
     THEN UNCHANGED <<channel, posted>>
     ELSE /\ channel' = Append(channel, lastID + 1)
          /\ posted' = posted \union {lastID + 1}
  /\ UNCHANGED <<metadata, workerVars, groomVars, finished>>

\* Mutant of Receive: Pick looks at its timer after the receive.
ReceiveTimesOut(w) ==
  /\ at[w] = "idle" /\ channel # << >>
  /\ channel' = Tail(channel)
  /\ \/ /\ at' = [at EXCEPT ![w] = "received"]
        /\ holding' = [holding EXCEPT ![w] = Head(channel)]
     \/ UNCHANGED workerVars
  /\ UNCHANGED <<lastID, metadata, groomVars, posted, finished>>

\* Pick receives from the channel; reserveEntry comes later.
Receive(w) ==
  /\ at[w] = "idle" /\ channel # << >>
  /\ channel' = Tail(channel)
  /\ at' = [at EXCEPT ![w] = "received"]
  /\ holding' = [holding EXCEPT ![w] = Head(channel)]
  /\ UNCHANGED <<lastID, metadata, groomVars, posted, finished>>

ReserveEntry(w) ==
  /\ at[w] = "received" /\ MutexFree
  /\ metadata' = [metadata EXCEPT ![holding[w]] = 0]
  /\ at' = [at EXCEPT ![w] = "running"]
  /\ UNCHANGED <<lastID, channel, holding, groomVars, posted, finished>>

\* Mutant of Finish: the map keeps the entry.
FinishKeepsEntry(w) ==
  /\ at[w] = "running" /\ MutexFree
  /\ finished' = finished \union {holding[w]}
  /\ at' = [at EXCEPT ![w] = "idle"]
  /\ holding' = [holding EXCEPT ![w] = NoJob]
  /\ UNCHANGED <<lastID, channel, metadata, groomVars, posted>>

Finish(w) ==
  /\ at[w] = "running" /\ MutexFree
  /\ metadata' = [metadata EXCEPT ![holding[w]] = NotReserved]
  /\ finished' = finished \union {holding[w]}
  /\ at' = [at EXCEPT ![w] = "idle"]
  /\ holding' = [holding EXCEPT ![w] = NoJob]
  /\ UNCHANGED <<lastID, channel, groomVars, posted>>

Overdue(j) == metadata[j] > TTR

\* groom locks the mutex and reads the clock.
GroomStart ==
  /\ MutexFree
  /\ expired' = {j \in Job : Overdue(j)}
  /\ UNCHANGED <<lastID, channel, metadata, workerVars, sending, posted, finished>>

\* Mutant of GroomDelete: the delete is missing.
GroomWithoutDelete(j) ==
  /\ sending = NoJob
  /\ expired' = expired \ {j}
  /\ sending' = j
  /\ UNCHANGED <<lastID, channel, metadata, workerVars, posted, finished>>

\* The range over the map goes in any order; delete, then a blocking send.
GroomDelete(j) ==
  /\ sending = NoJob
  /\ metadata' = [metadata EXCEPT ![j] = NotReserved]
  /\ expired' = expired \ {j}
  /\ sending' = j
  /\ UNCHANGED <<lastID, channel, workerVars, posted, finished>>

\* Mutant of GroomSend: a select with a default case.
GroomSendOrDrop ==
  /\ sending # NoJob
  /\ channel' = IF Full THEN channel ELSE Append(channel, sending)
  /\ sending' = NoJob
  /\ UNCHANGED <<lastID, metadata, workerVars, expired, posted, finished>>

GroomSend ==
  /\ sending # NoJob /\ ~Full
  /\ channel' = Append(channel, sending)
  /\ sending' = NoJob
  /\ UNCHANGED <<lastID, metadata, workerVars, expired, posted, finished>>

Tick ==
  /\ metadata' = [j \in Job |-> IF metadata[j] \in {NotReserved, TTR + 1}
                                THEN metadata[j] ELSE metadata[j] + 1]
  /\ UNCHANGED <<lastID, channel, workerVars, groomVars, posted, finished>>

Next ==
  \/ Post
  \/ \E w \in Worker : Receive(w) \/ ReserveEntry(w) \/ Finish(w)
  \/ GroomStart \/ (\E j \in expired : GroomDelete(j)) \/ GroomSend
  \/ Tick

Spec == Init /\ [][Next]_vars

\* Goroutines that can run do: the workers loop, a locked mutex is passed on in
\* order, the groom ticker fires and time passes.
Fairness ==
  /\ \A w \in Worker : /\ WF_vars(Receive(w))
                       /\ SF_vars(ReserveEntry(w)) /\ SF_vars(Finish(w))
  /\ WF_vars(GroomStart) /\ WF_vars(\E j \in expired : GroomDelete(j))
  /\ WF_vars(GroomSend) /\ WF_vars(Tick)

FairSpec == Spec /\ Fairness

-------------------------------------------------------------------------------
\* Every variable has its type; the channel never exceeds its buffer.
TypeOK ==
  /\ lastID \in 0..MaxPosts
  /\ channel \in Seq(Job) /\ Len(channel) <= Capacity
  /\ metadata \in [Job -> Age]
  /\ at \in [Worker -> {"idle", "received", "running"}]
  /\ holding \in [Worker -> Job \union {NoJob}]
  /\ \A w \in Worker : at[w] = "idle" <=> holding[w] = NoJob
  /\ expired \subseteq Job /\ sending \in Job \union {NoJob}
  /\ posted \subseteq Job /\ finished \subseteq Job

Received == {holding[w] : w \in {v \in Worker : at[v] = "received"}}
Reserved == {j \in Job : metadata[j] # NotReserved}
Waiting == {channel[i] : i \in DOMAIN channel}
InGroom == {sending} \ {NoJob}

\* The entry of a job is in one place at a time: the channel, a worker between
\* the receive and reserveEntry, the map, or the groomer's hand.
OnePlace ==
  /\ \A i, k \in DOMAIN channel : channel[i] = channel[k] => i = k
  /\ \A v, w \in Worker : at[v] = "received" /\ at[w] = "received"
                          /\ holding[v] = holding[w] => v = w
  /\ Waiting \intersect (Received \union Reserved \union InGroom) = {}
  /\ Received \intersect (Reserved \union InGroom) = {}
  /\ Reserved \intersect InGroom = {}

\* A job that Post accepted is somewhere until a worker finishes it.
NothingLost == posted \subseteq Waiting \union Received \union Reserved \union InGroom \union finished

\* groom blocks on a full channel with the mutex in hand, and nobody is left to
\* receive: every worker waits for that mutex.
Wedged == sending # NoJob /\ Full /\ \A w \in Worker : at[w] # "idle"

\* Unless that happens, every accepted job is finished at least once.
EventuallyFinished ==
  []~Wedged => \A j \in Job : j \in posted ~> j \in finished

\* "Job took too long to run, put it back in the ready queue"
\* (memoryworkqueue.go): what groom takes out of the map gets to the channel.
PutBackEnds == \A j \in Job : sending = j ~> j \in Waiting \union finished

\* The queue the jobs' users see (module WorkQueue).
WQ == INSTANCE WorkQueue WITH
        Exclusive <- FALSE,
        Lossy <- FALSE,
        queue <- channel,
        out <- Received \union Reserved \union InGroom,
        held <- holding,
        used <- posted

\* Posting, picking, finishing and grooming are steps of the work queue.
ImplementsWorkQueue == WQ!Spec
===============================================================================
