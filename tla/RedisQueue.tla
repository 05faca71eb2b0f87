------------------------------ MODULE RedisQueue ------------------------------
(***************************************************************************)
(* The job queue kept in Redis (src/server/pkg/workqueue/redis.go), with   *)
(* the processes that use it: git servers post render jobs, workers pick   *)
(* and finish them, and every process that holds a RedisQueue grooms the   *)
(* reserved list when it believes to be the master of the "jobs" lock.     *)
(*                                                                         *)
(* Every Redis command or script is atomic and is one action.  The network *)
(* between a process and Redis may lose a request or its reply, and a      *)
(* worker may crash; MaxFaults bounds how often that happens.  Grooming is *)
(* safe whoever runs it, so the lock (module DistLock) is left out here:   *)
(* Groom may be taken by anybody at any time.                              *)
(***************************************************************************)
EXTENDS Lists, FiniteSets

CONSTANTS
  Poster,        \* processes that post jobs
  Worker,        \* worker processes
  MaxPosts,      \* bound: ids each poster draws
  TTR,           \* the time to run of every job, in clock units
  MaxFaults,     \* bound: lost requests, lost replies and crashes, together
  Punctual,      \* does a worker always finish its job before the TTR is over?
  NoJob,         \* "this worker has no job"
  FinishedMark,  \* the string 'finished' that finishScript stores in the list
  ExpiredMark    \* the string 'expired' that groomScript stores in the list

\* IDs are the queue's unique id and a counter (idgenerator).
ID == Poster \X (1..MaxPosts)

\* An entry of a list.  age stands for Started: the time elapsed since then,
\* or NotStarted when the field is absent; above TTR all ages are alike.
NotStarted == -1
Age == NotStarted..(TTR + 1)
Entry == [id : ID, age : Age]
Mark == {FinishedMark, ExpiredMark}

ASSUME QueueAssumption ==
  /\ MaxPosts \in Nat /\ TTR \in Nat /\ MaxFaults \in Nat
  /\ Punctual \in BOOLEAN
  /\ NoJob \notin ID
  /\ FinishedMark \notin Entry /\ ExpiredMark \notin Entry
  /\ FinishedMark # ExpiredMark

VARIABLES
  pending,    \* the list jobs-pending
  reserved,   \* the list jobs-reserved
  lastID,     \* lastID[p]: the id counter of poster p
  posting,    \* ids drawn by a Post that has not reached Redis yet
  holding,    \* holding[w]: the job worker w runs, or NoJob
  elapsed,    \* elapsed[w]: time since w got its job, at most TTR + 1
  posted,     \* history: ids whose entry reached Redis
  finished,   \* history: ids a worker finished without an error
  cleared,    \* history: ids dropped by Clear
  faults      \* faults so far

redisVars == <<pending, reserved>>
postVars == <<lastID, posting, posted>>
workVars == <<holding, elapsed>>
vars == <<pending, reserved, lastID, posting, holding, elapsed,
          posted, finished, cleared, faults>>

-------------------------------------------------------------------------------
(***************************************************************************)
(* Scripts.  cjson.decode raises an error on a mark, which ends the script *)
(* and keeps what it wrote so far: Decodable is how far a loop gets.       *)
(***************************************************************************)
IDsIn(list) == {e.id : e \in Elements(list) \ Mark}

Decodable(list) ==
  CHOOSE n \in 0..Len(list) :
    /\ \A i \in 1..n : list[i] \notin Mark
    /\ n < Len(list) => list[n + 1] \in Mark

\* Mutant of FinishScript: LSET with the index of the Lua loop, not i-1.
FinishScriptOffByOne(list, id) ==
  LRemFirst([i \in DOMAIN list |->
               IF i > 1 /\ list[i - 1].id = id THEN FinishedMark ELSE list[i]],
            FinishedMark)

FinishScript(list, id) ==
  LET n == Decodable(list)
      marked == [i \in DOMAIN list |->
                   IF i <= n /\ list[i].id = id THEN FinishedMark ELSE list[i]]
  IN  IF n = Len(list) THEN LRemFirst(marked, FinishedMark) ELSE marked

\* Started is set when a groom first sees the entry, not when it is reserved.
Stamped(e) == IF e.age = NotStarted THEN [e EXCEPT !.age = 0] ELSE e
\* Mutant of Overdue: the comparison is not strict.
OverdueAtTTR(e) == Stamped(e).age >= TTR
Overdue(e) == Stamped(e).age > TTR
Requeued(e) == [e EXCEPT !.age = NotStarted]

\* The reserved entries that groomScript puts back, in list order.
ExpiredEntries(list) ==
  SubseqAt(list, {i \in 1..Decodable(list) : Overdue(list[i])})

\* Mutant of GroomedPending: RPUSH, the expired jobs jump the queue.
GroomedPendingAtTail(list, back) ==
  list \o [i \in 1..Len(back) |-> Requeued(back[i])]

\* One LPUSH per expired entry: the last one pushed ends up at the head.
GroomedPending(list, back) ==
  [i \in 1..Len(back) |-> Requeued(back[Len(back) + 1 - i])] \o list

\* Mutants of GroomedReserved: the script does not store Started; the script
\* leaves the entry it has put back.
GroomedReservedNoStamp(list) ==
  SubseqAt(list, {i \in DOMAIN list : ~Overdue(list[i])})
GroomedReservedKept(list) == [i \in DOMAIN list |-> Stamped(list[i])]

GroomedReserved(list) ==
  LET n == Decodable(list)
      marked == [i \in DOMAIN list |->
                   IF i > n THEN list[i]
                   ELSE IF Overdue(list[i]) THEN ExpiredMark
                   ELSE Stamped(list[i])]
  IN  IF n = Len(list) THEN LRemAll(marked, ExpiredMark) ELSE marked

-------------------------------------------------------------------------------
Init ==
  /\ pending = << >> /\ reserved = << >>
  /\ lastID = [p \in Poster |-> 0]
  /\ posting = {}
  /\ holding = [w \in Worker |-> NoJob]
  /\ elapsed = [w \in Worker |-> 0]
  /\ posted = {} /\ finished = {} /\ cleared = {}
  /\ faults = 0

Fault == faults < MaxFaults /\ faults' = faults + 1

\* Mutant of DrawID: the counter is read and written in two steps, two
\* goroutines draw the same id.
DrawIDTwice(p) ==
  /\ lastID[p] < MaxPosts
  /\ posting' = posting \union {<<p, lastID[p] + 1>>}
  /\ \/ lastID' = [lastID EXCEPT ![p] = @ + 1]
     \/ UNCHANGED lastID
  /\ UNCHANGED <<redisVars, workVars, posted, finished, cleared, faults>>

\* Post, first half: the atomic counter gives the entry its id.
DrawID(p) ==
  /\ lastID[p] < MaxPosts
  /\ lastID' = [lastID EXCEPT ![p] = @ + 1]
  /\ posting' = posting \union {<<p, lastID[p] + 1>>}
  /\ UNCHANGED <<redisVars, workVars, posted, finished, cleared, faults>>

\* Post, second half: LPUSH.  A lost reply is the same step: the caller sees
\* an error, but nothing it keeps depends on it.
Push(id) ==
  /\ id \in posting
  /\ pending' = <<[id |-> id, age |-> NotStarted]>> \o pending
  /\ posting' = posting \ {id}
  /\ posted' = posted \union {id}
  /\ UNCHANGED <<reserved, lastID, workVars, finished, cleared, faults>>

\* The LPUSH never reaches Redis (or the data cannot be encoded).
PushFails(id) ==
  /\ id \in posting
  /\ posting' = posting \ {id}
  /\ Fault
  /\ UNCHANGED <<redisVars, lastID, posted, workVars, finished, cleared>>

\* BRPOPLPUSH: the tail of pending becomes the head of reserved.
Reserve ==
  /\ pending # << >>
  /\ pending' = SubSeq(pending, 1, Len(pending) - 1)
  /\ reserved' = <<pending[Len(pending)]>> \o reserved

Pick(w) ==
  /\ holding[w] = NoJob
  /\ Reserve
  /\ pending[Len(pending)] \notin Mark
  /\ holding' = [holding EXCEPT ![w] = pending[Len(pending)].id]
  /\ elapsed' = [elapsed EXCEPT ![w] = 0]
  /\ UNCHANGED <<postVars, finished, cleared, faults>>

\* Mutant of PickLost: BRPOP, the worker pushes the entry to reserved itself.
PickLostInFlight(w) ==
  /\ holding[w] = NoJob
  /\ pending # << >>
  /\ pending' = SubSeq(pending, 1, Len(pending) - 1)
  /\ Fault
  /\ UNCHANGED <<reserved, postVars, workVars, finished, cleared>>

\* The reply is lost, the worker dies before it reads it, or it cannot decode
\* the entry: the job is reserved for nobody.
PickLost(w) ==
  /\ holding[w] = NoJob
  /\ Reserve
  /\ Fault
  /\ UNCHANGED <<postVars, workVars, finished, cleared>>

Release(w) ==
  /\ holding' = [holding EXCEPT ![w] = NoJob]
  /\ elapsed' = [elapsed EXCEPT ![w] = 0]

Finish(w) ==
  /\ holding[w] # NoJob
  /\ reserved' = FinishScript(reserved, holding[w])
  /\ finished' = finished \union {holding[w]}
  /\ Release(w)
  /\ UNCHANGED <<pending, postVars, cleared, faults>>

\* The script never reaches Redis (consumeOneJob logs it and moves on), or the
\* process dies with its job and its replacement starts with none.
Abandon(w) ==
  /\ holding[w] # NoJob
  /\ Release(w)
  /\ Fault
  /\ UNCHANGED <<redisVars, postVars, finished, cleared>>

Groom ==
  /\ pending' = GroomedPending(pending, ExpiredEntries(reserved))
  /\ reserved' = GroomedReserved(reserved)
  /\ UNCHANGED <<postVars, workVars, finished, cleared, faults>>

Clear ==
  /\ pending' = << >> /\ reserved' = << >>
  /\ cleared' = cleared \union IDsIn(pending) \union IDsIn(reserved)
  /\ UNCHANGED <<postVars, workVars, finished, faults>>

\* One clock unit.  consumeOneJob runs its job under a context that expires
\* after the TTR, so a punctual worker has called Finish by then.
Older(e) == IF e \in Mark \/ e.age \in {NotStarted, TTR + 1} THEN e
            ELSE [e EXCEPT !.age = @ + 1]

Tick ==
  /\ Punctual => \A w \in Worker : holding[w] # NoJob => elapsed[w] < TTR
  /\ reserved' = [i \in DOMAIN reserved |-> Older(reserved[i])]
  /\ elapsed' = [w \in Worker |->
                   IF holding[w] = NoJob \/ elapsed[w] = TTR + 1
                   THEN elapsed[w] ELSE elapsed[w] + 1]
  /\ UNCHANGED <<pending, postVars, holding, finished, cleared, faults>>

WorkerStep(w) == Pick(w) \/ PickLost(w) \/ Finish(w) \/ Abandon(w)

Next ==
  \/ \E p \in Poster : DrawID(p)
  \/ \E id \in posting : Push(id) \/ PushFails(id)
  \/ \E w \in Worker : WorkerStep(w)
  \/ Groom \/ Clear \/ Tick

Spec == Init /\ [][Next]_vars

(***************************************************************************)
(* Workers keep looping, time passes, some process is the groom master and *)
(* its 5 s ticker keeps firing.                                            *)
(***************************************************************************)
Fairness ==
  /\ \A w \in Worker : WF_vars(Pick(w)) /\ WF_vars(Finish(w))
  /\ WF_vars(Groom) /\ WF_vars(Tick)

FairSpec == Spec /\ Fairness

-------------------------------------------------------------------------------
\* Every variable has its type; no mark is ever left in a list.
TypeOK ==
  /\ pending \in Seq(Entry) /\ reserved \in Seq(Entry)
  /\ lastID \in [Poster -> 0..MaxPosts]
  /\ posting \subseteq ID
  /\ holding \in [Worker -> ID \union {NoJob}]
  /\ elapsed \in [Worker -> 0..(TTR + 1)]
  /\ posted \subseteq ID /\ finished \subseteq ID /\ cleared \subseteq ID
  /\ faults \in 0..MaxFaults

\* finishScript turns every entry with the id into a mark but removes one mark
\* only (LREM with count 1): the next script would fail to decode the others.
\* It is enough that an id is in the two lists once at most.
UniqueEntries ==
  LET all == pending \o reserved
  IN  \A i, j \in DOMAIN all : all[i].id = all[j].id => i = j

\* At least once: a posted job stays in Redis until a worker finishes it or
\* Clear drops it, whatever is lost and whoever crashes (Pick moves it in one
\* command, groomScript puts it back).
NothingLost ==
  posted \subseteq IDsIn(pending) \union IDsIn(reserved) \union finished \union cleared

\* While punctual workers run a job it stays reserved, and one worker at most
\* runs it: groomScript counts the TTR from a moment after the Pick and waits
\* for more than the TTR, so no job is put back under a running worker.
ExclusiveRun ==
  Punctual =>
    /\ \A w \in Worker : holding[w] # NoJob =>
          holding[w] \in IDsIn(reserved) \union cleared
    /\ \A v, w \in Worker : holding[v] # NoJob /\ holding[v] = holding[w] => v = w

\* "The task has been finished, so it souldn't be rescheduled even after its TTR
\* expires" (workqueue_test.go): a finished job is in neither list.
FinishedStaysGone ==
  finished \intersect (IDsIn(pending) \union IDsIn(reserved)) = {}

\* Every job that reaches the queue is finished, despite the faults, unless
\* Clear drops it.
EventuallyFinished ==
  \A id \in ID : id \in posted ~> id \in finished \union cleared

\* The queue the jobs' users see (module WorkQueue): the waiting ids, oldest
\* first, the reserved ids, and who runs what.
WQ == INSTANCE WorkQueue WITH
        Job <- ID,
        Exclusive <- Punctual,
        Lossy <- TRUE,
        queue <- [i \in 1..Len(pending) |-> pending[Len(pending) + 1 - i].id],
        out <- IDsIn(reserved),
        held <- holding,
        used <- posted

\* Posting, reserving, finishing and grooming are steps of the work queue.
ImplementsWorkQueue == WQ!Spec
===============================================================================
