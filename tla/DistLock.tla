------------------------------- MODULE DistLock -------------------------------
(***************************************************************************)
(* The lease kept in Redis by src/server/pkg/distlock/distlock.go.  Every  *)
(* process that creates a Lock with the same name competes for the key: a  *)
(* goroutine ticks, each tick runs acquireScript, and master mirrors the   *)
(* last answer.  Stop runs in another goroutine, concurrently with ticks.  *)
(*                                                                         *)
(* A tick is split where the other goroutine, or another process, can come *)
(* in between: the script in Redis, the swap of master, the load of the    *)
(* masterChannel field and the send.  The ticker may fire at any moment.   *)
(* Nothing in src/ but a test reads masterChannel, so no action does.      *)
(* Punctual limits the delays of the locks that think they are master.     *)
(***************************************************************************)
EXTENDS Integers, Sequences

CONSTANTS
  Node,         \* the Lock objects, one per process
  NoNode,       \* the key does not exist
  Expiration,   \* ExpirationDelay, in clock units
  Period,       \* a punctual master renews its lease at least that often
  Punctual,     \* are the masters punctual?
  MaxFaults     \* bound: lost requests, lost replies and crashes, together

ASSUME LockAssumption ==
  /\ Expiration \in Nat \ {0} /\ Period \in Nat \ {0}
  /\ Period < Expiration
  /\ Punctual \in BOOLEAN /\ MaxFaults \in Nat
  /\ NoNode \notin Node

VARIABLES
  owner,     \* the value of the key in Redis
  ttl,       \* what is left of its expiration delay
  master,    \* master[n]: the field l.master
  tick,      \* tick[n]: where the goroutine of n is in tick()
  ret,       \* ret[n]: the script's answer, while tick[n] # "idle"
  due,       \* due[n]: a tick waits in the channel of the stopped ticker
  stage,     \* stage[n]: how far Stop is
  channel,   \* channel[n]: what waits in masterChannel, which holds one value
  since,     \* history: time since Redis last gave the lease to n, while n runs,
             \* up to Expiration
  faults     \* faults so far

redisVars == <<owner, ttl, since>>
tickVars == <<tick, ret, due>>
vars == <<owner, ttl, master, tick, ret, due, stage, channel, since, faults>>

TickPoint == {"idle", "answered", "swapped", "sending"}
Stage == {"running", "released", "tickerStopped", "zeroed", "closed", "stopped", "dead"}

Init ==
  /\ owner = NoNode /\ ttl = 0
  /\ master = [n \in Node |-> FALSE]
  /\ tick = [n \in Node |-> "idle"]
  /\ ret = [n \in Node |-> FALSE]
  /\ due = [n \in Node |-> FALSE]
  /\ stage = [n \in Node |-> "running"]
  /\ channel = [n \in Node |-> << >>]
  /\ since = [n \in Node |-> Expiration]
  /\ faults = 0

Fault == faults < MaxFaults /\ faults' = faults + 1

-------------------------------------------------------------------------------
\* Mutant of Granted: the script sets the key whoever owns it.
GrantedToAll(n) == TRUE

\* acquireScript: take a free key, renew one's own, leave another's alone.
Granted(n) == owner \in {NoNode, n}

Acquire(n) ==
  IF Granted(n)
  THEN /\ owner' = n /\ ttl' = Expiration
       /\ since' = [since EXCEPT ![n] = IF stage[n] = "running" THEN 0 ELSE @]
  ELSE UNCHANGED redisVars

\* Mutant of ReleaseKey: DEL without comparing the owner.
ReleaseAnyKey(n) == owner' = NoNode /\ ttl' = 0

\* releaseScript: delete one's own key.
ReleaseKey(n) ==
  IF owner = n
  THEN owner' = NoNode /\ ttl' = 0
  ELSE UNCHANGED <<owner, ttl>>

-------------------------------------------------------------------------------
\* The process of n is gone, with its goroutines and its channel.
Die(n) ==
  /\ stage' = [stage EXCEPT ![n] = "dead"]
  /\ master' = [master EXCEPT ![n] = FALSE]
  /\ tick' = [tick EXCEPT ![n] = "idle"]
  /\ ret' = [ret EXCEPT ![n] = FALSE]
  /\ due' = [due EXCEPT ![n] = FALSE]
  /\ channel' = [channel EXCEPT ![n] = << >>]
  /\ since' = [since EXCEPT ![n] = Expiration]
  /\ UNCHANGED <<owner, ttl>>

\* Mutant of Ticks: Stop does not stop the ticker.
TicksForever(n) ==
  /\ tick[n] = "idle" /\ stage[n] # "dead"
  /\ due' = [due EXCEPT ![n] = FALSE]

\* The ticker of n fires, or fired before it was stopped: tick() is called.
Ticks(n) ==
  /\ tick[n] = "idle"
  /\ stage[n] \in {"running", "released"} \/ due[n]
  /\ due' = [due EXCEPT ![n] = FALSE]

\* tick(): EvalSha runs in Redis and its answer comes back.
Ask(n) ==
  /\ Ticks(n)
  /\ Acquire(n)
  /\ ret' = [ret EXCEPT ![n] = Granted(n)]
  /\ tick' = [tick EXCEPT ![n] = "answered"]
  /\ UNCHANGED <<master, stage, channel, faults>>

\* EvalSha returns an error: the request or the answer was lost.  tick()
\* returns and master keeps its value.
AskFails(n) ==
  /\ Ticks(n)
  /\ Acquire(n) \/ UNCHANGED redisVars
  /\ Fault
  /\ UNCHANGED <<master, tick, ret, stage, channel>>

\* tick() returns.
EndTick(n) ==
  /\ tick' = [tick EXCEPT ![n] = "idle"]
  /\ ret' = [ret EXCEPT ![n] = FALSE]

\* SwapUint32; the tick is over unless the value changed.
Swap(n) ==
  /\ tick[n] = "answered"
  /\ master' = [master EXCEPT ![n] = ret[n]]
  /\ IF master[n] # ret[n]
     THEN tick' = [tick EXCEPT ![n] = "swapped"] /\ UNCHANGED ret
     ELSE EndTick(n)
  /\ UNCHANGED <<redisVars, due, stage, channel, faults>>

\* The select reads l.masterChannel: on a nil channel the default case runs.
LoadChannel(n) ==
  /\ tick[n] = "swapped"
  /\ IF stage[n] = "stopped"
     THEN EndTick(n)
     ELSE tick' = [tick EXCEPT ![n] = "sending"] /\ UNCHANGED ret
  /\ UNCHANGED <<redisVars, master, due, stage, channel, faults>>

\* Mutant of Send: a longer channel.
SendQueued(n) ==
  /\ tick[n] = "sending" /\ stage[n] \notin {"closed", "stopped"}
  /\ channel' = [channel EXCEPT ![n] = Append(@, ret[n])]
  /\ EndTick(n)
  /\ UNCHANGED <<redisVars, master, due, stage, faults>>

\* The send, dropped when a value waits already.
Send(n) ==
  /\ tick[n] = "sending" /\ stage[n] \notin {"closed", "stopped"}
  /\ channel' = [channel EXCEPT ![n] = IF @ = << >> THEN <<ret[n]>> ELSE @]
  /\ EndTick(n)
  /\ UNCHANGED <<redisVars, master, due, stage, faults>>

\* Stop closed the channel meanwhile: the send panics and ends the process.
SendPanics(n) ==
  /\ tick[n] = "sending" /\ stage[n] \in {"closed", "stopped"}
  /\ Die(n)
  /\ UNCHANGED faults

-------------------------------------------------------------------------------
\* Stop, one action per statement.
StopRelease(n) ==
  /\ stage[n] = "running"
  /\ stage' = [stage EXCEPT ![n] = "released"]
  /\ \/ ReleaseKey(n) /\ UNCHANGED faults
     \/ Fault /\ UNCHANGED <<owner, ttl>>
  /\ since' = [since EXCEPT ![n] = Expiration]
  /\ UNCHANGED <<master, tickVars, channel>>

\* ticker.Stop() leaves a tick that fired before in the ticker's channel.
StopTicker(n) ==
  /\ stage[n] = "released"
  /\ stage' = [stage EXCEPT ![n] = "tickerStopped"]
  /\ \E fired \in BOOLEAN : due' = [due EXCEPT ![n] = fired]
  /\ UNCHANGED <<redisVars, master, tick, ret, channel, faults>>

StopMaster(n) ==
  /\ stage[n] = "tickerStopped"
  /\ stage' = [stage EXCEPT ![n] = "zeroed"]
  /\ master' = [master EXCEPT ![n] = FALSE]
  /\ UNCHANGED <<redisVars, tickVars, channel, faults>>

StopClose(n) ==
  /\ stage[n] = "zeroed"
  /\ stage' = [stage EXCEPT ![n] = "closed"]
  /\ UNCHANGED <<redisVars, master, tickVars, channel, faults>>

\* The field becomes nil.
StopNil(n) ==
  /\ stage[n] = "closed"
  /\ stage' = [stage EXCEPT ![n] = "stopped"]
  /\ UNCHANGED <<redisVars, master, tickVars, channel, faults>>

\* The process dies: what Redis knows of it stays.
Crash(n) == stage[n] # "dead" /\ Die(n) /\ Fault

\* n thinks that it is the master, or is about to.
Believes(n) == master[n] \/ (tick[n] = "answered" /\ ret[n])

\* Mutant of Clock: the key is set without PX and does not expire.
ClockWithoutExpiry ==
  /\ since' = [n \in Node |-> IF since[n] = Expiration THEN Expiration ELSE since[n] + 1]
  /\ UNCHANGED <<owner, ttl, master, tickVars, stage, channel, faults>>

\* One clock unit passes; Redis deletes the key when its delay is over.
Clock ==
  /\ Punctual => \A n \in Node :
       stage[n] = "running" /\ Believes(n) => since[n] < Period
  /\ ttl' = IF ttl = 0 THEN 0 ELSE ttl - 1
  /\ owner' = IF ttl <= 1 THEN NoNode ELSE owner
  /\ since' = [n \in Node |-> IF since[n] = Expiration THEN Expiration ELSE since[n] + 1]
  /\ UNCHANGED <<master, tickVars, stage, channel, faults>>

TickStep(n) == Ask(n) \/ AskFails(n) \/ Swap(n) \/ LoadChannel(n) \/ Send(n) \/ SendPanics(n)
StopStep(n) == StopRelease(n) \/ StopTicker(n) \/ StopMaster(n) \/ StopClose(n) \/ StopNil(n)

Next ==
  \/ \E n \in Node : TickStep(n) \/ StopStep(n) \/ Crash(n)
  \/ Clock

Spec == Init /\ [][Next]_vars

\* Goroutines run, tickers fire and time passes; a Stop that began is carried
\* through.  Nobody has to call Stop.
Fairness ==
  /\ \A n \in Node :
       /\ WF_vars(Ask(n)) /\ WF_vars(Swap(n)) /\ WF_vars(LoadChannel(n))
       /\ WF_vars(Send(n)) /\ WF_vars(SendPanics(n))
       /\ WF_vars(StopTicker(n)) /\ WF_vars(StopMaster(n))
       /\ WF_vars(StopClose(n)) /\ WF_vars(StopNil(n))
  /\ WF_vars(Clock)

FairSpec == Spec /\ Fairness

-------------------------------------------------------------------------------
\* Every variable has its type.
TypeOK ==
  /\ owner \in Node \union {NoNode}
  /\ ttl \in 0..Expiration
  /\ master \in [Node -> BOOLEAN]
  /\ tick \in [Node -> TickPoint]
  /\ ret \in [Node -> BOOLEAN]
  /\ due \in [Node -> BOOLEAN]
  /\ stage \in [Node -> Stage]
  /\ channel \in [Node -> {<< >>, <<TRUE>>, <<FALSE>>}]
  /\ since \in [Node -> 0..Expiration]
  /\ faults \in 0..MaxFaults

\* Behind a running lock that believes to be the master there is its lease in
\* Redis, unless the lock has not renewed it for the whole expiration delay:
\* no error, delay, release or takeover elsewhere makes the belief wrong sooner.
LeaseBehindMaster ==
  \A n \in Node : stage[n] = "running" /\ Believes(n) /\ since[n] < Expiration =>
    owner = n /\ ttl = Expiration - since[n]

\* "Lock 2 became master while lock 1 is still running" (distlock_test.go) does
\* not happen while the masters are punctual.
MutualExclusion ==
  Punctual => \A m, n \in Node :
    /\ stage[m] = "running" /\ master[m]
    /\ stage[n] = "running" /\ master[n]
    => m = n

\* As long as some lock keeps running there is a master again and again, even
\* when the last one crashed with the key or could not release it.
AlwaysAMaster ==
  \A n \in Node :
    <>[](stage[n] = "running") =>
      []<>(\E m \in Node : stage[m] = "running" /\ master[m])

\* A stopped or dead lock gives the key back in the end, although a tick may
\* overlap Stop and take it again.
StoppedLetsGo ==
  \A n \in Node : stage[n] \in {"stopped", "dead"} ~> owner # n

\* "IsMaster returns false for lock" (distlock_test.go): who reads true from the
\* channel of a running lock between two ticks finds it master.
SignalIsCurrent ==
  \A n \in Node :
    stage[n] = "running" /\ tick[n] = "idle" /\ channel[n] = <<TRUE>> => master[n]
===============================================================================
