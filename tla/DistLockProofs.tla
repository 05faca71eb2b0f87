---------------------------- MODULE DistLockProofs ----------------------------
(***************************************************************************)
(* The safety of the lease in module DistLock, for any number of locks,    *)
(* any delays and any number of faults.                                    *)
(***************************************************************************)
EXTENDS DistLock, TLAPS

\* The locks of punctual masters never get old: why nobody else gets the key.
Renewed ==
  Punctual => \A n \in Node : stage[n] = "running" /\ Believes(n) => since[n] <= Period

\* The inductive invariant.
LockInv == TypeOK /\ LeaseBehindMaster /\ Renewed

USE LockAssumption DEF LockAssumption

-------------------------------------------------------------------------------
\* At the start no lock believes anything.
LEMMA InitLock == Init => LockInv
<1> SUFFICES ASSUME Init PROVE LockInv
  OBVIOUS
<1>1. TypeOK
  BY DEF Init, TypeOK, TickPoint, Stage
<1>2. \A n \in Node : ~Believes(n)
  BY DEF Init, Believes
<1> QED BY <1>1, <1>2 DEF LockInv, LeaseBehindMaster, Renewed

\* acquireScript keeps the variables it writes in their types.
LEMMA ScriptTypes ==
  ASSUME TypeOK, NEW n \in Node, Acquire(n) \/ UNCHANGED redisVars
  PROVE  /\ owner' \in Node \union {NoNode}
         /\ ttl' \in 0..Expiration
         /\ since' \in [Node -> 0..Expiration]
<1>1. CASE UNCHANGED redisVars
  BY <1>1 DEF TypeOK, redisVars
<1>2. CASE Acquire(n) /\ Granted(n)
  BY <1>2 DEF TypeOK, Acquire
<1>3. CASE Acquire(n) /\ ~Granted(n)
  BY <1>3 DEF TypeOK, Acquire, redisVars
<1> QED BY <1>1, <1>2, <1>3

\* So does the end of a process.
LEMMA DieTypes ==
  ASSUME TypeOK, NEW n \in Node, Die(n), faults' \in 0..MaxFaults
  PROVE  TypeOK'
<1>1. stage' \in [Node -> Stage] /\ tick' \in [Node -> TickPoint]
  BY DEF TypeOK, Die, Stage, TickPoint
<1>2. master' \in [Node -> BOOLEAN] /\ ret' \in [Node -> BOOLEAN] /\ due' \in [Node -> BOOLEAN]
  BY DEF TypeOK, Die
<1>3. channel' \in [Node -> {<< >>, <<TRUE>>, <<FALSE>>}]
  BY DEF TypeOK, Die
<1>4. since' \in [Node -> 0..Expiration] /\ UNCHANGED <<owner, ttl>>
  BY DEF TypeOK, Die
<1> QED BY <1>1, <1>2, <1>3, <1>4 DEF TypeOK

LEMMA FaultTypes == TypeOK /\ Fault => faults' \in 0..MaxFaults
<1> QED BY DEF TypeOK, Fault

\* Every step keeps the types.
LEMMA TypeStep == TypeOK /\ [Next]_vars => TypeOK'
<1> SUFFICES ASSUME TypeOK, [Next]_vars PROVE TypeOK'
  OBVIOUS
<1>1. ASSUME NEW n \in Node, Ask(n) PROVE TypeOK'
  <2>1. Granted(n) \in BOOLEAN
    BY DEF Granted
  <2>2. ret' \in [Node -> BOOLEAN] /\ due' \in [Node -> BOOLEAN]
    BY <1>1, <2>1 DEF Ask, Ticks, TypeOK
  <2>3. tick' \in [Node -> TickPoint]
    BY <1>1 DEF Ask, TypeOK, TickPoint
  <2>4. UNCHANGED <<master, stage, channel, faults>>
    BY <1>1 DEF Ask
  <2> QED BY <1>1, <2>2, <2>3, <2>4, ScriptTypes DEF Ask, TypeOK
<1>2. ASSUME NEW n \in Node, AskFails(n) PROVE TypeOK'
  <2>1. due' \in [Node -> BOOLEAN]
    BY <1>2 DEF AskFails, Ticks, TypeOK
  <2> QED BY <1>2, <2>1, ScriptTypes, FaultTypes DEF AskFails, TypeOK
<1>3. ASSUME NEW n \in Node, Swap(n) PROVE TypeOK'
  BY <1>3 DEF TypeOK, TickPoint, Swap, EndTick, redisVars
<1>4. ASSUME NEW n \in Node, LoadChannel(n) PROVE TypeOK'
  BY <1>4 DEF TypeOK, TickPoint, LoadChannel, EndTick, redisVars
<1>5. ASSUME NEW n \in Node, Send(n) PROVE TypeOK'
  <2>1. channel' \in [Node -> {<< >>, <<TRUE>>, <<FALSE>>}]
    BY <1>5 DEF TypeOK, Send
  <2>2. tick' \in [Node -> TickPoint] /\ ret' \in [Node -> BOOLEAN]
    BY <1>5 DEF TypeOK, TickPoint, Send, EndTick
  <2> QED BY <1>5, <2>1, <2>2 DEF TypeOK, Send, redisVars
<1>6. ASSUME NEW n \in Node, SendPanics(n) PROVE TypeOK'
  BY <1>6, DieTypes DEF SendPanics, TypeOK
<1>7. ASSUME NEW n \in Node, StopRelease(n) PROVE TypeOK'
  <2>1. ttl' \in 0..Expiration /\ owner' \in Node \union {NoNode} /\ faults' \in 0..MaxFaults
    BY <1>7 DEF TypeOK, StopRelease, Fault, ReleaseKey
  <2>2. since' \in [Node -> 0..Expiration] /\ stage' \in [Node -> Stage]
    BY <1>7 DEF TypeOK, StopRelease, Stage
  <2> QED BY <1>7, <2>1, <2>2 DEF TypeOK, StopRelease, tickVars
<1>8. ASSUME NEW n \in Node, StopTicker(n) PROVE TypeOK'
  BY <1>8 DEF TypeOK, Stage, StopTicker, redisVars
<1>9. ASSUME NEW n \in Node, StopMaster(n) \/ StopClose(n) \/ StopNil(n) PROVE TypeOK'
  BY <1>9 DEF TypeOK, Stage, StopMaster, StopClose, StopNil, redisVars, tickVars
<1>10. ASSUME NEW n \in Node, Crash(n) PROVE TypeOK'
  BY <1>10, DieTypes, FaultTypes DEF Crash
<1>11. CASE Clock
  <2>1. ttl' \in 0..Expiration /\ owner' \in Node \union {NoNode}
    BY <1>11 DEF TypeOK, Clock
  <2>2. since' \in [Node -> 0..Expiration]
    BY <1>11 DEF TypeOK, Clock
  <2> QED BY <1>11, <2>1, <2>2 DEF TypeOK, Clock, tickVars
<1>12. CASE UNCHANGED vars
  BY <1>12 DEF TypeOK, vars
<1> QED
  BY <1>1, <1>2, <1>3, <1>4, <1>5, <1>6, <1>7, <1>8, <1>9, <1>10, <1>11, <1>12
     DEF Next, TickStep, StopStep

\* A step of one lock that leaves Redis and the beliefs alone, or ends them.
LEMMA QuietStep ==
  ASSUME LockInv,
         \A n \in Node : stage'[n] = "running" /\ Believes(n)' =>
           stage[n] = "running" /\ Believes(n) /\ since'[n] = since[n],
         UNCHANGED <<owner, ttl>>
  PROVE  LeaseBehindMaster' /\ Renewed'
<1> QED BY DEF LockInv, LeaseBehindMaster, Renewed

\* A lock that takes or renews the key: nobody else believes to have it.
LEMMA GrantStep ==
  ASSUME LockInv, NEW n \in Node, Acquire(n), Granted(n), UNCHANGED stage,
         \A m \in Node \ {n} : Believes(m)' = Believes(m)
  PROVE  LeaseBehindMaster' /\ Renewed'
<1>1. owner' = n /\ ttl' = Expiration /\ (stage[n] = "running" => since'[n] = 0)
  BY DEF Acquire, LockInv, TypeOK
<1>2. \A m \in Node \ {n} : since'[m] = since[m]
  BY DEF Acquire, LockInv, TypeOK
<1>3. \A m \in Node \ {n} : owner # m
  BY DEF Granted
<1>4. ASSUME NEW m \in Node, stage'[m] = "running", Believes(m)', since'[m] < Expiration
      PROVE  owner' = m /\ ttl' = Expiration - since'[m]
  <2>1. CASE m = n
    BY <1>1, <1>4, <2>1
  <2>2. CASE m # n
    BY <1>2, <1>3, <1>4, <2>2 DEF LockInv, LeaseBehindMaster
  <2> QED BY <2>1, <2>2
<1>5. ASSUME Punctual, NEW m \in Node, stage'[m] = "running", Believes(m)'
      PROVE  since'[m] <= Period
  <2>1. CASE m = n
    BY <1>1, <1>5, <2>1
  <2>2. CASE m # n
    BY <1>2, <1>5, <2>2 DEF LockInv, Renewed
  <2> QED BY <2>1, <2>2
<1> QED BY <1>4, <1>5 DEF LeaseBehindMaster, Renewed

\* Every step keeps the inductive invariant.
LEMMA LockStep == LockInv /\ [Next]_vars => LockInv'
<1> SUFFICES ASSUME LockInv, [Next]_vars PROVE LockInv'
  OBVIOUS
<1>0. TypeOK' /\ TypeOK
  BY TypeStep DEF LockInv
<1>1. ASSUME NEW n \in Node, Ask(n) PROVE LeaseBehindMaster' /\ Renewed'
  <2>1. \A m \in Node \ {n} : Believes(m)' = Believes(m)
    BY <1>0, <1>1 DEF Ask, Believes, TypeOK
  <2>2. CASE Granted(n)
    BY <1>1, <2>1, <2>2, GrantStep DEF Ask
  <2>3. CASE ~Granted(n)
    <3>1. UNCHANGED <<owner, ttl, since, stage>> /\ Believes(n)' = master[n]
      BY <1>0, <1>1, <2>3 DEF Ask, Acquire, redisVars, Believes, TypeOK
    <3>2. Believes(n)' => Believes(n)
      BY <3>1 DEF Believes
    <3> QED BY <2>1, <3>1, <3>2, QuietStep
  <2> QED BY <2>2, <2>3
<1>2. ASSUME NEW n \in Node, AskFails(n) PROVE LeaseBehindMaster' /\ Renewed'
  <2>1. \A m \in Node : Believes(m)' = Believes(m)
    BY <1>2 DEF AskFails, Believes
  <2>2. CASE Acquire(n) /\ Granted(n)
    BY <1>2, <2>1, <2>2, GrantStep DEF AskFails
  <2>3. CASE ~(Acquire(n) /\ Granted(n))
    <3>1. UNCHANGED <<owner, ttl, since, stage>>
      BY <1>2, <2>3 DEF AskFails, Acquire, redisVars
    <3> QED BY <2>1, <3>1, QuietStep
  <2> QED BY <2>2, <2>3
<1>3. ASSUME NEW n \in Node, Swap(n) PROVE LeaseBehindMaster' /\ Renewed'
  <2>1. UNCHANGED <<owner, ttl, since, stage>>
    BY <1>3 DEF Swap, redisVars
  <2>2. \A m \in Node : Believes(m)' => Believes(m)
    BY <1>0, <1>3 DEF Swap, EndTick, Believes, TypeOK
  <2> QED BY <2>1, <2>2, QuietStep
<1>4. ASSUME NEW n \in Node, LoadChannel(n) \/ Send(n)
      PROVE  LeaseBehindMaster' /\ Renewed'
  <2>1. UNCHANGED <<owner, ttl, since, stage>>
    BY <1>4 DEF LoadChannel, Send, redisVars
  <2>2. \A m \in Node : Believes(m)' => Believes(m)
    BY <1>0, <1>4 DEF LoadChannel, Send, EndTick, Believes, TypeOK
  <2> QED BY <2>1, <2>2, QuietStep
<1>5. ASSUME NEW n \in Node, Die(n) PROVE LeaseBehindMaster' /\ Renewed'
  <2>1. UNCHANGED <<owner, ttl>> /\ stage'[n] = "dead"
    BY <1>0, <1>5 DEF Die, TypeOK
  <2>2. \A m \in Node \ {n} :
          Believes(m)' = Believes(m) /\ stage'[m] = stage[m] /\ since'[m] = since[m]
    BY <1>0, <1>5 DEF Die, Believes, TypeOK
  <2> QED BY <2>1, <2>2, QuietStep
<1>6. ASSUME NEW n \in Node, StopRelease(n) PROVE LeaseBehindMaster' /\ Renewed'
  <2>1. stage'[n] = "released"
    BY <1>0, <1>6 DEF StopRelease, TypeOK
  <2>2. \A m \in Node \ {n} :
          Believes(m)' = Believes(m) /\ stage'[m] = stage[m] /\ since'[m] = since[m]
    BY <1>0, <1>6 DEF StopRelease, tickVars, Believes, TypeOK
  <2>3. CASE UNCHANGED <<owner, ttl>>
    BY <2>1, <2>2, <2>3, QuietStep
  <2>4. CASE owner = n
    BY <2>1, <2>2, <2>4 DEF LockInv, LeaseBehindMaster, Renewed
  <2> QED BY <1>6, <2>3, <2>4 DEF StopRelease, ReleaseKey
<1>7. ASSUME NEW n \in Node,
             StopTicker(n) \/ StopMaster(n) \/ StopClose(n) \/ StopNil(n)
      PROVE  LeaseBehindMaster' /\ Renewed'
  <2>1. UNCHANGED <<owner, ttl, since>>
    BY <1>7 DEF StopTicker, StopMaster, StopClose, StopNil, redisVars
  <2>2. stage'[n] # "running"
    BY <1>0, <1>7 DEF StopTicker, StopMaster, StopClose, StopNil, TypeOK
  <2>3. \A m \in Node \ {n} : Believes(m)' = Believes(m) /\ stage'[m] = stage[m]
    BY <1>0, <1>7 DEF StopTicker, StopMaster, StopClose, StopNil, tickVars, Believes, TypeOK
  <2> QED BY <2>1, <2>2, <2>3, QuietStep
<1>8. ASSUME Clock PROVE LeaseBehindMaster' /\ Renewed'
  <2>1. \A n \in Node : (Believes(n)' => Believes(n)) /\ stage'[n] = stage[n]
    BY <1>8 DEF Clock, tickVars, Believes
  <2>2. ASSUME NEW n \in Node, stage[n] = "running", Believes(n), since'[n] < Expiration
        PROVE  owner' = n /\ ttl' = Expiration - since'[n]
    <3>1. since[n] < Expiration /\ since'[n] = since[n] + 1 /\ since[n] \in Nat
      BY <1>0, <1>8, <2>2 DEF Clock, TypeOK
    <3>2. owner = n /\ ttl = Expiration - since[n]
      BY <2>2, <3>1 DEF LockInv, LeaseBehindMaster
    <3> QED BY <1>8, <2>2, <3>1, <3>2 DEF Clock
  <2>3. ASSUME Punctual, NEW n \in Node, stage[n] = "running", Believes(n)
        PROVE  since'[n] <= Period
    BY <1>0, <1>8, <2>3 DEF Clock, TypeOK
  <2> QED BY <2>1, <2>2, <2>3 DEF LeaseBehindMaster, Renewed
<1>9. ASSUME UNCHANGED vars PROVE LeaseBehindMaster' /\ Renewed'
  <2>1. \A n \in Node : Believes(n)' => Believes(n)
    BY <1>9 DEF vars, Believes
  <2> QED BY <1>9, <2>1, QuietStep DEF vars
<1>10. LeaseBehindMaster' /\ Renewed'
  BY <1>1, <1>2, <1>3, <1>4, <1>5, <1>6, <1>7, <1>8, <1>9
     DEF Next, TickStep, StopStep, SendPanics, Crash
<1> QED BY <1>0, <1>10 DEF LockInv

-------------------------------------------------------------------------------
\* The inductive invariant holds in every reachable state.
THEOREM LockInvariant == Spec => []LockInv
<1> QED BY InitLock, LockStep, PTL DEF Spec

\* Every variable of the lock keeps its type.
THEOREM LockTypes == Spec => []TypeOK
<1>1. LockInv => TypeOK
  BY DEF LockInv
<1> QED BY <1>1, LockInvariant, PTL

\* Behind a running lock's belief to be master there is its lease in Redis,
\* until a whole expiration delay passed since the last renewal (acquireScript,
\* releaseScript, tick, Stop).  Nothing is assumed of the delays.
THEOREM LeaseTheorem == Spec => []LeaseBehindMaster
<1>1. LockInv => LeaseBehindMaster
  BY DEF LockInv
<1> QED BY <1>1, LockInvariant, PTL

\* Two running locks are never both master, as long as the masters renew their
\* lease in time.
THEOREM MutualExclusionTheorem == Spec => []MutualExclusion
<1>1. LockInv => MutualExclusion
  <2> SUFFICES ASSUME LockInv, Punctual,
                      NEW m \in Node, stage[m] = "running", master[m],
                      NEW n \in Node, stage[n] = "running", master[n]
               PROVE  m = n
    BY DEF MutualExclusion
  <2>1. Believes(m) /\ Believes(n)
    BY DEF Believes
  <2>2. since[m] <= Period /\ since[n] <= Period
    BY <2>1 DEF LockInv, Renewed
  <2>3. since[m] < Expiration /\ since[n] < Expiration
    BY <2>2 DEF LockInv, TypeOK
  <2> QED BY <2>1, <2>3 DEF LockInv, LeaseBehindMaster
<1> QED BY <1>1, LockInvariant, PTL
===============================================================================
