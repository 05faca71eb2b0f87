---------------------------- MODULE GitServerProofs ----------------------------
(***************************************************************************)
(* The safety of the git server in module GitServer, for any number of     *)
(* requests, pushes and faults.                                            *)
(***************************************************************************)
EXTENDS GitServer, TLAPS

Place == {"idle", "stat", "mkdir", "init", "cleanup", "serve", "post"}

\* Only an initialisation that failed removes the directory.
NoCleanup == faults = 0 => \A r \in Request : at[r] # "cleanup"

\* The inductive invariant.
GitInv == TypeOK /\ NoCleanup /\ EveryPushPosted /\ HalfHasOwner

USE GitAssumption DEF GitAssumption

-------------------------------------------------------------------------------
\* At the start there is neither a directory nor a request.
LEMMA InitGit == Init => GitInv
<1> SUFFICES ASSUME Init PROVE GitInv
  OBVIOUS
<1>1. TypeOK
  <2>1. at \in [Request -> Place] /\ kind \in [Request -> Kind]
    BY DEF Init, Place, Kind
  <2>2. blog \in BOOLEAN /\ crashed \in BOOLEAN /\ dir \in {"absent", "empty", "ready"}
    BY Zenon DEF Init
  <2>3. pushes \in 0..MaxPushes /\ head \in 0..pushes /\ posted \in 0..pushes /\ faults \in 0..MaxFaults
    BY DEF Init
  <2>4. head # 0 => dir = "ready"
    BY DEF Init
  <2> QED BY <2>1, <2>2, <2>3, <2>4, Zenon DEF TypeOK, Place
<1>2. NoCleanup /\ EveryPushPosted /\ HalfHasOwner
  BY DEF Init, NoCleanup, EveryPushPosted, HalfHasOwner
<1> QED BY <1>1, <1>2 DEF GitInv

\* A request moves on; the others stay where they are.
LEMMA GoesMoves ==
  ASSUME TypeOK, NEW r \in Request, NEW place \in Place, Goes(r, place)
  PROVE  /\ at' \in [Request -> Place] /\ at'[r] = place
         /\ \A v \in Request \ {r} : at'[v] = at[v]
<1> QED BY DEF TypeOK, Goes, Place

LEMMA FaultCounts == TypeOK /\ Fault => faults' \in 0..MaxFaults /\ faults' # 0
<1> QED BY DEF TypeOK, Fault

\* Every step keeps the types.
LEMMA TypeStep == TypeOK /\ [Next]_vars => TypeOK'
<1> SUFFICES ASSUME TypeOK, [Next]_vars PROVE TypeOK'
  OBVIOUS
<1> USE GoesMoves, FaultCounts DEF TypeOK, Place
<1>1. CASE EditBlogs
  BY <1>1 DEF EditBlogs
<1>2. ASSUME NEW r \in Request, NEW k \in Kind, Arrive(r, k) PROVE TypeOK'
  BY <1>2 DEF Arrive
<1>3. ASSUME NEW r \in Request, Stat(r) PROVE TypeOK'
  BY <1>3 DEF Stat
<1>4. ASSUME NEW r \in Request, Mkdir(r) PROVE TypeOK'
  BY <1>4 DEF Mkdir, MadeDir
<1>5. ASSUME NEW r \in Request, InitDone(r) PROVE TypeOK'
  BY <1>5 DEF InitDone
<1>6. ASSUME NEW r \in Request, Cleanup(r) PROVE TypeOK'
  BY <1>6 DEF Cleanup
<1>7. ASSUME NEW r \in Request, Serve(r) PROVE TypeOK'
  BY <1>7 DEF Serve, AfterGit
<1>8. ASSUME NEW r \in Request, Push(r) \/ PushCut(r) PROVE TypeOK'
  BY <1>8 DEF Push, PushCut, Accept, AfterGit
<1>9. ASSUME NEW r \in Request, ServeFails(r) PROVE TypeOK'
  BY <1>9 DEF ServeFails
<1>10. ASSUME NEW r \in Request, Post(r) \/ PostFails(r) PROVE TypeOK'
  BY <1>10 DEF Post, PostFails
<1>11. ASSUME NEW r \in Request, InitFails(r) \/ Crash(r) PROVE TypeOK'
  BY <1>11 DEF InitFails, Crash, AfterFailure
<1>12. CASE UNCHANGED vars
  BY <1>12 DEF vars
<1> QED BY <1>1, <1>2, <1>3, <1>4, <1>5, <1>6, <1>7, <1>8, <1>9, <1>10, <1>11, <1>12
           DEF Next, Step

\* Only InitFails, which is a fault, sends a request to the clean-up.
LEMMA CleanupStep == TypeOK /\ NoCleanup /\ [Next]_vars => NoCleanup'
<1> SUFFICES ASSUME TypeOK, NoCleanup, [Next]_vars, faults' = 0,
                    NEW r \in Request, at'[r] = "cleanup"
             PROVE  FALSE
  BY DEF NoCleanup
<1>1. faults = 0 /\ ~Fault
  BY FaultCounts DEF Next, Step, vars, TypeOK, EditBlogs, Arrive, Stat, Mkdir, InitDone, InitFails,
     Cleanup, Serve, Push, PushCut, ServeFails, Post, PostFails, Crash, Fault
<1>2. at[r] # "cleanup"
  BY <1>1 DEF NoCleanup
<1>3. PICK v \in Request, place \in Place \ {"cleanup"} : Goes(v, place)
  BY <1>1, <1>2 DEF Next, Step, vars, EditBlogs, Arrive, Stat, Mkdir, InitDone, InitFails,
     Cleanup, Serve, Push, PushCut, ServeFails, Post, PostFails, Crash, AfterGit, Place
<1> QED BY <1>2, <1>3, GoesMoves DEF TypeOK, Place

\* Without a fault a push goes on to post its job, and only a post gets rid of
\* that place.
LEMMA PostedStep == GitInv /\ [Next]_vars => EveryPushPosted'
<1> SUFFICES ASSUME GitInv, [Next]_vars, faults' = 0
             PROVE  posted' = head' \/ \E r \in Request : at'[r] = "post"
  BY DEF EveryPushPosted
<1> USE DEF GitInv
<1>1. faults = 0 /\ ~Fault
  BY FaultCounts DEF Next, Step, vars, TypeOK, EditBlogs, Arrive, Stat, Mkdir, InitDone, InitFails,
     Cleanup, Serve, Push, PushCut, ServeFails, Post, PostFails, Crash, Fault
<1>2. ASSUME NEW r \in Request, Post(r) PROVE posted' = head'
  BY <1>2 DEF Post
<1>3. ASSUME NEW r \in Request, Push(r) PROVE at'[r] = "post"
  BY <1>3, GoesMoves DEF Push, AfterGit, Place
<1>4. ASSUME UNCHANGED <<posted, head>>,
             UNCHANGED at \/ \E r \in Request, place \in Place : at[r] # "post" /\ Goes(r, place)
      PROVE  posted' = head' \/ \E r \in Request : at'[r] = "post"
  <2>1. \A v \in Request : at[v] = "post" => at'[v] = "post"
    BY <1>4, GoesMoves
  <2> QED BY <1>1, <1>4, <2>1 DEF EveryPushPosted
<1>5. ASSUME NEW r \in Request, Cleanup(r) PROVE FALSE
  BY <1>1, <1>5 DEF Cleanup, NoCleanup
<1> QED BY <1>1, <1>2, <1>3, <1>4, <1>5
        DEF Next, Step, vars, EditBlogs, Arrive, Stat, Mkdir, InitDone, InitFails,
            Serve, PushCut, ServeFails, PostFails, Crash, AfterGit, Place, Kind

\* Who made the directory, or failed to fill it, is still at work on it.
LEMMA HalfStep == GitInv /\ [Next]_vars => HalfHasOwner'
<1> SUFFICES ASSUME GitInv, [Next]_vars, dir' = "empty", ~crashed'
             PROVE  \E r \in Request : at'[r] \in {"init", "cleanup"}
  BY DEF HalfHasOwner
<1> USE DEF GitInv
<1>1. ~crashed
  BY DEF Next, Step, vars, EditBlogs, Arrive, Stat, Mkdir, InitDone, InitFails,
     Cleanup, Serve, Push, PushCut, Accept, ServeFails, Post, PostFails, Crash, TypeOK
<1>2. ASSUME NEW r \in Request, Mkdir(r) PROVE at'[r] = "init"
  BY <1>2, GoesMoves DEF Mkdir, Place
<1>3. ASSUME NEW r \in Request, InitFails(r) PROVE at'[r] = "cleanup"
  BY <1>3, GoesMoves DEF InitFails, AfterFailure, Place
<1>4. ASSUME UNCHANGED dir,
             \/ UNCHANGED at
             \/ \E r \in Request, place \in Place : at[r] \notin {"init", "cleanup"} /\ Goes(r, place)
      PROVE  \E r \in Request : at'[r] \in {"init", "cleanup"}
  <2>1. PICK v \in Request : at[v] \in {"init", "cleanup"}
    BY <1>1, <1>4 DEF HalfHasOwner
  <2>2. at'[v] = at[v]
    BY <1>4, <2>1, GoesMoves
  <2> QED BY <2>1, <2>2
<1> QED BY <1>1, <1>2, <1>3, <1>4
        DEF Next, Step, vars, EditBlogs, Arrive, Stat, InitDone, Cleanup,
            Serve, Push, PushCut, Accept, ServeFails, Post, PostFails, Crash, AfterGit, Place, Kind

LEMMA GitStep == GitInv /\ [Next]_vars => GitInv'
<1> QED BY TypeStep, CleanupStep, PostedStep, HalfStep DEF GitInv

\* GitInv holds in every reachable state.
THEOREM GitInvariant == Spec => []GitInv
<1>1. Init => GitInv
  BY InitGit
<1>2. GitInv /\ [Next]_vars => GitInv'
  BY GitStep
<1> QED BY <1>1, <1>2, PTL DEF Spec

\* A directory, a head and a request are always what the types say; no head
\* outlives its directory.
THEOREM GitTypes == Spec => []TypeOK
<1>1. GitInv => TypeOK
  BY DEF GitInv
<1> QED BY <1>1, GitInvariant, PTL

\* Without faults every push is followed by a render job that sees it
\* (receivePackHandler).
THEOREM EveryPushPostedTheorem == Spec => []EveryPushPosted
<1>1. GitInv => EveryPushPosted
  BY DEF GitInv
<1> QED BY <1>1, GitInvariant, PTL

\* A half-made repository is never left alone, unless a process died in
\* ensureRepository.
THEOREM HalfHasOwnerTheorem == Spec => []HalfHasOwner
<1>1. GitInv => HalfHasOwner
  BY DEF GitInv
<1> QED BY <1>1, GitInvariant, PTL

-------------------------------------------------------------------------------
\* Nobody who arrives at a finished repository initialises it again, and only
\* those who do remove it.
LEMMA SettledStep ==
  ASSUME NEW v \in 0..MaxPushes
  PROVE  TypeOK /\ Settled /\ head >= v /\ [Next]_vars => Settled' /\ head' >= v
<1> SUFFICES ASSUME TypeOK, Settled, head >= v, [Next]_vars PROVE Settled' /\ head' >= v
  OBVIOUS
<1> DEFINE Calm == Place \ {"mkdir", "init", "cleanup"}
<1>1. \A r \in Request : at[r] \in Calm
  BY DEF TypeOK, Settled, Initialising, Place
<1>2. UNCHANGED at \/ \E r \in Request, place \in Calm : Goes(r, place)
  BY <1>1 DEF Next, Step, vars, EditBlogs, Arrive, Stat, IsDir, Settled, Mkdir, InitDone,
     InitFails, Cleanup, Serve, Push, PushCut, ServeFails, Post, PostFails, Crash, AfterGit, Place
<1>3. \A r \in Request : at'[r] \in Calm
  BY <1>1, <1>2, GoesMoves
<1>4. dir' = "ready"
  BY <1>1 DEF Next, Step, vars, EditBlogs, Arrive, Stat, Settled, Mkdir, InitDone,
     InitFails, Cleanup, Serve, Push, PushCut, Accept, ServeFails, Post, PostFails, Crash
<1>5. head' >= v
  BY <1>1 DEF TypeOK, Next, Step, vars, EditBlogs, Arrive, Stat, Settled, Mkdir, InitDone,
     InitFails, Cleanup, Serve, Push, PushCut, Accept, ServeFails, Post, PostFails, Crash
<1> QED BY <1>3, <1>4, <1>5 DEF Settled, Initialising

\* Once the repository is settled it keeps every commit that was pushed,
\* whatever fails, crashes or is initialised in vain afterwards.
THEOREM SettledStaysTheorem == Spec => SettledStays
<1> SUFFICES ASSUME NEW v \in 0..MaxPushes
             PROVE  Spec => [](Settled /\ head = v => [](dir = "ready" /\ head >= v))
  BY DEF SettledStays
<1>1. TypeOK /\ (Settled /\ head >= v) /\ [Next]_vars => (Settled /\ head >= v)'
  BY SettledStep
<1>2. Settled /\ head = v => Settled /\ head >= v
  OBVIOUS
<1>3. Settled /\ head >= v => dir = "ready" /\ head >= v
  BY DEF Settled
<1> QED BY <1>1, <1>2, <1>3, GitTypes, PTL DEF Spec
===============================================================================
