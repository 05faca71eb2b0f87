------------------------- MODULE RenderPipelineProofs -------------------------
(***************************************************************************)
(* The safety of the render pipeline in module RenderPipeline, for any     *)
(* number of workers, pushes and pages, with faults anywhere.              *)
(***************************************************************************)
EXTENDS RenderPipeline, FiniteSetTheorems, WellFoundedInduction, SequenceTheorems, TLAPS

\* No job is of a push that is still to come.
JobsBehind ==
  /\ queue \in Seq(1..head) /\ out \subseteq 1..head
  /\ held \in [Worker -> 1..head \union {NoJob}]

\* A worker uploads pages of its clone only.
OwnPages == \A w \in Worker : Rendering(w) => source[w] \in Version /\ todo[w] \subseteq Pages[source[w]]

\* Of two that render at the same time neither is alone.
Company == \A v, w \in Worker : v # w /\ Rendering(v) /\ Rendering(w) => ~alone[w]

\* A worker alone finds nothing newer than its clone on the site, and what it
\* has uploaded is still there.
Undisturbed ==
  \A w \in Worker : Rendering(w) /\ alone[w] =>
    /\ \A p \in Page : output[p] <= source[w]
    /\ \A p \in Pages[source[w]] \ todo[w] : output[p] = source[w]

\* The inductive invariant.
RenderInv == TypeOK /\ JobsBehind /\ FreshEnough /\ OwnPages /\ Company /\ Undisturbed

USE PipelineAssumption DEF PipelineAssumption

-------------------------------------------------------------------------------
\* A set of page numbers that is not empty has a first page.
LEMMA MinFact ==
  ASSUME NEW S \in SUBSET Nat, S # {}
  PROVE  Min(S) \in S
<1> DEFINE R == {ss \in Nat \X Nat : ss[1] < ss[2]}
<1>1. IsWellFoundedOn(R, Nat)
  BY NatLessThanWellFounded DEF OpToRel
<1>2. PICK x \in S : \A y \in S : <<y, x>> \notin R
  <2> HIDE DEF R
  <2> QED BY <1>1, WFMin
<1>3. ASSUME NEW y \in S PROVE x <= y
  <2>1. <<y, x>> \notin R /\ <<y, x>> \in Nat \X Nat
    BY <1>2
  <2>2. ~(y < x)
    BY <2>1
  <2> QED BY <2>2
<1> QED BY <1>3 DEF Min

LEMMA PagesOf == \A v \in Version : Pages[v] \subseteq Page /\ Pages[v] # {}
<1> QED BY DEF Page, Version

LEMMA PageNumbers == Page \subseteq Nat
<1> QED BY DEF Page, Version

\* At the start there is no job and no clone.
LEMMA InitRender == Init => RenderInv
<1> SUFFICES ASSUME Init PROVE RenderInv
  OBVIOUS
<1> USE DEF Init, Q!Init
<1>1. TypeOK
  <2>1. /\ queue \in Seq(Version) /\ out \subseteq Version /\ used = 1..head
        /\ held \in [Worker -> Version \union {NoJob}]
        /\ head \in 0..MaxPushes
    BY DEF Version
  <2>2. session \in BOOLEAN /\ alone \in [Worker -> BOOLEAN]
    BY Zenon
  <2>3. /\ at \in [Worker -> {"idle", "refresh", "clone", "upload", "done", "failed"}]
        /\ source \in [Worker -> 0..head] /\ todo \in [Worker -> SUBSET Page]
        /\ output \in [Page -> 0..head]
        /\ faults \in 0..MaxFaults /\ rendered \in 0..head /\ failed \subseteq Version
    BY DEF Version
  <2>4. \A w \in Worker : /\ at[w] = "idle" <=> held[w] = NoJob
                          /\ at[w] = "upload" <=> todo[w] # {}
    OBVIOUS
  <2> QED BY <2>1, <2>2, <2>3, <2>4, Zenon DEF TypeOK
<1>2. \A w \in Worker : ~Rendering(w)
  BY DEF Rendering
<1>3. JobsBehind
  BY DEF JobsBehind
<1> QED BY <1>1, <1>2, <1>3 DEF RenderInv, FreshEnough, OwnPages, Company, Undisturbed

-------------------------------------------------------------------------------
\* What the work queue does to the jobs in it.

LEMMA WiderJobs ==
  ASSUME JobsBehind, TypeOK
  PROVE  /\ queue \in Seq(1..(head + 1)) /\ 1..head \subseteq 1..(head + 1)
         /\ held \in [Worker -> 1..(head + 1) \union {NoJob}]
<1> QED BY DEF JobsBehind, TypeOK, Version

LEMMA PostJobs ==
  ASSUME JobsBehind, TypeOK, head' = head + 1, Q!Post(head + 1)
  PROVE  JobsBehind' /\ used' = 1..head'
<1>1. head + 1 \in 1..(head + 1) /\ 1..(head + 1) = 1..head \union {head + 1}
  BY DEF TypeOK
<1>2. queue' \in Seq(1..head')
  BY <1>1, WiderJobs DEF Q!Post
<1>3. out' \subseteq 1..head' /\ held' \in [Worker -> 1..head' \union {NoJob}]
  BY WiderJobs DEF Q!Post, JobsBehind
<1>4. used' = 1..head'
  BY <1>1 DEF Q!Post, TypeOK
<1> QED BY <1>2, <1>3, <1>4 DEF JobsBehind

LEMMA PickJobs ==
  ASSUME JobsBehind, TypeOK, NEW w \in Worker, UNCHANGED head, Q!Pick(w)
  PROVE  /\ JobsBehind' /\ UNCHANGED used /\ held'[w] # NoJob
         /\ \A v \in Worker \ {w} : held'[v] = held[v]
<1>1. Head(queue) \in 1..head /\ Tail(queue) \in Seq(1..head)
  <2>1. queue \in Seq(1..head) /\ queue # << >>
    BY DEF Q!Pick, Q!Reserve, JobsBehind
  <2> QED BY <2>1, HeadTailProperties
<1>2. Head(queue) # NoJob
  BY <1>1 DEF TypeOK, Version
<1> QED BY <1>1, <1>2 DEF Q!Pick, Q!Reserve, JobsBehind

\* Finish, and Abandon whether or not the job is taken off.
LEMMA DropJobs ==
  ASSUME JobsBehind, NEW w \in Worker, UNCHANGED head, Q!Finish(w) \/ Q!Abandon(w)
  PROVE  /\ JobsBehind' /\ UNCHANGED used /\ held'[w] = NoJob
         /\ \A v \in Worker \ {w} : held'[v] = held[v]
<1>1. out' \subseteq out /\ UNCHANGED <<queue, used>>
  BY DEF Q!Finish, Q!Abandon
<1>2. held' = [held EXCEPT ![w] = NoJob]
  BY DEF Q!Finish, Q!Abandon
<1> QED BY <1>1, <1>2 DEF JobsBehind

LEMMA PutBackJobs ==
  ASSUME JobsBehind, UNCHANGED head, NEW j \in out, Q!PutBack({j})
  PROVE  JobsBehind' /\ UNCHANGED <<used, held>>
<1>0. Cardinality({j}) = 1
  BY FS_Singleton
<1>1. Q!Cardinality({j}) = Cardinality({j})
  BY DEF Q!Cardinality, Cardinality
<1>2. PICK order \in [1..1 -> {j}] : queue' = queue \o order
  BY <1>0, <1>1 DEF Q!PutBack
<1>3. j \in 1..head
  BY DEF JobsBehind
<1>4. order \in Seq(1..head)
  <2>1. order \in [1..1 -> 1..head]
    BY <1>3
  <2> QED BY <2>1, SeqDef
<1>5. queue' \in Seq(1..head)
  BY <1>2, <1>4 DEF JobsBehind
<1> QED BY <1>5 DEF Q!PutBack, JobsBehind

-------------------------------------------------------------------------------
Place == {"idle", "refresh", "clone", "upload", "done", "failed"}

\* Jobs of pushes that are in the repository are jobs.
LEMMA JobTypes ==
  ASSUME NEW h \in 0..MaxPushes,
         NEW q \in Seq(1..h), NEW o \in SUBSET (1..h), NEW f \in [Worker -> 1..h \union {NoJob}]
  PROVE  q \in Seq(Version) /\ o \subseteq Version /\ f \in [Worker -> Version \union {NoJob}]
<1>1. 1..h \subseteq Version
  BY DEF Version
<1> QED BY <1>1

LEMMA GoesMoves ==
  ASSUME TypeOK, NEW w \in Worker, NEW place \in Place, Goes(w, place)
  PROVE  /\ at' \in [Worker -> Place] /\ at'[w] = place
         /\ \A v \in Worker \ {w} : at'[v] = at[v]
<1> QED BY DEF TypeOK, Goes, Place

LEMMA FaultCounts == TypeOK /\ (Fault \/ UNCHANGED faults) => faults' \in 0..MaxFaults
<1> QED BY DEF TypeOK, Fault

\* A worker in the middle of a job has one, and its push is in the repository.
LEMMA BusyHolds ==
  ASSUME TypeOK, JobsBehind, NEW w \in Worker, at[w] # "idle"
  PROVE  held[w] \in 1..head /\ held[w] \in Version /\ head \in Version
<1>1. held[w] \in 1..head
  BY DEF TypeOK, JobsBehind
<1> QED BY <1>1 DEF TypeOK, Version

\* The page that is uploaded next is one of the pages to do.
LEMMA NextPage ==
  ASSUME TypeOK, NEW w \in Worker, at[w] = "upload"
  PROVE  Min(todo[w]) \in todo[w] /\ Min(todo[w]) \in Page
<1>1. todo[w] \in SUBSET Page /\ todo[w] # {}
  BY DEF TypeOK
<1> QED BY <1>1, MinFact, PageNumbers

\* Every step keeps the types and the jobs behind the head.
LEMMA TypeStep == TypeOK /\ JobsBehind /\ [Next]_vars => TypeOK' /\ JobsBehind'
<1> SUFFICES ASSUME TypeOK, JobsBehind, [Next]_vars PROVE TypeOK' /\ JobsBehind'
  OBVIOUS
<1>1. CASE Push
  <2>1. JobsBehind' /\ used' = 1..head' /\ head' \in 0..MaxPushes
    BY <1>1, PostJobs DEF Push, TypeOK
  <2>2. queue' \in Seq(Version) /\ out' \subseteq Version /\ held' = held
    <3>1. held' = held
      BY <1>1 DEF Push, Q!Post
    <3> QED BY <2>1, <3>1, JobTypes DEF JobsBehind
  <2>3. 0..head \subseteq 0..head'
    BY <1>1 DEF Push, TypeOK
  <2>4. /\ source' \in [Worker -> 0..head'] /\ output' \in [Page -> 0..head'] /\ rendered' \in 0..head'
    BY <1>1, <2>3 DEF Push, TypeOK, workVars
  <2>5. UNCHANGED <<at, todo, session, alone, faults, failed>>
    BY <1>1 DEF Push, workVars
  <2> QED BY <2>1, <2>2, <2>4, <2>5 DEF TypeOK
<1>2. CASE EndSession
  BY <1>2 DEF EndSession, TypeOK, JobsBehind, queueVars, workVars
<1>3. ASSUME NEW w \in Worker, Pick(w) PROVE TypeOK' /\ JobsBehind'
  <2>1. JobsBehind' /\ UNCHANGED used /\ held'[w] # NoJob /\ \A v \in Worker \ {w} : held'[v] = held[v]
    BY <1>3, PickJobs DEF Pick
  <2>2. queue' \in Seq(Version) /\ out' \subseteq Version /\ held' \in [Worker -> Version \union {NoJob}]
    BY <1>3, <2>1, JobTypes DEF Pick, TypeOK, JobsBehind
  <2>3. at' \in [Worker -> Place] /\ at'[w] = "refresh" /\ \A v \in Worker \ {w} : at'[v] = at[v]
    BY <1>3, GoesMoves DEF Pick, Place
  <2>4. source' \in [Worker -> 0..head]
    BY <1>3 DEF Pick, TypeOK
  <2>5. \A v \in Worker : /\ at'[v] = "idle" <=> held'[v] = NoJob
                          /\ at'[v] = "upload" <=> todo'[v] # {}
    BY <1>3, <2>1, <2>3 DEF Pick, TypeOK
  <2> QED BY <1>3, <2>1, <2>2, <2>3, <2>4, <2>5 DEF Pick, TypeOK, Place
<1>4. ASSUME NEW w \in Worker, Refresh(w) PROVE TypeOK' /\ JobsBehind'
  <2>1. at' \in [Worker -> Place] /\ at'[w] = "clone" /\ \A v \in Worker \ {w} : at'[v] = at[v]
    BY <1>4, GoesMoves DEF Refresh, Place
  <2> QED BY <1>4, <2>1 DEF Refresh, TypeOK, JobsBehind, queueVars, Place
<1>5. ASSUME NEW w \in Worker, Clone(w) PROVE TypeOK' /\ JobsBehind'
  <2>1. at' \in [Worker -> Place] /\ at'[w] = "upload" /\ \A v \in Worker \ {w} : at'[v] = at[v]
    BY <1>5, GoesMoves DEF Clone, Place
  <2>2. Pages[head] \subseteq Page /\ Pages[head] # {}
    BY <1>5, BusyHolds, PagesOf DEF Clone
  <2>3. source' \in [Worker -> 0..head]
    BY <1>5 DEF Clone, Cloned, TypeOK
  <2>4. todo' \in [Worker -> SUBSET Page] /\ todo'[w] # {} /\ \A v \in Worker \ {w} : todo'[v] = todo[v]
    BY <1>5, <2>2 DEF Clone, Cloned, Rendered, TypeOK
  <2>5. alone' \in [Worker -> BOOLEAN]
    BY <1>5, Zenon DEF Clone, TypeOK
  <2>6. UNCHANGED <<queue, out, held, used, head, session, output, faults, rendered, failed>>
    BY <1>5 DEF Clone, queueVars
  <2>7. \A v \in Worker : /\ at'[v] = "idle" <=> held'[v] = NoJob
                          /\ at'[v] = "upload" <=> todo'[v] # {}
    BY <1>5, <2>1, <2>4, <2>6 DEF Clone, TypeOK
  <2>8. JobsBehind'
    BY <2>6 DEF JobsBehind
  <2> QED BY <2>1, <2>3, <2>4, <2>5, <2>6, <2>7, <2>8 DEF TypeOK, Place
<1>6. ASSUME NEW w \in Worker, Upload(w) PROVE TypeOK' /\ JobsBehind'
  <2> DEFINE p == Min(todo[w])
  <2>1. p \in Page /\ source[w] \in 0..head
    BY <1>6, NextPage DEF Upload, TypeOK
  <2> HIDE DEF p
  <2>2. output' \in [Page -> 0..head]
    BY <1>6, <2>1 DEF Upload, TypeOK, p
  <2>3. /\ todo' \in [Worker -> SUBSET Page] /\ todo'[w] = Remaining(w, p)
        /\ \A v \in Worker \ {w} : todo'[v] = todo[v]
    BY <1>6 DEF Upload, Remaining, TypeOK, p
  <2>4. /\ at' \in [Worker -> Place] /\ at'[w] = IF Remaining(w, p) # {} THEN "upload" ELSE "done"
        /\ \A v \in Worker \ {w} : at'[v] = at[v]
    BY <1>6, GoesMoves DEF Upload, TypeOK, Place, p
  <2>5. rendered' \in 0..head
    BY <1>6, <2>1 DEF Upload, TypeOK, p
  <2>6. UNCHANGED <<queue, out, held, used, head, session, source, faults, failed, alone>>
    BY <1>6 DEF Upload, queueVars
  <2>7. \A v \in Worker : /\ at'[v] = "idle" <=> held'[v] = NoJob
                          /\ at'[v] = "upload" <=> todo'[v] # {}
    BY <1>6, <2>3, <2>4, <2>6 DEF Upload, TypeOK
  <2>8. JobsBehind'
    BY <2>6 DEF JobsBehind
  <2> QED BY <2>2, <2>3, <2>4, <2>5, <2>6, <2>7, <2>8 DEF TypeOK, Place
<1>7. ASSUME NEW w \in Worker, TurnedAway(w) \/ Fails(w) PROVE TypeOK' /\ JobsBehind'
  <2>1. at[w] # "idle" /\ GivesUp(w) /\ faults' \in 0..MaxFaults
    BY <1>7, FaultCounts DEF TurnedAway, Fails
  <2>2. at' \in [Worker -> Place] /\ at'[w] = "failed" /\ \A v \in Worker \ {w} : at'[v] = at[v]
    BY <2>1, GoesMoves DEF GivesUp, Place
  <2>3. failed' \subseteq Version
    BY <2>1, BusyHolds DEF GivesUp, TypeOK
  <2>4. todo' \in [Worker -> SUBSET Page] /\ todo'[w] = {} /\ \A v \in Worker \ {w} : todo'[v] = todo[v]
    BY <2>1 DEF GivesUp, TypeOK
  <2>5. UNCHANGED <<queue, out, held, used, head, session, source, output, rendered, alone>>
    BY <2>1 DEF GivesUp, queueVars
  <2>6. \A v \in Worker : /\ at'[v] = "idle" <=> held'[v] = NoJob
                          /\ at'[v] = "upload" <=> todo'[v] # {}
    BY <2>1, <2>2, <2>4, <2>5 DEF TypeOK
  <2>7. JobsBehind'
    BY <2>5 DEF JobsBehind
  <2> QED BY <2>1, <2>2, <2>3, <2>4, <2>5, <2>6, <2>7 DEF TypeOK, Place
<1>8. ASSUME NEW w \in Worker, Finish(w) \/ Abandon(w) PROVE TypeOK' /\ JobsBehind'
  <2>1. /\ JobsBehind' /\ UNCHANGED used /\ held'[w] = NoJob
        /\ \A v \in Worker \ {w} : held'[v] = held[v]
    BY <1>8, DropJobs DEF Finish, Abandon
  <2>2. queue' \in Seq(Version) /\ out' \subseteq Version /\ held' \in [Worker -> Version \union {NoJob}]
    BY <1>8, <2>1, JobTypes DEF Finish, Abandon, TypeOK, JobsBehind
  <2>3. at' \in [Worker -> Place] /\ at'[w] = "idle" /\ \A v \in Worker \ {w} : at'[v] = at[v]
    BY <1>8, GoesMoves DEF Finish, Abandon, Place
  <2>4. todo' \in [Worker -> SUBSET Page] /\ todo'[w] = {} /\ \A v \in Worker \ {w} : todo'[v] = todo[v]
    BY <1>8 DEF Finish, Acknowledged, Abandon, TypeOK
  <2>5. UNCHANGED <<head, session, source, output, rendered, failed, alone>> /\ faults' \in 0..MaxFaults
    BY <1>8, FaultCounts DEF Finish, Abandon
  <2>6. \A v \in Worker : /\ at'[v] = "idle" <=> held'[v] = NoJob
                          /\ at'[v] = "upload" <=> todo'[v] # {}
    BY <2>1, <2>3, <2>4 DEF TypeOK
  <2> QED BY <2>1, <2>2, <2>3, <2>4, <2>5, <2>6 DEF TypeOK, Place
<1>9. ASSUME NEW j \in out, PutBack(j) PROVE TypeOK' /\ JobsBehind'
  <2>1. JobsBehind' /\ UNCHANGED <<used, held>>
    BY <1>9, PutBackJobs DEF PutBack
  <2>2. queue' \in Seq(Version) /\ out' \subseteq Version
    BY <1>9, <2>1, JobTypes DEF PutBack, TypeOK, JobsBehind
  <2>3. UNCHANGED <<head, session, at, source, todo, output, rendered, failed, alone>>
    BY <1>9 DEF PutBack, workVars
  <2>4. faults' \in 0..MaxFaults
    BY <1>9, FaultCounts DEF PutBack
  <2> QED BY <2>1, <2>2, <2>3, <2>4 DEF TypeOK
<1>10. CASE UNCHANGED vars
  BY <1>10 DEF vars, queueVars, workVars, TypeOK, JobsBehind
<1> QED BY <1>1, <1>2, <1>3, <1>4, <1>5, <1>6, <1>7, <1>8, <1>9, <1>10 DEF Next, WorkerStep

-------------------------------------------------------------------------------
Site == FreshEnough /\ OwnPages /\ Company /\ Undisturbed

\* A step that neither clones nor uploads: who still renders goes on as before.
LEMMA QuietStep ==
  ASSUME Site, UNCHANGED <<output, alone>>,
         \A w \in Worker : Rendering(w)' =>
           /\ Rendering(w) /\ source'[w] = source[w]
           /\ held'[w] = held[w] /\ todo'[w] = todo[w]
  PROVE  Site'
<1>1. FreshEnough' /\ OwnPages'
  BY DEF Site, FreshEnough, OwnPages
<1>2. Company'
  BY DEF Site, Company
<1>3. Undisturbed'
  BY DEF Site, Undisturbed
<1> QED BY <1>1, <1>2, <1>3 DEF Site

\* Clone takes what is there now, which is newer than the job and than the site.
LEMMA CloneStep ==
  ASSUME TypeOK, JobsBehind, Site, NEW w \in Worker, Clone(w)
  PROVE  Site'
<1> DEFINE others == {v \in Worker \ {w} : Rendering(v)}
<1>1. held[w] \in 1..head /\ head \in Version
  BY BusyHolds DEF Clone
<1>2. /\ source'[w] = head /\ todo'[w] = Pages[head] /\ at'[w] = "upload"
      /\ \A v \in Worker \ {w} : /\ source'[v] = source[v] /\ todo'[v] = todo[v]
                               /\ at'[v] = at[v]
      /\ UNCHANGED <<held, head, output>>
  BY DEF Clone, Cloned, Rendered, Goes, TypeOK, queueVars
<1>3. Rendering(w)' /\ \A v \in Worker \ {w} : Rendering(v)' = Rendering(v)
  BY <1>2 DEF Rendering
<1>4. alone' = [v \in Worker |-> IF v = w THEN others = {} ELSE alone[v] /\ v \notin others]
  BY DEF Clone
<1>5. /\ alone'[w] => others = {}
      /\ \A v \in Worker \ {w} : alone'[v] => alone[v] /\ v \notin others
  BY <1>4, Zenon
<1>6. FreshEnough' /\ OwnPages'
  <2>1. source'[w] >= held'[w] /\ source'[w] \in Version /\ todo'[w] \subseteq Pages[source'[w]]
    BY <1>1, <1>2 DEF Version
  <2>2. ASSUME NEW v \in Worker \ {w}, Rendering(v)'
        PROVE  source'[v] >= held'[v] /\ source'[v] \in Version /\ todo'[v] \subseteq Pages[source'[v]]
    BY <1>2, <1>3, <2>2 DEF Site, FreshEnough, OwnPages
  <2> QED BY <2>1, <2>2 DEF FreshEnough, OwnPages
<1>7. Company'
  <2> SUFFICES ASSUME NEW u \in Worker, NEW v \in Worker, u # v,
                      Rendering(u)', Rendering(v)', alone'[v]
               PROVE  FALSE
    BY DEF Company
  <2>1. CASE v = w
    BY <1>3, <1>5, <2>1
  <2>2. CASE v # w
    BY <1>3, <1>5, <2>2 DEF Site, Company
  <2> QED BY <2>1, <2>2
<1>8. Undisturbed'
  <2> SUFFICES ASSUME NEW v \in Worker, Rendering(v)', alone'[v]
               PROVE  /\ \A p \in Page : output'[p] <= source'[v]
                      /\ \A p \in Pages[source'[v]] \ todo'[v] : output'[p] = source'[v]
    BY DEF Undisturbed
  <2>1. CASE v = w
    BY <1>2, <2>1 DEF TypeOK
  <2>2. CASE v # w
    BY <1>2, <1>3, <1>5, <2>2 DEF Site, Undisturbed
  <2> QED BY <2>1, <2>2
<1> QED BY <1>6, <1>7, <1>8 DEF Site

\* Upload disturbs those who are not alone anyway.
LEMMA UploadStep ==
  ASSUME TypeOK, Site, NEW w \in Worker, Upload(w)
  PROVE  Site'
<1> DEFINE p == Min(todo[w])
<1>1. p \in todo[w] /\ p \in Page
  BY NextPage DEF Upload
<1>2. /\ output' = [output EXCEPT ![p] = source[w]] /\ todo' = [todo EXCEPT ![w] = todo[w] \ {p}]
      /\ UNCHANGED <<held, source, alone>>
  BY DEF Upload, Remaining, queueVars
<1> HIDE DEF p
<1>3. Rendering(w) /\ \A v \in Worker : Rendering(v)' = Rendering(v)
  BY DEF Upload, Rendering, Goes, TypeOK
<1>4. /\ \A v \in Worker \ {w} : todo'[v] = todo[v]
      /\ todo'[w] = todo[w] \ {p}
      /\ output'[p] = source[w] /\ \A q \in Page \ {p} : output'[q] = output[q]
  BY <1>1, <1>2 DEF TypeOK
<1>5. FreshEnough' /\ OwnPages'
  BY <1>2, <1>3, <1>4 DEF Site, FreshEnough, OwnPages
<1>6. Company'
  BY <1>2, <1>3 DEF Site, Company
<1>7. Undisturbed'
  <2> SUFFICES ASSUME NEW v \in Worker, Rendering(v), alone[v]
               PROVE  /\ \A q \in Page : output'[q] <= source[v]
                      /\ \A q \in Pages[source[v]] \ todo'[v] : output'[q] = source[v]
    BY <1>2, <1>3 DEF Undisturbed
  <2>1. v = w
    BY <1>3 DEF Site, Company
  <2>2. source[w] \in Nat /\ source[w] \in Version
    BY <1>3 DEF TypeOK, Site, OwnPages
  <2>3. ASSUME NEW q \in Page PROVE output'[q] <= source[v]
    BY <1>4, <2>1, <2>2 DEF Site, Undisturbed
  <2>4. ASSUME NEW q \in Pages[source[w]] \ todo'[w] PROVE output'[q] = source[w]
    <3>1. q \in Page
      BY <2>2, PagesOf
    <3>2. CASE q = p
      BY <1>4, <3>2
    <3>3. CASE q # p
      BY <1>4, <2>1, <3>1, <3>3 DEF Site, Undisturbed
    <3> QED BY <3>2, <3>3
  <2> QED BY <2>1, <2>3, <2>4
<1> QED BY <1>5, <1>6, <1>7 DEF Site

\* Every step keeps the inductive invariant.
LEMMA RenderStep == RenderInv /\ [Next]_vars => RenderInv'
<1> SUFFICES ASSUME TypeOK, JobsBehind, Site, [Next]_vars PROVE Site'
  BY TypeStep DEF RenderInv, Site
<1>1. CASE Push \/ EndSession \/ UNCHANGED vars
  BY <1>1, QuietStep DEF Push, EndSession, vars, queueVars, workVars, Q!Post, Rendering
<1>2. ASSUME NEW w \in Worker, Pick(w) PROVE Site'
  <2>1. at'[w] = "refresh" /\ \A v \in Worker \ {w} : at'[v] = at[v]
    BY <1>2 DEF Pick, Goes, TypeOK
  <2>2. \A v \in Worker \ {w} : held'[v] = held[v] /\ source'[v] = source[v]
    BY <1>2 DEF Pick, Q!Pick, TypeOK
  <2> QED BY <1>2, <2>1, <2>2, QuietStep DEF Pick, Rendering
<1>3. ASSUME NEW w \in Worker, Refresh(w) PROVE Site'
  <2>1. at'[w] = "clone" /\ \A v \in Worker \ {w} : at'[v] = at[v]
    BY <1>3 DEF Refresh, Goes, TypeOK
  <2> QED BY <1>3, <2>1, QuietStep DEF Refresh, queueVars, Rendering
<1>4. ASSUME NEW w \in Worker, Clone(w) \/ Upload(w) PROVE Site'
  BY <1>4, CloneStep, UploadStep
<1>5. ASSUME NEW w \in Worker, TurnedAway(w) \/ Fails(w) PROVE Site'
  <2>1. at'[w] = "failed" /\ \A v \in Worker \ {w} : at'[v] = at[v] /\ todo'[v] = todo[v]
    BY <1>5 DEF TurnedAway, Fails, GivesUp, Goes, TypeOK
  <2> QED BY <1>5, <2>1, QuietStep DEF TurnedAway, Fails, GivesUp, queueVars, Rendering
<1>6. ASSUME NEW w \in Worker, Finish(w) \/ Abandon(w) PROVE Site'
  <2>1. at'[w] = "idle" /\ \A v \in Worker \ {w} : at'[v] = at[v] /\ todo'[v] = todo[v]
    BY <1>6 DEF Finish, Abandon, Goes, TypeOK
  <2>2. \A v \in Worker \ {w} : held'[v] = held[v]
    BY <1>6, DropJobs DEF Finish, Abandon
  <2> QED BY <1>6, <2>1, <2>2, QuietStep DEF Finish, Abandon, Rendering
<1>7. ASSUME NEW j \in out, PutBack(j) PROVE Site'
  BY <1>7, QuietStep DEF PutBack, Q!PutBack, workVars, Rendering
<1> QED BY <1>1, <1>2, <1>3, <1>4, <1>5, <1>6, <1>7 DEF Next, WorkerStep

\* RenderInv holds in every reachable state.
THEOREM RenderInvariant == Spec => []RenderInv
<1>1. Init => RenderInv
  BY InitRender
<1>2. RenderInv /\ [Next]_vars => RenderInv'
  BY RenderStep
<1> QED BY <1>1, <1>2, PTL DEF Spec

\* Every variable has its type; a worker has a job, and pages to upload, exactly
\* where its render says so.
THEOREM RenderTypes == Spec => []TypeOK
<1>1. RenderInv => TypeOK
  BY DEF RenderInv
<1> QED BY <1>1, RenderInvariant, PTL

\* A render covers the push that its job was posted for (renderBlog clones the
\* repository after the job was picked).
THEOREM FreshEnoughTheorem == Spec => []FreshEnough
<1>1. RenderInv => FreshEnough
  BY DEF RenderInv
<1> QED BY <1>1, RenderInvariant, PTL

\* Who rendered alone has left one whole version on the site, however many
\* renders broke off before.
THEOREM WholeSiteTheorem == Spec => []WholeSite
<1>1. ASSUME RenderInv PROVE WholeSite
  <2> SUFFICES ASSUME NEW w \in Worker, at[w] = "done", alone[w],
                      NEW p \in Pages[source[w]]
               PROVE  output[p] = source[w]
    BY DEF WholeSite
  <2>1. todo[w] = {} /\ Rendering(w)
    BY <1>1 DEF RenderInv, TypeOK, Rendering
  <2> QED BY <1>1, <2>1 DEF RenderInv, Undisturbed
<1> QED BY <1>1, RenderInvariant, PTL

\* A page goes back to an older version only where two workers upload at the
\* same time: the clone of a worker alone is newer than the whole site.
THEOREM NoStepBackTheorem == Spec => NoStepBack
<1>1. ASSUME RenderInv, [Next]_vars, NEW p \in Page, output'[p] < output[p]
      PROVE  \E w \in Worker : at[w] = "upload" /\ ~alone[w]
  <2>1. output' # output
    BY <1>1 DEF RenderInv, TypeOK
  <2>2. PICK w \in Worker : Upload(w)
    BY <1>1, <2>1 DEF Next, WorkerStep, Push, EndSession, Pick, Refresh, Clone, TurnedAway, Fails,
       GivesUp, Finish, Abandon, PutBack, vars
  <2>3. at[w] = "upload" /\ output' = [output EXCEPT ![Min(todo[w])] = source[w]]
    BY <2>2 DEF Upload
  <2>4. output'[p] = source[w]
    BY <1>1, <2>3 DEF RenderInv, TypeOK
  <2>5. ~alone[w]
    BY <1>1, <2>3, <2>4 DEF RenderInv, Undisturbed, Rendering, TypeOK
  <2> QED BY <2>3, <2>5
<1>2. RenderInv /\ [Next]_vars =>
        [\A p \in Page : output'[p] < output[p] => \E w \in Worker : at[w] = "upload" /\ ~alone[w]]_vars
  BY <1>1
<1> QED BY <1>2, RenderInvariant, PTL DEF Spec, NoStepBack
===============================================================================
