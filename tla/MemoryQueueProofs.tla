--------------------------- MODULE MemoryQueueProofs ---------------------------
(***************************************************************************)
(* The safety of the in-memory queue in module MemoryQueue, for any number *)
(* of workers and posts, any capacity and any TTR, with late workers.      *)
(***************************************************************************)
EXTENDS MemoryQueue, FiniteSetTheorems, TLAPS

\* The ids in use were drawn, and groom works on jobs of the map.
Drawn ==
  /\ \A j \in Waiting \union Received \union Reserved \union InGroom : j <= lastID
  /\ expired \subseteq Reserved

\* The inductive invariant.
MemoryInv == TypeOK /\ OnePlace /\ NothingLost /\ Drawn

USE MemoryAssumption DEF MemoryAssumption

-------------------------------------------------------------------------------
\* Nothing is posted, reserved or under way at first.
LEMMA InitMemory == Init => MemoryInv
<1> SUFFICES ASSUME Init PROVE MemoryInv
  OBVIOUS
<1>1. TypeOK
  BY DEF Init, TypeOK, Job, Age, NotReserved
<1>2. Waiting = {} /\ Received = {} /\ Reserved = {} /\ InGroom = {}
  BY DEF Init, Waiting, Received, Reserved, InGroom
<1>3. OnePlace
  BY <1>2 DEF Init, OnePlace
<1>4. NothingLost /\ Drawn
  BY <1>2 DEF Init, NothingLost, Drawn
<1> QED BY <1>1, <1>3, <1>4 DEF MemoryInv

\* A job enters the channel behind the others.
LEMMA AppendFacts ==
  ASSUME NEW c \in Seq(Job), NEW j \in Job,
         \A i \in DOMAIN c : c[i] # j,
         \A i, k \in DOMAIN c : c[i] = c[k] => i = k
  PROVE  LET d == Append(c, j)
         IN  /\ d \in Seq(Job) /\ Len(d) = Len(c) + 1
             /\ \A i, k \in DOMAIN d : d[i] = d[k] => i = k
             /\ {d[i] : i \in DOMAIN d} = {c[i] : i \in DOMAIN c} \union {j}
<1> DEFINE d == Append(c, j)
           n == Len(c)
<1>1. /\ n \in Nat /\ DOMAIN c = 1..n /\ DOMAIN d = 1..(n + 1) /\ d \in Seq(Job)
      /\ Len(d) = n + 1 /\ d[n + 1] = j /\ \A i \in 1..n : d[i] = c[i]
  OBVIOUS
<1> HIDE DEF d, n
<1>2. \A i \in 1..(n + 1) : i = n + 1 \/ i \in 1..n
  BY <1>1
<1>3. 1..n \subseteq 1..(n + 1) /\ n + 1 \in 1..(n + 1)
  BY <1>1
<1>4. \A i, k \in DOMAIN d : d[i] = d[k] => i = k
  BY <1>1, <1>2
<1>5. {d[i] : i \in DOMAIN d} = {c[i] : i \in DOMAIN c} \union {j}
  <2>1. ASSUME NEW i \in 1..(n + 1) PROVE d[i] \in {c[k] : k \in 1..n} \union {j}
    BY <1>1, <1>2
  <2>2. j \in {d[i] : i \in 1..(n + 1)}
    BY <1>1, <1>3
  <2>3. ASSUME NEW i \in 1..n PROVE c[i] \in {d[k] : k \in 1..(n + 1)}
    BY <1>1, <1>3
  <2>4. ASSUME NEW x \in {d[i] : i \in 1..(n + 1)}
        PROVE  x \in {c[i] : i \in 1..n} \union {j}
    <3>1. PICK i \in 1..(n + 1) : x = d[i]
      OBVIOUS
    <3> QED BY <3>1, <2>1
  <2>5. ASSUME NEW x \in {c[i] : i \in 1..n} PROVE x \in {d[i] : i \in 1..(n + 1)}
    <3>1. PICK i \in 1..n : x = c[i]
      OBVIOUS
    <3> QED BY <3>1, <2>3
  <2>6. {d[i] : i \in 1..(n + 1)} = {c[i] : i \in 1..n} \union {j}
    BY <2>2, <2>4, <2>5
  <2> QED BY <1>1, <2>6
<1> QED BY <1>1, <1>4, <1>5 DEF d, n

\* The head of the channel leaves it.
LEMMA TailFacts ==
  ASSUME NEW c \in Seq(Job), c # << >>,
         \A i, k \in DOMAIN c : c[i] = c[k] => i = k
  PROVE  LET d == Tail(c)
         IN  /\ d \in Seq(Job) /\ Len(d) = Len(c) - 1 /\ Head(c) \in Job
             /\ Head(c) \in {c[i] : i \in DOMAIN c}
             /\ \A i, k \in DOMAIN d : d[i] = d[k] => i = k
             /\ {d[i] : i \in DOMAIN d} = {c[i] : i \in DOMAIN c} \ {Head(c)}
<1> DEFINE d == Tail(c)
           n == Len(c) - 1
           h == Head(c)
<1>1. /\ n \in Nat /\ DOMAIN c = 1..(n + 1) /\ DOMAIN d = 1..n /\ d \in Seq(Job)
      /\ Len(d) = n /\ h = c[1] /\ h \in Job /\ \A i \in 1..n : d[i] = c[i + 1]
  OBVIOUS
<1> HIDE DEF d, n, h
<1>2. \A i \in 1..n : i + 1 \in 1..(n + 1) /\ i + 1 # 1
  BY <1>1
<1>3. ASSUME NEW i \in 1..(n + 1), i # 1 PROVE \E k \in 1..n : i = k + 1
  <2>1. i - 1 \in 1..n /\ i = (i - 1) + 1
    BY <1>1, <1>3
  <2> QED BY <2>1
<1>4. 1 \in 1..(n + 1)
  BY <1>1
<1>5. ASSUME NEW i \in 1..n, NEW k \in 1..n, d[i] = d[k] PROVE i = k
  <2>1. i + 1 = k + 1
    BY <1>1, <1>2, <1>5
  <2> QED BY <2>1
<1>6. ASSUME NEW i \in 1..n PROVE d[i] \in {c[k] : k \in 1..(n + 1)} \ {h}
  BY <1>1, <1>2, <1>4
<1>7. ASSUME NEW i \in 1..(n + 1), c[i] # h PROVE c[i] \in {d[k] : k \in 1..n}
  <2>1. PICK k \in 1..n : i = k + 1
    BY <1>1, <1>3, <1>7
  <2>2. d[k] = c[i]
    BY <1>1, <2>1
  <2> QED BY <2>2
<1>8. {d[i] : i \in DOMAIN d} = {c[i] : i \in DOMAIN c} \ {h}
  <2>1. ASSUME NEW x \in {d[i] : i \in 1..n} PROVE x \in {c[i] : i \in 1..(n + 1)} \ {h}
    <3>1. PICK i \in 1..n : x = d[i]
      OBVIOUS
    <3> QED BY <3>1, <1>6
  <2>2. ASSUME NEW x \in {c[i] : i \in 1..(n + 1)} \ {h} PROVE x \in {d[i] : i \in 1..n}
    <3>1. PICK i \in 1..(n + 1) : x = c[i]
      OBVIOUS
    <3> QED BY <3>1, <1>7
  <2>3. {d[i] : i \in 1..n} = {c[i] : i \in 1..(n + 1)} \ {h}
    BY <2>1, <2>2
  <2> QED BY <1>1, <2>3
<1>9. h \in {c[i] : i \in DOMAIN c}
  BY <1>1, <1>4
<1> QED BY <1>1, <1>5, <1>8, <1>9 DEF d, n, h

-------------------------------------------------------------------------------
\* The same two facts, of a step that appends to the channel or takes its head.
LEMMA ChannelAppend ==
  ASSUME MemoryInv, NEW j \in Job, channel' = Append(channel, j),
         \A i \in DOMAIN channel : channel[i] # j
  PROVE  /\ channel' \in Seq(Job) /\ Len(channel') = Len(channel) + 1
         /\ \A i, k \in DOMAIN channel' : channel'[i] = channel'[k] => i = k
         /\ Waiting' = Waiting \union {j}
<1>1. /\ channel \in Seq(Job)
      /\ \A i, k \in DOMAIN channel : channel[i] = channel[k] => i = k
  BY DEF MemoryInv, TypeOK, OnePlace
<1> DEFINE d == Append(channel, j)
<1>2. /\ d \in Seq(Job) /\ Len(d) = Len(channel) + 1
      /\ \A i, k \in DOMAIN d : d[i] = d[k] => i = k
      /\ {d[i] : i \in DOMAIN d} = {channel[i] : i \in DOMAIN channel} \union {j}
  BY <1>1, AppendFacts
<1>3. channel' = d
  OBVIOUS
<1> HIDE DEF d
<1> QED BY <1>2, <1>3 DEF Waiting

LEMMA ChannelTail ==
  ASSUME MemoryInv, channel # << >>, channel' = Tail(channel)
  PROVE  /\ channel' \in Seq(Job) /\ Len(channel') = Len(channel) - 1
         /\ Head(channel) \in Job /\ Head(channel) \in Waiting
         /\ \A i, k \in DOMAIN channel' : channel'[i] = channel'[k] => i = k
         /\ Waiting' = Waiting \ {Head(channel)}
<1>1. /\ channel \in Seq(Job)
      /\ \A i, k \in DOMAIN channel : channel[i] = channel[k] => i = k
  BY DEF MemoryInv, TypeOK, OnePlace
<1> DEFINE d == Tail(channel)
           h == Head(channel)
<1>2. /\ d \in Seq(Job) /\ Len(d) = Len(channel) - 1 /\ h \in Job
      /\ h \in {channel[i] : i \in DOMAIN channel}
      /\ \A i, k \in DOMAIN d : d[i] = d[k] => i = k
      /\ {d[i] : i \in DOMAIN d} = {channel[i] : i \in DOMAIN channel} \ {h}
  BY <1>1, TailFacts
<1>3. channel' = d
  OBVIOUS
<1> HIDE DEF d, h
<1>4. h \in Waiting /\ Waiting' = Waiting \ {h}
  BY <1>2, <1>3 DEF Waiting
<1>5. h = Head(channel)
  BY DEF h
<1> QED BY <1>2, <1>3, <1>4, <1>5

-------------------------------------------------------------------------------
\* Post uses up an id, and keeps the job unless the channel is full.
LEMMA PostStep ==
  ASSUME MemoryInv, Post
  PROVE  MemoryInv'
<1> USE DEF MemoryInv
<1> DEFINE j == lastID + 1
<1>1. /\ UNCHANGED <<metadata, at, holding, expired, sending, finished>>
      /\ lastID' = j /\ lastID \in Nat /\ j \in Job /\ lastID' \in 0..MaxPosts
  BY DEF Post, workerVars, groomVars, TypeOK, Job
<1>2. UNCHANGED <<Received, Reserved, InGroom>>
  BY <1>1 DEF Received, Reserved, InGroom
<1>3. \A i \in Waiting \union Received \union Reserved \union InGroom : i # j /\ i \in Job
  BY <1>1 DEF Drawn, TypeOK, Job, Waiting, Received, Reserved, InGroom
<1>4. CASE Full
  <2>1. UNCHANGED <<channel, posted>>
    BY <1>4 DEF Post
  <2>2. TypeOK'
    BY <1>1, <2>1 DEF TypeOK
  <2>3. Waiting' = Waiting
    BY <2>1 DEF Waiting
  <2>4. OnePlace' /\ NothingLost'
    BY <1>1, <1>2, <2>1, <2>3 DEF OnePlace, NothingLost
  <2>5. Drawn'
    BY <1>1, <1>2, <1>3, <2>3 DEF Drawn, Job
  <2> QED BY <2>2, <2>4, <2>5
<1>5. CASE ~Full
  <2>1. channel' = Append(channel, j) /\ posted' = posted \union {j}
    BY <1>5 DEF Post
  <2>2. \A i \in DOMAIN channel : channel[i] # j
    BY <1>3 DEF Waiting
  <2>3. /\ channel' \in Seq(Job) /\ Len(channel') = Len(channel) + 1
        /\ \A i, k \in DOMAIN channel' : channel'[i] = channel'[k] => i = k
        /\ Waiting' = Waiting \union {j}
    BY <1>1, <2>1, <2>2, ChannelAppend
  <2>4. Len(channel') <= Capacity
    BY <1>5, <2>3 DEF Full, TypeOK
  <2>5. TypeOK'
    BY <1>1, <2>1, <2>3, <2>4 DEF TypeOK
  <2>6. OnePlace'
    BY <1>1, <1>2, <1>3, <2>3 DEF OnePlace
  <2>7. NothingLost'
    BY <1>1, <1>2, <2>1, <2>3 DEF NothingLost
  <2>8. Drawn'
    BY <1>1, <1>2, <1>3, <2>3 DEF Drawn, Job
  <2> QED BY <2>5, <2>6, <2>7, <2>8
<1> QED BY <1>4, <1>5

\* The receive moves a job from the channel to the worker.
LEMMA ReceiveStep ==
  ASSUME MemoryInv, NEW w \in Worker, Receive(w)
  PROVE  MemoryInv'
<1> USE DEF MemoryInv
<1> DEFINE j == Head(channel)
<1>1. /\ UNCHANGED <<lastID, metadata, expired, sending, posted, finished>>
      /\ at[w] = "idle" /\ channel # << >> /\ channel' = Tail(channel)
      /\ at' = [at EXCEPT ![w] = "received"]
      /\ holding' = [holding EXCEPT ![w] = j]
  BY DEF Receive, groomVars
<1>2. /\ channel' \in Seq(Job) /\ Len(channel') = Len(channel) - 1 /\ j \in Job
      /\ j \in Waiting
      /\ \A i, k \in DOMAIN channel' : channel'[i] = channel'[k] => i = k
      /\ Waiting' = Waiting \ {j}
  BY <1>1, ChannelTail
<1> HIDE DEF j
<1>3. \A v \in Worker : IF v = w THEN at'[v] = "received" /\ holding'[v] = j
                        ELSE at'[v] = at[v] /\ holding'[v] = holding[v]
  BY <1>1 DEF TypeOK
<1>4. UNCHANGED <<Reserved, InGroom>>
  BY <1>1 DEF Reserved, InGroom
<1>5. Received' = Received \union {j}
  BY <1>1, <1>3 DEF Received
<1>6. TypeOK'
  <2>1. Len(channel') <= Capacity
    BY <1>2 DEF TypeOK
  <2>2. /\ at' \in [Worker -> {"idle", "received", "running"}]
        /\ holding' \in [Worker -> Job \union {NoJob}]
    BY <1>1, <1>2 DEF TypeOK
  <2>3. \A v \in Worker : at'[v] = "idle" <=> holding'[v] = NoJob
    BY <1>2, <1>3 DEF TypeOK
  <2> QED BY <1>1, <1>2, <2>1, <2>2, <2>3 DEF TypeOK
<1>7. OnePlace'
  <2>1. \A v \in Worker : at[v] = "received" => holding[v] # j
    BY <1>2 DEF OnePlace, Received
  <2>2. \A u, v \in Worker : at'[u] = "received" /\ at'[v] = "received"
                             /\ holding'[u] = holding'[v] => u = v
    BY <1>3, <2>1 DEF OnePlace
  <2> QED BY <1>2, <1>4, <1>5, <2>2 DEF OnePlace
<1>8. NothingLost' /\ Drawn'
  BY <1>1, <1>2, <1>4, <1>5 DEF NothingLost, Drawn
<1> QED BY <1>6, <1>7, <1>8

\* reserveEntry moves it to the map.
LEMMA ReserveStep ==
  ASSUME MemoryInv, NEW w \in Worker, ReserveEntry(w)
  PROVE  MemoryInv'
<1> USE DEF MemoryInv
<1> DEFINE j == holding[w]
<1>1. /\ UNCHANGED <<lastID, channel, holding, expired, sending, posted, finished>>
      /\ at[w] = "received" /\ expired = {} /\ sending = NoJob
      /\ metadata' = [metadata EXCEPT ![j] = 0]
      /\ at' = [at EXCEPT ![w] = "running"]
  BY DEF ReserveEntry, MutexFree, groomVars
<1>2. j \in Job /\ j \in Received
  BY <1>1 DEF TypeOK, Received
<1>3. Reserved' = Reserved \union {j}
  BY <1>1, <1>2 DEF Reserved, TypeOK, NotReserved
<1>4. \A v \in Worker : at'[v] = IF v = w THEN "running" ELSE at[v]
  BY <1>1 DEF TypeOK
<1>5. Received' = Received \ {j}
  BY <1>1, <1>4 DEF Received, OnePlace
<1>6. UNCHANGED <<Waiting, InGroom>>
  BY <1>1 DEF Waiting, InGroom
<1>7. TypeOK'
  <2>1. metadata' \in [Job -> Age]
    BY <1>1, <1>2 DEF TypeOK, Age, NotReserved
  <2>2. at' \in [Worker -> {"idle", "received", "running"}]
    BY <1>1 DEF TypeOK
  <2> QED BY <1>1, <1>4, <2>1, <2>2 DEF TypeOK
<1>8. OnePlace'
  BY <1>1, <1>2, <1>3, <1>4, <1>5, <1>6 DEF OnePlace
<1>9. NothingLost' /\ Drawn'
  BY <1>1, <1>2, <1>3, <1>5, <1>6 DEF NothingLost, Drawn
<1> QED BY <1>7, <1>8, <1>9

\* Finish takes it out, whoever reserved it last.
LEMMA FinishStep ==
  ASSUME MemoryInv, NEW w \in Worker, Finish(w)
  PROVE  MemoryInv'
<1> USE DEF MemoryInv
<1> DEFINE j == holding[w]
<1>1. /\ UNCHANGED <<lastID, channel, expired, sending, posted>>
      /\ at[w] = "running" /\ expired = {} /\ sending = NoJob
      /\ metadata' = [metadata EXCEPT ![j] = NotReserved]
      /\ finished' = finished \union {j}
      /\ at' = [at EXCEPT ![w] = "idle"]
      /\ holding' = [holding EXCEPT ![w] = NoJob]
  BY DEF Finish, MutexFree, groomVars
<1>2. j \in Job
  BY <1>1 DEF TypeOK
<1>3. Reserved' = Reserved \ {j}
  BY <1>1, <1>2 DEF Reserved, TypeOK
<1>4. \A v \in Worker : IF v = w THEN at'[v] = "idle" /\ holding'[v] = NoJob
                        ELSE at'[v] = at[v] /\ holding'[v] = holding[v]
  BY <1>1 DEF TypeOK
<1>5. Received' = Received
  BY <1>1, <1>4 DEF Received
<1>6. UNCHANGED <<Waiting, InGroom>>
  BY <1>1 DEF Waiting, InGroom
<1>7. TypeOK'
  <2>1. metadata' \in [Job -> Age]
    BY <1>1, <1>2 DEF TypeOK, Age, NotReserved
  <2>2. /\ at' \in [Worker -> {"idle", "received", "running"}]
        /\ holding' \in [Worker -> Job \union {NoJob}]
    BY <1>1 DEF TypeOK
  <2>3. \A v \in Worker : at'[v] = "idle" <=> holding'[v] = NoJob
    BY <1>4 DEF TypeOK
  <2>4. finished' \subseteq Job
    BY <1>1, <1>2 DEF TypeOK
  <2> QED BY <1>1, <2>1, <2>2, <2>3, <2>4 DEF TypeOK
<1>8. OnePlace'
  BY <1>1, <1>3, <1>4, <1>5, <1>6 DEF OnePlace
<1>9. NothingLost' /\ Drawn'
  BY <1>1, <1>3, <1>5, <1>6 DEF NothingLost, Drawn
<1> QED BY <1>7, <1>8, <1>9

\* groom finds what is overdue: jobs of the map.
LEMMA GroomStartStep ==
  ASSUME MemoryInv, GroomStart
  PROVE  MemoryInv'
<1> USE DEF MemoryInv
<1>1. /\ UNCHANGED <<lastID, channel, metadata, at, holding, sending, posted, finished>>
      /\ expired' = {j \in Job : Overdue(j)}
  BY DEF GroomStart, workerVars
<1>2. UNCHANGED <<Waiting, Received, Reserved, InGroom>>
  BY <1>1 DEF Waiting, Received, Reserved, InGroom
<1>3. expired' \subseteq Reserved
  BY <1>1 DEF Overdue, Reserved, NotReserved
<1>4. TypeOK'
  BY <1>1 DEF TypeOK
<1>5. OnePlace' /\ NothingLost'
  BY <1>1, <1>2 DEF OnePlace, NothingLost
<1>6. Drawn'
  BY <1>1, <1>2, <1>3 DEF Drawn
<1> QED BY <1>4, <1>5, <1>6

\* groom takes one of them out of the map.
LEMMA GroomDeleteStep ==
  ASSUME MemoryInv, NEW j \in expired, GroomDelete(j)
  PROVE  MemoryInv'
<1> USE DEF MemoryInv
<1>1. /\ UNCHANGED <<lastID, channel, at, holding, posted, finished>>
      /\ sending = NoJob /\ sending' = j /\ expired' = expired \ {j}
      /\ metadata' = [metadata EXCEPT ![j] = NotReserved]
  BY DEF GroomDelete, workerVars
<1>2. j \in Job /\ j \in Reserved /\ j # NoJob
  BY DEF TypeOK, Drawn
<1>3. Reserved' = Reserved \ {j}
  BY <1>1, <1>2 DEF Reserved, TypeOK
<1>4. InGroom = {} /\ InGroom' = {j}
  BY <1>1, <1>2 DEF InGroom
<1>5. UNCHANGED <<Waiting, Received>>
  BY <1>1 DEF Waiting, Received
<1>6. TypeOK'
  <2>1. metadata' \in [Job -> Age]
    BY <1>1, <1>2 DEF TypeOK, Age, NotReserved
  <2> QED BY <1>1, <1>2, <2>1 DEF TypeOK
<1>7. OnePlace'
  BY <1>1, <1>2, <1>3, <1>4, <1>5 DEF OnePlace
<1>8. NothingLost' /\ Drawn'
  BY <1>1, <1>2, <1>3, <1>4, <1>5 DEF NothingLost, Drawn
<1> QED BY <1>6, <1>7, <1>8

\* groom gets it into the channel.
LEMMA GroomSendStep ==
  ASSUME MemoryInv, GroomSend
  PROVE  MemoryInv'
<1> USE DEF MemoryInv
<1> DEFINE j == sending
<1>1. /\ UNCHANGED <<lastID, metadata, at, holding, expired, posted, finished>>
      /\ j # NoJob /\ ~Full /\ sending' = NoJob
      /\ channel' = Append(channel, j)
  BY DEF GroomSend, workerVars
<1>2. j \in Job /\ InGroom = {j} /\ InGroom' = {}
  BY <1>1 DEF TypeOK, InGroom
<1>3. \A i \in DOMAIN channel : channel[i] # j
  BY <1>2 DEF OnePlace, Waiting
<1>4. /\ channel' \in Seq(Job) /\ Len(channel') = Len(channel) + 1
      /\ \A i, k \in DOMAIN channel' : channel'[i] = channel'[k] => i = k
      /\ Waiting' = Waiting \union {j}
  BY <1>1, <1>2, <1>3, ChannelAppend
<1>5. UNCHANGED <<Received, Reserved>>
  BY <1>1 DEF Received, Reserved
<1>6. TypeOK'
  <2>1. Len(channel') <= Capacity
    BY <1>1, <1>4 DEF Full, TypeOK
  <2> QED BY <1>1, <1>4, <2>1 DEF TypeOK
<1>7. OnePlace'
  BY <1>1, <1>2, <1>4, <1>5 DEF OnePlace
<1>8. NothingLost' /\ Drawn'
  BY <1>1, <1>2, <1>4, <1>5 DEF NothingLost, Drawn
<1> QED BY <1>6, <1>7, <1>8

\* Time makes entries older and reserves none.
LEMMA TickStep ==
  ASSUME MemoryInv, Tick
  PROVE  MemoryInv'
<1> USE DEF MemoryInv
<1>1. /\ UNCHANGED <<lastID, channel, at, holding, expired, sending, posted, finished>>
      /\ metadata' = [j \in Job |-> IF metadata[j] \in {NotReserved, TTR + 1}
                                    THEN metadata[j] ELSE metadata[j] + 1]
  BY DEF Tick, workerVars, groomVars
<1>2. metadata' \in [Job -> Age]
  BY <1>1 DEF TypeOK, Age, NotReserved
<1>3. \A j \in Job : metadata'[j] = NotReserved <=> metadata[j] = NotReserved
  BY <1>1 DEF TypeOK, Age, NotReserved
<1>4. Reserved' = Reserved
  BY <1>3 DEF Reserved
<1>5. UNCHANGED <<Waiting, Received, InGroom>>
  BY <1>1 DEF Waiting, Received, InGroom
<1>6. TypeOK'
  BY <1>1, <1>2 DEF TypeOK
<1>7. OnePlace' /\ NothingLost' /\ Drawn'
  BY <1>1, <1>4, <1>5 DEF OnePlace, NothingLost, Drawn
<1> QED BY <1>6, <1>7

\* Every step keeps the inductive invariant.
LEMMA MemoryStep == MemoryInv /\ [Next]_vars => MemoryInv'
<1> SUFFICES ASSUME MemoryInv, [Next]_vars PROVE MemoryInv'
  OBVIOUS
<1>1. CASE UNCHANGED vars
  BY <1>1 DEF vars, MemoryInv, TypeOK, OnePlace, NothingLost, Drawn, Waiting, Received,
              Reserved, InGroom
<1>2. CASE Next
  BY <1>2, PostStep, ReceiveStep, ReserveStep, FinishStep, GroomStartStep, GroomDeleteStep,
     GroomSendStep, TickStep DEF Next
<1> QED BY <1>1, <1>2

-------------------------------------------------------------------------------
\* The inductive invariant holds in every reachable state.
THEOREM MemoryInvariant == Spec => []MemoryInv
<1> QED BY InitMemory, MemoryStep, PTL DEF Spec

\* Every variable of the in-memory queue keeps its type, and the channel its
\* capacity.
THEOREM MemoryTypes == Spec => []TypeOK
<1>1. MemoryInv => TypeOK
  BY DEF MemoryInv
<1> QED BY <1>1, MemoryInvariant, PTL

\* The entry of a job is in one place at a time, although Pick, Finish and groom
\* interleave and workers may be late.
THEOREM OnePlaceTheorem == Spec => []OnePlace
<1>1. MemoryInv => OnePlace
  BY DEF MemoryInv
<1> QED BY <1>1, MemoryInvariant, PTL

\* A job that Post accepted is in one of these places until a worker finishes it.
THEOREM NothingLostTheorem == Spec => []NothingLost
<1>1. MemoryInv => NothingLost
  BY DEF MemoryInv
<1> QED BY <1>1, MemoryInvariant, PTL

-------------------------------------------------------------------------------
\* An id is drawn before it is posted.
PostedDrawn == \A j \in posted : j <= lastID

LEMMA PostedStep == MemoryInv /\ PostedDrawn /\ [Next]_vars => PostedDrawn'
<1> SUFFICES ASSUME MemoryInv, PostedDrawn, [Next]_vars PROVE PostedDrawn'
  OBVIOUS
<1>1. lastID \in Nat /\ posted \subseteq Job
  BY DEF MemoryInv, TypeOK
<1>2. CASE Post
  <2>1. lastID' = lastID + 1 /\ posted' \subseteq posted \union {lastID + 1}
    BY <1>2 DEF Post
  <2>2. \A j \in posted' : (j \in Job /\ j <= lastID) \/ j = lastID + 1
    BY <1>1, <2>1 DEF PostedDrawn
  <2> QED BY <1>1, <2>1, <2>2 DEF PostedDrawn, Job
<1>3. CASE UNCHANGED <<lastID, posted>>
  BY <1>3 DEF PostedDrawn
<1> QED BY <1>2, <1>3 DEF Next, Receive, ReserveEntry, Finish, GroomStart, GroomDelete, GroomSend, Tick, vars

\* The jobs that module WorkQueue calls reserved.
Out == Received \union Reserved \union InGroom

\* The worker that receives a job has picked it.
LEMMA ReceiveImplements ==
  ASSUME MemoryInv, NEW w \in Worker, Receive(w)
  PROVE  WQ!Pick(w)
<1> DEFINE j == Head(channel)
<1>1. /\ UNCHANGED <<metadata, sending, posted>>
      /\ at[w] = "idle" /\ channel # << >> /\ channel' = Tail(channel)
      /\ at' = [at EXCEPT ![w] = "received"] /\ holding' = [holding EXCEPT ![w] = j]
  BY DEF Receive, groomVars
<1> HIDE DEF j
<1>2. \A v \in Worker : IF v = w THEN at'[v] = "received" /\ holding'[v] = j
                        ELSE at'[v] = at[v] /\ holding'[v] = holding[v]
  BY <1>1 DEF MemoryInv, TypeOK
<1>3. Received' = Received \union {j} /\ UNCHANGED <<Reserved, InGroom>>
  BY <1>1, <1>2 DEF Received, Reserved, InGroom
<1>4. Out' = Out \union {j}
  BY <1>3 DEF Out
<1>5. holding[w] = NoJob
  BY <1>1 DEF MemoryInv, TypeOK
<1> QED BY <1>1, <1>4, <1>5 DEF WQ!Pick, WQ!Reserve, Out, j

\* reserveEntry is not visible: the job has been reserved since the receive.
LEMMA ReserveImplements ==
  ASSUME MemoryInv, NEW w \in Worker, ReserveEntry(w)
  PROVE  UNCHANGED <<channel, Out, holding, posted>>
<1> DEFINE j == holding[w]
<1>1. /\ UNCHANGED <<channel, holding, posted, sending>> /\ at[w] = "received"
      /\ metadata' = [metadata EXCEPT ![j] = 0] /\ at' = [at EXCEPT ![w] = "running"]
  BY DEF ReserveEntry, groomVars
<1>2. j \in Job /\ j \in Received
  BY <1>1 DEF MemoryInv, TypeOK, Received
<1>3. Reserved' = Reserved \union {j}
  BY <1>1, <1>2 DEF Reserved, MemoryInv, TypeOK, NotReserved
<1>4. \A v \in Worker : at'[v] = IF v = w THEN "running" ELSE at[v]
  BY <1>1 DEF MemoryInv, TypeOK
<1>5. Received' = Received \ {j} /\ UNCHANGED InGroom
  BY <1>1, <1>4 DEF Received, InGroom, MemoryInv, OnePlace
<1> QED BY <1>1, <1>2, <1>3, <1>5 DEF Out

\* A job that went back while its worker ran it stays reserved, if another
\* worker has just received it.
LEMMA FinishImplements ==
  ASSUME MemoryInv, NEW w \in Worker, Finish(w)
  PROVE  WQ!Finish(w)
<1> DEFINE j == holding[w]
<1>1. /\ UNCHANGED <<channel, posted, sending>> /\ at[w] = "running" /\ sending = NoJob
      /\ metadata' = [metadata EXCEPT ![j] = NotReserved]
      /\ at' = [at EXCEPT ![w] = "idle"] /\ holding' = [holding EXCEPT ![w] = NoJob]
  BY DEF Finish, MutexFree, groomVars
<1>2. j \in Job /\ j # NoJob
  BY <1>1 DEF MemoryInv, TypeOK
<1>3. Reserved' = Reserved \ {j}
  BY <1>1, <1>2 DEF Reserved, MemoryInv, TypeOK
<1>4. \A v \in Worker : IF v = w THEN at'[v] = "idle"
                        ELSE at'[v] = at[v] /\ holding'[v] = holding[v]
  BY <1>1 DEF MemoryInv, TypeOK
<1>5. Received' = Received /\ InGroom = {} /\ InGroom' = {}
  BY <1>1, <1>4 DEF Received, InGroom
<1>6. Received \intersect Reserved = {}
  BY DEF MemoryInv, OnePlace
<1>7. CASE j \in Received
  <2>1. Out' = Out
    BY <1>3, <1>5, <1>6, <1>7 DEF Out
  <2>2. \E v \in Worker \ {w} : holding[v] = j
    BY <1>1, <1>7 DEF Received
  <2> QED BY <1>1, <1>2, <2>1, <2>2 DEF WQ!Finish, Out
<1>8. CASE j \notin Received
  <2>1. Out' = Out \ {j}
    BY <1>3, <1>5, <1>8 DEF Out
  <2> QED BY <1>1, <1>2, <2>1 DEF WQ!Finish, Out
<1> QED BY <1>7, <1>8

\* The send puts the job back; before it the job counts as reserved.
LEMMA GroomDeleteImplements ==
  ASSUME MemoryInv, NEW j \in expired, GroomDelete(j)
  PROVE  UNCHANGED <<channel, Out, holding, posted>>
<1>1. /\ UNCHANGED <<channel, at, holding, posted>> /\ sending = NoJob /\ sending' = j
      /\ metadata' = [metadata EXCEPT ![j] = NotReserved]
  BY DEF GroomDelete, workerVars
<1>2. j \in Job /\ j \in Reserved /\ j # NoJob
  BY DEF MemoryInv, TypeOK, Drawn
<1>3. Reserved' = Reserved \ {j}
  BY <1>1, <1>2 DEF Reserved, MemoryInv, TypeOK
<1>4. InGroom = {} /\ InGroom' = {j} /\ UNCHANGED Received
  BY <1>1, <1>2 DEF InGroom, Received
<1> QED BY <1>1, <1>2, <1>3, <1>4 DEF Out

LEMMA GroomSendImplements ==
  ASSUME MemoryInv, GroomSend
  PROVE  WQ!PutBack({sending}) /\ {sending} \subseteq Out
<1> DEFINE j == sending
           order == <<j>>
<1>1. /\ UNCHANGED <<metadata, at, holding, posted>>
      /\ j # NoJob /\ sending' = NoJob /\ channel' = Append(channel, j)
  BY DEF GroomSend, workerVars
<1>2. channel \in Seq(Job) /\ j \in Job /\ InGroom = {j} /\ InGroom' = {}
  BY <1>1 DEF MemoryInv, TypeOK, InGroom
<1>3. UNCHANGED <<Received, Reserved>> /\ j \notin Received /\ j \notin Reserved
  BY <1>1, <1>2 DEF Received, Reserved, MemoryInv, OnePlace
<1>4. Out' = Out \ {j} /\ j \in Out
  BY <1>2, <1>3 DEF Out
<1>5. Cardinality({j}) = 1
  BY FS_Singleton
<1>6. /\ order \in [1..1 -> {j}] /\ {order[i] : i \in DOMAIN order} = {j}
      /\ channel' = channel \o order
  <2> HIDE DEF j
  <2>1. order \in [1..1 -> {j}] /\ DOMAIN order = 1..1 /\ order[1] = j
    OBVIOUS
  <2>2. {order[i] : i \in DOMAIN order} = {j}
    BY <2>1
  <2>3. channel' = channel \o order
    BY <1>1, <1>2 DEF j
  <2> QED BY <2>1, <2>2, <2>3
<1>7. WQ!Cardinality({j}) = 1
  BY <1>5 DEF WQ!Cardinality, Cardinality
<1> QED BY <1>1, <1>4, <1>6, <1>7 DEF WQ!PutBack, Out

\* The in-memory queue implements module WorkQueue: jobs wait in order, are
\* handed out from the head, and leave the queue only by Finish, although
\* reserveEntry comes after the receive and groom takes the map apart job by job.
THEOREM MemoryImplementsWorkQueue == Spec => ImplementsWorkQueue
<1>1. Init => WQ!Init /\ PostedDrawn
  <2> SUFFICES ASSUME Init PROVE WQ!Init /\ PostedDrawn
    OBVIOUS
  <2>1. Received = {} /\ Reserved = {} /\ InGroom = {}
    BY DEF Init, Received, Reserved, InGroom
  <2> QED BY <2>1 DEF Init, WQ!Init, PostedDrawn
<1>2. MemoryInv /\ PostedDrawn /\ [Next]_vars => [WQ!Next]_(WQ!vars)
  <2> SUFFICES ASSUME MemoryInv, PostedDrawn, [Next]_vars PROVE [WQ!Next]_(WQ!vars)
    OBVIOUS
  <2>1. ASSUME UNCHANGED <<channel, Out, holding, posted>> PROVE [WQ!Next]_(WQ!vars)
    BY <2>1 DEF WQ!vars, Out
  <2>2. CASE Post
    <3>1. UNCHANGED <<metadata, at, holding, sending>>
      BY <2>2 DEF Post, workerVars, groomVars
    <3>2. UNCHANGED <<Received, Reserved, InGroom>>
      BY <3>1 DEF Received, Reserved, InGroom
    <3>3. CASE Full
      BY <2>1, <2>2, <3>1, <3>2, <3>3 DEF Post, Out
    <3>4. CASE ~Full
      <4>1. lastID \in Nat /\ lastID + 1 \in Job /\ posted \subseteq Job
        BY <2>2 DEF Post, MemoryInv, TypeOK, Job
      <4>2. lastID + 1 \notin posted
        BY <4>1 DEF PostedDrawn
      <4>3. WQ!Post(lastID + 1)
        BY <2>2, <3>1, <3>2, <3>4, <4>2 DEF Post, WQ!Post
      <4> QED BY <4>1, <4>3 DEF WQ!Next
    <3> QED BY <3>3, <3>4
  <2>3. ASSUME NEW w \in Worker, Receive(w) PROVE [WQ!Next]_(WQ!vars)
    BY <2>3, ReceiveImplements DEF WQ!Next
  <2>4. ASSUME NEW w \in Worker, ReserveEntry(w) PROVE [WQ!Next]_(WQ!vars)
    BY <2>1, <2>4, ReserveImplements
  <2>5. ASSUME NEW w \in Worker, Finish(w) PROVE [WQ!Next]_(WQ!vars)
    BY <2>5, FinishImplements DEF WQ!Next
  <2>6. ASSUME NEW j \in expired, GroomDelete(j) PROVE [WQ!Next]_(WQ!vars)
    BY <2>1, <2>6, GroomDeleteImplements
  <2>7. CASE GroomSend
    BY <2>7, GroomSendImplements DEF WQ!Next, Out
  <2>8. CASE GroomStart \/ Tick \/ UNCHANGED vars
    <3>1. UNCHANGED <<channel, at, holding, sending, posted>>
      BY <2>8 DEF GroomStart, Tick, vars, workerVars, groomVars
    <3>2. \A j \in Job : metadata'[j] = NotReserved <=> metadata[j] = NotReserved
      BY <2>8 DEF GroomStart, Tick, vars, MemoryInv, TypeOK, Age, NotReserved
    <3>3. UNCHANGED <<Received, Reserved, InGroom>>
      BY <3>1, <3>2 DEF Received, Reserved, InGroom
    <3> QED BY <2>1, <3>1, <3>3 DEF Out
  <2> QED BY <2>2, <2>3, <2>4, <2>5, <2>6, <2>7, <2>8 DEF Next
<1> QED BY <1>1, <1>2, MemoryInvariant, PostedStep, PTL DEF Spec, ImplementsWorkQueue, WQ!Spec
===============================================================================
