--------------------------- MODULE RedisQueueProofs ---------------------------
(***************************************************************************)
(* The safety of the queue in module RedisQueue, for any number of         *)
(* posters, workers, ids and faults and any TTR.  The scripts rewrite      *)
(* lists, so the proof first says what each script does to a list (Takes,  *)
(* Shape), then that each step keeps the inductive invariant QueueInv.     *)
(***************************************************************************)
EXTENDS RedisQueue, ListsProofs

\* No two entries of the list have the same id.
Distinct(list) == \A i, j \in DOMAIN list : list[i].id = list[j].id => i = j

-------------------------------------------------------------------------------
\* What the scripts do to one entry.
LEMMA EntryFacts ==
  ASSUME NEW e \in Entry
  PROVE  /\ e \notin Mark
         /\ e.id \in ID /\ e.age \in Age
         /\ Stamped(e) \in Entry /\ Stamped(e).id = e.id
         /\ Stamped(e).age = IF e.age = NotStarted THEN 0 ELSE e.age
         /\ Requeued(e) \in Entry /\ Requeued(e).id = e.id
         /\ Requeued(e).age = NotStarted
         /\ Older(e) \in Entry /\ Older(e).id = e.id
         /\ e.age = NotStarted => Older(e).age = NotStarted
         /\ e.age # NotStarted => Older(e).age <= e.age + 1
<1> USE QueueAssumption DEF QueueAssumption
<1>1. e \notin Mark
  BY DEF Mark
<1> HIDE DEF ID
<1>2. e.id \in ID /\ e.age \in Age /\ e = [id |-> e.id, age |-> e.age]
  BY DEF Entry
<1>3. NotStarted \in Age /\ 0 \in Age /\ \A a \in Age : a \notin {NotStarted, TTR + 1} => a + 1 \in Age
  BY DEF Age, NotStarted
<1>4. \A a \in Age : /\ [e EXCEPT !.age = a] \in Entry
                     /\ [e EXCEPT !.age = a].id = e.id
                     /\ [e EXCEPT !.age = a].age = a
  BY <1>2 DEF Entry
<1>5. /\ Stamped(e) \in Entry /\ Stamped(e).id = e.id
      /\ Stamped(e).age = IF e.age = NotStarted THEN 0 ELSE e.age
  BY <1>3, <1>4 DEF Stamped
<1>6. /\ Requeued(e) \in Entry /\ Requeued(e).id = e.id
      /\ Requeued(e).age = NotStarted
  BY <1>3, <1>4 DEF Requeued
<1>7. CASE e.age \in {NotStarted, TTR + 1}
  <2>1. Older(e) = e
    BY <1>7 DEF Older
  <2> QED BY <1>1, <1>2, <1>5, <1>6, <2>1 DEF Age, NotStarted
<1>8. CASE e.age \notin {NotStarted, TTR + 1}
  <2>1. Older(e) = [e EXCEPT !.age = e.age + 1] /\ e.age + 1 \in Age
    BY <1>1, <1>2, <1>3, <1>8 DEF Older
  <2>2. Older(e) \in Entry /\ Older(e).id = e.id /\ Older(e).age = e.age + 1
    BY <1>4, <2>1
  <2> QED BY <1>1, <1>2, <1>5, <1>6, <1>8, <2>2 DEF Age, NotStarted
<1> QED BY <1>7, <1>8

\* The scripts read a list of entries to its end.
LEMMA DecodableAll ==
  ASSUME NEW list \in Seq(Entry)
  PROVE  Decodable(list) = Len(list)
<1> DEFINE D(n) == /\ \A i \in 1..n : list[i] \notin Mark
                   /\ n < Len(list) => list[n + 1] \in Mark
<1>1. \A i \in 1..Len(list) : list[i] \notin Mark
  BY EntryFacts
<1>2. Len(list) \in 0..Len(list) /\ D(Len(list))
  BY <1>1
<1>3. ASSUME NEW n \in 0..Len(list), D(n) PROVE n = Len(list)
  <2> SUFFICES ASSUME n < Len(list) PROVE FALSE
    OBVIOUS
  <2>1. n + 1 \in 1..Len(list)
    OBVIOUS
  <2> QED BY <1>1, <1>3, <2>1
<1>4. Decodable(list) = CHOOSE n \in 0..Len(list) : D(n)
  BY DEF Decodable
<1> HIDE DEF D
<1> QED BY <1>2, <1>3, <1>4

\* The ids in a list of entries.
IDs(list) == {e.id : e \in Elements(list)}

LEMMA IDsOfEntries ==
  ASSUME NEW list \in Seq(Entry)
  PROVE  IDsIn(list) = IDs(list)
<1>1. \A i \in DOMAIN list : list[i] \in Entry
  OBVIOUS
<1>2. \A e \in Elements(list) : e \notin Mark
  BY <1>1, EntryFacts DEF Elements
<1>3. Elements(list) \ Mark = Elements(list)
  BY <1>2
<1> QED BY <1>3 DEF IDsIn, IDs

\* A sequence whose elements are all in Y is a sequence over Y.
LEMMA NarrowSeq ==
  ASSUME NEW X, NEW Y, NEW r \in Seq(X), \A k \in DOMAIN r : r[k] \in Y
  PROVE  r \in Seq(Y)
<1> QED OBVIOUS

\* Only the positions that are taken matter.
LEMMA TakesFrom ==
  ASSUME NEW r, NEW list, NEW other, NEW S, Takes(r, list, S),
         \A i \in S : list[i] = other[i]
  PROVE  Takes(r, other, S)
<1> QED BY DEF Takes

\* A list made of entries of another has its elements in the same set.
LEMMA TakesIn ==
  ASSUME NEW X, NEW Y, NEW r \in Seq(X), NEW list, NEW S, Takes(r, list, S),
         \A i \in S : list[i] \in Y
  PROVE  r \in Seq(Y)
<1>1. \A k \in DOMAIN r : r[k] \in Y
  BY DEF Takes
<1> QED BY <1>1, NarrowSeq

\* finishScript removes the entry with the id and nothing else.
LEMMA FinishTakes ==
  ASSUME NEW list \in Seq(Entry), Distinct(list), NEW id
  PROVE  /\ FinishScript(list, id) \in Seq(Entry)
         /\ Takes(FinishScript(list, id), list, {i \in DOMAIN list : list[i].id # id})
<1> DEFINE n == Len(list)
           m == [i \in DOMAIN list |->
                   IF i <= n /\ list[i].id = id THEN FinishedMark ELSE list[i]]
           K == {i \in DOMAIN list : list[i].id # id}
           S == {i \in DOMAIN m : \/ m[i] # FinishedMark
                                  \/ \E k \in 1..(i - 1) : m[k] = FinishedMark}
           r == SubseqAt(m, S)
<1>1. n \in Nat /\ DOMAIN list = 1..n /\ \A i \in 1..n : list[i] \in Entry
  OBVIOUS
<1>2. \A i \in 1..n : list[i] # FinishedMark
  BY <1>1, EntryFacts DEF Mark
<1>3. m \in Seq(Entry \union {FinishedMark}) /\ DOMAIN m = 1..n /\ Len(m) = n
  BY <1>1
<1>4. FinishScript(list, id) = r
  BY DecodableAll DEF FinishScript, LRemFirst
<1>5. \A i \in 1..n : m[i] = FinishedMark <=> list[i].id = id
  BY <1>1, <1>2
<1>6. \A i \in K : m[i] = list[i]
  BY <1>1
<1> HIDE DEF m, n
<1>7. S = K
  <2>1. ASSUME NEW i \in 1..n, NEW k \in 1..(i - 1), m[i] = FinishedMark
        PROVE  m[k] # FinishedMark
    <3>1. k \in 1..n /\ k # i
      BY <1>1
    <3> QED BY <1>1, <1>5, <2>1, <3>1 DEF Distinct
  <2>2. \A i \in 1..n : i \in S <=> m[i] # FinishedMark
    BY <1>3, <2>1
  <2> QED BY <1>1, <1>3, <1>5, <2>2
<1>8. r \in Seq(Entry \union {FinishedMark}) /\ Takes(r, m, S \cap DOMAIN m)
  BY <1>3, SubseqTakes
<1> HIDE DEF r, S, K
<1>9. Takes(r, m, K)
  <2>1. K \cap DOMAIN m = K
    BY <1>1, <1>3 DEF K
  <2> QED BY <1>7, <1>8, <2>1
<1>10. Takes(r, list, K)
  BY <1>6, <1>9, TakesFrom
<1>11. r \in Seq(Entry)
  BY <1>1, <1>8, <1>10, TakesIn DEF K
<1> QED BY <1>4, <1>10, <1>11 DEF K

\* groomScript puts back the overdue entries.
LEMMA ExpiredTakes ==
  ASSUME NEW list \in Seq(Entry)
  PROVE  /\ ExpiredEntries(list) \in Seq(Entry)
         /\ Takes(ExpiredEntries(list), list, {i \in DOMAIN list : Overdue(list[i])})
<1> DEFINE S == {i \in 1..Len(list) : Overdue(list[i])}
<1>1. ExpiredEntries(list) = SubseqAt(list, S)
  BY DecodableAll DEF ExpiredEntries
<1>2. S = {i \in DOMAIN list : Overdue(list[i])} /\ S \cap DOMAIN list = S
  OBVIOUS
<1> HIDE DEF S
<1> QED BY <1>1, <1>2, SubseqTakes

\* It keeps the other ones, stamped.
LEMMA ReservedTakes ==
  ASSUME NEW list \in Seq(Entry)
  PROVE  /\ GroomedReserved(list) \in Seq(Entry)
         /\ Takes(GroomedReserved(list), [i \in DOMAIN list |-> Stamped(list[i])],
                  {i \in DOMAIN list : ~Overdue(list[i])})
<1> DEFINE n == Len(list)
           m == [i \in DOMAIN list |->
                   IF i > n THEN list[i]
                   ELSE IF Overdue(list[i]) THEN ExpiredMark
                   ELSE Stamped(list[i])]
           g == [i \in DOMAIN list |-> Stamped(list[i])]
           K == {i \in DOMAIN list : ~Overdue(list[i])}
           S == {i \in DOMAIN m : m[i] # ExpiredMark}
           r == SubseqAt(m, S)
<1>1. n \in Nat /\ DOMAIN list = 1..n /\ \A i \in 1..n : list[i] \in Entry
  OBVIOUS
<1>2. \A i \in 1..n : Stamped(list[i]) \in Entry /\ Stamped(list[i]) # ExpiredMark
  BY <1>1, EntryFacts DEF Mark
<1>3. m \in Seq(Entry \union {ExpiredMark}) /\ DOMAIN m = 1..n
  BY <1>1, <1>2
<1>4. GroomedReserved(list) = r
  BY DecodableAll DEF GroomedReserved, LRemAll
<1>5. \A i \in 1..n : m[i] = ExpiredMark <=> Overdue(list[i])
  BY <1>1, <1>2
<1>6. \A i \in K : m[i] = g[i] /\ g[i] \in Entry
  BY <1>1, <1>2
<1> HIDE DEF m, n, g
<1>7. S = K /\ K \cap DOMAIN m = K
  BY <1>1, <1>3, <1>5
<1>8. r \in Seq(Entry \union {ExpiredMark}) /\ Takes(r, m, S \cap DOMAIN m)
  BY <1>3, SubseqTakes
<1> HIDE DEF r, S, K
<1>9. Takes(r, g, K)
  BY <1>6, <1>7, <1>8, TakesFrom
<1>10. r \in Seq(Entry)
  BY <1>6, <1>8, <1>9, TakesIn
<1> QED BY <1>4, <1>9, <1>10 DEF K, g

-------------------------------------------------------------------------------
\* What holds of the two lists: entries, each id once, those of pending unstamped.
Shape(p, r) ==
  /\ p \in Seq(Entry) /\ r \in Seq(Entry)
  /\ Distinct(p) /\ Distinct(r) /\ IDs(p) \cap IDs(r) = {}
  /\ \A e \in Elements(p) : e.age = NotStarted

\* A script that takes entries of a list keeps their ids apart.
LEMMA TakesDistinct ==
  ASSUME NEW r, NEW list, NEW S \in SUBSET DOMAIN list, Takes(r, list, S), Distinct(list)
  PROVE  /\ Distinct(r)
         /\ Elements(r) = {list[i] : i \in S}
<1>1. PICK h \in [DOMAIN r -> S] :
        /\ \A k, l \in DOMAIN r : h[k] = h[l] => k = l
        /\ \A i \in S : \E k \in DOMAIN r : h[k] = i
        /\ \A k \in DOMAIN r : r[k] = list[h[k]]
  BY DEF Takes
<1>2. \A k \in DOMAIN r : h[k] \in S /\ h[k] \in DOMAIN list
  BY <1>1
<1>3. Distinct(r)
  BY <1>1, <1>2 DEF Distinct
<1>4. Elements(r) \subseteq {list[i] : i \in S}
  BY <1>1, <1>2 DEF Elements
<1>5. {list[i] : i \in S} \subseteq Elements(r)
  <2> SUFFICES ASSUME NEW i \in S PROVE list[i] \in Elements(r)
    OBVIOUS
  <2>1. PICK k \in DOMAIN r : h[k] = i
    BY <1>1
  <2> QED BY <1>1, <2>1 DEF Elements
<1> QED BY <1>3, <1>4, <1>5

\* LPUSH adds one entry.
LEMMA ConsDistinct ==
  ASSUME NEW e \in Entry, NEW list \in Seq(Entry), Distinct(list), e.id \notin IDs(list)
  PROVE  LET q == <<e>> \o list
         IN  q \in Seq(Entry) /\ Distinct(q) /\ Elements(q) = Elements(list) \union {e}
<1> DEFINE q == <<e>> \o list
           n == Len(list)
<1>1. /\ n \in Nat /\ DOMAIN list = 1..n /\ DOMAIN q = 1..(n + 1) /\ q \in Seq(Entry)
      /\ q[1] = e /\ \A i \in 1..n : q[i + 1] = list[i]
  OBVIOUS
<1>2. \A k \in 1..(n + 1) : k = 1 \/ \E i \in 1..n : k = i + 1
  <2> SUFFICES ASSUME NEW k \in 1..(n + 1), k # 1 PROVE \E i \in 1..n : k = i + 1
    OBVIOUS
  <2>1. k - 1 \in 1..n /\ k = (k - 1) + 1
    BY <1>1
  <2> QED BY <2>1
<1>3. \A i \in 1..n : i + 1 \in 1..(n + 1) /\ list[i].id # e.id
  BY <1>1 DEF IDs, Elements
<1>4. 1 \in 1..(n + 1)
  BY <1>1
<1> HIDE DEF q, n
<1>5. Distinct(q)
  <2> SUFFICES ASSUME NEW k \in 1..(n + 1), NEW l \in 1..(n + 1), q[k].id = q[l].id
               PROVE  k = l
    BY <1>1 DEF Distinct
  <2>0. \A i \in 1..n : q[i + 1].id # q[1].id
    BY <1>1, <1>3
  <2>1. CASE k = 1
    BY <2>0, <2>1, <1>2
  <2>2. CASE l = 1
    BY <2>0, <2>2, <1>2
  <2>3. CASE k # 1 /\ l # 1
    <3>1. PICK i \in 1..n : k = i + 1
      BY <1>2, <2>3
    <3>2. PICK j \in 1..n : l = j + 1
      BY <1>2, <2>3
    <3>3. list[i].id = list[j].id
      BY <1>1, <3>1, <3>2
    <3>4. i = j
      BY <1>1, <3>3 DEF Distinct
    <3> QED BY <3>1, <3>2, <3>4
  <2> QED BY <2>1, <2>2, <2>3
<1>6. Elements(q) \subseteq Elements(list) \union {e}
  <2>1. ASSUME NEW k \in 1..(n + 1) PROVE q[k] = e \/ \E i \in 1..n : q[k] = list[i]
    BY <1>1, <1>2
  <2>2. \A i \in 1..n : list[i] \in Elements(list)
    BY <1>1 DEF Elements
  <2>3. ASSUME NEW x \in Elements(q) PROVE x \in Elements(list) \union {e}
    <3>1. PICK k \in 1..(n + 1) : x = q[k]
      BY <1>1 DEF Elements
    <3> QED BY <2>1, <2>2, <3>1
  <2> QED BY <2>3
<1>7. Elements(list) \union {e} \subseteq Elements(q)
  <2>1. e \in Elements(q)
    BY <1>1, <1>4 DEF Elements
  <2>2. ASSUME NEW i \in 1..n PROVE list[i] \in Elements(q)
    BY <1>1, <1>3 DEF Elements
  <2> QED BY <1>1, <2>1, <2>2 DEF Elements
<1> QED BY <1>1, <1>5, <1>6, <1>7 DEF q

\* Two lists, one after the other.
LEMMA ConcatDistinct ==
  ASSUME NEW s \in Seq(Entry), NEW t \in Seq(Entry),
         Distinct(s), Distinct(t), IDs(s) \cap IDs(t) = {}
  PROVE  s \o t \in Seq(Entry) /\ Distinct(s \o t) /\ Elements(s \o t) = Elements(s) \union Elements(t)
<1> DEFINE q == s \o t
           m == Len(s)
           n == Len(t)
<1>1. /\ m \in Nat /\ n \in Nat /\ DOMAIN s = 1..m /\ DOMAIN t = 1..n
      /\ q \in Seq(Entry) /\ DOMAIN q = 1..(m + n)
      /\ \A i \in 1..m : q[i] = s[i]
      /\ \A i \in 1..n : q[m + i] = t[i]
  OBVIOUS
<1> HIDE DEF q, m, n
<1>2. ASSUME NEW k \in 1..(m + n) PROVE k \in 1..m \/ \E j \in 1..n : k = m + j
  <2> SUFFICES ASSUME k \notin 1..m PROVE \E j \in 1..n : k = m + j
    OBVIOUS
  <2>1. k - m \in 1..n /\ k = m + (k - m)
    BY <1>1
  <2> QED BY <2>1
<1>3. 1..m \subseteq 1..(m + n) /\ \A j \in 1..n : m + j \in 1..(m + n)
  BY <1>1
<1>4. \A i \in 1..m, j \in 1..n : q[i].id # q[m + j].id
  BY <1>1 DEF IDs, Elements
<1>5. Distinct(q)
  <2> SUFFICES ASSUME NEW k \in 1..(m + n), NEW l \in 1..(m + n), q[k].id = q[l].id
               PROVE  k = l
    BY <1>1 DEF Distinct
  <2>1. CASE k \in 1..m
    <3>1. l \in 1..m
      BY <1>2, <1>4, <2>1
    <3> QED BY <1>1, <2>1, <3>1 DEF Distinct
  <2>2. CASE k \notin 1..m
    <3>1. PICK i \in 1..n : k = m + i
      BY <1>2, <2>2
    <3>2. l \notin 1..m
      BY <1>4, <3>1
    <3>3. PICK j \in 1..n : l = m + j
      BY <1>2, <3>2
    <3>4. q[k] = t[i] /\ q[l] = t[j]
      BY <1>1, <3>1, <3>3
    <3>5. i = j
      BY <1>1, <3>4 DEF Distinct
    <3> QED BY <3>1, <3>3, <3>5
  <2> QED BY <2>1, <2>2
<1>6. ASSUME NEW x \in Elements(q) PROVE x \in Elements(s) \union Elements(t)
  <2>1. PICK k \in 1..(m + n) : x = q[k]
    BY <1>1 DEF Elements
  <2>2. CASE k \in 1..m
    BY <1>1, <2>1, <2>2 DEF Elements
  <2>3. CASE k \notin 1..m
    <3>1. PICK j \in 1..n : k = m + j
      BY <1>2, <2>3
    <3> QED BY <1>1, <2>1, <3>1 DEF Elements
  <2> QED BY <2>2, <2>3
<1>7. ASSUME NEW x \in Elements(s) PROVE x \in Elements(q)
  BY <1>1, <1>3, <1>7 DEF Elements
<1>8. ASSUME NEW x \in Elements(t) PROVE x \in Elements(q)
  BY <1>1, <1>3, <1>8 DEF Elements
<1>9. Elements(q) = Elements(s) \union Elements(t)
  BY <1>6, <1>7, <1>8
<1> QED BY <1>1, <1>5, <1>9 DEF q

\* Post pushes a new id.
LEMMA PushShape ==
  ASSUME NEW p, NEW r, Shape(p, r), NEW id \in ID, id \notin IDs(p), id \notin IDs(r)
  PROVE  LET q == <<[id |-> id, age |-> NotStarted]>> \o p
         IN  Shape(q, r) /\ IDs(q) = IDs(p) \union {id}
<1> DEFINE e == [id |-> id, age |-> NotStarted]
           q == <<e>> \o p
<1>1. e \in Entry /\ e.id = id /\ e.age = NotStarted
  BY QueueAssumption DEF QueueAssumption, Entry, Age, NotStarted
<1> HIDE DEF e
<1>2. q \in Seq(Entry) /\ Distinct(q) /\ Elements(q) = Elements(p) \union {e}
  BY <1>1, ConsDistinct DEF Shape
<1> HIDE DEF q
<1>3. IDs(q) = IDs(p) \union {id}
  BY <1>1, <1>2 DEF IDs
<1>4. Shape(q, r)
  BY <1>1, <1>2, <1>3 DEF Shape
<1> QED BY <1>3, <1>4 DEF q, e

\* BRPOPLPUSH moves the last entry of one list to the head of the other.
LEMMA ReserveShape ==
  ASSUME NEW p, NEW r, Shape(p, r), p # << >>
  PROVE  LET e == p[Len(p)]
             p2 == SubSeq(p, 1, Len(p) - 1)
             r2 == <<e>> \o r
         IN  /\ e \in Entry /\ e \in Elements(p)
             /\ Shape(p2, r2)
             /\ IDs(p2) = IDs(p) \ {e.id}
             /\ Elements(r2) = Elements(r) \union {e}
<1> DEFINE n == Len(p)
           e == p[n]
           p2 == SubSeq(p, 1, n - 1)
           r2 == <<e>> \o r
<1>1. /\ n \in Nat \ {0} /\ DOMAIN p = 1..n /\ n \in 1..n
      /\ \A i \in 1..n : p[i] \in Entry
      /\ p2 \in Seq(Entry) /\ DOMAIN p2 = 1..(n - 1)
      /\ \A i \in 1..(n - 1) : p2[i] = p[i]
  BY DEF Shape
<1>2. \A m \in Nat : \A i \in 1..m : i = m \/ i \in 1..(m - 1)
  OBVIOUS
<1>3. \A m \in Nat : \A i \in 1..(m - 1) : i \in 1..m /\ i # m
  OBVIOUS
<1>4. e \in Entry /\ e \in Elements(p)
  BY <1>1 DEF Elements
<1>5. e.id \notin IDs(r)
  BY <1>4 DEF Shape, IDs
<1>6. r2 \in Seq(Entry) /\ Distinct(r2) /\ Elements(r2) = Elements(r) \union {e}
  BY <1>4, <1>5, ConsDistinct DEF Shape
<1> HIDE DEF p2, r2, n
<1>7. Distinct(p2)
  BY <1>1, <1>3 DEF Shape, Distinct
<1>8. Elements(p2) = Elements(p) \ {e}
  <2>1. \A i \in 1..(n - 1) : p[i].id # e.id
    BY <1>1, <1>3 DEF Shape, Distinct
  <2>2. Elements(p2) = {p[i] : i \in 1..(n - 1)}
    BY <1>1 DEF Elements
  <2> QED BY <2>1, <2>2, <1>1, <1>2, <1>3 DEF Elements
<1>9. \A f \in Elements(p) : f # e => f.id # e.id
  BY <1>1 DEF Shape, Distinct, Elements
<1> HIDE DEF e
<1>10. IDs(p2) = IDs(p) \ {e.id}
  BY <1>8, <1>9 DEF IDs
<1>11. IDs(r2) = IDs(r) \union {e.id}
  BY <1>6 DEF IDs
<1>12. Shape(p2, r2)
  BY <1>1, <1>6, <1>7, <1>8, <1>10, <1>11 DEF Shape
<1> QED BY <1>4, <1>6, <1>10, <1>12 DEF p2, r2, e, n

\* finishScript takes one id out of the reserved list.
LEMMA FinishShape ==
  ASSUME NEW p, NEW r, Shape(p, r), NEW id
  PROVE  LET r2 == FinishScript(r, id)
         IN  /\ Shape(p, r2)
             /\ Elements(r2) = {e \in Elements(r) : e.id # id}
<1> DEFINE r2 == FinishScript(r, id)
           S == {i \in DOMAIN r : r[i].id # id}
<1>1. r2 \in Seq(Entry) /\ Takes(r2, r, S)
  BY FinishTakes DEF Shape
<1>2. Distinct(r2) /\ Elements(r2) = {r[i] : i \in S}
  BY <1>1, TakesDistinct DEF Shape
<1> HIDE DEF r2
<1>3. Elements(r2) = {e \in Elements(r) : e.id # id}
  BY <1>2 DEF Elements
<1>4. Shape(p, r2)
  BY <1>1, <1>2, <1>3 DEF Shape, IDs
<1> QED BY <1>3, <1>4 DEF r2

\* One clock unit changes the ages only.
LEMMA OlderShape ==
  ASSUME NEW p, NEW r, Shape(p, r)
  PROVE  LET r2 == [i \in DOMAIN r |-> Older(r[i])]
         IN  /\ Shape(p, r2)
             /\ Elements(r2) = {Older(e) : e \in Elements(r)}
<1> DEFINE r2 == [i \in DOMAIN r |-> Older(r[i])]
<1>1. \A i \in DOMAIN r : Older(r[i]) \in Entry /\ Older(r[i]).id = r[i].id
  BY EntryFacts DEF Shape
<1>2. r2 \in Seq(Entry)
  BY <1>1 DEF Shape
<1>3. Distinct(r2)
  BY <1>1 DEF Shape, Distinct
<1>4. Elements(r2) = {Older(e) : e \in Elements(r)}
  BY DEF Elements
<1> HIDE DEF r2
<1>5. IDs(r2) = IDs(r)
  BY <1>1, <1>4 DEF IDs, Elements
<1>6. Shape(p, r2)
  BY <1>2, <1>3, <1>5 DEF Shape
<1> QED BY <1>4, <1>6 DEF r2

\* groomScript moves the overdue entries and stamps the others.
LEMMA GroomShape ==
  ASSUME NEW p, NEW r, Shape(p, r)
  PROVE  LET p2 == GroomedPending(p, ExpiredEntries(r))
             r2 == GroomedReserved(r)
         IN  /\ Shape(p2, r2)
             /\ IDs(p2) = IDs(p) \union {e.id : e \in {f \in Elements(r) : Overdue(f)}}
             /\ Elements(r2) = {Stamped(e) : e \in {f \in Elements(r) : ~Overdue(f)}}
<1> DEFINE b == ExpiredEntries(r)
           n == Len(b)
           v == [i \in 1..n |-> Requeued(b[n + 1 - i])]
           p2 == v \o p
           r2 == GroomedReserved(r)
           g == [i \in DOMAIN r |-> Stamped(r[i])]
           O == {f \in Elements(r) : Overdue(f)}
           K == {f \in Elements(r) : ~Overdue(f)}
           SO == {i \in DOMAIN r : Overdue(r[i])}
           SK == {i \in DOMAIN r : ~Overdue(r[i])}
<1>1. b \in Seq(Entry) /\ Takes(b, r, SO)
  BY ExpiredTakes DEF Shape
<1>2. r2 \in Seq(Entry) /\ Takes(r2, g, SK)
  BY ReservedTakes DEF Shape
<1>3. \A i \in DOMAIN r : r[i] \in Entry
  BY DEF Shape
<1>4. Distinct(g) /\ DOMAIN g = DOMAIN r
  BY <1>3, EntryFacts DEF Shape, Distinct
<1>5. Distinct(b) /\ Elements(b) = {r[i] : i \in SO}
  BY <1>1, TakesDistinct DEF Shape
<1>6. Distinct(r2) /\ Elements(r2) = {g[i] : i \in SK}
  <2>1. SK \in SUBSET DOMAIN g
    BY <1>4
  <2> HIDE DEF g, r2, SK
  <2> QED BY <1>2, <1>4, <2>1, TakesDistinct
<1>7. Elements(b) = O
  BY <1>5 DEF Elements
<1>8. Elements(r2) = {Stamped(e) : e \in K}
  BY <1>6 DEF Elements
<1>9. /\ n \in Nat /\ DOMAIN b = 1..n /\ v \in Seq(Entry) /\ DOMAIN v = 1..n /\ Len(v) = n
      /\ \A i \in 1..n : /\ n + 1 - i \in 1..n
                         /\ v[i] = Requeued(b[n + 1 - i])
                         /\ v[i].id = b[n + 1 - i].id
                         /\ v[i].age = NotStarted
                         /\ n + 1 - (n + 1 - i) = i
  <2>1. n \in Nat /\ DOMAIN b = 1..n /\ \A i \in 1..n : b[i] \in Entry
    BY <1>1
  <2>2. \A m \in Nat : \A i \in 1..m : m + 1 - i \in 1..m /\ m + 1 - (m + 1 - i) = i
    OBVIOUS
  <2>3. \A i \in 1..n : n + 1 - i \in 1..n /\ n + 1 - (n + 1 - i) = i
    BY <2>1, <2>2
  <2> HIDE DEF n
  <2>4. \A i \in 1..n : /\ v[i] = Requeued(b[n + 1 - i]) /\ v[i] \in Entry
                        /\ v[i].id = b[n + 1 - i].id /\ v[i].age = NotStarted
    BY <2>1, <2>3, EntryFacts
  <2>5. v \in Seq(Entry) /\ DOMAIN v = 1..n /\ Len(v) = n
    BY <2>1, <2>4
  <2> QED BY <2>1, <2>3, <2>4, <2>5
<1> HIDE DEF b, n, v, r2, g, SO, SK
<1>10. Distinct(v)
  <2> SUFFICES ASSUME NEW i \in 1..n, NEW j \in 1..n, v[i].id = v[j].id PROVE i = j
    BY <1>9 DEF Distinct
  <2>1. b[n + 1 - i].id = b[n + 1 - j].id /\ n + 1 - i \in 1..n /\ n + 1 - j \in 1..n
    BY <1>9
  <2>2. n + 1 - i = n + 1 - j
    BY <1>5, <1>9, <2>1 DEF Distinct
  <2> QED BY <1>9, <2>2
<1>11. IDs(v) = {e.id : e \in O}
  <2>1. ASSUME NEW i \in 1..n PROVE v[i].id \in IDs(b)
    BY <1>9 DEF IDs, Elements
  <2>2. ASSUME NEW i \in 1..n PROVE b[i].id \in IDs(v)
    <3>1. n + 1 - i \in 1..n /\ v[n + 1 - i].id = b[i].id
      BY <1>9
    <3> QED BY <1>9, <3>1 DEF IDs, Elements
  <2>3. IDs(v) = {v[i].id : i \in 1..n} /\ IDs(b) = {b[i].id : i \in 1..n}
    BY <1>9 DEF IDs, Elements
  <2>4. IDs(v) = IDs(b)
    BY <2>1, <2>2, <2>3
  <2> QED BY <1>7, <2>4 DEF IDs
<1>12. {e.id : e \in O} \subseteq IDs(r)
  BY DEF IDs
<1>13. p2 \in Seq(Entry) /\ Distinct(p2) /\ Elements(p2) = Elements(v) \union Elements(p)
  BY <1>9, <1>10, <1>11, <1>12, ConcatDistinct DEF Shape
<1> HIDE DEF p2
<1>14. IDs(p2) = IDs(p) \union {e.id : e \in O}
  BY <1>11, <1>13 DEF IDs
<1>15. IDs(r2) = {e.id : e \in K}
  <2>1. \A e \in K : Stamped(e).id = e.id
    BY <1>3, EntryFacts DEF Elements
  <2> QED BY <1>8, <2>1 DEF IDs
<1>16. {e.id : e \in O} \cap {e.id : e \in K} = {}
  BY DEF Shape, Distinct, Elements
<1>17. IDs(p2) \cap IDs(r2) = {}
  <2>1. {e.id : e \in K} \subseteq IDs(r)
    BY DEF IDs
  <2> QED BY <1>14, <1>15, <1>16, <2>1 DEF Shape
<1>18. \A e \in Elements(p2) : e.age = NotStarted
  <2>1. \A e \in Elements(v) : e.age = NotStarted
    BY <1>9 DEF Elements
  <2> QED BY <1>13, <2>1 DEF Shape
<1>19. Shape(p2, r2)
  BY <1>2, <1>6, <1>13, <1>17, <1>18 DEF Shape
<1>20. p2 = GroomedPending(p, ExpiredEntries(r)) /\ r2 = GroomedReserved(r)
  BY DEF GroomedPending, p2, v, n, b, r2
<1> QED BY <1>8, <1>14, <1>19, <1>20

-------------------------------------------------------------------------------
\* What the histories know of the ids: an id is drawn once, is pushed once, and
\* is in a list only between its Push and the Clear that drops it.
Histories ==
  /\ posting \cap posted = {}
  /\ \A id \in posting \union posted : id[2] <= lastID[id[1]]
  /\ IDs(pending) \subseteq posted /\ IDs(reserved) \subseteq posted
  /\ IDs(pending) \cap cleared = {} /\ IDs(reserved) \cap cleared = {}
  /\ finished \subseteq posted /\ cleared \subseteq posted
  /\ \A w \in Worker : holding[w] # NoJob => holding[w] \in posted

\* NothingLost, with IDs in place of IDsIn.
Kept == posted \subseteq IDs(pending) \union IDs(reserved) \union finished \union cleared

\* A punctual worker is ahead of the groom: the age of its entry is at most the
\* time it has worked.
Ahead(w) ==
  \/ holding[w] \in cleared
  \/ \E e \in Elements(reserved) : e.id = holding[w] /\ e.age <= elapsed[w]

Running ==
  Punctual =>
    /\ finished \cap IDs(pending) = {} /\ finished \cap IDs(reserved) = {}
    /\ \A w \in Worker : holding[w] # NoJob => elapsed[w] <= TTR /\ Ahead(w)
    /\ \A v, w \in Worker : holding[v] # NoJob /\ holding[v] = holding[w] => v = w

\* The inductive invariant.
QueueInv ==
  TypeOK /\ Shape(pending, reserved) /\ Histories /\ Kept /\ Running

\* The empty queue satisfies the invariant.
LEMMA InitQueue == Init => QueueInv
<1> SUFFICES ASSUME Init PROVE QueueInv
  OBVIOUS
<1>1. Elements(<< >>) = {} /\ IDs(<< >>) = {}
  BY DEF Elements, IDs
<1>2. Shape(<< >>, << >>)
  BY <1>1 DEF Shape, Distinct
<1>3. TypeOK
  BY QueueAssumption DEF QueueAssumption, Init, TypeOK
<1>4. Histories
  BY <1>1 DEF Init, Histories
<1>5. Kept
  BY DEF Init, Kept
<1>6. Running
  <2>1. finished = {} /\ \A w \in Worker : holding[w] = NoJob
    BY DEF Init
  <2> QED BY <2>1 DEF Running
<1> QED BY <1>2, <1>3, <1>4, <1>5, <1>6 DEF QueueInv, Init

\* Post draws an id.
LEMMA DrawStep ==
  ASSUME QueueInv, NEW p \in Poster, DrawID(p)
  PROVE  QueueInv'
<1> USE DEF QueueInv
<1> DEFINE id == <<p, lastID[p] + 1>>
<1>1. UNCHANGED <<pending, reserved, posted, finished, cleared, holding, elapsed, faults>>
  BY DEF DrawID, redisVars, workVars
<1>2. lastID[p] \in 0..MaxPosts /\ lastID[p] < MaxPosts /\ MaxPosts \in Nat
  BY QueueAssumption DEF QueueAssumption, TypeOK, DrawID
<1>3. id \in ID /\ id[1] = p /\ id[2] = lastID[p] + 1
  BY <1>2 DEF ID
<1>4. posting' = posting \union {id}
  BY DEF DrawID
<1>5. lastID' = [lastID EXCEPT ![p] = @ + 1]
  BY DEF DrawID
<1>6. id \notin posted
  BY <1>2, <1>3 DEF Histories
<1>7. TypeOK'
  <2>1. lastID' \in [Poster -> 0..MaxPosts]
    BY <1>2, <1>5 DEF TypeOK
  <2>2. posting' \subseteq ID
    BY <1>3, <1>4 DEF TypeOK
  <2> HIDE DEF id
  <2> QED BY <1>1, <2>1, <2>2 DEF TypeOK
<1>8. Shape(pending, reserved)'
  BY <1>1
<1>9. Histories'
  <2>1. ASSUME NEW i \in posting' \union posted' PROVE i[2] <= lastID'[i[1]]
    <3>1. i[1] \in Poster /\ i[2] \in Nat /\ lastID[i[1]] \in Nat
      BY <1>7, QueueAssumption DEF TypeOK, ID, QueueAssumption
    <3>2. CASE i = id
      BY <1>2, <1>3, <1>5, <3>2 DEF TypeOK
    <3>3. CASE i # id
      <4>1. i[2] <= lastID[i[1]]
        BY <1>1, <1>4, <2>1, <3>3 DEF Histories
      <4>2. lastID[i[1]] <= lastID'[i[1]]
        BY <1>5, <3>1 DEF TypeOK
      <4> QED BY <3>1, <4>1, <4>2, <1>7 DEF TypeOK
    <3> QED BY <3>2, <3>3
  <2>2. posting' \cap posted' = {}
    BY <1>1, <1>4, <1>6 DEF Histories
  <2> QED BY <1>1, <2>1, <2>2 DEF Histories
<1>10. Kept' /\ Running'
  BY <1>1 DEF Kept, Running, Ahead
<1> QED BY <1>7, <1>8, <1>9, <1>10

\* The id reaches Redis.
LEMMA PushStep ==
  ASSUME QueueInv, NEW id \in posting, Push(id)
  PROVE  QueueInv'
<1> USE DEF QueueInv
<1>1. /\ UNCHANGED <<reserved, lastID, finished, cleared, holding, elapsed, faults>>
      /\ pending' = <<[id |-> id, age |-> NotStarted]>> \o pending
      /\ posting' = posting \ {id} /\ posted' = posted \union {id}
  BY DEF Push, workVars
<1>2. id \in ID /\ id \notin posted
  BY DEF TypeOK, Histories
<1>3. id \notin IDs(pending) /\ id \notin IDs(reserved)
  BY <1>2 DEF Histories
<1>4. Shape(pending', reserved) /\ IDs(pending') = IDs(pending) \union {id}
  BY <1>1, <1>2, <1>3, PushShape
<1>5. TypeOK'
  BY <1>1, <1>2, <1>4 DEF TypeOK, Shape
<1>6. Shape(pending, reserved)'
  BY <1>1, <1>4
<1>7. Histories'
  BY <1>1, <1>2, <1>4 DEF Histories
<1>8. Kept'
  BY <1>1, <1>4 DEF Kept
<1>9. Running'
  BY <1>1, <1>2, <1>4 DEF Running, Ahead, Histories
<1> QED BY <1>5, <1>6, <1>7, <1>8, <1>9

\* The id does not reach Redis.
LEMMA PushFailsStep ==
  ASSUME QueueInv, NEW id \in posting, PushFails(id)
  PROVE  QueueInv'
<1> USE DEF QueueInv
<1>1. /\ UNCHANGED <<pending, reserved, lastID, posted, finished, cleared, holding, elapsed>>
      /\ posting' = posting \ {id} /\ faults' \in 0..MaxFaults
  BY QueueAssumption DEF QueueAssumption, PushFails, Fault, redisVars, workVars, TypeOK
<1>2. TypeOK'
  BY <1>1 DEF TypeOK
<1>3. Shape(pending, reserved)'
  BY <1>1
<1>4. Histories'
  BY <1>1 DEF Histories
<1>5. Kept' /\ Running'
  BY <1>1 DEF Kept, Running, Ahead
<1> QED BY <1>2, <1>3, <1>4, <1>5

\* BRPOPLPUSH, whether or not its answer is read.
LEMMA ReserveFacts ==
  ASSUME QueueInv, Reserve
  PROVE  LET e == pending[Len(pending)]
         IN  /\ e \in Entry /\ e.age = NotStarted /\ e.id \in IDs(pending)
             /\ Shape(pending', reserved')
             /\ IDs(pending') = IDs(pending) \ {e.id}
             /\ IDs(reserved') = IDs(reserved) \union {e.id}
             /\ Elements(reserved') = Elements(reserved) \union {e}
<1> DEFINE e == pending[Len(pending)]
<1>1. /\ Shape(pending, reserved) /\ pending # << >>
      /\ pending' = SubSeq(pending, 1, Len(pending) - 1)
      /\ reserved' = <<e>> \o reserved
  BY DEF QueueInv, Reserve
<1>2. /\ e \in Entry /\ e \in Elements(pending)
      /\ Shape(pending', reserved')
      /\ IDs(pending') = IDs(pending) \ {e.id}
      /\ Elements(reserved') = Elements(reserved) \union {e}
  BY <1>1, ReserveShape
<1> HIDE DEF e
<1>3. e.age = NotStarted /\ e.id \in IDs(pending)
  BY <1>1, <1>2 DEF Shape, IDs
<1>4. IDs(reserved') = IDs(reserved) \union {e.id}
  BY <1>2 DEF IDs
<1> QED BY <1>2, <1>3, <1>4 DEF e

\* A worker picks the oldest job.
LEMMA PickStep ==
  ASSUME QueueInv, NEW w \in Worker, Pick(w)
  PROVE  QueueInv'
<1> USE DEF QueueInv
<1> DEFINE e == pending[Len(pending)]
<1>1. /\ UNCHANGED <<lastID, posting, posted, finished, cleared, faults>>
      /\ holding' = [holding EXCEPT ![w] = e.id]
      /\ elapsed' = [elapsed EXCEPT ![w] = 0]
      /\ holding[w] = NoJob
  BY DEF Pick, postVars
<1>2. /\ e \in Entry /\ e.age = NotStarted /\ e.id \in IDs(pending)
      /\ Shape(pending', reserved')
      /\ IDs(pending') = IDs(pending) \ {e.id}
      /\ IDs(reserved') = IDs(reserved) \union {e.id}
      /\ Elements(reserved') = Elements(reserved) \union {e}
  BY ReserveFacts DEF Pick
<1> HIDE DEF e
<1>3. e.id \in ID /\ e.id # NoJob
  BY <1>2, EntryFacts, QueueAssumption DEF QueueAssumption
<1>4. TypeOK'
  <2>1. holding' \in [Worker -> ID \union {NoJob}]
    BY <1>1, <1>3 DEF TypeOK
  <2>2. elapsed' \in [Worker -> 0..(TTR + 1)]
    BY <1>1, QueueAssumption DEF TypeOK, QueueAssumption
  <2> QED BY <1>1, <1>2, <2>1, <2>2 DEF TypeOK, Shape
<1>5. Shape(pending, reserved)'
  BY <1>2
<1>6. \A v \in Worker : IF v = w THEN holding'[v] = e.id /\ elapsed'[v] = 0
                        ELSE holding'[v] = holding[v] /\ elapsed'[v] = elapsed[v]
  BY <1>1 DEF TypeOK
<1>7. Histories'
  <2>1. \A v \in Worker : holding'[v] # NoJob => holding'[v] \in posted'
    BY <1>1, <1>2, <1>6 DEF Histories
  <2> QED BY <1>1, <1>2, <2>1 DEF Histories
<1>8. Kept'
  BY <1>1, <1>2 DEF Kept
<1>9. Running'
  <2> SUFFICES ASSUME Punctual PROVE Running'
    BY DEF Running
  <2>1. finished' \cap IDs(pending') = {} /\ finished' \cap IDs(reserved') = {}
    BY <1>1, <1>2 DEF Running
  <2>2. ASSUME NEW v \in Worker, holding'[v] # NoJob
        PROVE  elapsed'[v] <= TTR /\ Ahead(v)'
    <3>1. CASE v = w
      <4>1. e \in Elements(reserved') /\ e.age <= elapsed'[v] /\ elapsed'[v] <= TTR
        BY <1>2, <1>6, <3>1, QueueAssumption DEF NotStarted, QueueAssumption
      <4> QED BY <1>6, <3>1, <4>1 DEF Ahead
    <3>2. CASE v # w
      BY <1>1, <1>2, <1>6, <2>2, <3>2 DEF Running, Ahead
    <3> QED BY <3>1, <3>2
  <2>3. ASSUME NEW v \in Worker \ {w} PROVE holding[v] # e.id
    <3>1. e.id \notin IDs(reserved) /\ e.id \notin cleared
      BY <1>2 DEF Shape, Histories
    <3> QED BY <1>3, <3>1 DEF Running, Ahead, IDs
  <2>4. \A u, v \in Worker : holding'[u] # NoJob /\ holding'[u] = holding'[v] => u = v
    BY <1>6, <2>3 DEF Running
  <2> QED BY <2>1, <2>2, <2>4 DEF Running
<1> QED BY <1>4, <1>5, <1>7, <1>8, <1>9

\* The oldest job is reserved for nobody.
LEMMA PickLostStep ==
  ASSUME QueueInv, NEW w \in Worker, PickLost(w)
  PROVE  QueueInv'
<1> USE DEF QueueInv
<1> DEFINE e == pending[Len(pending)]
<1>1. /\ UNCHANGED <<lastID, posting, posted, finished, cleared, holding, elapsed>>
      /\ faults' \in 0..MaxFaults
  BY QueueAssumption DEF QueueAssumption, PickLost, Fault, postVars, workVars, TypeOK
<1>2. /\ e \in Entry /\ e.age = NotStarted /\ e.id \in IDs(pending)
      /\ Shape(pending', reserved')
      /\ IDs(pending') = IDs(pending) \ {e.id}
      /\ IDs(reserved') = IDs(reserved) \union {e.id}
      /\ Elements(reserved') = Elements(reserved) \union {e}
  BY ReserveFacts DEF PickLost
<1> HIDE DEF e
<1>3. TypeOK'
  BY <1>1, <1>2 DEF TypeOK, Shape
<1>4. Shape(pending, reserved)'
  BY <1>2
<1>5. Histories'
  BY <1>1, <1>2 DEF Histories
<1>6. Kept'
  BY <1>1, <1>2 DEF Kept
<1>7. Running'
  <2>1. \A v \in Worker : Ahead(v) => Ahead(v)'
    BY <1>1, <1>2 DEF Ahead
  <2> QED BY <1>1, <1>2, <2>1 DEF Running
<1> QED BY <1>3, <1>4, <1>5, <1>6, <1>7

\* A worker that stops working, for whatever reason.
LEMMA ReleaseFacts ==
  ASSUME QueueInv, NEW w \in Worker, Release(w)
  PROVE  /\ holding' \in [Worker -> ID \union {NoJob}]
         /\ elapsed' \in [Worker -> 0..(TTR + 1)]
         /\ holding'[w] = NoJob
         /\ \A v \in Worker \ {w} : holding'[v] = holding[v] /\ elapsed'[v] = elapsed[v]
<1> QED BY QueueAssumption DEF QueueAssumption, QueueInv, TypeOK, Release

\* A worker leaves its job reserved.
LEMMA AbandonStep ==
  ASSUME QueueInv, NEW w \in Worker, Abandon(w)
  PROVE  QueueInv'
<1> USE DEF QueueInv
<1>1. /\ UNCHANGED <<pending, reserved, lastID, posting, posted, finished, cleared>>
      /\ faults' \in 0..MaxFaults
  BY QueueAssumption DEF QueueAssumption, Abandon, Fault, redisVars, postVars, TypeOK
<1>2. /\ holding' \in [Worker -> ID \union {NoJob}]
      /\ elapsed' \in [Worker -> 0..(TTR + 1)]
      /\ holding'[w] = NoJob
      /\ \A v \in Worker \ {w} : holding'[v] = holding[v] /\ elapsed'[v] = elapsed[v]
  BY ReleaseFacts DEF Abandon
<1>3. TypeOK'
  BY <1>1, <1>2 DEF TypeOK
<1>4. Shape(pending, reserved)'
  BY <1>1
<1>5. Histories'
  BY <1>1, <1>2 DEF Histories
<1>6. Kept'
  BY <1>1 DEF Kept
<1>7. Running'
  BY <1>1, <1>2 DEF Running, Ahead
<1> QED BY <1>3, <1>4, <1>5, <1>6, <1>7

\* A worker finishes its job: only its own entry goes.
LEMMA FinishStep ==
  ASSUME QueueInv, NEW w \in Worker, Finish(w)
  PROVE  QueueInv'
<1> USE DEF QueueInv
<1> DEFINE id == holding[w]
<1>1. /\ UNCHANGED <<pending, lastID, posting, posted, cleared, faults>>
      /\ reserved' = FinishScript(reserved, id) /\ finished' = finished \union {id}
      /\ id # NoJob
  BY DEF Finish, postVars
<1>2. /\ holding' \in [Worker -> ID \union {NoJob}]
      /\ elapsed' \in [Worker -> 0..(TTR + 1)]
      /\ holding'[w] = NoJob
      /\ \A v \in Worker \ {w} : holding'[v] = holding[v] /\ elapsed'[v] = elapsed[v]
  BY ReleaseFacts DEF Finish
<1>3. Shape(pending, reserved') /\ Elements(reserved') = {e \in Elements(reserved) : e.id # id}
  BY <1>1, FinishShape
<1>4. IDs(reserved') = IDs(reserved) \ {id}
  BY <1>3 DEF IDs
<1>5. id \in ID /\ id \in posted
  BY <1>1 DEF TypeOK, Histories
<1>6. TypeOK'
  BY <1>1, <1>2, <1>3, <1>5 DEF TypeOK, Shape
<1>7. Shape(pending, reserved)'
  BY <1>1, <1>3
<1>8. Histories'
  BY <1>1, <1>2, <1>4, <1>5 DEF Histories
<1>9. Kept'
  BY <1>1, <1>4 DEF Kept
<1>10. Running'
  <2> SUFFICES ASSUME Punctual PROVE Running'
    BY DEF Running
  <2>1. id \notin IDs(pending)
    BY <1>1 DEF Running, Ahead, Histories, Shape, IDs
  <2>2. finished' \cap IDs(pending') = {} /\ finished' \cap IDs(reserved') = {}
    BY <1>1, <1>4, <2>1 DEF Running
  <2>3. \A v \in Worker \ {w} : holding[v] # id
    BY <1>1 DEF Running
  <2>4. ASSUME NEW v \in Worker, holding'[v] # NoJob
        PROVE  elapsed'[v] <= TTR /\ Ahead(v)'
    BY <1>1, <1>2, <1>3, <2>3, <2>4 DEF Running, Ahead
  <2>5. \A u, v \in Worker : holding'[u] # NoJob /\ holding'[u] = holding'[v] => u = v
    BY <1>2 DEF Running
  <2> QED BY <2>2, <2>4, <2>5 DEF Running
<1> QED BY <1>6, <1>7, <1>8, <1>9, <1>10

\* Clear drops the ids of both lists.
LEMMA ClearStep ==
  ASSUME QueueInv, Clear
  PROVE  QueueInv'
<1> USE DEF QueueInv
<1>1. /\ UNCHANGED <<lastID, posting, posted, finished, holding, elapsed, faults>>
      /\ pending' = << >> /\ reserved' = << >>
      /\ cleared' = cleared \union IDs(pending) \union IDs(reserved)
  BY IDsOfEntries DEF Clear, postVars, workVars, Shape
<1>2. Elements(<< >>) = {} /\ IDs(<< >>) = {}
  BY DEF Elements, IDs
<1>3. Shape(<< >>, << >>)
  BY <1>2 DEF Shape, Distinct
<1>4. Histories'
  BY <1>1, <1>2 DEF Histories
<1>5. TypeOK'
  BY <1>1, <1>3, <1>4 DEF TypeOK, Histories
<1>6. Shape(pending, reserved)'
  BY <1>1, <1>3
<1>7. Kept'
  BY <1>1, <1>2 DEF Kept
<1>8. Running'
  <2>1. \A v \in Worker : Ahead(v) => Ahead(v)'
    BY <1>1 DEF Ahead, IDs
  <2> QED BY <1>1, <1>2, <2>1 DEF Running
<1> QED BY <1>4, <1>5, <1>6, <1>7, <1>8

\* The groom is late: the entry of a punctual worker is not overdue.
LEMMA GroomStep ==
  ASSUME QueueInv, Groom
  PROVE  QueueInv'
<1> USE DEF QueueInv
<1> DEFINE O == {f \in Elements(reserved) : Overdue(f)}
           K == {f \in Elements(reserved) : ~Overdue(f)}
<1>1. /\ UNCHANGED <<lastID, posting, posted, finished, cleared, holding, elapsed, faults>>
      /\ pending' = GroomedPending(pending, ExpiredEntries(reserved))
      /\ reserved' = GroomedReserved(reserved)
  BY DEF Groom, postVars, workVars
<1>2. /\ Shape(pending', reserved')
      /\ IDs(pending') = IDs(pending) \union {e.id : e \in O}
      /\ Elements(reserved') = {Stamped(e) : e \in K}
  BY <1>1, GroomShape
<1>3. \A e \in Elements(reserved) :
        /\ e.age \in Age /\ Stamped(e).id = e.id
        /\ Stamped(e).age = IF e.age = NotStarted THEN 0 ELSE e.age
  BY EntryFacts DEF Shape, Elements
<1>4. IDs(reserved') = {e.id : e \in K}
  BY <1>2, <1>3 DEF IDs
<1>5. IDs(reserved) = {e.id : e \in O} \union {e.id : e \in K}
  BY DEF IDs
<1> HIDE DEF O, K
<1>6. TypeOK'
  BY <1>1, <1>2 DEF TypeOK, Shape
<1>7. Shape(pending, reserved)'
  BY <1>2
<1>8. Histories'
  BY <1>1, <1>2, <1>4, <1>5 DEF Histories
<1>9. Kept'
  BY <1>1, <1>2, <1>4, <1>5 DEF Kept
<1>10. Running'
  <2>1. ASSUME Punctual, NEW v \in Worker, holding[v] # NoJob PROVE Ahead(v)'
    <3>1. CASE holding[v] \in cleared
      BY <1>1, <3>1 DEF Ahead
    <3>2. CASE holding[v] \notin cleared
      <4>1. PICK e \in Elements(reserved) : e.id = holding[v] /\ e.age <= elapsed[v]
        BY <2>1, <3>2 DEF Running, Ahead
      <4>2. elapsed[v] \in Nat /\ elapsed[v] <= TTR /\ TTR \in Nat
        BY <2>1, QueueAssumption DEF Running, TypeOK, QueueAssumption
      <4>3. Stamped(e).age <= elapsed[v]
        BY <1>3, <4>1, <4>2
      <4>4. ~Overdue(e)
        BY <1>3, <4>2, <4>3 DEF Overdue, Age, NotStarted
      <4>5. Stamped(e) \in Elements(reserved')
        BY <1>2, <4>4 DEF K
      <4> QED BY <1>1, <1>3, <4>1, <4>3, <4>5 DEF Ahead
    <3> QED BY <3>1, <3>2
  <2> QED BY <1>1, <1>2, <1>4, <1>5, <2>1 DEF Running
<1> QED BY <1>6, <1>7, <1>8, <1>9, <1>10

\* One clock unit: an entry ages as its worker does.
LEMMA TickStep ==
  ASSUME QueueInv, Tick
  PROVE  QueueInv'
<1> USE DEF QueueInv
<1>1. /\ UNCHANGED <<pending, lastID, posting, posted, holding, finished, cleared, faults>>
      /\ reserved' = [i \in DOMAIN reserved |-> Older(reserved[i])]
      /\ elapsed' = [w \in Worker |->
                       IF holding[w] = NoJob \/ elapsed[w] = TTR + 1
                       THEN elapsed[w] ELSE elapsed[w] + 1]
  BY DEF Tick, postVars
<1>2. Shape(pending, reserved') /\ Elements(reserved') = {Older(e) : e \in Elements(reserved)}
  BY <1>1, OlderShape
<1>3. \A e \in Elements(reserved) :
        /\ e.age \in Age /\ Older(e).id = e.id
        /\ e.age = NotStarted => Older(e).age = NotStarted
        /\ e.age # NotStarted => Older(e).age <= e.age + 1
        /\ Older(e).age \in Age
  BY EntryFacts DEF Shape, Elements
<1>4. IDs(reserved') = IDs(reserved)
  BY <1>2, <1>3 DEF IDs
<1>5. elapsed' \in [Worker -> 0..(TTR + 1)]
  BY <1>1, QueueAssumption DEF TypeOK, QueueAssumption
<1>6. TypeOK'
  BY <1>1, <1>2, <1>5 DEF TypeOK, Shape
<1>7. Shape(pending, reserved)'
  BY <1>1, <1>2
<1>8. Histories'
  BY <1>1, <1>4 DEF Histories
<1>9. Kept'
  BY <1>1, <1>4 DEF Kept
<1>10. Running'
  <2>1. ASSUME Punctual, NEW v \in Worker, holding[v] # NoJob
        PROVE  elapsed'[v] <= TTR /\ Ahead(v)'
    <3>1. elapsed[v] \in Nat /\ elapsed[v] < TTR /\ TTR \in Nat /\ elapsed'[v] = elapsed[v] + 1
      BY <1>1, <2>1, QueueAssumption DEF Tick, TypeOK, QueueAssumption
    <3>2. CASE holding[v] \in cleared
      BY <1>1, <3>1, <3>2 DEF Ahead
    <3>3. CASE holding[v] \notin cleared
      <4>1. PICK e \in Elements(reserved) : e.id = holding[v] /\ e.age <= elapsed[v]
        BY <2>1, <3>3 DEF Running, Ahead
      <4>2. Older(e).age <= elapsed'[v]
        BY <1>3, <3>1, <4>1 DEF Age, NotStarted
      <4>3. Older(e) \in Elements(reserved')
        BY <1>2
      <4> QED BY <1>1, <1>3, <3>1, <4>1, <4>2, <4>3 DEF Ahead
    <3> QED BY <3>2, <3>3
  <2> QED BY <1>1, <1>4, <2>1 DEF Running
<1> QED BY <1>6, <1>7, <1>8, <1>9, <1>10

\* Every step keeps the inductive invariant.
LEMMA QueueStep == QueueInv /\ [Next]_vars => QueueInv'
<1> SUFFICES ASSUME QueueInv, [Next]_vars PROVE QueueInv'
  OBVIOUS
<1>1. CASE UNCHANGED vars
  BY <1>1 DEF vars, QueueInv, TypeOK, Histories, Kept, Running, Ahead
<1>2. CASE Next
  BY <1>2, DrawStep, PushStep, PushFailsStep, PickStep, PickLostStep, FinishStep,
     AbandonStep, GroomStep, ClearStep, TickStep DEF Next, WorkerStep
<1> QED BY <1>1, <1>2

-------------------------------------------------------------------------------
\* The inductive invariant holds in every reachable state.
THEOREM QueueInvariant == Spec => []QueueInv
<1> QED BY InitQueue, QueueStep, PTL DEF Spec

\* Every variable keeps its type, and no script ever leaves a mark in a list.
THEOREM QueueTypes == Spec => []TypeOK
<1>1. QueueInv => TypeOK
  BY DEF QueueInv
<1> QED BY <1>1, QueueInvariant, PTL

\* No id is in the two lists twice: finishScript, which removes one mark only,
\* never leaves another behind.
THEOREM UniqueTheorem == Spec => []UniqueEntries
<1>1. QueueInv => UniqueEntries
  <2> SUFFICES ASSUME QueueInv PROVE Distinct(pending \o reserved)
    BY DEF UniqueEntries, Distinct
  <2> QED BY ConcatDistinct DEF QueueInv, Shape
<1> QED BY <1>1, QueueInvariant, PTL

\* No posted job is lost (Pick, Finish, grooming, lost replies, crashes): it is
\* in a list until a worker finishes it or Clear drops it.
THEOREM NothingLostTheorem == Spec => []NothingLost
<1>1. QueueInv => NothingLost
  BY IDsOfEntries DEF QueueInv, Shape, Kept, NothingLost
<1> QED BY <1>1, QueueInvariant, PTL

\* A job that a punctual worker runs stays reserved, and is run by it alone.
THEOREM ExclusiveTheorem == Spec => []ExclusiveRun
<1>1. QueueInv => ExclusiveRun
  <2> SUFFICES ASSUME QueueInv, Punctual PROVE ExclusiveRun
    BY DEF ExclusiveRun
  <2>1. \A w \in Worker : Ahead(w) => holding[w] \in IDs(reserved) \union cleared
    BY DEF Ahead, IDs
  <2>2. IDsIn(reserved) = IDs(reserved)
    BY IDsOfEntries DEF QueueInv, Shape
  <2> QED BY <2>1, <2>2 DEF QueueInv, Running, ExclusiveRun
<1> QED BY <1>1, QueueInvariant, PTL

\* What punctual workers finished does not come back (finishScript, and
\* groomScript, which reschedules what is overdue).
THEOREM FinishedTheorem == Spec => [](Punctual => FinishedStaysGone)
<1>1. QueueInv => (Punctual => FinishedStaysGone)
  <2>1. QueueInv => IDsIn(reserved) = IDs(reserved) /\ IDsIn(pending) = IDs(pending)
    BY IDsOfEntries DEF QueueInv, Shape
  <2> QED BY <2>1 DEF QueueInv, Running, FinishedStaysGone
<1> QED BY <1>1, QueueInvariant, PTL

-------------------------------------------------------------------------------
\* The waiting ids as module WorkQueue has them: the tail of the list is next.
OldestFirst(list) == [i \in 1..Len(list) |-> list[Len(list) + 1 - i].id]

LEMMA OldestFacts ==
  ASSUME NEW list \in Seq(Entry)
  PROVE  /\ OldestFirst(list) \in Seq(ID) /\ Len(OldestFirst(list)) = Len(list)
         /\ \A i \in 1..Len(list) : OldestFirst(list)[i] = list[Len(list) + 1 - i].id
<1> DEFINE n == Len(list)
<1>1. n \in Nat /\ \A i \in 1..n : list[i].id \in ID
  BY EntryFacts
<1> HIDE DEF n
<1>2. \A i \in 1..n : n + 1 - i \in 1..n
  BY <1>1
<1>3. \A i \in 1..n : list[n + 1 - i].id \in ID
  BY <1>1, <1>2
<1>4. OldestFirst(list) = [i \in 1..n |-> list[n + 1 - i].id]
  BY DEF OldestFirst, n
<1> QED BY <1>1, <1>3, <1>4 DEF n

\* LPUSH makes its entry the last in turn.
LEMMA OldestCons ==
  ASSUME NEW list \in Seq(Entry), NEW e \in Entry
  PROVE  OldestFirst(<<e>> \o list) = Append(OldestFirst(list), e.id)
<1> DEFINE n == Len(list)
           q == <<e>> \o list
           s == OldestFirst(q)
           t == Append(OldestFirst(list), e.id)
<1>1. /\ n \in Nat /\ q \in Seq(Entry) /\ Len(q) = n + 1 /\ q[1] = e
      /\ \A i \in 1..n : q[i + 1] = list[i]
  OBVIOUS
<1>2. /\ OldestFirst(list) \in Seq(ID) /\ Len(OldestFirst(list)) = n
      /\ \A i \in 1..n : OldestFirst(list)[i] = list[n + 1 - i].id
  BY OldestFacts
<1> HIDE DEF q, n
<1>3. s \in Seq(ID) /\ Len(s) = n + 1 /\ \A i \in 1..(n + 1) : s[i] = q[n + 2 - i].id
  <2>1. s \in Seq(ID) /\ Len(s) = Len(q) /\ \A i \in 1..Len(q) : s[i] = q[Len(q) + 1 - i].id
    BY <1>1, OldestFacts
  <2>2. \A i \in 1..(n + 1) : (n + 1) + 1 - i = n + 2 - i
    BY <1>1
  <2> QED BY <1>1, <2>1, <2>2
<1> DEFINE r == OldestFirst(list)
<1>4. e.id \in ID /\ r \in Seq(ID) /\ Len(r) = n
  BY <1>2, EntryFacts
<1> HIDE DEF r
<1>5. /\ Append(r, e.id) \in Seq(ID) /\ Len(Append(r, e.id)) = n + 1 /\ Append(r, e.id)[n + 1] = e.id
      /\ \A i \in 1..n : Append(r, e.id)[i] = r[i]
  BY <1>4
<1> HIDE DEF s, t
<1>6. t \in Seq(ID) /\ Len(t) = n + 1 /\ t[n + 1] = e.id /\ \A i \in 1..n : t[i] = r[i]
  BY <1>5 DEF t, r
<1>7. ASSUME NEW i \in 1..(n + 1) PROVE s[i] = t[i]
  <2>1. CASE i = n + 1
    <3>1. n + 2 - (n + 1) = 1
      BY <1>1
    <3> QED BY <1>1, <1>3, <1>6, <2>1, <3>1
  <2>2. CASE i # n + 1
    <3>1. i \in 1..n /\ n + 1 - i \in 1..n /\ n + 2 - i = (n + 1 - i) + 1
      BY <1>1, <2>2
    <3>2. s[i] = list[n + 1 - i].id
      BY <1>1, <1>3, <3>1
    <3> QED BY <1>2, <1>6, <3>1, <3>2 DEF r
  <2> QED BY <2>1, <2>2
<1>8. s = t
  BY <1>3, <1>6, <1>7, SeqEqual
<1> QED BY <1>8 DEF s, t, q

\* BRPOPLPUSH takes the first in turn.
LEMMA OldestInit ==
  ASSUME NEW list \in Seq(Entry), list # << >>
  PROVE  LET q == OldestFirst(list)
         IN  /\ q # << >> /\ Head(q) = list[Len(list)].id
             /\ OldestFirst(SubSeq(list, 1, Len(list) - 1)) = Tail(q)
<1> DEFINE n == Len(list)
           q == OldestFirst(list)
           p == SubSeq(list, 1, n - 1)
           s == OldestFirst(p)
           t == Tail(q)
<1>1. n \in Nat \ {0} /\ p \in Seq(Entry) /\ Len(p) = n - 1 /\ \A i \in 1..(n - 1) : p[i] = list[i]
  <2>1. n \in Nat \ {0} /\ \A i \in 1..n : list[i] \in Entry
    OBVIOUS
  <2> HIDE DEF n
  <2>2. \A i \in 1..(n - 1) : list[i] \in Entry
    BY <2>1
  <2>3. /\ p \in Seq(Entry) /\ Len(p) = IF 1 <= n - 1 THEN (n - 1) - 1 + 1 ELSE 0
        /\ \A i \in 1..((n - 1) - 1 + 1) : p[i] = list[1 + i - 1]
    BY <2>1, <2>2, SubSeqProperties
  <2>4. (n - 1) - 1 + 1 = n - 1 /\ (1 <= n - 1 \/ n - 1 = 0) /\ \A i \in 1..(n - 1) : 1 + i - 1 = i
    BY <2>1
  <2> QED BY <2>1, <2>3, <2>4
<1>2. q \in Seq(ID) /\ Len(q) = n /\ \A i \in 1..n : q[i] = list[n + 1 - i].id
  BY OldestFacts
<1> HIDE DEF n, q, p
<1>3. s \in Seq(ID) /\ Len(s) = n - 1 /\ \A i \in 1..(n - 1) : s[i] = p[(n - 1) + 1 - i].id
  BY <1>1, OldestFacts
<1> HIDE DEF s
<1>4. /\ q # << >> /\ Head(q) = q[1]
      /\ t \in Seq(ID) /\ Len(t) = n - 1 /\ \A i \in 1..(n - 1) : t[i] = q[i + 1]
  BY <1>1, <1>2
<1> HIDE DEF t
<1>5. ASSUME NEW i \in 1..(n - 1) PROVE s[i] = t[i]
  <2>1. PICK k \in 1..(n - 1) : k = (n - 1) + 1 - i
    BY <1>1
  <2>2. i + 1 \in 1..n /\ n + 1 - (i + 1) = k
    BY <1>1, <2>1
  <2>3. s[i] = list[k].id
    BY <1>1, <1>3, <2>1
  <2>4. q[i + 1] = list[k].id
    BY <1>2, <2>2
  <2> QED BY <1>4, <2>3, <2>4
<1>6. s = t
  BY <1>3, <1>4, <1>5, SeqEqual
<1>7. Head(q) = list[n].id
  <2>1. 1 \in 1..n /\ n + 1 - 1 = n
    BY <1>1
  <2> QED BY <1>2, <1>4, <2>1
<1> QED BY <1>4, <1>6, <1>7 DEF s, t, p, n, q

\* The ids of a list, in its order.
IDsInOrder(b) == [i \in 1..Len(b) |-> b[i].id]

\* groomScript puts the overdue entries behind the others, in their order.
LEMMA OldestGroomed ==
  ASSUME NEW list \in Seq(Entry), NEW b \in Seq(Entry)
  PROVE  OldestFirst(GroomedPending(list, b)) = OldestFirst(list) \o IDsInOrder(b)
<1> DEFINE n == Len(list)
           m == Len(b)
           v == [i \in 1..m |-> Requeued(b[m + 1 - i])]
           q == v \o list
           s == OldestFirst(q)
           r == OldestFirst(list)
           o == IDsInOrder(b)
           t == r \o o
<1>1. n \in Nat /\ m \in Nat /\ \A i \in 1..m : b[i] \in Entry /\ b[i].id \in ID
  BY EntryFacts
<1>2. GroomedPending(list, b) = q
  BY DEF GroomedPending
<1>3. r \in Seq(ID) /\ Len(r) = n /\ \A i \in 1..n : r[i] = list[n + 1 - i].id
  BY OldestFacts
<1>4. o = [i \in 1..m |-> b[i].id]
  BY DEF IDsInOrder
<1> HIDE DEF m, o
<1>5. o \in Seq(ID) /\ Len(o) = m /\ \A i \in 1..m : o[i] = b[i].id
  BY <1>1, <1>4
<1>6. /\ v \in Seq(Entry) /\ Len(v) = m
      /\ \A i \in 1..m : m + 1 - i \in 1..m /\ v[i].id = b[m + 1 - i].id
  <2>1. \A i \in 1..m : m + 1 - i \in 1..m
    BY <1>1
  <2>2. \A i \in 1..m : Requeued(b[m + 1 - i]) \in Entry /\ Requeued(b[m + 1 - i]).id = b[m + 1 - i].id
    BY <1>1, <2>1, EntryFacts
  <2> QED BY <1>1, <2>1, <2>2
<1> HIDE DEF v
<1>7. /\ q \in Seq(Entry) /\ Len(q) = m + n
      /\ \A i \in 1..(m + n) : q[i] = IF i <= m THEN v[i] ELSE list[i - m]
  BY <1>6, ConcatProperties
<1>8. /\ t \in Seq(ID) /\ Len(t) = n + m
      /\ \A i \in 1..(n + m) : t[i] = IF i <= n THEN r[i] ELSE o[i - n]
  <2> HIDE DEF r
  <2>1. /\ r \o o \in Seq(ID) /\ Len(r \o o) = Len(r) + Len(o)
        /\ \A i \in 1..(Len(r) + Len(o)) : (r \o o)[i] = IF i <= Len(r) THEN r[i] ELSE o[i - Len(r)]
    BY <1>3, <1>5, ConcatProperties
  <2> QED BY <1>3, <1>5, <2>1
<1> HIDE DEF n, q, r, t
<1>9. s \in Seq(ID) /\ Len(s) = m + n /\ \A i \in 1..(m + n) : s[i] = q[m + n + 1 - i].id
  BY <1>7, OldestFacts
<1> HIDE DEF s
<1>10. ASSUME NEW i \in 1..(m + n) PROVE s[i] = t[i]
  <2>1. i \in 1..(n + m) /\ m + n + 1 - i \in 1..(m + n)
    BY <1>1
  <2>2. CASE i <= n
    <3>1. i \in 1..n /\ ~(m + n + 1 - i <= m) /\ m + n + 1 - i - m = n + 1 - i
      BY <1>1, <2>2
    <3>2. PICK k \in 1..(m + n) : k = m + n + 1 - i
      BY <2>1
    <3>3. q[k] = list[k - m]
      BY <1>7, <3>1, <3>2
    <3>4. k - m = n + 1 - i
      BY <1>1, <3>2
    <3>5. s[i] = list[n + 1 - i].id
      BY <1>9, <3>2, <3>3, <3>4
    <3> QED BY <1>3, <1>8, <2>1, <2>2, <3>1, <3>5
  <2>3. CASE ~(i <= n)
    <3>1. i - n \in 1..m /\ m + n + 1 - i <= m /\ m + n + 1 - i \in 1..m /\ m + 1 - (m + n + 1 - i) = i - n
      BY <1>1, <2>3
    <3>2. PICK k \in 1..m : k = m + n + 1 - i
      BY <3>1
    <3>3. k \in 1..(m + n) /\ k <= m /\ m + 1 - k = i - n
      BY <1>1, <3>1, <3>2
    <3>4. q[k].id = b[i - n].id
      BY <1>6, <1>7, <3>3
    <3> QED BY <1>5, <1>8, <1>9, <2>1, <2>3, <3>1, <3>2, <3>4
  <2> QED BY <2>2, <2>3
<1>11. Len(s) = Len(t)
  BY <1>1, <1>8, <1>9
<1>12. s = t
  BY <1>8, <1>9, <1>10, <1>11, SeqEqual
<1> QED BY <1>2, <1>12 DEF s, t, r, o

\* The entries that groomScript puts back: all overdue ones, each once.
LEMMA ExpiredFacts ==
  ASSUME NEW p, NEW r, Shape(p, r)
  PROVE  LET b == ExpiredEntries(r)
         IN  /\ b \in Seq(Entry) /\ Distinct(b)
             /\ Elements(b) = {f \in Elements(r) : Overdue(f)}
<1> DEFINE b == ExpiredEntries(r)
           SO == {i \in DOMAIN r : Overdue(r[i])}
<1>1. b \in Seq(Entry) /\ Takes(b, r, SO)
  BY ExpiredTakes DEF Shape
<1>2. Distinct(b) /\ Elements(b) = {r[i] : i \in SO}
  BY <1>1, TakesDistinct DEF Shape
<1>3. Elements(b) = {f \in Elements(r) : Overdue(f)}
  BY <1>2 DEF Elements
<1> QED BY <1>1, <1>2, <1>3

\* A list of distinct ids has as many of them as entries.
LEMMA OrderFacts ==
  ASSUME NEW b \in Seq(Entry), Distinct(b)
  PROVE  LET o == IDsInOrder(b)
         IN  /\ o \in [1..Cardinality(IDs(b)) -> IDs(b)]
             /\ {o[i] : i \in DOMAIN o} = IDs(b)
<1> DEFINE o == IDsInOrder(b)
           n == Len(b)
<1>1. n \in Nat /\ DOMAIN b = 1..n /\ o = [i \in 1..n |-> b[i].id]
  BY DEF IDsInOrder
<1>2. IDs(b) = {b[i].id : i \in 1..n}
  BY <1>1 DEF IDs, Elements
<1> HIDE DEF o, n
<1>3. o \in [1..n -> IDs(b)] /\ DOMAIN o = 1..n /\ {o[i] : i \in DOMAIN o} = IDs(b)
  BY <1>1, <1>2
<1>4. \A i, j \in 1..n : o[i] = o[j] => i = j
  BY <1>1 DEF Distinct
<1>5. \A id \in IDs(b) : \E i \in 1..n : o[i] = id
  BY <1>1, <1>2
<1>6. o \in Bijection(1..n, IDs(b))
  BY <1>3, <1>4, <1>5 DEF Bijection, Injection, IsInjective, Surjection
<1>7. ExistsBijection(1..n, IDs(b))
  BY <1>6 DEF ExistsBijection
<1>8. Cardinality(IDs(b)) = n
  BY <1>1, <1>7, FS_CountingElements
<1> QED BY <1>3, <1>8 DEF o

\* The lists as WorkQueue sees them, before and after a step.
LEMMA Reserving ==
  ASSUME QueueInv, Reserve, UNCHANGED posted
  PROVE  /\ OldestFirst(pending) # << >>
         /\ Head(OldestFirst(pending)) = pending[Len(pending)].id
         /\ OldestFirst(pending') = Tail(OldestFirst(pending))
         /\ IDsIn(reserved') = IDsIn(reserved) \union {Head(OldestFirst(pending))}
<1> DEFINE id == pending[Len(pending)].id
<1>1. IDs(reserved') = IDs(reserved) \union {id} /\ reserved' \in Seq(Entry)
  BY ReserveFacts DEF Shape
<1>2. pending \in Seq(Entry) /\ reserved \in Seq(Entry) /\ pending # << >>
      /\ pending' = SubSeq(pending, 1, Len(pending) - 1)
  BY DEF QueueInv, Shape, Reserve
<1>3. OldestFirst(SubSeq(pending, 1, Len(pending) - 1)) = Tail(OldestFirst(pending))
      /\ OldestFirst(pending) # << >> /\ Head(OldestFirst(pending)) = id
  BY <1>2, OldestInit
<1>4. IDsIn(reserved') = IDs(reserved') /\ IDsIn(reserved) = IDs(reserved)
  BY <1>1, <1>2, IDsOfEntries
<1> QED BY <1>1, <1>2, <1>3, <1>4

\* The job of a punctual worker is not among those put back.
LEMMA GroomSpares ==
  ASSUME QueueInv, Punctual, NEW w \in Worker, NEW e \in Elements(reserved), Overdue(e)
  PROVE  holding[w] # e.id
<1> SUFFICES ASSUME holding[w] = e.id PROVE FALSE
  OBVIOUS
<1>1. e.id \in ID /\ e.id \in IDs(reserved)
  BY EntryFacts DEF QueueInv, Shape, Elements, IDs
<1>2. holding[w] # NoJob /\ holding[w] \notin cleared
  BY <1>1, QueueAssumption DEF QueueInv, Histories, QueueAssumption
<1>3. PICK f \in Elements(reserved) : f.id = holding[w] /\ f.age <= elapsed[w]
  BY <1>2 DEF QueueInv, Running, Ahead
<1>4. f = e
  BY <1>3 DEF QueueInv, Shape, Distinct, Elements
<1>5. elapsed[w] \in Nat /\ elapsed[w] <= TTR /\ TTR \in Nat /\ e.age <= elapsed[w]
  BY <1>2, <1>3, <1>4, QueueAssumption DEF QueueInv, Running, TypeOK, QueueAssumption
<1>6. e.age \in Age /\ Stamped(e).age = IF e.age = NotStarted THEN 0 ELSE e.age
  BY EntryFacts DEF QueueInv, Shape, Elements
<1> QED BY <1>5, <1>6 DEF Overdue, Age, NotStarted

\* Grooming puts the overdue jobs back, or changes nothing that shows.
LEMMA GroomImplements ==
  ASSUME QueueInv, Groom
  PROVE  [WQ!Next]_(WQ!vars)
<1> DEFINE b == ExpiredEntries(reserved)
           O == {f \in Elements(reserved) : Overdue(f)}
           K == {f \in Elements(reserved) : ~Overdue(f)}
           S == {e.id : e \in O}
<1>1. /\ UNCHANGED <<posted, holding>>
      /\ pending' = GroomedPending(pending, b) /\ reserved' = GroomedReserved(reserved)
  BY DEF Groom, postVars, workVars
<1>2. Shape(pending, reserved) /\ pending \in Seq(Entry) /\ reserved \in Seq(Entry)
  BY DEF QueueInv, Shape
<1>3. b \in Seq(Entry) /\ Distinct(b) /\ Elements(b) = O
  BY <1>2, ExpiredFacts
<1>4. Shape(pending', reserved') /\ Elements(reserved') = {Stamped(e) : e \in K}
  BY <1>1, <1>2, GroomShape
<1>5. \A e \in Elements(reserved) : Stamped(e).id = e.id
  BY <1>2, EntryFacts DEF Elements
<1> HIDE DEF b
<1>6. IDs(b) = S
  BY <1>3 DEF IDs
<1>7. IDs(reserved') = {e.id : e \in K} /\ IDs(reserved) = S \union {e.id : e \in K}
  BY <1>4, <1>5 DEF IDs
<1>8. S \intersect {e.id : e \in K} = {}
  BY <1>2 DEF Shape, Distinct, Elements
<1>9. IDsIn(reserved) = IDs(reserved) /\ IDsIn(reserved') = IDs(reserved')
  BY <1>2, <1>4, IDsOfEntries DEF Shape
<1>10. OldestFirst(pending') = OldestFirst(pending) \o IDsInOrder(b)
  BY <1>1, <1>2, <1>3, OldestGroomed
<1>11. Punctual => \A w \in Worker : holding[w] \notin S
  BY GroomSpares
<1>12. IDsInOrder(b) \in [1..Cardinality(S) -> S] /\ {IDsInOrder(b)[i] : i \in DOMAIN IDsInOrder(b)} = S
  BY <1>3, <1>6, OrderFacts
<1> HIDE DEF O, K, S
<1>13. IDsIn(reserved') = IDsIn(reserved) \ S /\ S \in SUBSET IDsIn(reserved)
  BY <1>7, <1>8, <1>9
<1>14. CASE S = {}
  <2>1. IDsIn(reserved') = IDsIn(reserved)
    BY <1>13, <1>14
  <2>2. IDs(b) = {} /\ DOMAIN b = 1..Len(b) /\ Len(b) \in Nat
    BY <1>3, <1>6, <1>14
  <2>3. Len(b) = 0
    <3>1. 1 \notin DOMAIN b
      BY <2>2 DEF IDs, Elements
    <3> QED BY <2>2, <3>1
  <2>4. IDsInOrder(b) = << >>
    BY <2>3 DEF IDsInOrder
  <2>5. OldestFirst(pending') = OldestFirst(pending)
    BY <1>2, <1>10, <2>4, OldestFacts
  <2> QED BY <1>1, <2>1, <2>5 DEF WQ!vars, OldestFirst
<1>15. CASE S # {}
  <2>1. PICK T \in SUBSET IDsIn(reserved) : T = S
    BY <1>13
  <2>2. WQ!Cardinality(T) = Cardinality(T)
    BY DEF WQ!Cardinality, Cardinality
  <2>3. WQ!PutBack(T)
    BY <1>1, <1>10, <1>11, <1>12, <1>13, <1>15, <2>1, <2>2 DEF WQ!PutBack, OldestFirst
  <2> QED BY <2>3 DEF WQ!Next
<1> QED BY <1>14, <1>15

\* A step of a worker is one of the workers of WorkQueue.
LEMMA WorkerImplements ==
  ASSUME QueueInv, NEW w \in Worker, WorkerStep(w)
  PROVE  [WQ!Next]_(WQ!vars)
<1>1. CASE Pick(w)
  <2>1. Reserve /\ UNCHANGED posted /\ holding[w] = NoJob
        /\ holding' = [holding EXCEPT ![w] = pending[Len(pending)].id]
    BY <1>1 DEF Pick, postVars
  <2>2. WQ!Pick(w)
    BY <2>1, Reserving DEF WQ!Pick, WQ!Reserve, OldestFirst
  <2> QED BY <2>2 DEF WQ!Next
<1>2. CASE PickLost(w)
  <2>1. Reserve /\ UNCHANGED <<posted, holding>>
    BY <1>2 DEF PickLost, postVars, workVars
  <2>2. WQ!PickLost
    BY <2>1, Reserving DEF WQ!PickLost, WQ!Reserve, OldestFirst
  <2> QED BY <2>2 DEF WQ!Next
<1>3. CASE Finish(w)
  <2> DEFINE id == holding[w]
  <2>1. /\ id # NoJob /\ reserved' = FinishScript(reserved, id)
        /\ holding' = [holding EXCEPT ![w] = NoJob] /\ UNCHANGED <<pending, posted>>
    BY <1>3 DEF Finish, Release, postVars
  <2>2. Shape(pending, reserved)
    BY DEF QueueInv
  <2> HIDE DEF id
  <2>3. Shape(pending, FinishScript(reserved, id))
        /\ Elements(FinishScript(reserved, id)) = {e \in Elements(reserved) : e.id # id}
    BY <2>2, FinishShape
  <2>4. IDs(reserved') = IDs(reserved) \ {id}
    BY <2>1, <2>3 DEF IDs
  <2>5. IDsIn(reserved') = IDsIn(reserved) \ {id}
    BY <2>1, <2>2, <2>3, <2>4, IDsOfEntries DEF Shape
  <2>6. WQ!Finish(w)
    BY <2>1, <2>5 DEF WQ!Finish, id
  <2> QED BY <2>6 DEF WQ!Next
<1>4. CASE Abandon(w)
  <2>1. WQ!Abandon(w)
    BY <1>4 DEF Abandon, Release, redisVars, postVars, WQ!Abandon
  <2> QED BY <2>1 DEF WQ!Next
<1> QED BY <1>1, <1>2, <1>3, <1>4 DEF WorkerStep

\* The queue in Redis implements module WorkQueue: although scripts edit lists
\* entry by entry and replies and workers get lost, jobs wait in order, are
\* handed out oldest first, and leave only by Finish or Clear; what goes back was
\* reserved, is run by nobody if workers are punctual, and waits behind the rest.
THEOREM RedisImplementsWorkQueue == Spec => ImplementsWorkQueue
<1>1. Init => WQ!Init
  <2> SUFFICES ASSUME Init PROVE WQ!Init
    OBVIOUS
  <2>1. IDsIn(<< >>) = {}
    BY DEF IDsIn, Elements
  <2>2. [i \in 1..Len(<< >>) |-> << >>[Len(<< >>) + 1 - i].id] = << >>
    OBVIOUS
  <2> QED BY <2>1, <2>2 DEF Init, WQ!Init
<1>2. QueueInv /\ [Next]_vars => [WQ!Next]_(WQ!vars)
  <2> SUFFICES ASSUME QueueInv, [Next]_vars PROVE [WQ!Next]_(WQ!vars)
    OBVIOUS
  <2>1. ASSUME UNCHANGED <<pending, reserved, holding, posted>> PROVE [WQ!Next]_(WQ!vars)
    BY <2>1 DEF WQ!vars, IDsIn, Elements
  <2>2. ASSUME NEW p \in Poster, DrawID(p) PROVE [WQ!Next]_(WQ!vars)
    BY <2>1, <2>2 DEF DrawID, redisVars, workVars
  <2>3. ASSUME NEW id \in posting, Push(id) PROVE [WQ!Next]_(WQ!vars)
    <3> DEFINE e == [id |-> id, age |-> NotStarted]
    <3>1. e \in Entry /\ e.id = id /\ id \in ID /\ id \notin posted
      BY QueueAssumption DEF QueueAssumption, QueueInv, TypeOK, Histories, Entry, Age, NotStarted
    <3>2. pending' = <<e>> \o pending /\ UNCHANGED <<reserved, holding>> /\ posted' = posted \union {id}
      BY <2>3 DEF Push, workVars
    <3> HIDE DEF e
    <3>3. OldestFirst(pending') = Append(OldestFirst(pending), id)
      BY <3>1, <3>2, OldestCons DEF QueueInv, Shape
    <3>4. WQ!Post(id)
      BY <3>1, <3>2, <3>3 DEF WQ!Post, OldestFirst, IDsIn, Elements
    <3> QED BY <3>1, <3>4 DEF WQ!Next
  <2>4. ASSUME NEW id \in posting, PushFails(id) PROVE [WQ!Next]_(WQ!vars)
    BY <2>1, <2>4 DEF PushFails, redisVars, workVars
  <2>5. CASE Clear
    <3>1. UNCHANGED <<posted, holding>> /\ pending' = << >> /\ reserved' = << >>
      BY <2>5 DEF Clear, postVars, workVars
    <3>2. IDsIn(reserved') = {}
      BY <3>1 DEF IDsIn, Elements
    <3>3. OldestFirst(pending') = << >>
      BY <3>1 DEF OldestFirst
    <3>4. WQ!Clear
      BY <3>1, <3>2, <3>3 DEF WQ!Clear, OldestFirst
    <3> QED BY <3>4 DEF WQ!Next
  <2>6. CASE Tick
    <3>1. UNCHANGED <<pending, holding, posted>> /\ reserved' = [i \in DOMAIN reserved |-> Older(reserved[i])]
      BY <2>6 DEF Tick, postVars
    <3>2. Shape(pending, reserved)
      BY DEF QueueInv
    <3>3. Shape(pending, reserved') /\ Elements(reserved') = {Older(e) : e \in Elements(reserved)}
      BY <3>1, <3>2, OlderShape
    <3>4. \A e \in Elements(reserved) : Older(e).id = e.id
      BY <3>2, EntryFacts DEF Shape, Elements
    <3>5. IDs(reserved') = IDs(reserved)
      BY <3>3, <3>4 DEF IDs
    <3>6. IDsIn(reserved') = IDsIn(reserved)
      BY <3>2, <3>3, <3>5, IDsOfEntries DEF Shape
    <3> QED BY <3>1, <3>6 DEF WQ!vars
  <2>7. CASE UNCHANGED vars
    BY <2>1, <2>7 DEF vars
  <2> QED BY <2>2, <2>3, <2>4, <2>5, <2>6, <2>7, WorkerImplements, GroomImplements DEF Next
<1> QED BY <1>1, <1>2, QueueInvariant, PTL DEF Spec, ImplementsWorkQueue, WQ!Spec
===============================================================================
