--------------------------- MODULE ConfigCacheProofs ---------------------------
(***************************************************************************)
(* Proofs about ConfigCache for every set of elements and of readers, and  *)
(* every number of changes on the server.                                  *)
(***************************************************************************)
EXTENDS ConfigCache, TLAPS

----------------------------------------------------------------------------
\* The inductive invariant.

\* Nobody is ahead of the table.
TableLeads ==
  /\ \A i \in Items : cache.ver[i] <= row[i].ver /\ row[i].ver <= latest
  /\ synced <= latest
  /\ row[List].ver > 0
  /\ \A t \in Readers : /\ reader[t].own <= row[List].ver
                        /\ reader[t].pc = "put" => reader[t].own > 0

\* What the thread has got is the row as it is, unless a later round will bring it again.
BatchIsGenuine ==
  \A r \in batch : /\ r.ver > 0 /\ r.ver <= row[r.item].ver
                   /\ row[r.item].ver <= synced => r.ver = row[r.item].ver
                   /\ r.ver = row[r.item].ver => r.deleted = row[r.item].deleted

\* What a reader has got of an element is not newer than its row, and older than its deletion.
AnswersAreLate ==
  \A t \in Readers : \A p \in reader[t].todo :
    /\ p[2] > 0 /\ p[2] <= row[p[1]].ver
    /\ (row[p[1]].deleted => p[2] < row[p[1]].ver)

IInv ==
  TypeOK /\ TableLeads /\ BatchIsGenuine /\ AnswersAreLate /\ LiveItemsAreCurrent

LEMMA InitHolds == Init => IInv
<1> SUFFICES ASSUME Init PROVE IInv
  OBVIOUS
<1>1. 0 \in Version /\ 1 \in Version /\ List \in Items
  BY ConfigAssumption DEF Version, Items
<1>2. TypeOK
  BY <1>1 DEF Init, TypeOK, Row, Cache, Reader, Resting
<1>3. TableLeads /\ BatchIsGenuine /\ AnswersAreLate
  BY <1>1 DEF Init, TableLeads, BatchIsGenuine, AnswersAreLate, Resting, Items
<1>4. LiveItemsAreCurrent
  BY DEF Init, LiveItemsAreCurrent, Live
<1> QED BY <1>2, <1>3, <1>4 DEF IInv

----------------------------------------------------------------------------
\* What the operators on the cache return.

LEMMA ItemFacts == /\ List \in Items /\ Elements \subseteq Items /\ List \notin Elements
                   /\ \A i \in Items : i # List => i \in Elements
                   /\ Version \subseteq Nat /\ 0 \in Version
BY ConfigAssumption DEF Items, Version

LEMMA ListedType ==
  ASSUME NEW c \in Cache
  PROVE  Listed(c) \in SUBSET (Elements \X Version)
<1>1. \A e \in c.kids : <<e, c.ver[e]>> \in Elements \X Version
  BY ItemFacts DEF Cache
<1> QED BY <1>1 DEF Listed

LEMMA FetchedType ==
  ASSUME TypeOK
  PROVE  /\ Fetched \in SUBSET (Elements \X Version)
         /\ \A p \in Fetched : p[2] = row[p[1]].ver /\ ~row[p[1]].deleted
<1>1. \A e \in Elements : <<e, row[e].ver>> \in Elements \X Version
  BY ItemFacts DEF TypeOK, Row
<1> QED BY <1>1 DEF Fetched, Live

\* A callback changes no entry but those it fetches, which are then current and listed.
LEMMA RefreshedFacts ==
  ASSUME TypeOK, NEW c \in Cache
  PROVE  /\ Refreshed(c) \in Cache
         /\ Refreshed(c).ver[List] = c.ver[List]
         /\ \A e \in Elements :
              \/ Refreshed(c).ver[e] = c.ver[e]
              \/ Live(e) /\ Refreshed(c).ver[e] = row[e].ver
         /\ \A e \in Elements :
              Refreshed(c).ver[e] # 0 /\ e \notin Refreshed(c).kids
                => c.ver[e] # 0 /\ e \notin c.kids
<1> DEFINE verF == [i \in Items |-> IF i # List /\ Live(i) THEN row[i].ver ELSE c.ver[i]]
           kidsF == {e \in Elements : Live(e) /\ c.ver[e] = 0}
           filled == IF c.kids # {} THEN c ELSE [c EXCEPT !.ver = verF, !.kids = kidsF]
           v == [own |-> c.ver[List], elems |-> IF c.kids # {} THEN Listed(c) ELSE Fetched]
<1>1. v \in Value
  BY ListedType, FetchedType, ItemFacts DEF Value, Cache
<1>2. verF \in [Items -> Version] /\ kidsF \in SUBSET Elements
  BY DEF TypeOK, Row, Cache
<1>3. /\ filled \in Cache
      /\ filled.ver = IF c.kids # {} THEN c.ver ELSE verF
      /\ filled.kids = IF c.kids # {} THEN c.kids ELSE kidsF
  <2> HIDE DEF verF, kidsF
  <2> QED BY <1>2 DEF Cache
<1>4. Refreshed(c) = [filled EXCEPT !.value = v, !.held = v, !.overtaken = FALSE]
  BY DEF Refreshed
<1>5. /\ Refreshed(c) \in Cache
      /\ Refreshed(c).ver = filled.ver /\ Refreshed(c).kids = filled.kids
  <2> HIDE DEF filled, v
  <2> QED BY <1>1, <1>3, <1>4 DEF Cache
<1>6. Refreshed(c).ver[List] = c.ver[List]
  BY <1>3, <1>5, ItemFacts
<1>7. ASSUME NEW e \in Elements
      PROVE  /\ \/ Refreshed(c).ver[e] = c.ver[e]
                \/ Live(e) /\ Refreshed(c).ver[e] = row[e].ver
             /\ Refreshed(c).ver[e] # 0 /\ e \notin Refreshed(c).kids
                  => c.ver[e] # 0 /\ e \notin c.kids
  <2>1. e \in Items /\ e # List
    BY ItemFacts
  <2>2. verF[e] = IF Live(e) THEN row[e].ver ELSE c.ver[e]
    BY <2>1
  <2> QED BY <1>3, <1>5, <2>1, <2>2
<1> QED BY <1>5, <1>6, <1>7

\* The same of whatever a callback leaves behind.
LEMMA NotifiedFacts ==
  ASSUME TypeOK, NEW c \in Cache, NEW d \in Notified(c)
  PROVE  /\ d \in Cache
         /\ d.ver[List] = c.ver[List]
         /\ \A e \in Elements : d.ver[e] = c.ver[e] \/ (Live(e) /\ d.ver[e] = row[e].ver)
         /\ \A e \in Elements : d.ver[e] # 0 /\ e \notin d.kids => c.ver[e] # 0 /\ e \notin c.kids
<1>1. CASE d = c
  BY <1>1
<1>2. CASE d = Refreshed(c)
  BY <1>2, RefreshedFacts
<1>3. CASE d = [c EXCEPT !.held = None]
  <2>1. d \in Cache /\ d.ver = c.ver /\ d.kids = c.kids
    BY <1>3 DEF Cache
  <2> QED BY <2>1
<1> QED BY <1>1, <1>2, <1>3 DEF Notified

\* Only the entry of the change is touched, and the list's where it is fetched.
LEMMA AppliedFacts ==
  ASSUME TypeOK, NEW c \in Cache, NEW r \in Change
  PROVE  /\ Applied(c, r) \in Cache
         /\ Applied(c, r).ver[r.item] = Entry(r)
         /\ \A i \in Items : i # r.item =>
              \/ Applied(c, r).ver[i] = c.ver[i]
              \/ i = List /\ c.ver[List] = 0 /\ Applied(c, r).ver[List] = row[List].ver
         /\ r.item # List => Applied(c, r).ver[List] =
                               IF c.ver[List] = 0 THEN row[List].ver ELSE c.ver[List]
         /\ r.item # List /\ c.ver[List] # 0 => Applied(c, r).kids = Link(c, r)
<1> DEFINE d == WithList(c)
<1>1. r.item \in Items /\ Entry(r) \in Version
  BY ItemFacts DEF Change, Entry
<1>2. /\ d \in Cache
      /\ d.ver[List] = IF c.ver[List] = 0 THEN row[List].ver ELSE c.ver[List]
      /\ \A i \in Items : i # List => d.ver[i] = c.ver[i]
      /\ c.ver[List] # 0 => d = c
  BY ItemFacts DEF WithList, Cache, TypeOK, Row
<1>3. Link(d, r) \in SUBSET Elements \/ r.item = List
  BY <1>1, <1>2, ItemFacts DEF Link, Cache
<1>4. CASE r.item = List
  BY <1>1, <1>4, ItemFacts DEF Applied, ResetValue, Cache
<1>5. CASE r.item # List
  <2> DEFINE k == Link(d, r)
  <2>1. Applied(c, r) = ResetValue([d EXCEPT !.ver[r.item] = Entry(r), !.kids = k])
    BY <1>5 DEF Applied
  <2>2. d \in Cache /\ k \in SUBSET Elements
    BY <1>2, <1>3, <1>5
  <2> HIDE DEF d, k
  <2>3. /\ Applied(c, r) \in Cache
        /\ Applied(c, r).ver = [d.ver EXCEPT ![r.item] = Entry(r)]
        /\ Applied(c, r).kids = k
    <3> DEFINE verD == [d.ver EXCEPT ![r.item] = Entry(r)]
               w == [d EXCEPT !.ver = verD, !.kids = k]
    <3>1. verD \in [Items -> Version]
      BY <1>1, <2>2 DEF Cache
    <3>2. Applied(c, r) = ResetValue(w)
      BY <2>1, <2>2 DEF Cache
    <3> HIDE DEF verD
    <3>3. w \in Cache /\ w.ver = verD /\ w.kids = k
      BY <2>2, <3>1 DEF Cache
    <3> HIDE DEF w
    <3>4. Applied(c, r) \in Cache /\ Applied(c, r).ver = verD /\ Applied(c, r).kids = k
      BY <3>2, <3>3 DEF ResetValue, Cache
    <3> QED BY <3>4 DEF verD
  <2>4. d.ver \in [Items -> Version]
    BY <2>2 DEF Cache
  <2>5. c.ver[List] # 0 => k = Link(c, r)
    BY <1>2 DEF k
  <2> QED BY <1>1, <1>2, <1>5, <2>3, <2>4, <2>5, ItemFacts
<1> QED BY <1>4, <1>5

\* What a change may do to the cache, applied in full or in part.
Disturbs(c, d, r) ==
  /\ d \in Cache
  /\ \A i \in Items \ {r.item} : d.ver[i] = c.ver[i] \/ d.ver[i] = row[i].ver
  /\ \A e \in Elements \ {r.item} : d.ver[e] = c.ver[e] \/ Live(e)
  /\ d.ver[r.item] \in {c.ver[r.item], row[r.item].ver, Entry(r)}
  /\ c.ver[r.item] > 0 /\ r.ver <= c.ver[r.item] => d = c
  /\ r.ver = row[r.item].ver /\ ~r.deleted => d.ver[r.item] = row[r.item].ver

\* An element loses its place among the children only with the list's own entry.
LEMMA AppliedKeeps ==
  ASSUME TypeOK, row[List].ver > 0, NEW c \in Cache, NEW r \in Change, Changes(c, r), r.ver > 0,
         NEW e \in Elements, Applied(c, r).ver[e] # 0, e \notin Applied(c, r).kids,
         Applied(c, r).ver[List] = c.ver[List]
  PROVE  c.ver[e] # 0 /\ e \notin c.kids
<1> DEFINE a == Applied(c, r)
<1>1. /\ r.item \in Items /\ r.ver \in Nat /\ r.deleted \in BOOLEAN
      /\ c.ver[r.item] \in Nat
  BY ItemFacts DEF Change, Cache
<1>2. c.ver[r.item] = 0 \/ c.ver[r.item] < r.ver
  BY <1>1 DEF Changes, State
<1>3. /\ a \in Cache /\ a.ver[r.item] = Entry(r)
      /\ e # r.item => a.ver[e] = c.ver[e]
  BY AppliedFacts, ItemFacts
<1>4. r.item # List
  <2>1. r.item = List => Entry(r) = c.ver[List]
    BY <1>3
  <2>2. r.item = List => Entry(r) = 0 /\ r.deleted /\ c.ver[List] = 0
    BY <1>1, <1>2, <2>1 DEF Entry
  <2>3. r.item = List => State(c, r) = "Invalid"
    BY <2>2 DEF State
  <2> QED BY <2>3 DEF Changes
<1>5. c.ver[List] # 0
  <2>1. a.ver[List] = IF c.ver[List] = 0 THEN row[List].ver ELSE c.ver[List]
    BY <1>4, AppliedFacts
  <2> QED BY <2>1
<1>6. a.kids = Link(c, r)
  BY <1>4, <1>5, AppliedFacts
<1> HIDE DEF a
<1>7. a.ver[e] # 0 /\ e \notin a.kids
  BY DEF a
<1>8. CASE e = r.item
  <2>1. ~r.deleted
    BY <1>3, <1>7, <1>8 DEF Entry
  <2> QED BY <1>1, <1>6, <1>7, <1>8, <2>1 DEF Changes, Link, State
<1>9. CASE e # r.item
  BY <1>3, <1>6, <1>7, <1>9 DEF Link
<1> QED BY <1>8, <1>9

LEMMA PutDisturbs ==
  ASSUME TypeOK, NEW c \in Cache, NEW r \in Change, NEW d \in Put(c, r),
         c.ver[r.item] <= row[r.item].ver, row[List].ver > 0, r.ver > 0
  PROVE  /\ Disturbs(c, d, r)
         /\ \A e \in Elements :
              d.ver[e] # 0 /\ e \notin d.kids
                => (c.ver[e] # 0 /\ e \notin c.kids) \/ d.ver[List] # c.ver[List]
<1>1. /\ r.item \in Items /\ r.ver \in Nat /\ r.deleted \in BOOLEAN
      /\ c.ver[r.item] \in Nat /\ row[r.item].ver \in Nat
  BY ItemFacts DEF Change, Cache, TypeOK, Row
<1>2. CASE ~Changes(c, r)
  <2>1. d = c
    BY <1>2 DEF Put
  <2>2. r.ver = row[r.item].ver /\ ~r.deleted => c.ver[r.item] = row[r.item].ver
    BY <1>1, <1>2 DEF Changes, State
  <2> QED BY <2>1, <2>2 DEF Disturbs
<1>3. CASE Changes(c, r)
  <2> DEFINE a == Applied(c, r)
  <2>1. d \in Notified(a)
    BY <1>3 DEF Put
  <2>2. c.ver[r.item] = 0 \/ c.ver[r.item] < r.ver
    BY <1>1, <1>3 DEF Changes, State
  <2>3. a \in Cache /\ a.ver[r.item] = Entry(r)
    BY AppliedFacts
  <2>6. \A i \in Items \ {r.item} :
          a.ver[i] = c.ver[i] \/ (i = List /\ a.ver[i] = row[i].ver)
    BY AppliedFacts
  <2> HIDE DEF a
  <2>4. d \in Cache /\ d.ver[List] = a.ver[List]
    BY <2>1, <2>3, NotifiedFacts
  <2>5. \A e \in Elements : d.ver[e] = a.ver[e] \/ (Live(e) /\ d.ver[e] = row[e].ver)
    BY <2>1, <2>3, NotifiedFacts
  <2>7. Disturbs(c, d, r)
    <3>1. \A i \in Items \ {r.item} : d.ver[i] = c.ver[i] \/ d.ver[i] = row[i].ver
      BY <2>4, <2>5, <2>6, ItemFacts
    <3>2. \A e \in Elements \ {r.item} : d.ver[e] = c.ver[e] \/ Live(e)
      BY <2>5, <2>6, ItemFacts
    <3>3. d.ver[r.item] \in {Entry(r), row[r.item].ver}
      BY <1>1, <2>3, <2>4, <2>5, ItemFacts
    <3>4. ~r.deleted => Entry(r) = r.ver
      BY DEF Entry
    <3> QED BY <1>1, <2>2, <2>4, <3>1, <3>2, <3>3, <3>4 DEF Disturbs
  <2>8. ASSUME NEW e \in Elements, d.ver[e] # 0, e \notin d.kids, d.ver[List] = c.ver[List]
        PROVE  c.ver[e] # 0 /\ e \notin c.kids
    <3>1. a.ver[e] # 0 /\ e \notin a.kids
      BY <2>1, <2>3, <2>8, NotifiedFacts
    <3>2. a.ver[List] = c.ver[List]
      BY <2>4, <2>8
    <3> QED BY <1>3, <3>1, <3>2, AppliedKeeps DEF a
  <2> QED BY <2>7, <2>8
<1> QED BY <1>2, <1>3

LEMMA PutFailsDisturbs ==
  ASSUME TypeOK, NEW c \in Cache, NEW r \in Change, Changes(c, r)
  PROVE  Disturbs(c, PutFails(c, r), r)
<1> DEFINE d == PutFails(c, r)
<1>1. /\ r.item \in Items /\ r.ver \in Nat /\ c.ver[r.item] \in Nat
      /\ Entry(r) \in Version /\ c.ver \in [Items -> Version]
  BY ItemFacts DEF Change, Cache, Entry
<1>2. c.ver[r.item] = 0 \/ c.ver[r.item] < r.ver
  BY <1>1 DEF Changes, State
<1>3. d \in Cache /\ d.ver[r.item] = Entry(r)
  <2>1. CASE r.item # List /\ c.ver[List] = 0
    <3> DEFINE v == [c.ver EXCEPT ![r.item] = Entry(r)]
    <3>1. v \in [Items -> Version] /\ v[r.item] = Entry(r)
      BY <1>1
    <3>2. d = [c EXCEPT !.ver = v]
      BY <2>1 DEF PutFails, Cache
    <3> HIDE DEF v, d
    <3> QED BY <3>1, <3>2 DEF Cache
  <2>2. CASE ~(r.item # List /\ c.ver[List] = 0)
    BY <2>2, AppliedFacts DEF PutFails, Cache
  <2> QED BY <2>1, <2>2
<1>4. \A i \in Items \ {r.item} : d.ver[i] = c.ver[i] \/ (i = List /\ d.ver[i] = row[i].ver)
  <2>1. CASE r.item # List /\ c.ver[List] = 0
    BY <1>1, <2>1 DEF PutFails, Cache
  <2>2. CASE ~(r.item # List /\ c.ver[List] = 0)
    <3>1. d = Applied(c, r)
      BY <2>2 DEF PutFails
    <3> QED BY <3>1, AppliedFacts
  <2> QED BY <2>1, <2>2
<1>5. ~r.deleted => Entry(r) = r.ver
  BY DEF Entry
<1> HIDE DEF d
<1>6. Disturbs(c, d, r)
  BY <1>1, <1>2, <1>3, <1>4, <1>5, ItemFacts DEF Disturbs
<1> QED BY <1>6 DEF d

----------------------------------------------------------------------------
\* Each action preserves the invariant.

\* A change reaches the cache: current entries stay so, and that of the change becomes so.
LEMMA CacheStep ==
  ASSUME IInv, NEW r \in Change, r.ver <= row[r.item].ver, Disturbs(cache, cache', r),
         UNCHANGED <<row, latest, synced>>,
         \A i \in Pending \cup dropped :
           i \in Pending' \cup dropped' \/ (i = r.item /\ r \in batch)
  PROVE  /\ cache' \in Cache
         /\ \A i \in Items : cache'.ver[i] <= row[i].ver
         /\ LiveItemsAreCurrent'
<1> USE DEF IInv
<1>1. cache' \in Cache
  BY DEF Disturbs
<1>2. r.item \in Items /\ Entry(r) \in Nat /\ Entry(r) <= row[r.item].ver
  <2>1. r.item \in Items /\ r.ver \in Nat
    BY ItemFacts DEF Change
  <2>2. row[r.item].ver \in Nat
    BY <2>1, ItemFacts DEF TypeOK, Row
  <2> QED BY <2>1, <2>2 DEF Entry
<1>3. \A i \in Items : cache.ver[i] \in Nat /\ row[i].ver \in Nat /\ cache.ver[i] <= row[i].ver
  BY ItemFacts DEF TypeOK, Cache, Row, TableLeads
<1>4. \A i \in Items : cache'.ver[i] <= row[i].ver
  BY <1>2, <1>3 DEF Disturbs
<1>5. LiveItemsAreCurrent'
  <2> SUFFICES ASSUME NEW i \in Items, i \notin Pending' \cup dropped', Live(i),
                      row[i].ver <= synced
               PROVE  cache'.ver[i] = row[i].ver
    BY DEF LiveItemsAreCurrent, Live
  <2>1. CASE i \in Pending \cup dropped
    <3>1. i = r.item /\ r \in batch
      BY <2>1
    <3>2. r.ver = row[i].ver /\ ~r.deleted
      BY <3>1 DEF BatchIsGenuine, Live
    <3> QED BY <3>1, <3>2 DEF Disturbs
  <2>2. CASE i \notin Pending \cup dropped
    <3>1. cache.ver[i] = row[i].ver /\ row[i].ver > 0
      BY <2>2 DEF LiveItemsAreCurrent, Live
    <3>2. i = r.item => cache' = cache
      BY <1>3, <3>1 DEF Disturbs
    <3> QED BY <3>1, <3>2 DEF Disturbs
  <2> QED BY <2>1, <2>2
<1> QED BY <1>1, <1>4, <1>5

LEMMA AnswersType ==
  ASSUME TypeOK, NEW t \in Readers, NEW p \in reader[t].todo
  PROVE  p[1] \in Elements /\ p[2] \in Version /\ p = <<p[1], p[2]>>
<1>1. reader[t] \in Reader
  BY DEF TypeOK
<1>2. reader[t].todo \in SUBSET (Elements \X Version)
  BY <1>1 DEF Reader
<1>3. p \in Elements \X Version
  BY <1>2
<1> QED BY <1>3

LEMMA WriteStep ==
  ASSUME IInv, NEW i \in Items, NEW b \in BOOLEAN, b => i # List, Write(i, b)
  PROVE  IInv'
<1> USE DEF IInv
<1>1. /\ latest \in Nat /\ latest + 1 \in Version /\ synced \in Nat
      /\ \A j \in Items : row[j].ver \in Nat /\ cache.ver[j] \in Nat
  BY ConfigAssumption DEF Write, TypeOK, Version, Row, Cache
<1>2. /\ row' \in [Items -> Row]
      /\ row'[i].ver = latest + 1 /\ row'[i].deleted = b
      /\ \A j \in Items : j # i => row'[j] = row[j]
      /\ \A j \in Items : row[j].ver <= row'[j].ver /\ row'[j].ver <= latest'
      /\ row[i].ver < row'[i].ver /\ synced < row'[i].ver
      /\ UNCHANGED <<synced, batch, cache, registered, reader, dropped>>
      /\ latest' = latest + 1
  BY <1>1 DEF Write, TypeOK, Row, TableLeads
<1>3. TypeOK'
  BY <1>1, <1>2 DEF TypeOK
<1>4. TableLeads'
  <2>1. \A j \in Items : row'[j].ver \in Nat
    BY <1>2, ItemFacts DEF Row
  <2>2. \A t \in Readers : reader[t].own \in Nat
    BY ItemFacts DEF TypeOK, Reader
  <2> QED BY <1>1, <1>2, <2>1, <2>2, ItemFacts DEF TableLeads
<1>5. BatchIsGenuine'
  <2> SUFFICES ASSUME NEW r \in batch
               PROVE  /\ r.ver > 0 /\ r.ver <= row'[r.item].ver
                      /\ row'[r.item].ver <= synced => r.ver = row'[r.item].ver
                      /\ r.ver = row'[r.item].ver => r.deleted = row'[r.item].deleted
    BY <1>2 DEF BatchIsGenuine
  <2>1. r.item \in Items /\ r.ver \in Nat /\ row'[r.item].ver \in Nat
    BY <1>2, ItemFacts DEF TypeOK, Change, Row
  <2>2. /\ r.ver > 0 /\ r.ver <= row[r.item].ver
        /\ row[r.item].ver <= synced => r.ver = row[r.item].ver
        /\ r.ver = row[r.item].ver => r.deleted = row[r.item].deleted
    BY DEF BatchIsGenuine
  <2> QED BY <1>1, <1>2, <2>1, <2>2
<1>6. AnswersAreLate'
  <2> SUFFICES ASSUME NEW t \in Readers, NEW p \in reader[t].todo
               PROVE  /\ p[2] > 0 /\ p[2] <= row'[p[1]].ver
                      /\ row'[p[1]].deleted => p[2] < row'[p[1]].ver
    BY <1>2 DEF AnswersAreLate
  <2>1. p[1] \in Items /\ p[2] \in Nat
    BY AnswersType, ItemFacts
  <2>2. /\ p[2] > 0 /\ p[2] <= row[p[1]].ver
        /\ row[p[1]].deleted => p[2] < row[p[1]].ver
    BY DEF AnswersAreLate
  <2>3. row'[p[1]].ver \in Nat
    BY <1>2, <2>1, ItemFacts DEF Row
  <2> QED BY <1>1, <1>2, <2>1, <2>2, <2>3
<1>7. LiveItemsAreCurrent'
  <2>1. ~(row'[i].ver <= synced')
    BY <1>1, <1>2
  <2> QED BY <1>2, <2>1 DEF LiveItemsAreCurrent, Live, Pending
<1> QED BY <1>3, <1>4, <1>5, <1>6, <1>7

LEMMA SyncReadsStep ==
  ASSUME IInv, SyncReads
  PROVE  IInv'
<1> USE DEF IInv
<1>1. /\ UNCHANGED <<row, latest, cache, registered, reader, dropped>>
      /\ synced' = latest /\ batch = {} /\ latest \in Version
      /\ batch' = {[item |-> i, ver |-> row[i].ver, deleted |-> row[i].deleted] : i \in Changed}
      /\ Changed = {i \in Items : row[i].ver > synced}
  BY DEF SyncReads, Changed, TypeOK
<1>2. \A i \in Items : row[i].ver \in Nat /\ synced \in Nat
  BY ItemFacts DEF TypeOK, Row
<1>3. \A r \in batch' : /\ r \in Change /\ r.ver = row[r.item].ver
                        /\ r.deleted = row[r.item].deleted /\ r.ver > 0
  <2>1. \A i \in Changed :
          LET r == [item |-> i, ver |-> row[i].ver, deleted |-> row[i].deleted]
          IN  /\ r \in Change /\ r.ver = row[r.item].ver
              /\ r.deleted = row[r.item].deleted /\ r.ver > 0
    BY <1>1, <1>2 DEF Change, TypeOK, Row
  <2> QED BY <1>1, <2>1
<1>4. Changed \subseteq Pending'
  <2> SUFFICES ASSUME NEW i \in Changed PROVE i \in Pending'
    OBVIOUS
  <2> DEFINE r == [item |-> i, ver |-> row[i].ver, deleted |-> row[i].deleted]
  <2>1. r \in batch' /\ r.item = i
    BY <1>1
  <2> QED BY <2>1 DEF Pending
<1>5. TypeOK'
  BY <1>1, <1>3 DEF TypeOK
<1>6. TableLeads' /\ AnswersAreLate'
  BY <1>1, ItemFacts DEF TableLeads, AnswersAreLate
<1>7. BatchIsGenuine'
  BY <1>1, <1>2, <1>3 DEF BatchIsGenuine, Change
<1>8. LiveItemsAreCurrent'
  <2> SUFFICES ASSUME NEW i \in Items, i \notin Changed, i \notin dropped, Live(i)
               PROVE  cache.ver[i] = row[i].ver
    BY <1>1, <1>4 DEF LiveItemsAreCurrent, Live
  <2>1. row[i].ver <= synced /\ i \notin Pending
    BY <1>1, <1>2 DEF Pending
  <2> QED BY <2>1 DEF LiveItemsAreCurrent
<1> QED BY <1>5, <1>6, <1>7, <1>8

LEMMA SyncAppliesStep ==
  ASSUME IInv, SyncApplies
  PROVE  IInv'
<1> USE DEF IInv
<1>1. PICK r \in batch : /\ cache' \in Put(cache, r)
                         /\ batch' = batch \ {r}
                         /\ dropped' = dropped \ {r.item}
                         /\ UNCHANGED <<row, latest, synced, registered, reader>>
  BY DEF SyncApplies
<1>2. r \in Change /\ r.item \in Items /\ r.ver > 0 /\ r.ver <= row[r.item].ver
  BY DEF TypeOK, Change, BatchIsGenuine
<1>3. cache \in Cache /\ cache.ver[r.item] <= row[r.item].ver /\ row[List].ver > 0
  BY <1>2 DEF TypeOK, TableLeads
<1>4. Disturbs(cache, cache', r)
  BY <1>1, <1>2, <1>3, PutDisturbs
<1>5. \A i \in Pending \cup dropped :
        i \in Pending' \cup dropped' \/ (i = r.item /\ r \in batch)
  BY <1>1 DEF Pending
<1>6. cache' \in Cache /\ (\A i \in Items : cache'.ver[i] <= row[i].ver) /\ LiveItemsAreCurrent'
  BY <1>1, <1>2, <1>4, <1>5, CacheStep
<1>7. TypeOK'
  BY <1>1, <1>6 DEF TypeOK
<1>8. TableLeads' /\ BatchIsGenuine' /\ AnswersAreLate'
  BY <1>1, <1>6 DEF TableLeads, BatchIsGenuine, AnswersAreLate
<1> QED BY <1>6, <1>7, <1>8

LEMMA SyncFailsStep ==
  ASSUME IInv, SyncFails
  PROVE  IInv'
<1> USE DEF IInv
<1>1. PICK r \in batch :
        /\ Changes(cache, r)
        /\ cache' = PutFails(cache, r)
        /\ batch' = {}
        /\ dropped' = (dropped \cup {s.item : s \in batch}) \ {r.item}
        /\ UNCHANGED <<row, latest, synced, registered, reader>>
  BY DEF SyncFails
<1>2. r \in Change /\ r.ver <= row[r.item].ver /\ cache \in Cache
  BY DEF TypeOK, BatchIsGenuine
<1>3. Disturbs(cache, cache', r)
  BY <1>1, <1>2, PutFailsDisturbs
<1>4. \A i \in Pending \cup dropped :
        i \in Pending' \cup dropped' \/ (i = r.item /\ r \in batch)
  BY <1>1 DEF Pending
<1>5. cache' \in Cache /\ (\A i \in Items : cache'.ver[i] <= row[i].ver) /\ LiveItemsAreCurrent'
  BY <1>1, <1>2, <1>3, <1>4, CacheStep
<1>6. \A s \in batch : s.item \in Items
  BY DEF TypeOK, Change
<1>7. TypeOK'
  BY <1>1, <1>5, <1>6 DEF TypeOK
<1>8. TableLeads' /\ BatchIsGenuine' /\ AnswersAreLate'
  BY <1>1, <1>5 DEF TableLeads, BatchIsGenuine, AnswersAreLate
<1> QED BY <1>5, <1>7, <1>8

\* What a thread may put into the cache next is not newer than the table.
LEMMA PutNextFacts ==
  ASSUME IInv, NEW t \in Readers, NEW r \in PutNext(t)
  PROVE  /\ r \in Change /\ r.ver > 0 /\ ~r.deleted /\ r.ver <= row[r.item].ver
         /\ reader[t].pc = "put" => r.item = List
         /\ reader[t].pc = "fill" => <<r.item, r.ver>> \in reader[t].todo
         /\ reader[t].pc \in {"put", "fill"}
<1> USE DEF IInv
<1>1. reader[t] \in Reader
  BY DEF TypeOK
<1>2. CASE reader[t].pc = "put"
  <2>1. r = [item |-> List, ver |-> reader[t].own, deleted |-> FALSE]
    BY <1>2 DEF PutNext
  <2> QED BY <1>1, <1>2, <2>1, ItemFacts DEF Reader, Change, TableLeads
<1>3. CASE reader[t].pc = "fill"
  <2>1. PICK p \in reader[t].todo : r = [item |-> p[1], ver |-> p[2], deleted |-> FALSE]
    BY <1>3 DEF PutNext
  <2>2. p[1] \in Items /\ p[2] \in Version /\ p = <<p[1], p[2]>>
    BY AnswersType, ItemFacts
  <2>3. p[2] > 0 /\ p[2] <= row[p[1]].ver
    BY DEF AnswersAreLate
  <2> QED BY <1>3, <2>1, <2>2, <2>3 DEF Change
<1>4. CASE reader[t].pc \notin {"put", "fill"}
  BY <1>4 DEF PutNext
<1> QED BY <1>2, <1>3, <1>4

\* A change that reaches the cache, in full or in part.
Reaches(r) == cache' \in Put(cache, r) \/ (Changes(cache, r) /\ cache' = PutFails(cache, r))

\* A reader puts into the cache what it has got, which cannot do harm.
LEMMA ReaderPuts ==
  ASSUME IInv, ReaderKeepsServer, NEW r \in Change, r.ver > 0, r.ver <= row[r.item].ver,
         Reaches(r)
  PROVE  /\ cache' \in Cache
         /\ \A j \in Items : cache'.ver[j] <= row[j].ver
         /\ LiveItemsAreCurrent'
         /\ Disturbs(cache, cache', r)
<1>1. r.item \in Items
  BY DEF Change
<1>2. cache \in Cache /\ cache.ver[r.item] <= row[r.item].ver /\ row[List].ver > 0 /\ TypeOK
  BY <1>1 DEF IInv, TypeOK, TableLeads
<1>3. UNCHANGED <<row, latest, synced, batch, dropped>>
  BY DEF ReaderKeepsServer
<1>4. \A j \in Pending \cup dropped : j \in Pending' \cup dropped'
  BY <1>3 DEF Pending
<1>5. Disturbs(cache, cache', r)
  BY <1>2, PutDisturbs, PutFailsDisturbs DEF Reaches
<1> QED BY <1>3, <1>4, <1>5, CacheStep

\* A step of a reader that does so, and then goes on or gives up.
LEMMA PuttingStep ==
  ASSUME IInv, NEW t \in Readers, ReaderKeepsServer, NEW r \in PutNext(t), Reaches(r),
         registered' = registered, NEW n \in Reader, reader' = [reader EXCEPT ![t] = n],
         n.own \in {reader[t].own, 0, cache'.ver[List]}, n.todo \subseteq reader[t].todo,
         n.pc # "put"
  PROVE  IInv'
<1> USE DEF IInv
<1>1. UNCHANGED <<row, latest, synced, batch, dropped>>
  BY DEF ReaderKeepsServer
<1>2. /\ cache' \in Cache
      /\ \A j \in Items : cache'.ver[j] <= row[j].ver
      /\ LiveItemsAreCurrent'
  BY PutNextFacts, ReaderPuts
<1>3. TypeOK'
  BY <1>1, <1>2 DEF TypeOK
<1>4. n.own <= row[List].ver
  <2>1. row[List].ver \in Nat /\ row[List].ver > 0
    BY ItemFacts DEF TypeOK, Row, TableLeads
  <2> QED BY <1>2, <2>1, ItemFacts DEF TableLeads
<1>5. TableLeads'
  BY <1>1, <1>2, <1>4 DEF TableLeads, TypeOK
<1>6. BatchIsGenuine' /\ AnswersAreLate'
  BY <1>1 DEF BatchIsGenuine, AnswersAreLate, TypeOK
<1> QED BY <1>2, <1>3, <1>5, <1>6

\* A step of a reader that leaves the entries of the cache alone.
LEMMA QuietStep ==
  ASSUME IInv, ReaderKeepsServer, cache' \in Cache, cache'.ver = cache.ver,
         registered' \in BOOLEAN, reader' \in [Readers -> Reader],
         \A t \in Readers : /\ reader'[t].own <= row[List].ver
                            /\ reader'[t].pc = "put" => reader'[t].own > 0
                            /\ reader'[t].todo \subseteq reader[t].todo \cup Fetched
  PROVE  IInv'
<1> USE DEF IInv
<1>1. UNCHANGED <<row, latest, synced, batch, dropped>>
  BY DEF ReaderKeepsServer
<1>2. TypeOK'
  BY <1>1 DEF TypeOK
<1>3. TableLeads' /\ BatchIsGenuine'
  BY <1>1 DEF TableLeads, BatchIsGenuine
<1>4. LiveItemsAreCurrent'
  BY <1>1 DEF LiveItemsAreCurrent, Live, Pending
<1>5. AnswersAreLate'
  <2> SUFFICES ASSUME NEW t \in Readers, NEW p \in reader'[t].todo
               PROVE  /\ p[2] > 0 /\ p[2] <= row[p[1]].ver
                      /\ row[p[1]].deleted => p[2] < row[p[1]].ver
    BY <1>1 DEF AnswersAreLate
  <2>1. CASE p \in reader[t].todo
    BY <2>1 DEF AnswersAreLate
  <2>2. CASE p \in Fetched
    <3>1. PICK e \in Elements : Live(e) /\ p = <<e, row[e].ver>>
      BY <2>2 DEF Fetched
    <3>2. row[e].ver \in Nat
      BY ItemFacts DEF TypeOK, Row
    <3> QED BY <3>1, <3>2 DEF Live
  <2> QED BY <2>1, <2>2
<1> QED BY <1>2, <1>3, <1>4, <1>5

LEMMA ComputedType ==
  ASSUME TypeOK, NEW t \in Readers
  PROVE  Computed(t) \in Value
BY DEF TypeOK, Reader, Computed, Value

LEMMA GotoType ==
  ASSUME TypeOK, NEW t \in Readers,
         NEW l \in {"idle", "fetch", "put", "children", "ask", "fill", "store", "register"}
  PROVE  /\ Goto(t, l) \in Reader
         /\ Goto(t, l).own = reader[t].own /\ Goto(t, l).todo = reader[t].todo
         /\ Goto(t, l).pc = l
BY DEF TypeOK, Reader, Goto

LEMMA ReaderStep ==
  ASSUME IInv, NEW t \in Readers, GetConfigItemValue(t)
  PROVE  IInv'
<1> USE DEF IInv
<1>0. /\ ReaderKeepsServer
      /\ reader[t] \in Reader /\ cache \in Cache
      /\ reader[t].own <= row[List].ver /\ reader[t].own \in Nat
      /\ row[List].ver \in Nat /\ row[List].ver \in Version /\ row[List].ver > 0
      /\ \A u \in Readers : /\ reader[u].own <= row[List].ver
                            /\ reader[u].pc = "put" => reader[u].own > 0
      /\ cache.ver[List] <= row[List].ver
  <2>1. ReaderKeepsServer
    BY DEF GetConfigItemValue, ReturnsEarly, Lookup, FetchList, PutList, Children,
           FetchChildren, Fill, StoreValue, Register, ReaderFails, ReaderThrows
  <2>2. reader[t] \in Reader /\ cache \in Cache /\ reader[t].own \in Nat
    BY ItemFacts DEF TypeOK, Reader
  <2>3. row[List].ver \in Nat /\ row[List].ver \in Version
    BY ItemFacts DEF TypeOK, Row
  <2> QED BY <2>1, <2>2, <2>3, ItemFacts DEF TableLeads
<1>1. CASE ReturnsEarly(t)
  <2>1. cache' \in Cache /\ cache'.ver = cache.ver
    BY <1>0, <1>1 DEF ReturnsEarly, Cache
  <2> QED BY <1>0, <1>1, <2>1, QuietStep DEF ReturnsEarly, TypeOK
<1>2. CASE Lookup(t)
  <2> DEFINE n == IF cache.ver[List] = 0 THEN Goto(t, "fetch")
                  ELSE [Goto(t, "children") EXCEPT !.own = cache.ver[List]]
  <2>1. cache.ver[List] \in Version
    BY <1>0, ItemFacts DEF Cache
  <2>2. /\ n \in Reader /\ n.own <= row[List].ver /\ n.todo = reader[t].todo /\ n.pc # "put"
    BY <1>0, <2>1, GotoType DEF Reader
  <2>3. reader' = [reader EXCEPT ![t] = n] /\ UNCHANGED <<cache, registered>>
    BY <1>2 DEF Lookup
  <2> HIDE DEF n
  <2> QED BY <1>0, <2>2, <2>3, QuietStep DEF TypeOK
<1>3. CASE FetchList(t)
  <2> DEFINE n == [Goto(t, "put") EXCEPT !.own = row[List].ver]
  <2>1. n \in Reader /\ n.own = row[List].ver /\ n.todo = reader[t].todo
    BY <1>0, GotoType DEF Reader
  <2>2. reader' = [reader EXCEPT ![t] = n] /\ UNCHANGED <<cache, registered>>
    BY <1>3 DEF FetchList
  <2> HIDE DEF n
  <2> QED BY <1>0, <2>1, <2>2, QuietStep DEF TypeOK
<1>4. CASE PutList(t)
  <2> DEFINE n == [Goto(t, "children") EXCEPT !.own = cache'.ver[List]]
  <2>1. PICK r \in PutNext(t) : cache' \in Put(cache, r)
    BY <1>4 DEF PutList
  <2>2. reader' = [reader EXCEPT ![t] = n] /\ UNCHANGED registered
    BY <1>4 DEF PutList
  <2>3. cache' \in Cache
    BY <1>0, <2>1, PutNextFacts, ReaderPuts DEF Reaches
  <2>4. /\ n \in Reader /\ n.own = cache'.ver[List] /\ n.todo = reader[t].todo
        /\ n.pc = "children"
    BY <1>0, <2>3, GotoType, ItemFacts DEF Reader, Cache
  <2> HIDE DEF n
  <2> QED BY <1>0, <2>1, <2>2, <2>4, PuttingStep DEF Reaches
<1>5. CASE Children(t)
  <2> DEFINE n == IF cache.kids # {} THEN [Goto(t, "store") EXCEPT !.elems = Listed(cache)]
                  ELSE Goto(t, "ask")
  <2>1. n \in Reader /\ n.own = reader[t].own /\ n.pc # "put" /\ n.todo = reader[t].todo
    BY <1>0, GotoType, ListedType DEF Reader
  <2>2. reader' = [reader EXCEPT ![t] = n] /\ UNCHANGED <<cache, registered>>
    BY <1>5 DEF Children
  <2> HIDE DEF n
  <2> QED BY <1>0, <2>1, <2>2, QuietStep DEF TypeOK
<1>10. CASE FetchChildren(t)
  <2> DEFINE n == [Goto(t, "fill") EXCEPT !.elems = Fetched, !.todo = Fetched]
  <2>1. n \in Reader /\ n.own = reader[t].own /\ n.pc # "put" /\ n.todo = Fetched
    BY <1>0, GotoType, FetchedType DEF Reader
  <2>2. reader' = [reader EXCEPT ![t] = n] /\ UNCHANGED <<cache, registered>>
    BY <1>10 DEF FetchChildren
  <2> HIDE DEF n
  <2> QED BY <1>0, <2>1, <2>2, QuietStep DEF TypeOK
<1>6. CASE Fill(t)
  <2>1. CASE reader[t].todo = {}
    <3> DEFINE n == Goto(t, "store")
    <3>1. n \in Reader /\ n.own = reader[t].own /\ n.todo = reader[t].todo /\ n.pc # "put"
      BY <1>0, GotoType
    <3>2. reader' = [reader EXCEPT ![t] = n] /\ UNCHANGED <<cache, registered>>
      BY <1>6, <2>1 DEF Fill
    <3> HIDE DEF n
    <3> QED BY <1>0, <3>1, <3>2, QuietStep DEF TypeOK
  <2>2. CASE reader[t].todo # {}
    <3>1. PICK r \in PutNext(t) :
            /\ cache' \in Put(cache, r)
            /\ reader' = [reader EXCEPT ![t].todo = reader[t].todo \ {<<r.item, r.ver>>}]
      BY <1>6, <2>2 DEF Fill
    <3>2. registered' = registered /\ reader[t].pc = "fill"
      BY <1>6 DEF Fill
    <3> DEFINE n == [reader[t] EXCEPT !.todo = reader[t].todo \ {<<r.item, r.ver>>}]
    <3>3. /\ n \in Reader /\ n.own = reader[t].own /\ n.pc = reader[t].pc
          /\ n.todo \subseteq reader[t].todo
      BY <1>0 DEF Reader
    <3>4. reader' = [reader EXCEPT ![t] = n]
      BY <3>1
    <3> HIDE DEF n
    <3> QED BY <1>0, <3>1, <3>2, <3>3, <3>4, PuttingStep DEF Reaches
  <2> QED BY <2>1, <2>2
<1>7. CASE StoreValue(t)
  <2> DEFINE n == Goto(t, "register")
             m == ~Matches(cache, Computed(t))
  <2>1. n \in Reader /\ n.own = reader[t].own /\ n.todo = reader[t].todo /\ n.pc # "put"
    BY <1>0, GotoType
  <2>2. /\ reader' = [reader EXCEPT ![t] = n] /\ UNCHANGED registered
        /\ cache' = [cache EXCEPT !.value = Computed(t), !.overtaken = m]
    BY <1>7 DEF StoreValue
  <2>3. m \in BOOLEAN /\ Computed(t) \in Value
    BY ComputedType
  <2> HIDE DEF n, m
  <2>4. cache' \in Cache /\ cache'.ver = cache.ver
    BY <1>0, <2>2, <2>3 DEF Cache
  <2> QED BY <1>0, <2>1, <2>2, <2>4, QuietStep DEF TypeOK
<1>8. CASE Register(t)
  <2>1. /\ reader' = [reader EXCEPT ![t] = Resting] /\ registered' \in BOOLEAN
        /\ cache' = cache \/ cache' = [cache EXCEPT !.held = Computed(t)]
    BY <1>8 DEF Register, TypeOK
  <2>2. Resting \in Reader /\ Resting.own = 0 /\ Resting.todo = {} /\ Resting.pc # "put"
    BY ItemFacts DEF Resting, Reader
  <2>3. Computed(t) \in Value
    BY ComputedType
  <2>4. cache' \in Cache /\ cache'.ver = cache.ver
    BY <1>0, <2>1, <2>3 DEF Cache
  <2> QED BY <1>0, <2>1, <2>2, <2>4, QuietStep DEF TypeOK
<1>9. CASE ReaderFails(t)
  <2>1. reader' = [reader EXCEPT ![t] = Resting] /\ UNCHANGED <<cache, registered>>
    BY <1>9 DEF ReaderFails
  <2>2. Resting \in Reader /\ Resting.own = 0 /\ Resting.todo = {} /\ Resting.pc # "put"
    BY ItemFacts DEF Resting, Reader
  <2> QED BY <1>0, <2>1, <2>2, QuietStep DEF TypeOK
<1>11. CASE ReaderThrows(t)
  <2>1. PICK r \in PutNext(t) : Changes(cache, r) /\ cache' = PutFails(cache, r)
    BY <1>11 DEF ReaderThrows
  <2>2. reader' = [reader EXCEPT ![t] = Resting] /\ registered' = registered
    BY <1>11 DEF ReaderThrows
  <2>3. Resting \in Reader /\ Resting.own = 0 /\ Resting.todo = {} /\ Resting.pc # "put"
    BY ItemFacts DEF Resting, Reader
  <2> QED BY <1>0, <2>1, <2>2, <2>3, PuttingStep DEF Reaches
<1> QED BY <1>1, <1>2, <1>3, <1>4, <1>5, <1>6, <1>7, <1>8, <1>9, <1>10, <1>11
        DEF GetConfigItemValue

LEMMA StepHolds ==
  ASSUME IInv, [Next]_vars
  PROVE  IInv'
<1>1. ASSUME NEW i \in Items, Save(i)
      PROVE  IInv'
  BY <1>1, WriteStep DEF Save
<1>2. ASSUME NEW e \in Elements, AddConfigItem(e) \/ RemoveConfigItem(e)
      PROVE  IInv'
  BY <1>2, WriteStep, ItemFacts DEF AddConfigItem, RemoveConfigItem
<1>3. CASE Sync
  BY <1>3, SyncReadsStep, SyncAppliesStep, SyncFailsStep DEF Sync
<1>4. ASSUME NEW t \in Readers, GetConfigItemValue(t)
      PROVE  IInv'
  BY <1>4, ReaderStep
<1>5. CASE UNCHANGED vars
  BY <1>5 DEF IInv, TypeOK, TableLeads, BatchIsGenuine, AnswersAreLate, LiveItemsAreCurrent,
              Live, Pending, vars
<1> QED BY <1>1, <1>2, <1>3, <1>4, <1>5 DEF Next

\* Whatever readers and rounds hold of the table, and what the cache has, fits the table's rows
\* in every reachable state.
THEOREM InvariantHolds == Spec => []IInv
<1>1. Init => IInv
  BY InitHolds
<1>2. IInv /\ [Next]_vars => IInv'
  BY StepHolds
<1> QED BY <1>1, <1>2, PTL DEF Spec

----------------------------------------------------------------------------
\* What it gives.

\* Every variable of the cache keeps to its range.
THEOREM TypeCorrect == Spec => []TypeOK
<1>1. IInv => TypeOK
  BY DEF IInv
<1> QED BY <1>1, InvariantHolds, PTL

\* No answer that a reader puts into the cache late makes it go back behind the
\* synchronisation, as long as the item is not deleted.
THEOREM CacheFollowsTheTable == Spec => []LiveItemsAreCurrent
<1>1. IInv => LiveItemsAreCurrent
  BY DEF IInv
<1> QED BY <1>1, InvariantHolds, PTL

\* The list's entries change only by a row of the round or by what a reader has got.
LEMMA EntriesChange ==
  ASSUME IInv, [Next]_vars
  PROVE  \/ cache'.ver = cache.ver /\ cache'.kids = cache.kids
         \/ \E r \in batch : Reaches(r) /\ (SyncFails \/ cache' \in Put(cache, r))
         \/ \E t \in Readers : \E r \in PutNext(t) :
              /\ Reaches(r) /\ ReaderKeepsServer /\ registered' = registered
              /\ cache' \in Put(cache, r) \/ (registered /\ ReaderThrows(t))
<1>1. cache \in Cache
  BY DEF IInv, TypeOK
<1>2. ASSUME NEW t \in Readers, ReturnsEarly(t) \/ StoreValue(t) \/ Register(t)
      PROVE  cache'.ver = cache.ver /\ cache'.kids = cache.kids
  BY <1>1, <1>2 DEF ReturnsEarly, StoreValue, Register, Cache
<1>3. ASSUME SyncApplies \/ SyncFails
      PROVE  \E r \in batch : Reaches(r) /\ (SyncFails \/ cache' \in Put(cache, r))
  BY <1>3 DEF SyncApplies, SyncFails, Reaches
<1>4. ASSUME NEW t \in Readers, PutList(t) \/ Fill(t) \/ ReaderThrows(t)
      PROVE  \/ UNCHANGED cache
             \/ \E r \in PutNext(t) :
                  /\ Reaches(r) /\ ReaderKeepsServer /\ registered' = registered
                  /\ cache' \in Put(cache, r) \/ (registered /\ ReaderThrows(t))
  <2>1. CASE PutList(t)
    BY <2>1 DEF PutList, Reaches
  <2>2. CASE Fill(t)
    BY <2>2 DEF Fill, Reaches
  <2>3. CASE ReaderThrows(t)
    <3>1. PICK r \in PutNext(t) : Reaches(r)
      BY <2>3 DEF ReaderThrows, Reaches
    <3>2. registered /\ registered' = registered /\ ReaderKeepsServer
      BY <2>3 DEF ReaderThrows
    <3> QED BY <2>3, <3>1, <3>2
  <2> QED BY <1>4, <2>1, <2>2, <2>3
<1> QED BY <1>2, <1>3, <1>4 DEF Next, vars, Save, AddConfigItem, RemoveConfigItem, Write, Sync,
           SyncReads, GetConfigItemValue, Lookup, FetchList, Children, FetchChildren, ReaderFails

\* What a row of the batch and what a reader has got may do to the entries.
LEMMA BatchReaches ==
  ASSUME IInv, NEW r \in batch, Reaches(r)
  PROVE  r \in Change /\ r.ver > 0 /\ Disturbs(cache, cache', r)
<1>1. r \in Change /\ r.ver > 0 /\ cache.ver[r.item] <= row[r.item].ver
  BY DEF IInv, TypeOK, Change, BatchIsGenuine, TableLeads
<1>2. cache \in Cache /\ row[List].ver > 0 /\ TypeOK
  BY DEF IInv, TypeOK, TableLeads
<1> QED BY <1>1, <1>2, PutDisturbs, PutFailsDisturbs DEF Reaches

\* The synchronisation does not bring a deleted element back, and neither does a callback.
THEOREM RevivedByLateAnswers == Spec => OnlyLateAnswersRevive
<1> DEFINE Safe ==
      \A e \in Elements :
        /\ row[e].deleted /\ row[e].ver <= synced /\ e \notin Pending
        /\ cache.ver[e] = 0 /\ cache'.ver[e] # 0
        => \E t \in Readers : \E p \in reader[t].todo : p[1] = e /\ p[2] < row[e].ver
<1>1. ASSUME IInv, [Next]_vars
      PROVE  Safe
  <2> SUFFICES ASSUME NEW e \in Elements, row[e].deleted, e \notin Pending,
                      cache.ver[e] = 0, cache'.ver[e] # 0
               PROVE  \E t \in Readers : \E p \in reader[t].todo :
                        p[1] = e /\ p[2] < row[e].ver
    OBVIOUS
  <2>1. e \in Items /\ e # List /\ ~Live(e)
    BY ItemFacts DEF Live
  <2>2. ASSUME NEW r \in batch, Reaches(r)
        PROVE  FALSE
    <3>1. r.item # e
      BY DEF Pending
    <3> QED BY <1>1, <2>1, <2>2, <3>1, BatchReaches DEF Disturbs
  <2>3. PICK t \in Readers : \E r \in PutNext(t) : Reaches(r) /\ ReaderKeepsServer
    BY <1>1, <2>2, EntriesChange
  <2>7. PICK r \in PutNext(t) : Reaches(r)
    BY <2>3
  <2>4. Disturbs(cache, cache', r)
    BY <1>1, <2>3, <2>7, PutNextFacts, ReaderPuts
  <2>5. r.item = e
    BY <2>1, <2>4 DEF Disturbs
  <2>6. <<r.item, r.ver>> \in reader[t].todo
    BY <1>1, <2>1, <2>5, PutNextFacts
  <2> QED BY <1>1, <2>5, <2>6 DEF IInv, AnswersAreLate
<1>2. IInv /\ [Next]_vars => [Safe]_vars
  BY <1>1
<1> QED BY <1>2, InvariantHolds, PTL DEF Spec, OnlyLateAnswersRevive

----------------------------------------------------------------------------
\* The value of the list, and what the subscriber holds.

\* Nobody is past the list's entry while the cache has none; the list is not deleted, so
\* its entry stays once it is there.
ListStays ==
  /\ ~row[List].deleted /\ \A r \in batch : r.item = List => ~r.deleted
  /\ cache.ver[List] = 0 =>
       /\ cache.value = None /\ ~registered
       /\ \A t \in Readers : reader[t].pc \in {"idle", "fetch", "put"}

Current == ListStays /\ ValueIsCurrent

\* The callback that is answered leaves a value that agrees with the entries, and the
\* subscriber has it.
LEMMA RefreshedAgrees ==
  ASSUME TypeOK, NEW c \in Cache
  PROVE  /\ Refreshed(c).held # None
         /\ Matches(Refreshed(c), Refreshed(c).value)
         /\ Matches(Refreshed(c), Refreshed(c).held)
<1> DEFINE verF == [i \in Items |-> IF i # List /\ Live(i) THEN row[i].ver ELSE c.ver[i]]
           kidsF == {e \in Elements : Live(e) /\ c.ver[e] = 0}
           filled == IF c.kids # {} THEN c ELSE [c EXCEPT !.ver = verF, !.kids = kidsF]
           v == [own |-> c.ver[List], elems |-> IF c.kids # {} THEN Listed(c) ELSE Fetched]
           n == [filled EXCEPT !.value = v, !.held = v, !.overtaken = FALSE]
<1>1. Refreshed(c) = n
  BY DEF Refreshed
<1>2. v \in Value
  BY ListedType, FetchedType, ItemFacts DEF Value, Cache
<1>3. verF \in [Items -> Version] /\ kidsF \in SUBSET Elements
  BY DEF TypeOK, Row, Cache
<1>4. /\ n.ver = IF c.kids # {} THEN c.ver ELSE verF
      /\ n.kids = IF c.kids # {} THEN c.kids ELSE kidsF
      /\ n.value = v /\ n.held = v
  <2> HIDE DEF verF, kidsF, v
  <2> QED BY <1>2, <1>3 DEF Cache
<1>5. v # None
  BY <1>2, NoneAssumption
<1> HIDE DEF n
<1>6. Matches(n, v)
  <2>1. v.own = n.ver[List]
    BY <1>4, ItemFacts
  <2>2. CASE c.kids # {}
    <3>1. \A p \in v.elems : n.ver[p[1]] = p[2]
      BY <1>4, <2>2 DEF Listed
    <3>2. Listed(n) \subseteq v.elems
      BY <1>4, <2>2 DEF Listed
    <3> QED BY <2>1, <3>1, <3>2 DEF Matches
  <2>3. CASE c.kids = {}
    <3>1. \A e \in Elements : Live(e) => verF[e] = row[e].ver
      BY ItemFacts
    <3>2. n.ver = verF /\ n.kids = kidsF /\ v.elems = Fetched
      BY <1>4, <2>3
    <3>3. \A p \in Fetched : verF[p[1]] = p[2]
      <4> HIDE DEF verF
      <4> QED BY <3>1 DEF Fetched
    <3>4. \A e \in kidsF : Live(e) /\ verF[e] = row[e].ver /\ e \in Elements
      BY <3>1
    <3>5. Listed(n) \subseteq Fetched
      <4> HIDE DEF verF, kidsF
      <4> QED BY <3>2, <3>4 DEF Listed, Fetched
    <3> QED BY <2>1, <3>2, <3>3, <3>5 DEF Matches
  <2> QED BY <2>2, <2>3
<1> QED BY <1>1, <1>4, <1>5, <1>6

\* What is applied takes the value away and leaves the subscriber with what it has.
LEMMA AppliedForgets ==
  ASSUME TypeOK, NEW c \in Cache, NEW r \in Change
  PROVE  Applied(c, r).value = None /\ Applied(c, r).held = c.held
<1> DEFINE d == WithList(c)
<1>1. CASE r.item = List
  BY <1>1 DEF Applied, ResetValue, Cache
<1>2. CASE r.item # List
  <2> DEFINE k == Link(d, r)
             x == [d.ver EXCEPT ![r.item] = Entry(r)]
  <2>1. d \in Cache /\ d.held = c.held
    BY ItemFacts DEF WithList, Cache, TypeOK, Row
  <2>2. Applied(c, r) = ResetValue([d EXCEPT !.ver[r.item] = Entry(r), !.kids = k])
    BY <1>2 DEF Applied
  <2> HIDE DEF d, k
  <2>3. Applied(c, r) = ResetValue([d EXCEPT !.ver = x, !.kids = k])
    BY <2>1, <2>2 DEF Cache
  <2> HIDE DEF x
  <2> QED BY <2>1, <2>3 DEF ResetValue, Cache
<1> QED BY <1>1, <1>2

\* A change leaves the cache as it is, or with the list in it, a value that is current or
\* none, and the subscriber told.
Told(d) ==
  /\ d.ver[List] # 0
  /\ d.value = None \/ Matches(d, d.value)
  /\ registered => \/ d.held = None /\ d.kids = {}
                   \/ d.held # None /\ Matches(d, d.held)

LEMMA PutTells ==
  ASSUME TypeOK, row[List].ver > 0, NEW c \in Cache, NEW r \in Change, r.ver > 0,
         r.item = List => ~r.deleted, NEW d \in Put(c, r)
  PROVE  d = c \/ Told(d)
<1> SUFFICES ASSUME Changes(c, r) PROVE Told(d)
  BY DEF Put
<1> DEFINE a == Applied(c, r)
<1>1. d \in Notified(a)
  BY DEF Put
<1>2. a \in Cache /\ a.value = None
  BY AppliedFacts, AppliedForgets
<1>3. a.ver[List] # 0
  <2>1. CASE r.item = List
    BY <2>1, AppliedFacts DEF Entry
  <2>2. CASE r.item # List
    BY <2>2, AppliedFacts
  <2> QED BY <2>1, <2>2
<1> HIDE DEF a
<1>4. d.ver[List] # 0
  BY <1>1, <1>2, <1>3, NotifiedFacts
<1>5. CASE d = Refreshed(a)
  BY <1>2, <1>4, <1>5, RefreshedAgrees DEF Told
<1>6. CASE d = a /\ ~registered
  BY <1>2, <1>4, <1>6 DEF Told
<1>7. CASE d = [a EXCEPT !.held = None] /\ a.kids = {}
  <2>1. d.held = None /\ d.kids = {} /\ d.value = None
    BY <1>2, <1>7 DEF Cache
  <2> QED BY <1>4, <2>1 DEF Told
<1> QED BY <1>1, <1>5, <1>6, <1>7 DEF Notified

\* A change cut short leaves the list without an entry and without a value, or with the
\* entry and no value.
LEMMA PutFailsTells ==
  ASSUME TypeOK, row[List].ver > 0, NEW c \in Cache, NEW r \in Change, r.ver > 0,
         r.item = List => ~r.deleted
  PROVE  \/ /\ c.ver[List] = 0 /\ PutFails(c, r).ver[List] = 0
            /\ PutFails(c, r).value = c.value
         \/ PutFails(c, r).ver[List] # 0 /\ PutFails(c, r).value = None
<1>1. CASE r.item # List /\ c.ver[List] = 0
  BY <1>1, ItemFacts DEF PutFails, Cache
<1>2. CASE ~(r.item # List /\ c.ver[List] = 0)
  <2> DEFINE a == Applied(c, r)
  <2>1. a \in Cache /\ a.value = None
    BY AppliedFacts, AppliedForgets
  <2>2. a.ver[List] # 0
    <3>1. CASE r.item = List
      BY <3>1, AppliedFacts DEF Entry
    <3>2. CASE r.item # List
      BY <1>2, <3>2, AppliedFacts
    <3> QED BY <3>1, <3>2
  <2>3. PutFails(c, r) = a
    BY <1>2 DEF PutFails
  <2> HIDE DEF a
  <2> QED BY <2>1, <2>2, <2>3
<1> QED BY <1>1, <1>2

\* A change that reaches the cache, with the readers where they are or resting.
LEMMA ToldStep ==
  ASSUME Current, UNCHANGED <<row, registered>>, batch' \subseteq batch,
         \/ cache' = cache
         \/ Told(cache')
         \/ cache.ver[List] = 0 /\ cache'.ver[List] = 0 /\ cache'.value = cache.value
         \/ cache'.ver[List] # 0 /\ cache'.value = None,
         \A t \in Readers : \/ reader'[t].pc = reader[t].pc
                            \/ reader'[t].pc \in {"idle", "fetch", "put"}
                            \/ cache'.ver[List] # 0
  PROVE  Current'
<1> USE DEF Current
<1>1. ListStays'
  BY DEF ListStays, Told
<1>2. ValueIsCurrent'
  BY DEF ValueIsCurrent, ListStays, Told, Matches, Listed
<1> QED BY <1>1, <1>2

LEMMA SyncTells ==
  ASSUME IInv, Current, Sync
  PROVE  Current'
<1> USE DEF IInv
<1>0. cache \in Cache /\ row[List].ver > 0
  BY DEF TypeOK, TableLeads
<1>1. CASE SyncReads
  <2>1. ~row[List].deleted
    BY DEF Current, ListStays
  <2>2. \A r \in batch' : r.item = List => ~r.deleted
    BY <1>1, <2>1 DEF SyncReads
  <2>3. UNCHANGED <<row, cache, registered, reader>>
    BY <1>1 DEF SyncReads
  <2>4. ListStays'
    BY <2>1, <2>2, <2>3 DEF Current, ListStays
  <2> QED BY <2>3, <2>4 DEF Current, ValueIsCurrent, Matches, Listed
<1>2. ASSUME NEW r \in batch
      PROVE  r \in Change /\ r.ver > 0 /\ (r.item = List => ~r.deleted)
  BY DEF TypeOK, BatchIsGenuine, Current, ListStays
<1>3. CASE SyncApplies
  <2>1. PICK r \in batch : cache' \in Put(cache, r) /\ batch' = batch \ {r}
    BY <1>3 DEF SyncApplies
  <2>2. UNCHANGED <<row, registered, reader>>
    BY <1>3 DEF SyncApplies
  <2>3. cache' = cache \/ Told(cache')
    BY <1>0, <1>2, <2>1, PutTells
  <2> QED BY <2>1, <2>2, <2>3, ToldStep
<1>4. CASE SyncFails
  <2>1. PICK r \in batch : cache' = PutFails(cache, r)
    BY <1>4 DEF SyncFails
  <2>2. batch' = {} /\ UNCHANGED <<row, registered, reader>>
    BY <1>4 DEF SyncFails
  <2>3. \/ cache.ver[List] = 0 /\ cache'.ver[List] = 0 /\ cache'.value = cache.value
        \/ cache'.ver[List] # 0 /\ cache'.value = None
    BY <1>0, <1>2, <2>1, PutFailsTells
  <2> QED BY <2>2, <2>3, ToldStep
<1> QED BY <1>1, <1>3, <1>4 DEF Sync

LEMMA ReaderTells ==
  ASSUME IInv, Current, NEW t \in Readers, GetConfigItemValue(t)
  PROVE  Current'
<1> USE DEF IInv
<1>0. cache \in Cache /\ row[List].ver > 0 /\ cache.ver[List] \in Nat
  BY ItemFacts DEF TypeOK, TableLeads, Cache
<1>1. ReaderKeepsServer
  BY DEF GetConfigItemValue, ReturnsEarly, Lookup, FetchList, PutList, Children,
         FetchChildren, Fill, StoreValue, Register, ReaderFails, ReaderThrows
<1>2. row' = row /\ batch' = batch
  BY <1>1 DEF ReaderKeepsServer
<1>3. ASSUME NEW l \in {"idle", "fetch", "put", "children", "ask", "fill", "store", "register"}
      PROVE  Goto(t, l).pc = l
  BY <1>3, GotoType
<1>4. reader \in [Readers -> Reader]
  BY DEF TypeOK
<1>5. CASE ReturnsEarly(t)
  <2>1. cache'.ver = cache.ver /\ cache'.kids = cache.kids
    BY <1>0, <1>5 DEF ReturnsEarly, Cache
  <2>2. cache'.value = cache.value /\ cache'.overtaken = cache.overtaken
    BY <1>0, <1>5 DEF ReturnsEarly, Cache
  <2>3. UNCHANGED <<registered, reader>>
    BY <1>5 DEF ReturnsEarly
  <2>4. ListStays'
    BY <1>2, <2>1, <2>2, <2>3 DEF Current, ListStays
  <2>5. ValueIsCurrent'
    BY <2>1, <2>2 DEF Current, ValueIsCurrent, Matches, Listed
  <2> QED BY <2>4, <2>5 DEF Current
<1>6. CASE Lookup(t)
  <2>1. UNCHANGED <<cache, registered>>
    BY <1>6 DEF Lookup
  <2>2. \/ reader'[t].pc = "fetch"
        \/ cache.ver[List] # 0
    BY <1>3, <1>4, <1>6 DEF Lookup
  <2>3. \A u \in Readers : u # t => reader'[u] = reader[u]
    BY <1>4, <1>6 DEF Lookup
  <2> QED BY <1>2, <2>1, <2>2, <2>3, ToldStep
<1>7. CASE FetchList(t)
  <2>1. UNCHANGED <<cache, registered>>
    BY <1>7 DEF FetchList
  <2> DEFINE n == [Goto(t, "put") EXCEPT !.own = row[List].ver]
  <2>2. n.pc = "put"
    BY GotoType DEF Reader
  <2>3. reader' = [reader EXCEPT ![t] = n]
    BY <1>7 DEF FetchList
  <2> HIDE DEF n
  <2>4. \A u \in Readers : reader'[u].pc = reader[u].pc \/ reader'[u].pc = "put"
    BY <1>4, <2>2, <2>3
  <2> QED BY <1>2, <2>1, <2>4, ToldStep
<1>8. CASE PutList(t)
  <2>1. PICK r \in PutNext(t) : cache' \in Put(cache, r)
    BY <1>8 DEF PutList
  <2>2. registered' = registered /\ r \in Change /\ r.ver > 0 /\ ~r.deleted /\ r.item = List
    BY <1>8, PutNextFacts DEF PutList
  <2>3. cache' = cache \/ Told(cache')
    BY <1>0, <2>1, <2>2, PutTells
  <2>4. cache'.ver[List] # 0
    <3>1. CASE Changes(cache, r)
      <4>1. Applied(cache, r) \in Cache /\ Applied(cache, r).ver[List] = Entry(r)
        BY <1>0, <2>2, AppliedFacts
      <4>2. Entry(r) # 0
        BY <2>2 DEF Entry
      <4>3. cache'.ver[List] = Applied(cache, r).ver[List]
        BY <2>1, <3>1, <4>1, NotifiedFacts DEF Put
      <4> QED BY <4>1, <4>2, <4>3
    <3>2. CASE ~Changes(cache, r)
      BY <2>1, <2>2, <3>2 DEF Put, Changes, State
    <3> QED BY <3>1, <3>2
  <2> QED BY <1>2, <2>2, <2>3, <2>4, ToldStep
<1>9. CASE Children(t) \/ FetchChildren(t)
  <2>1. UNCHANGED <<cache, registered>> /\ reader[t].pc \in {"children", "ask"}
    BY <1>9 DEF Children, FetchChildren
  <2>2. cache.ver[List] # 0
    BY <2>1 DEF Current, ListStays
  <2> QED BY <1>2, <2>1, <2>2, ToldStep
<1>10. CASE Fill(t)
  <2>1. reader[t].pc = "fill" /\ registered' = registered
    BY <1>10 DEF Fill
  <2>2. cache.ver[List] # 0
    BY <2>1 DEF Current, ListStays
  <2>3. cache' = cache \/ Told(cache')
    <3>1. CASE reader[t].todo = {}
      BY <1>10, <3>1 DEF Fill
    <3>2. CASE reader[t].todo # {}
      <4>1. PICK r \in PutNext(t) : cache' \in Put(cache, r)
        BY <1>10, <3>2 DEF Fill
      <4> QED BY <1>0, <4>1, PutNextFacts, PutTells
    <3> QED BY <3>1, <3>2
  <2>4. cache'.ver[List] # 0
    BY <2>2, <2>3 DEF Told
  <2> QED BY <1>2, <2>1, <2>3, <2>4, ToldStep
<1>11. CASE StoreValue(t)
  <2> DEFINE n == Goto(t, "register")
             m == ~Matches(cache, Computed(t))
  <2>1. reader[t].pc = "store" /\ UNCHANGED registered
        /\ cache' = [cache EXCEPT !.value = Computed(t), !.overtaken = m]
    BY <1>11 DEF StoreValue
  <2>2. cache.ver[List] # 0
    BY <2>1 DEF Current, ListStays
  <2> HIDE DEF m
  <2>3. cache'.ver = cache.ver /\ cache'.kids = cache.kids
    BY <1>0, <2>1 DEF Cache
  <2>4. cache'.value = Computed(t) /\ cache'.overtaken = m
    BY <1>0, <2>1 DEF Cache
  <2>5. ListStays'
    BY <1>2, <2>2, <2>3 DEF Current, ListStays
  <2>6. ValueIsCurrent'
    BY <2>3, <2>4 DEF ValueIsCurrent, Matches, Listed, m
  <2> QED BY <2>5, <2>6 DEF Current
<1>12. CASE Register(t)
  <2>1. reader[t].pc = "register" /\ reader' = [reader EXCEPT ![t] = Resting]
    BY <1>12 DEF Register
  <2>2. cache.ver[List] # 0
    BY <2>1 DEF Current, ListStays
  <2>3. /\ cache'.ver = cache.ver /\ cache'.kids = cache.kids
        /\ cache'.value = cache.value /\ cache'.overtaken = cache.overtaken
    BY <1>0, <1>12 DEF Register, Cache
  <2>4. ListStays'
    BY <1>2, <2>2, <2>3 DEF Current, ListStays
  <2>5. ValueIsCurrent'
    BY <2>3 DEF Current, ValueIsCurrent, Matches, Listed
  <2> QED BY <2>4, <2>5 DEF Current
<1>13. CASE ReaderFails(t)
  <2>1. UNCHANGED <<cache, registered>> /\ reader' = [reader EXCEPT ![t] = Resting]
    BY <1>13 DEF ReaderFails
  <2>2. \A u \in Readers : reader'[u].pc = reader[u].pc \/ reader'[u].pc = "idle"
    BY <1>4, <2>1 DEF Resting
  <2> QED BY <1>2, <2>1, <2>2, ToldStep
<1>14. CASE ReaderThrows(t)
  <2>1. PICK r \in PutNext(t) : cache' = PutFails(cache, r)
    BY <1>14 DEF ReaderThrows
  <2>2. registered' = registered /\ reader' = [reader EXCEPT ![t] = Resting]
    BY <1>14 DEF ReaderThrows
  <2>3. \A u \in Readers : reader'[u].pc = reader[u].pc \/ reader'[u].pc = "idle"
    BY <1>4, <2>2 DEF Resting
  <2>4. \/ cache.ver[List] = 0 /\ cache'.ver[List] = 0 /\ cache'.value = cache.value
        \/ cache'.ver[List] # 0 /\ cache'.value = None
    BY <1>0, <2>1, PutNextFacts, PutFailsTells
  <2> QED BY <1>2, <2>2, <2>3, <2>4, ToldStep
<1> QED BY <1>5, <1>6, <1>7, <1>8, <1>9, <1>10, <1>11, <1>12, <1>13, <1>14
        DEF GetConfigItemValue

LEMMA WriteTells ==
  ASSUME IInv, Current, NEW i \in Items, NEW b \in BOOLEAN, b => i # List, Write(i, b)
  PROVE  Current'
<1>1. ~row'[List].deleted
  BY ItemFacts DEF IInv, TypeOK, Write, Current, ListStays
<1>2. UNCHANGED <<cache, registered, reader, batch>>
  BY DEF Write
<1> QED BY <1>1, <1>2 DEF Current, ListStays, ValueIsCurrent, Matches, Listed

\* The value kept with the list is current or overtaken, and the list's entry stays once it
\* is there.
THEOREM CurrentHolds == Spec => []Current
<1>1. Init => Current
  BY ItemFacts DEF Init, Current, ListStays, ValueIsCurrent, Resting
<1>2. ASSUME IInv, Current, [Next]_vars
      PROVE  Current'
  <2>1. ASSUME NEW i \in Items, Save(i)
        PROVE  Current'
    BY <1>2, <2>1, WriteTells DEF Save
  <2>2. ASSUME NEW e \in Elements, AddConfigItem(e) \/ RemoveConfigItem(e)
        PROVE  Current'
    BY <1>2, <2>2, WriteTells, ItemFacts DEF AddConfigItem, RemoveConfigItem
  <2>3. CASE Sync
    BY <1>2, <2>3, SyncTells
  <2>4. ASSUME NEW t \in Readers, GetConfigItemValue(t)
        PROVE  Current'
    BY <1>2, <2>4, ReaderTells
  <2>5. CASE UNCHANGED vars
    BY <1>2, <2>5 DEF Current, ListStays, ValueIsCurrent, Matches, Listed, vars
  <2> QED BY <1>2, <2>1, <2>2, <2>3, <2>4, <2>5 DEF Next
<1> QED BY <1>1, <1>2, InvariantHolds, PTL DEF Spec

\* The value kept with the list agrees with the entries, whatever rounds, fetches and
\* readers do, except one that was stored after its entries had been replaced.
THEOREM ValueStaysCurrent == Spec => []ValueIsCurrent
<1>1. Current => ValueIsCurrent
  BY DEF Current
<1> QED BY <1>1, CurrentHolds, PTL

\* Whatever changes the entries, the subscriber has what the cache has afterwards, unless its
\* callback threw or was left with the default.
THEOREM SubscribersAreTold == Spec => SubscriberIsTold
<1> DEFINE Safe ==
      registered =>
        \/ UNCHANGED <<cache.ver, cache.kids, cache.held>>
        \/ HasDefault'
        \/ cache'.held # None /\ Matches(cache', cache'.held)
        \/ SyncFails
        \/ \E t \in Readers : ReaderThrows(t)
<1>1. ASSUME IInv, Current, [Next]_vars
      PROVE  Safe
  <2> SUFFICES ASSUME registered, ~SyncFails, ~\E t \in Readers : ReaderThrows(t)
               PROVE  \/ UNCHANGED <<cache.ver, cache.kids, cache.held>>
                      \/ HasDefault'
                      \/ cache'.held # None /\ Matches(cache', cache'.held)
    OBVIOUS
  <2>1. cache \in Cache /\ row[List].ver > 0 /\ TypeOK
    BY <1>1 DEF IInv, TypeOK, TableLeads
  <2>2. ASSUME NEW r \in Change, r.ver > 0, r.item = List => ~r.deleted, cache' \in Put(cache, r)
        PROVE  cache' = cache \/ Told(cache')
    BY <2>1, <2>2, PutTells
  <2>3. CASE SyncApplies
    <3>1. PICK r \in batch : cache' \in Put(cache, r)
      BY <2>3 DEF SyncApplies
    <3>2. r \in Change /\ r.ver > 0 /\ (r.item = List => ~r.deleted)
      BY <1>1 DEF IInv, TypeOK, BatchIsGenuine, Current, ListStays
    <3> QED BY <2>2, <3>1, <3>2 DEF Told, HasDefault
  <2>4. ASSUME NEW t \in Readers, PutList(t) \/ Fill(t), cache' # cache
        PROVE  Told(cache')
    <3>1. PICK r \in PutNext(t) : cache' \in Put(cache, r)
      BY <2>4 DEF PutList, Fill
    <3> QED BY <1>1, <2>2, <2>4, <3>1, PutNextFacts
  <2>5. ASSUME NEW t \in Readers, PutList(t) \/ Fill(t)
        PROVE  \/ UNCHANGED cache
               \/ HasDefault'
               \/ cache'.held # None /\ Matches(cache', cache'.held)
    BY <2>4, <2>5 DEF Told, HasDefault
  <2>6. ASSUME NEW t \in Readers, StoreValue(t)
        PROVE  UNCHANGED <<cache.ver, cache.kids, cache.held>>
    BY <2>1, <2>6 DEF StoreValue, Cache
  <2>7. ASSUME NEW t \in Readers, Register(t) \/ ReturnsEarly(t)
        PROVE  UNCHANGED cache
    BY <2>7 DEF Register, ReturnsEarly
  <2> QED BY <1>1, <2>3, <2>5, <2>6, <2>7 DEF Next, vars, Save, AddConfigItem,
             RemoveConfigItem, Write, Sync, SyncReads, GetConfigItemValue, Lookup, FetchList,
             Children, FetchChildren, ReaderFails
<1>2. IInv /\ Current /\ [Next]_vars => [Safe]_vars
  BY <1>1
<1> QED BY <1>2, InvariantHolds, CurrentHolds, PTL DEF Spec, SubscriberIsTold

\* An element that is cached is among the children of its list, until the list's own entry
\* is replaced or a round ends in the middle of it.
THEOREM ChildrenAreKept == Spec => UnlistedOnlyByReplacement
<1> DEFINE Safe == Unlisted' \subseteq Unlisted \/ cache'.ver[List] # cache.ver[List] \/ SyncFails
<1>1. ASSUME IInv, Current, [Next]_vars
      PROVE  Safe
  <2> SUFFICES ASSUME ~SyncFails, cache'.ver[List] = cache.ver[List]
               PROVE  Unlisted' \subseteq Unlisted
    OBVIOUS
  <2>1. cache \in Cache /\ row[List].ver > 0 /\ TypeOK
    BY <1>1 DEF IInv, TypeOK, TableLeads
  <2>2. ASSUME NEW r \in Change, r.ver > 0,
               \/ cache' \in Put(cache, r)
               \/ Changes(cache, r) /\ cache' = PutFails(cache, r) /\ cache.ver[List] # 0
        PROVE  Unlisted' \subseteq Unlisted
    <3>1. cache.ver[r.item] <= row[r.item].ver
      BY <1>1 DEF IInv, Change, TableLeads
    <3>2. CASE cache' \in Put(cache, r)
      BY <2>1, <2>2, <3>1, <3>2, PutDisturbs DEF Unlisted
    <3>3. CASE Changes(cache, r) /\ cache' = PutFails(cache, r) /\ cache.ver[List] # 0
      <4>1. cache' = Applied(cache, r)
        BY <3>3 DEF PutFails
      <4> QED BY <2>1, <2>2, <3>3, <4>1, AppliedKeeps DEF Unlisted
    <3> QED BY <2>2, <3>2, <3>3
  <2>3. CASE cache'.ver = cache.ver /\ cache'.kids = cache.kids
    BY <2>3 DEF Unlisted
  <2>4. ASSUME NEW r \in batch, cache' \in Put(cache, r)
        PROVE  Unlisted' \subseteq Unlisted
    BY <1>1, <2>2, <2>4 DEF IInv, TypeOK, BatchIsGenuine
  <2>5. ASSUME NEW t \in Readers, NEW r \in PutNext(t), Reaches(r),
               cache' \in Put(cache, r) \/ registered
        PROVE  Unlisted' \subseteq Unlisted
    <3>1. registered => cache.ver[List] # 0
      BY <1>1 DEF Current, ListStays
    <3> QED BY <1>1, <2>2, <2>5, <3>1, PutNextFacts DEF Reaches
  <2> QED BY <1>1, <2>3, <2>4, <2>5, EntriesChange
<1>2. IInv /\ Current /\ [Next]_vars => [Safe]_vars
  BY <1>1
<1> QED BY <1>2, InvariantHolds, CurrentHolds, PTL DEF Spec, UnlistedOnlyByReplacement

----------------------------------------------------------------------------
\* How the version of an entry changes.

\* It grows, or the entry goes because of a deletion that is newer than it is.
EntriesRise ==
  \A i \in Items :
    cache.ver[i] # 0 =>
      \/ cache.ver[i] <= cache'.ver[i]
      \/ /\ cache'.ver[i] = 0
         /\ \E r \in batch : r.item = i /\ r.deleted /\ cache.ver[i] < r.ver

LEMMA DisturbedRises ==
  ASSUME IInv, NEW r \in Change, r.ver > 0, Disturbs(cache, cache', r),
         NEW i \in Items, cache.ver[i] # 0
  PROVE  \/ cache.ver[i] <= cache'.ver[i]
         \/ /\ cache'.ver[i] = 0
            /\ r.item = i /\ r.deleted /\ cache.ver[i] < r.ver
<1>1. cache.ver[i] \in Nat /\ row[i].ver \in Nat /\ cache.ver[i] <= row[i].ver
  BY ItemFacts DEF IInv, TypeOK, Cache, Row, TableLeads
<1>2. r.item \in Items /\ r.ver \in Nat /\ r.deleted \in BOOLEAN
  BY ItemFacts DEF Change
<1>3. CASE i # r.item
  BY <1>1, <1>3 DEF Disturbs
<1>4. CASE i = r.item /\ r.ver <= cache.ver[i]
  BY <1>1, <1>4 DEF Disturbs
<1>5. CASE i = r.item /\ ~(r.ver <= cache.ver[i])
  <2>1. cache'.ver[i] \in {cache.ver[i], row[i].ver, Entry(r)}
    BY <1>5 DEF Disturbs
  <2> QED BY <1>1, <1>2, <1>5, <2>1 DEF Entry
<1> QED BY <1>3, <1>4, <1>5

\* An entry of the cache never goes back to an older version, whatever late answers, rounds
\* and callbacks do to it; it disappears only in a round that brings a newer deletion.
THEOREM EntriesOnlyRise == Spec => [][EntriesRise]_vars
<1>1. ASSUME IInv, [Next]_vars
      PROVE  EntriesRise
  <2> USE <1>1 DEF IInv
  <2>1. cache \in Cache /\ row[List].ver > 0
    BY DEF TypeOK, TableLeads
  <2>2. CASE cache'.ver = cache.ver
    <3>1. \A i \in Items : cache.ver[i] \in Nat
      BY <2>1, ItemFacts DEF Cache
    <3>2. \A i \in Items : cache.ver[i] <= cache'.ver[i]
      BY <2>2, <3>1
    <3> QED BY <3>2 DEF EntriesRise
  <2>3. ASSUME NEW r \in batch, Reaches(r)
        PROVE  EntriesRise
    BY <1>1, <2>3, BatchReaches, DisturbedRises DEF EntriesRise
  <2>4. ASSUME NEW t \in Readers, NEW r \in PutNext(t), Reaches(r), ReaderKeepsServer
        PROVE  EntriesRise
    <3>1. r \in Change /\ r.ver > 0 /\ ~r.deleted /\ Disturbs(cache, cache', r)
      BY <1>1, <2>4, PutNextFacts, ReaderPuts
    <3> QED BY <1>1, <3>1, DisturbedRises DEF EntriesRise
  <2> QED BY <1>1, <2>2, <2>3, <2>4, EntriesChange
<1> QED BY <1>1, InvariantHolds, PTL DEF Spec
=============================================================================
