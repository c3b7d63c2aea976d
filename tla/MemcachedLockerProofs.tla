------------------------ MODULE MemcachedLockerProofs ------------------------
(***************************************************************************)
(* Proofs about MemcachedLocker for every number of clients and every      *)
(* timeOut.                                                                *)
(***************************************************************************)
EXTENDS MemcachedLocker, TLAPS

----------------------------------------------------------------------------
\* The inductive invariant.

\* Until a lease is voided, whoever has the lock wrote the entry, which is as old as its
\* value and not stale.
HolderWroteEntry ==
  ~voided => \A c \in Clients :
               HasLock(c) => entry = c /\ entryAge = age[c] /\ age[c] <= Lease

\* The version of an entry is kept only by a client that found it stale, and it still is.
OnlyStaleIsSeen ==
  \A c \in Clients : seen[c] = "current" => pc[c] = "again" /\ entryAge > Lease

IInv == TypeOK /\ HolderWroteEntry /\ OnlyStaleIsSeen

LEMMA CapFacts == Lease \in Nat /\ Cap = Lease + 1 /\ Cap \in Nat /\ TimeOut \in Nat
BY LockerAssumption DEF Lease, Cap

LEMMA InitHolds == Init => IInv
<1> SUFFICES ASSUME Init PROVE IInv
  OBVIOUS
<1>1. TypeOK
  <2>1. 0 \in 0..Cap /\ 0 \in 0..TimeOut
    BY CapFacts
  <2> QED BY <2>1 DEF Init, TypeOK
<1>2. HolderWroteEntry /\ OnlyStaleIsSeen
  BY DEF Init, HolderWroteEntry, OnlyStaleIsSeen, HasLock
<1> QED BY <1>1, <1>2 DEF IInv

\* What Goto does to the variables of the clients.
LEMMA GotoType ==
  ASSUME TypeOK, NEW c \in Clients, NEW l \in Waiting \cup {"idle", "holding", "disposing"},
         Goto(c, l)
  PROVE  /\ pc' \in [Clients -> {"idle", "loop", "add", "get", "again", "holding", "disposing"}]
         /\ waited' \in [Clients -> 0..TimeOut]
         /\ age' \in [Clients -> 0..Cap]
         /\ pc'[c] = l
         /\ l \in {"holding", "disposing"} => age'[c] = age[c]
         /\ \A d \in Clients : d # c => pc'[d] = pc[d] /\ age'[d] = age[d]
BY CapFacts DEF TypeOK, Goto, Waiting

LEMMA OutdatedType ==
  ASSUME TypeOK
  PROVE  /\ Outdated \in [Clients -> {"none", "gone"}]
         /\ \A d \in Clients : Outdated[d] # "current"
BY DEF TypeOK, Outdated

----------------------------------------------------------------------------
\* Each action preserves it.

LEMMA QuietStep ==
  ASSUME IInv, NEW c \in Clients, Enter(c) \/ Try(c) \/ TimesOut(c) \/ Dispose(c) \/ Crash(c)
  PROVE  IInv'
<1> USE DEF IInv
<1>1. UNCHANGED <<entry, entryAge, voided>>
  BY DEF Enter, Try, TimesOut, Dispose, Crash
<1>2. PICK l \in {"loop", "add", "idle", "disposing"} :
        Goto(c, l) /\ (l = "disposing" => pc[c] = "holding")
  BY DEF Enter, Try, TimesOut, GiveUp, Dispose, Crash
<1>3. l \in Waiting \cup {"idle", "holding", "disposing"}
  BY DEF Waiting
<1>4. seen' = seen \/ seen' = [seen EXCEPT ![c] = "none"]
  BY DEF Enter, Try, TimesOut, Dispose, Crash
<1>5. pc[c] = "again" => seen' = [seen EXCEPT ![c] = "none"]
  BY DEF Enter, Try, TimesOut, GiveUp, Dispose, Crash
<1>6. TypeOK'
  BY <1>1, <1>2, <1>3, <1>4, GotoType DEF TypeOK
<1>7. HolderWroteEntry'
  <2> SUFFICES ASSUME ~voided', NEW d \in Clients, HasLock(d)'
               PROVE  entry' = d /\ entryAge' = age'[d] /\ age'[d] <= Lease
    BY DEF HolderWroteEntry
  <2>1. HasLock(d) /\ age'[d] = age[d]
    BY <1>2, <1>3, GotoType DEF HasLock
  <2> QED BY <1>1, <2>1 DEF HolderWroteEntry
<1>8. OnlyStaleIsSeen'
  BY <1>1, <1>2, <1>3, <1>4, <1>5, GotoType DEF OnlyStaleIsSeen, TypeOK
<1> QED BY <1>6, <1>7, <1>8

\* The server stores the value of c, which nobody that has the lock minds.
LEMMA StoreStep ==
  ASSUME IInv, NEW c \in Clients, NEW l \in {"get", "loop"},
         pc[c] \in {"add", "again"}, Store(c), Obtain(c) \/ Fail(c, l),
         entry = None \/ entryAge > Lease
  PROVE  IInv'
<1> USE DEF IInv
<1>1. PICK k \in {"holding", "get", "loop"} :
        /\ Goto(c, k)
        /\ IF k = "holding" THEN voided' = (voided \/ age[c] > Lease) ELSE voided' = voided
  BY DEF Obtain, Fail
<1>2. k \in Waiting \cup {"idle", "holding", "disposing"}
  BY DEF Waiting
<1>3. /\ entry' = c /\ entryAge' = age[c]
      /\ seen' \in [Clients -> {"none", "gone"}]
  BY OutdatedType DEF Store
<1>4. voided' \in BOOLEAN /\ (voided => voided')
  BY <1>1 DEF TypeOK
<1>5. TypeOK'
  BY <1>1, <1>2, <1>3, <1>4, GotoType, LockerAssumption DEF TypeOK
<1>6. HolderWroteEntry'
  <2> SUFFICES ASSUME ~voided', NEW d \in Clients, HasLock(d)'
               PROVE  entry' = d /\ entryAge' = age'[d] /\ age'[d] <= Lease
    BY DEF HolderWroteEntry
  <2>1. ~voided
    BY <1>4
  <2>2. CASE d = c
    <3>1. k = "holding" /\ age'[c] = age[c]
      BY <1>1, <1>2, <2>2, GotoType DEF HasLock
    <3>2. ~(age[c] > Lease)
      BY <1>1, <3>1
    <3>3. age[c] \in Nat
      BY CapFacts DEF TypeOK
    <3> QED BY <1>3, <2>2, <3>1, <3>2, <3>3, CapFacts
  <2>3. CASE d # c
    <3>1. HasLock(d)
      BY <1>1, <1>2, <2>3, GotoType DEF HasLock
    <3>2. entry = d /\ entryAge <= Lease
      BY <2>1, <3>1 DEF HolderWroteEntry
    <3>3. entry # None /\ entryAge \in Nat
      BY <3>2, LockerAssumption, CapFacts DEF TypeOK
    <3> QED BY <3>2, <3>3, CapFacts
  <2> QED BY <2>2, <2>3
<1>7. OnlyStaleIsSeen'
  BY <1>3 DEF OnlyStaleIsSeen
<1> QED BY <1>5, <1>6, <1>7

LEMMA AddStep ==
  ASSUME IInv, NEW c \in Clients, Add(c)
  PROVE  IInv'
<1> USE DEF IInv
<1>1. CASE entry = None /\ Store(c) /\ (Obtain(c) \/ Fail(c, "get"))
  BY <1>1, StoreStep DEF Add
<1>2. CASE Fail(c, "get") /\ UNCHANGED <<entry, entryAge, seen>>
  <2>1. "get" \in Waiting \cup {"idle", "holding", "disposing"} /\ Goto(c, "get")
    BY <1>2 DEF Waiting, Fail
  <2>2. TypeOK'
    BY <1>2, <2>1, GotoType DEF TypeOK, Fail
  <2>3. \A d \in Clients : HasLock(d)' => HasLock(d) /\ age'[d] = age[d]
    BY <2>1, GotoType DEF HasLock
  <2>4. HolderWroteEntry'
    BY <1>2, <2>3 DEF HolderWroteEntry, Fail
  <2>5. OnlyStaleIsSeen'
    BY <1>2, <2>1, GotoType DEF OnlyStaleIsSeen, Add
  <2> QED BY <2>2, <2>4, <2>5
<1> QED BY <1>1, <1>2 DEF Add

LEMMA GetStep ==
  ASSUME IInv, NEW c \in Clients, Get(c)
  PROVE  IInv'
<1> USE DEF IInv
<1>1. PICK l \in {"again", "loop"} : Goto(c, l)
  BY DEF Get
<1>2. l \in Waiting \cup {"idle", "holding", "disposing"}
  BY DEF Waiting
<1>3. UNCHANGED <<entry, entryAge, voided>>
  BY DEF Get
<1>4. \/ /\ seen' = [seen EXCEPT ![c] = "current"]
         /\ pc'[c] = "again" /\ entry # None /\ entryAge > Lease
      \/ seen' = seen
  BY GotoType DEF Get, Stale, Waiting
<1>5. TypeOK'
  BY <1>1, <1>2, <1>3, <1>4, GotoType DEF TypeOK
<1>6. \A d \in Clients : HasLock(d)' => HasLock(d) /\ age'[d] = age[d]
  BY <1>1, <1>2, GotoType DEF HasLock
<1>7. HolderWroteEntry'
  BY <1>3, <1>6 DEF HolderWroteEntry
<1>8. seen[c] # "current"
  BY DEF OnlyStaleIsSeen, Get
<1>9. OnlyStaleIsSeen'
  BY <1>1, <1>2, <1>3, <1>4, <1>8, GotoType DEF OnlyStaleIsSeen, TypeOK
<1> QED BY <1>5, <1>7, <1>9

LEMMA AddAgainStep ==
  ASSUME IInv, NEW c \in Clients, AddAgain(c)
  PROVE  IInv'
<1> USE DEF IInv
<1>1. CASE Accepted(c) /\ Store(c) /\ (Obtain(c) \/ Fail(c, "loop"))
  <2>1. entry = None \/ entryAge > Lease
    BY <1>1 DEF Accepted, OnlyStaleIsSeen
  <2> QED BY <1>1, <2>1, StoreStep DEF AddAgain
<1>2. CASE /\ Fail(c, "loop")
           /\ seen' = [seen EXCEPT ![c] = "none"]
           /\ UNCHANGED <<entry, entryAge>>
  <2>1. "loop" \in Waiting \cup {"idle", "holding", "disposing"} /\ Goto(c, "loop")
    BY <1>2 DEF Waiting, Fail
  <2>2. TypeOK'
    BY <1>2, <2>1, GotoType DEF TypeOK, Fail
  <2>3. \A d \in Clients : HasLock(d)' => HasLock(d) /\ age'[d] = age[d]
    BY <2>1, GotoType DEF HasLock
  <2>4. HolderWroteEntry'
    BY <1>2, <2>3 DEF HolderWroteEntry, Fail
  <2>5. OnlyStaleIsSeen'
    BY <1>2, <2>1, GotoType DEF OnlyStaleIsSeen, TypeOK
  <2> QED BY <2>2, <2>4, <2>5
<1> QED BY <1>1, <1>2 DEF AddAgain

\* As long as no lease is voided, a client that deletes the entry had written it.
LEMMA DeleteStep ==
  ASSUME IInv, NEW c \in Clients, Delete(c)
  PROVE  IInv'
<1> USE DEF IInv
<1>1. "idle" \in Waiting \cup {"idle", "holding", "disposing"} /\ Goto(c, "idle")
  BY DEF Delete
<1>2. /\ UNCHANGED voided
      /\ \/ entry' = None /\ entryAge' = 0 /\ seen' \in [Clients -> {"none", "gone"}]
         \/ UNCHANGED <<entry, entryAge, seen>>
  BY OutdatedType DEF Delete, Remove
<1>3. TypeOK'
  BY <1>1, <1>2, GotoType, CapFacts DEF TypeOK
<1>4. HolderWroteEntry'
  <2> SUFFICES ASSUME ~voided', NEW d \in Clients, HasLock(d)'
               PROVE  entry' = d /\ entryAge' = age'[d] /\ age'[d] <= Lease
    BY DEF HolderWroteEntry
  <2>1. d # c /\ HasLock(d) /\ age'[d] = age[d]
    BY <1>1, GotoType DEF HasLock
  <2>2. HasLock(c)
    BY DEF HasLock, Delete
  <2>3. FALSE
    BY <1>2, <2>1, <2>2 DEF HolderWroteEntry
  <2> QED BY <2>3
<1>5. OnlyStaleIsSeen'
  BY <1>1, <1>2, GotoType DEF OnlyStaleIsSeen, Delete
<1> QED BY <1>3, <1>4, <1>5

LEMMA KeyIsLostStep ==
  ASSUME IInv, KeyIsLost
  PROVE  IInv'
<1> USE DEF IInv
<1>1. /\ entry' = None /\ entryAge' = 0
      /\ seen' \in [Clients -> {"none", "gone"}]
      /\ UNCHANGED <<pc, waited, age>>
  BY OutdatedType DEF KeyIsLost, Remove
<1>2. voided' \in BOOLEAN /\ (~voided' => ~\E c \in Clients : HasLock(c))
  BY DEF KeyIsLost, TypeOK
<1>3. TypeOK'
  BY <1>1, <1>2, CapFacts DEF TypeOK
<1>4. HolderWroteEntry'
  BY <1>1, <1>2 DEF HolderWroteEntry, HasLock
<1>5. OnlyStaleIsSeen'
  BY <1>1 DEF OnlyStaleIsSeen
<1> QED BY <1>3, <1>4, <1>5

LEMMA OlderType ==
  ASSUME NEW top \in Nat, NEW a \in 0..top
  PROVE  /\ Older(a, top) \in 0..top
         /\ Older(a, top) >= a
         /\ a < top => Older(a, top) = a + 1
BY DEF Older

LEMMA TickStep ==
  ASSUME IInv, Tick
  PROVE  IInv' /\ entry' = entry /\ (entry # None => entryAge' >= entryAge)
<1> USE DEF IInv
<1>1. UNCHANGED <<entry, pc, seen>>
  BY DEF Tick
<1>2. waited' \in [Clients -> 0..TimeOut]
  BY OlderType, CapFacts DEF Tick, TypeOK
<1>3. /\ age' \in [Clients -> 0..Cap]
      /\ \A c \in Clients : HasLock(c) => age'[c] = Older(age[c], Cap)
  BY OlderType, CapFacts DEF Tick, TypeOK, HasLock, ValueInUse
<1>4. /\ entryAge' \in 0..Cap
      /\ entry # None => entryAge' = Older(entryAge, Cap) /\ entryAge' >= entryAge
  BY OlderType, CapFacts DEF Tick, TypeOK
<1>5. voided' \in BOOLEAN
  BY DEF Tick, TypeOK
<1>6. TypeOK'
  BY <1>1, <1>2, <1>3, <1>4, <1>5 DEF TypeOK
<1>7. HolderWroteEntry'
  <2> SUFFICES ASSUME ~voided', NEW c \in Clients, HasLock(c)'
               PROVE  entry' = c /\ entryAge' = age'[c] /\ age'[c] <= Lease
    BY DEF HolderWroteEntry
  <2>1. ~voided /\ HasLock(c) /\ ~(age[c] >= Lease)
    BY <1>1 DEF Tick, HasLock
  <2>2. entry = c /\ entryAge = age[c] /\ entry # None
    BY <2>1, LockerAssumption DEF HolderWroteEntry
  <2>3. age[c] \in 0..Cap /\ age[c] < Lease
    BY <2>1, CapFacts DEF TypeOK
  <2>4. Older(age[c], Cap) = age[c] + 1 /\ age[c] + 1 <= Lease
    BY <2>3, OlderType, CapFacts
  <2> QED BY <1>1, <1>3, <1>4, <2>1, <2>2, <2>4
<1>8. OnlyStaleIsSeen'
  <2> SUFFICES ASSUME NEW c \in Clients, seen'[c] = "current"
               PROVE  pc'[c] = "again" /\ entryAge' > Lease
    BY DEF OnlyStaleIsSeen
  <2>1. pc[c] = "again" /\ entryAge > Lease /\ entry # None
    BY <1>1 DEF OnlyStaleIsSeen, TypeOK
  <2> QED BY <1>1, <1>4, <2>1, CapFacts DEF TypeOK
<1> QED BY <1>1, <1>4, <1>6, <1>7, <1>8

LEMMA StepHolds ==
  ASSUME IInv, [Next]_vars
  PROVE  IInv'
<1>1. ASSUME NEW c \in Clients,
             Enter(c) \/ ConstructorStep(c) \/ Dispose(c) \/ Delete(c) \/ Crash(c)
      PROVE  IInv'
  BY <1>1, QuietStep, AddStep, GetStep, AddAgainStep, DeleteStep DEF ConstructorStep
<1>2. CASE KeyIsLost
  BY <1>2, KeyIsLostStep
<1>3. CASE Tick
  BY <1>3, TickStep
<1>4. CASE UNCHANGED vars
  BY <1>4 DEF IInv, TypeOK, HolderWroteEntry, OnlyStaleIsSeen, HasLock, vars
<1> QED BY <1>1, <1>2, <1>3, <1>4 DEF Next

\* Until a lease is voided, whoever has the lock wrote the server's entry, and only a version
\* that was stale when it was read is kept.
THEOREM InvariantHolds == Spec => []IInv
<1>1. Init => IInv
  BY InitHolds
<1>2. IInv /\ [Next]_vars => IInv'
  BY StepHolds
<1> QED BY <1>1, <1>2, PTL DEF Spec

----------------------------------------------------------------------------
\* What it gives.

\* Every variable of the lock keeps to its range.
THEOREM TypeCorrect == Spec => []TypeOK
<1>1. IInv => TypeOK
  BY DEF IInv
<1> QED BY <1>1, InvariantHolds, PTL

\* Two clients never have the lock at once before a lease was voided.
THEOREM LockIsExclusive == Spec => []ExclusiveWithinLease
<1>1. IInv => ExclusiveWithinLease
  BY DEF IInv, HolderWroteEntry, ExclusiveWithinLease
<1> QED BY <1>1, InvariantHolds, PTL

\* The version that Add carries makes sure that only a stale entry is overwritten.
THEOREM OnlyStaleIsTakenOver == Spec => TakenOverOnlyWhenStale
<1> DEFINE Safe == entry # None /\ entry' # None /\ (entry' # entry \/ entryAge' < entryAge)
                     => entryAge > Lease
<1>1. ASSUME IInv, [Next]_vars
      PROVE  Safe
  <2> SUFFICES ASSUME entry # None, entry' # None, entry' # entry \/ entryAge' < entryAge
               PROVE  entryAge > Lease
    OBVIOUS
  <2>1. entryAge \in Nat
    BY <1>1, CapFacts DEF IInv, TypeOK
  <2>2. ~(entryAge < entryAge)
    BY <2>1
  <2>3. ~UNCHANGED <<entry, entryAge>>
    BY <2>2
  <2>4. ~Tick
    <3> SUFFICES ASSUME Tick PROVE FALSE
      OBVIOUS
    <3>1. entry' = entry /\ entryAge' >= entryAge /\ IInv'
      BY <1>1, TickStep
    <3>2. entryAge' \in Nat
      BY <3>1, CapFacts DEF IInv, TypeOK
    <3> QED BY <2>1, <3>1, <3>2
  <2>5. ~KeyIsLost
    BY DEF KeyIsLost, Remove
  <2>6. PICK c \in Clients :
          Enter(c) \/ ConstructorStep(c) \/ Dispose(c) \/ Delete(c) \/ Crash(c)
    BY <1>1, <2>3, <2>4, <2>5 DEF Next, vars
  <2>7. AddAgain(c) /\ Accepted(c)
    BY <2>3, <2>6 DEF ConstructorStep, Enter, Try, TimesOut, Add, Get, AddAgain, Dispose,
                      Delete, Remove, Crash
  <2>8. seen[c] = "current"
    BY <2>7 DEF Accepted
  <2> QED BY <1>1, <2>8 DEF IInv, OnlyStaleIsSeen
<1>2. IInv /\ [Next]_vars => [Safe]_vars
  BY <1>1
<1> QED BY <1>2, InvariantHolds, PTL DEF Spec, TakenOverOnlyWhenStale

\* Before a lease was voided, Dispose finds the entry its client had written.
THEOREM DisposeDeletesItsOwn == Spec => DeletesItsOwn
<1> DEFINE Own == \A c \in Clients :
                    ~voided /\ ~voided' /\ entry # None /\ entry' = None /\ Delete(c) => entry = c
<1>1. IInv /\ [Next]_vars => [Own]_vars
  BY DEF IInv, HolderWroteEntry, HasLock, Delete
<1> QED BY <1>1, InvariantHolds, PTL DEF Spec, DeletesItsOwn
=============================================================================
