-------------------------- MODULE MemoryQueueProofs --------------------------
(***************************************************************************)
(* Proofs about MemoryQueue for every set of items, threads and            *)
(* configurations.                                                         *)
(***************************************************************************)
EXTENDS MemoryQueue, SequenceTheorems, TLAPS

\* A suffix of a sequence holds some of its elements, none of them twice if the sequence
\* holds none twice.
LEMMA SuffixFacts ==
  ASSUME NEW S, NEW s \in Seq(S), NEW m \in 1..(Len(s) + 1)
  PROVE  LET t == SubSeq(s, m, Len(s))
         IN /\ t \in Seq(S)
            /\ Len(t) = Len(s) - m + 1
            /\ \A k \in 1..Len(t) : t[k] = s[m + k - 1]
            /\ ElementsOf(t) \subseteq ElementsOf(s)
            /\ NoRepeats(s) => NoRepeats(t)
<1> DEFINE t == SubSeq(s, m, Len(s))
<1>1. Len(s) \in Nat /\ m \in Int /\ \A i \in m..Len(s) : s[i] \in S
  BY ElementOfSeq, LenProperties
<1>2. /\ t \in Seq(S)
      /\ Len(t) = Len(s) - m + 1
      /\ \A k \in 1..Len(t) : t[k] = s[m + k - 1]
  BY <1>1, SubSeqProperties
<1> HIDE DEF t
<1>3. \A k \in 1..Len(t) : m + k - 1 \in 1..Len(s)
  BY <1>1, <1>2
<1>4. ElementsOf(t) \subseteq ElementsOf(s)
  BY <1>2, <1>3 DEF ElementsOf
<1>5. NoRepeats(s) => NoRepeats(t)
  <2> SUFFICES ASSUME NoRepeats(s), NEW j \in 1..Len(t), NEW k \in 1..Len(t), t[j] = t[k]
               PROVE  j = k
    BY DEF NoRepeats
  <2>1. m + j - 1 = m + k - 1
    BY <1>2, <1>3 DEF NoRepeats
  <2> QED BY <2>1, <1>1, <1>2
<1> QED BY <1>2, <1>4, <1>5 DEF t

\* Cutting a sequence in two: the same for the part in front, and the parts share nothing
\* if the sequence repeats nothing.
LEMMA PrefixFacts ==
  ASSUME NEW S, NEW s \in Seq(S), NEW n \in 0..Len(s)
  PROVE  LET p == SubSeq(s, 1, n)
             t == SubSeq(s, n + 1, Len(s))
         IN /\ p \in Seq(S)
            /\ Len(p) = n
            /\ ElementsOf(p) \subseteq ElementsOf(s)
            /\ NoRepeats(s) => NoRepeats(p) /\ ElementsOf(p) \cap ElementsOf(t) = {}
<1> DEFINE p == SubSeq(s, 1, n)
           t == SubSeq(s, n + 1, Len(s))
<1>1. Len(s) \in Nat /\ n \in Int /\ \A i \in 1..n : s[i] \in S
  BY ElementOfSeq, LenProperties
<1>2. /\ p \in Seq(S)
      /\ Len(p) = n
      /\ \A k \in 1..n : p[k] = s[k]
  BY <1>1, SubSeqProperties
<1>3. Len(t) = Len(s) - n /\ \A k \in 1..Len(t) : t[k] = s[n + k]
  BY <1>1, SuffixFacts
<1> HIDE DEF p, t
<1>4. ElementsOf(p) \subseteq ElementsOf(s)
  BY <1>1, <1>2 DEF ElementsOf
<1>5. ASSUME NoRepeats(s)
      PROVE  NoRepeats(p) /\ ElementsOf(p) \cap ElementsOf(t) = {}
  <2>1. NoRepeats(p)
    BY <1>1, <1>2, <1>5 DEF NoRepeats
  <2>2. ASSUME NEW j \in 1..Len(p), NEW k \in 1..Len(t), p[j] = t[k]
        PROVE  FALSE
    <3>1. j \in 1..Len(s) /\ n + k \in 1..Len(s) /\ s[j] = s[n + k]
      BY <1>1, <1>2, <1>3, <2>2
    <3>2. j = n + k
      BY <3>1, <1>5 DEF NoRepeats
    <3> QED BY <3>2, <1>1, <1>2, <1>3
  <2> QED BY <2>1, <2>2 DEF ElementsOf
<1> QED BY <1>2, <1>4, <1>5 DEF p, t

\* Appending a new element.
LEMMA AppendFacts ==
  ASSUME NEW S, NEW s \in Seq(S), NEW e \in S
  PROVE  /\ Append(s, e) \in Seq(S)
         /\ Len(Append(s, e)) = Len(s) + 1
         /\ ElementsOf(Append(s, e)) = ElementsOf(s) \cup {e}
         /\ NoRepeats(s) /\ e \notin ElementsOf(s) => NoRepeats(Append(s, e))
<1> DEFINE t == Append(s, e)
<1>1. /\ Len(s) \in Nat
      /\ t \in Seq(S)
      /\ Len(t) = Len(s) + 1
      /\ \A k \in 1..Len(s) : t[k] = s[k]
      /\ t[Len(s) + 1] = e
  BY LenProperties
<1> HIDE DEF t
<1>2. 1..Len(t) = 1..Len(s) \cup {Len(s) + 1}
  BY <1>1
<1>3. ElementsOf(t) = ElementsOf(s) \cup {e}
  BY <1>1, <1>2 DEF ElementsOf
<1>4. NoRepeats(s) /\ e \notin ElementsOf(s) => NoRepeats(t)
  BY <1>1, <1>2 DEF ElementsOf, NoRepeats
<1> QED BY <1>1, <1>3, <1>4 DEF t

\* Taking the first element off.
LEMMA TailFacts ==
  ASSUME NEW S, NEW s \in Seq(S), s # <<>>
  PROVE  /\ Head(s) \in S
         /\ Tail(s) \in Seq(S)
         /\ Len(Tail(s)) = Len(s) - 1
         /\ Tail(s) = <<>> <=> Len(s) = 1
         /\ Head(s) \in ElementsOf(s)
         /\ ElementsOf(Tail(s)) \subseteq ElementsOf(s)
         /\ NoRepeats(s) => NoRepeats(Tail(s)) /\ Head(s) \notin ElementsOf(Tail(s))
<1>1. Len(s) \in Nat /\ Len(s) # 0
  BY EmptySeq, LenProperties
<1>2. Tail(s) = SubSeq(s, 2, Len(s)) /\ Head(s) = s[1] /\ Head(s) \in S
  BY TailIsSubSeq, HeadTailProperties
<1>3. 2 \in 1..(Len(s) + 1) /\ 1 \in 1..Len(s)
  BY <1>1
<1>4. Head(s) \in ElementsOf(s)
  BY <1>2, <1>3 DEF ElementsOf
<1>5. /\ Tail(s) \in Seq(S)
      /\ Len(Tail(s)) = Len(s) - 1
      /\ \A k \in 1..Len(Tail(s)) : Tail(s)[k] = s[k + 1]
      /\ ElementsOf(Tail(s)) \subseteq ElementsOf(s)
      /\ NoRepeats(s) => NoRepeats(Tail(s))
  BY <1>1, <1>2, <1>3, SuffixFacts, HeadTailProperties
<1>6. NoRepeats(s) => Head(s) \notin ElementsOf(Tail(s))
  BY <1>1, <1>2, <1>3, <1>5 DEF ElementsOf, NoRepeats
<1>7. Tail(s) = <<>> <=> Len(s) = 1
  <2>1. Len(Tail(s)) = 0 <=> Len(s) = 1
    BY <1>1, <1>5
  <2>2. Tail(s) # <<>> => Len(Tail(s)) # 0
    BY <1>5, EmptySeq
  <2>3. Tail(s) = <<>> => Len(Tail(s)) = 0
    BY EmptySeq
  <2> QED BY <2>1, <2>2, <2>3
<1> QED BY <1>2, <1>4, <1>5, <1>6, <1>7

\* Cutting a sequence in two loses nothing ...
LEMMA CutFacts ==
  ASSUME NEW S, NEW s \in Seq(S), NEW n \in 0..Len(s)
  PROVE  ElementsOf(s) \subseteq ElementsOf(SubSeq(s, 1, n)) \cup ElementsOf(SubSeq(s, n + 1, Len(s)))
<1> DEFINE p == SubSeq(s, 1, n)
           t == SubSeq(s, n + 1, Len(s))
<1>1. Len(s) \in Nat /\ n \in Int /\ \A i \in 1..n : s[i] \in S
  BY ElementOfSeq, LenProperties
<1>2. Len(p) = n /\ \A k \in 1..n : p[k] = s[k]
  BY <1>1, SubSeqProperties
<1>3. Len(t) = Len(s) - n /\ \A k \in 1..Len(t) : t[k] = s[n + k]
  BY <1>1, SuffixFacts
<1> HIDE DEF p, t
<1>4. ASSUME NEW k \in 1..Len(s)
      PROVE  s[k] \in ElementsOf(p) \cup ElementsOf(t)
  <2>1. CASE k \in 1..n
    BY <1>2, <2>1 DEF ElementsOf
  <2>2. CASE k \notin 1..n
    <3>1. k - n \in 1..Len(t) /\ n + (k - n) = k
      BY <1>1, <1>3, <2>2
    <3>2. t[k - n] = s[k]
      BY <1>3, <3>1
    <3> QED BY <3>1, <3>2 DEF ElementsOf
  <2> QED BY <2>1, <2>2
<1> QED BY <1>4 DEF ElementsOf, p, t

\* ... and so does taking off the first element.
LEMMA HeadOrTail ==
  ASSUME NEW S, NEW s \in Seq(S), s # <<>>
  PROVE  ElementsOf(s) = {Head(s)} \cup ElementsOf(Tail(s))
<1>1. Len(s) \in Nat /\ Len(s) # 0
  BY EmptySeq, LenProperties
<1>2. Len(Tail(s)) = Len(s) - 1 /\ \A k \in 1..Len(Tail(s)) : Tail(s)[k] = s[k + 1]
  BY <1>1, TailIsSubSeq, SuffixFacts
<1>3. Head(s) = s[1]
  BY HeadTailProperties
<1>4. ASSUME NEW k \in 1..Len(s)
      PROVE  s[k] \in {Head(s)} \cup ElementsOf(Tail(s))
  <2>1. CASE k = 1
    BY <1>3, <2>1
  <2>2. CASE k # 1
    <3>1. k - 1 \in 1..Len(Tail(s)) /\ (k - 1) + 1 = k
      BY <1>1, <1>2, <2>2
    <3>2. Tail(s)[k - 1] = s[k]
      BY <1>2, <3>1
    <3> QED BY <3>1, <3>2 DEF ElementsOf
  <2> QED BY <2>1, <2>2
<1>5. ElementsOf(s) \subseteq {Head(s)} \cup ElementsOf(Tail(s))
  BY <1>4 DEF ElementsOf
<1> QED BY <1>5, TailFacts

----------------------------------------------------------------------------
\* What Enqueue does under its lock.

\* The adjustments keep the configuration well-formed and never lower MaxItemCount.
LEMMA AdjustedConfigFacts ==
  ASSUME config \in Configuration
  PROVE  AdjustedConfig \in Configuration /\ AdjustedConfig.max >= config.max
<1>1. config.max \in Nat /\ 2 * config.max \in Nat /\ 2 * config.max >= config.max
  BY DEF Configuration
<1>2. /\ config.interval \in Nat
      /\ config.errorInterval \in Nat
      /\ config.actions \subseteq ReachMaxActions
      /\ config.errorAction \in ErrorActions
      /\ config.consumeAll \in BOOLEAN
  BY DEF Configuration
<1>3. \A n \in Nat : n \div 2 \in Nat
  OBVIOUS
<1>4. AdjustedConfig.max \in Nat /\ AdjustedConfig.max >= config.max
  BY <1>1 DEF AdjustedConfig
<1>5. AdjustedConfig.interval \in Nat /\ AdjustedConfig.errorInterval \in Nat
  BY <1>2, <1>3 DEF AdjustedConfig
<1>6. AdjustedConfig.actions \subseteq ReachMaxActions
  BY DEF AdjustedConfig, ReachMaxActions
<1>7. AdjustedConfig.errorAction \in ErrorActions
  BY <1>2 DEF AdjustedConfig, ErrorActions
<1>8. AdjustedConfig = [max |-> AdjustedConfig.max, actions |-> AdjustedConfig.actions,
                        errorAction |-> AdjustedConfig.errorAction,
                        interval |-> AdjustedConfig.interval,
                        errorInterval |-> AdjustedConfig.errorInterval,
                        consumeAll |-> config.consumeAll]
  BY DEF AdjustedConfig
<1> QED BY <1>2, <1>4, <1>5, <1>6, <1>7, <1>8 DEF Configuration

\* The queue stays within MaxItemCount, holds no item twice, and gains no item but the new
\* one.
LEMMA PutFacts ==
  ASSUME queue \in Seq(Items), config \in Configuration, Len(queue) <= config.max,
         NEW i \in Items, PutUnderLock(i)
  PROVE  /\ queue' \in Seq(Items)
         /\ config' \in Configuration
         /\ Len(queue') <= config'.max
         /\ ElementsOf(queue') \subseteq ElementsOf(queue) \cup {i}
         /\ NoRepeats(queue) /\ i \notin ElementsOf(queue) => NoRepeats(queue')
<1>1. Len(queue) \in Nat /\ config.max \in Nat
  BY LenProperties DEF Configuration
<1>2. CASE Len(queue) < config.max /\ queue' = Append(queue, i) /\ UNCHANGED config
  BY <1>1, <1>2, AppendFacts
<1>3. CASE queue' = <<>> /\ UNCHANGED config
  BY <1>1, <1>3 DEF ElementsOf, NoRepeats
<1>4. CASE /\ Len(queue) >= config.max
           /\ ~AbandonThrows
           /\ queue' = IF "AbandonOldItems" \in config.actions THEN AbandonOldest(i) ELSE queue
           /\ config' = AdjustedConfig
  <2>1. config' \in Configuration /\ config'.max \in Nat /\ config'.max >= config.max
    BY <1>4, AdjustedConfigFacts DEF Configuration
  <2>2. CASE "AbandonOldItems" \in config.actions
    <3> DEFINE kept == SubSeq(queue, Len(queue) - config.max + 2, Len(queue))
    <3>1. config.max # 0
      BY <1>4, <2>2 DEF AbandonThrows
    <3>2. Len(queue) - config.max + 2 \in 1..(Len(queue) + 1)
      BY <3>1, <1>1, <1>4
    <3>3. /\ kept \in Seq(Items)
          /\ Len(kept) = config.max - 1
          /\ ElementsOf(kept) \subseteq ElementsOf(queue)
          /\ NoRepeats(queue) => NoRepeats(kept)
      BY <3>2, <1>1, SuffixFacts
    <3>4. queue' = Append(kept, i)
      BY <1>4, <2>2 DEF AbandonOldest
    <3> HIDE DEF kept
    <3>5. /\ queue' \in Seq(Items)
          /\ Len(queue') = config.max
          /\ ElementsOf(queue') = ElementsOf(kept) \cup {i}
          /\ NoRepeats(kept) /\ i \notin ElementsOf(kept) => NoRepeats(queue')
      BY <1>1, <3>3, <3>4, AppendFacts
    <3> QED BY <1>1, <2>1, <3>3, <3>5
  <2>3. CASE "AbandonOldItems" \notin config.actions
    BY <1>1, <1>4, <2>1, <2>3
  <2> QED BY <2>2, <2>3
<1> QED BY <1>2, <1>3, <1>4 DEF PutUnderLock

----------------------------------------------------------------------------
\* The invariant.  BoundedQueue gives the queue its type (AbandonOldest cuts it at a place
\* computed from MaxItemCount); errorItemRetryItem's lock keeps retry counts in theirs: one
\* thread at a time holds it across Enqueue, and its item's count is still below the limit.

RetryLockHeld ==
  \A c \in Consumers : pc[c] = "requeue" =>
    /\ retryCount[HashOf[Head(items[c])]] < RetryLimit
    /\ \A d \in Consumers : pc[d] = "requeue" => d = c

QueueInv == TypeOK /\ BoundedQueue /\ RetryLockHeld

\* Every step keeps every variable in its type and the queue within MaxItemCount.
LEMMA TypeStep ==
  ASSUME TypeOK, BoundedQueue, RetryLockHeld, [Next]_vars
  PROVE  TypeOK' /\ BoundedQueue'
<1> USE ConstantsAssumption DEF BoundedQueue, TypeOK
<1>1. CASE FrameworkStart
  BY <1>1 DEF FrameworkStart, threads, totals, history
<1>2. CASE FrameworkEnd
  BY <1>2 DEF FrameworkEnd, threads, totals, history
<1>3. CASE Dispose
  BY <1>3 DEF Dispose, threads, totals, history
<1>4. ASSUME NEW i \in Items, EnqueueChecksStatus(i)
      PROVE  TypeOK' /\ BoundedQueue'
  BY <1>4 DEF EnqueueChecksStatus, threads, totals
<1>5. ASSUME NEW i \in Items, EnqueuePuts(i)
      PROVE  TypeOK' /\ BoundedQueue'
  <2>1. queue' \in Seq(Items) /\ config' \in Configuration /\ Len(queue') <= config'.max
    BY <1>5, PutFacts DEF EnqueuePuts
  <2> QED BY <1>5, <2>1 DEF EnqueuePuts, threads, totals, history
<1>6. ASSUME NEW c \in Consumers, BeginRound(c)
      PROVE  TypeOK' /\ BoundedQueue'
  BY <1>6 DEF BeginRound, service, totals, history
<1>7. ASSUME NEW c \in Consumers, Take(c)
      PROVE  TypeOK' /\ BoundedQueue'
  <2> DEFINE n == TakeCount
             p == SubSeq(queue, 1, n)
             t == SubSeq(queue, n + 1, Len(queue))
  <2>1. Len(queue) \in Nat /\ config.max \in Nat /\ config.consumeAll \in BOOLEAN
    BY LenProperties DEF Configuration
  <2>2. n \in 0..Len(queue)
    BY <2>1 DEF TakeCount
  <2>3. p \in Seq(Items) /\ Len(p) = n
    BY <2>2, PrefixFacts
  <2>4. t \in Seq(Items) /\ Len(t) = Len(queue) - n
    BY <2>1, <2>2, SuffixFacts
  <2>5. /\ pc[c] = "take"
        /\ items' = [items EXCEPT ![c] = p]
        /\ queue' = t
        /\ pc' = [pc EXCEPT ![c] = IF n > 0 THEN "consume" ELSE "idle"]
        /\ UNCHANGED <<status, enabled, config, entering, retryCount, totals, history>>
    BY <1>7 DEF Take, QueueAfterTake
  <2> HIDE DEF n, p, t
  <2>6. Len(queue') <= config'.max
    BY <2>1, <2>2, <2>4, <2>5
  <2>7. p = <<>> <=> n = 0
    BY <2>2, <2>3, EmptySeq
  <2>8. \A d \in Consumers : items'[d] = <<>> <=> pc'[d] \in {"idle", "take", "stopped"}
    BY <2>2, <2>5, <2>7
  <2> QED BY <2>3, <2>4, <2>5, <2>6, <2>8 DEF totals, history
<1>8. ASSUME NEW c \in Consumers, ConsumeSucceeds(c)
      PROVE  TypeOK' /\ BoundedQueue'
  <2>1. Len(items[c]) \in Nat
    BY LenProperties
  <2>2. ElementsOf(items[c]) \subseteq Items
    BY ElementOfSeq DEF ElementsOf
  <2> QED BY <1>8, <2>1, <2>2 DEF ConsumeSucceeds, CountDelivery, service
<1>9. ASSUME NEW c \in Consumers, ConsumeFails(c)
      PROVE  TypeOK' /\ BoundedQueue'
  <2>1. Len(items[c]) \in Nat
    BY LenProperties
  <2> QED BY <1>9, <2>1 DEF ConsumeFails, CountDelivery, service
<1>10. ASSUME NEW c \in Consumers, HandleError(c)
       PROVE  TypeOK' /\ BoundedQueue'
  <2>1. CASE pc' = [pc EXCEPT ![c] = "retry"] /\ UNCHANGED items
    BY <1>10, <2>1 DEF HandleError, service, totals, history
  <2>2. CASE pc' = [pc EXCEPT ![c] = "idle"] /\ items' = [items EXCEPT ![c] = <<>>]
    BY <1>10, <2>2 DEF HandleError, service, totals, history
  <2> QED BY <1>10, <2>1, <2>2 DEF HandleError
<1>11. ASSUME NEW c \in Consumers, items[c] # <<>>, NextItem(c)
       PROVE  /\ items' \in [Consumers -> Seq(Items)]
              /\ pc' \in [Consumers -> {"idle", "take", "consume", "failed", "retry",
                                        "requeue", "stopped"}]
              /\ \A d \in Consumers : items'[d] = <<>> <=> pc'[d] \in {"idle", "take", "stopped"}
  <2>1. Tail(items[c]) \in Seq(Items) /\ (Tail(items[c]) = <<>> <=> Len(items[c]) = 1)
    BY <1>11, TailFacts
  <2> QED BY <1>11, <2>1 DEF NextItem
<1>12. ASSUME NEW c \in Consumers, pc[c] \in {"retry", "requeue"}
       PROVE  items[c] # <<>> /\ Head(items[c]) \in Items /\ HashOf[Head(items[c])] \in Hashes
  BY <1>12, TailFacts
<1>13. ASSUME NEW h \in Hashes, retryCount[h] < RetryLimit
       PROVE  RetryCounted(h) \in [Hashes -> 0..RetryLimit]
  <2>1. retryCount[h] \in 0..2 /\ retryCount[h] < 2
    BY <1>13 DEF RetryLimit
  <2>2. retryCount[h] + 1 \in 0..2
    BY <2>1
  <2> QED BY <2>2 DEF RetryCounted, RetryLimit
<1>14. ASSUME NEW c \in Consumers, RetryItem(c)
       PROVE  TypeOK' /\ BoundedQueue'
  <2> DEFINE h == HashOf[Head(items[c])]
  <2>1. items[c] # <<>> /\ h \in Hashes
    BY <1>12, <1>14 DEF RetryItem
  <2>2. CASE retryCount' = [retryCount EXCEPT ![h] = 0] /\ NextItem(c)
    BY <1>11, <1>14, <2>1, <2>2 DEF RetryItem, service, totals, history, RetryLimit
  <2>3. CASE /\ retryCount[h] < RetryLimit
             /\ retryCount' = RetryCounted(h)
             /\ NextItem(c)
    <3>1. retryCount' \in [Hashes -> 0..RetryLimit]
      BY <1>13, <2>1, <2>3
    <3> QED BY <1>11, <1>14, <2>1, <2>3, <3>1 DEF RetryItem, service, totals, history
  <2>4. CASE pc' = [pc EXCEPT ![c] = "requeue"] /\ UNCHANGED <<items, retryCount>>
    BY <1>14, <2>1, <2>4 DEF RetryItem, service, totals, history
  <2> QED BY <1>14, <2>2, <2>3, <2>4 DEF RetryItem
<1>15. ASSUME NEW c \in Consumers, Requeue(c)
       PROVE  TypeOK' /\ BoundedQueue'
  <2> DEFINE i == Head(items[c])
  <2>1. items[c] # <<>> /\ i \in Items /\ HashOf[i] \in Hashes
    BY <1>12, <1>15 DEF Requeue
  <2>2. queue' \in Seq(Items) /\ config' \in Configuration /\ Len(queue') <= config'.max
    BY <1>15, <2>1, PutFacts DEF Requeue
  <2>3. retryCount' \in [Hashes -> 0..RetryLimit]
    BY <1>15, <1>13, <2>1 DEF Requeue, RetryLockHeld
  <2> QED BY <1>11, <1>15, <2>1, <2>2, <2>3 DEF Requeue, totals, history
<1>16. CASE UNCHANGED vars
  BY <1>16 DEF vars, service, threads, totals, history
<1> QED BY <1>1, <1>2, <1>3, <1>4, <1>5, <1>6, <1>7, <1>8, <1>9, <1>10, <1>14, <1>15, <1>16
        DEF Next, Consume

\* Every step keeps the lock of the retry dictionary with the one thread that waits in
\* Enqueue, and that thread's item below the retry limit.
LEMMA LockStep ==
  ASSUME TypeOK, RetryLockHeld, [Next]_vars
  PROVE  RetryLockHeld'
<1>1. ASSUME NEW c \in Consumers, RetryItem(c)
      PROVE  RetryLockHeld'
  <2> DEFINE h == HashOf[Head(items[c])]
  <2>1. \A d \in Consumers : pc[d] # "requeue"
    BY <1>1 DEF RetryItem, RetryLockFree
  <2>2. CASE NextItem(c)
    BY <2>1, <2>2 DEF NextItem, RetryLockHeld, TypeOK
  <2>3. CASE /\ retryCount[h] < RetryLimit
             /\ pc' = [pc EXCEPT ![c] = "requeue"]
             /\ UNCHANGED <<items, retryCount>>
    BY <2>1, <2>3 DEF RetryLockHeld, TypeOK
  <2> QED BY <1>1, <2>2, <2>3 DEF RetryItem
<1>2. ASSUME NEW c \in Consumers, Requeue(c)
      PROVE  RetryLockHeld'
  <2>1. \A d \in Consumers : d # c => pc[d] # "requeue"
    BY <1>2 DEF Requeue, RetryLockHeld
  <2>2. pc' = [pc EXCEPT ![c] = IF Len(items[c]) = 1 THEN "idle" ELSE "retry"]
    BY <1>2 DEF Requeue, NextItem
  <2>3. \A d \in Consumers : pc'[d] # "requeue"
    BY <2>1, <2>2 DEF TypeOK
  <2> QED BY <2>3 DEF RetryLockHeld
<1>3. ASSUME NEW c \in Consumers, UNCHANGED retryCount,
             \A d \in Consumers \ {c} : pc'[d] = pc[d] /\ items'[d] = items[d],
             pc'[c] # "requeue"
      PROVE  RetryLockHeld'
  BY <1>3 DEF RetryLockHeld
<1>4. ASSUME NEW c \in Consumers,
             BeginRound(c) \/ Take(c) \/ ConsumeSucceeds(c) \/ ConsumeFails(c) \/ HandleError(c)
      PROVE  RetryLockHeld'
  <2>1. UNCHANGED retryCount
    BY <1>4 DEF BeginRound, Take, ConsumeSucceeds, ConsumeFails, HandleError
  <2>2. \A d \in Consumers \ {c} : pc'[d] = pc[d] /\ items'[d] = items[d]
    BY <1>4 DEF BeginRound, Take, ConsumeSucceeds, ConsumeFails, HandleError, TypeOK
  <2>3. pc'[c] # "requeue"
    BY <1>4 DEF BeginRound, Take, ConsumeSucceeds, ConsumeFails, HandleError, TypeOK
  <2> QED BY <1>3, <2>1, <2>2, <2>3
<1>5. ASSUME UNCHANGED threads
      PROVE  RetryLockHeld'
  BY <1>5 DEF threads, RetryLockHeld
<1>6. FrameworkStart \/ FrameworkEnd \/ Dispose \/ UNCHANGED vars => UNCHANGED threads
  BY DEF FrameworkStart, FrameworkEnd, Dispose, vars
<1>7. \A i \in Items : EnqueueChecksStatus(i) \/ EnqueuePuts(i) => UNCHANGED threads
  BY DEF EnqueueChecksStatus, EnqueuePuts
<1> QED BY <1>1, <1>2, <1>4, <1>5, <1>6, <1>7 DEF Next, Consume

\* The invariant holds initially.
LEMMA QueueInit == Init => QueueInv
<1> SUFFICES ASSUME Init PROVE QueueInv
  OBVIOUS
<1>1. config \in Configuration /\ config.max \in Nat
  BY ConstantsAssumption DEF Init, Configuration
<1>2. TypeOK
  BY <1>1 DEF Init, TypeOK, RetryLimit
<1>3. BoundedQueue
  BY <1>1 DEF Init, BoundedQueue
<1>4. RetryLockHeld
  BY DEF Init, RetryLockHeld
<1> QED BY <1>2, <1>3, <1>4 DEF QueueInv

\* QueueInv is an invariant of the specification.
LEMMA QueueInvariant == Spec => []QueueInv
<1>1. QueueInv /\ [Next]_vars => QueueInv'
  BY TypeStep, LockStep DEF QueueInv
<1> QED BY <1>1, QueueInit, PTL DEF Spec

\* Type correctness.
THEOREM TypeCorrect == Spec => []TypeOK
<1>1. QueueInv => TypeOK
  BY DEF QueueInv
<1> QED BY <1>1, QueueInvariant, PTL

\* The queue never holds more than MaxItemCount items, whatever producers, retries and
\* adjustments of MaxItemCount do.
THEOREM QueueIsBounded == Spec => []BoundedQueue
<1>1. QueueInv => BoundedQueue
  BY DEF QueueInv
<1> QED BY <1>1, QueueInvariant, PTL

----------------------------------------------------------------------------
\* No item is in two places.

\* What it takes to keep ItemInOnePlace when a step changes the content of the places: the
\* new contents repeat nothing, share nothing, and hold only offered items not consumed.
LEMMA OnePlaceIntro ==
  ASSUME NoRepeats(queue)', \A c \in Consumers : NoRepeats(items[c])',
         entering' \cap ElementsOf(queue)' = {},
         \A c \in Consumers : Held(c)' \cap (entering' \cup ElementsOf(queue)') = {},
         \A c, d \in Consumers : c # d => Held(c)' \cap Held(d)' = {},
         consumed' \cap (entering' \cup ElementsOf(queue)') = {},
         \A c \in Consumers : consumed' \cap Held(c)' = {},
         consumed' \cup entering' \cup ElementsOf(queue)' \subseteq offered',
         \A c \in Consumers : Held(c)' \subseteq offered'
  PROVE  ItemInOnePlace'
BY DEF ItemInOnePlace, Live

\* The same facts, taken apart.
LEMMA OnePlaceElim ==
  ASSUME ItemInOnePlace
  PROVE  /\ NoRepeats(queue) /\ \A c \in Consumers : NoRepeats(items[c])
         /\ entering \cap ElementsOf(queue) = {}
         /\ \A c \in Consumers : Held(c) \cap (entering \cup ElementsOf(queue)) = {}
         /\ \A c, d \in Consumers : c # d => Held(c) \cap Held(d) = {}
         /\ consumed \cap (entering \cup ElementsOf(queue)) = {}
         /\ \A c \in Consumers : consumed \cap Held(c) = {}
         /\ consumed \cup entering \cup ElementsOf(queue) \subseteq offered
         /\ \A c \in Consumers : Held(c) \subseteq offered
BY DEF ItemInOnePlace, Live

\* A step that changes the queue, the waiting producers or a batch by dropping items from
\* them, or by moving items of consumer c into consumed, keeps every item in one place.
LEMMA OnePlaceShrinks ==
  ASSUME ItemInOnePlace, NEW c \in Consumers, UNCHANGED <<queue, entering, offered>>,
         \A d \in Consumers \ {c} : items'[d] = items[d],
         NoRepeats(items'[c]), ElementsOf(items'[c]) \subseteq Held(c),
         consumed' \subseteq consumed \cup (Held(c) \ ElementsOf(items'[c])),
         UNCHANGED consumed \/ consumed' \subseteq offered
  PROVE  ItemInOnePlace'
<1>1. \A d \in Consumers : Held(d)' = ElementsOf(items'[d])
  BY DEF Held
<1>2. \A d \in Consumers \ {c} : Held(d)' = Held(d)
  BY DEF Held
<1>3. Held(c)' \subseteq Held(c)
  BY <1>1
<1>4. consumed' \subseteq consumed \cup Held(c) /\ consumed' \cap Held(c)' = {}
  BY <1>1, OnePlaceElim
<1>5. \A d \in Consumers : NoRepeats(items[d])'
  BY OnePlaceElim
<1>6. NoRepeats(queue)' /\ ElementsOf(queue)' = ElementsOf(queue)
  BY OnePlaceElim
<1> QED BY <1>2, <1>3, <1>4, <1>5, <1>6, OnePlaceElim, OnePlaceIntro

\* Every step keeps every item in one place.
LEMMA OnePlaceStep ==
  ASSUME QueueInv, ItemInOnePlace, [Next]_vars
  PROVE  ItemInOnePlace'
<1> USE ConstantsAssumption
<1>0. ASSUME UNCHANGED <<queue, entering, items, offered, consumed>>
      PROVE  ItemInOnePlace'
  BY <1>0 DEF ItemInOnePlace, Live, Held
<1>1. \/ FrameworkStart \/ FrameworkEnd \/ Dispose \/ UNCHANGED vars
      \/ \E c \in Consumers : BeginRound(c) \/ ConsumeFails(c)
      => UNCHANGED <<queue, entering, items, offered, consumed>>
  BY DEF FrameworkStart, FrameworkEnd, Dispose, BeginRound, ConsumeFails, vars, service,
         threads, history
<1>2. ASSUME NEW i \in Items, EnqueueChecksStatus(i)
      PROVE  ItemInOnePlace'
  <2>1. /\ i \notin offered
        /\ offered' = offered \cup {i}
        /\ entering' \subseteq entering \cup {i}
        /\ UNCHANGED <<queue, items, consumed>>
    BY <1>2 DEF EnqueueChecksStatus, threads
  <2>2. \A c \in Consumers : Held(c)' = Held(c)
    BY <2>1 DEF Held
  <2>3. NoRepeats(queue)' /\ ElementsOf(queue)' = ElementsOf(queue)
    BY <2>1, OnePlaceElim
  <2>4. \A c \in Consumers : NoRepeats(items[c])'
    BY <2>1, OnePlaceElim
  <2> QED BY <2>1, <2>2, <2>3, <2>4, OnePlaceElim, OnePlaceIntro
<1>3. ASSUME NEW i \in Items, EnqueuePuts(i)
      PROVE  ItemInOnePlace'
  <2>1. /\ i \in entering
        /\ entering' = entering \ {i}
        /\ PutUnderLock(i)
        /\ UNCHANGED <<items, offered, consumed>>
    BY <1>3 DEF EnqueuePuts, threads, history
  <2>2. i \notin ElementsOf(queue) /\ NoRepeats(queue)
    BY <2>1, OnePlaceElim
  <2>3. ElementsOf(queue') \subseteq ElementsOf(queue) \cup {i} /\ NoRepeats(queue')
    BY <2>1, <2>2, PutFacts DEF QueueInv, TypeOK, BoundedQueue
  <2>4. \A c \in Consumers : Held(c)' = Held(c)
    BY <2>1 DEF Held
  <2>5. \A c \in Consumers : NoRepeats(items[c])'
    BY <2>1, OnePlaceElim
  <2> QED BY <2>1, <2>3, <2>4, <2>5, OnePlaceElim, OnePlaceIntro
<1>4. ASSUME NEW c \in Consumers, Take(c)
      PROVE  ItemInOnePlace'
  <2> DEFINE p == SubSeq(queue, 1, TakeCount)
             t == SubSeq(queue, TakeCount + 1, Len(queue))
  <2>1. items[c] = <<>> /\ items' = [items EXCEPT ![c] = p] /\ queue' = t
        /\ UNCHANGED <<entering, offered, consumed>>
    BY <1>4 DEF Take, QueueAfterTake, QueueInv, TypeOK, history
  <2>2. TakeCount \in 0..Len(queue) /\ TakeCount + 1 \in 1..(Len(queue) + 1)
    BY LenProperties DEF TakeCount, QueueInv, TypeOK
  <2>3. /\ NoRepeats(p) /\ NoRepeats(t)
        /\ ElementsOf(p) \subseteq ElementsOf(queue)
        /\ ElementsOf(t) \subseteq ElementsOf(queue)
        /\ ElementsOf(p) \cap ElementsOf(t) = {}
    BY <2>2, OnePlaceElim, PrefixFacts, SuffixFacts DEF QueueInv, TypeOK
  <2> HIDE DEF p, t
  <2>4. items'[c] = p /\ \A d \in Consumers \ {c} : items'[d] = items[d]
    BY <2>1 DEF QueueInv, TypeOK
  <2>5. Held(c)' = ElementsOf(p) /\ \A d \in Consumers \ {c} : Held(d)' = Held(d)
    BY <2>4 DEF Held
  <2>6. \A d \in Consumers : NoRepeats(items[d])'
    BY <2>3, <2>4, OnePlaceElim
  <2>7. NoRepeats(queue)' /\ ElementsOf(queue)' = ElementsOf(t)
    BY <2>1, <2>3
  <2> QED BY <2>1, <2>3, <2>5, <2>6, <2>7, OnePlaceElim, OnePlaceIntro
<1>5. ASSUME NEW c \in Consumers, UNCHANGED <<queue, entering, offered, consumed>>,
             items' = [items EXCEPT ![c] = <<>>] \/ UNCHANGED items
      PROVE  ItemInOnePlace'
  <2>1. ElementsOf(<<>>) = {} /\ NoRepeats(<<>>)
    BY DEF ElementsOf, NoRepeats
  <2>2. CASE items' = [items EXCEPT ![c] = <<>>]
    BY <1>5, <2>1, <2>2, OnePlaceShrinks DEF QueueInv, TypeOK
  <2> QED BY <1>0, <1>5, <2>2
<1>6. ASSUME NEW c \in Consumers, ConsumeSucceeds(c)
      PROVE  ItemInOnePlace'
  <2>1. ElementsOf(<<>>) = {} /\ NoRepeats(<<>>)
    BY DEF ElementsOf, NoRepeats
  <2>2. /\ items'[c] = <<>>
        /\ \A d \in Consumers \ {c} : items'[d] = items[d]
        /\ consumed' = consumed \cup Held(c)
        /\ UNCHANGED <<queue, entering, offered>>
    BY <1>6 DEF ConsumeSucceeds, QueueInv, TypeOK, service, Held
  <2>3. consumed' \subseteq offered
    BY <2>2, OnePlaceElim
  <2> QED BY <2>1, <2>2, <2>3, OnePlaceShrinks
<1>7. ASSUME NEW c \in Consumers, HandleError(c)
      PROVE  ItemInOnePlace'
  BY <1>5, <1>7 DEF HandleError, service, history
<1>8. ASSUME NEW c \in Consumers, NextItem(c), pc[c] \in {"retry", "requeue"}
      PROVE  /\ items'[c] = Tail(items[c])
             /\ \A d \in Consumers \ {c} : items'[d] = items[d]
             /\ NoRepeats(items'[c])
             /\ Head(items[c]) \in Items \cap Held(c)
             /\ ElementsOf(items'[c]) \subseteq Held(c) \ {Head(items[c])}
  <2>1. items[c] \in Seq(Items) /\ items[c] # <<>> /\ NoRepeats(items[c])
    BY <1>8, OnePlaceElim DEF QueueInv, TypeOK
  <2>2. items' = [items EXCEPT ![c] = Tail(items[c])]
    BY <1>8 DEF NextItem
  <2> QED BY <2>1, <2>2, TailFacts DEF QueueInv, TypeOK, Held
<1>9. ASSUME NEW c \in Consumers, RetryItem(c)
      PROVE  ItemInOnePlace'
  <2>1. UNCHANGED <<queue, entering, offered, consumed>>
    BY <1>9 DEF RetryItem, service, history
  <2>2. CASE NextItem(c)
    BY <1>8, <1>9, <2>1, <2>2, OnePlaceShrinks DEF RetryItem
  <2>3. CASE UNCHANGED items
    BY <1>0, <2>1, <2>3
  <2> QED BY <1>9, <2>2, <2>3 DEF RetryItem
<1>10. ASSUME NEW c \in Consumers, Requeue(c)
       PROVE  ItemInOnePlace'
  <2> DEFINE i == Head(items[c])
  <2>1. PutUnderLock(i) /\ NextItem(c) /\ pc[c] = "requeue"
        /\ UNCHANGED <<entering, offered, consumed>>
    BY <1>10 DEF Requeue, history
  <2>2. /\ \A d \in Consumers \ {c} : items'[d] = items[d]
        /\ NoRepeats(items'[c])
        /\ i \in Items \cap Held(c)
        /\ ElementsOf(items'[c]) \subseteq Held(c) \ {i}
    BY <1>8, <2>1
  <2> HIDE DEF i
  <2>3. i \notin ElementsOf(queue) /\ NoRepeats(queue)
    BY <2>2, OnePlaceElim
  <2>4. ElementsOf(queue') \subseteq ElementsOf(queue) \cup {i} /\ NoRepeats(queue')
    BY <2>1, <2>2, <2>3, PutFacts DEF QueueInv, TypeOK, BoundedQueue
  <2>5. Held(c)' \subseteq Held(c) \ {i} /\ \A d \in Consumers \ {c} : Held(d)' = Held(d)
    BY <2>2 DEF Held
  <2>6. \A d \in Consumers : NoRepeats(items[d])'
    BY <2>2, OnePlaceElim
  <2> QED BY <2>1, <2>2, <2>4, <2>5, <2>6, OnePlaceElim, OnePlaceIntro
<1> QED BY <1>0, <1>1, <1>2, <1>3, <1>4, <1>6, <1>7, <1>9, <1>10 DEF Next, Consume

\* No item is ever in two places, and none is handed out again once it was consumed.
THEOREM ItemsStayInOnePlace == Spec => []ItemInOnePlace
<1>1. Init => ItemInOnePlace
  BY DEF Init, ItemInOnePlace, Live, Held, ElementsOf, NoRepeats
<1>2. QueueInv /\ ItemInOnePlace /\ [Next]_vars => ItemInOnePlace'
  BY OnePlaceStep
<1> QED BY <1>1, <1>2, QueueInvariant, PTL DEF Spec

----------------------------------------------------------------------------
\* At most three deliveries.

\* An item's retry count says how often it was delivered: as often as the count while it
\* waits for its next delivery, once more while the failure of one is being handled.
AttemptsMatch(i) ==
  LET n == retryCount[HashOf[i]]
  IN /\ delivered[i] <= 3
     /\ i \notin offered \/ i \in entering => delivered[i] = 0 /\ n = 0
     /\ i \in ElementsOf(queue) => delivered[i] = n
     /\ \A c \in Consumers : i \in Held(c) =>
          delivered[i] = IF pc[c] = "consume" THEN n ELSE n + 1

AttemptsInv == \A i \in Items : AttemptsMatch(i)

\* A step that changes neither the item's counts nor brings it to a new place.
LEMMA AttemptsFrame ==
  ASSUME NEW i \in Items, AttemptsMatch(i),
         retryCount'[HashOf[i]] = retryCount[HashOf[i]], delivered'[i] = delivered[i],
         i \notin offered' \/ i \in entering' => i \notin offered \/ i \in entering,
         i \in ElementsOf(queue') => i \in ElementsOf(queue),
         \A c \in Consumers : i \in ElementsOf(items'[c]) =>
           i \in Held(c) /\ (pc'[c] = "consume" <=> pc[c] = "consume")
  PROVE  AttemptsMatch(i)'
BY DEF AttemptsMatch, Held

\* Every step keeps the counts in agreement.
LEMMA AttemptsStep ==
  ASSUME NoCollisions, QueueInv, ItemInOnePlace, AttemptsInv, [Next]_vars, NEW i \in Items
  PROVE  AttemptsMatch(i)'
<1> USE ConstantsAssumption
<1>0. AttemptsMatch(i) /\ HashOf[i] \in Hashes /\ retryCount[HashOf[i]] \in 0..2
      /\ delivered[i] \in Nat
  BY DEF AttemptsInv, QueueInv, TypeOK, RetryLimit
<1>1. CASE FrameworkStart \/ FrameworkEnd \/ Dispose \/ UNCHANGED vars
  <2>1. UNCHANGED <<queue, entering, threads, history>>
    BY <1>1 DEF FrameworkStart, FrameworkEnd, Dispose, vars, service
  <2> QED BY <1>0, <2>1, AttemptsFrame DEF threads, history, Held
<1>2. ASSUME NEW j \in Items, EnqueueChecksStatus(j)
      PROVE  AttemptsMatch(i)'
  <2>1. /\ offered' = offered \cup {j}
        /\ j \notin offered
        /\ entering' \subseteq entering \cup {j}
        /\ UNCHANGED <<queue, items, pc, retryCount, delivered>>
    BY <1>2 DEF EnqueueChecksStatus, threads
  <2> QED BY <1>0, <2>1, AttemptsFrame DEF Held
<1>3. ASSUME NEW j \in Items, PutUnderLock(j), j \notin ElementsOf(queue)
      PROVE  ElementsOf(queue') \subseteq ElementsOf(queue) \cup {j}
  BY <1>3, PutFacts DEF QueueInv, TypeOK, BoundedQueue
<1>4. ASSUME NEW j \in Items, EnqueuePuts(j)
      PROVE  AttemptsMatch(i)'
  <2>1. /\ j \in entering
        /\ entering' = entering \ {j}
        /\ UNCHANGED <<items, pc, retryCount, delivered, offered>>
    BY <1>4 DEF EnqueuePuts, threads, history
  <2>2. entering \cap ElementsOf(queue) = {} /\ entering \subseteq offered
        /\ \A c \in Consumers : Held(c) \cap entering = {}
    BY OnePlaceElim
  <2>3. ElementsOf(queue') \subseteq ElementsOf(queue) \cup {j}
    BY <1>3, <1>4, <2>1, <2>2 DEF EnqueuePuts
  <2>4. CASE i = j
    BY <1>0, <2>1, <2>2, <2>3, <2>4 DEF AttemptsMatch, Held
  <2>5. CASE i # j
    BY <1>0, <2>1, <2>3, <2>5, AttemptsFrame DEF Held
  <2> QED BY <2>4, <2>5
<1>5. ASSUME NEW c \in Consumers, BeginRound(c)
      PROVE  AttemptsMatch(i)'
  <2>1. /\ items[c] = <<>>
        /\ \A d \in Consumers \ {c} : pc'[d] = pc[d]
        /\ UNCHANGED <<queue, entering, items, retryCount, delivered, offered>>
    BY <1>5 DEF BeginRound, QueueInv, TypeOK, service, history
  <2>2. ElementsOf(<<>>) = {}
    BY DEF ElementsOf
  <2> QED BY <1>0, <2>1, <2>2, AttemptsFrame DEF Held
<1>6. ASSUME NEW c \in Consumers, Take(c)
      PROVE  AttemptsMatch(i)'
  <2> DEFINE p == SubSeq(queue, 1, TakeCount)
             t == SubSeq(queue, TakeCount + 1, Len(queue))
  <2>1. /\ items' = [items EXCEPT ![c] = p]
        /\ queue' = t
        /\ pc' = [pc EXCEPT ![c] = IF TakeCount > 0 THEN "consume" ELSE "idle"]
        /\ UNCHANGED <<entering, retryCount, delivered, offered>>
    BY <1>6 DEF Take, QueueAfterTake, history
  <2>2. TakeCount \in 0..Len(queue) /\ TakeCount + 1 \in 1..(Len(queue) + 1)
    BY LenProperties DEF TakeCount, QueueInv, TypeOK
  <2>3. /\ ElementsOf(p) \subseteq ElementsOf(queue)
        /\ ElementsOf(t) \subseteq ElementsOf(queue)
        /\ Len(p) = TakeCount
    BY <2>2, PrefixFacts, SuffixFacts DEF QueueInv, TypeOK
  <2> HIDE DEF p, t
  <2>4. items'[c] = p /\ \A d \in Consumers \ {c} : items'[d] = items[d] /\ pc'[d] = pc[d]
    BY <2>1 DEF QueueInv, TypeOK
  <2>5. i \in ElementsOf(p) => pc'[c] = "consume"
    BY <2>1, <2>2, <2>3 DEF ElementsOf, QueueInv, TypeOK
  <2> QED BY <1>0, <2>1, <2>3, <2>4, <2>5 DEF AttemptsMatch, Held
<1>7. ASSUME NEW c \in Consumers, ConsumeSucceeds(c)
      PROVE  AttemptsMatch(i)'
  <2>1. /\ pc[c] = "consume" /\ pc'[c] = "idle" /\ items'[c] = <<>>
        /\ \A d \in Consumers \ {c} : items'[d] = items[d] /\ pc'[d] = pc[d]
        /\ delivered'[i] = IF i \in Held(c) THEN delivered[i] + 1 ELSE delivered[i]
        /\ UNCHANGED <<queue, entering, retryCount, offered>>
    BY <1>7 DEF ConsumeSucceeds, CountDelivery, Held, QueueInv, TypeOK, service
  <2>2. ElementsOf(<<>>) = {}
    BY DEF ElementsOf
  <2>3. CASE i \in Held(c)
    <3>1. /\ i \notin entering \cup ElementsOf(queue) /\ i \in offered
          /\ \A d \in Consumers \ {c} : i \notin Held(d)
      BY <2>3, OnePlaceElim
    <3> QED BY <1>0, <2>1, <2>2, <2>3, <3>1 DEF AttemptsMatch, Held
  <2>4. CASE i \notin Held(c)
    BY <1>0, <2>1, <2>2, <2>4, AttemptsFrame DEF Held
  <2> QED BY <2>3, <2>4
<1>8. ASSUME NEW c \in Consumers, ConsumeFails(c)
      PROVE  AttemptsMatch(i)'
  <2>1. /\ pc[c] = "consume" /\ pc'[c] = "failed"
        /\ \A d \in Consumers \ {c} : pc'[d] = pc[d]
        /\ delivered'[i] = IF i \in Held(c) THEN delivered[i] + 1 ELSE delivered[i]
        /\ UNCHANGED <<queue, entering, items, retryCount, offered>>
    BY <1>8 DEF ConsumeFails, CountDelivery, Held, QueueInv, TypeOK, service
  <2>2. CASE i \in Held(c)
    <3>1. /\ i \notin entering \cup ElementsOf(queue) /\ i \in offered
          /\ \A d \in Consumers \ {c} : i \notin Held(d)
      BY <2>2, OnePlaceElim
    <3> QED BY <1>0, <2>1, <2>2, <3>1 DEF AttemptsMatch, Held
  <2>3. CASE i \notin Held(c)
    BY <1>0, <2>1, <2>3, AttemptsFrame DEF Held
  <2> QED BY <2>2, <2>3
<1>9. ASSUME NEW c \in Consumers, HandleError(c)
      PROVE  AttemptsMatch(i)'
  <2>1. /\ pc[c] = "failed" /\ pc'[c] # "consume"
        /\ \A d \in Consumers \ {c} : items'[d] = items[d] /\ pc'[d] = pc[d]
        /\ items'[c] = items[c] \/ items'[c] = <<>>
        /\ UNCHANGED <<queue, entering, retryCount, delivered, offered>>
    BY <1>9 DEF HandleError, QueueInv, TypeOK, service, history
  <2>2. ElementsOf(<<>>) = {}
    BY DEF ElementsOf
  <2> QED BY <1>0, <2>1, <2>2, AttemptsFrame DEF Held
<1>10. ASSUME NEW c \in Consumers, NextItem(c), pc[c] \in {"retry", "requeue"}
       PROVE  /\ \A d \in Consumers \ {c} : items'[d] = items[d] /\ pc'[d] = pc[d]
              /\ pc'[c] # "consume"
              /\ Head(items[c]) \in Items \cap Held(c)
              /\ ElementsOf(items'[c]) \subseteq Held(c) \ {Head(items[c])}
  <2>1. items[c] \in Seq(Items) /\ items[c] # <<>> /\ NoRepeats(items[c])
    BY <1>10, OnePlaceElim DEF QueueInv, TypeOK
  <2> QED BY <1>10, <2>1, TailFacts DEF NextItem, QueueInv, TypeOK, Held
<1>11. ASSUME NEW c \in Consumers, RetryItem(c)
       PROVE  AttemptsMatch(i)'
  <2> DEFINE j == Head(items[c])
  <2>1. pc[c] = "retry" /\ UNCHANGED <<queue, entering, offered, delivered>>
    BY <1>11 DEF RetryItem, service, history
  <2>2. CASE NextItem(c) /\ \E n \in 0..3 : retryCount' = [retryCount EXCEPT ![HashOf[j]] = n]
    <3>1. /\ \A d \in Consumers \ {c} : items'[d] = items[d] /\ pc'[d] = pc[d]
          /\ pc'[c] # "consume"
          /\ j \in Items \cap Held(c)
          /\ ElementsOf(items'[c]) \subseteq Held(c) \ {j}
      BY <1>10, <2>1, <2>2
    <3>2. CASE i = j
      <4>1. /\ i \notin entering \cup ElementsOf(queue) /\ i \in offered
            /\ \A d \in Consumers \ {c} : i \notin Held(d)
        BY <3>1, <3>2, OnePlaceElim
      <4> HIDE DEF j
      <4> QED BY <1>0, <2>1, <3>1, <3>2, <4>1 DEF AttemptsMatch, Held
    <3>3. CASE i # j
      <4>1. HashOf[i] # HashOf[j]
        BY <3>1, <3>3 DEF NoCollisions
      <4>2. retryCount'[HashOf[i]] = retryCount[HashOf[i]]
        BY <1>0, <2>2, <4>1 DEF QueueInv, TypeOK
      <4> HIDE DEF j
      <4> QED BY <1>0, <2>1, <3>1, <4>2, AttemptsFrame DEF Held
    <3> QED BY <3>2, <3>3
  <2>3. CASE pc' = [pc EXCEPT ![c] = "requeue"] /\ UNCHANGED <<items, retryCount>>
    BY <1>0, <2>1, <2>3, AttemptsFrame DEF Held, QueueInv, TypeOK
  <2>4. pc[c] = "retry" => j \in Items
    BY TailFacts DEF QueueInv, TypeOK
  <2>5. \/ NextItem(c) /\ retryCount' = [retryCount EXCEPT ![HashOf[j]] = 0]
        \/ /\ NextItem(c)
           /\ retryCount' = [retryCount EXCEPT ![HashOf[j]] = retryCount[HashOf[j]] + 1]
        \/ pc' = [pc EXCEPT ![c] = "requeue"] /\ UNCHANGED <<items, retryCount>>
    BY <1>11 DEF RetryItem, RetryCounted
  <2> HIDE DEF j
  <2>6. retryCount[HashOf[j]] \in 0..2
    BY <2>1, <2>4 DEF QueueInv, TypeOK, RetryLimit
  <2>7. retryCount[HashOf[j]] + 1 \in 0..3 /\ 0 \in 0..3
    BY <2>6
  <2> QED BY <2>2, <2>3, <2>5, <2>7
<1>12. ASSUME NEW c \in Consumers, Requeue(c)
       PROVE  AttemptsMatch(i)'
  <2> DEFINE j == Head(items[c])
  <2>1. /\ pc[c] = "requeue" /\ PutUnderLock(j) /\ NextItem(c)
        /\ retryCount' = [retryCount EXCEPT ![HashOf[j]] = retryCount[HashOf[j]] + 1]
        /\ UNCHANGED <<entering, offered, delivered>>
    BY <1>12 DEF Requeue, RetryCounted, history
  <2>2. /\ \A d \in Consumers \ {c} : items'[d] = items[d] /\ pc'[d] = pc[d]
        /\ pc'[c] # "consume"
        /\ j \in Items \cap Held(c)
        /\ ElementsOf(items'[c]) \subseteq Held(c) \ {j}
    BY <1>10, <2>1
  <2> HIDE DEF j
  <2>3. /\ j \notin entering \cup ElementsOf(queue) /\ j \in offered
        /\ \A d \in Consumers \ {c} : j \notin Held(d)
    BY <2>2, OnePlaceElim
  <2>4. ElementsOf(queue') \subseteq ElementsOf(queue) \cup {j}
    BY <1>3, <2>1, <2>2, <2>3
  <2>5. CASE i = j
    <3>1. retryCount'[HashOf[i]] = retryCount[HashOf[i]] + 1
      BY <1>0, <2>1, <2>5 DEF QueueInv, TypeOK
    <3>2. delivered[i] = retryCount[HashOf[i]] + 1
      BY <1>0, <2>1, <2>2, <2>5 DEF AttemptsMatch
    <3> QED BY <1>0, <2>1, <2>2, <2>3, <2>4, <2>5, <3>1, <3>2 DEF AttemptsMatch, Held
  <2>6. CASE i # j
    <3>1. HashOf[i] # HashOf[j]
      BY <2>2, <2>6 DEF NoCollisions
    <3>2. retryCount'[HashOf[i]] = retryCount[HashOf[i]]
      BY <1>0, <2>1, <3>1 DEF QueueInv, TypeOK
    <3> QED BY <1>0, <2>1, <2>2, <2>4, <2>6, <3>2, AttemptsFrame DEF Held
  <2> QED BY <2>5, <2>6
<1> QED BY <1>1, <1>2, <1>4, <1>5, <1>6, <1>7, <1>8, <1>9, <1>11, <1>12 DEF Next, Consume

\* The retry counts agree with the deliveries all along.
LEMMA AttemptsAgree == ASSUME NoCollisions PROVE Spec => []AttemptsInv
<1>1. Init => AttemptsInv
  BY ConstantsAssumption DEF Init, AttemptsInv, AttemptsMatch, Held, ElementsOf
<1>2. QueueInv /\ ItemInOnePlace /\ AttemptsInv /\ [Next]_vars => AttemptsInv'
  BY AttemptsStep DEF AttemptsInv
<1> QED BY <1>1, <1>2, QueueInvariant, ItemsStayInOnePlace, PTL DEF Spec

\* With no two items sharing a hash code, no item is delivered more than three times.
THEOREM AtMostThreeDeliveries == Spec => []DeliveredAtMostThrice
<1>1. AttemptsInv => \A i \in Items : delivered[i] <= 3
  BY DEF AttemptsInv, AttemptsMatch
<1>2. CASE NoCollisions
  <2>1. AttemptsInv => DeliveredAtMostThrice
    BY <1>1 DEF DeliveredAtMostThrice
  <2> QED BY <1>2, <2>1, AttemptsAgree, PTL
<1>3. CASE ~NoCollisions
  <2>1. DeliveredAtMostThrice
    BY <1>3 DEF DeliveredAtMostThrice
  <2> QED BY <2>1, PTL
<1> QED BY <1>2, <1>3

----------------------------------------------------------------------------
\* The queue delivers as ItemDelivery promises.

fates == [i \in Items |-> Fate(i)]

LEMMA LiveParts ==
  \A i : i \in Live <=> \/ i \in entering \/ i \in ElementsOf(queue)
                        \/ \E c \in Consumers : i \in Held(c)
BY DEF Live

LEMMA LivePartsNext ==
  \A i : i \in Live' <=> \/ i \in entering' \/ i \in ElementsOf(queue)'
                         \/ \E c \in Consumers : i \in Held(c)'
BY DEF Live

\* A step that accepts, tries and consumes nothing can only lose some items.
LEMMA LosesSome ==
  ASSUME ItemInOnePlace, UNCHANGED history, Live' \subseteq Live
  PROVE  \E S \in SUBSET Items : Delivery!Lose(S)
<1> DEFINE S == {i \in Items : i \in Live /\ i \notin Live'}
<1>1. consumed \cap Live = {} /\ Live \subseteq offered
  BY DEF ItemInOnePlace
<1>2. \A i \in S : Fate(i) = "pending"
  BY <1>1 DEF Fate
<1>3. \A i \in Items : Fate(i)' = IF i \in S THEN "lost" ELSE Fate(i)
  BY <1>1 DEF Fate, history
<1>4. Delivery!Pending(S) /\ Delivery!Become(S, "lost")
  BY <1>2, <1>3 DEF Delivery!Pending, Delivery!Become
<1>5. Delivery!Lose(S)
  BY <1>4 DEF Delivery!Lose, history
<1> QED BY <1>5

\* Nothing becomes live by a step that moves items between the places, or drops some.
LEMMA NothingNew ==
  ASSUME QueueInv, ItemInOnePlace, [Next]_vars, UNCHANGED history
  PROVE  Live' \subseteq Live
<1> USE ConstantsAssumption
<1>0. ASSUME entering' \subseteq Live, ElementsOf(queue)' \subseteq Live,
             \A c \in Consumers : Held(c)' \subseteq Live
      PROVE  Live' \subseteq Live
  BY <1>0, LivePartsNext
<1>1. CASE UNCHANGED <<entering, queue, items>>
  BY <1>0, <1>1, LiveParts DEF Held
<1>2. \/ FrameworkStart \/ FrameworkEnd \/ Dispose \/ UNCHANGED vars
      \/ \E c \in Consumers : BeginRound(c) \/ ConsumeFails(c)
      => UNCHANGED <<entering, queue, items>>
  BY DEF FrameworkStart, FrameworkEnd, Dispose, BeginRound, ConsumeFails, vars, service, threads
<1>3. ASSUME NEW i \in Items, EnqueueChecksStatus(i)
      PROVE  FALSE
  BY <1>3 DEF EnqueueChecksStatus, history
<1>4. ASSUME NEW i \in Items, EnqueuePuts(i)
      PROVE  Live' \subseteq Live
  <2>1. /\ i \in entering /\ entering' \subseteq entering
        /\ PutUnderLock(i)
        /\ UNCHANGED items
    BY <1>4 DEF EnqueuePuts, threads
  <2>2. ElementsOf(queue)' \subseteq ElementsOf(queue) \cup {i}
    BY <2>1, PutFacts DEF QueueInv, TypeOK, BoundedQueue
  <2> QED BY <1>0, <2>1, <2>2, LiveParts DEF Held
<1>5. ASSUME NEW c \in Consumers, Take(c)
      PROVE  Live' \subseteq Live
  <2> DEFINE p == SubSeq(queue, 1, TakeCount)
             t == SubSeq(queue, TakeCount + 1, Len(queue))
  <2>1. items' = [items EXCEPT ![c] = p] /\ queue' = t /\ UNCHANGED entering
    BY <1>5 DEF Take, QueueAfterTake
  <2>2. TakeCount \in 0..Len(queue) /\ TakeCount + 1 \in 1..(Len(queue) + 1)
    BY LenProperties DEF TakeCount, QueueInv, TypeOK
  <2>3. ElementsOf(p) \subseteq ElementsOf(queue) /\ ElementsOf(t) \subseteq ElementsOf(queue)
    BY <2>2, PrefixFacts, SuffixFacts DEF QueueInv, TypeOK
  <2> HIDE DEF p, t
  <2>4. \A d \in Consumers : items'[d] = p \/ items'[d] = items[d]
    BY <2>1 DEF QueueInv, TypeOK
  <2>5. \A d \in Consumers : Held(d)' \subseteq Live
    BY <2>3, <2>4, LiveParts DEF Held
  <2> QED BY <1>0, <2>1, <2>3, <2>5, LiveParts
<1>6. ASSUME NEW c \in Consumers, ConsumeSucceeds(c) \/ HandleError(c)
      PROVE  Live' \subseteq Live
  <2>1. UNCHANGED <<entering, queue>>
    BY <1>6 DEF ConsumeSucceeds, HandleError, service
  <2>2. \A d \in Consumers : items'[d] = <<>> \/ items'[d] = items[d]
    BY <1>6 DEF ConsumeSucceeds, HandleError, QueueInv, TypeOK
  <2>3. \A d \in Consumers : Held(d)' \subseteq Live
    BY <2>2, LiveParts DEF Held, ElementsOf
  <2> QED BY <1>0, <2>1, <2>3, LiveParts
<1>7. ASSUME NEW c \in Consumers, NextItem(c), pc[c] \in {"retry", "requeue"}
      PROVE  Head(items[c]) \in Items \cap Held(c) /\ \A d \in Consumers : Held(d)' \subseteq Live
  <2>1. items[c] \in Seq(Items) /\ items[c] # <<>>
    BY <1>7 DEF QueueInv, TypeOK
  <2>2. items' = [items EXCEPT ![c] = Tail(items[c])]
    BY <1>7 DEF NextItem
  <2>3. /\ Head(items[c]) \in Items /\ Head(items[c]) \in Held(c)
        /\ ElementsOf(Tail(items[c])) \subseteq Held(c)
    BY <2>1, TailFacts DEF Held
  <2>4. \A d \in Consumers : items'[d] = items[d] \/ (d = c /\ items'[d] = Tail(items[c]))
    BY <2>2 DEF QueueInv, TypeOK
  <2>5. \A d \in Consumers : Held(d)' \subseteq Live
    BY <2>3, <2>4, LiveParts DEF Held
  <2> QED BY <2>3, <2>5
<1>8. ASSUME NEW c \in Consumers, RetryItem(c)
      PROVE  Live' \subseteq Live
  <2>1. pc[c] = "retry" /\ UNCHANGED <<entering, queue>> /\ (NextItem(c) \/ UNCHANGED items)
    BY <1>8 DEF RetryItem, service
  <2>2. CASE NextItem(c)
    BY <1>0, <1>7, <2>1, <2>2, LiveParts
  <2> QED BY <1>1, <2>1, <2>2
<1>9. ASSUME NEW c \in Consumers, Requeue(c)
      PROVE  Live' \subseteq Live
  <2> DEFINE i == Head(items[c])
  <2>1. pc[c] = "requeue" /\ NextItem(c) /\ PutUnderLock(i) /\ UNCHANGED entering
    BY <1>9 DEF Requeue
  <2>2. i \in Items \cap Held(c) /\ \A d \in Consumers : Held(d)' \subseteq Live
    BY <1>7, <2>1
  <2> HIDE DEF i
  <2>3. ElementsOf(queue)' \subseteq ElementsOf(queue) \cup {i}
    BY <2>1, <2>2, PutFacts DEF QueueInv, TypeOK, BoundedQueue
  <2> QED BY <1>0, <2>1, <2>2, <2>3, LiveParts
<1> QED BY <1>1, <1>2, <1>3, <1>4, <1>5, <1>6, <1>8, <1>9 DEF Next, Consume

\* The status check of Enqueue accepts an item or turns it away.
LEMMA OfferStep ==
  ASSUME ItemInOnePlace, NEW i \in Items, EnqueueChecksStatus(i)
  PROVE  Delivery!Offer(i)
<1>1. /\ i \notin offered /\ offered' = offered \cup {i}
      /\ entering' = IF status = "Started" THEN entering \cup {i} ELSE entering
      /\ UNCHANGED <<queue, items, consumed, delivered>>
  BY DEF EnqueueChecksStatus, threads
<1>2. consumed \cap Live = {} /\ Live \subseteq offered /\ consumed \subseteq offered
  BY DEF ItemInOnePlace
<1>3. Live' = IF status = "Started" THEN Live \cup {i} ELSE Live
  <2>1. \A c \in Consumers : Held(c)' = Held(c)
    BY <1>1 DEF Held
  <2>2. ElementsOf(queue)' = ElementsOf(queue)
    BY <1>1
  <2> QED BY <1>1, <2>1, <2>2, LiveParts, LivePartsNext
<1>4. Fate(i) = "new" /\ Fate(i)' = IF status = "Started" THEN "pending" ELSE "lost"
  BY <1>1, <1>2, <1>3 DEF Fate
<1>5. \A j \in Items \ {i} : Fate(j)' = Fate(j)
  BY <1>1, <1>3 DEF Fate
<1>6. Delivery!Become({i}, "pending") \/ Delivery!Become({i}, "lost")
  BY <1>4, <1>5 DEF Delivery!Become
<1> QED BY <1>1, <1>4, <1>6 DEF Delivery!Offer

\* What a consumer is about to try has been tried twice at most.
LEMMA HeldUntried ==
  ASSUME QueueInv, AttemptsInv, NEW c \in Consumers, pc[c] = "consume", NEW i \in Held(c)
  PROVE  i \in Items /\ delivered[i] < 3
<1>1. i \in Items
  BY ElementOfSeq DEF Held, ElementsOf, QueueInv, TypeOK
<1>2. retryCount[HashOf[i]] \in 0..2
  BY <1>1, ConstantsAssumption DEF QueueInv, TypeOK, RetryLimit
<1>3. delivered[i] = retryCount[HashOf[i]]
  BY <1>1 DEF AttemptsInv, AttemptsMatch
<1> QED BY <1>1, <1>2, <1>3

\* A call of ConsumeAction tries the whole batch, and consumes all of it or nothing.
LEMMA BatchIsTried ==
  ASSUME QueueInv, ItemInOnePlace, NEW c \in Consumers, ConsumeSucceeds(c) \/ ConsumeFails(c)
  PROVE  LET S == Held(c)
         IN /\ S \in SUBSET Items
            /\ Delivery!Pending(S)
            /\ delivered' = [i \in Items |-> IF i \in S THEN delivered[i] + 1 ELSE delivered[i]]
            /\ Delivery!Become(S, "consumed") \/ UNCHANGED fates
<1> DEFINE S == Held(c)
<1>1. pc[c] = "consume" /\ CountDelivery(c) /\ UNCHANGED <<entering, queue, offered>>
  BY DEF ConsumeSucceeds, ConsumeFails, service
<1>2. S \in SUBSET Items
  BY ElementOfSeq DEF Held, ElementsOf, QueueInv, TypeOK
<1>3. /\ consumed \cap Live = {} /\ Live \subseteq offered
      /\ \A d \in Consumers \ {c} : Held(d) \cap S = {}
      /\ S \cap (entering \cup ElementsOf(queue)) = {}
  BY OnePlaceElim DEF ItemInOnePlace
<1>4. \A i \in S : Fate(i) = "pending"
  BY <1>3, LiveParts DEF Fate
<1>5. delivered' = [i \in Items |-> IF i \in S THEN delivered[i] + 1 ELSE delivered[i]]
  BY <1>1 DEF CountDelivery, Held
<1>6. Delivery!Become(S, "consumed") \/ UNCHANGED fates
  <2>1. CASE ConsumeSucceeds(c)
    <3>1. /\ consumed' = consumed \cup S
          /\ items'[c] = <<>> /\ \A d \in Consumers \ {c} : items'[d] = items[d]
      BY <2>1 DEF ConsumeSucceeds, Held, QueueInv, TypeOK
    <3>2. \A d \in Consumers : Held(d)' = IF d = c THEN {} ELSE Held(d)
      BY <3>1 DEF Held, ElementsOf
    <3>3. Live' = Live \ S
      BY <1>1, <1>3, <3>2, LiveParts, LivePartsNext
    <3>4. \A i \in Items : Fate(i)' = IF i \in S THEN "consumed" ELSE Fate(i)
      BY <1>1, <1>3, <3>1, <3>3, LiveParts DEF Fate
    <3> QED BY <3>4 DEF Delivery!Become
  <2>2. CASE ConsumeFails(c)
    <3>1. UNCHANGED <<entering, queue, items, offered, consumed>>
      BY <2>2 DEF ConsumeFails, service
    <3>2. \A d \in Consumers : Held(d)' = Held(d)
      BY <3>1 DEF Held
    <3>3. Live' = Live
      BY <3>1, <3>2, LiveParts, LivePartsNext
    <3> QED BY <3>1, <3>3 DEF Fate, fates
  <2> QED BY <2>1, <2>2
<1> QED BY <1>2, <1>4, <1>5, <1>6 DEF Delivery!Pending

\* Which steps touch the history.
LEMMA HistorySteps ==
  ASSUME [Next]_vars
  PROVE  \/ UNCHANGED history
         \/ \E i \in Items : EnqueueChecksStatus(i)
         \/ \E c \in Consumers : ConsumeSucceeds(c) \/ ConsumeFails(c)
BY DEF Next, Consume, vars, FrameworkStart, FrameworkEnd, Dispose, EnqueuePuts, BeginRound,
       Take, HandleError, RetryItem, Requeue

LEMMA DeliveryStep ==
  QueueInv /\ ItemInOnePlace /\ AttemptsInv /\ [Next]_vars => Delivery!Next
<1> SUFFICES ASSUME QueueInv, ItemInOnePlace, AttemptsInv, [Next]_vars PROVE Delivery!Next
  OBVIOUS
<1>1. ASSUME UNCHANGED history
      PROVE  Delivery!Next
  BY <1>1, NothingNew, LosesSome DEF Delivery!Next
<1>2. ASSUME NEW i \in Items, EnqueueChecksStatus(i)
      PROVE  Delivery!Next
  BY <1>2, OfferStep DEF Delivery!Next
<1>3. ASSUME NEW c \in Consumers, ConsumeSucceeds(c) \/ ConsumeFails(c)
      PROVE  Delivery!Next
  <2> DEFINE S == Held(c)
  <2>1. pc[c] = "consume"
    BY <1>3 DEF ConsumeSucceeds, ConsumeFails
  <2>2. \A i \in S : delivered[i] < 3
    BY <2>1, HeldUntried
  <2>3. S \in SUBSET Items /\ Delivery!Attempt(S)
    BY <1>3, <2>2, BatchIsTried DEF Delivery!Attempt, fates
  <2> QED BY <2>3 DEF Delivery!Next
<1> QED BY <1>1, <1>2, <1>3, HistorySteps

LEMMA DeliveryInit == Init => Delivery!Init
<1> SUFFICES ASSUME Init PROVE Delivery!Init
  OBVIOUS
<1>1. \A i \in Items : Fate(i) = "new"
  BY DEF Init, Fate
<1> QED BY <1>1 DEF Init, Delivery!Init

\* Where no two items share a hash code, the queue with its threads, retries and adjustments
\* is an ItemDelivery with three attempts per item.
THEOREM QueueDelivers == ASSUME NoCollisions PROVE Spec => ImplementsDelivery
<1>1. QueueInv /\ ItemInOnePlace /\ AttemptsInv /\ [Next]_vars
      => [Delivery!Next]_<<[i \in Items |-> Fate(i)], delivered>>
  BY DeliveryStep
<1> QED
  BY <1>1, DeliveryInit, QueueInvariant, ItemsStayInOnePlace, AttemptsAgree, PTL
  DEF Spec, ImplementsDelivery, Delivery!Spec

----------------------------------------------------------------------------
\* What leaves the queue, and why items are given up.

\* A consumer takes from the front; a full queue gives up its front and appends.
LEMMA PutKeepsOrder ==
  ASSUME queue \in Seq(Items), config \in Configuration, NEW i \in Items, PutUnderLock(i)
  PROVE  \E n \in 0..Len(queue) :
           LET rest == SubSeq(queue, n + 1, Len(queue))
           IN queue' = rest \/ queue' = Append(rest, i)
<1>1. Len(queue) \in Nat /\ config.max \in Nat
  BY LenProperties DEF Configuration
<1>2. SubSeq(queue, 1, Len(queue)) = queue
  BY SubSeqFull
<1>3. SubSeq(queue, Len(queue) + 1, Len(queue)) = <<>>
  BY <1>1, SuffixFacts, EmptySeq
<1>4. CASE queue' = Append(queue, i) \/ queue' = queue
  BY <1>1, <1>2, <1>4
<1>5. CASE queue' = <<>>
  BY <1>1, <1>3, <1>5
<1>6. CASE Len(queue) >= config.max /\ config.max # 0 /\ queue' = AbandonOldest(i)
  <2> DEFINE n == Len(queue) - config.max + 1
  <2>1. n \in 0..Len(queue) /\ n + 1 = Len(queue) - config.max + 2
    BY <1>1, <1>6
  <2> QED BY <1>6, <2>1 DEF AbandonOldest
<1> QED BY <1>4, <1>5, <1>6 DEF PutUnderLock, AbandonThrows

\* First in, first out, or given up.
THEOREM OldestGoFirst == Spec => OldestFirst
<1> DEFINE A == \E n \in 0..Len(queue) :
                  LET rest == SubSeq(queue, n + 1, Len(queue))
                  IN queue' = rest \/ \E i \in Items : queue' = Append(rest, i)
<1>1. ASSUME QueueInv, [Next]_vars, ~UNCHANGED queue
      PROVE  A
  <2>1. ASSUME NEW i \in Items, PutUnderLock(i)
        PROVE  A
    BY <1>1, <2>1, PutKeepsOrder DEF QueueInv, TypeOK
  <2>2. ASSUME NEW c \in Consumers, Take(c)
        PROVE  A
    <3>1. Len(queue) \in Nat /\ Batch \in Nat
      BY <1>1, LenProperties, ConstantsAssumption DEF QueueInv, TypeOK
    <3>2. TakeCount \in 0..Len(queue)
      BY <3>1 DEF TakeCount
    <3> QED BY <2>2, <3>2 DEF Take, QueueAfterTake
  <2>3. ASSUME NEW c \in Consumers, Requeue(c)
        PROVE  A
    <3>1. Head(items[c]) \in Items
      BY <1>1, <2>3, TailFacts DEF Requeue, QueueInv, TypeOK
    <3> QED BY <2>1, <2>3, <3>1 DEF Requeue
  <2>4. \/ UNCHANGED queue
        \/ \E i \in Items : EnqueuePuts(i)
        \/ \E c \in Consumers : Take(c) \/ Requeue(c)
    BY <1>1 DEF Next, Consume, vars, service, FrameworkStart, FrameworkEnd, Dispose,
                EnqueueChecksStatus, BeginRound, ConsumeSucceeds, ConsumeFails, HandleError,
                RetryItem
  <2> QED BY <1>1, <2>1, <2>2, <2>3, <2>4 DEF EnqueuePuts
<1>2. QueueInv /\ [Next]_vars => [A]_queue
  BY <1>1
<1> QED BY <1>2, QueueInvariant, PTL DEF Spec, OldestFirst

\* Who is given up in a step was in a full queue, or held by a thread whose configuration
\* abandons it, whose framework has ended, or who has tried it three times.
LEMMA LossStep ==
  ASSUME QueueInv, ItemInOnePlace, AttemptsInv, [Next]_vars,
         NEW i \in Live, i \notin Live', i \notin consumed'
  PROVE  \/ Len(queue) >= config.max
         \/ config.errorAction # "EnqueueTwiceAndLogException"
         \/ delivered[i] = 3
         \/ status # "Started"
<1> USE ConstantsAssumption
<1>1. ASSUME UNCHANGED <<entering, queue, items>>
      PROVE  FALSE
  BY <1>1, LiveParts, LivePartsNext DEF Held
<1>2. i \notin entering' /\ i \notin ElementsOf(queue)' /\ \A c \in Consumers : i \notin Held(c)'
  BY LivePartsNext
<1>3. Len(queue) \in Nat /\ config.max \in Nat
  BY LenProperties DEF QueueInv, TypeOK, Configuration
<1>4. ASSUME NEW j \in Items, PutUnderLock(j), Len(queue) < config.max
      PROVE  ElementsOf(queue)' = ElementsOf(queue) \cup {j}
  <2>1. queue' = Append(queue, j)
    BY <1>3, <1>4 DEF PutUnderLock
  <2> QED BY <2>1, AppendFacts DEF QueueInv, TypeOK
<1>5. ASSUME NEW j \in Items, EnqueueChecksStatus(j)
      PROVE  FALSE
  BY <1>2, <1>5, LiveParts DEF EnqueueChecksStatus, threads, Held
<1>6. ASSUME NEW j \in Items, EnqueuePuts(j)
      PROVE  Len(queue) >= config.max
  <2>1. entering' = entering \ {j} /\ PutUnderLock(j) /\ UNCHANGED items
    BY <1>6 DEF EnqueuePuts, threads
  <2>2. CASE Len(queue) < config.max
    BY <1>2, <1>4, <2>1, <2>2, LiveParts DEF Held
  <2> QED BY <1>3, <2>2
<1>7. ASSUME NEW c \in Consumers, Take(c)
      PROVE  FALSE
  <2> DEFINE p == SubSeq(queue, 1, TakeCount)
             t == SubSeq(queue, TakeCount + 1, Len(queue))
  <2>1. items' = [items EXCEPT ![c] = p] /\ queue' = t /\ UNCHANGED entering /\ pc[c] = "take"
    BY <1>7 DEF Take, QueueAfterTake
  <2>2. TakeCount \in 0..Len(queue)
    BY <1>3 DEF TakeCount
  <2>3. ElementsOf(queue) \subseteq ElementsOf(p) \cup ElementsOf(t)
    BY <2>2, CutFacts DEF QueueInv, TypeOK
  <2> HIDE DEF p, t
  <2>4. items[c] = <<>> /\ items'[c] = p /\ \A d \in Consumers \ {c} : items'[d] = items[d]
    BY <2>1 DEF QueueInv, TypeOK
  <2>5. ElementsOf(<<>>) = {}
    BY DEF ElementsOf
  <2> QED BY <1>2, <2>1, <2>3, <2>4, <2>5, LiveParts DEF Held
<1>8. ASSUME NEW c \in Consumers, ConsumeSucceeds(c)
      PROVE  FALSE
  <2>1. /\ UNCHANGED <<entering, queue>> /\ consumed' = consumed \cup Held(c)
        /\ \A d \in Consumers \ {c} : items'[d] = items[d]
    BY <1>8 DEF ConsumeSucceeds, service, Held, QueueInv, TypeOK
  <2> QED BY <1>2, <2>1, LiveParts DEF Held
<1>9. ASSUME NEW c \in Consumers, HandleError(c)
      PROVE  config.errorAction # "EnqueueTwiceAndLogException"
  BY <1>1, <1>9 DEF HandleError, service
<1>10. ASSUME NEW c \in Consumers, NextItem(c), pc[c] \in {"retry", "requeue"}, i \in Held(c)
       PROVE  i = Head(items[c])
  <2>1. items[c] \in Seq(Items) /\ items[c] # <<>> /\ items'[c] = Tail(items[c])
    BY <1>10 DEF NextItem, QueueInv, TypeOK
  <2>2. ElementsOf(items[c]) = {Head(items[c])} \cup ElementsOf(Tail(items[c]))
    BY <2>1, HeadOrTail
  <2> QED BY <1>2, <1>10, <2>1, <2>2 DEF Held
<1>11. ASSUME NEW c \in Consumers, RetryItem(c)
       PROVE  delivered[i] = 3 \/ status # "Started"
  <2> DEFINE h == HashOf[Head(items[c])]
  <2>1. pc[c] = "retry" /\ UNCHANGED <<entering, queue>>
    BY <1>11 DEF RetryItem, service
  <2>2. CASE NextItem(c) /\ retryCount[h] >= RetryLimit
    <3>1. \A d \in Consumers \ {c} : items'[d] = items[d]
      BY <2>2 DEF NextItem, QueueInv, TypeOK
    <3>2. i \in Held(c) /\ i = Head(items[c])
      BY <1>2, <1>10, <2>1, <2>2, <3>1, LiveParts DEF Held
    <3>3. items[c] \in Seq(Items) /\ items[c] # <<>>
      BY <2>1 DEF QueueInv, TypeOK
    <3>4. i \in Items
      BY <3>2, <3>3, TailFacts
    <3>5. delivered[i] \in Nat /\ retryCount[HashOf[i]] \in 0..2 /\ retryCount[HashOf[i]] >= 2
      BY <2>2, <3>2, <3>4 DEF QueueInv, TypeOK, RetryLimit
    <3>6. delivered[i] = retryCount[HashOf[i]] + 1
      BY <2>1, <3>2, <3>4 DEF AttemptsInv, AttemptsMatch
    <3> QED BY <3>5, <3>6
  <2>3. CASE status # "Started" \/ UNCHANGED items
    BY <1>1, <2>1, <2>3
  <2> QED BY <1>11, <2>2, <2>3 DEF RetryItem
<1>12. ASSUME NEW c \in Consumers, Requeue(c)
       PROVE  Len(queue) >= config.max
  <2> DEFINE j == Head(items[c])
  <2>1. pc[c] = "requeue" /\ NextItem(c) /\ PutUnderLock(j) /\ UNCHANGED entering
    BY <1>12 DEF Requeue
  <2>2. items[c] \in Seq(Items) /\ items[c] # <<>>
        /\ \A d \in Consumers \ {c} : items'[d] = items[d]
    BY <2>1 DEF NextItem, QueueInv, TypeOK
  <2>3. j \in Items
    BY <2>2, TailFacts
  <2>4. CASE Len(queue) < config.max
    <3>1. i \notin ElementsOf(queue) /\ i # j
      BY <1>2, <1>4, <2>1, <2>3, <2>4
    <3>2. i \in Held(c)
      BY <1>2, <2>1, <2>2, <3>1, LiveParts DEF Held
    <3> QED BY <1>10, <2>1, <3>1, <3>2
  <2> QED BY <1>3, <2>4
<1>13. \/ UNCHANGED <<entering, queue, items>>
       \/ \E j \in Items : EnqueueChecksStatus(j) \/ EnqueuePuts(j)
       \/ \E c \in Consumers : \/ Take(c) \/ ConsumeSucceeds(c) \/ HandleError(c)
                               \/ RetryItem(c) \/ Requeue(c)
  BY DEF Next, Consume, vars, service, threads, FrameworkStart, FrameworkEnd, Dispose, BeginRound,
         ConsumeFails
<1> QED
  BY <1>1, <1>5, <1>6, <1>7, <1>8, <1>9, <1>11, <1>12, <1>13

\* Where no two items share a hash code, no item is lost without one of the reasons.
THEOREM LossesAreJustified == ASSUME NoCollisions PROVE Spec => LossIsJustified
<1>1. QueueInv /\ ItemInOnePlace /\ AttemptsInv /\ [Next]_vars
      => [\A i \in Live \ (Live' \cup consumed') :
            \/ Len(queue) >= config.max
            \/ config.errorAction # "EnqueueTwiceAndLogException"
            \/ delivered[i] = 3
            \/ status # "Started"]_vars
  BY LossStep
<1> QED
  BY <1>1, QueueInvariant, ItemsStayInOnePlace, AttemptsAgree, PTL DEF Spec, LossIsJustified

----------------------------------------------------------------------------
\* What a full queue adjusts.

\* Measured from the configuration the service began with, every adjustment is made once at
\* most, and its flag goes with it.
THEOREM AdjustmentsAreSingle == Spec => []AdjustedAtMostOnce
<1>1. Init => AdjustedAtMostOnce
  BY DEF Init, AdjustedAtMostOnce, Once
<1>2. ASSUME QueueInv, AdjustedAtMostOnce, [Next]_vars
      PROVE  AdjustedAtMostOnce'
  <2>0. given' = given
    BY <1>2 DEF Next, Consume, vars, history, FrameworkStart, FrameworkEnd, Dispose,
                EnqueueChecksStatus, EnqueuePuts, BeginRound, Take,
                ConsumeSucceeds, ConsumeFails, HandleError, RetryItem, Requeue
  <2>1. CASE UNCHANGED config
    BY <1>2, <2>0, <2>1 DEF AdjustedAtMostOnce, Once
  <2>2. CASE config' = AdjustedConfig
    <3>1. /\ config'.actions \subseteq config.actions \cap
               {"AbandonOldItems", "DoubleMaxItemCountOnce"}
          /\ config.actions \subseteq given.actions
      BY <1>2, <2>2 DEF AdjustedConfig, AdjustedAtMostOnce
    <3>2. Once("DoubleMaxItemCountOnce", config.max, given.max, 2 * given.max)'
      <4>1. config'.max = config.max
            \/ /\ config'.max = 2 * config.max
               /\ "DoubleMaxItemCountOnce" \in config.actions
               /\ "DoubleMaxItemCountOnce" \notin config'.actions
        BY <2>2 DEF AdjustedConfig
      <4> QED BY <1>2, <2>0, <3>1, <4>1 DEF AdjustedAtMostOnce, Once
    <3>3. Once("DecreaseConsumeIntervalOnce",
               config.interval, given.interval, given.interval \div 2)'
      <4>1. config'.interval = config.interval
            \/ /\ config'.interval = config.interval \div 2
               /\ "DecreaseConsumeIntervalOnce" \in config.actions
        BY <2>2 DEF AdjustedConfig
      <4> QED BY <1>2, <2>0, <3>1, <4>1 DEF AdjustedAtMostOnce, Once
    <3>4. Once("DecreaseConsumeIntervalWhenErrorOnce",
               config.errorInterval, given.errorInterval, given.errorInterval \div 2)'
      <4>1. config'.errorInterval = config.errorInterval
            \/ /\ config'.errorInterval = config.errorInterval \div 2
               /\ "DecreaseConsumeIntervalWhenErrorOnce" \in config.actions
        BY <2>2 DEF AdjustedConfig
      <4> QED BY <1>2, <2>0, <3>1, <4>1 DEF AdjustedAtMostOnce, Once
    <3>5. Once("ChangeConsumeErrorAction",
               config.errorAction, given.errorAction, "AbandonAndLogException")'
      <4>1. config'.errorAction = config.errorAction
            \/ /\ config'.errorAction = "AbandonAndLogException"
               /\ "ChangeConsumeErrorAction" \in config.actions
        BY <2>2 DEF AdjustedConfig
      <4> QED BY <1>2, <2>0, <3>1, <4>1 DEF AdjustedAtMostOnce, Once
    <3>6. (config.actions \subseteq given.actions)'
      BY <2>0, <3>1
    <3> QED BY <3>2, <3>3, <3>4, <3>5, <3>6 DEF AdjustedAtMostOnce
  <2>3. UNCHANGED config \/ config' = AdjustedConfig
    BY <1>2 DEF Next, Consume, vars, service, FrameworkStart, FrameworkEnd, Dispose,
                EnqueueChecksStatus, EnqueuePuts, PutUnderLock, BeginRound, Take,
                ConsumeSucceeds, ConsumeFails, HandleError, RetryItem, Requeue
  <2> QED BY <2>1, <2>2, <2>3
<1>3. QueueInv /\ AdjustedAtMostOnce /\ [Next]_vars => AdjustedAtMostOnce'
  BY <1>2
<1> QED BY <1>1, <1>3, QueueInvariant, PTL DEF Spec
=============================================================================
