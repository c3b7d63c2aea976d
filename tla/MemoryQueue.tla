---------------------------- MODULE MemoryQueue ----------------------------
(***************************************************************************)
(* The in-memory queue service of Adhesive.MemoryQueue.Imp: producers call *)
(* Enqueue, consumer threads take batches and hand them to ConsumeAction.  *)
(*                                                                         *)
(* Steps are split where the code gives up a lock or calls out: the check  *)
(* of the framework's status, the two sections under lock(memoryQueue),    *)
(* the call of ConsumeAction, each unlocked read of ConsumeErrorAction and *)
(* each section under lock(errorItemRetryItem), which itself waits for     *)
(* memoryQueue.  The two EnqueueForever strategies, which put items back   *)
(* without a lock and so race with Enqueue inside Queue<T>, are not among  *)
(* the configurations of this module.                                      *)
(*                                                                         *)
(* A definition whose name no action uses, right above one the actions do  *)
(* use, is a plausible bug in its place: a property below notices it.      *)
(***************************************************************************)
EXTENDS Integers, Sequences, FiniteSets

CONSTANTS
  Items,      \* the objects producers enqueue, each of them once
  Hashes,     \* the values GetHashCode can return
  HashOf,     \* item.GetHashCode(): the key of the retry dictionary
  Consumers,  \* the consumer threads; their number is ConsumeThreadCount
  Batch,      \* ConsumeItemCountInOneBatch
  Configs     \* the configurations the service may be initialised with

ReachMaxActions ==
  {"AbandonOldItems", "DoubleMaxItemCountOnce", "ChangeConsumeErrorAction",
   "DecreaseConsumeIntervalOnce", "DecreaseConsumeIntervalWhenErrorOnce"}

ErrorActions ==
  {"Abandon", "AbandonAndLogException", "EnqueueTwice", "EnqueueTwiceAndLogException"}

\* MemoryQueueServiceConfiguration; consumeAll stands for the strategy ConsumeAllItems for
\* incomplete batches.  All but consumeAll may change while the service runs.
Configuration ==
  [max : Nat, actions : SUBSET ReachMaxActions, errorAction : ErrorActions,
   interval : Nat, errorInterval : Nat, consumeAll : BOOLEAN]

ASSUME ConstantsAssumption ==
  /\ HashOf \in [Items -> Hashes]
  /\ Batch \in Nat \ {0}
  /\ Configs \subseteq Configuration

\* The largest int of the .NET runtime.
MaxInt == 2147483647

VARIABLES
  status,     \* AdhesiveFramework.Status
  enabled,    \* AbstractService.Enabled
  config,     \* configuration
  queue,      \* memoryQueue
  entering,   \* items whose producer passed the status check and waits for the lock
  pc,         \* where each consumer thread is
  items,      \* the local list `items` of each consumer thread
  retryCount, \* errorItemRetryItem; 0 where the dictionary has no such key
  totalConsumeItemCount,
  totalConsumeErrorItemCount,
  \* What follows is history: no action reads it except offered, which makes every
  \* item enqueued at most once.
  offered,    \* items some producer has passed to Enqueue
  consumed,   \* items of a batch ConsumeAction returned from
  delivered,  \* how often ConsumeAction was called with the item
  given       \* the configuration the service was initialised with

service == <<status, enabled, config, queue, entering>>
threads == <<pc, items, retryCount>>
totals == <<totalConsumeItemCount, totalConsumeErrorItemCount>>
history == <<offered, consumed, delivered, given>>
vars == <<service, threads, totals, history>>

ElementsOf(s) == {s[k] : k \in 1..Len(s)}

Init ==
  /\ status = "Starting"
  /\ enabled = TRUE
  /\ config \in Configs
  /\ queue = <<>>
  /\ entering = {}
  /\ pc = [c \in Consumers |-> "idle"]
  /\ items = [c \in Consumers |-> <<>>]
  /\ retryCount = [h \in Hashes |-> 0]
  /\ totalConsumeItemCount = 0
  /\ totalConsumeErrorItemCount = 0
  /\ offered = {}
  /\ consumed = {}
  /\ delivered = [i \in Items |-> 0]
  /\ given = config

----------------------------------------------------------------------------
\* The framework's life cycle and the service's Dispose.  Enqueue only asks whether the
\* status is Started: NotStarted and FailedToStart are to it as Starting, Ended as Ending.

FrameworkStart ==
  /\ status = "Starting"
  /\ status' = "Started"
  /\ UNCHANGED <<enabled, config, queue, entering, threads, totals, history>>

FrameworkEnd ==
  /\ status = "Started"
  /\ status' = "Ending"
  /\ UNCHANGED <<enabled, config, queue, entering, threads, totals, history>>

Dispose ==
  /\ enabled
  /\ enabled' = FALSE
  /\ UNCHANGED <<status, config, queue, entering, threads, totals, history>>

----------------------------------------------------------------------------
\* What Enqueue does to the queue and the configuration once it holds the lock.

\* AbandonOldItems dequeues while Count >= MaxItemCount.  With a MaxItemCount of 0 the
\* loop runs into the empty queue: Dequeue throws and Enqueue ends in its catch.
AbandonThrows ==
  "AbandonOldItems" \in config.actions /\ config.max = 0

AbandonOneTooFew(item) ==
  Append(SubSeq(queue, Len(queue) - config.max + 1, Len(queue)), item)

AbandonNewest(item) ==
  Append(SubSeq(queue, 1, config.max - 1), item)

AbandonOldest(item) ==
  Append(SubSeq(queue, Len(queue) - config.max + 2, Len(queue)), item)

AdjustedAgain ==
  [config EXCEPT !.max = IF "DoubleMaxItemCountOnce" \in config.actions
                         THEN 2 * config.max ELSE config.max]

\* The adjustments made "once" when the queue is full, each removing its own flag.  The
\* log line of DecreaseConsumeIntervalWhenErrorOnce formats "{0}" with no argument and
\* throws after the flag is gone, so DoubleMaxItemCountOnce waits for the next full queue.
AdjustedConfig ==
  LET acts == config.actions
      logThrows == "DecreaseConsumeIntervalWhenErrorOnce" \in acts
      doubles == "DoubleMaxItemCountOnce" \in acts /\ ~logThrows
      halved(flag, n) == IF flag \in acts /\ n > 2 THEN n \div 2 ELSE n
  IN [max |-> IF doubles /\ config.max < MaxInt \div 2 THEN 2 * config.max
                                                       ELSE config.max,
      actions |-> acts \cap
                    (IF logThrows THEN {"AbandonOldItems", "DoubleMaxItemCountOnce"}
                                  ELSE {"AbandonOldItems"}),
      errorAction |-> IF "ChangeConsumeErrorAction" \in acts
                      THEN "AbandonAndLogException" ELSE config.errorAction,
      interval |-> halved("DecreaseConsumeIntervalOnce", config.interval),
      errorInterval |-> halved("DecreaseConsumeIntervalWhenErrorOnce",
                               config.errorInterval),
      consumeAll |-> config.consumeAll]

PutUnderLock(item) ==
  \/ /\ Len(queue) < config.max
     /\ queue' = Append(queue, item)
     /\ UNCHANGED config
  \/ /\ Len(queue) >= config.max
     /\ AbandonThrows
     /\ queue' = <<>>
     /\ UNCHANGED config
  \/ /\ Len(queue) >= config.max
     /\ ~AbandonThrows
     /\ queue' = IF "AbandonOldItems" \in config.actions THEN AbandonOldest(item) ELSE queue
     /\ config' = AdjustedConfig

----------------------------------------------------------------------------
\* A producer's call of Enqueue, in two steps: the status check, then the lock.

EnqueueChecksStatus(i) ==
  /\ i \notin offered
  /\ offered' = offered \cup {i}
  /\ entering' = IF status = "Started" THEN entering \cup {i} ELSE entering
  /\ UNCHANGED <<status, enabled, config, queue, threads, totals, consumed, delivered, given>>

EnqueuePuts(i) ==
  /\ i \in entering
  /\ entering' = entering \ {i}
  /\ PutUnderLock(i)
  /\ UNCHANGED <<status, enabled, threads, totals, history>>

----------------------------------------------------------------------------
\* The consumer thread.

BeginRoundWhileTrue(c) ==
  /\ pc[c] = "idle"
  /\ pc' = [pc EXCEPT ![c] = "take"]
  /\ UNCHANGED <<service, items, retryCount, totals, history>>

\* while (Enabled) after the sleep of the previous round
BeginRound(c) ==
  /\ pc[c] = "idle"
  /\ pc' = [pc EXCEPT ![c] = IF enabled THEN "take" ELSE "stopped"]
  /\ UNCHANGED <<service, items, retryCount, totals, history>>

TakeFullBatchesOnly == IF Len(queue) >= Batch THEN Batch ELSE 0

\* A full batch, or whatever there is when incomplete batches are consumed too.
TakeCount ==
  IF Len(queue) >= Batch THEN Batch
  ELSE IF config.consumeAll THEN Len(queue) ELSE 0

QueuePeeked == queue

QueueAfterTake == SubSeq(queue, TakeCount + 1, Len(queue))

Take(c) ==
  /\ pc[c] = "take"
  /\ items' = [items EXCEPT ![c] = SubSeq(queue, 1, TakeCount)]
  /\ queue' = QueueAfterTake
  /\ pc' = [pc EXCEPT ![c] = IF TakeCount > 0 THEN "consume" ELSE "idle"]
  /\ UNCHANGED <<status, enabled, config, entering, retryCount, totals, history>>

CountDelivery(c) ==
  delivered' = [i \in Items |-> IF i \in ElementsOf(items[c]) THEN delivered[i] + 1
                                                             ELSE delivered[i]]

ConsumeSucceeds(c) ==
  /\ pc[c] = "consume"
  /\ pc' = [pc EXCEPT ![c] = "idle"]
  /\ items' = [items EXCEPT ![c] = <<>>]
  /\ totalConsumeItemCount' = totalConsumeItemCount + Len(items[c])
  /\ consumed' = consumed \cup ElementsOf(items[c])
  /\ CountDelivery(c)
  /\ UNCHANGED <<service, retryCount, totalConsumeErrorItemCount, offered, given>>

ConsumeFails(c) ==
  /\ pc[c] = "consume"
  /\ pc' = [pc EXCEPT ![c] = "failed"]
  /\ totalConsumeErrorItemCount' = totalConsumeErrorItemCount + Len(items[c])
  /\ CountDelivery(c)
  /\ UNCHANGED <<service, items, retryCount, totalConsumeItemCount, offered, consumed, given>>

HandleErrorByAbandoning(c) ==
  /\ pc[c] = "failed"
  /\ pc' = [pc EXCEPT ![c] = "idle"]
  /\ items' = [items EXCEPT ![c] = <<>>]
  /\ UNCHANGED <<service, retryCount, totals, history>>

\* The last of the catch block's reads of ConsumeErrorAction, the one that decides: both
\* sides of its || name EnqueueTwiceAndLogException, so EnqueueTwice abandons the batch.
HandleError(c) ==
  /\ pc[c] = "failed"
  /\ \/ /\ config.errorAction = "EnqueueTwiceAndLogException"
        /\ pc' = [pc EXCEPT ![c] = "retry"]
        /\ UNCHANGED items
     \/ /\ config.errorAction # "EnqueueTwiceAndLogException"
        /\ pc' = [pc EXCEPT ![c] = "idle"]
        /\ items' = [items EXCEPT ![c] = <<>>]
  /\ UNCHANGED <<service, retryCount, totals, history>>

RetryLockNotTaken == TRUE

\* lock (errorItemRetryItem) is free: a thread keeps it while it waits in Enqueue.
RetryLockFree == \A c \in Consumers : pc[c] # "requeue"

RetryLimitOffByOne == 3

\* A failed item goes back while its count is below this.
RetryLimit == 2

RetryUncounted(h) == retryCount

RetryCounted(h) == [retryCount EXCEPT ![h] = retryCount[h] + 1]

NextItemOffByOne(c) ==
  /\ items' = [items EXCEPT ![c] = Tail(items[c])]
  /\ pc' = [pc EXCEPT ![c] = IF Len(items[c]) = 0 THEN "idle" ELSE "retry"]

\* The end of one turn of items.ForEach for the head of the list.
NextItem(c) ==
  /\ items' = [items EXCEPT ![c] = Tail(items[c])]
  /\ pc' = [pc EXCEPT ![c] = IF Len(items[c]) = 1 THEN "idle" ELSE "retry"]

\* One turn of the loop up to Enqueue's lock: the third failure forgets the key and drops
\* the item; an Enqueue that finds the framework not started returns, and is counted.
RetryItem(c) ==
  LET h == HashOf[Head(items[c])]
  IN /\ pc[c] = "retry"
     /\ RetryLockFree
     /\ \/ /\ retryCount[h] >= RetryLimit
           /\ retryCount' = [retryCount EXCEPT ![h] = 0]
           /\ NextItem(c)
        \/ /\ retryCount[h] < RetryLimit
           /\ status # "Started"
           /\ retryCount' = RetryCounted(h)
           /\ NextItem(c)
        \/ /\ retryCount[h] < RetryLimit
           /\ status = "Started"
           /\ pc' = [pc EXCEPT ![c] = "requeue"]
           /\ UNCHANGED <<items, retryCount>>
     /\ UNCHANGED <<service, totals, history>>

Requeue(c) ==
  LET i == Head(items[c])
  IN /\ pc[c] = "requeue"
     /\ PutUnderLock(i)
     /\ retryCount' = RetryCounted(HashOf[i])
     /\ NextItem(c)
     /\ UNCHANGED <<status, enabled, entering, totals, history>>

Consume(c) ==
  \/ BeginRound(c)
  \/ Take(c)
  \/ ConsumeSucceeds(c)
  \/ ConsumeFails(c)
  \/ HandleError(c)
  \/ RetryItem(c)
  \/ Requeue(c)

Next ==
  \/ FrameworkStart
  \/ FrameworkEnd
  \/ Dispose
  \/ \E i \in Items : EnqueueChecksStatus(i) \/ EnqueuePuts(i)
  \/ \E c \in Consumers : Consume(c)

Spec == Init /\ [][Next]_vars

(***************************************************************************)
(* Threads run, a free lock is taken by a thread that waits for it and     *)
(* ConsumeAction returns or throws.  Nothing makes a producer call         *)
(* Enqueue, the framework end or Dispose happen.                           *)
(***************************************************************************)
FairSpec ==
  /\ Spec
  /\ \A i \in Items : WF_vars(EnqueuePuts(i))
  /\ \A c \in Consumers :
       /\ WF_vars(BeginRound(c))
       /\ WF_vars(Take(c))
       /\ WF_vars(ConsumeSucceeds(c) \/ ConsumeFails(c))
       /\ WF_vars(HandleError(c))
       /\ WF_vars(RetryItem(c))
       /\ WF_vars(Requeue(c))
----------------------------------------------------------------------------
\* Properties.

Held(c) == ElementsOf(items[c])

\* Items the service has accepted and has neither consumed nor lost.
Live == entering \cup ElementsOf(queue) \cup UNION {Held(c) : c \in Consumers}

NoRepeats(s) == \A j, k \in 1..Len(s) : s[j] = s[k] => j = k

\* Every variable has its type, and a consumer holds items exactly while it works on them.
TypeOK ==
  /\ status \in {"Starting", "Started", "Ending"}
  /\ enabled \in BOOLEAN
  /\ config \in Configuration
  /\ queue \in Seq(Items)
  /\ entering \subseteq Items
  /\ pc \in [Consumers -> {"idle", "take", "consume", "failed", "retry", "requeue",
                           "stopped"}]
  /\ items \in [Consumers -> Seq(Items)]
  /\ retryCount \in [Hashes -> 0..RetryLimit]
  /\ totalConsumeItemCount \in Nat
  /\ totalConsumeErrorItemCount \in Nat
  /\ offered \subseteq Items
  /\ consumed \subseteq Items
  /\ delivered \in [Items -> Nat]
  /\ given \in Configs
  /\ \A c \in Consumers :
       items[c] = <<>> <=> pc[c] \in {"idle", "take", "stopped"}

\* An item is in one place at a time: waiting at Enqueue, once in the queue, or once in the
\* batch of one consumer; a consumed item is in none of them, so no batch is consumed twice
\* whatever the retries of several consumers do to the queue.
ItemInOnePlace ==
  /\ NoRepeats(queue)
  /\ \A c \in Consumers : NoRepeats(items[c])
  /\ entering \cap ElementsOf(queue) = {}
  /\ \A c \in Consumers : Held(c) \cap (entering \cup ElementsOf(queue)) = {}
  /\ \A c, d \in Consumers : c # d => Held(c) \cap Held(d) = {}
  /\ consumed \cap Live = {}
  /\ consumed \cup Live \subseteq offered

\* The queue never outgrows MaxItemCount, retries of failed items included.
BoundedQueue == Len(queue) <= config.max

NoCollisions == \A i, j \in Items : HashOf[i] = HashOf[j] => i = j

\* "Re-enqueue twice": as long as no two items share a hash code, an item is handed to
\* ConsumeAction three times at most, however the failures of several threads interleave.
DeliveredAtMostThrice ==
  NoCollisions => \A i \in Items : delivered[i] <= 3

\* The calls of ConsumeAction with items of one hash code, each as its item and its number.
Attempts(h) == UNION {{i} \X (1..delivered[i]) : i \in {j \in Items : HashOf[j] = h}}

\* Items with one hash code share a retry count, so one of them may be tried more than three
\* times; together they are never tried more than three times for each of them offered.
RetriesBoundedPerHash ==
  \A h \in Hashes :
    Cardinality(Attempts(h)) <= 3 * Cardinality({i \in offered : HashOf[i] = h})

\* A setting an adjustment has changed has the value the adjustment gives it once, and the
\* adjustment's flag, set when the service began, is gone.
Once(flag, now, was, adjusted) ==
  now = was \/ (now = adjusted /\ flag \in given.actions \ config.actions)

\* Each "...Once" adjustment of a full queue happens once in the service's life, measured
\* from the configuration it began with, and none happens that was not asked for; also when
\* the log line of one of them throws half-way through Enqueue.
AdjustedAtMostOnce ==
  /\ config.actions \subseteq given.actions
  /\ Once("DoubleMaxItemCountOnce", config.max, given.max, 2 * given.max)
  /\ Once("DecreaseConsumeIntervalOnce",
          config.interval, given.interval, given.interval \div 2)
  /\ Once("DecreaseConsumeIntervalWhenErrorOnce",
          config.errorInterval, given.errorInterval, given.errorInterval \div 2)
  /\ Once("ChangeConsumeErrorAction",
          config.errorAction, given.errorAction, "AbandonAndLogException")

Fate(i) ==
  IF i \notin offered THEN "new"
  ELSE IF i \in consumed THEN "consumed"
  ELSE IF i \in Live THEN "pending" ELSE "lost"

Delivery == INSTANCE ItemDelivery WITH
  MaxAttempts <- 3,
  attempts <- delivered,
  fate <- [i \in Items |-> Fate(i)]

\* The queue implements the abstract delivery of items: as long as no two items share a hash
\* code, no item comes back once it was consumed or given up, and none is tried a fourth time.
ImplementsDelivery == Delivery!Spec

\* An accepted item is given up only because the queue is full, the error strategy abandons
\* it, its retries are used up, or the framework is no longer started.
LossIsJustified ==
  [][\A i \in Live \ (Live' \cup consumed') :
       \/ Len(queue) >= config.max
       \/ config.errorAction # "EnqueueTwiceAndLogException"
       \/ delivered[i] = 3
       \/ status # "Started"]_vars

\* Whatever leaves the queue, to a consumer or for good, is what has been in it longest.
OldestFirst ==
  [][\E n \in 0..Len(queue) :
       LET rest == SubSeq(queue, n + 1, Len(queue))
       IN queue' = rest \/ \E i \in Items : queue' = Append(rest, i)]_queue

\* Where incomplete batches are consumed, every accepted item is consumed or given up in
\* the end, unless the service is disposed first.
EveryItemLeaves ==
  \A i \in Items : (config.consumeAll /\ i \in Live) ~> (i \notin Live \/ ~enabled)

\* Dispose stops every consumer thread once its round is over; the wait of one for
\* errorItemRetryItem while another holds it and waits for memoryQueue is not a deadlock.
DisposeStopsConsumers ==
  ~enabled ~> \A c \in Consumers : pc[c] = "stopped"

\* The enum comment "re-enqueue twice" taken for both EnqueueTwice strategies: an item
\* given up by the error handling of a started framework has been delivered three times.
EnqueueTwiceRetries ==
  [][\A c \in Consumers : \A i \in Held(c) \ (Live' \cup consumed') :
       (/\ config.errorAction \in {"EnqueueTwice", "EnqueueTwiceAndLogException"}
        /\ Len(queue) < config.max
        /\ status = "Started") => delivered[i] = 3]_vars
=============================================================================
