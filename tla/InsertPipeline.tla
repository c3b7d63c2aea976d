--------------------------- MODULE InsertPipeline ---------------------------
(***************************************************************************)
(* The way of an object of one type from MongodbInsertService.Insert in an *)
(* application to the database behind MongodbServer: a memory queue and    *)
(* its threads on either side, the call SubmitData between them, the       *)
(* type's description that goes along until the server has it, and         *)
(* configuration updates, which throw the queues away on either side.      *)
(*                                                                         *)
(* A queue is what ItemDelivery promises of it: a set of items, of which a *)
(* thread takes some and may put them back when it fails; a full one loses *)
(* some.  The framework stays Started, the type is declared correctly and  *)
(* enabled for submission, and a service's Dispose is left out.            *)
(*                                                                         *)
(* A definition whose name no action uses, right above one the actions do  *)
(* use, is a plausible bug in its place: a property below notices it.      *)
(***************************************************************************)
EXTENDS Naturals, FiniteSets

CONSTANTS
  Items,        \* objects passed to Insert, each of them once
  Threads,      \* consumer threads of one queue
  MaxItemCount, \* of the queue of each side
  MaxUpdates,   \* how often a configuration changes, of either side: a bound of the model
  None          \* no thread

Sides == {"client", "server"}

ASSUME PipelineAssumption ==
  /\ IsFiniteSet(Items)
  /\ MaxItemCount \in [Sides -> Nat \ {0}]
  /\ MaxUpdates \in Nat

\* The queue objects of a side, in the order in which they are made.
Queues == 1..(MaxUpdates + 1)

Workers == Sides \X Queues \X Threads

ASSUME NoneAssumption == None \notin Workers

VARIABLES
  current,   \* submitDataMemoryQueueServices of each side: its queue, or 0
  made,      \* how many queues each side has made; all but the current are disposed
  content,   \* the items in each queue
  call,      \* where each call of Insert is, and the queue it looked up
  worker,    \* the consumer threads; those of the client run SubmitData on the server
  opened,    \* masterServerCache has the type
  openLock,  \* the thread that holds lock (masterServerCache)
  updating,  \* where the server's configuration thread is; it holds _locker unless idle
  known,     \* the server's configuration names the type and its database
  updates,   \* how many updates there were
  sent,      \* SentToServer of the description
  described, \* the description is in the database
  stored,    \* the items in the database
  \* What follows is history.
  tries,     \* how often the server tried to insert each item
  excused,   \* the server got a description when its configuration did not name the type
  disturbed  \* an update, an overflow, or a failure of the network or the database

queues == <<current, made, content>>
server == <<opened, openLock, updating, known>>
meta == <<sent, described, excused>>
data == <<stored, tries>>
vars == <<queues, call, worker, server, updates, meta, data, disturbed>>

Call == [pc : {"new", "made", "found", "put", "done"}, queue : Queues \cup {0}]

Worker ==
  [pc : {"idle", "take", "stopped", "send", "config", "make", "save", "find", "put", "answer",
         "open", "read", "fetch", "store"},
   items : SUBSET Items, todo : SUBSET Items, desc : BOOLEAN, queue : Queues \cup {0}]

TypeOK ==
  /\ current \in [Sides -> Queues \cup {0}]
  /\ made \in [Sides -> Queues \cup {0}]
  /\ \A s \in Sides : current[s] \in {0, made[s]} /\ made[s] <= updates + 1
  /\ content \in [Sides -> [Queues -> SUBSET Items]]
  /\ call \in [Items -> Call]
  /\ worker \in [Workers -> Worker]
  /\ opened \in BOOLEAN
  /\ openLock \in Workers \cup {None}
  /\ updating \in {"idle", "dispose", "clear"}
  /\ known \in BOOLEAN
  /\ updates \in 0..MaxUpdates
  /\ sent \in BOOLEAN /\ described \in BOOLEAN
  /\ excused \in BOOLEAN /\ disturbed \in BOOLEAN
  /\ stored \subseteq Items
  /\ tries \in [Items -> Nat]

Idle == [pc |-> "idle", items |-> {}, todo |-> {}, desc |-> FALSE, queue |-> 0]

Init ==
  /\ current = [s \in Sides |-> 0]
  /\ made = [s \in Sides |-> 0]
  /\ content = [s \in Sides |-> [q \in Queues |-> {}]]
  /\ call = [i \in Items |-> [pc |-> "new", queue |-> 0]]
  /\ worker = [w \in Workers |-> Idle]
  /\ opened = FALSE /\ openLock = None /\ updating = "idle"
  /\ known \in BOOLEAN
  /\ updates = 0
  /\ sent = FALSE /\ described = FALSE
  /\ stored = {}
  /\ tries = [i \in Items |-> 0]
  /\ excused = FALSE /\ disturbed = FALSE

----------------------------------------------------------------------------
\* What both sides do with their queues.

\* The double-checked creation of a queue and its threads.
Provide(s) ==
  /\ current' = [current EXCEPT ![s] = IF current[s] = 0 THEN made[s] + 1 ELSE current[s]]
  /\ made' = [made EXCEPT ![s] = IF current[s] = 0 THEN made[s] + 1 ELSE made[s]]
  /\ UNCHANGED content

\* Enqueue and EnqueueBatch, into a disposed queue as into any other.  A full queue abandons
\* old items or the new one, or doubles its size.
Enqueue(s, q, S) ==
  /\ \E kept \in SUBSET (content[s][q] \cup S) :
       /\ IF Cardinality(content[s][q] \cup S) <= MaxItemCount[s]
            THEN kept = content[s][q] \cup S /\ UNCHANGED disturbed
            ELSE Cardinality(kept) >= MaxItemCount[s] /\ disturbed' = TRUE
       /\ content' = [content EXCEPT ![s][q] = kept]
  /\ UNCHANGED <<current, made>>

\* Dispose of the queue and the removal of it, under lock (submitDataMemoryQueueServices).
DropQueueAhead(s) == current' = [current EXCEPT ![s] = made[s] + 1] /\ UNCHANGED <<made, content>>

DropQueue(s) == current' = [current EXCEPT ![s] = 0] /\ UNCHANGED <<made, content>>

----------------------------------------------------------------------------
\* Insert.

CallGoes(i, l, q) == call' = [call EXCEPT ![i] = [pc |-> l, queue |-> q]]

InsertMakes(i) ==
  /\ call[i].pc = "new"
  /\ Provide("client")
  /\ CallGoes(i, "made", 0)
  /\ UNCHANGED <<worker, server, updates, meta, data, disturbed>>

\* ContainsKey again: without a queue the item is dropped.
InsertChecks(i) ==
  /\ call[i].pc = "made"
  /\ CallGoes(i, IF current["client"] = 0 THEN "done" ELSE "found", 0)
  /\ UNCHANGED <<queues, worker, server, updates, meta, data, disturbed>>

\* The indexer throws when the key is gone.
InsertFinds(i) ==
  /\ call[i].pc = "found"
  /\ IF current["client"] = 0 THEN CallGoes(i, "done", 0) ELSE CallGoes(i, "put", current["client"])
  /\ UNCHANGED <<queues, worker, server, updates, meta, data, disturbed>>

InsertPuts(i) ==
  /\ call[i].pc = "put"
  /\ Enqueue("client", call[i].queue, {i})
  /\ CallGoes(i, "done", 0)
  /\ UNCHANGED <<worker, server, updates, meta, data>>

InsertGoesOn(i) == InsertChecks(i) \/ InsertFinds(i) \/ InsertPuts(i)

----------------------------------------------------------------------------
\* A consumer thread of either side.

At(w, l) == worker[w].pc = l

Becomes(w, r) == worker' = [worker EXCEPT ![w] = r]

Goes(w, l) == Becomes(w, [worker[w] EXCEPT !.pc = l])

BeginRoundWhileTrue(w) == w[2] <= made[w[1]] /\ At(w, "idle") /\ Goes(w, "take")

\* while (Enabled)
BeginRound(w) ==
  /\ w[2] <= made[w[1]]
  /\ At(w, "idle")
  /\ Goes(w, IF w[2] = current[w[1]] THEN "take" ELSE "stopped")

Begin(w) ==
  /\ BeginRound(w)
  /\ UNCHANGED <<queues, call, server, updates, meta, data, disturbed>>

Take(w) ==
  /\ At(w, "take")
  /\ \E S \in SUBSET content[w[1]][w[2]] :
       /\ S = {} => content[w[1]][w[2]] = {}
       /\ content' = [content EXCEPT ![w[1]][w[2]] = @ \ S]
       /\ Becomes(w, IF S = {} THEN Idle
                     ELSE [Idle EXCEPT !.items = S, !.todo = S,
                                       !.pc = IF w[1] = "client" THEN "send" ELSE "open"])
  /\ UNCHANGED <<current, made, call, server, updates, meta, data, disturbed>>

----------------------------------------------------------------------------
\* CreateMasterMongoServer, which reads the configuration while it holds the lock.

OpenChecks(w) ==
  /\ At(w, "open")
  /\ IF opened THEN Goes(w, "fetch") /\ UNCHANGED openLock
     ELSE openLock = None /\ openLock' = w /\ Goes(w, "read")
  /\ UNCHANGED <<queues, call, opened, updating, known, updates, meta, data, disturbed>>

\* The thread goes on without a server: SubmitData without storing the description, the
\* server's thread without its batch.
WithoutServer(w) ==
  /\ Becomes(w, IF w[1] = "client" THEN [worker[w] EXCEPT !.pc = "find", !.desc = FALSE] ELSE Idle)
  /\ excused' = (excused \/ w[1] = "client")

OpenReads(w) ==
  /\ At(w, "read")
  /\ updating = "idle"
  /\ openLock' = None
  /\ IF known THEN opened' = TRUE /\ Goes(w, "fetch") /\ UNCHANGED excused
     ELSE WithoutServer(w) /\ UNCHANGED opened
  /\ UNCHANGED <<queues, call, updating, known, updates, sent, described, data, disturbed>>

\* Without the lock.  Where the key is gone it throws, and SubmitData with it; the batch of
\* a server's thread is abandoned or put back, as ConsumeErrorAction says.
OpenFetches(w) ==
  /\ At(w, "fetch")
  /\ \/ /\ opened
        /\ Goes(w, IF w[1] = "client" THEN "save" ELSE "store")
        /\ UNCHANGED content
     \/ ~opened /\ Becomes(w, Idle) /\ UNCHANGED content
     \/ /\ ~opened /\ w[1] = "server"
        /\ Becomes(w, Idle)
        /\ content' = [content EXCEPT !["server"][w[2]] = @ \cup worker[w].items]
  /\ UNCHANGED <<current, made, call, server, updates, meta, data, disturbed>>

----------------------------------------------------------------------------
\* InternalSubmitData of the client, and SubmitData of the server.

\* No exception leaves InternalSubmitData, so the batch is gone when the call fails.
Send(w) ==
  /\ At(w, "send")
  /\ \/ /\ Becomes(w, [worker[w] EXCEPT !.pc = "config", !.desc = ~sent])
        /\ UNCHANGED disturbed
     \/ Becomes(w, Idle) /\ disturbed' = TRUE
  /\ UNCHANGED <<queues, call, server, updates, meta, data>>

\* A type that the configuration does not name: SubmitData returns.
ReadsConfig(w) ==
  /\ At(w, "config")
  /\ updating = "idle"
  /\ IF known THEN Goes(w, "make") /\ UNCHANGED excused
     ELSE /\ Becomes(w, [Idle EXCEPT !.pc = "answer"])
          /\ excused' = (excused \/ worker[w].desc)
  /\ UNCHANGED <<queues, call, server, updates, sent, described, data, disturbed>>

MakesQueue(w) ==
  /\ At(w, "make")
  /\ Provide("server")
  /\ Goes(w, IF worker[w].desc THEN "open" ELSE "find")
  /\ UNCHANGED <<call, server, updates, meta, data, disturbed>>

AnswersAtOnce(w) == Becomes(w, [Idle EXCEPT !.pc = "answer"])

GoesOnWithData(w) == Becomes(w, [worker[w] EXCEPT !.pc = "find", !.desc = FALSE])

FailureIsLogged(w) == GoesOnWithData(w)

\* The handler in InitMongodbDatabaseDescription throws too: its format string has one
\* argument too few.  The exception leaves SubmitData, and the data are not enqueued.
FailureIsThrown(w) == Becomes(w, Idle)

\* A save that fails may have been carried out.
SavesDescription(w) ==
  /\ At(w, "save")
  /\ \/ described' = TRUE /\ GoesOnWithData(w) /\ UNCHANGED disturbed
     \/ described' \in {described, TRUE} /\ FailureIsThrown(w) /\ disturbed' = TRUE
  /\ UNCHANGED <<queues, call, server, updates, sent, excused, data>>

\* The indexer throws when the key is gone, and SubmitData with it.
FindsQueue(w) ==
  /\ At(w, "find")
  /\ Becomes(w, IF current["server"] = 0 THEN Idle
                ELSE [worker[w] EXCEPT !.pc = "put", !.queue = current["server"]])
  /\ UNCHANGED <<queues, call, server, updates, meta, data, disturbed>>

PutsBatch(w) ==
  /\ At(w, "put")
  /\ Enqueue("server", worker[w].queue, worker[w].items)
  /\ Becomes(w, [Idle EXCEPT !.pc = "answer"])
  /\ UNCHANGED <<call, server, updates, meta, data>>

\* The answer may be lost, or late.
Answered(w) ==
  /\ At(w, "answer")
  /\ Becomes(w, Idle)
  /\ sent' = TRUE \/ UNCHANGED sent
  /\ UNCHANGED <<queues, call, server, updates, described, excused, data, disturbed>>

----------------------------------------------------------------------------
\* InternalSubmitData of the server: item by item, and a failure is only logged.

FailureEndsBatch(w, i) ==
  /\ Becomes(w, Idle)
  /\ content' = [content EXCEPT !["server"][w[2]] = @ \cup worker[w].items]

FailureIsSkipped(w, i) ==
  /\ Becomes(w, [worker[w] EXCEPT !.todo = @ \ {i}])
  /\ UNCHANGED content

StoresItem(w) ==
  /\ At(w, "store")
  /\ \E i \in worker[w].todo :
       /\ tries' = [tries EXCEPT ![i] = @ + 1]
       /\ \/ /\ stored' = stored \cup {i}
             /\ Becomes(w, [worker[w] EXCEPT !.todo = @ \ {i}])
             /\ UNCHANGED <<content, disturbed>>
          \/ /\ FailureIsSkipped(w, i)
             /\ disturbed' = TRUE
             /\ UNCHANGED stored
  /\ UNCHANGED <<current, made, call, server, updates, meta>>

EndsBatch(w) ==
  /\ At(w, "store")
  /\ worker[w].todo = {}
  /\ Becomes(w, Idle)
  /\ UNCHANGED <<queues, call, server, updates, meta, data, disturbed>>

WorkerStep(w) ==
  \/ Begin(w) \/ Take(w)
  \/ OpenChecks(w) \/ OpenReads(w) \/ OpenFetches(w)
  \/ Send(w) \/ ReadsConfig(w) \/ MakesQueue(w) \/ SavesDescription(w)
  \/ FindsQueue(w) \/ PutsBatch(w) \/ Answered(w)
  \/ StoresItem(w) \/ EndsBatch(w)

----------------------------------------------------------------------------
\* Configuration updates.

\* ConfigUpdateCallback of the client takes one lock that no step of another thread keeps.
ClientUpdate ==
  /\ updates < MaxUpdates
  /\ updates' = updates + 1
  /\ DropQueue("client")
  /\ disturbed' = TRUE
  /\ UNCHANGED <<call, worker, server, meta, data>>

\* The configuration service of the server has taken the write lock and calls back.
UpdateBegins ==
  /\ updating = "idle"
  /\ updates < MaxUpdates
  /\ updates' = updates + 1
  /\ updating' = "dispose"
  /\ known' \in BOOLEAN
  /\ disturbed' = TRUE
  /\ UNCHANGED <<queues, call, worker, opened, openLock, meta, data>>

UpdateDisposes ==
  /\ updating = "dispose"
  /\ DropQueue("server")
  /\ updating' = "clear"
  /\ UNCHANGED <<call, worker, opened, openLock, known, updates, meta, data, disturbed>>

\* lock (masterServerCache), while the write lock is held.
UpdateClears ==
  /\ updating = "clear"
  /\ openLock = None
  /\ opened' = FALSE
  /\ updating' = "idle"
  /\ UNCHANGED <<queues, call, worker, openLock, known, updates, meta, data, disturbed>>

UpdateGoesOn == UpdateDisposes \/ UpdateClears

Next ==
  \/ \E i \in Items : InsertMakes(i) \/ InsertGoesOn(i)
  \/ \E w \in Workers : WorkerStep(w)
  \/ ClientUpdate \/ UpdateBegins \/ UpdateGoesOn

Spec == Init /\ [][Next]_vars

\* A call of Insert goes on, threads run, and so does an update once it has begun.
FairSpec ==
  /\ Spec
  /\ \A i \in Items : WF_vars(InsertGoesOn(i))
  /\ \A w \in Workers : WF_vars(WorkerStep(w))
  /\ WF_vars(UpdateGoesOn)

----------------------------------------------------------------------------
\* Properties.

\* The server gets to know a type before it gets data of it, and the client stops sending
\* the description only then, whatever fails and however often it is sent; unless the
\* server got one when its configuration did not name the type, and answered as if it had
\* stored it.
DescriptionComesFirst ==
  sent \/ stored # {} \/ (\E q \in Queues : content["server"][q] # {}) => described \/ excused

Underway(i) ==
  \/ call[i].pc \in {"made", "found", "put"}
  \/ \E s \in Sides : \E q \in Queues : i \in content[s][q]
  \/ \E w \in Workers : i \in worker[w].items

Fate(i) ==
  IF call[i].pc = "new" THEN "new"
  ELSE IF i \in stored THEN "consumed"
  ELSE IF Underway(i) THEN "pending" ELSE "lost"

Delivery == INSTANCE ItemDelivery WITH
  MaxAttempts <- 1,
  attempts <- tries,
  fate <- [i \in Items |-> Fate(i)]

\* From end to end the server tries to insert an item once at most, whatever is put back,
\* sent again or thrown away on the way; an item that was stored or lost does not return.
InsertedAtMostOnce == Delivery!Spec

\* The update holds the write lock of the configuration and waits for the lock of the
\* servers, whose holder waits for the configuration.
Deadlocked == updating = "clear" /\ openLock # None /\ worker[openLock].pc = "read"

\* The threads of a queue that was thrown away come to an end, wherever they were, or the
\* update that threw it away is deadlocked.
OldThreadsEnd ==
  \A w \in Workers :
    w[2] <= made[w[1]] /\ w[2] # current[w[1]] ~> At(w, "stopped") \/ Deadlocked

\* Where nothing happens to the two sides, every item gets into the database.
ItemsAreStored ==
  \A i \in Items : call[i].pc # "new" ~> i \in stored \/ disturbed \/ ~known
=============================================================================
