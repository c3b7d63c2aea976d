------------------------- MODULE InsertPipelineProofs -------------------------
(***************************************************************************)
(* Proofs about InsertPipeline for every set of items and of threads, every *)
(* capacity of the queues and every number of updates.                     *)
(***************************************************************************)
EXTENDS InsertPipeline, TLAPS

----------------------------------------------------------------------------
\* The inductive invariant.

Client(w) == w[1] = "client"

Server(w) == w[1] = "server"

\* There is a queue number left for whoever finds that there is no queue.
QueuesAreLeft ==
  \A s \in Sides :
    LET missing == IF current[s] = 0 THEN 1 ELSE 0
        due == IF s = "server" /\ updating = "dispose" THEN 1 ELSE 0
    IN  made[s] + missing + due <= updates + 1

\* What a thread of either side may be at, and that a batch is whole until it is stored.
Proper(w, r) ==
  /\ r \in Worker
  /\ Client(w) => r.pc # "store"
  /\ Server(w) => r.pc \in {"idle", "take", "stopped", "open", "read", "fetch", "store"}
  /\ r.pc = "put" => r.queue \in Queues
  /\ r.todo \subseteq r.items
  /\ r.pc # "store" => r.todo = r.items

Roles ==
  /\ \A i \in Items : call[i].pc = "put" => call[i].queue \in Queues
  /\ \A w \in Workers : Proper(w, worker[w])

Shape == TypeOK /\ QueuesAreLeft /\ Roles

Calling(i) == call[i].pc # "done"

Queued(i, s, q) == i \in content[s][q]

Held(i, w) == i \in worker[w].todo

\* An item is with its caller, in one queue or with one thread, or nowhere.
OnePlace ==
  \A i \in Items :
    /\ \A s \in Sides, q \in Queues :
         Queued(i, s, q) => /\ ~Calling(i)
                            /\ \A r \in Sides, p \in Queues : Queued(i, r, p) => r = s /\ p = q
    /\ \A w \in Workers :
         Held(i, w) => /\ ~Calling(i)
                       /\ \A s \in Sides, q \in Queues : ~Queued(i, s, q)
                       /\ \A v \in Workers : Held(i, v) => v = w

Around(i) ==
  \/ Calling(i)
  \/ \E s \in Sides, q \in Queues : Queued(i, s, q)
  \/ \E w \in Workers : Held(i, w)

\* No item that is still somewhere has been tried.
Untried == \A i \in Items : Around(i) => tries[i] = 0 /\ i \notin stored

Told == described \/ excused

\* A thread that carries data the description must precede, or the client's news of it.
Needs(w, r) ==
  \/ Client(w) /\ r.pc \in {"config", "make"} /\ ~r.desc
  \/ Client(w) /\ r.pc \in {"find", "put", "answer"}
  \/ Server(w) /\ r.todo # {}

DescriptionLeads == \A w \in Workers : Needs(w, worker[w]) => Told

IInv == Shape /\ OnePlace /\ Untried /\ DescriptionLeads /\ DescriptionComesFirst

----------------------------------------------------------------------------
\* Facts about data.

LEMMA SideFacts == "client" \in Sides /\ "server" \in Sides /\ \A s \in Sides : s = "client" \/ s = "server"
BY DEF Sides

LEMMA QueueFacts ==
  /\ \A q \in Queues : q \in Nat /\ q # 0
  /\ \A n \in Nat : n <= MaxUpdates => n + 1 \in Queues
  /\ \A q \in Queues : q <= MaxUpdates + 1
BY PipelineAssumption DEF Queues

LEMMA WorkerParts ==
  ASSUME NEW w \in Workers
  PROVE  /\ w[1] \in Sides /\ w[2] \in Queues
         /\ Client(w) \/ Server(w)
         /\ ~(Client(w) /\ Server(w))
BY DEF Workers, Sides, Client, Server

LEMMA IdleType == Idle \in Worker
BY DEF Idle, Worker

\* A thread's step changes that thread and no other.
LEMMA BecomesFacts ==
  ASSUME TypeOK, NEW w \in Workers, NEW r, Becomes(w, r)
  PROVE  /\ worker'[w] = r
         /\ \A v \in Workers : v # w => worker'[v] = worker[v]
         /\ r \in Worker => worker' \in [Workers -> Worker]
BY DEF TypeOK, Becomes

\* One queue gets new contents.
LEMMA ContentFacts ==
  ASSUME TypeOK, NEW s \in Sides, NEW q \in Queues, NEW K \in SUBSET Items,
         content' = [content EXCEPT ![s][q] = K]
  PROVE  /\ content' \in [Sides -> [Queues -> SUBSET Items]]
         /\ content'[s][q] = K
         /\ \A r \in Sides, p \in Queues : r # s \/ p # q => content'[r][p] = content[r][p]
BY DEF TypeOK

\* Enqueue leaves in the queue what it finds and what it gets, or less.
LEMMA EnqueueFacts ==
  ASSUME TypeOK, NEW s \in Sides, NEW q \in Queues, NEW S \in SUBSET Items, Enqueue(s, q, S)
  PROVE  /\ content' \in [Sides -> [Queues -> SUBSET Items]]
         /\ content'[s][q] \subseteq content[s][q] \cup S
         /\ \A r \in Sides, p \in Queues : r # s \/ p # q => content'[r][p] = content[r][p]
         /\ disturbed' \in BOOLEAN
         /\ UNCHANGED <<current, made>>
<1>1. PICK K \in SUBSET (content[s][q] \cup S) : content' = [content EXCEPT ![s][q] = K]
  BY DEF Enqueue
<1>2. content[s][q] \subseteq Items
  BY DEF TypeOK
<1>3. K \in SUBSET Items
  BY <1>1, <1>2
<1>4. disturbed' \in BOOLEAN /\ UNCHANGED <<current, made>>
  BY DEF Enqueue, TypeOK
<1>5. /\ content' \in [Sides -> [Queues -> SUBSET Items]]
      /\ content'[s][q] = K
      /\ \A r \in Sides, p \in Queues : r # s \/ p # q => content'[r][p] = content[r][p]
  BY <1>1, <1>3, ContentFacts
<1> QED BY <1>1, <1>4, <1>5

\* A queue that is missing is made with the next number.
LEMMA ProvideFacts ==
  ASSUME TypeOK, QueuesAreLeft, NEW s \in Sides, Provide(s), UNCHANGED <<updates, updating>>
  PROVE  /\ current' \in [Sides -> Queues \cup {0}] /\ made' \in [Sides -> Queues \cup {0}]
         /\ \A r \in Sides : current'[r] \in {0, made'[r]} /\ made'[r] <= updates' + 1
         /\ QueuesAreLeft'
         /\ UNCHANGED content
<1>1. CASE current[s] = 0
  <2>a. updates \in Nat /\ updates <= MaxUpdates
    BY PipelineAssumption DEF TypeOK
  <2>b. made[s] \in Nat
    BY QueueFacts DEF TypeOK
  <2>c. made[s] + 1 + (IF s = "server" /\ updating = "dispose" THEN 1 ELSE 0) <= updates + 1
    BY <1>1 DEF QueuesAreLeft
  <2>1. made[s] \in Nat /\ updates \in Nat /\ updates <= MaxUpdates /\ made[s] + 1 <= updates + 1
    BY <2>a, <2>b, <2>c
  <2>2. made[s] + 1 \in Queues
    BY <2>1, QueueFacts, PipelineAssumption
  <2>3. /\ current' = [current EXCEPT ![s] = made[s] + 1]
        /\ made' = [made EXCEPT ![s] = made[s] + 1]
    BY <1>1 DEF Provide
  <2>4. QueuesAreLeft'
    <3> SUFFICES ASSUME NEW r \in Sides
                 PROVE  made'[r] + (IF current'[r] = 0 THEN 1 ELSE 0)
                          + (IF r = "server" /\ updating' = "dispose" THEN 1 ELSE 0) <= updates' + 1
      BY DEF QueuesAreLeft
    <3>1. made[r] + (IF current[r] = 0 THEN 1 ELSE 0)
            + (IF r = "server" /\ updating = "dispose" THEN 1 ELSE 0) <= updates + 1
      BY DEF QueuesAreLeft
    <3>2. CASE r = s
      BY <1>1, <2>1, <2>3, <3>1, <3>2 DEF TypeOK
    <3>3. CASE r # s
      BY <2>3, <3>1, <3>3 DEF TypeOK
    <3> QED BY <3>2, <3>3
  <2> QED BY <2>1, <2>2, <2>3, <2>4 DEF Provide, TypeOK
<1>2. CASE current[s] # 0
  <2>1. current' = current /\ made' = made /\ content' = content
    BY <1>2 DEF Provide, TypeOK
  <2> QED BY <2>1 DEF TypeOK, QueuesAreLeft
<1> QED BY <1>1, <1>2

----------------------------------------------------------------------------
\* Initially.

LEMMA InitHolds == Init => IInv
<1> SUFFICES ASSUME Init PROVE IInv
  OBVIOUS
<1>a. /\ current \in [Sides -> Queues \cup {0}] /\ made \in [Sides -> Queues \cup {0}]
      /\ \A s \in Sides : current[s] \in {0, made[s]} /\ made[s] <= updates + 1
      /\ content \in [Sides -> [Queues -> SUBSET Items]]
  BY DEF Init
<1>b. call \in [Items -> Call] /\ worker \in [Workers -> Worker] /\ tries \in [Items -> Nat]
  BY IdleType DEF Init, Call
<1>c. updates \in 0..MaxUpdates /\ updating \in {"idle", "dispose", "clear"}
  BY PipelineAssumption DEF Init
<1>1. TypeOK
  BY <1>a, <1>b, <1>c DEF Init, TypeOK
<1>2. QueuesAreLeft
  BY DEF Init, QueuesAreLeft
<1>3. Roles
  BY IdleType DEF Init, Roles, Proper, Idle
<1>4. OnePlace /\ Untried
  BY DEF Init, OnePlace, Untried, Queued, Held, Idle
<1>5. DescriptionLeads /\ DescriptionComesFirst
  BY SideFacts DEF Init, DescriptionLeads, Needs, DescriptionComesFirst, Idle
<1> QED BY <1>1, <1>2, <1>3, <1>4, <1>5 DEF IInv, Shape

----------------------------------------------------------------------------
\* Types, queue numbers and roles.

LEMMA ProperIdle == ASSUME NEW w \in Workers PROVE Proper(w, Idle)
BY IdleType DEF Proper, Idle

LEMMA ProperAnswer ==
  ASSUME NEW w \in Workers, Client(w)
  PROVE  Proper(w, [Idle EXCEPT !.pc = "answer"])
BY WorkerParts DEF Proper, Idle, Worker

\* A thread that goes on with its batch.
LEMMA ProperGoto ==
  ASSUME Shape, NEW w \in Workers, worker[w].pc # "store",
         NEW l \in {"idle", "take", "stopped", "send", "config", "make", "save", "find", "answer",
                    "open", "read", "fetch"},
         Server(w) => l \in {"idle", "take", "stopped", "open", "read", "fetch"}
  PROVE  Proper(w, [worker[w] EXCEPT !.pc = l])
BY DEF Shape, Roles, Proper, Worker

\* A step of one thread that makes no queue.
LEMMA WorkerShape ==
  ASSUME Shape, NEW w \in Workers, NEW r, Becomes(w, r), Proper(w, r),
         UNCHANGED <<current, made, call, updating, known, updates>>,
         content' \in [Sides -> [Queues -> SUBSET Items]],
         opened' \in BOOLEAN, openLock' \in Workers \cup {None},
         sent' \in BOOLEAN, described' \in BOOLEAN, excused' \in BOOLEAN, disturbed' \in BOOLEAN,
         stored' \in SUBSET Items, tries' \in [Items -> Nat]
  PROVE  Shape'
<1>1. TypeOK' /\ \A v \in Workers : worker'[v] = IF v = w THEN r ELSE worker[v]
  <2>1. worker' \in [Workers -> Worker]
        /\ \A v \in Workers : worker'[v] = IF v = w THEN r ELSE worker[v]
    BY BecomesFacts DEF Proper, Shape
  <2> QED BY <2>1 DEF TypeOK, Shape
<1>2. QueuesAreLeft'
  BY DEF QueuesAreLeft, Shape
<1>3. Roles'
  BY <1>1 DEF Roles, Shape, Proper
<1> QED BY <1>1, <1>2, <1>3 DEF Shape

LEMMA BeginShape ==
  ASSUME Shape, NEW w \in Workers, Begin(w)
  PROVE  Shape'
<1> DEFINE l == IF w[2] = current[w[1]] THEN "take" ELSE "stopped"
           r == [worker[w] EXCEPT !.pc = l]
<1>1. Becomes(w, r) /\ worker[w].pc = "idle"
  BY DEF Begin, BeginRound, Goes, At
<1>2. Proper(w, r)
  BY <1>1, ProperGoto
<1> HIDE DEF r
<1> QED
  BY <1>1, <1>2, WorkerShape
     DEF Begin, queues, server, meta, data, Shape, TypeOK

LEMMA TakeShape ==
  ASSUME Shape, NEW w \in Workers, Take(w)
  PROVE  Shape'
<1>1. w[1] \in Sides /\ w[2] \in Queues /\ (Client(w) \/ Server(w))
  BY WorkerParts
<1>2. PICK S \in SUBSET content[w[1]][w[2]] :
        /\ content' = [content EXCEPT ![w[1]][w[2]] = @ \ S]
        /\ Becomes(w, IF S = {} THEN Idle
                      ELSE [Idle EXCEPT !.items = S, !.todo = S,
                                        !.pc = IF w[1] = "client" THEN "send" ELSE "open"])
  BY DEF Take
<1> DEFINE l == IF w[1] = "client" THEN "send" ELSE "open"
           r == IF S = {} THEN Idle ELSE [Idle EXCEPT !.items = S, !.todo = S, !.pc = l]
<1>3. S \in SUBSET Items /\ content[w[1]][w[2]] \ S \in SUBSET Items
  BY <1>1 DEF Shape, TypeOK
<1>4. content' \in [Sides -> [Queues -> SUBSET Items]]
  BY <1>1, <1>2, <1>3, ContentFacts DEF Shape
<1>5. Becomes(w, r)
  BY <1>2
<1>6. Proper(w, r)
  <2>1. CASE S = {}
    BY <2>1, ProperIdle
  <2>2. CASE S # {}
    BY <1>1, <1>3, <2>2, WorkerParts DEF Proper, Idle, Worker, Client, Server
  <2> QED BY <2>1, <2>2
<1> HIDE DEF r
<1> QED
  BY <1>4, <1>5, <1>6, WorkerShape
     DEF Take, queues, server, meta, data, Shape, TypeOK

LEMMA OpenChecksShape ==
  ASSUME Shape, NEW w \in Workers, OpenChecks(w)
  PROVE  Shape'
<1> DEFINE l == IF opened THEN "fetch" ELSE "read"
           r == [worker[w] EXCEPT !.pc = l]
<1>1. Becomes(w, r) /\ worker[w].pc = "open"
  BY DEF OpenChecks, Goes, At
<1>2. Proper(w, r)
  BY <1>1, ProperGoto
<1>3. openLock' \in Workers \cup {None}
  BY DEF OpenChecks, Shape, TypeOK
<1> HIDE DEF r
<1> QED
  BY <1>1, <1>2, <1>3, WorkerShape
     DEF OpenChecks, queues, server, meta, data, Shape, TypeOK

\* What a thread without a server becomes.
LEMMA WithoutServerProper ==
  ASSUME Shape, NEW w \in Workers, worker[w].pc # "store", WithoutServer(w)
  PROVE  /\ excused' \in BOOLEAN
         /\ \E r : Becomes(w, r) /\ Proper(w, r)
<1> DEFINE r == IF w[1] = "client" THEN [worker[w] EXCEPT !.pc = "find", !.desc = FALSE] ELSE Idle
<1>1. Becomes(w, r)
  BY DEF WithoutServer
<1>2. Proper(w, r)
  <2>1. CASE w[1] = "client"
    BY <2>1, WorkerParts DEF Shape, Roles, Proper, Worker, Client, Server
  <2>2. CASE w[1] # "client"
    BY <2>2, ProperIdle
  <2> QED BY <2>1, <2>2
<1>3. excused' \in BOOLEAN
  BY DEF WithoutServer, Shape, TypeOK
<1> HIDE DEF r
<1> QED BY <1>1, <1>2, <1>3

LEMMA OpenReadsShape ==
  ASSUME Shape, NEW w \in Workers, OpenReads(w)
  PROVE  Shape'
<1>1. worker[w].pc = "read"
  BY DEF OpenReads, At
<1>2. /\ excused' \in BOOLEAN /\ opened' \in BOOLEAN
      /\ \E r : Becomes(w, r) /\ Proper(w, r)
  <2>1. CASE known
    <3>1. Becomes(w, [worker[w] EXCEPT !.pc = "fetch"])
      BY <2>1 DEF OpenReads, Goes
    <3>2. Proper(w, [worker[w] EXCEPT !.pc = "fetch"])
      BY <1>1, ProperGoto
    <3>3. excused' \in BOOLEAN /\ opened' \in BOOLEAN
      BY <2>1 DEF OpenReads, Shape, TypeOK
    <3> QED BY <3>1, <3>2, <3>3
  <2>2. CASE ~known
    <3>1. WithoutServer(w) /\ opened' \in BOOLEAN
      BY <2>2 DEF OpenReads, Shape, TypeOK
    <3> QED BY <1>1, <3>1, WithoutServerProper
  <2> QED BY <2>1, <2>2
<1> QED
  BY <1>2, WorkerShape DEF OpenReads, queues, server, meta, data, Shape, TypeOK

LEMMA OpenFetchesShape ==
  ASSUME Shape, NEW w \in Workers, OpenFetches(w)
  PROVE  Shape'
<1>1. worker[w].pc = "fetch" /\ w[2] \in Queues /\ (Client(w) \/ Server(w))
  BY WorkerParts DEF OpenFetches, At
<1>2. content' \in [Sides -> [Queues -> SUBSET Items]]
  <2>1. CASE content' = content
    BY <2>1 DEF Shape, TypeOK
  <2>2. CASE content' = [content EXCEPT !["server"][w[2]] = @ \cup worker[w].items]
    <3>1. content["server"][w[2]] \cup worker[w].items \in SUBSET Items
      BY <1>1, SideFacts DEF Shape, TypeOK, Worker
    <3> QED BY <1>1, <2>2, <3>1, SideFacts, ContentFacts DEF Shape
  <2> QED BY <2>1, <2>2 DEF OpenFetches
<1>3. \E r : Becomes(w, r) /\ Proper(w, r)
  <2>1. CASE Becomes(w, Idle)
    BY <2>1, ProperIdle
  <2>2. CASE ~Becomes(w, Idle)
    <3> DEFINE l == IF w[1] = "client" THEN "save" ELSE "store"
               r == [worker[w] EXCEPT !.pc = l]
    <3>1. Becomes(w, r)
      BY <2>2 DEF OpenFetches, Goes
    <3>2. Proper(w, r)
      BY <1>1, WorkerParts DEF Shape, Roles, Proper, Worker, Client, Server
    <3> HIDE DEF r
    <3> QED BY <3>1, <3>2
  <2> QED BY <2>1, <2>2
<1> QED
  BY <1>2, <1>3, WorkerShape DEF OpenFetches, queues, server, meta, data, Shape, TypeOK

LEMMA SendShape ==
  ASSUME Shape, NEW w \in Workers, Send(w), Client(w)
  PROVE  Shape'
<1>1. worker[w].pc = "send"
  BY DEF Send, At
<1>2. disturbed' \in BOOLEAN /\ \E r : Becomes(w, r) /\ Proper(w, r)
  <2>1. CASE Becomes(w, Idle) /\ disturbed' = TRUE
    BY <2>1, ProperIdle
  <2>2. CASE Becomes(w, [worker[w] EXCEPT !.pc = "config", !.desc = ~sent]) /\ UNCHANGED disturbed
    <3> DEFINE r == [worker[w] EXCEPT !.pc = "config", !.desc = ~sent]
    <3>1. Proper(w, r)
      BY <1>1, WorkerParts DEF Shape, TypeOK, Roles, Proper, Worker
    <3> HIDE DEF r
    <3> QED BY <2>2, <3>1 DEF Shape, TypeOK, r
  <2> QED BY <2>1, <2>2 DEF Send
<1> QED
  BY <1>2, WorkerShape DEF Send, queues, server, meta, data, Shape, TypeOK

LEMMA ReadsConfigShape ==
  ASSUME Shape, NEW w \in Workers, ReadsConfig(w), Client(w)
  PROVE  Shape'
<1>1. worker[w].pc = "config"
  BY DEF ReadsConfig, At
<1>2. excused' \in BOOLEAN /\ \E r : Becomes(w, r) /\ Proper(w, r)
  <2>1. CASE known
    <3>1. Becomes(w, [worker[w] EXCEPT !.pc = "make"]) /\ excused' = excused
      BY <2>1 DEF ReadsConfig, Goes
    <3>2. Proper(w, [worker[w] EXCEPT !.pc = "make"])
      BY <1>1, WorkerParts, ProperGoto
    <3> QED BY <3>1, <3>2 DEF Shape, TypeOK
  <2>2. CASE ~known
    <3>1. Becomes(w, [Idle EXCEPT !.pc = "answer"]) /\ excused' = (excused \/ worker[w].desc)
      BY <2>2 DEF ReadsConfig
    <3>2. excused' \in BOOLEAN
      BY <3>1 DEF Shape, TypeOK
    <3> QED BY <3>1, <3>2, ProperAnswer
  <2> QED BY <2>1, <2>2
<1> QED
  BY <1>2, WorkerShape DEF ReadsConfig, queues, server, meta, data, Shape, TypeOK

LEMMA MakesQueueShape ==
  ASSUME Shape, NEW w \in Workers, MakesQueue(w), Client(w)
  PROVE  Shape'
<1> DEFINE l == IF worker[w].desc THEN "open" ELSE "find"
           r == [worker[w] EXCEPT !.pc = l]
<1>1. Becomes(w, r) /\ worker[w].pc = "make" /\ Provide("server")
  BY DEF MakesQueue, Goes, At
<1>2. Proper(w, r)
  BY <1>1, WorkerParts, ProperGoto
<1> HIDE DEF r
<1>3. worker' \in [Workers -> Worker] /\ worker'[w] = r
      /\ \A v \in Workers : v # w => worker'[v] = worker[v]
  BY <1>1, <1>2, BecomesFacts DEF Shape, Proper
<1>4. /\ current' \in [Sides -> Queues \cup {0}] /\ made' \in [Sides -> Queues \cup {0}]
      /\ \A s \in Sides : current'[s] \in {0, made'[s]} /\ made'[s] <= updates' + 1
      /\ QueuesAreLeft' /\ UNCHANGED content
  BY <1>1, SideFacts, ProvideFacts DEF MakesQueue, server, Shape
<1>5. TypeOK'
  BY <1>3, <1>4 DEF MakesQueue, server, meta, data, Shape, TypeOK
<1>6. Roles'
  BY <1>2, <1>3 DEF MakesQueue, Shape, Roles, Proper
<1> QED BY <1>4, <1>5, <1>6 DEF Shape

LEMMA SavesDescriptionShape ==
  ASSUME Shape, NEW w \in Workers, SavesDescription(w), Client(w)
  PROVE  Shape'
<1> DEFINE r == [worker[w] EXCEPT !.pc = "find", !.desc = FALSE]
<1>1. worker[w].pc = "save" /\ (Becomes(w, r) \/ Becomes(w, Idle))
  BY DEF SavesDescription, GoesOnWithData, FailureIsThrown, At
<1>2. Proper(w, r) /\ Proper(w, Idle)
  BY <1>1, WorkerParts, ProperIdle DEF Shape, Roles, Proper, Worker
<1>3. described' \in BOOLEAN /\ disturbed' \in BOOLEAN
  BY DEF SavesDescription, Shape, TypeOK
<1> HIDE DEF r
<1>4. \E q : Becomes(w, q) /\ Proper(w, q)
  BY <1>1, <1>2
<1> QED
  BY <1>3, <1>4, WorkerShape
     DEF SavesDescription, queues, server, meta, data, Shape, TypeOK

LEMMA FindsQueueShape ==
  ASSUME Shape, NEW w \in Workers, FindsQueue(w), Client(w)
  PROVE  Shape'
<1>1. worker[w].pc = "find"
  BY DEF FindsQueue, At
<1>2. \E r : Becomes(w, r) /\ Proper(w, r)
  <2>1. CASE current["server"] = 0
    BY <2>1, ProperIdle DEF FindsQueue
  <2>2. CASE current["server"] # 0
    <3> DEFINE r == [worker[w] EXCEPT !.pc = "put", !.queue = current["server"]]
    <3>1. Becomes(w, r)
      BY <2>2 DEF FindsQueue
    <3>2. current["server"] \in Queues
      BY <2>2, SideFacts DEF Shape, TypeOK
    <3>3. Proper(w, r)
      BY <1>1, <3>2, WorkerParts DEF Shape, Roles, Proper, Worker
    <3> HIDE DEF r
    <3> QED BY <3>1, <3>3
  <2> QED BY <2>1, <2>2
<1> QED
  BY <1>2, WorkerShape DEF FindsQueue, queues, server, meta, data, Shape, TypeOK

LEMMA PutsBatchShape ==
  ASSUME Shape, NEW w \in Workers, PutsBatch(w), Client(w)
  PROVE  Shape'
<1>1. Becomes(w, [Idle EXCEPT !.pc = "answer"])
  BY DEF PutsBatch
<1>2. worker[w].queue \in Queues /\ worker[w].items \in SUBSET Items
  BY DEF PutsBatch, At, Shape, Roles, Proper, TypeOK, Worker
<1>3. Enqueue("server", worker[w].queue, worker[w].items)
  BY DEF PutsBatch
<1>4. /\ content' \in [Sides -> [Queues -> SUBSET Items]]
      /\ disturbed' \in BOOLEAN
      /\ UNCHANGED <<current, made>>
  BY <1>2, <1>3, SideFacts, EnqueueFacts DEF Shape
<1> QED
  BY <1>1, <1>4, ProperAnswer, WorkerShape DEF PutsBatch, server, meta, data, Shape, TypeOK

LEMMA AnsweredShape ==
  ASSUME Shape, NEW w \in Workers, Answered(w)
  PROVE  Shape'
<1>1. Becomes(w, Idle) /\ sent' \in BOOLEAN
  BY DEF Answered, Shape, TypeOK
<1> QED
  BY <1>1, ProperIdle, WorkerShape DEF Answered, queues, server, meta, data, Shape, TypeOK

LEMMA StoresItemShape ==
  ASSUME Shape, NEW w \in Workers, StoresItem(w)
  PROVE  Shape'
<1>1. PICK i \in worker[w].todo :
        /\ tries' = [tries EXCEPT ![i] = @ + 1]
        /\ \/ stored' = stored \cup {i} /\ UNCHANGED disturbed
           \/ disturbed' = TRUE /\ UNCHANGED stored
        /\ Becomes(w, [worker[w] EXCEPT !.todo = @ \ {i}])
        /\ UNCHANGED content
  BY DEF StoresItem, FailureIsSkipped
<1>2. worker[w].pc = "store" /\ Proper(w, worker[w]) /\ i \in Items
  BY DEF StoresItem, At, Shape, Roles, TypeOK, Worker
<1> DEFINE r == [worker[w] EXCEPT !.todo = @ \ {i}]
<1>3. Proper(w, r)
  BY <1>2 DEF Proper, Worker
<1>4. tries' \in [Items -> Nat] /\ stored' \in SUBSET Items /\ disturbed' \in BOOLEAN
  <2>1. tries' \in [Items -> Nat]
    BY <1>1, <1>2 DEF Shape, TypeOK
  <2>2. stored' \in SUBSET Items
    BY <1>1, <1>2 DEF Shape, TypeOK
  <2>3. disturbed' \in BOOLEAN
    BY <1>1 DEF Shape, TypeOK
  <2> QED BY <2>1, <2>2, <2>3
<1>5. Becomes(w, r)
  BY <1>1
<1> HIDE DEF r
<1> QED
  BY <1>1, <1>3, <1>4, <1>5, WorkerShape DEF StoresItem, server, meta, Shape, TypeOK

LEMMA EndsBatchShape ==
  ASSUME Shape, NEW w \in Workers, EndsBatch(w)
  PROVE  Shape'
BY ProperIdle, WorkerShape DEF EndsBatch, queues, server, meta, data, Shape, TypeOK

\* SubmitData is run for clients only.
LEMMA ClientSteps ==
  ASSUME Shape, NEW w \in Workers,
         worker[w].pc \in {"send", "config", "make", "save", "find", "put", "answer"}
  PROVE  Client(w)
BY WorkerParts DEF Shape, Roles, Proper

LEMMA WorkerStepShape ==
  ASSUME Shape, NEW w \in Workers, WorkerStep(w)
  PROVE  Shape'
<1>1. ASSUME Send(w) \/ ReadsConfig(w) \/ MakesQueue(w) \/ SavesDescription(w) \/ FindsQueue(w)
             \/ PutsBatch(w)
      PROVE  Client(w)
  BY <1>1, ClientSteps
     DEF Send, ReadsConfig, MakesQueue, SavesDescription, FindsQueue, PutsBatch, At
<1> QED
  BY <1>1, BeginShape, TakeShape, OpenChecksShape, OpenReadsShape, OpenFetchesShape, SendShape,
     ReadsConfigShape, MakesQueueShape, SavesDescriptionShape, FindsQueueShape, PutsBatchShape,
     AnsweredShape, StoresItemShape, EndsBatchShape DEF WorkerStep

LEMMA CallFacts ==
  ASSUME TypeOK, NEW i \in Items, NEW l \in {"new", "made", "found", "put", "done"},
         NEW q \in Queues \cup {0}, CallGoes(i, l, q)
  PROVE  /\ call' \in [Items -> Call]
         /\ call'[i].pc = l /\ call'[i].queue = q
         /\ \A j \in Items : j # i => call'[j] = call[j]
BY DEF TypeOK, CallGoes, Call

\* A step of a caller that makes no queue.
LEMMA CallShape ==
  ASSUME Shape, NEW i \in Items, NEW l \in {"made", "found", "put", "done"},
         NEW q \in Queues \cup {0}, CallGoes(i, l, q), l = "put" => q \in Queues,
         content' \in [Sides -> [Queues -> SUBSET Items]], disturbed' \in BOOLEAN,
         UNCHANGED <<current, made, worker, server, updates, meta, data>>
  PROVE  Shape'
<1>1. /\ call' \in [Items -> Call]
      /\ call'[i].pc = l /\ call'[i].queue = q
      /\ \A j \in Items : j # i => call'[j] = call[j]
  BY CallFacts DEF Shape
<1>2. TypeOK'
  BY <1>1 DEF server, meta, data, Shape, TypeOK
<1>3. QueuesAreLeft'
  BY DEF QueuesAreLeft, Shape, server
<1>4. Roles'
  BY <1>1 DEF Roles, Shape, Proper
<1> QED BY <1>2, <1>3, <1>4 DEF Shape

LEMMA InsertMakesShape ==
  ASSUME Shape, NEW i \in Items, InsertMakes(i)
  PROVE  Shape'
<1>1. CallGoes(i, "made", 0) /\ Provide("client")
  BY DEF InsertMakes
<1>2. /\ call' \in [Items -> Call]
      /\ call'[i].pc = "made"
      /\ \A j \in Items : j # i => call'[j] = call[j]
  BY <1>1, CallFacts DEF Shape
<1>3. /\ current' \in [Sides -> Queues \cup {0}] /\ made' \in [Sides -> Queues \cup {0}]
      /\ \A s \in Sides : current'[s] \in {0, made'[s]} /\ made'[s] <= updates' + 1
      /\ QueuesAreLeft' /\ UNCHANGED content
  BY <1>1, SideFacts, ProvideFacts DEF InsertMakes, server, Shape
<1>4. TypeOK'
  BY <1>2, <1>3 DEF InsertMakes, server, meta, data, Shape, TypeOK
<1>5. Roles'
  BY <1>2 DEF InsertMakes, Shape, Roles, Proper
<1> QED BY <1>3, <1>4, <1>5 DEF Shape

LEMMA InsertGoesOnShape ==
  ASSUME Shape, NEW i \in Items, InsertGoesOn(i)
  PROVE  Shape'
<1>1. CASE InsertChecks(i)
  BY <1>1, CallShape DEF InsertChecks, queues, Shape, TypeOK
<1>2. CASE InsertFinds(i)
  <2>1. CASE current["client"] = 0
    BY <1>2, <2>1, CallShape DEF InsertFinds, queues, Shape, TypeOK
  <2>2. CASE current["client"] # 0
    <3>1. current["client"] \in Queues
      BY <2>2, SideFacts DEF Shape, TypeOK
    <3> QED BY <1>2, <2>2, <3>1, CallShape DEF InsertFinds, queues, Shape, TypeOK
  <2> QED BY <2>1, <2>2
<1>3. CASE InsertPuts(i)
  <2>1. call[i].queue \in Queues /\ Enqueue("client", call[i].queue, {i}) /\ {i} \in SUBSET Items
    BY <1>3 DEF InsertPuts, Shape, Roles
  <2>2. /\ content' \in [Sides -> [Queues -> SUBSET Items]]
        /\ disturbed' \in BOOLEAN
        /\ UNCHANGED <<current, made>>
    BY <2>1, SideFacts, EnqueueFacts DEF Shape
  <2> QED BY <1>3, <2>2, CallShape DEF InsertPuts
<1> QED BY <1>1, <1>2, <1>3 DEF InsertGoesOn

\* A side without a queue.
LEMMA DropFacts ==
  ASSUME TypeOK, NEW s \in Sides, DropQueue(s)
  PROVE  /\ current' \in [Sides -> Queues \cup {0}]
         /\ current'[s] = 0
         /\ \A r \in Sides : r # s => current'[r] = current[r]
         /\ UNCHANGED <<made, content>>
BY DEF TypeOK, DropQueue

LEMMA UpdateShape ==
  ASSUME Shape, ClientUpdate \/ UpdateBegins \/ UpdateGoesOn
  PROVE  Shape'
<1>1. updates \in Nat /\ made["client"] \in Nat /\ made["server"] \in Nat
  BY SideFacts, QueueFacts, PipelineAssumption DEF Shape, TypeOK
<1>2. /\ made["client"] + (IF current["client"] = 0 THEN 1 ELSE 0) <= updates + 1
      /\ made["server"] + (IF current["server"] = 0 THEN 1 ELSE 0)
           + (IF updating = "dispose" THEN 1 ELSE 0) <= updates + 1
  BY <1>1, SideFacts DEF Shape, QueuesAreLeft
<1>3. ASSUME /\ made'["client"] + (IF current'["client"] = 0 THEN 1 ELSE 0) <= updates' + 1
             /\ made'["server"] + (IF current'["server"] = 0 THEN 1 ELSE 0)
                  + (IF updating' = "dispose" THEN 1 ELSE 0) <= updates' + 1
             /\ updates' \in Nat /\ made' = made
      PROVE  QueuesAreLeft'
  BY <1>1, <1>3, SideFacts DEF QueuesAreLeft
<1>4. CASE ClientUpdate
  <2>1. /\ current' \in [Sides -> Queues \cup {0}]
        /\ current'["client"] = 0 /\ current'["server"] = current["server"]
        /\ made' = made /\ content' = content /\ updates' = updates + 1 /\ updating' = updating
    BY <1>4, SideFacts, DropFacts DEF ClientUpdate, server, Shape
  <2>2. updates' \in 0..MaxUpdates
    BY <1>1, <1>4, <2>1, PipelineAssumption DEF ClientUpdate
  <2>3. TypeOK'
    <3>1. \A s \in Sides : current'[s] \in {0, made'[s]} /\ made'[s] <= updates' + 1
      BY <1>1, <2>1, SideFacts DEF Shape, TypeOK
    <3> QED BY <1>4, <2>1, <2>2, <3>1 DEF ClientUpdate, server, meta, data, Shape, TypeOK
  <2>4. QueuesAreLeft'
    BY <1>1, <1>2, <1>3, <2>1
  <2>5. Roles'
    BY <1>4 DEF ClientUpdate, Shape, Roles, Proper
  <2> QED BY <2>3, <2>4, <2>5 DEF Shape
<1>5. CASE UpdateBegins
  <2>1. /\ UNCHANGED <<current, made, content>>
        /\ updates' = updates + 1 /\ updating = "idle" /\ updating' = "dispose"
    BY <1>5 DEF UpdateBegins, queues
  <2>2. updates' \in 0..MaxUpdates
    BY <1>1, <1>5, <2>1, PipelineAssumption DEF UpdateBegins
  <2>3. TypeOK'
    <3>1. \A s \in Sides : current'[s] \in {0, made'[s]} /\ made'[s] <= updates' + 1
      BY <1>1, <2>1, SideFacts DEF Shape, TypeOK
    <3> QED BY <1>5, <2>1, <2>2, <3>1 DEF UpdateBegins, queues, meta, data, Shape, TypeOK
  <2>4. QueuesAreLeft'
    BY <1>1, <1>2, <1>3, <2>1
  <2>5. Roles'
    BY <1>5 DEF UpdateBegins, Shape, Roles, Proper
  <2> QED BY <2>3, <2>4, <2>5 DEF Shape
<1>6. CASE UpdateDisposes
  <2>1. /\ current' \in [Sides -> Queues \cup {0}]
        /\ current'["server"] = 0 /\ current'["client"] = current["client"]
        /\ made' = made /\ content' = content /\ updates' = updates
        /\ updating = "dispose" /\ updating' = "clear"
    BY <1>6, SideFacts, DropFacts DEF UpdateDisposes, Shape
  <2>2. TypeOK'
    <3>1. \A s \in Sides : current'[s] \in {0, made'[s]} /\ made'[s] <= updates' + 1
      BY <1>1, <2>1, SideFacts DEF Shape, TypeOK
    <3> QED BY <1>6, <2>1, <3>1 DEF UpdateDisposes, meta, data, Shape, TypeOK
  <2>3. QueuesAreLeft'
    BY <1>1, <1>2, <1>3, <2>1
  <2>4. Roles'
    BY <1>6 DEF UpdateDisposes, Shape, Roles, Proper
  <2> QED BY <2>2, <2>3, <2>4 DEF Shape
<1>7. CASE UpdateClears
  <2>1. /\ UNCHANGED <<current, made, content, updates>>
        /\ updating = "clear" /\ updating' = "idle"
    BY <1>7 DEF UpdateClears, queues
  <2>2. TypeOK'
    BY <1>7, <2>1 DEF UpdateClears, meta, data, Shape, TypeOK
  <2>3. QueuesAreLeft'
    BY <1>1, <1>2, <1>3, <2>1
  <2>4. Roles'
    BY <1>7 DEF UpdateClears, Shape, Roles, Proper
  <2> QED BY <2>2, <2>3, <2>4 DEF Shape
<1> QED BY <1>4, <1>5, <1>6, <1>7 DEF UpdateGoesOn

LEMMA ShapeStep == Shape /\ [Next]_vars => Shape'
<1> SUFFICES ASSUME Shape, [Next]_vars PROVE Shape'
  OBVIOUS
<1>1. CASE UNCHANGED vars
  BY <1>1 DEF vars, queues, server, meta, data, Shape, TypeOK, QueuesAreLeft, Roles, Proper
<1> QED
  BY <1>1, InsertMakesShape, InsertGoesOnShape, WorkerStepShape, UpdateShape DEF Next

----------------------------------------------------------------------------
\* An item is in one place, and untried while it is there.

LEMMA NothingArrives ==
  ASSUME OnePlace, Untried, UNCHANGED data,
         \A i \in Items : Calling(i)' => Calling(i),
         \A i \in Items, s \in Sides, q \in Queues : Queued(i, s, q)' => Queued(i, s, q),
         \A i \in Items, w \in Workers : Held(i, w)' => Held(i, w)
  PROVE  OnePlace' /\ Untried'
<1>1. OnePlace'
  BY DEF OnePlace
<1>2. Untried'
  BY DEF Untried, Around, data
<1> QED BY <1>1, <1>2

\* Items go from their caller or a thread into a queue.
LEMMA ArriveInQueue ==
  ASSUME OnePlace, Untried, UNCHANGED data,
         NEW M \in SUBSET Items, NEW s0 \in Sides, NEW q0 \in Queues,
         \A i \in M : Calling(i) \/ \E w \in Workers : Held(i, w),
         \A i \in Items : Calling(i)' => Calling(i) /\ i \notin M,
         \A i \in Items, s \in Sides, q \in Queues :
           Queued(i, s, q)' => Queued(i, s, q) \/ (i \in M /\ s = s0 /\ q = q0),
         \A i \in Items, w \in Workers : Held(i, w)' => Held(i, w) /\ i \notin M
  PROVE  OnePlace' /\ Untried'
<1>1. OnePlace'
  BY DEF OnePlace
<1>2. Untried'
  BY DEF Untried, Around, data
<1> QED BY <1>1, <1>2

\* Items go from a queue to a thread.
LEMMA ArriveAtThread ==
  ASSUME OnePlace, Untried, UNCHANGED data,
         NEW M \in SUBSET Items, NEW w0 \in Workers, NEW s0 \in Sides, NEW q0 \in Queues,
         \A i \in M : Queued(i, s0, q0),
         \A i \in Items : Calling(i)' => Calling(i),
         \A i \in Items, s \in Sides, q \in Queues :
           Queued(i, s, q)' => Queued(i, s, q) /\ ~(i \in M /\ s = s0 /\ q = q0),
         \A i \in Items, w \in Workers : Held(i, w)' => Held(i, w) \/ (i \in M /\ w = w0)
  PROVE  OnePlace' /\ Untried'
<1>1. OnePlace'
  BY DEF OnePlace
<1>2. Untried'
  BY DEF Untried, Around, data
<1> QED BY <1>1, <1>2

\* A thread keeps its batch or gives it up.
LEMMA ThreadGoesOn ==
  ASSUME Shape, OnePlace, Untried, UNCHANGED <<call, content, data>>,
         NEW w \in Workers, NEW r, Becomes(w, r), r.todo \subseteq worker[w].todo
  PROVE  OnePlace' /\ Untried'
<1>1. \A i \in Items, v \in Workers : Held(i, v)' => Held(i, v)
  BY BecomesFacts DEF Held, Shape
<1> QED BY <1>1, NothingArrives DEF Calling, Queued

LEMMA TakePlaces ==
  ASSUME Shape, OnePlace, Untried, NEW w \in Workers, Take(w)
  PROVE  OnePlace' /\ Untried'
<1>1. w[1] \in Sides /\ w[2] \in Queues /\ worker[w].pc = "take"
  BY WorkerParts DEF Take, At
<1>2. PICK S \in SUBSET content[w[1]][w[2]] :
        /\ content' = [content EXCEPT ![w[1]][w[2]] = @ \ S]
        /\ Becomes(w, IF S = {} THEN Idle
                      ELSE [Idle EXCEPT !.items = S, !.todo = S,
                                        !.pc = IF w[1] = "client" THEN "send" ELSE "open"])
  BY DEF Take
<1> DEFINE K == content[w[1]][w[2]] \ S
           l == IF w[1] = "client" THEN "send" ELSE "open"
           r == IF S = {} THEN Idle ELSE [Idle EXCEPT !.items = S, !.todo = S, !.pc = l]
<1>3. S \in SUBSET Items /\ K \in SUBSET Items
  BY <1>1 DEF Shape, TypeOK
<1>4. /\ content'[w[1]][w[2]] = content[w[1]][w[2]] \ S
      /\ \A s \in Sides, q \in Queues : s # w[1] \/ q # w[2] => content'[s][q] = content[s][q]
  <2>1. content' = [content EXCEPT ![w[1]][w[2]] = K]
    BY <1>2
  <2>2. K = content[w[1]][w[2]] \ S
    OBVIOUS
  <2> HIDE DEF K
  <2>3. /\ content'[w[1]][w[2]] = K
        /\ \A s \in Sides, q \in Queues : s # w[1] \/ q # w[2] => content'[s][q] = content[s][q]
    BY <1>1, <1>3, <2>1, ContentFacts DEF Shape
  <2> QED BY <2>2, <2>3
<1>5. worker'[w].todo = S /\ \A v \in Workers : v # w => worker'[v] = worker[v]
  <2>1. Becomes(w, r)
    BY <1>2
  <2>2. r.todo = S
    BY DEF Idle
  <2> HIDE DEF r
  <2> QED BY <2>1, <2>2, BecomesFacts DEF Shape
<1>6. \A i \in S : Queued(i, w[1], w[2])
  BY DEF Queued
<1>7. \A i \in Items : Calling(i)' => Calling(i)
  BY DEF Take, Calling
<1>8. \A i \in Items, s \in Sides, q \in Queues :
        Queued(i, s, q)' => Queued(i, s, q) /\ ~(i \in S /\ s = w[1] /\ q = w[2])
  BY <1>4 DEF Queued
<1>9. \A i \in Items, v \in Workers : Held(i, v)' => Held(i, v) \/ (i \in S /\ v = w)
  BY <1>5 DEF Held
<1>10. UNCHANGED data
  BY DEF Take
<1> QED BY <1>1, <1>3, <1>6, <1>7, <1>8, <1>9, <1>10, ArriveAtThread

\* A thread puts its whole batch into a queue of the server.
LEMMA BatchArrives ==
  ASSUME Shape, OnePlace, Untried, UNCHANGED <<call, data>>,
         NEW w \in Workers, NEW r, Becomes(w, r), r.todo = {}, worker[w].pc # "store",
         NEW q0 \in Queues, content'["server"][q0] \subseteq content["server"][q0] \cup worker[w].items,
         \A s \in Sides, q \in Queues : s # "server" \/ q # q0 => content'[s][q] = content[s][q]
  PROVE  OnePlace' /\ Untried'
<1>1. worker[w].todo = worker[w].items /\ worker[w].todo \in SUBSET Items
  BY DEF Shape, TypeOK, Roles, Proper, Worker
<1>2. worker'[w].todo = {} /\ \A v \in Workers : v # w => worker'[v] = worker[v]
  BY BecomesFacts DEF Shape
<1>3. \A i \in worker[w].todo : Held(i, w)
  BY DEF Held
<1>4. \A i \in Items : Calling(i)' => Calling(i) /\ i \notin worker[w].todo
  BY <1>3 DEF Calling, OnePlace
<1>5. \A i \in Items, s \in Sides, q \in Queues :
        Queued(i, s, q)' => Queued(i, s, q) \/ (i \in worker[w].todo /\ s = "server" /\ q = q0)
  BY <1>1 DEF Queued
<1>6. \A i \in Items, v \in Workers : Held(i, v)' => Held(i, v) /\ i \notin worker[w].todo
  BY <1>2 DEF Held, OnePlace
<1> QED BY <1>1, <1>3, <1>4, <1>5, <1>6, SideFacts, ArriveInQueue

LEMMA OpenFetchesPlaces ==
  ASSUME Shape, OnePlace, Untried, NEW w \in Workers, OpenFetches(w)
  PROVE  OnePlace' /\ Untried'
<1>1. worker[w].pc = "fetch" /\ w[2] \in Queues
  BY WorkerParts DEF OpenFetches, At
<1>2. CASE UNCHANGED content
  <2>1. \E r : Becomes(w, r) /\ r.todo \subseteq worker[w].todo
    <3>1. [worker[w] EXCEPT !.pc = "save"].todo = worker[w].todo
          /\ [worker[w] EXCEPT !.pc = "store"].todo = worker[w].todo
          /\ Idle.todo = {}
      BY DEF Shape, TypeOK, Worker, Idle
    <3>2. \/ Becomes(w, [worker[w] EXCEPT !.pc = "save"])
          \/ Becomes(w, [worker[w] EXCEPT !.pc = "store"])
          \/ Becomes(w, Idle)
      BY DEF OpenFetches, Goes
    <3> QED BY <3>1, <3>2
  <2> QED BY <1>2, <2>1, ThreadGoesOn DEF OpenFetches
<1>3. CASE /\ w[1] = "server" /\ Becomes(w, Idle)
           /\ content' = [content EXCEPT !["server"][w[2]] = @ \cup worker[w].items]
  <2>1. Becomes(w, Idle) /\ Idle.todo = {}
    BY <1>3 DEF Idle
  <2> DEFINE K == content["server"][w[2]] \cup worker[w].items
  <2>2. K \in SUBSET Items
    BY <1>1, SideFacts DEF Shape, TypeOK, Worker
  <2>3. /\ content'["server"][w[2]] = content["server"][w[2]] \cup worker[w].items
        /\ \A s \in Sides, q \in Queues : s # "server" \/ q # w[2] => content'[s][q] = content[s][q]
    <3>1. content' = [content EXCEPT !["server"][w[2]] = K]
      BY <1>3
    <3>2. K = content["server"][w[2]] \cup worker[w].items
      OBVIOUS
    <3> HIDE DEF K
    <3>3. /\ content'["server"][w[2]] = K
          /\ \A s \in Sides, q \in Queues : s # "server" \/ q # w[2] => content'[s][q] = content[s][q]
      <4>1. TypeOK /\ "server" \in Sides /\ w[2] \in Queues
        BY <1>1, SideFacts DEF Shape
      <4> QED BY <2>2, <3>1, <4>1, ContentFacts
    <3> QED BY <3>2, <3>3
  <2> QED BY <1>1, <2>1, <2>3, BatchArrives DEF OpenFetches
<1> QED BY <1>2, <1>3 DEF OpenFetches

LEMMA PutsBatchPlaces ==
  ASSUME Shape, OnePlace, Untried, NEW w \in Workers, PutsBatch(w)
  PROVE  OnePlace' /\ Untried'
<1> DEFINE r == [Idle EXCEPT !.pc = "answer"]
<1>1. Becomes(w, r) /\ r.todo = {}
  BY DEF PutsBatch, Idle
<1>2. /\ worker[w].pc = "put" /\ worker[w].queue \in Queues
      /\ worker[w].items \in SUBSET Items
  BY DEF PutsBatch, At, Shape, Roles, Proper, TypeOK, Worker
<1>3. Enqueue("server", worker[w].queue, worker[w].items)
  BY DEF PutsBatch
<1>4. /\ content'["server"][worker[w].queue]
           \subseteq content["server"][worker[w].queue] \cup worker[w].items
      /\ \A s \in Sides, q \in Queues :
           s # "server" \/ q # worker[w].queue => content'[s][q] = content[s][q]
  <2>1. TypeOK /\ "server" \in Sides
    BY SideFacts DEF Shape
  <2> QED BY <1>2, <1>3, <2>1, EnqueueFacts
<1> HIDE DEF r
<1> QED BY <1>1, <1>2, <1>4, BatchArrives DEF PutsBatch

LEMMA StoresItemPlaces ==
  ASSUME Shape, OnePlace, Untried, NEW w \in Workers, StoresItem(w)
  PROVE  OnePlace' /\ Untried'
<1>1. PICK i \in worker[w].todo :
        /\ tries' = [tries EXCEPT ![i] = @ + 1]
        /\ stored' = stored \cup {i} \/ stored' = stored
        /\ Becomes(w, [worker[w] EXCEPT !.todo = @ \ {i}])
        /\ UNCHANGED content
  BY DEF StoresItem, FailureIsSkipped
<1>2. i \in Items /\ Held(i, w)
  BY DEF Shape, TypeOK, Worker, Held
<1>3. /\ worker'[w].todo = worker[w].todo \ {i}
      /\ \A v \in Workers : v # w => worker'[v] = worker[v]
  <2> DEFINE r == [worker[w] EXCEPT !.todo = @ \ {i}]
  <2>1. Becomes(w, r) /\ r.todo = worker[w].todo \ {i}
    BY <1>1 DEF Shape, TypeOK, Worker
  <2> HIDE DEF r
  <2> QED BY <2>1, BecomesFacts DEF Shape
<1>4. \A j \in Items, v \in Workers : Held(j, v)' => Held(j, v) /\ ~(j = i /\ v = w)
  BY <1>3 DEF Held
<1>5. UNCHANGED <<call, content>>
  BY <1>1 DEF StoresItem
<1>6. OnePlace'
  BY <1>4, <1>5 DEF OnePlace, Calling, Queued
<1>7. ~Around(i)'
  BY <1>2, <1>4, <1>5 DEF OnePlace, Around, Calling, Queued
<1>8. ASSUME NEW j \in Items, Around(j)'
      PROVE  tries'[j] = 0 /\ j \notin stored'
  <2>1. j # i /\ Around(j)
    BY <1>4, <1>5, <1>7, <1>8 DEF Around, Calling, Queued
  <2> QED BY <1>1, <1>2, <2>1 DEF Untried, Shape, TypeOK
<1> QED BY <1>6, <1>8 DEF Untried

LEMMA WorkerStepPlaces ==
  ASSUME Shape, OnePlace, Untried, NEW w \in Workers, WorkerStep(w)
  PROVE  OnePlace' /\ Untried'
<1>1. ASSUME UNCHANGED <<call, content, data>>,
             \/ Becomes(w, Idle)
             \/ Becomes(w, [Idle EXCEPT !.pc = "answer"])
             \/ \E l : Goes(w, l)
             \/ \E q : Becomes(w, [worker[w] EXCEPT !.pc = "put", !.queue = q])
             \/ \E b : Becomes(w, [worker[w] EXCEPT !.pc = "config", !.desc = b])
             \/ Becomes(w, [worker[w] EXCEPT !.pc = "find", !.desc = FALSE])
      PROVE  OnePlace' /\ Untried'
  <2>1. \E r : Becomes(w, r) /\ r.todo \subseteq worker[w].todo
    <3>1. /\ Idle.todo = {}
          /\ [Idle EXCEPT !.pc = "answer"].todo = {}
          /\ \A l : [worker[w] EXCEPT !.pc = l].todo = worker[w].todo
          /\ \A q : [worker[w] EXCEPT !.pc = "put", !.queue = q].todo = worker[w].todo
          /\ \A b : [worker[w] EXCEPT !.pc = "config", !.desc = b].todo = worker[w].todo
          /\ [worker[w] EXCEPT !.pc = "find", !.desc = FALSE].todo = worker[w].todo
      BY DEF Shape, TypeOK, Worker, Idle
    <3> QED BY <1>1, <3>1 DEF Goes
  <2> QED BY <1>1, <2>1, ThreadGoesOn
<1>2. CASE Begin(w)
  BY <1>1, <1>2 DEF Begin, BeginRound, queues
<1>3. CASE OpenChecks(w)
  BY <1>1, <1>3 DEF OpenChecks, queues
<1>4. CASE OpenReads(w)
  BY <1>1, <1>4 DEF OpenReads, WithoutServer, queues
<1>5. CASE Send(w)
  BY <1>1, <1>5 DEF Send, queues
<1>6. CASE ReadsConfig(w)
  BY <1>1, <1>6 DEF ReadsConfig, queues
<1>7. CASE MakesQueue(w)
  BY <1>1, <1>7 DEF MakesQueue, Provide
<1>8. CASE SavesDescription(w)
  BY <1>1, <1>8 DEF SavesDescription, GoesOnWithData, FailureIsThrown, queues
<1>9. CASE FindsQueue(w)
  BY <1>1, <1>9 DEF FindsQueue, queues
<1>10. CASE Answered(w) \/ EndsBatch(w)
  BY <1>1, <1>10 DEF Answered, EndsBatch, queues
<1> QED
  BY <1>2, <1>3, <1>4, <1>5, <1>6, <1>7, <1>8, <1>9, <1>10, TakePlaces, OpenFetchesPlaces,
     PutsBatchPlaces, StoresItemPlaces DEF WorkerStep

LEMMA InsertPlaces ==
  ASSUME Shape, OnePlace, Untried, NEW i \in Items, InsertMakes(i) \/ InsertGoesOn(i)
  PROVE  OnePlace' /\ Untried'
<1>1. CASE InsertPuts(i)
  <2>1. /\ call[i].pc = "put" /\ call[i].queue \in Queues /\ {i} \in SUBSET Items
        /\ Enqueue("client", call[i].queue, {i})
        /\ CallGoes(i, "done", 0)
        /\ UNCHANGED <<worker, data>>
    BY <1>1 DEF InsertPuts, Shape, Roles
  <2>2. /\ content'["client"][call[i].queue] \subseteq content["client"][call[i].queue] \cup {i}
        /\ \A s \in Sides, q \in Queues :
             s # "client" \/ q # call[i].queue => content'[s][q] = content[s][q]
    <3>1. TypeOK /\ "client" \in Sides
      BY SideFacts DEF Shape
    <3> QED BY <2>1, <3>1, EnqueueFacts
  <2>3. call'[i].pc = "done" /\ \A j \in Items : j # i => call'[j] = call[j]
    BY <2>1, CallFacts DEF Shape
  <2>4. Calling(i)
    BY <2>1 DEF Calling
  <2>5. \A j \in Items : Calling(j)' => Calling(j) /\ j \notin {i}
    BY <2>3 DEF Calling
  <2>6. \A j \in Items, s \in Sides, q \in Queues :
          Queued(j, s, q)' => Queued(j, s, q) \/ (j \in {i} /\ s = "client" /\ q = call[i].queue)
    BY <2>2 DEF Queued
  <2>7. \A j \in Items, w \in Workers : Held(j, w)' => Held(j, w) /\ j \notin {i}
    BY <2>1, <2>4 DEF Held, OnePlace
  <2>8. (\A j \in {i} : Calling(j) \/ \E w \in Workers : Held(j, w)) /\ "client" \in Sides
    BY <2>4, SideFacts
  <2> DEFINE M == {i}
  <2> HIDE DEF M
  <2> QED BY <2>1, <2>5, <2>6, <2>7, <2>8, ArriveInQueue, SMTT(30) DEF M
<1>2. CASE ~InsertPuts(i)
  <2>1. call[i].pc # "done" /\ UNCHANGED <<content, worker, data>>
    BY <1>2 DEF InsertMakes, InsertGoesOn, InsertChecks, InsertFinds, Provide, queues
  <2>2. \A j \in Items : j # i => call'[j] = call[j]
    BY <1>2 DEF InsertMakes, InsertGoesOn, InsertChecks, InsertFinds, CallGoes, Shape, TypeOK
  <2>3. \A j \in Items : Calling(j)' => Calling(j)
    BY <2>1, <2>2 DEF Calling
  <2> QED BY <2>1, <2>3, NothingArrives DEF Queued, Held
<1> QED BY <1>1, <1>2

LEMMA PlacesStep == Shape /\ OnePlace /\ Untried /\ [Next]_vars => OnePlace' /\ Untried'
<1> SUFFICES ASSUME Shape, OnePlace, Untried, [Next]_vars
             PROVE  OnePlace' /\ Untried'
  OBVIOUS
<1>1. CASE UNCHANGED vars
  BY <1>1, NothingArrives DEF vars, queues, data, Calling, Queued, Held
<1>2. CASE ClientUpdate \/ UpdateBegins \/ UpdateGoesOn
  <2>1. UNCHANGED <<call, content, worker, data>>
    BY <1>2 DEF ClientUpdate, UpdateBegins, UpdateGoesOn, UpdateDisposes, UpdateClears, DropQueue,
                queues
  <2> QED BY <2>1, NothingArrives DEF Calling, Queued, Held
<1> QED BY <1>1, <1>2, WorkerStepPlaces, InsertPlaces DEF Next

----------------------------------------------------------------------------
\* The description comes first.

Reached == sent \/ stored # {} \/ \E q \in Queues : content["server"][q] # {}

LEMMA ReachedFacts == DescriptionComesFirst <=> (Reached => Told)
BY DEF DescriptionComesFirst, Reached, Told

\* A thread's step that forgets no description, and brings data only after one.
LEMMA DescriptionKept ==
  ASSUME Shape, DescriptionLeads, DescriptionComesFirst, NEW w \in Workers, NEW r, Becomes(w, r),
         Told => Told', Needs(w, r) => Told', Reached' => Reached \/ Told'
  PROVE  DescriptionLeads' /\ DescriptionComesFirst'
<1>1. DescriptionLeads'
  BY BecomesFacts DEF DescriptionLeads, Needs, Shape, Client, Server
<1>2. Reached' => Told'
  BY ReachedFacts
<1>3. DescriptionComesFirst'
  BY <1>2 DEF DescriptionComesFirst, Reached, Told
<1> QED BY <1>1, <1>3

\* The same where it changes neither the description nor what has been reached.
LEMMA DescriptionStays ==
  ASSUME Shape, DescriptionLeads, DescriptionComesFirst, NEW w \in Workers, NEW r, Becomes(w, r),
         UNCHANGED <<sent, described, excused, stored, content>>, Needs(w, r) => Told
  PROVE  DescriptionLeads' /\ DescriptionComesFirst'
BY DescriptionKept DEF Told, Reached

LEMMA IdleNeeds == ASSUME NEW w \in Workers PROVE ~Needs(w, Idle)
BY DEF Needs, Idle

\* A thread that goes on with its batch as it was, to somewhere no description is due.
LEMMA GotoDescription ==
  ASSUME Shape, DescriptionLeads, DescriptionComesFirst, NEW w \in Workers, NEW l, Goes(w, l),
         UNCHANGED <<sent, described, excused, stored, content>>,
         l \notin {"config", "make", "find", "put", "answer"}, worker[w].pc # "store" \/ Client(w)
  PROVE  DescriptionLeads' /\ DescriptionComesFirst'
<1> DEFINE r == [worker[w] EXCEPT !.pc = l]
<1>1. Becomes(w, r)
  BY DEF Goes
<1>2. Needs(w, r) => Needs(w, worker[w])
  BY WorkerParts DEF Needs, Shape, TypeOK, Worker
<1> HIDE DEF r
<1> QED BY <1>1, <1>2, DescriptionStays DEF DescriptionLeads

LEMMA TakeDescription ==
  ASSUME Shape, DescriptionLeads, DescriptionComesFirst, NEW w \in Workers, Take(w)
  PROVE  DescriptionLeads' /\ DescriptionComesFirst'
<1>1. w[1] \in Sides /\ w[2] \in Queues /\ (Client(w) \/ Server(w))
  BY WorkerParts
<1>2. PICK S \in SUBSET content[w[1]][w[2]] :
        /\ content' = [content EXCEPT ![w[1]][w[2]] = @ \ S]
        /\ Becomes(w, IF S = {} THEN Idle
                      ELSE [Idle EXCEPT !.items = S, !.todo = S,
                                        !.pc = IF w[1] = "client" THEN "send" ELSE "open"])
  BY DEF Take
<1> DEFINE l == IF w[1] = "client" THEN "send" ELSE "open"
           r == IF S = {} THEN Idle ELSE [Idle EXCEPT !.items = S, !.todo = S, !.pc = l]
<1>3. Becomes(w, r)
  BY <1>2
<1>4. Needs(w, r) => Server(w) /\ S # {}
  BY <1>1 DEF Needs, Idle, Client, Server
<1> HIDE DEF r
<1>5. S # {} /\ Server(w) => Reached
  BY <1>1 DEF Reached, Server
<1>6. UNCHANGED <<sent, described, excused, stored>>
  BY DEF Take, meta, data
<1>7. Reached' => Reached
  <2>1. \A q \in Queues : content'["server"][q] \subseteq content["server"][q]
    BY <1>1, <1>2, SideFacts DEF Shape, TypeOK
  <2> QED BY <1>6, <2>1 DEF Reached
<1> QED BY <1>3, <1>4, <1>5, <1>6, <1>7, ReachedFacts, DescriptionKept DEF Told

LEMMA OpenChecksDescription ==
  ASSUME Shape, DescriptionLeads, DescriptionComesFirst, NEW w \in Workers, OpenChecks(w)
  PROVE  DescriptionLeads' /\ DescriptionComesFirst'
<1>1. \E l \in {"fetch", "read"} : Goes(w, l)
  BY DEF OpenChecks
<1> QED BY <1>1, GotoDescription DEF OpenChecks, At, queues, meta, data

\* Without a server the client's batch is excused, and the server's thread has none.
LEMMA WithoutServerDescription ==
  ASSUME Shape, DescriptionLeads, DescriptionComesFirst, NEW w \in Workers, WithoutServer(w),
         UNCHANGED <<sent, described, stored>>, Reached' => Reached \/ Told'
  PROVE  DescriptionLeads' /\ DescriptionComesFirst'
<1> DEFINE r == IF w[1] = "client" THEN [worker[w] EXCEPT !.pc = "find", !.desc = FALSE] ELSE Idle
<1>1. Becomes(w, r) /\ (Told => Told')
  BY DEF WithoutServer, Told
<1>2. Needs(w, r) => Told'
  <2>1. CASE w[1] = "client"
    BY <2>1 DEF WithoutServer, Told
  <2>2. CASE w[1] # "client"
    BY <2>2, IdleNeeds
  <2> QED BY <2>1, <2>2
<1> HIDE DEF r
<1> QED BY <1>1, <1>2, DescriptionKept

LEMMA OpenReadsDescription ==
  ASSUME Shape, DescriptionLeads, DescriptionComesFirst, NEW w \in Workers, OpenReads(w)
  PROVE  DescriptionLeads' /\ DescriptionComesFirst'
<1>1. UNCHANGED <<sent, described, stored, content>> /\ worker[w].pc = "read"
  BY DEF OpenReads, queues, data, At
<1>2. Reached' => Reached
  BY <1>1 DEF Reached
<1>3. CASE known
  <2>1. Goes(w, "fetch") /\ UNCHANGED excused
    BY <1>3 DEF OpenReads
  <2> QED BY <1>1, <2>1, GotoDescription
<1>4. CASE ~known
  BY <1>1, <1>2, <1>4, WithoutServerDescription DEF OpenReads
<1> QED BY <1>3, <1>4

LEMMA OpenFetchesDescription ==
  ASSUME Shape, DescriptionLeads, DescriptionComesFirst, NEW w \in Workers, OpenFetches(w)
  PROVE  DescriptionLeads' /\ DescriptionComesFirst'
<1>1. /\ UNCHANGED <<sent, described, excused, stored>> /\ worker[w].pc = "fetch"
      /\ w[2] \in Queues /\ (Client(w) \/ Server(w))
  BY WorkerParts DEF OpenFetches, meta, data, At
<1>2. CASE /\ Goes(w, IF w[1] = "client" THEN "save" ELSE "store")
           /\ UNCHANGED content
  <2>1. \E l \in {"save", "store"} : Goes(w, l)
    BY <1>2
  <2> QED BY <1>1, <1>2, <2>1, GotoDescription
<1>3. CASE Becomes(w, Idle) /\ UNCHANGED content
  BY <1>1, <1>3, IdleNeeds, DescriptionStays
<1>4. CASE /\ w[1] = "server" /\ Becomes(w, Idle)
           /\ content' = [content EXCEPT !["server"][w[2]] = @ \cup worker[w].items]
  <2>1. worker[w].items = {} \/ Told
    BY <1>1, <1>4 DEF Shape, Roles, Proper, DescriptionLeads, Needs, Server
  <2>2. CASE Told
    BY <1>1, <1>4, <2>2, IdleNeeds, DescriptionKept DEF Told
  <2>3. CASE worker[w].items = {}
    <3>1. content' = content
      BY <1>1, <1>4, <2>3, SideFacts DEF Shape, TypeOK
    <3> QED BY <1>1, <1>4, <3>1, IdleNeeds, DescriptionStays
  <2> QED BY <2>1, <2>2, <2>3
<1> QED BY <1>2, <1>3, <1>4 DEF OpenFetches

LEMMA SendDescription ==
  ASSUME Shape, DescriptionLeads, DescriptionComesFirst, NEW w \in Workers, Send(w)
  PROVE  DescriptionLeads' /\ DescriptionComesFirst'
<1>1. /\ UNCHANGED <<sent, described, excused, stored, content>>
      /\ worker[w].pc = "send" /\ Client(w)
  BY ClientSteps DEF Send, queues, meta, data, At
<1>2. CASE Becomes(w, Idle)
  BY <1>1, <1>2, IdleNeeds, DescriptionStays
<1>3. CASE Becomes(w, [worker[w] EXCEPT !.pc = "config", !.desc = ~sent])
  <2> DEFINE r == [worker[w] EXCEPT !.pc = "config", !.desc = ~sent]
  <2>1. Needs(w, r) => sent
    BY <1>1, WorkerParts DEF Needs, Shape, TypeOK, Worker
  <2>2. Becomes(w, r)
    BY <1>3
  <2> HIDE DEF r
  <2>3. sent => Told
    BY ReachedFacts DEF Reached
  <2> QED BY <1>1, <2>1, <2>2, <2>3, DescriptionStays
<1> QED BY <1>2, <1>3 DEF Send

LEMMA ReadsConfigDescription ==
  ASSUME Shape, DescriptionLeads, DescriptionComesFirst, NEW w \in Workers, ReadsConfig(w)
  PROVE  DescriptionLeads' /\ DescriptionComesFirst'
<1>1. /\ UNCHANGED <<sent, described, stored, content>>
      /\ worker[w].pc = "config" /\ Client(w)
  BY ClientSteps DEF ReadsConfig, queues, data, At
<1>2. worker[w].desc \/ Told
  BY <1>1 DEF DescriptionLeads, Needs
<1>3. Reached' => Reached
  BY <1>1 DEF Reached
<1>4. CASE known
  <2> DEFINE r == [worker[w] EXCEPT !.pc = "make"]
  <2>1. Becomes(w, r) /\ UNCHANGED excused
    BY <1>4 DEF ReadsConfig, Goes
  <2>2. Needs(w, r) => Told
    BY <1>1, <1>2, WorkerParts DEF Needs, Shape, TypeOK, Worker
  <2> HIDE DEF r
  <2> QED BY <1>1, <2>1, <2>2, DescriptionStays
<1>5. CASE ~known
  <2>1. /\ Becomes(w, [Idle EXCEPT !.pc = "answer"])
        /\ excused' = (excused \/ worker[w].desc)
    BY <1>5 DEF ReadsConfig
  <2>2. Told'
    BY <1>1, <1>2, <2>1 DEF Told
  <2> QED BY <1>3, <2>1, <2>2, DescriptionKept
<1> QED BY <1>4, <1>5

LEMMA MakesQueueDescription ==
  ASSUME Shape, DescriptionLeads, DescriptionComesFirst, NEW w \in Workers, MakesQueue(w)
  PROVE  DescriptionLeads' /\ DescriptionComesFirst'
<1>1. /\ UNCHANGED <<sent, described, excused, stored, content>>
      /\ worker[w].pc = "make" /\ Client(w)
  BY ClientSteps DEF MakesQueue, Provide, meta, data, At
<1>2. worker[w].desc \/ Told
  BY <1>1 DEF DescriptionLeads, Needs
<1> DEFINE r == [worker[w] EXCEPT !.pc = IF worker[w].desc THEN "open" ELSE "find"]
<1>3. Becomes(w, r)
  BY DEF MakesQueue, Goes
<1>4. Needs(w, r) => Told
  BY <1>1, <1>2, WorkerParts DEF Needs, Shape, TypeOK, Worker
<1> HIDE DEF r
<1> QED BY <1>1, <1>3, <1>4, DescriptionStays

LEMMA SavesDescriptionLeads ==
  ASSUME Shape, DescriptionLeads, DescriptionComesFirst, NEW w \in Workers, SavesDescription(w)
  PROVE  DescriptionLeads' /\ DescriptionComesFirst'
<1>1. UNCHANGED <<sent, excused, stored, content>> /\ (Told => Told')
  <2>1. described => described'
    BY DEF SavesDescription, Shape, TypeOK
  <2> QED BY <2>1 DEF SavesDescription, queues, data, Told
<1>2. Reached' => Reached
  BY <1>1 DEF Reached
<1>3. CASE described' = TRUE /\ GoesOnWithData(w)
  BY <1>1, <1>2, <1>3, DescriptionKept DEF GoesOnWithData, Told
<1>4. CASE FailureIsThrown(w)
  BY <1>1, <1>2, <1>4, IdleNeeds, DescriptionKept DEF FailureIsThrown
<1> QED BY <1>3, <1>4 DEF SavesDescription

LEMMA FindsQueueDescription ==
  ASSUME Shape, DescriptionLeads, DescriptionComesFirst, NEW w \in Workers, FindsQueue(w)
  PROVE  DescriptionLeads' /\ DescriptionComesFirst'
<1>1. /\ UNCHANGED <<sent, described, excused, stored, content>>
      /\ worker[w].pc = "find" /\ Client(w) /\ \E r : Becomes(w, r)
  BY ClientSteps DEF FindsQueue, queues, meta, data, At
<1>2. Told
  BY <1>1 DEF DescriptionLeads, Needs
<1> QED BY <1>1, <1>2, DescriptionStays

LEMMA PutsBatchDescription ==
  ASSUME Shape, DescriptionLeads, DescriptionComesFirst, NEW w \in Workers, PutsBatch(w)
  PROVE  DescriptionLeads' /\ DescriptionComesFirst'
<1>1. /\ UNCHANGED <<sent, described, excused, stored>>
      /\ worker[w].pc = "put" /\ Client(w) /\ \E r : Becomes(w, r)
  BY ClientSteps DEF PutsBatch, meta, data, At
<1>2. Told
  BY <1>1 DEF DescriptionLeads, Needs
<1>3. Told'
  BY <1>1, <1>2 DEF Told
<1> QED BY <1>1, <1>3, DescriptionKept

LEMMA AnsweredDescription ==
  ASSUME Shape, DescriptionLeads, DescriptionComesFirst, NEW w \in Workers, Answered(w)
  PROVE  DescriptionLeads' /\ DescriptionComesFirst'
<1>1. /\ UNCHANGED <<described, excused>>
      /\ worker[w].pc = "answer" /\ Client(w) /\ Becomes(w, Idle)
  BY ClientSteps DEF Answered, At
<1>2. Told'
  BY <1>1 DEF DescriptionLeads, Needs, Told
<1> QED BY <1>1, <1>2, DescriptionKept

LEMMA StoresItemDescription ==
  ASSUME Shape, DescriptionLeads, DescriptionComesFirst, NEW w \in Workers, StoresItem(w)
  PROVE  DescriptionLeads' /\ DescriptionComesFirst'
<1>1. /\ UNCHANGED <<sent, described, excused>> /\ worker[w].todo # {}
      /\ worker[w].pc = "store" /\ Server(w) /\ \E r : Becomes(w, r)
  BY WorkerParts DEF StoresItem, FailureIsSkipped, meta, At, Shape, Roles, Proper
<1>2. Told'
  BY <1>1 DEF DescriptionLeads, Needs, Told
<1> QED BY <1>1, <1>2, DescriptionKept

LEMMA WorkerStepDescription ==
  ASSUME Shape, DescriptionLeads, DescriptionComesFirst, NEW w \in Workers, WorkerStep(w)
  PROVE  DescriptionLeads' /\ DescriptionComesFirst'
<1>1. CASE Begin(w)
  <2>1. \E l \in {"take", "stopped"} : Goes(w, l)
    BY <1>1 DEF Begin, BeginRound
  <2> QED BY <1>1, <2>1, GotoDescription DEF Begin, BeginRound, At, queues, meta, data
<1>2. CASE EndsBatch(w)
  BY <1>2, IdleNeeds, DescriptionStays DEF EndsBatch, queues, meta, data
<1> QED
  BY <1>1, <1>2, TakeDescription, OpenChecksDescription, OpenReadsDescription,
     OpenFetchesDescription, SendDescription, ReadsConfigDescription, MakesQueueDescription,
     SavesDescriptionLeads, FindsQueueDescription, PutsBatchDescription, AnsweredDescription,
     StoresItemDescription DEF WorkerStep

LEMMA DescriptionStep ==
  Shape /\ DescriptionLeads /\ DescriptionComesFirst /\ [Next]_vars
    => DescriptionLeads' /\ DescriptionComesFirst'
<1> SUFFICES ASSUME Shape, DescriptionLeads, DescriptionComesFirst, [Next]_vars
             PROVE  DescriptionLeads' /\ DescriptionComesFirst'
  OBVIOUS
<1>1. ASSUME UNCHANGED <<worker, meta, stored>>,
             \A q \in Queues : content'["server"][q] = content["server"][q]
      PROVE  DescriptionLeads' /\ DescriptionComesFirst'
  BY <1>1 DEF DescriptionLeads, DescriptionComesFirst, Told, meta
<1>2. CASE UNCHANGED vars
  BY <1>1, <1>2 DEF vars, queues, data
<1>3. CASE ClientUpdate \/ UpdateBegins \/ UpdateGoesOn
  BY <1>1, <1>3 DEF ClientUpdate, UpdateBegins, UpdateGoesOn, UpdateDisposes, UpdateClears,
                    DropQueue, queues, data
<1>4. ASSUME NEW i \in Items, InsertMakes(i) \/ InsertGoesOn(i)
      PROVE  DescriptionLeads' /\ DescriptionComesFirst'
  <2>1. CASE InsertPuts(i)
    <3>1. /\ call[i].queue \in Queues /\ {i} \in SUBSET Items
          /\ Enqueue("client", call[i].queue, {i})
          /\ UNCHANGED <<worker, meta, stored>>
      BY <2>1 DEF InsertPuts, Shape, Roles, data
    <3>2. TypeOK /\ "client" \in Sides /\ "server" \in Sides
      BY SideFacts DEF Shape
    <3>3. \A s \in Sides, q \in Queues :
            s # "client" \/ q # call[i].queue => content'[s][q] = content[s][q]
      BY <3>1, <3>2, EnqueueFacts
    <3> QED BY <1>1, <3>1, <3>2, <3>3
  <2>2. CASE ~InsertPuts(i)
    BY <1>1, <1>4, <2>2
       DEF InsertMakes, InsertGoesOn, InsertChecks, InsertFinds, Provide, queues, data
  <2> QED BY <2>1, <2>2
<1> QED BY <1>2, <1>3, <1>4, WorkerStepDescription DEF Next

----------------------------------------------------------------------------
\* The theorems.

\* The inductive invariant holds in every reachable state of the pipeline.
THEOREM InvariantHolds == Spec => []IInv
<1>1. IInv /\ [Next]_vars => IInv'
  BY ShapeStep, PlacesStep, DescriptionStep DEF IInv
<1> QED BY <1>1, InitHolds, PTL DEF Spec

\* No operation of either side leaves the range of its variables; in particular neither side
\* makes more queues than updates call for, whatever threads race for them.
THEOREM TypeCorrect == Spec => []TypeOK
<1>1. IInv => TypeOK
  BY DEF IInv, Shape
<1> QED BY <1>1, InvariantHolds, PTL

\* The description is in the database before data reach the server and before the client
\* marks it as sent, or the server got it when its configuration did not name the type: for
\* any number of objects, of threads on either side and of updates, and whatever save fails.
THEOREM DescriptionFirst == Spec => []DescriptionComesFirst
<1>1. IInv => DescriptionComesFirst
  BY DEF IInv
<1> QED BY <1>1, InvariantHolds, PTL

----------------------------------------------------------------------------
\* The pipeline delivers as ItemDelivery promises.

fates == [i \in Items |-> Fate(i)]

Carried(i, w) == i \in worker[w].items

LEMMA UnderwayParts ==
  ASSUME NEW i \in Items
  PROVE  Underway(i) <=> \/ call[i].pc \in {"made", "found", "put"}
                         \/ \E s \in Sides, q \in Queues : Queued(i, s, q)
                         \/ \E w \in Workers : Carried(i, w)
BY DEF Underway, Queued, Carried

LEMMA UnderwayPartsNext ==
  ASSUME NEW i \in Items
  PROVE  Underway(i)' <=> \/ call'[i].pc \in {"made", "found", "put"}
                          \/ \E s \in Sides, q \in Queues : Queued(i, s, q)'
                          \/ \E w \in Workers : Carried(i, w)'
BY DEF Underway, Queued, Carried

\* A step that tries no item and accepts none can only lose some.
LEMMA LosesSome ==
  ASSUME UNCHANGED data,
         \A i \in Items : call'[i].pc = "new" <=> call[i].pc = "new",
         \A i \in Items : Underway(i)' => Underway(i)
  PROVE  Delivery!Next
<1> DEFINE S == {i \in Items : Fate(i) = "pending" /\ Fate(i)' # "pending"}
<1>1. Delivery!Pending(S)
  BY DEF Delivery!Pending
<1>2. \A i \in Items : Fate(i)' = IF i \in S THEN "lost" ELSE Fate(i)
  BY DEF Fate, data
<1>3. Delivery!Become(S, "lost")
  BY <1>2 DEF Delivery!Become
<1>4. Delivery!Lose(S)
  BY <1>1, <1>3 DEF Delivery!Lose, data
<1>5. S \in SUBSET Items
  OBVIOUS
<1> QED BY <1>4, <1>5 DEF Delivery!Next

\* A thread keeps what it carries, or some of it, or nothing.
LEMMA CarriesOn ==
  ASSUME Shape, UNCHANGED <<call, content, data>>,
         NEW w \in Workers, NEW r, Becomes(w, r), r.items \subseteq worker[w].items
  PROVE  Delivery!Next
<1>1. \A i \in Items, v \in Workers : Carried(i, v)' => Carried(i, v)
  BY BecomesFacts DEF Carried, Shape
<1>2. \A i \in Items : Underway(i)' => Underway(i)
  BY <1>1, UnderwayParts, UnderwayPartsNext DEF Queued
<1> QED BY <1>2, LosesSome

\* A thread puts what it carries into a queue of the server.
LEMMA PutsDown ==
  ASSUME Shape, UNCHANGED <<call, data>>,
         NEW w \in Workers, NEW r, Becomes(w, r), r.items = {},
         NEW q0 \in Queues, content'["server"][q0] \subseteq content["server"][q0] \cup worker[w].items,
         \A s \in Sides, q \in Queues : s # "server" \/ q # q0 => content'[s][q] = content[s][q]
  PROVE  Delivery!Next
<1>1. \A i \in Items, v \in Workers : Carried(i, v)' => Carried(i, v)
  BY BecomesFacts DEF Carried, Shape
<1>2. \A i \in Items, s \in Sides, q \in Queues : Queued(i, s, q)' => Queued(i, s, q) \/ Carried(i, w)
  BY DEF Queued, Carried
<1>3. \A i \in Items : Underway(i)' => Underway(i)
  BY <1>1, <1>2, UnderwayParts, UnderwayPartsNext
<1> QED BY <1>3, LosesSome

LEMMA TakeDelivers ==
  ASSUME Shape, NEW w \in Workers, Take(w)
  PROVE  Delivery!Next
<1>1. w[1] \in Sides /\ w[2] \in Queues
  BY WorkerParts
<1>2. PICK S \in SUBSET content[w[1]][w[2]] :
        /\ content' = [content EXCEPT ![w[1]][w[2]] = @ \ S]
        /\ Becomes(w, IF S = {} THEN Idle
                      ELSE [Idle EXCEPT !.items = S, !.todo = S,
                                        !.pc = IF w[1] = "client" THEN "send" ELSE "open"])
  BY DEF Take
<1> DEFINE l == IF w[1] = "client" THEN "send" ELSE "open"
           r == IF S = {} THEN Idle ELSE [Idle EXCEPT !.items = S, !.todo = S, !.pc = l]
<1>3. \A i \in Items, s \in Sides, q \in Queues : Queued(i, s, q)' => Queued(i, s, q)
  BY <1>1, <1>2 DEF Queued, Shape, TypeOK
<1>4. \A i \in Items, v \in Workers : Carried(i, v)' => Carried(i, v) \/ Queued(i, w[1], w[2])
  <2>1. Becomes(w, r)
    BY <1>2
  <2>2. r.items = S
    BY DEF Idle
  <2> HIDE DEF r
  <2>3. worker'[w].items = S /\ \A v \in Workers : v # w => worker'[v] = worker[v]
    BY <2>1, <2>2, BecomesFacts DEF Shape
  <2> QED BY <2>3 DEF Carried, Queued
<1>5. UNCHANGED <<call, data>>
  BY DEF Take
<1>6. \A i \in Items : Underway(i)' => Underway(i)
  BY <1>1, <1>3, <1>4, <1>5, UnderwayParts, UnderwayPartsNext
<1> QED BY <1>5, <1>6, LosesSome

LEMMA OpenFetchesDelivers ==
  ASSUME Shape, NEW w \in Workers, OpenFetches(w)
  PROVE  Delivery!Next
<1>1. w[2] \in Queues /\ UNCHANGED <<call, data>>
  BY WorkerParts DEF OpenFetches
<1>2. CASE UNCHANGED content
  <2>1. \E r : Becomes(w, r) /\ r.items \subseteq worker[w].items
    <3>1. [worker[w] EXCEPT !.pc = "save"].items = worker[w].items
          /\ [worker[w] EXCEPT !.pc = "store"].items = worker[w].items
          /\ Idle.items = {}
      BY DEF Shape, TypeOK, Worker, Idle
    <3>2. \/ Becomes(w, [worker[w] EXCEPT !.pc = "save"])
          \/ Becomes(w, [worker[w] EXCEPT !.pc = "store"])
          \/ Becomes(w, Idle)
      BY DEF OpenFetches, Goes
    <3> QED BY <3>1, <3>2
  <2> QED BY <1>1, <1>2, <2>1, CarriesOn
<1>3. CASE /\ w[1] = "server" /\ Becomes(w, Idle)
           /\ content' = [content EXCEPT !["server"][w[2]] = @ \cup worker[w].items]
  <2>1. Idle.items = {}
    BY DEF Idle
  <2>2. /\ content'["server"][w[2]] \subseteq content["server"][w[2]] \cup worker[w].items
        /\ \A s \in Sides, q \in Queues : s # "server" \/ q # w[2] => content'[s][q] = content[s][q]
    BY <1>1, <1>3, SideFacts DEF Shape, TypeOK
  <2> QED BY <1>1, <1>3, <2>1, <2>2, PutsDown
<1> QED BY <1>2, <1>3 DEF OpenFetches

LEMMA PutsBatchDelivers ==
  ASSUME Shape, NEW w \in Workers, PutsBatch(w)
  PROVE  Delivery!Next
<1> DEFINE r == [Idle EXCEPT !.pc = "answer"]
<1>1. Becomes(w, r) /\ r.items = {} /\ UNCHANGED <<call, data>>
  BY DEF PutsBatch, Idle
<1>2. /\ worker[w].queue \in Queues /\ worker[w].items \in SUBSET Items
      /\ Enqueue("server", worker[w].queue, worker[w].items)
  BY DEF PutsBatch, At, Shape, Roles, Proper, TypeOK, Worker
<1>3. /\ content'["server"][worker[w].queue]
           \subseteq content["server"][worker[w].queue] \cup worker[w].items
      /\ \A s \in Sides, q \in Queues :
           s # "server" \/ q # worker[w].queue => content'[s][q] = content[s][q]
  <2>1. TypeOK /\ "server" \in Sides
    BY SideFacts DEF Shape
  <2> QED BY <1>2, <2>1, EnqueueFacts
<1> HIDE DEF r
<1> QED BY <1>1, <1>2, <1>3, PutsDown

\* An attempt is the first, and of an item that no one else has.
LEMMA StoresItemDelivers ==
  ASSUME Shape, OnePlace, Untried, NEW w \in Workers, StoresItem(w)
  PROVE  Delivery!Next
<1>1. PICK i \in worker[w].todo :
        /\ tries' = [tries EXCEPT ![i] = @ + 1]
        /\ stored' = stored \cup {i} \/ stored' = stored
        /\ Becomes(w, [worker[w] EXCEPT !.todo = @ \ {i}])
        /\ UNCHANGED content
  BY DEF StoresItem, FailureIsSkipped
<1>2. i \in Items /\ Held(i, w) /\ Carried(i, w) /\ UNCHANGED call
  BY DEF Shape, Roles, Proper, TypeOK, Worker, Held, Carried, StoresItem
<1>3. ~Calling(i) /\ tries[i] = 0 /\ i \notin stored
  BY <1>2 DEF OnePlace, Untried, Around
<1>4. Fate(i) = "pending"
  BY <1>2, <1>3, UnderwayParts DEF Calling, Fate
<1>5. \A j \in Items, v \in Workers : Carried(j, v)' <=> Carried(j, v)
  <2> DEFINE r == [worker[w] EXCEPT !.todo = @ \ {i}]
  <2>1. Becomes(w, r) /\ r.items = worker[w].items
    BY <1>1 DEF Shape, TypeOK, Worker
  <2> HIDE DEF r
  <2> QED BY <2>1, BecomesFacts DEF Carried, Shape
<1>6. \A j \in Items : Underway(j)' <=> Underway(j)
  BY <1>1, <1>2, <1>5, UnderwayParts, UnderwayPartsNext DEF Queued
<1>7. Delivery!Pending({i}) /\ {i} \in SUBSET Items
  BY <1>2, <1>4 DEF Delivery!Pending
<1>8. tries' = [j \in Items |-> IF j \in {i} THEN tries[j] + 1 ELSE tries[j]]
  BY <1>1, <1>2 DEF Shape, TypeOK
<1>9. CASE stored' = stored
  <2>1. \A j \in Items : Fate(j)' = Fate(j)
    BY <1>2, <1>6, <1>9 DEF Fate
  <2> QED BY <1>3, <1>7, <1>8, <2>1 DEF Delivery!Next, Delivery!Attempt
<1>10. CASE stored' = stored \cup {i}
  <2>1. \A j \in Items : Fate(j)' = IF j \in {i} THEN "consumed" ELSE Fate(j)
    BY <1>2, <1>4, <1>6, <1>10 DEF Fate
  <2>2. Delivery!Become({i}, "consumed")
    BY <2>1 DEF Delivery!Become
  <2> QED BY <1>3, <1>7, <1>8, <2>2 DEF Delivery!Next, Delivery!Attempt
<1> QED BY <1>1, <1>9, <1>10

LEMMA WorkerStepDelivers ==
  ASSUME Shape, OnePlace, Untried, NEW w \in Workers, WorkerStep(w)
  PROVE  Delivery!Next
<1>1. ASSUME UNCHANGED <<call, content, data>>,
             \/ Becomes(w, Idle)
             \/ Becomes(w, [Idle EXCEPT !.pc = "answer"])
             \/ \E l : Goes(w, l)
             \/ \E q : Becomes(w, [worker[w] EXCEPT !.pc = "put", !.queue = q])
             \/ \E b : Becomes(w, [worker[w] EXCEPT !.pc = "config", !.desc = b])
             \/ Becomes(w, [worker[w] EXCEPT !.pc = "find", !.desc = FALSE])
      PROVE  Delivery!Next
  <2>1. \E r : Becomes(w, r) /\ r.items \subseteq worker[w].items
    <3>1. /\ Idle.items = {}
          /\ [Idle EXCEPT !.pc = "answer"].items = {}
          /\ \A l : [worker[w] EXCEPT !.pc = l].items = worker[w].items
          /\ \A q : [worker[w] EXCEPT !.pc = "put", !.queue = q].items = worker[w].items
          /\ \A b : [worker[w] EXCEPT !.pc = "config", !.desc = b].items = worker[w].items
          /\ [worker[w] EXCEPT !.pc = "find", !.desc = FALSE].items = worker[w].items
      BY DEF Shape, TypeOK, Worker, Idle
    <3> QED BY <1>1, <3>1 DEF Goes
  <2> QED BY <1>1, <2>1, CarriesOn
<1>2. CASE Begin(w)
  BY <1>1, <1>2 DEF Begin, BeginRound, queues
<1>3. CASE OpenChecks(w)
  BY <1>1, <1>3 DEF OpenChecks, queues
<1>4. CASE OpenReads(w)
  BY <1>1, <1>4 DEF OpenReads, WithoutServer, queues
<1>5. CASE Send(w)
  BY <1>1, <1>5 DEF Send, queues
<1>6. CASE ReadsConfig(w)
  BY <1>1, <1>6 DEF ReadsConfig, queues
<1>7. CASE MakesQueue(w)
  BY <1>1, <1>7 DEF MakesQueue, Provide
<1>8. CASE SavesDescription(w)
  BY <1>1, <1>8 DEF SavesDescription, GoesOnWithData, FailureIsThrown, queues
<1>9. CASE FindsQueue(w)
  BY <1>1, <1>9 DEF FindsQueue, queues
<1>10. CASE Answered(w) \/ EndsBatch(w)
  BY <1>1, <1>10 DEF Answered, EndsBatch, queues
<1> QED
  BY <1>2, <1>3, <1>4, <1>5, <1>6, <1>7, <1>8, <1>9, <1>10, TakeDelivers, OpenFetchesDelivers,
     PutsBatchDelivers, StoresItemDelivers DEF WorkerStep

\* Insert accepts an item as new, once.
LEMMA InsertMakesDelivers ==
  ASSUME Shape, Untried, NEW i \in Items, InsertMakes(i)
  PROVE  Delivery!Next
<1>1. /\ call[i].pc = "new" /\ CallGoes(i, "made", 0)
      /\ UNCHANGED <<worker, data, content>>
  BY DEF InsertMakes, Provide
<1>2. call'[i].pc = "made" /\ \A j \in Items : j # i => call'[j] = call[j]
  BY <1>1, CallFacts DEF Shape
<1>3. i \notin stored
  BY <1>1 DEF Untried, Around, Calling
<1>4. \A j \in Items : j # i => (Underway(j)' <=> Underway(j))
  BY <1>1, <1>2, UnderwayParts, UnderwayPartsNext DEF Queued, Carried
<1>5. Fate(i) = "new" /\ Fate(i)' = "pending"
  BY <1>1, <1>2, <1>3, UnderwayPartsNext DEF Fate, data
<1>6. \A j \in Items : j # i => Fate(j)' = Fate(j)
  BY <1>1, <1>2, <1>4 DEF Fate, data
<1>7. Delivery!Become({i}, "pending")
  BY <1>5, <1>6 DEF Delivery!Become
<1>8. Delivery!Offer(i)
  BY <1>1, <1>5, <1>7 DEF Delivery!Offer, data
<1> QED BY <1>8 DEF Delivery!Next

LEMMA InsertGoesOnDelivers ==
  ASSUME Shape, NEW i \in Items, InsertGoesOn(i)
  PROVE  Delivery!Next
<1>1. call[i].pc \in {"made", "found", "put"} /\ UNCHANGED <<worker, data>>
  BY DEF InsertGoesOn, InsertChecks, InsertFinds, InsertPuts
<1>2. /\ call'[i].pc # "new"
      /\ \A j \in Items : j # i => call'[j] = call[j]
  <2>1. CASE InsertChecks(i)
    BY <2>1 DEF InsertChecks, CallGoes, Shape, TypeOK
  <2>2. CASE InsertFinds(i)
    BY <2>2 DEF InsertFinds, CallGoes, Shape, TypeOK
  <2>3. CASE InsertPuts(i)
    BY <2>3 DEF InsertPuts, CallGoes, Shape, TypeOK
  <2> QED BY <2>1, <2>2, <2>3 DEF InsertGoesOn
<1>3. \A j \in Items, s \in Sides, q \in Queues : Queued(j, s, q)' => Queued(j, s, q) \/ j = i
  <2>1. CASE InsertPuts(i)
    <3>1. /\ call[i].queue \in Queues /\ {i} \in SUBSET Items
          /\ Enqueue("client", call[i].queue, {i})
      BY <2>1 DEF InsertPuts, Shape, Roles
    <3>2. TypeOK /\ "client" \in Sides
      BY SideFacts DEF Shape
    <3>3. /\ content'["client"][call[i].queue] \subseteq content["client"][call[i].queue] \cup {i}
          /\ \A s \in Sides, q \in Queues :
               s # "client" \/ q # call[i].queue => content'[s][q] = content[s][q]
      BY <3>1, <3>2, EnqueueFacts
    <3> QED BY <3>3 DEF Queued
  <2>2. CASE ~InsertPuts(i)
    BY <2>2 DEF InsertGoesOn, InsertChecks, InsertFinds, queues, Queued
  <2> QED BY <2>1, <2>2
<1>4. \A j \in Items : Underway(j)' => Underway(j)
  BY <1>1, <1>2, <1>3, UnderwayParts, UnderwayPartsNext DEF Carried
<1>5. \A j \in Items : call'[j].pc = "new" <=> call[j].pc = "new"
  BY <1>1, <1>2
<1> QED BY <1>1, <1>4, <1>5, LosesSome

LEMMA DeliveryStep == IInv /\ [Next]_vars => [Delivery!Next]_<<fates, tries>>
<1> SUFFICES ASSUME Shape, OnePlace, Untried, [Next]_vars
             PROVE  [Delivery!Next]_<<fates, tries>>
  BY DEF IInv
<1>1. CASE UNCHANGED vars
  <2>1. UNCHANGED <<call, content, worker, data>>
    BY <1>1 DEF vars, queues
  <2>2. \A i \in Items : Underway(i)' => Underway(i)
    BY <2>1 DEF Underway
  <2> QED BY <2>1, <2>2, LosesSome
<1>2. CASE ClientUpdate \/ UpdateBegins \/ UpdateGoesOn
  <2>1. UNCHANGED <<call, content, worker, data>>
    BY <1>2 DEF ClientUpdate, UpdateBegins, UpdateGoesOn, UpdateDisposes, UpdateClears, DropQueue,
                queues
  <2>2. \A i \in Items : Underway(i)' => Underway(i)
    BY <2>1 DEF Underway
  <2> QED BY <2>1, <2>2, LosesSome
<1> QED
  BY <1>1, <1>2, WorkerStepDelivers, InsertMakesDelivers, InsertGoesOnDelivers DEF Next

LEMMA DeliveryInit == Init => Delivery!Init
<1> SUFFICES ASSUME Init PROVE Delivery!Init
  OBVIOUS
<1>1. \A i \in Items : Fate(i) = "new"
  BY DEF Init, Fate
<1> QED BY <1>1 DEF Init, Delivery!Init

\* The pipeline is an ItemDelivery with one attempt per item: no interleaving of the callers,
\* the threads of both sides and the updates has the server insert an item twice.
THEOREM PipelineDelivers == Spec => InsertedAtMostOnce
<1>1. IInv /\ [Next]_vars => [Delivery!Next]_<<[i \in Items |-> Fate(i)], tries>>
  BY DeliveryStep DEF fates
<1> QED
  BY <1>1, DeliveryInit, InvariantHolds, PTL DEF Spec, InsertedAtMostOnce, Delivery!Spec

----------------------------------------------------------------------------
\* What happens to an item when nothing happens to the two sides.

Kept(i) == call[i].pc = "new" \/ i \in stored \/ Underway(i)

NoneLost == \A i \in Items : Kept(i)

NeedsQueue == {"open", "read", "fetch", "save", "find", "put"}

EmptyHanded == {"idle", "take", "stopped", "answer"}

\* Queues stay where they were made, the master stays open, and a thread drops no item it
\* has not stored.
Steady ==
  /\ updating = "idle"
  /\ \A i \in Items : call[i].pc \in {"made", "found", "put"} => current["client"] # 0
  /\ \A w \in Workers :
       /\ Client(w) /\ worker[w].pc \in NeedsQueue => current["server"] # 0
       /\ worker[w].pc = "fetch" => opened
       /\ worker[w].pc \in EmptyHanded => worker[w].items = {}
       /\ worker[w].pc = "store" => worker[w].items \subseteq worker[w].todo \cup stored

Quietly == disturbed \/ (Steady /\ (known => NoneLost))

\* Whatever a thread carried, it still has, has put into a queue or has stored.
Hands(w, r) ==
  /\ \A i \in worker[w].items :
       i \in r.items \/ i \in stored' \/ \E s \in Sides, q \in Queues : Queued(i, s, q)'
  /\ \A i \in Items, s \in Sides, q \in Queues :
       Queued(i, s, q) => i \in r.items \/ Queued(i, s, q)'

LEMMA ThreadKeeps ==
  ASSUME Shape, NoneLost, UNCHANGED call, stored \subseteq stored',
         NEW w \in Workers, NEW r, Becomes(w, r), Hands(w, r)
  PROVE  NoneLost'
<1> SUFFICES ASSUME NEW i \in Items PROVE Kept(i)'
  BY DEF NoneLost
<1>1. Kept(i)
  BY DEF NoneLost
<1>2. worker'[w] = r /\ \A v \in Workers : v # w => worker'[v] = worker[v]
  BY BecomesFacts DEF Shape
<1>3. Underway(i) => i \in stored' \/ Underway(i)'
  <2>1. ASSUME NEW v \in Workers, Carried(i, v)
        PROVE  i \in stored' \/ Underway(i)'
    <3>1. CASE v = w
      BY <1>2, <2>1, <3>1, UnderwayPartsNext DEF Hands, Carried
    <3>2. CASE v # w
      BY <1>2, <2>1, <3>2, UnderwayPartsNext DEF Carried
    <3> QED BY <3>1, <3>2
  <2>2. ASSUME NEW s \in Sides, NEW q \in Queues, Queued(i, s, q)
        PROVE  Underway(i)'
    BY <1>2, <2>2, UnderwayPartsNext DEF Hands, Carried
  <2>3. call[i].pc \in {"made", "found", "put"} => Underway(i)'
    BY UnderwayPartsNext
  <2> QED BY <2>1, <2>2, <2>3, UnderwayParts
<1> QED BY <1>1, <1>3 DEF Kept

\* A thread's step that leaves the conditions of the others alone.
LEMMA ThreadSteady ==
  ASSUME Shape, Steady, UNCHANGED <<call, updating>>,
         \A s \in Sides : current[s] # 0 => current'[s] # 0,
         opened => opened', stored \subseteq stored',
         NEW w \in Workers, NEW r, Becomes(w, r),
         Client(w) /\ r.pc \in NeedsQueue => current'["server"] # 0,
         r.pc = "fetch" => opened',
         r.pc \in EmptyHanded => r.items = {},
         r.pc = "store" => r.items \subseteq r.todo \cup stored'
  PROVE  Steady'
<1>1. worker'[w] = r /\ \A v \in Workers : v # w => worker'[v] = worker[v]
  BY BecomesFacts DEF Shape
<1> QED BY <1>1, SideFacts DEF Steady

LEMMA GotoParts ==
  ASSUME Shape, NEW w \in Workers, NEW l
  PROVE  /\ [worker[w] EXCEPT !.pc = l].pc = l
         /\ [worker[w] EXCEPT !.pc = l].items = worker[w].items
         /\ [worker[w] EXCEPT !.pc = l].todo = worker[w].todo
BY DEF Shape, TypeOK, Worker

\* A thread goes on with what it has.
LEMMA GoesQuietly ==
  ASSUME Shape, Steady, known => NoneLost, UNCHANGED <<call, content, known, stored, updating>>,
         \A s \in Sides : current[s] # 0 => current'[s] # 0, opened => opened',
         NEW w \in Workers, NEW r, Becomes(w, r),
         r.items = worker[w].items \/ (r.items = {} /\ ~known),
         Client(w) /\ r.pc \in NeedsQueue => current'["server"] # 0,
         r.pc = "fetch" => opened',
         r.pc \in EmptyHanded => r.items = {},
         r.pc = "store" => r.items \subseteq r.todo \cup stored
  PROVE  Steady' /\ (known' => NoneLost')
<1>1. Steady'
  BY ThreadSteady
<1>2. ASSUME known PROVE NoneLost'
  <2>1. Hands(w, r)
    BY <1>2 DEF Hands, Queued
  <2> QED BY <1>2, <2>1, ThreadKeeps
<1> QED BY <1>1, <1>2

LEMMA OtherParts ==
  ASSUME Shape, NEW w \in Workers
  PROVE  /\ [worker[w] EXCEPT !.pc = "find", !.desc = FALSE].pc = "find"
         /\ [worker[w] EXCEPT !.pc = "find", !.desc = FALSE].items = worker[w].items
         /\ \A b : /\ [worker[w] EXCEPT !.pc = "config", !.desc = b].pc = "config"
                   /\ [worker[w] EXCEPT !.pc = "config", !.desc = b].items = worker[w].items
         /\ \A q : /\ [worker[w] EXCEPT !.pc = "put", !.queue = q].pc = "put"
                   /\ [worker[w] EXCEPT !.pc = "put", !.queue = q].items = worker[w].items
         /\ Idle.pc = "idle" /\ Idle.items = {}
         /\ [Idle EXCEPT !.pc = "answer"].pc = "answer" /\ [Idle EXCEPT !.pc = "answer"].items = {}
BY DEF Shape, TypeOK, Worker, Idle

LEMMA SteadyAt ==
  ASSUME Steady, NEW w \in Workers
  PROVE  /\ Client(w) /\ worker[w].pc \in NeedsQueue => current["server"] # 0
         /\ worker[w].pc = "fetch" => opened
         /\ worker[w].pc \in EmptyHanded => worker[w].items = {}
         /\ worker[w].pc = "store" => worker[w].items \subseteq worker[w].todo \cup stored
         /\ updating = "idle"
BY DEF Steady

LEMMA BeginQuietly ==
  ASSUME Shape, Steady, known => NoneLost, NEW w \in Workers, Begin(w)
  PROVE  Steady' /\ (known' => NoneLost')
<1>1. PICK l \in {"take", "stopped"} : Goes(w, l)
  BY DEF Begin, BeginRound
<1> DEFINE r == [worker[w] EXCEPT !.pc = l]
<1>2. worker[w].pc = "idle" /\ worker[w].items = {}
  BY SteadyAt DEF Begin, BeginRound, At, EmptyHanded
<1>3. Becomes(w, r) /\ r.pc = l /\ r.items = worker[w].items
  BY <1>1, GotoParts DEF Goes
<1>4. UNCHANGED <<call, content, known, stored, updating, current, opened>>
  BY DEF Begin, queues, server, data
<1> HIDE DEF r
<1> QED BY <1>2, <1>3, <1>4, GoesQuietly DEF NeedsQueue, EmptyHanded

LEMMA TakeQuietly ==
  ASSUME Shape, Steady, known => NoneLost, NEW w \in Workers, Take(w)
  PROVE  Steady' /\ (known' => NoneLost')
<1>1. w[1] \in Sides /\ w[2] \in Queues
  BY WorkerParts
<1>2. PICK S \in SUBSET content[w[1]][w[2]] :
        /\ content' = [content EXCEPT ![w[1]][w[2]] = @ \ S]
        /\ Becomes(w, IF S = {} THEN Idle
                      ELSE [Idle EXCEPT !.items = S, !.todo = S,
                                        !.pc = IF w[1] = "client" THEN "send" ELSE "open"])
  BY DEF Take
<1> DEFINE l == IF w[1] = "client" THEN "send" ELSE "open"
           r == IF S = {} THEN Idle ELSE [Idle EXCEPT !.items = S, !.todo = S, !.pc = l]
<1>3. /\ Becomes(w, r) /\ r.items = S
      /\ r.pc = IF S = {} THEN "idle" ELSE l
  BY <1>2 DEF Idle
<1>4. UNCHANGED <<call, known, stored, updating, current, opened>>
  BY DEF Take, server, data
<1>5. worker[w].items = {}
  BY SteadyAt DEF Take, At, EmptyHanded
<1>6. \A i \in Items, s \in Sides, q \in Queues : Queued(i, s, q) => i \in S \/ Queued(i, s, q)'
  BY <1>1, <1>2 DEF Queued, Shape, TypeOK
<1>7. Client(w) => l = "send"
  BY DEF Client
<1> HIDE DEF r
<1>8. Hands(w, r)
  BY <1>3, <1>5, <1>6 DEF Hands
<1>9. Steady'
  <2> HIDE DEF l
  <2>1. l \in {"send", "open"}
    BY DEF l
  <2>2. /\ Client(w) => r.pc \notin NeedsQueue
        /\ r.pc \notin {"fetch", "store"}
        /\ r.pc \in EmptyHanded => r.items = {}
    BY <1>3, <1>7, <2>1 DEF NeedsQueue, EmptyHanded
  <2> QED BY <1>3, <1>4, <2>2, ThreadSteady
<1> QED BY <1>3, <1>4, <1>8, <1>9, ThreadKeeps

LEMMA OpenQuietly ==
  ASSUME Shape, Steady, known => NoneLost, NEW w \in Workers,
         OpenChecks(w) \/ OpenReads(w) \/ OpenFetches(w)
  PROVE  Steady' /\ (known' => NoneLost')
<1>0. /\ worker[w].pc \in {"open", "read", "fetch"}
      /\ Client(w) => current["server"] # 0
      /\ worker[w].pc = "fetch" => opened
  BY SteadyAt DEF OpenChecks, OpenReads, OpenFetches, At, NeedsQueue
<1>1. /\ UNCHANGED <<call, known, stored, updating, current>>
      /\ opened => opened'
  BY DEF OpenChecks, OpenReads, OpenFetches, queues, server, data
<1>2. UNCHANGED content
  BY <1>0 DEF OpenChecks, OpenReads, OpenFetches, queues, At
<1>3. worker[w].todo = worker[w].items
  BY <1>0 DEF Shape, Roles, Proper
<1>4. ASSUME ~known, WithoutServer(w)
      PROVE  Steady' /\ (known' => NoneLost')
  <2> DEFINE r == IF w[1] = "client" THEN [worker[w] EXCEPT !.pc = "find", !.desc = FALSE] ELSE Idle
  <2>1. /\ Becomes(w, r)
        /\ \/ r.items = worker[w].items /\ r.pc = "find" /\ Client(w)
           \/ r.items = {} /\ r.pc = "idle"
    <3>1. Becomes(w, r)
      BY <1>4 DEF WithoutServer
    <3>2. CASE w[1] = "client"
      BY <3>1, <3>2, OtherParts DEF Client
    <3>3. CASE w[1] # "client"
      BY <3>1, <3>3, OtherParts
    <3> QED BY <3>2, <3>3
  <2> HIDE DEF r
  <2> QED BY <1>0, <1>1, <1>2, <1>4, <2>1, GoesQuietly DEF NeedsQueue, EmptyHanded
<1>5. ASSUME NEW l \in {"fetch", "read", "save", "store"}, Goes(w, l), l = "fetch" => opened'
      PROVE  Steady' /\ (known' => NoneLost')
  <2> DEFINE r == [worker[w] EXCEPT !.pc = l]
  <2>1. Becomes(w, r) /\ r.pc = l /\ r.items = worker[w].items /\ r.todo = worker[w].todo
    BY <1>5, GotoParts DEF Goes
  <2> HIDE DEF r
  <2> QED BY <1>0, <1>1, <1>2, <1>3, <1>5, <2>1, GoesQuietly DEF NeedsQueue, EmptyHanded
<1>6. CASE OpenChecks(w)
  <2>1. Goes(w, "read") \/ (Goes(w, "fetch") /\ opened')
    BY <1>1, <1>6 DEF OpenChecks
  <2> QED BY <1>5, <2>1
<1>7. CASE OpenReads(w)
  <2>1. (~known /\ WithoutServer(w)) \/ (Goes(w, "fetch") /\ opened')
    BY <1>7 DEF OpenReads
  <2> QED BY <1>4, <1>5, <2>1
<1>8. CASE OpenFetches(w)
  <2>1. Goes(w, "save") \/ Goes(w, "store")
    BY <1>0, <1>8 DEF OpenFetches, At
  <2> QED BY <1>5, <2>1
<1> QED BY <1>6, <1>7, <1>8

LEMMA SubmitQuietly ==
  ASSUME Shape, Steady, known => NoneLost, ~disturbed', NEW w \in Workers,
         Send(w) \/ ReadsConfig(w) \/ MakesQueue(w) \/ SavesDescription(w) \/ FindsQueue(w)
           \/ Answered(w) \/ EndsBatch(w)
  PROVE  Steady' /\ (known' => NoneLost')
<1>1. /\ UNCHANGED <<call, known, stored, updating, content, opened>>
      /\ \A s \in Sides : current[s] # 0 => current'[s] # 0
  <2>1. CASE MakesQueue(w)
    <3>1. UNCHANGED <<call, known, stored, updating, content, opened>>
      BY <2>1 DEF MakesQueue, Provide, server, data
    <3>2. \A s \in Sides : current[s] # 0 => current'[s] # 0
      BY <2>1, SideFacts DEF MakesQueue, Provide, Shape, TypeOK
    <3> QED BY <3>1, <3>2
  <2>2. CASE Send(w) \/ ReadsConfig(w) \/ SavesDescription(w) \/ FindsQueue(w) \/ Answered(w)
               \/ EndsBatch(w)
    BY <2>2 DEF Send, ReadsConfig, SavesDescription, FindsQueue, Answered, EndsBatch,
                queues, server, data
  <2> QED BY <2>1, <2>2
<1>2. ASSUME NEW r, Becomes(w, r), r.items = worker[w].items \/ (r.items = {} /\ ~known),
             r.pc \in {"config", "make", "open", "find", "put", "idle", "answer"},
             r.pc \in NeedsQueue => current'["server"] # 0,
             r.pc \in EmptyHanded => r.items = {}
      PROVE  Steady' /\ (known' => NoneLost')
  BY <1>1, <1>2, GoesQuietly
<1>3. CASE Send(w)
  <2> DEFINE r == [worker[w] EXCEPT !.pc = "config", !.desc = ~sent]
  <2>1. Becomes(w, r) /\ r.pc = "config" /\ r.items = worker[w].items
    BY <1>3, OtherParts DEF Send
  <2> HIDE DEF r
  <2> QED BY <1>2, <2>1 DEF NeedsQueue, EmptyHanded
<1>4. CASE ReadsConfig(w)
  <2>1. CASE known
    <3> DEFINE r == [worker[w] EXCEPT !.pc = "make"]
    <3>1. Becomes(w, r) /\ r.pc = "make" /\ r.items = worker[w].items
      BY <1>4, <2>1, GotoParts DEF ReadsConfig, Goes
    <3> HIDE DEF r
    <3> QED BY <1>2, <3>1 DEF NeedsQueue, EmptyHanded
  <2>2. CASE ~known
    <3> DEFINE r == [Idle EXCEPT !.pc = "answer"]
    <3>1. Becomes(w, r) /\ r.pc = "answer" /\ r.items = {}
      BY <1>4, <2>2, OtherParts DEF ReadsConfig
    <3> HIDE DEF r
    <3> QED BY <1>2, <2>2, <3>1 DEF NeedsQueue, EmptyHanded
  <2> QED BY <2>1, <2>2
<1>5. CASE MakesQueue(w)
  <2> DEFINE l == IF worker[w].desc THEN "open" ELSE "find"
             r == [worker[w] EXCEPT !.pc = l]
  <2>1. Becomes(w, r) /\ r.pc = l /\ r.items = worker[w].items
    BY <1>5, GotoParts DEF MakesQueue, Goes
  <2>2. current'["server"] # 0
    BY <1>5, SideFacts, QueueFacts DEF MakesQueue, Provide, Shape, TypeOK
  <2> HIDE DEF r
  <2> QED BY <1>2, <2>1, <2>2 DEF NeedsQueue, EmptyHanded
<1>6. CASE SavesDescription(w)
  <2> DEFINE r == [worker[w] EXCEPT !.pc = "find", !.desc = FALSE]
  <2>1. Becomes(w, r) /\ r.pc = "find" /\ r.items = worker[w].items
    BY <1>6, OtherParts DEF SavesDescription, GoesOnWithData
  <2>2. current'["server"] # 0
    BY <1>1, <1>6, SideFacts, SteadyAt, ClientSteps DEF SavesDescription, At, NeedsQueue
  <2> HIDE DEF r
  <2> QED BY <1>2, <2>1, <2>2 DEF NeedsQueue, EmptyHanded
<1>7. CASE FindsQueue(w)
  <2> DEFINE r == [worker[w] EXCEPT !.pc = "put", !.queue = current["server"]]
  <2>1. current["server"] # 0 /\ current'["server"] # 0
    BY <1>1, <1>7, SideFacts, SteadyAt, ClientSteps DEF FindsQueue, At, NeedsQueue
  <2>2. Becomes(w, r) /\ r.pc = "put" /\ r.items = worker[w].items
    BY <1>7, <2>1, OtherParts DEF FindsQueue
  <2> HIDE DEF r
  <2> QED BY <1>2, <2>1, <2>2 DEF NeedsQueue, EmptyHanded
<1>8. CASE Answered(w)
  <2>1. worker[w].items = {} /\ Becomes(w, Idle)
    BY <1>8, SteadyAt DEF Answered, At, EmptyHanded
  <2> QED BY <1>2, <2>1, OtherParts DEF NeedsQueue
<1>9. CASE EndsBatch(w)
  <2>1. worker[w].items \subseteq stored /\ Becomes(w, Idle)
    BY <1>9, SteadyAt DEF EndsBatch, At
  <2>2. Hands(w, Idle)
    BY <1>1, <2>1 DEF Hands, Queued
  <2>3. Steady'
    BY <1>1, <2>1, OtherParts, ThreadSteady DEF NeedsQueue
  <2> QED BY <1>1, <2>1, <2>2, <2>3, ThreadKeeps
<1> QED BY <1>3, <1>4, <1>5, <1>6, <1>7, <1>8, <1>9

\* Nothing has been given up where there was room for everything.
LEMMA RoomForAll ==
  ASSUME TypeOK, NEW s \in Sides, NEW q \in Queues, NEW S \in SUBSET Items, Enqueue(s, q, S),
         ~disturbed'
  PROVE  /\ content'[s][q] = content[s][q] \cup S
         /\ \A r \in Sides, p \in Queues : r # s \/ p # q => content'[r][p] = content[r][p]
<1>1. content' = [content EXCEPT ![s][q] = content[s][q] \cup S]
  BY DEF Enqueue
<1>2. content[s][q] \cup S \in SUBSET Items
  BY DEF TypeOK
<1> QED BY <1>1, <1>2, ContentFacts

LEMMA PutsBatchQuietly ==
  ASSUME Shape, Steady, known => NoneLost, ~disturbed', NEW w \in Workers, PutsBatch(w)
  PROVE  Steady' /\ (known' => NoneLost')
<1> DEFINE r == [Idle EXCEPT !.pc = "answer"]
<1>1. Becomes(w, r) /\ r.pc = "answer" /\ r.items = {}
  BY OtherParts DEF PutsBatch
<1>2. UNCHANGED <<call, known, stored, updating, opened, current>>
  BY DEF PutsBatch, Enqueue, server, data
<1>3. /\ worker[w].queue \in Queues /\ worker[w].items \in SUBSET Items
      /\ Enqueue("server", worker[w].queue, worker[w].items)
  BY DEF PutsBatch, At, Shape, Roles, Proper, TypeOK, Worker
<1> DEFINE q0 == worker[w].queue
<1>4. /\ content'["server"][q0] = content["server"][q0] \cup worker[w].items
      /\ \A s \in Sides, p \in Queues : s # "server" \/ p # q0 => content'[s][p] = content[s][p]
  <2>1. TypeOK /\ "server" \in Sides
    BY SideFacts DEF Shape
  <2> QED BY <1>3, <2>1, RoomForAll
<1> HIDE DEF r, q0
<1>5. Hands(w, r)
  <2>1. q0 \in Queues
    BY <1>3 DEF q0
  <2> QED BY <1>4, <2>1, SideFacts DEF Hands, Queued
<1>6. Steady'
  BY <1>1, <1>2, ThreadSteady DEF NeedsQueue
<1> QED BY <1>1, <1>2, <1>5, <1>6, ThreadKeeps

LEMMA StoresItemQuietly ==
  ASSUME Shape, Steady, known => NoneLost, ~disturbed', NEW w \in Workers, StoresItem(w)
  PROVE  Steady' /\ (known' => NoneLost')
<1>1. PICK i \in worker[w].todo : /\ stored' = stored \cup {i}
                                  /\ Becomes(w, [worker[w] EXCEPT !.todo = @ \ {i}])
                                  /\ UNCHANGED content
  BY DEF StoresItem
<1> DEFINE r == [worker[w] EXCEPT !.todo = @ \ {i}]
<1>2. /\ Becomes(w, r) /\ r.pc = "store" /\ r.items = worker[w].items
      /\ r.todo = worker[w].todo \ {i}
  BY <1>1 DEF StoresItem, At, Shape, TypeOK, Worker
<1>3. UNCHANGED <<call, known, updating, opened, current>>
  BY DEF StoresItem, server
<1>4. r.items \subseteq r.todo \cup stored'
  BY <1>1, <1>2, SteadyAt DEF StoresItem, At
<1>5. Server(w)
  BY WorkerParts DEF StoresItem, At, Shape, Roles, Proper
<1> HIDE DEF r
<1>6. Hands(w, r)
  BY <1>1, <1>2 DEF Hands, Queued
<1>7. Steady'
  BY <1>1, <1>2, <1>3, <1>4, ThreadSteady DEF NeedsQueue, EmptyHanded
<1> QED BY <1>1, <1>2, <1>3, <1>6, <1>7, ThreadKeeps

LEMMA InsertQuietly ==
  ASSUME Shape, Steady, known => NoneLost, ~disturbed', NEW i \in Items,
         InsertMakes(i) \/ InsertGoesOn(i)
  PROVE  Steady' /\ (known' => NoneLost')
<1>1. UNCHANGED <<worker, known, stored, updating, opened>>
  BY DEF InsertMakes, InsertGoesOn, InsertChecks, InsertFinds, InsertPuts, server, data
<1>2. \A s \in Sides : current[s] # 0 => current'[s] # 0
  <2>1. CASE InsertMakes(i)
    BY <2>1, SideFacts DEF InsertMakes, Provide, Shape, TypeOK
  <2>2. CASE InsertGoesOn(i)
    BY <2>2 DEF InsertGoesOn, InsertChecks, InsertFinds, InsertPuts, Enqueue, queues
  <2> QED BY <2>1, <2>2
<1>3. /\ \A j \in Items : j # i => call'[j] = call[j]
      /\ \/ call'[i].pc \in {"made", "found", "put"} /\ current'["client"] # 0
         \/ call'[i].pc = "done" /\ \E q \in Queues : Queued(i, "client", q)'
  <2>1. CASE InsertMakes(i)
    <3>1. current'["client"] # 0
      BY <2>1, SideFacts, QueueFacts DEF InsertMakes, Provide, Shape, TypeOK
    <3> QED BY <2>1, <3>1, CallFacts DEF InsertMakes, Shape
  <2>2. CASE InsertChecks(i)
    <3>1. current["client"] # 0
      BY <2>2 DEF InsertChecks, Steady
    <3> QED BY <1>2, <2>2, <3>1, SideFacts, CallFacts DEF InsertChecks, Shape
  <2>3. CASE InsertFinds(i)
    <3>1. current["client"] # 0 /\ current["client"] \in Queues \cup {0}
      BY <2>3, SideFacts DEF InsertFinds, Steady, Shape, TypeOK
    <3> QED BY <1>2, <2>3, <3>1, SideFacts, CallFacts DEF InsertFinds, Shape
  <2>4. CASE InsertPuts(i)
    <3>1. call[i].queue \in Queues /\ {i} \in SUBSET Items /\ Enqueue("client", call[i].queue, {i})
      BY <2>4 DEF InsertPuts, Shape, Roles
    <3>2. TypeOK /\ "client" \in Sides
      BY SideFacts DEF Shape
    <3>3. content'["client"][call[i].queue] = content["client"][call[i].queue] \cup {i}
      BY <3>1, <3>2, RoomForAll
    <3>4. \E q \in Queues : Queued(i, "client", q)'
      BY <3>1, <3>3 DEF Queued
    <3> QED BY <2>4, <3>4, CallFacts DEF InsertPuts, Shape
  <2> QED BY <2>1, <2>2, <2>3, <2>4 DEF InsertGoesOn
<1>4. \A j \in Items, s \in Sides, q \in Queues : Queued(j, s, q) => Queued(j, s, q)'
  <2>1. CASE InsertPuts(i)
    <3>1. call[i].queue \in Queues /\ {i} \in SUBSET Items /\ Enqueue("client", call[i].queue, {i})
      BY <2>1 DEF InsertPuts, Shape, Roles
    <3>2. TypeOK /\ "client" \in Sides
      BY SideFacts DEF Shape
    <3>3. /\ content'["client"][call[i].queue] = content["client"][call[i].queue] \cup {i}
          /\ \A s \in Sides, q \in Queues :
               s # "client" \/ q # call[i].queue => content'[s][q] = content[s][q]
      BY <3>1, <3>2, RoomForAll
    <3> QED BY <3>3 DEF Queued
  <2>2. CASE ~InsertPuts(i)
    BY <2>2 DEF InsertMakes, Provide, InsertGoesOn, InsertChecks, InsertFinds, queues, Queued
  <2> QED BY <2>1, <2>2
<1>5. Steady'
  <2>1. \A j \in Items : call'[j].pc \in {"made", "found", "put"} => current'["client"] # 0
    BY <1>2, <1>3, SideFacts DEF Steady
  <2>2. \A w \in Workers : Client(w) /\ worker'[w].pc \in NeedsQueue => current'["server"] # 0
    BY <1>1, <1>2, SideFacts DEF Steady
  <2> QED BY <1>1, <2>1, <2>2 DEF Steady
<1>6. ASSUME known, NEW j \in Items PROVE Kept(j)'
  <2>1. CASE j = i
    BY <1>3, <2>1, SideFacts, UnderwayPartsNext DEF Kept
  <2>2. CASE j # i
    <3>1. Kept(j) /\ call'[j] = call[j]
      BY <1>3, <1>6, <2>2 DEF NoneLost
    <3>2. Underway(j) => Underway(j)'
      BY <1>1, <1>4, <3>1, UnderwayParts, UnderwayPartsNext DEF Carried
    <3> QED BY <1>1, <3>1, <3>2 DEF Kept
  <2> QED BY <2>1, <2>2
<1> QED BY <1>1, <1>5, <1>6 DEF NoneLost

LEMMA QuietlyStep == Shape /\ Quietly /\ [Next]_vars => Quietly'
<1> SUFFICES ASSUME Shape, Quietly, [Next]_vars, ~disturbed'
             PROVE  Steady' /\ (known' => NoneLost')
  BY DEF Quietly
<1>1. disturbed => disturbed'
  BY DEF Next, InsertMakes, InsertGoesOn, InsertChecks, InsertFinds, InsertPuts, Enqueue,
         WorkerStep, Begin, Take, OpenChecks, OpenReads, OpenFetches, Send, ReadsConfig, MakesQueue,
         SavesDescription, FindsQueue, PutsBatch, Answered, StoresItem, EndsBatch,
         ClientUpdate, UpdateBegins, UpdateGoesOn, UpdateDisposes, UpdateClears, vars
<1>2. Steady /\ (known => NoneLost)
  BY <1>1 DEF Quietly
<1>3. CASE UNCHANGED vars
  <2>1. UNCHANGED <<current, content, call, worker, opened, updating, known, stored>>
    BY <1>3 DEF vars, queues, server, data
  <2>2. Steady'
    BY <1>2, <2>1 DEF Steady
  <2>3. NoneLost => NoneLost'
    BY <2>1 DEF NoneLost, Kept, Underway
  <2> QED BY <1>2, <2>1, <2>2, <2>3
<1>4. ~(ClientUpdate \/ UpdateBegins \/ UpdateGoesOn)
  BY <1>2 DEF Steady, ClientUpdate, UpdateBegins, UpdateGoesOn, UpdateDisposes, UpdateClears
<1>5. ASSUME NEW w \in Workers, WorkerStep(w)
      PROVE  Steady' /\ (known' => NoneLost')
  BY <1>2, <1>5, BeginQuietly, TakeQuietly, OpenQuietly, SubmitQuietly, PutsBatchQuietly,
     StoresItemQuietly DEF WorkerStep
<1> QED BY <1>2, <1>3, <1>4, <1>5, InsertQuietly DEF Next

LEMMA InitQuietly == Init => Quietly
<1> SUFFICES ASSUME Init PROVE Steady /\ NoneLost
  BY DEF Quietly
<1>1. /\ \A w \in Workers : worker[w] = Idle
      /\ \A i \in Items : call[i].pc = "new"
      /\ updating = "idle"
  BY DEF Init
<1>2. Idle.pc = "idle" /\ Idle.items = {}
  BY DEF Idle
<1>3. Steady
  BY <1>1, <1>2 DEF Steady, NeedsQueue, EmptyHanded
<1> QED BY <1>1, <1>3 DEF NoneLost, Kept

\* A lost object met an update, a full queue or a failure, or the server does not know its type.
LostForAReason == \A i \in Items : Fate(i) = "lost" => disturbed \/ ~known

\* An object passed to Insert gets lost on the way for a reason only: a configuration update,
\* a full queue, a call or an insert that failed, or a type that the server's configuration
\* does not name.  Threads, queues and callers alone lose nothing, however they interleave.
THEOREM LossesHaveCauses == Spec => []LostForAReason
<1>1. Quietly => LostForAReason
  BY DEF Quietly, NoneLost, Kept, Fate, LostForAReason
<1>2. IInv => Shape
  BY DEF IInv
<1> QED BY <1>1, <1>2, InitQuietly, QuietlyStep, InvariantHolds, PTL DEF Spec

----------------------------------------------------------------------------
\* The lock of the servers and the lock of the configuration.

\* A thread has the lock of the servers exactly while it reads the configuration.
LockHeld == \A w \in Workers : openLock = w <=> At(w, "read")

WaitsForLock(w) == At(w, "open") /\ ~opened /\ openLock # None

WaitsForUpdate(w) == worker[w].pc \in {"read", "config"} /\ updating # "idle"

\* An update goes on unless it is deadlocked, and so does who has the lock of the servers,
\* or it waits for such an update.
OnlyUpdatesDeadlock ==
  Deadlocked \/
  /\ updating = "clear" => openLock = None
  /\ \A w \in Workers : WaitsForLock(w) =>
       \E v \in Workers : /\ openLock = v /\ At(v, "read")
                          /\ WaitsForUpdate(v) => updating = "dispose"

\* A step of a thread that neither gets nor gives up the lock.
LEMMA LockStays ==
  ASSUME Shape, LockHeld, UNCHANGED openLock,
         NEW w \in Workers, NEW r, Becomes(w, r), worker[w].pc # "read", r.pc # "read"
  PROVE  LockHeld'
<1>1. worker'[w] = r /\ \A v \in Workers : v # w => worker'[v] = worker[v]
  BY BecomesFacts DEF Shape
<1> QED BY <1>1 DEF LockHeld, At

LEMMA LockStaysGoes ==
  ASSUME Shape, LockHeld, UNCHANGED openLock,
         NEW w \in Workers, NEW l, Goes(w, l), worker[w].pc # "read", l # "read"
  PROVE  LockHeld'
<1> DEFINE r == [worker[w] EXCEPT !.pc = l]
<1>1. Becomes(w, r) /\ r.pc = l
  BY GotoParts DEF Goes
<1> HIDE DEF r
<1> QED BY <1>1, LockStays

LEMMA WithoutServerPc ==
  ASSUME Shape, NEW w \in Workers, WithoutServer(w)
  PROVE  \E r : Becomes(w, r) /\ r.pc # "read"
<1>1. CASE w[1] = "client"
  BY <1>1, OtherParts DEF WithoutServer
<1>2. CASE w[1] # "client"
  BY <1>2, OtherParts DEF WithoutServer
<1> QED BY <1>1, <1>2

LEMMA LockStep == Shape /\ LockHeld /\ [Next]_vars => LockHeld'
<1> SUFFICES ASSUME Shape, LockHeld, [Next]_vars PROVE LockHeld'
  OBVIOUS
<1>1. ASSUME UNCHANGED <<openLock, worker>> PROVE LockHeld'
  BY <1>1 DEF LockHeld, At
<1>2. CASE UNCHANGED vars
  BY <1>1, <1>2 DEF vars, server
<1>3. ASSUME NEW i \in Items, InsertMakes(i) \/ InsertGoesOn(i) PROVE LockHeld'
  BY <1>1, <1>3 DEF InsertMakes, InsertGoesOn, InsertChecks, InsertFinds, InsertPuts, server
<1>4. CASE ClientUpdate \/ UpdateBegins \/ UpdateGoesOn
  BY <1>1, <1>4 DEF ClientUpdate, UpdateBegins, UpdateGoesOn, UpdateDisposes, UpdateClears, server
<1>5. ASSUME NEW w \in Workers, OpenChecks(w) PROVE LockHeld'
  <2>1. CASE opened
    BY <1>5, <2>1, LockStaysGoes DEF OpenChecks, At
  <2>2. CASE ~opened
    <3> DEFINE r == [worker[w] EXCEPT !.pc = "read"]
    <3>1. openLock = None /\ openLock' = w /\ Becomes(w, r) /\ r.pc = "read"
      BY <1>5, <2>2, GotoParts DEF OpenChecks, Goes
    <3> HIDE DEF r
    <3>2. worker'[w] = r /\ \A v \in Workers : v # w => worker'[v] = worker[v]
      BY <3>1, BecomesFacts DEF Shape
    <3>3. \A v \in Workers : v # w => ~At(v, "read")
      BY <3>1, NoneAssumption DEF LockHeld
    <3> QED BY <3>1, <3>2, <3>3 DEF LockHeld, At
  <2> QED BY <2>1, <2>2
<1>6. ASSUME NEW w \in Workers, OpenReads(w) PROVE LockHeld'
  <2>1. openLock = w /\ openLock' = None
    BY <1>6 DEF OpenReads, LockHeld
  <2>2. \E r : Becomes(w, r) /\ r.pc # "read"
    BY <1>6, WithoutServerPc, GotoParts DEF OpenReads, Goes
  <2>3. worker'[w].pc # "read" /\ \A v \in Workers : v # w => worker'[v] = worker[v]
    BY <2>2, BecomesFacts DEF Shape
  <2> QED BY <2>1, <2>3, NoneAssumption DEF LockHeld, At
<1>7. ASSUME NEW w \in Workers, OpenFetches(w) PROVE LockHeld'
  <2>1. UNCHANGED openLock /\ worker[w].pc # "read"
    BY <1>7 DEF OpenFetches, server, At
  <2>2. (\E l \in {"save", "store"} : Goes(w, l)) \/ Becomes(w, Idle)
    BY <1>7 DEF OpenFetches
  <2> QED BY <2>1, <2>2, OtherParts, LockStays, LockStaysGoes
<1>8. ASSUME NEW w \in Workers, Take(w) PROVE LockHeld'
  <2>1. PICK S : Becomes(w, IF S = {} THEN Idle
                            ELSE [Idle EXCEPT !.items = S, !.todo = S,
                                              !.pc = IF w[1] = "client" THEN "send" ELSE "open"])
    BY <1>8 DEF Take
  <2> DEFINE l == IF w[1] = "client" THEN "send" ELSE "open"
             r == IF S = {} THEN Idle ELSE [Idle EXCEPT !.items = S, !.todo = S, !.pc = l]
  <2>2. Becomes(w, r) /\ r.pc # "read"
    BY <2>1 DEF Idle
  <2> HIDE DEF r
  <2> QED BY <1>8, <2>2, LockStays DEF Take, server, At
<1>9. ASSUME NEW w \in Workers, StoresItem(w) PROVE LockHeld'
  <2>1. PICK i : Becomes(w, [worker[w] EXCEPT !.todo = @ \ {i}])
    BY <1>9 DEF StoresItem, FailureIsSkipped
  <2> DEFINE r == [worker[w] EXCEPT !.todo = @ \ {i}]
  <2>2. Becomes(w, r) /\ r.pc = "store" /\ worker[w].pc = "store"
    BY <1>9, <2>1 DEF StoresItem, At, Shape, TypeOK, Worker
  <2> HIDE DEF r
  <2> QED BY <1>9, <2>2, LockStays DEF StoresItem, server
<1>10. ASSUME NEW w \in Workers,
              \/ Begin(w) \/ Send(w) \/ ReadsConfig(w) \/ MakesQueue(w) \/ SavesDescription(w)
              \/ FindsQueue(w) \/ PutsBatch(w) \/ Answered(w) \/ EndsBatch(w)
       PROVE  LockHeld'
  <2>1. UNCHANGED openLock /\ worker[w].pc # "read"
    BY <1>10 DEF Begin, BeginRound, Send, ReadsConfig, MakesQueue, SavesDescription, FindsQueue,
                 PutsBatch, Answered, EndsBatch, server, At
  <2>2. \/ \E l \in {"take", "stopped", "make", "open", "find"} : Goes(w, l)
        \/ \E r : Becomes(w, r) /\ r.pc # "read"
    BY <1>10, OtherParts DEF Begin, BeginRound, Send, ReadsConfig, MakesQueue, SavesDescription,
       GoesOnWithData, FailureIsThrown, FindsQueue, PutsBatch, Answered, EndsBatch
  <2> QED BY <2>1, <2>2, LockStays, LockStaysGoes
<1> QED
  BY <1>2, <1>3, <1>4, <1>5, <1>6, <1>7, <1>8, <1>9, <1>10 DEF Next, WorkerStep

\* One thread at most is in CreateMasterMongoServer's lock of the servers, and the lock is
\* taken only while it is there.
THEOREM LockIsHeld == Spec => []LockHeld
<1>1. Init => LockHeld
  BY NoneAssumption DEF Init, LockHeld, At, Idle
<1>2. IInv => Shape
  BY DEF IInv
<1> QED BY <1>1, <1>2, LockStep, InvariantHolds, PTL DEF Spec

\* Callers, threads and updates wait for each other in a circle in one way only: the update has
\* the configuration's lock and waits for the lock of the servers, whose holder waits for the
\* configuration.  Everybody else waits for a thread that goes on.
THEOREM OnlyUpdatesCanDeadlock == Spec => []OnlyUpdatesDeadlock
<1>1. TypeOK /\ LockHeld => OnlyUpdatesDeadlock
  <2> SUFFICES ASSUME TypeOK, LockHeld, ~Deadlocked PROVE OnlyUpdatesDeadlock
    BY DEF OnlyUpdatesDeadlock
  <2>1. ASSUME openLock # None
        PROVE  openLock \in Workers /\ At(openLock, "read") /\ updating \in {"idle", "dispose"}
    BY <2>1 DEF LockHeld, Deadlocked, At, TypeOK
  <2>2. updating = "clear" => openLock = None
    BY <2>1
  <2>3. ASSUME NEW w \in Workers, WaitsForLock(w)
        PROVE  \E v \in Workers : /\ openLock = v /\ At(v, "read")
                                  /\ WaitsForUpdate(v) => updating = "dispose"
    <3>1. openLock # None
      BY <2>3 DEF WaitsForLock
    <3> QED BY <2>1, <3>1 DEF WaitsForUpdate
  <2> QED BY <2>2, <2>3 DEF OnlyUpdatesDeadlock
<1> QED BY <1>1, TypeCorrect, LockIsHeld, PTL

\* That deadlock is for good: the server never again opens a database, reads its configuration
\* or finishes an update.
THEOREM DeadlockIsForGood == Spec => [][Deadlocked => Deadlocked']_vars
<1>1. Shape /\ LockHeld /\ [Next]_vars /\ Deadlocked => Deadlocked'
  <2> SUFFICES ASSUME Shape, LockHeld, [Next]_vars, Deadlocked PROVE Deadlocked'
    OBVIOUS
  <2>1. /\ openLock \in Workers /\ openLock # None
        /\ updating = "clear" /\ worker[openLock].pc = "read"
    BY DEF Deadlocked, Shape, TypeOK
  <2>2. UNCHANGED <<openLock, updating>>
    <3>1. CASE UNCHANGED vars
      BY <3>1 DEF vars, server
    <3>2. ASSUME NEW i \in Items, InsertMakes(i) \/ InsertGoesOn(i)
          PROVE  UNCHANGED <<openLock, updating>>
      BY <3>2 DEF InsertMakes, InsertGoesOn, InsertChecks, InsertFinds, InsertPuts, server
    <3>3. ASSUME NEW w \in Workers, WorkerStep(w)
          PROVE  UNCHANGED <<openLock, updating>>
      <4>1. ~OpenReads(w)
        BY <2>1 DEF OpenReads
      <4> QED
        BY <2>1, <3>3, <4>1 DEF WorkerStep, Begin, Take, OpenChecks, OpenFetches, Send,
           ReadsConfig, MakesQueue, SavesDescription, FindsQueue, PutsBatch, Answered, StoresItem,
           EndsBatch, server
    <3>4. CASE ClientUpdate \/ UpdateBegins \/ UpdateGoesOn
      BY <2>1, <3>4 DEF ClientUpdate, UpdateBegins, UpdateGoesOn, UpdateDisposes, UpdateClears,
                        server
    <3> QED BY <3>1, <3>2, <3>3, <3>4 DEF Next
  <2>3. LockHeld'
    BY LockStep
  <2>4. openLock' \in Workers /\ openLock' # None /\ worker'[openLock'].pc = "read"
    BY <2>1, <2>2, <2>3 DEF LockHeld, At
  <2> QED BY <2>1, <2>2, <2>4 DEF Deadlocked
<1>2. IInv => Shape
  BY DEF IInv
<1> QED BY <1>1, <1>2, InvariantHolds, LockIsHeld, PTL DEF Spec
=============================================================================
