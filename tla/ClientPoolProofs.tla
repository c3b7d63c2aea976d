--------------------------- MODULE ClientPoolProofs ---------------------------
(***************************************************************************)
(* Proofs about ClientPool for every number of nodes, sockets and callers, *)
(* all bounds of the pool, and whether connections can fail or not.        *)
(***************************************************************************)
EXTENDS ClientPool, TLAPS, FiniteSetTheorems

----------------------------------------------------------------------------
\* Facts about data.

LEMMA ThreadFacts ==
  /\ \A c \in Clients : c \in Threads /\ c \notin Nodes /\ c # recoverer /\ c # constructor
  /\ \A n \in Nodes : n \in Threads /\ n # recoverer /\ n # constructor /\ n # None
  /\ recoverer \in Threads /\ constructor \in Threads /\ recoverer # constructor
  /\ None \notin Sockets
BY PoolAssumption DEF Threads

\* The number of connections of a node, and what a subset of them leaves.
LEMMA SocketSets ==
  ASSUME NEW S \in SUBSET Sockets
  PROVE  IsFiniteSet(S) /\ Cardinality(S) \in Nat
BY PoolAssumption, FS_Subset, FS_CardinalityType

LEMMA SocketSubsets ==
  ASSUME NEW S \in SUBSET Sockets, NEW T \in SUBSET S
  PROVE  /\ Cardinality(S) \in Nat /\ Cardinality(T) \in Nat
         /\ Cardinality(T) <= Cardinality(S)
BY SocketSets, FS_Subset

----------------------------------------------------------------------------
\* The inductive invariant.

\* TypeOK but for what it says of released.
Types ==
  /\ alive \in [Nodes -> BOOLEAN]
  /\ idle \in [Nodes -> SUBSET Sockets]
  /\ busy \in [Nodes -> SUBSET Sockets]
  /\ disturbed \subseteq {"idle", "busy"}
  /\ open \subseteq Sockets /\ released \subseteq Sockets
  /\ clientNodes \subseteq Nodes /\ deadNodes \subseteq Nodes /\ locator \subseteq Nodes
  /\ pc \in [Threads -> {"ready", "located", "get", "choose", "move", "connect", "enlist",
                         "write", "read", "spin", "close", "return", "store", "error",
                         "unborn", "trim", "refill", "add", "check", "init", "fill",
                         "revive", "join", "threw", "done", "destroyIdle", "enterBusy",
                         "destroyBusy", "clearIdle", "clearBusy"}]
  /\ after \in [Threads -> {"ready", "get", "read", "return", "refill", "revive"}]
  /\ at \in [Threads -> Nodes \cup {None}]
  /\ held \in [Clients -> Sockets \cup {None}]
  /\ todo \in [{recoverer, constructor} -> SUBSET Nodes]
  /\ left \in [Threads -> 0..Min]

\* A client has a socket exactly from choosing to returning it.
Holding ==
  \A c \in Clients :
    held[c] # None <=> \/ pc[c] \in {"move", "enlist", "write", "read", "spin", "close",
                                     "return", "store"}
                       \/ /\ pc[c] \in {"error", "destroyIdle", "enterBusy", "destroyBusy",
                                       "clearIdle", "clearBusy"}
                          /\ after[c] \in {"read", "return"}

\* A thread that works on a node has one; a maintenance thread its own.
Placed ==
  /\ \A t \in Threads : pc[t] \notin {"ready", "check", "threw", "done", "unborn"} => at[t] \in Nodes
  /\ \A n \in Nodes : at[n] = n

Shape == Types /\ Holding /\ Placed

\* A socket is in one list, of the node its user works on, and no idle one is in use but the
\* one a caller has chosen and is about to move.  A busy one is in use, by a caller that has
\* not begun to put it back.
Owned ==
  /\ \A c, d \in Clients : held[c] # None /\ held[c] = held[d] => c = d
  /\ \A c \in Clients, n \in Nodes :
       /\ held[c] \in idle[n] => pc[c] = "move" /\ at[c] = n
       /\ held[c] \in busy[n] => at[c] = n
  /\ \A n \in Nodes : idle[n] \cap busy[n] = {}
  /\ \A n, m \in Nodes : n # m => (idle[n] \cup busy[n]) \cap (idle[m] \cup busy[m]) = {}
  /\ \A c \in Clients : held[c] \notin released
  /\ \A s \in released : \E n \in Nodes : s \in idle[n]
  /\ \A n \in Nodes : \A s \in busy[n] : \E c \in Clients : held[c] = s /\ pc[c] # "store"

\* One thread at a time is in Destory ...
DestoryAlone == \A t, u \in Threads : pc[t] \in Destroying /\ pc[u] \in Destroying => t = u

\* ... and the idle sockets its loop has passed are destroyed, until others change the list.
Passed(t) ==
  pc[t] \in {"enterBusy", "destroyBusy", "clearIdle"} /\ "idle" \notin disturbed
    => idle[at[t]] \cap open = {}

PassedStay == \A t \in Threads : Passed(t)

\* A node that has been revived and is about to join has not failed again unnoticed.
JoinsAlive ==
  pc[recoverer] = "join" =>
    \/ alive[at[recoverer]]
    \/ \E t \in Threads : at[t] = at[recoverer] /\ pc[t] = "error"

IInv ==
  Shape /\ Owned /\ DestoryAlone /\ PassedStay /\ DeadNodeIsNoticed /\ JoinsAlive

----------------------------------------------------------------------------
\* Types and places.

LEMMA InitShape == Init => Shape
<1> SUFFICES ASSUME Init PROVE Shape
  OBVIOUS
<1>1. Types
  BY ThreadFacts, PoolAssumption DEF Init, Types
<1>2. Holding
  BY ThreadFacts DEF Init, Holding
<1>3. Placed
  BY ThreadFacts DEF Init, Placed
<1> QED BY <1>1, <1>2, <1>3 DEF Shape

\* A node's lists get new contents.
LEMMA SetPoolFacts ==
  ASSUME Types, NEW n \in Nodes, NEW I \in SUBSET Sockets, NEW B \in SUBSET Sockets, SetPool(n, I, B)
  PROVE  /\ idle' \in [Nodes -> SUBSET Sockets] /\ idle'[n] = I
         /\ busy' \in [Nodes -> SUBSET Sockets] /\ busy'[n] = B
         /\ disturbed' \subseteq {"idle", "busy"}
         /\ \A m \in Nodes : m # n => idle'[m] = idle[m] /\ busy'[m] = busy[m]
BY DEF Types, SetPool

LEMMA SetPoolParts ==
  ASSUME Types, NEW n \in Nodes, NEW I \in SUBSET Sockets, NEW B \in SUBSET Sockets, SetPool(n, I, B)
  PROVE  /\ idle'[n] = I /\ busy'[n] = B
         /\ \A m \in Nodes : m # n => idle'[m] = idle[m] /\ busy'[m] = busy[m]
BY SetPoolFacts

LEMMA NodeErrorListsShape ==
  ASSUME Shape, NEW t \in Threads, NodeErrorLists(t)
  PROVE  Shape'
<1>1. Types'
  BY ThreadFacts, PoolAssumption DEF Shape, Types, Placed, NodeErrorLists, Goto, pools, sockets, local
<1>2. Holding'
  BY ThreadFacts DEF Shape, Types, Holding, NodeErrorLists, Goto, pools, sockets, local
<1>3. Placed'
  BY ThreadFacts DEF Shape, Types, Placed, NodeErrorLists, Goto, pools, sockets, local
<1> QED BY <1>1, <1>2, <1>3 DEF Shape

LEMMA DestoryDestroysShape ==
  ASSUME Shape, NEW t \in Threads, DestoryDestroys(t)
  PROVE  Shape'
<1>1. Types'
  BY ThreadFacts, PoolAssumption DEF Shape, Types, Placed, DestoryDestroys, Goto, pools, lists, local
<1>2. Holding'
  BY ThreadFacts DEF Shape, Types, Holding, DestoryDestroys, Goto, pools, lists, local
<1>3. Placed'
  BY ThreadFacts DEF Shape, Types, Placed, DestoryDestroys, Goto, pools, lists, local
<1> QED BY <1>1, <1>2, <1>3 DEF Shape

LEMMA DestoryPassesShape ==
  ASSUME Shape, NEW t \in Threads, DestoryPasses(t)
  PROVE  Shape'
<1>1. Types'
  BY ThreadFacts, PoolAssumption DEF Shape, Types, Placed, DestoryPasses, Goto, pools, sockets, lists, local, Loops
<1>2. Holding'
  BY ThreadFacts DEF Shape, Types, Holding, DestoryPasses, Goto, pools, sockets, lists, local, Loops
<1>3. Placed'
  BY ThreadFacts DEF Shape, Types, Placed, DestoryPasses, Goto, pools, sockets, lists, local, Loops
<1> QED BY <1>1, <1>2, <1>3 DEF Shape

LEMMA DestoryEntersBusyShape ==
  ASSUME Shape, NEW t \in Threads, DestoryEntersBusy(t)
  PROVE  Shape'
<1>1. Types'
  BY ThreadFacts, PoolAssumption DEF Shape, Types, Placed, DestoryEntersBusy, Goto, pools, sockets, lists, local
<1>2. Holding'
  BY ThreadFacts DEF Shape, Types, Holding, DestoryEntersBusy, Goto, pools, sockets, lists, local
<1>3. Placed'
  BY ThreadFacts DEF Shape, Types, Placed, DestoryEntersBusy, Goto, pools, sockets, lists, local
<1> QED BY <1>1, <1>2, <1>3 DEF Shape

LEMMA DestoryThrowsShape ==
  ASSUME Shape, NEW t \in Threads, DestoryThrows(t)
  PROVE  Shape'
<1>1. Types'
  BY ThreadFacts, PoolAssumption DEF Shape, Types, Placed, DestoryThrows, Goto, lists, Loops
<1>2. Holding'
  BY ThreadFacts DEF Shape, Types, Holding, DestoryThrows, Goto, lists, Loops
<1>3. Placed'
  BY ThreadFacts DEF Shape, Types, Placed, DestoryThrows, Goto, lists, Loops
<1> QED BY <1>1, <1>2, <1>3 DEF Shape

LEMMA DestoryClearsIdleShape ==
  ASSUME Shape, NEW t \in Threads, DestoryClearsIdle(t)
  PROVE  Shape'
<1>1. Types'
  BY ThreadFacts, PoolAssumption DEF Shape, Types, Placed, DestoryClearsIdle, Goto, lists, local
<1>2. Holding'
  BY ThreadFacts DEF Shape, Types, Holding, DestoryClearsIdle, Goto, lists, local
<1>3. Placed'
  BY ThreadFacts DEF Shape, Types, Placed, DestoryClearsIdle, Goto, lists, local
<1> QED BY <1>1, <1>2, <1>3 DEF Shape

LEMMA DestoryClearsBusyShape ==
  ASSUME Shape, NEW t \in Threads, DestoryClearsBusy(t)
  PROVE  Shape'
<1>1. Types'
  BY ThreadFacts, PoolAssumption DEF Shape, Types, Placed, DestoryClearsBusy, Goto, sockets
<1>2. Holding'
  BY ThreadFacts DEF Shape, Types, Holding, DestoryClearsBusy, Goto, sockets
<1>3. Placed'
  BY ThreadFacts DEF Shape, Types, Placed, DestoryClearsBusy, Goto, sockets
<1> QED BY <1>1, <1>2, <1>3 DEF Shape

LEMMA AcquireNodeShape ==
  ASSUME Shape, NEW c \in Clients, AcquireNode(c)
  PROVE  Shape'
<1>1. Types'
  BY ThreadFacts, PoolAssumption DEF Shape, Types, Placed, AcquireNode, Goto, pools, sockets, lists
<1>2. Holding'
  BY ThreadFacts DEF Shape, Types, Holding, AcquireNode, Goto, pools, sockets, lists
<1>3. Placed'
  BY ThreadFacts DEF Shape, Types, Placed, AcquireNode, Goto, pools, sockets, lists
<1> QED BY <1>1, <1>2, <1>3 DEF Shape

LEMMA AcquireSocketShape ==
  ASSUME Shape, NEW c \in Clients, AcquireSocket(c)
  PROVE  Shape'
<1>1. Types'
  BY ThreadFacts, PoolAssumption DEF Shape, Types, Placed, AcquireSocket, Goto, pools, sockets, lists
<1>2. Holding'
  BY ThreadFacts DEF Shape, Types, Holding, AcquireSocket, Goto, pools, sockets, lists
<1>3. Placed'
  BY ThreadFacts DEF Shape, Types, Placed, AcquireSocket, Goto, pools, sockets, lists
<1> QED BY <1>1, <1>2, <1>3 DEF Shape

LEMMA GetChecksAliveShape ==
  ASSUME Shape, NEW c \in Clients, GetChecksAlive(c)
  PROVE  Shape'
<1>1. Types'
  BY ThreadFacts, PoolAssumption DEF Shape, Types, Placed, GetChecksAlive, Goto, pools, sockets, lists, local
<1>2. Holding'
  BY ThreadFacts DEF Shape, Types, Holding, GetChecksAlive, Goto, pools, sockets, lists, local
<1>3. Placed'
  BY ThreadFacts DEF Shape, Types, Placed, GetChecksAlive, Goto, pools, sockets, lists, local
<1> QED BY <1>1, <1>2, <1>3 DEF Shape

LEMMA GetChoosesShape ==
  ASSUME Shape, NEW c \in Clients, GetChooses(c)
  PROVE  Shape'
<1>1. at[c] \in Nodes /\ c \in Threads
  BY ThreadFacts DEF GetChooses, Shape, Placed
<1>2. CASE idle[at[c]] = {}
  <2>1. /\ \E l \in {"connect", "ready"} : Goto(c, l)
        /\ UNCHANGED <<alive, pools, sockets, lists, after, at, held, todo, left>> /\ pc[c] = "choose"
    BY <1>2 DEF GetChooses
  <2>2. Types' /\ Holding'
    BY <1>1, <2>1, ThreadFacts DEF Shape, Types, Holding, Goto, pools, sockets, lists
  <2>3. Placed'
    BY <1>1, <2>1, ThreadFacts DEF Shape, Types, Placed, Goto
  <2> QED BY <2>2, <2>3 DEF Shape
<1>3. CASE idle[at[c]] # {}
  <2>1. PICK s \in idle[at[c]] :
          /\ Goto(c, "move") /\ pc[c] = "choose"
          /\ held' = [held EXCEPT ![c] = s]
          /\ open' \in {open, open \ {s}} /\ released' = released \ {s}
          /\ UNCHANGED <<alive, pools, lists, after, at, todo, left>>
    BY <1>3 DEF GetChooses
  <2>2. s \in Sockets /\ s # None
    BY <1>1, ThreadFacts DEF Shape, Types
  <2>3. Types'
    BY <1>1, <2>1, <2>2, ThreadFacts DEF Shape, Types, Goto, pools, lists
  <2>4. Holding'
    BY <1>1, <2>1, <2>2, ThreadFacts DEF Shape, Types, Holding, Goto
  <2>5. Placed'
    BY <1>1, <2>1, ThreadFacts DEF Shape, Types, Placed, Goto
  <2> QED BY <2>3, <2>4, <2>5 DEF Shape
<1> QED BY <1>2, <1>3

LEMMA GetMovesShape ==
  ASSUME Shape, NEW c \in Clients, GetMoves(c)
  PROVE  Shape'
<1>1. at[c] \in Nodes /\ c \in Threads
  BY ThreadFacts DEF GetMoves, Shape, Placed
<1>2. \E I, B \in SUBSET Sockets : SetPool(at[c], I, B)
  <2>1. idle[at[c]] \ {held[c]} \in SUBSET Sockets /\ busy[at[c]] \in SUBSET Sockets
    BY <1>1 DEF GetMoves, Shape, Types, Holding
  <2> QED BY <2>1 DEF GetMoves
<1>3. /\ idle' \in [Nodes -> SUBSET Sockets] /\ busy' \in [Nodes -> SUBSET Sockets]
      /\ disturbed' \subseteq {"idle", "busy"}
  BY <1>1, <1>2, SetPoolFacts DEF Shape
<1>4. Types'
  BY <1>1, <1>3, ThreadFacts DEF Shape, Types, GetMoves, Goto, sockets, lists, local
<1>5. Holding'
  BY <1>1, ThreadFacts DEF Shape, Types, Holding, GetMoves, Goto, sockets, lists, local
<1>6. Placed'
  BY <1>1, ThreadFacts DEF Shape, Types, Placed, GetMoves, Goto, sockets, lists, local
<1> QED BY <1>4, <1>5, <1>6 DEF Shape

\* A connection attempt that fails.
LEMMA ConnectFailsShape ==
  ASSUME Shape, NEW t \in Threads, NEW next \in {"ready", "refill", "revive"},
         at[t] \in Nodes, t \in Clients => held[t] = None, ConnectFails(t, next),
         pools' = pools, UNCHANGED <<open, released, lists, at, held, todo>>,
         left' \in [Threads -> 0..Min]
  PROVE  Shape'
<1>1. Types'
  BY DEF Shape, Types, ConnectFails, Goto, pools, lists
<1>2. Holding'
  BY ThreadFacts DEF Shape, Types, Holding, ConnectFails, Goto
<1>3. Placed'
  BY DEF Shape, Types, Placed, ConnectFails, Goto
<1> QED BY <1>1, <1>2, <1>3 DEF Shape

LEMMA GetConnectsShape ==
  ASSUME Shape, NEW c \in Clients, GetConnects(c)
  PROVE  Shape'
<1>1. at[c] \in Nodes /\ c \in Threads
  BY ThreadFacts DEF GetConnects, Shape, Placed
<1>2. CASE ConnectFails(c, "ready") /\ UNCHANGED <<open, held>>
  <2>1. held[c] = None
    BY DEF GetConnects, Shape, Holding
  <2> QED BY <1>1, <1>2, <2>1, ConnectFailsShape DEF GetConnects, Shape, Types
<1>3. ASSUME NEW s \in Sockets, open' \in {open \cup {s}, open \ {s}},
             held' = [held EXCEPT ![c] = s], Goto(c, "enlist"), UNCHANGED <<alive, after>>
      PROVE  Shape'
  <2>1. /\ UNCHANGED <<pools, released, lists, at, todo, left>> /\ pc[c] = "connect"
        /\ open' \subseteq Sockets /\ s # None
    BY <1>3, ThreadFacts DEF GetConnects, Shape, Types
  <2>2. Types'
    BY <1>1, <1>3, <2>1 DEF Shape, Types, Goto, pools, lists
  <2>3. Holding'
    BY <1>1, <1>3, <2>1 DEF Shape, Types, Holding, Goto
  <2>4. Placed'
    BY <1>1, <1>3, <2>1 DEF Shape, Types, Placed, Goto
  <2> QED BY <2>2, <2>3, <2>4 DEF Shape
<1> QED BY <1>2, <1>3 DEF GetConnects

LEMMA GetEnlistsShape ==
  ASSUME Shape, NEW c \in Clients, GetEnlists(c)
  PROVE  Shape'
<1>1. at[c] \in Nodes /\ c \in Threads
  BY ThreadFacts DEF GetEnlists, Shape, Placed
<1>2. \E I, B \in SUBSET Sockets : SetPool(at[c], I, B)
  <2>1. idle[at[c]] \in SUBSET Sockets /\ busy[at[c]] \cup {held[c]} \in SUBSET Sockets
    BY <1>1 DEF GetEnlists, Shape, Types, Holding
  <2> QED BY <2>1 DEF GetEnlists
<1>3. /\ idle' \in [Nodes -> SUBSET Sockets] /\ busy' \in [Nodes -> SUBSET Sockets]
      /\ disturbed' \subseteq {"idle", "busy"}
  BY <1>1, <1>2, SetPoolFacts DEF Shape
<1>4. Types'
  BY <1>1, <1>3, ThreadFacts DEF Shape, Types, GetEnlists, Goto, sockets, lists, local
<1>5. Holding'
  BY <1>1, ThreadFacts DEF Shape, Types, Holding, GetEnlists, Goto, sockets, lists, local
<1>6. Placed'
  BY <1>1, ThreadFacts DEF Shape, Types, Placed, GetEnlists, Goto, sockets, lists, local
<1> QED BY <1>4, <1>5, <1>6 DEF Shape

LEMMA WriteShape ==
  ASSUME Shape, NEW c \in Clients, Write(c)
  PROVE  Shape'
<1>1. /\ \/ /\ \E l \in {"read", "return"} : Goto(c, l)
            /\ UNCHANGED <<alive, open, after>>
         \/ /\ alive' = [alive EXCEPT ![at[c]] = FALSE]
            /\ open' = open \ {held[c]}
            /\ Goto(c, "error")
            /\ \E next \in {"read", "return"} : after' = [after EXCEPT ![c] = next]
      /\ UNCHANGED <<pools, released, lists, at, held, todo, left>>
      /\ pc[c] = "write" /\ c \in Threads /\ at[c] \in Nodes
  BY ThreadFacts DEF Write, Shape, Placed
<1>2. Types'
  <2>1. \E l \in {"read", "return", "error"} : Goto(c, l)
    BY <1>1
  <2>2. alive' \in [Nodes -> BOOLEAN] /\ open' \subseteq Sockets
    BY <1>1 DEF Shape, Types
  <2>3. after' \in [Threads -> {"ready", "get", "read", "return", "refill", "revive"}]
    BY <1>1 DEF Shape, Types
  <2> QED BY <1>1, <2>1, <2>2, <2>3 DEF Shape, Types, Goto, pools, lists
<1>3. Holding'
  BY <1>1, ThreadFacts DEF Shape, Types, Holding, Goto
<1>4. Placed'
  BY <1>1 DEF Shape, Types, Placed, Goto
<1> QED BY <1>2, <1>3, <1>4 DEF Shape

LEMMA ReadShape ==
  ASSUME Shape, NEW c \in Clients, Read(c)
  PROVE  Shape'
<1>1. Types'
  BY ThreadFacts, PoolAssumption DEF Shape, Types, Placed, Read, Goto, pools, lists, local
<1>2. Holding'
  BY ThreadFacts DEF Shape, Types, Holding, Read, Goto, pools, lists, local
<1>3. Placed'
  BY ThreadFacts DEF Shape, Types, Placed, Read, Goto, pools, lists, local
<1> QED BY <1>1, <1>2, <1>3 DEF Shape

LEMMA ReadStopsSpinningShape ==
  ASSUME Shape, NEW c \in Clients, ReadStopsSpinning(c)
  PROVE  Shape'
<1>1. Types'
  BY ThreadFacts, PoolAssumption DEF Shape, Types, Placed, ReadStopsSpinning, Goto, pools, sockets, lists, local
<1>2. Holding'
  BY ThreadFacts DEF Shape, Types, Holding, ReadStopsSpinning, Goto, pools, sockets, lists, local
<1>3. Placed'
  BY ThreadFacts DEF Shape, Types, Placed, ReadStopsSpinning, Goto, pools, sockets, lists, local
<1> QED BY <1>1, <1>2, <1>3 DEF Shape

LEMMA CloseClientSocketShape ==
  ASSUME Shape, NEW c \in Clients, CloseClientSocket(c)
  PROVE  Shape'
<1>1. at[c] \in Nodes /\ c \in Threads
  BY ThreadFacts DEF CloseClientSocket, Shape, Placed
<1>2. \E I, B \in SUBSET Sockets : SetPool(at[c], I, B)
  <2>1. idle[at[c]] \in SUBSET Sockets /\ busy[at[c]] \ {held[c]} \in SUBSET Sockets
    BY <1>1 DEF Shape, Types
  <2> QED BY <2>1 DEF CloseClientSocket
<1>3. /\ idle' \in [Nodes -> SUBSET Sockets] /\ busy' \in [Nodes -> SUBSET Sockets]
      /\ disturbed' \subseteq {"idle", "busy"}
  BY <1>1, <1>2, SetPoolFacts DEF Shape
<1>4. Types'
  BY <1>1, <1>3, ThreadFacts DEF Shape, Types, CloseClientSocket, Goto, sockets, lists, local
<1>5. Holding'
  BY <1>1, ThreadFacts DEF Shape, Types, Holding, CloseClientSocket, Goto, sockets, lists, local
<1>6. Placed'
  BY <1>1, ThreadFacts DEF Shape, Types, Placed, CloseClientSocket, Goto, sockets, lists, local
<1> QED BY <1>4, <1>5, <1>6 DEF Shape

LEMMA ReturnClientSocketShape ==
  ASSUME Shape, NEW c \in Clients, ReturnClientSocket(c)
  PROVE  Shape'
<1>1. at[c] \in Nodes /\ c \in Threads
  BY ThreadFacts DEF ReturnClientSocket, Shape, Placed
<1>2. \E I, B \in SUBSET Sockets : SetPool(at[c], I, B)
  <2>1. idle[at[c]] \in SUBSET Sockets /\ busy[at[c]] \ {held[c]} \in SUBSET Sockets
    BY <1>1 DEF ReturnClientSocket, Shape, Types, Holding
  <2> QED BY <2>1 DEF ReturnClientSocket
<1>3. /\ idle' \in [Nodes -> SUBSET Sockets] /\ busy' \in [Nodes -> SUBSET Sockets]
      /\ disturbed' \subseteq {"idle", "busy"}
  BY <1>1, <1>2, SetPoolFacts DEF Shape
<1>4. Types'
  BY <1>1, <1>3, ThreadFacts DEF Shape, Types, ReturnClientSocket, Goto, sockets, lists, local
<1>5. Holding'
  BY <1>1, ThreadFacts DEF Shape, Types, Holding, ReturnClientSocket, Goto, sockets, lists, local
<1>6. Placed'
  BY <1>1, ThreadFacts DEF Shape, Types, Placed, ReturnClientSocket, Goto, sockets, lists, local
<1> QED BY <1>4, <1>5, <1>6 DEF Shape

LEMMA ReturnStoresShape ==
  ASSUME Shape, NEW c \in Clients, ReturnStores(c)
  PROVE  Shape'
<1>1. at[c] \in Nodes /\ c \in Threads
  BY ThreadFacts DEF ReturnStores, Shape, Placed
<1>a. held[c] \in Sockets
  BY DEF ReturnStores, Shape, Types, Holding
<1>2. \E I, B \in SUBSET Sockets : SetPool(at[c], I, B)
  <2>1. /\ idle[at[c]] \in SUBSET Sockets /\ idle[at[c]] \cup {held[c]} \in SUBSET Sockets
        /\ busy[at[c]] \in SUBSET Sockets
    BY <1>1, <1>a DEF Shape, Types
  <2> QED BY <2>1 DEF ReturnStores
<1>3. /\ idle' \in [Nodes -> SUBSET Sockets] /\ busy' \in [Nodes -> SUBSET Sockets]
      /\ disturbed' \subseteq {"idle", "busy"}
  BY <1>1, <1>2, SetPoolFacts DEF Shape
<1>b. /\ released' \subseteq Sockets /\ open' \subseteq Sockets
      /\ Goto(c, "ready") /\ held' = [held EXCEPT ![c] = None]
      /\ UNCHANGED <<alive, lists, after, at, todo, left>> /\ pc[c] = "store"
  BY <1>a DEF ReturnStores, Shape, Types
<1>4. Types'
  BY <1>1, <1>3, <1>b, ThreadFacts DEF Shape, Types, Goto, lists
<1>5. Holding'
  BY <1>1, <1>b, ThreadFacts DEF Shape, Types, Holding, Goto
<1>6. Placed'
  BY <1>1, <1>b, ThreadFacts DEF Shape, Types, Placed, Goto
<1> QED BY <1>4, <1>5, <1>6 DEF Shape

LEMMA MaintainChecksAliveShape ==
  ASSUME Shape, NEW n \in Nodes, MaintainChecksAlive(n)
  PROVE  Shape'
<1>1. Types'
  BY ThreadFacts, PoolAssumption DEF Shape, Types, Placed, MaintainChecksAlive, Goto, pools, sockets, lists, local
<1>2. Holding'
  BY ThreadFacts DEF Shape, Types, Holding, MaintainChecksAlive, Goto, pools, sockets, lists, local
<1>3. Placed'
  BY ThreadFacts DEF Shape, Types, Placed, MaintainChecksAlive, Goto, pools, sockets, lists, local
<1> QED BY <1>1, <1>2, <1>3 DEF Shape

LEMMA MaintainTrimsShape ==
  ASSUME Shape, NEW n \in Nodes, MaintainTrims(n)
  PROVE  Shape'
<1>1. PICK I \in SUBSET (idle[n] \cap released), B \in SUBSET busy[n] :
        LET kept == Connections(n) - Cardinality(I)
            rest == kept - Cardinality(B)
        IN /\ I # {} => kept >= Min
           /\ open' = open \ (I \cup B)
           /\ released' = released \ I
           /\ SetPool(n, idle[n] \ I, busy[n] \ B)
           /\ left' = [left EXCEPT ![n] = IF rest < Min THEN Min - rest ELSE 0]
           /\ Goto(n, IF rest < Min THEN "refill" ELSE "ready")
  BY DEF MaintainTrims
<1> DEFINE rest == Connections(n) - Cardinality(I) - Cardinality(B)
<1>2. /\ n \in Threads /\ idle[n] \in SUBSET Sockets /\ busy[n] \in SUBSET Sockets
      /\ pc[n] = "trim" /\ UNCHANGED <<alive, lists, after, at, held, todo>>
  BY ThreadFacts DEF Shape, Types, MaintainTrims
<1>3. rest \in Nat
  <2>1. /\ Cardinality(idle[n]) \in Nat /\ Cardinality(I) \in Nat /\ Cardinality(I) <= Cardinality(idle[n])
        /\ Cardinality(busy[n]) \in Nat /\ Cardinality(B) \in Nat /\ Cardinality(B) <= Cardinality(busy[n])
    BY <1>2, SocketSubsets
  <2> QED BY <2>1 DEF Connections
<1>4. left' \in [Threads -> 0..Min]
  <2>1. left' = [left EXCEPT ![n] = IF rest < Min THEN Min - rest ELSE 0]
    BY <1>1
  <2> HIDE DEF rest
  <2>2. (IF rest < Min THEN Min - rest ELSE 0) \in 0..Min
    BY <1>3, PoolAssumption
  <2> QED BY <1>2, <2>1, <2>2 DEF Shape, Types
<1>5. \E l \in {"refill", "ready"} : Goto(n, l)
  BY <1>1
<1>6. /\ idle' \in [Nodes -> SUBSET Sockets] /\ busy' \in [Nodes -> SUBSET Sockets]
      /\ disturbed' \subseteq {"idle", "busy"}
  <2>1. idle[n] \ I \in SUBSET Sockets /\ busy[n] \ B \in SUBSET Sockets
    BY <1>2
  <2> QED BY <1>1, <2>1, SetPoolFacts DEF Shape
<1>7. open' \subseteq Sockets /\ released' \subseteq Sockets
  BY <1>1 DEF Shape, Types
<1>8. Types'
  BY <1>2, <1>4, <1>5, <1>6, <1>7 DEF Shape, Types, Goto, lists
<1>9. Holding'
  BY <1>2, <1>5, ThreadFacts DEF Shape, Types, Holding, Goto
<1>10. Placed'
  BY <1>2, <1>5, ThreadFacts DEF Shape, Types, Placed, Goto
<1> QED BY <1>8, <1>9, <1>10 DEF Shape

LEMMA MaintainRefillsShape ==
  ASSUME Shape, NEW n \in Nodes, MaintainRefills(n)
  PROVE  Shape'
<1>1. n \in Threads /\ at[n] = n /\ left[n] \in 0..Min /\ left[n] > 0 /\ left' = [left EXCEPT ![n] = left[n] - 1]
  BY ThreadFacts DEF Shape, Types, Placed, MaintainRefills
<1>2. left' \in [Threads -> 0..Min]
  <2>1. left[n] - 1 \in 0..Min
    BY <1>1, PoolAssumption
  <2> QED BY <1>1, <2>1 DEF Shape, Types
<1>3. /\ UNCHANGED <<alive, pools, sockets, lists, after, at, held, todo>>
      /\ Goto(n, "add") \/ UNCHANGED pc
  BY DEF MaintainRefills
<1>4. Types'
  BY <1>1, <1>2, <1>3 DEF Shape, Types, Goto, pools, sockets, lists
<1>5. Holding'
  BY <1>3, ThreadFacts DEF Shape, Types, Holding, Goto
<1>6. Placed'
  BY <1>1, <1>3, ThreadFacts DEF Shape, Types, Placed, Goto
<1> QED BY <1>4, <1>5, <1>6 DEF Shape

LEMMA MaintainAddsShape ==
  ASSUME Shape, NEW n \in Nodes, MaintainAdds(n)
  PROVE  Shape'
<1>1. n \in Threads /\ n \notin Clients /\ at[n] = n /\ UNCHANGED <<released, lists, at, held, todo, left>>
  BY ThreadFacts DEF Shape, Placed, MaintainAdds
<1>2. ASSUME NEW s \in Sockets, Connects(s), SetPool(n, idle[n] \cup {s}, busy[n]),
             Goto(n, "refill"), UNCHANGED <<alive, after>>
      PROVE  Shape'
  <2>1. idle[n] \cup {s} \in SUBSET Sockets /\ busy[n] \in SUBSET Sockets
    BY DEF Shape, Types
  <2>2. /\ idle' \in [Nodes -> SUBSET Sockets] /\ busy' \in [Nodes -> SUBSET Sockets]
        /\ disturbed' \subseteq {"idle", "busy"}
    BY <1>2, <2>1, SetPoolFacts DEF Shape
  <2>3. Types'
    BY <1>1, <1>2, <2>2 DEF Connects, Shape, Types, Goto, lists
  <2>4. Holding'
    BY <1>1, <1>2, ThreadFacts DEF Shape, Types, Holding, Goto
  <2>5. Placed'
    BY <1>1, <1>2, ThreadFacts DEF Shape, Types, Placed, Goto
  <2> QED BY <2>3, <2>4, <2>5 DEF Shape
<1>3. CASE ConnectFails(n, "refill") /\ UNCHANGED <<pools, open>>
  BY <1>1, <1>3, ThreadFacts, ConnectFailsShape DEF Shape, Types
<1> QED BY <1>2, <1>3 DEF MaintainAdds

LEMMA MaintainEndsShape ==
  ASSUME Shape, NEW n \in Nodes, MaintainEnds(n)
  PROVE  Shape'
<1>1. Types'
  BY ThreadFacts, PoolAssumption DEF Shape, Types, Placed, MaintainEnds, Goto, pools, sockets, lists, local
<1>2. Holding'
  BY ThreadFacts DEF Shape, Types, Holding, MaintainEnds, Goto, pools, sockets, lists, local
<1>3. Placed'
  BY ThreadFacts DEF Shape, Types, Placed, MaintainEnds, Goto, pools, sockets, lists, local
<1> QED BY <1>1, <1>2, <1>3 DEF Shape

LEMMA InitAddsShape ==
  ASSUME Shape, NEW t \in {recoverer, constructor}, InitAdds(t)
  PROVE  Shape'
<1>1. t \in Threads /\ t \notin Clients /\ at[t] \in Nodes /\ left[t] \in 0..Min /\ left[t] > 0
  BY ThreadFacts DEF Shape, Types, Placed, InitAdds
<1>2. UNCHANGED <<released, lists, at, held, todo>>
  BY DEF InitAdds
<1>3. ASSUME NEW s \in Sockets, Connects(s), SetPool(at[t], idle[at[t]] \cup {s}, busy[at[t]]),
             left' = [left EXCEPT ![t] = left[t] - 1], UNCHANGED <<alive, pc, after>>
      PROVE  Shape'
  <2>1. /\ idle[at[t]] \cup {s} \in SUBSET Sockets /\ busy[at[t]] \in SUBSET Sockets
        /\ left[t] - 1 \in 0..Min
    BY <1>1, PoolAssumption DEF Shape, Types
  <2>2. /\ idle' \in [Nodes -> SUBSET Sockets] /\ busy' \in [Nodes -> SUBSET Sockets]
        /\ disturbed' \subseteq {"idle", "busy"}
    BY <1>1, <1>3, <2>1, SetPoolFacts DEF Shape
  <2>3. left' \in [Threads -> 0..Min]
    BY <1>1, <1>3, <2>1 DEF Shape, Types
  <2> QED BY <1>2, <1>3, <2>2, <2>3 DEF Connects, Shape, Types, Holding, Placed, lists
<1>4. CASE ConnectFails(t, "revive") /\ UNCHANGED <<pools, open, left>>
  BY <1>1, <1>2, <1>4, ConnectFailsShape DEF Shape, Types
<1> QED BY <1>3, <1>4 DEF InitAdds

LEMMA InitEndsShape ==
  ASSUME Shape, NEW t \in {recoverer, constructor}, InitEnds(t)
  PROVE  Shape'
<1>1. Types'
  BY ThreadFacts, PoolAssumption DEF Shape, Types, Placed, InitEnds, Goto, pools, sockets, lists, local
<1>2. Holding'
  BY ThreadFacts DEF Shape, Types, Holding, InitEnds, Goto, pools, sockets, lists, local
<1>3. Placed'
  BY ThreadFacts DEF Shape, Types, Placed, InitEnds, Goto, pools, sockets, lists, local
<1> QED BY <1>1, <1>2, <1>3 DEF Shape

LEMMA ReviveShape ==
  ASSUME Shape, NEW t \in {recoverer, constructor}, Revive(t)
  PROVE  Shape'
<1>1. Types'
  BY ThreadFacts, PoolAssumption DEF Shape, Types, Placed, Revive, Goto, pools, sockets, lists, local
<1>2. Holding'
  BY ThreadFacts DEF Shape, Types, Holding, Placed, Revive, Goto, pools, sockets, lists, local
<1>3. Placed'
  BY ThreadFacts DEF Shape, Types, Placed, Revive, Goto, pools, sockets, lists, local
<1> QED BY <1>1, <1>2, <1>3 DEF Shape

LEMMA RecoverBeginsShape ==
  ASSUME Shape, RecoverBegins
  PROVE  Shape'
<1>1. Types'
  BY ThreadFacts, PoolAssumption DEF Shape, Types, Placed, RecoverBegins, Goto, pools, sockets, lists
<1>2. Holding'
  BY ThreadFacts DEF Shape, Types, Holding, RecoverBegins, Goto, pools, sockets, lists
<1>3. Placed'
  BY ThreadFacts DEF Shape, Types, Placed, RecoverBegins, Goto, pools, sockets, lists
<1> QED BY <1>1, <1>2, <1>3 DEF Shape

LEMMA RecoverChecksShape ==
  ASSUME Shape, RecoverChecks
  PROVE  Shape'
<1>1. Types'
  BY ThreadFacts, PoolAssumption DEF Shape, Types, Placed, RecoverChecks, Goto, pools, sockets, lists
<1>2. Holding'
  BY ThreadFacts DEF Shape, Types, Holding, RecoverChecks, Goto, pools, sockets, lists
<1>3. Placed'
  BY ThreadFacts DEF Shape, Types, Placed, RecoverChecks, Goto, pools, sockets, lists
<1> QED BY <1>1, <1>2, <1>3 DEF Shape

LEMMA RecoverClearsShape ==
  ASSUME Shape, RecoverClears
  PROVE  Shape'
<1>1. at[recoverer] \in Nodes /\ recoverer \in Threads
  BY ThreadFacts DEF RecoverClears, Shape, Placed
<1>2. \E I, B \in SUBSET Sockets : SetPool(at[recoverer], I, B)
  BY DEF RecoverClears
<1>3. /\ idle' \in [Nodes -> SUBSET Sockets] /\ busy' \in [Nodes -> SUBSET Sockets]
      /\ disturbed' \subseteq {"idle", "busy"}
  BY <1>1, <1>2, SetPoolFacts DEF Shape
<1>4. Types'
  BY <1>1, <1>3, PoolAssumption, ThreadFacts DEF Shape, Types, RecoverClears, Goto, lists
<1>5. Holding'
  BY <1>1, PoolAssumption, ThreadFacts DEF Shape, Types, Holding, RecoverClears, Goto, lists
<1>6. Placed'
  BY <1>1, ThreadFacts DEF Shape, Types, Placed, RecoverClears, Goto, lists
<1> QED BY <1>4, <1>5, <1>6 DEF Shape

LEMMA RecoverJoinsShape ==
  ASSUME Shape, RecoverJoins
  PROVE  Shape'
<1>1. Types'
  BY ThreadFacts, PoolAssumption DEF Shape, Types, Placed, RecoverJoins, Goto, pools, sockets, local
<1>2. Holding'
  BY ThreadFacts DEF Shape, Types, Holding, RecoverJoins, Goto, pools, sockets, local
<1>3. Placed'
  BY ThreadFacts DEF Shape, Types, Placed, RecoverJoins, Goto, pools, sockets, local
<1> QED BY <1>1, <1>2, <1>3 DEF Shape

LEMMA RecoverEndsShape ==
  ASSUME Shape, RecoverEnds
  PROVE  Shape'
<1>1. Types'
  BY ThreadFacts, PoolAssumption DEF Shape, Types, Placed, RecoverEnds, Goto, pools, sockets, lists, local
<1>2. Holding'
  BY ThreadFacts DEF Shape, Types, Holding, RecoverEnds, Goto, pools, sockets, lists, local
<1>3. Placed'
  BY ThreadFacts DEF Shape, Types, Placed, RecoverEnds, Goto, pools, sockets, lists, local
<1> QED BY <1>1, <1>2, <1>3 DEF Shape

LEMMA ConstructNodeShape ==
  ASSUME Shape, ConstructNode
  PROVE  Shape'
<1>1. Types'
  BY ThreadFacts, PoolAssumption DEF Shape, Types, Placed, ConstructNode, Goto, pools, sockets, lists
<1>2. Holding'
  BY ThreadFacts DEF Shape, Types, Holding, ConstructNode, Goto, pools, sockets, lists
<1>3. Placed'
  BY ThreadFacts DEF Shape, Types, Placed, ConstructNode, Goto, pools, sockets, lists
<1> QED BY <1>1, <1>2, <1>3 DEF Shape

LEMMA ConstructAddsShape ==
  ASSUME Shape, ConstructAdds
  PROVE  Shape'
<1>1. Types'
  BY ThreadFacts, PoolAssumption DEF Shape, Types, Placed, ConstructAdds, Goto, pools, sockets, local
<1>2. Holding'
  BY ThreadFacts DEF Shape, Types, Holding, ConstructAdds, Goto, pools, sockets, local
<1>3. Placed'
  BY ThreadFacts DEF Shape, Types, Placed, ConstructAdds, Goto, pools, sockets, local
<1> QED BY <1>1, <1>2, <1>3 DEF Shape

LEMMA ConstructEndsShape ==
  ASSUME Shape, ConstructEnds
  PROVE  Shape'
<1>1. Types'
  BY ThreadFacts, PoolAssumption DEF Shape, Types, Placed, ConstructEnds, Goto, pools, sockets, local
<1>2. Holding'
  BY ThreadFacts DEF Shape, Types, Holding, ConstructEnds, Goto, pools, sockets, local
<1>3. Placed'
  BY ThreadFacts DEF Shape, Types, Placed, ConstructEnds, Goto, pools, sockets, local
<1> QED BY <1>1, <1>2, <1>3 DEF Shape

LEMMA ShapeStep == Shape /\ [Next]_vars => Shape'
<1> SUFFICES ASSUME Shape, [Next]_vars PROVE Shape'
  OBVIOUS
<1>1. CASE UNCHANGED vars
  BY <1>1 DEF vars, pools, sockets, lists, local, Shape, Types, Holding, Placed
<1>2. ASSUME NEW c \in Clients, Call(c) PROVE Shape'
  BY <1>2, AcquireNodeShape, AcquireSocketShape, GetChecksAliveShape, GetChoosesShape,
     GetMovesShape, GetConnectsShape, GetEnlistsShape, WriteShape, ReadShape,
     ReadStopsSpinningShape, CloseClientSocketShape, ReturnClientSocketShape, ReturnStoresShape
     DEF Call
<1>3. ASSUME NEW n \in Nodes, Maintain(n) PROVE Shape'
  BY <1>3, MaintainChecksAliveShape, MaintainTrimsShape, MaintainRefillsShape,
     MaintainAddsShape, MaintainEndsShape
     DEF Maintain
<1>4. CASE Recover \/ Construct
  BY <1>4, RecoverBeginsShape, RecoverChecksShape, RecoverClearsShape, RecoverJoinsShape,
     RecoverEndsShape, ConstructNodeShape, ConstructAddsShape, ConstructEndsShape, InitAddsShape,
     InitEndsShape, ReviveShape DEF Recover, Construct
<1>5. ASSUME NEW t \in Threads, NodeErrorCall(t) PROVE Shape'
  BY <1>5, NodeErrorListsShape, DestoryDestroysShape, DestoryPassesShape, DestoryEntersBusyShape,
     DestoryThrowsShape, DestoryClearsIdleShape, DestoryClearsBusyShape DEF NodeErrorCall
<1> QED
  BY <1>1, <1>2, <1>3, <1>4, <1>5 DEF Next

----------------------------------------------------------------------------
\* Sockets have one owner.

\* A caller that has a socket does not move it, and does not begin to put it back.
StaysPut(c) ==
  held[c] # None => /\ at'[c] = at[c]
                    /\ pc[c] = "move" => pc'[c] = "move"
                    /\ pc'[c] = "store" => pc[c] = "store"

\* Lists lose sockets, and who has one stays where it is.
LEMMA OwnedShrinks ==
  ASSUME Shape, Owned, held' = held,
         \A n \in Nodes : idle'[n] \subseteq idle[n] /\ busy'[n] \subseteq busy[n],
         \A c \in Clients : StaysPut(c),
         released' \subseteq released, \A s \in released' : \E n \in Nodes : s \in idle'[n]
  PROVE  Owned'
<1>1. \A n \in Nodes : None \notin idle[n] \cup busy[n]
  BY ThreadFacts DEF Shape, Types
<1>2. \A c \in Clients, n \in Nodes :
        /\ held'[c] \in idle'[n] => pc'[c] = "move" /\ at'[c] = n
        /\ held'[c] \in busy'[n] => at'[c] = n
  BY <1>1 DEF Owned, StaysPut
<1>3. \A n, m \in Nodes : n # m => (idle'[n] \cup busy'[n]) \cap (idle'[m] \cup busy'[m]) = {}
  <2> SUFFICES ASSUME NEW n \in Nodes, NEW m \in Nodes, n # m
               PROVE  (idle'[n] \cup busy'[n]) \cap (idle'[m] \cup busy'[m]) = {}
    OBVIOUS
  <2>1. (idle[n] \cup busy[n]) \cap (idle[m] \cup busy[m]) = {}
    BY DEF Owned
  <2> QED BY <2>1
<1>4. \A n \in Nodes : idle'[n] \cap busy'[n] = {}
  BY DEF Owned
<1>5. ASSUME NEW n \in Nodes, NEW s \in busy'[n]
      PROVE  \E c \in Clients : held'[c] = s /\ pc'[c] # "store"
  <2>1. PICK c \in Clients : held[c] = s /\ pc[c] # "store"
    BY <1>5 DEF Owned
  <2>2. s # None
    BY <1>1, <1>5
  <2> QED BY <2>1, <2>2 DEF StaysPut
<1> QED BY <1>2, <1>3, <1>4, <1>5 DEF Owned

\* The lists stay as they are.
LEMMA OwnedStays ==
  ASSUME Shape, Owned, UNCHANGED <<held, idle, busy, released>>,
         \A c \in Clients : StaysPut(c)
  PROVE  Owned'
<1>1. /\ \A n \in Nodes : idle'[n] \subseteq idle[n] /\ busy'[n] \subseteq busy[n]
      /\ \A s \in released' : \E n \in Nodes : s \in idle'[n]
  BY DEF Owned
<1> QED BY <1>1, OwnedShrinks

\* A new connection gets into the idle list.
LEMMA OwnedGrowsIdle ==
  ASSUME Shape, Owned, NEW n \in Nodes, NEW s \in Sockets, Unreferenced(s),
         SetPool(n, idle[n] \cup {s}, busy[n]), UNCHANGED <<held, at, released>>,
         \A c \in Clients : pc'[c] = pc[c]
  PROVE  Owned'
<1>1. /\ idle'[n] = idle[n] \cup {s} /\ busy'[n] = busy[n]
      /\ \A m \in Nodes : m # n => idle'[m] = idle[m] /\ busy'[m] = busy[m]
  <2>1. idle[n] \cup {s} \in SUBSET Sockets /\ busy[n] \in SUBSET Sockets
    BY DEF Shape, Types
  <2> QED BY <2>1, SetPoolFacts DEF Shape
<1>2. /\ \A m \in Nodes : s \notin idle[m] /\ s \notin busy[m]
      /\ \A c \in Clients : held[c] # s
  BY DEF Unreferenced
<1>3. \A c \in Clients, m \in Nodes :
        /\ held'[c] \in idle'[m] => pc'[c] = "move" /\ at'[c] = m
        /\ held'[c] \in busy'[m] => at'[c] = m
  BY <1>1, <1>2 DEF Owned
<1>4. \A k, m \in Nodes : k # m => (idle'[k] \cup busy'[k]) \cap (idle'[m] \cup busy'[m]) = {}
  <2> SUFFICES ASSUME NEW k \in Nodes, NEW m \in Nodes, k # m
               PROVE  (idle'[k] \cup busy'[k]) \cap (idle'[m] \cup busy'[m]) = {}
    OBVIOUS
  <2>1. (idle[k] \cup busy[k]) \cap (idle[m] \cup busy[m]) = {}
    BY DEF Owned
  <2> QED BY <1>1, <1>2, <2>1
<1>5. \A m \in Nodes : idle'[m] \cap busy'[m] = {}
  BY <1>1, <1>2 DEF Owned
<1>6. \A r \in released' : \E m \in Nodes : r \in idle'[m]
  BY <1>1 DEF Owned
<1>7. \A m \in Nodes : busy'[m] = busy[m]
  BY <1>1
<1> QED BY <1>3, <1>4, <1>5, <1>6, <1>7 DEF Owned

LEMMA GetChoosesOwned ==
  ASSUME Shape, Owned, NEW c \in Clients, GetChooses(c)
  PROVE  Owned'
<1>1. at[c] \in Nodes /\ c \in Threads /\ held[c] = None /\ pc[c] = "choose"
  BY ThreadFacts DEF GetChooses, Shape, Placed, Holding
<1>2. CASE idle[at[c]] = {}
  <2>1. /\ UNCHANGED <<held, idle, busy, released, at>>
        /\ \A d \in Clients : d # c => pc'[d] = pc[d]
    BY <1>1, <1>2, ThreadFacts DEF GetChooses, sockets, pools, Goto, Shape, Types
  <2> QED BY <1>1, <2>1, OwnedStays DEF StaysPut
<1>3. CASE idle[at[c]] # {}
  <2>1. PICK s \in idle[at[c]] :
          /\ Goto(c, "move") /\ NodeLockFree(at[c])
          /\ held' = [held EXCEPT ![c] = s]
          /\ released' = released \ {s}
          /\ UNCHANGED <<pools, at>>
    BY <1>3 DEF GetChooses
  <2>2. /\ pc'[c] = "move" /\ held'[c] = s
        /\ \A d \in Clients : d # c => pc'[d] = pc[d] /\ held'[d] = held[d]
    BY <1>1, <2>1, ThreadFacts DEF Goto, Shape, Types
  <2>3. \A d \in Clients : held[d] # s
    <3> SUFFICES ASSUME NEW d \in Clients, held[d] = s PROVE FALSE
      OBVIOUS
    <3>1. pc[d] = "move" /\ at[d] = at[c] /\ d \in Threads
      BY <1>1, ThreadFacts DEF Owned
    <3> QED BY <2>1, <3>1 DEF NodeLockFree, HoldsNodeLock
  <2>4. \A d, e \in Clients : held'[d] # None /\ held'[d] = held'[e] => d = e
    BY <2>2, <2>3 DEF Owned
  <2>5. \A m \in Nodes : s \notin busy[m] /\ (m # at[c] => s \notin idle[m])
    BY <1>1 DEF Owned
  <2>6. \A d \in Clients, n \in Nodes :
          /\ held'[d] \in idle'[n] => pc'[d] = "move" /\ at'[d] = n
          /\ held'[d] \in busy'[n] => at'[d] = n
    BY <2>1, <2>2, <2>5 DEF Owned, pools
  <2>7. \A d \in Clients : held'[d] \notin released'
    BY <2>1, <2>2 DEF Owned
  <2>8. \A r \in released' : \E n \in Nodes : r \in idle'[n]
    BY <2>1 DEF Owned, pools
  <2>9. ASSUME NEW n \in Nodes, NEW r \in busy'[n]
        PROVE  \E d \in Clients : held'[d] = r /\ pc'[d] # "store"
    <3>1. PICK d \in Clients : held[d] = r /\ pc[d] # "store"
      BY <2>1, <2>9 DEF Owned, pools
    <3>2. d # c
      BY <1>1, <2>1, <2>9, <3>1, ThreadFacts DEF pools, Shape, Types
    <3> QED BY <2>2, <3>1, <3>2
  <2> QED BY <2>1, <2>4, <2>6, <2>7, <2>8, <2>9 DEF Owned, pools
<1> QED BY <1>2, <1>3

LEMMA GetMovesOwned ==
  ASSUME Shape, Owned, NEW c \in Clients, GetMoves(c)
  PROVE  Owned'
<1>1. at[c] \in Nodes /\ c \in Threads /\ held[c] \in Sockets /\ held[c] # None /\ pc[c] = "move"
  BY ThreadFacts DEF GetMoves, Shape, Types, Placed, Holding
<1>2. /\ idle'[at[c]] = idle[at[c]] \ {held[c]} /\ \A m \in Nodes : busy'[m] = busy[m]
      /\ \A m \in Nodes : m # at[c] => idle'[m] = idle[m]
  <2>1. idle[at[c]] \ {held[c]} \in SUBSET Sockets /\ busy[at[c]] \in SUBSET Sockets
    BY <1>1 DEF Shape, Types
  <2>2. SetPool(at[c], idle[at[c]] \ {held[c]}, busy[at[c]])
    BY DEF GetMoves
  <2> QED BY <1>1, <2>1, <2>2, SetPoolParts DEF Shape
<1>3. /\ UNCHANGED <<held, at, released>> /\ pc'[c] = "enlist"
      /\ \A d \in Clients : d # c => pc'[d] = pc[d] /\ held[d] # held[c]
  BY <1>1, ThreadFacts DEF GetMoves, sockets, local, Goto, Shape, Types, Owned
<1>4. \A m \in Nodes : held[c] \notin idle'[m]
  BY <1>2 DEF Owned
<1>5. \A d \in Clients, n \in Nodes :
        /\ held'[d] \in idle'[n] => pc'[d] = "move" /\ at'[d] = n
        /\ held'[d] \in busy'[n] => at'[d] = n
  BY <1>2, <1>3, <1>4 DEF Owned
<1>6. \A n, m \in Nodes : n # m => (idle'[n] \cup busy'[n]) \cap (idle'[m] \cup busy'[m]) = {}
  <2> SUFFICES ASSUME NEW n \in Nodes, NEW m \in Nodes, n # m
               PROVE  (idle'[n] \cup busy'[n]) \cap (idle'[m] \cup busy'[m]) = {}
    OBVIOUS
  <2>1. (idle[n] \cup busy[n]) \cap (idle[m] \cup busy[m]) = {}
    BY DEF Owned
  <2> QED BY <1>2, <2>1
<1>7. \A n \in Nodes : idle'[n] \cap busy'[n] = {}
  BY <1>2 DEF Owned
<1>8. \A s \in released' : \E n \in Nodes : s \in idle'[n]
  <2> SUFFICES ASSUME NEW s \in released PROVE \E n \in Nodes : s \in idle'[n]
    BY <1>3
  <2>1. s # held[c] /\ \E n \in Nodes : s \in idle[n]
    BY DEF Owned
  <2> QED BY <1>2, <2>1
<1>9. \A n \in Nodes : \A s \in busy'[n] : \E d \in Clients : held'[d] = s /\ pc'[d] # "store"
  <2> SUFFICES ASSUME NEW n \in Nodes, NEW s \in busy[n]
               PROVE  \E d \in Clients : held[d] = s /\ pc'[d] # "store"
    BY <1>2, <1>3
  <2>1. PICK d \in Clients : held[d] = s /\ pc[d] # "store"
    BY DEF Owned
  <2> QED BY <1>3, <2>1
<1> QED BY <1>3, <1>5, <1>6, <1>7, <1>8, <1>9 DEF Owned

LEMMA GetConnectsOwned ==
  ASSUME Shape, Owned, NEW c \in Clients, GetConnects(c)
  PROVE  Owned'
<1>1. /\ at[c] \in Nodes /\ c \in Threads /\ held[c] = None
      /\ UNCHANGED <<idle, busy, released, at>>
  BY ThreadFacts DEF GetConnects, pools, Shape, Types, Placed, Holding
<1>2. CASE ConnectFails(c, "ready") /\ UNCHANGED <<open, held>>
  <2>1. \A d \in Clients : d # c => pc'[d] = pc[d]
    BY <1>1, <1>2, ThreadFacts DEF ConnectFails, Goto, Shape, Types
  <2> QED BY <1>1, <1>2, <2>1, OwnedStays DEF StaysPut
<1>3. ASSUME NEW s \in Sockets, Unreferenced(s), held' = [held EXCEPT ![c] = s], Goto(c, "enlist")
      PROVE  Owned'
  <2>1. /\ \A n \in Nodes : s \notin idle[n] /\ s \notin busy[n]
        /\ \A d \in Clients : held[d] # s
    BY <1>3 DEF Unreferenced
  <2>2. held'[c] = s /\ \A d \in Clients : d # c => held'[d] = held[d] /\ pc'[d] = pc[d]
    BY <1>1, <1>3, ThreadFacts DEF Goto, Shape, Types
  <2>3. s \notin released
    BY <2>1 DEF Owned
  <2>4. \A d \in Clients, n \in Nodes :
          /\ held'[d] \in idle'[n] => pc'[d] = "move" /\ at'[d] = n
          /\ held'[d] \in busy'[n] => at'[d] = n
    BY <1>1, <2>1, <2>2 DEF Owned
  <2>5. \A d, e \in Clients : held'[d] # None /\ held'[d] = held'[e] => d = e
    BY <2>1, <2>2 DEF Owned
  <2>6. /\ \A d \in Clients : held'[d] \notin released'
        /\ \A r \in released' : \E n \in Nodes : r \in idle'[n]
    BY <1>1, <2>2, <2>3 DEF Owned
  <2>7. ASSUME NEW n \in Nodes, NEW r \in busy'[n]
        PROVE  \E d \in Clients : held'[d] = r /\ pc'[d] # "store"
    <3>1. PICK d \in Clients : held[d] = r /\ pc[d] # "store"
      BY <1>1, <2>7 DEF Owned
    <3>2. d # c
      BY <1>1, <2>7, <3>1, ThreadFacts DEF Shape, Types
    <3> QED BY <2>2, <3>1, <3>2
  <2> QED BY <1>1, <2>4, <2>5, <2>6, <2>7 DEF Owned
<1> QED BY <1>2, <1>3 DEF GetConnects

LEMMA GetEnlistsOwned ==
  ASSUME Shape, Owned, NEW c \in Clients, GetEnlists(c)
  PROVE  Owned'
<1>1. at[c] \in Nodes /\ c \in Threads /\ held[c] \in Sockets /\ held[c] # None /\ pc[c] = "enlist"
  BY ThreadFacts DEF GetEnlists, Shape, Types, Placed, Holding
<1>2. /\ busy'[at[c]] = busy[at[c]] \cup {held[c]} /\ \A m \in Nodes : idle'[m] = idle[m]
      /\ \A m \in Nodes : m # at[c] => busy'[m] = busy[m]
  <2>1. idle[at[c]] \in SUBSET Sockets /\ busy[at[c]] \cup {held[c]} \in SUBSET Sockets
    BY <1>1 DEF Shape, Types
  <2>2. SetPool(at[c], idle[at[c]], busy[at[c]] \cup {held[c]})
    BY DEF GetEnlists
  <2> QED BY <1>1, <2>1, <2>2, SetPoolParts DEF Shape
<1>3. /\ UNCHANGED <<held, at, released>> /\ pc'[c] = "write"
      /\ \A d \in Clients : d # c => pc'[d] = pc[d] /\ held[d] # held[c]
  BY <1>1, ThreadFacts DEF GetEnlists, sockets, local, Goto, Shape, Types, Owned
<1>4. /\ \A m \in Nodes : held[c] \notin idle[m]
      /\ \A m \in Nodes : m # at[c] => held[c] \notin busy[m]
  BY <1>1 DEF Owned
<1>5. \A d \in Clients, n \in Nodes :
        /\ held'[d] \in idle'[n] => pc'[d] = "move" /\ at'[d] = n
        /\ held'[d] \in busy'[n] => at'[d] = n
  BY <1>2, <1>3, <1>4 DEF Owned
<1>6. \A n, m \in Nodes : n # m => (idle'[n] \cup busy'[n]) \cap (idle'[m] \cup busy'[m]) = {}
  <2> SUFFICES ASSUME NEW n \in Nodes, NEW m \in Nodes, n # m
               PROVE  (idle'[n] \cup busy'[n]) \cap (idle'[m] \cup busy'[m]) = {}
    OBVIOUS
  <2>1. (idle[n] \cup busy[n]) \cap (idle[m] \cup busy[m]) = {}
    BY DEF Owned
  <2> QED BY <1>2, <1>4, <2>1
<1>7. \A n \in Nodes : idle'[n] \cap busy'[n] = {}
  BY <1>2, <1>4 DEF Owned
<1>8. \A s \in released' : \E n \in Nodes : s \in idle'[n]
  BY <1>2, <1>3 DEF Owned
<1>9. ASSUME NEW n \in Nodes, NEW s \in busy'[n]
      PROVE  \E d \in Clients : held'[d] = s /\ pc'[d] # "store"
  <2>1. CASE s = held[c]
    BY <1>3, <2>1
  <2>2. CASE s # held[c]
    <3>1. s \in busy[n]
      BY <1>2, <1>9, <2>2
    <3>2. PICK d \in Clients : held[d] = s /\ pc[d] # "store"
      BY <3>1 DEF Owned
    <3> QED BY <1>3, <2>2, <3>2
  <2> QED BY <2>1, <2>2
<1> QED BY <1>3, <1>5, <1>6, <1>7, <1>8, <1>9 DEF Owned

LEMMA ReturnClientSocketOwned ==
  ASSUME Shape, Owned, NEW c \in Clients, ReturnClientSocket(c)
  PROVE  Owned'
<1>1. at[c] \in Nodes /\ c \in Threads /\ held[c] \in Sockets /\ held[c] # None /\ pc[c] = "return"
  BY ThreadFacts DEF ReturnClientSocket, Shape, Types, Placed, Holding
<1>2. /\ busy'[at[c]] = busy[at[c]] \ {held[c]} /\ \A m \in Nodes : idle'[m] = idle[m]
      /\ \A m \in Nodes : m # at[c] => busy'[m] = busy[m]
  <2>1. idle[at[c]] \in SUBSET Sockets /\ busy[at[c]] \ {held[c]} \in SUBSET Sockets
    BY <1>1 DEF Shape, Types
  <2>2. SetPool(at[c], idle[at[c]], busy[at[c]] \ {held[c]})
    BY DEF ReturnClientSocket
  <2> QED BY <1>1, <2>1, <2>2, SetPoolParts DEF Shape
<1>3. /\ UNCHANGED <<held, at, released>> /\ pc'[c] = "store"
      /\ \A d \in Clients : d # c => pc'[d] = pc[d] /\ held[d] # held[c]
  BY <1>1, ThreadFacts DEF ReturnClientSocket, sockets, local, Goto, Shape, Types, Owned
<1>4. /\ \A m \in Nodes : held[c] \notin idle[m]
      /\ \A m \in Nodes : held[c] \notin busy'[m]
  BY <1>1, <1>2 DEF Owned
<1>5. \A d \in Clients, n \in Nodes :
        /\ held'[d] \in idle'[n] => pc'[d] = "move" /\ at'[d] = n
        /\ held'[d] \in busy'[n] => at'[d] = n
  BY <1>2, <1>3, <1>4 DEF Owned
<1>6. \A n, m \in Nodes : n # m => (idle'[n] \cup busy'[n]) \cap (idle'[m] \cup busy'[m]) = {}
  <2> SUFFICES ASSUME NEW n \in Nodes, NEW m \in Nodes, n # m
               PROVE  (idle'[n] \cup busy'[n]) \cap (idle'[m] \cup busy'[m]) = {}
    OBVIOUS
  <2>1. (idle[n] \cup busy[n]) \cap (idle[m] \cup busy[m]) = {}
    BY DEF Owned
  <2> QED BY <1>2, <2>1
<1>7. \A n \in Nodes : idle'[n] \cap busy'[n] = {}
  BY <1>2 DEF Owned
<1>8. \A s \in released' : \E n \in Nodes : s \in idle'[n]
  BY <1>2, <1>3 DEF Owned
<1>9. ASSUME NEW n \in Nodes, NEW s \in busy'[n]
      PROVE  \E d \in Clients : held'[d] = s /\ pc'[d] # "store"
  <2>1. s \in busy[n] /\ s # held[c]
    BY <1>2, <1>4, <1>9
  <2>2. PICK d \in Clients : held[d] = s /\ pc[d] # "store"
    BY <2>1 DEF Owned
  <2> QED BY <1>3, <2>1, <2>2
<1> QED BY <1>3, <1>5, <1>6, <1>7, <1>8, <1>9 DEF Owned

\* What a caller puts back is in no list.
LEMMA StoredIsOut ==
  ASSUME Shape, Owned, NEW c \in Clients, pc[c] = "store"
  PROVE  \A n \in Nodes : held[c] \notin idle[n] /\ held[c] \notin busy[n]
<1>1. held[c] # None
  BY DEF Shape, Holding
<1> QED BY <1>1 DEF Owned

LEMMA ReturnStoresOwned ==
  ASSUME Shape, Owned, NEW c \in Clients, ReturnStores(c)
  PROVE  Owned'
<1>1. /\ at[c] \in Nodes /\ c \in Threads /\ held[c] \in Sockets /\ held[c] # None
      /\ pc[c] = "store"
  BY ThreadFacts DEF ReturnStores, Shape, Types, Placed, Holding
<1> DEFINE fits == Connections(at[c]) < Max
           I == IF fits THEN idle[at[c]] \cup {held[c]} ELSE idle[at[c]]
<1>2. /\ idle'[at[c]] = I /\ \A m \in Nodes : busy'[m] = busy[m]
      /\ \A m \in Nodes : m # at[c] => idle'[m] = idle[m]
  <2>1. I \in SUBSET Sockets /\ busy[at[c]] \in SUBSET Sockets
    BY <1>1 DEF Shape, Types
  <2>2. SetPool(at[c], I, busy[at[c]])
    BY DEF ReturnStores
  <2> HIDE DEF I
  <2> QED BY <1>1, <2>1, <2>2, SetPoolParts DEF Shape
<1>3. /\ released' = IF fits THEN released \cup {held[c]} ELSE released
      /\ held' = [held EXCEPT ![c] = None] /\ Goto(c, "ready") /\ UNCHANGED at
  BY DEF ReturnStores
<1> HIDE DEF fits
<1>4. /\ held'[c] = None
      /\ \A d \in Clients : d # c => held'[d] = held[d] /\ pc'[d] = pc[d] /\ held[d] # held[c]
  BY <1>1, <1>3, ThreadFacts DEF Goto, Shape, Types, Owned
<1>5. /\ \A m \in Nodes : held[c] \notin idle[m] /\ held[c] \notin busy[m]
      /\ \A m \in Nodes : None \notin idle[m] /\ None \notin busy[m]
      /\ None \notin released
  BY <1>1, StoredIsOut, ThreadFacts DEF Shape, Types
<1>6. \A d \in Clients, n \in Nodes :
        /\ held'[d] \in idle'[n] => pc'[d] = "move" /\ at'[d] = n
        /\ held'[d] \in busy'[n] => at'[d] = n
  <2>1. \A d \in Clients : d = c => held'[d] = None
    BY <1>4
  <2>2. \A n \in Nodes : None \notin idle'[n] /\ None \notin busy'[n]
    BY <1>1, <1>2, <1>5
  <2> QED BY <1>2, <1>3, <1>4, <2>1, <2>2 DEF Owned
<1>7. \A n, m \in Nodes : n # m => (idle'[n] \cup busy'[n]) \cap (idle'[m] \cup busy'[m]) = {}
  <2> SUFFICES ASSUME NEW n \in Nodes, NEW m \in Nodes, n # m
               PROVE  (idle'[n] \cup busy'[n]) \cap (idle'[m] \cup busy'[m]) = {}
    OBVIOUS
  <2>1. (idle[n] \cup busy[n]) \cap (idle[m] \cup busy[m]) = {}
    BY DEF Owned
  <2> QED BY <1>2, <1>5, <2>1
<1>8. \A n \in Nodes : idle'[n] \cap busy'[n] = {}
  <2>1. idle'[at[c]] \cap busy'[at[c]] = {}
    BY <1>1, <1>2, <1>5 DEF Owned
  <2> QED BY <1>2, <2>1 DEF Owned
<1>9. /\ \A d \in Clients : held'[d] \notin released'
      /\ \A r \in released' : \E n \in Nodes : r \in idle'[n]
  <2>1. \A d \in Clients : held'[d] \notin released'
    BY <1>1, <1>3, <1>4, <1>5 DEF Owned
  <2>2. ASSUME NEW r \in released' PROVE \E n \in Nodes : r \in idle'[n]
    <3>1. CASE r \in released
      <4>1. PICK n \in Nodes : r \in idle[n]
        BY <3>1 DEF Owned
      <4>2. r \in idle'[n]
        BY <1>2, <4>1
      <4> QED BY <4>2
    <3>2. CASE r \notin released
      BY <1>1, <1>2, <1>3, <2>2, <3>2
    <3> QED BY <3>1, <3>2
  <2> QED BY <2>1, <2>2
<1>10. \A d, e \in Clients : held'[d] # None /\ held'[d] = held'[e] => d = e
  BY <1>4 DEF Owned
<1>11. ASSUME NEW n \in Nodes, NEW s \in busy'[n]
       PROVE  \E d \in Clients : held'[d] = s /\ pc'[d] # "store"
  <2>1. s \in busy[n]
    BY <1>2, <1>11
  <2>2. PICK d \in Clients : held[d] = s /\ pc[d] # "store"
    BY <2>1 DEF Owned
  <2> QED BY <1>1, <1>4, <2>2
<1> QED BY <1>6, <1>7, <1>8, <1>9, <1>10, <1>11 DEF Owned

\* A step of Destory loses sockets of a list at most.
LEMMA DestoryOwned ==
  ASSUME Shape, Owned, NEW t \in Threads,
         \/ DestoryDestroys(t) \/ DestoryPasses(t) \/ DestoryEntersBusy(t) \/ DestoryThrows(t)
         \/ DestoryClearsIdle(t) \/ DestoryClearsBusy(t)
  PROVE  Owned'
<1>1. /\ at[t] \in Nodes /\ UNCHANGED <<held, at>>
      /\ \A u \in Threads : u # t => pc'[u] = pc[u]
      /\ pc[t] # "move" /\ pc'[t] # "store"
  BY DEF DestoryDestroys, DestoryPasses, DestoryEntersBusy, DestoryThrows, DestoryClearsIdle,
     DestoryClearsBusy, Loops, Goto, local, Shape, Types, Placed
<1>2. \A c \in Clients : StaysPut(c)
  BY <1>1, ThreadFacts DEF StaysPut
<1>3. CASE UNCHANGED <<released, idle, busy>>
  BY <1>1, <1>2, <1>3, OwnedStays
<1>4. CASE DestoryClearsIdle(t)
  <2>1. /\ idle'[at[t]] = {} /\ released' = released \ idle[at[t]] /\ UNCHANGED busy
        /\ \A m \in Nodes : m # at[t] => idle'[m] = idle[m]
    BY <1>1, <1>4 DEF DestoryClearsIdle, Shape, Types
  <2>2. \A n \in Nodes : idle'[n] \subseteq idle[n] /\ busy'[n] \subseteq busy[n]
    BY <2>1
  <2>3. ASSUME NEW s \in released' PROVE \E n \in Nodes : s \in idle'[n]
    <3>1. PICK n \in Nodes : s \in idle[n]
      BY <2>1, <2>3 DEF Owned
    <3>2. n # at[t]
      BY <2>1, <2>3, <3>1
    <3> QED BY <2>1, <3>1, <3>2
  <2> QED BY <1>1, <1>2, <2>1, <2>2, <2>3, OwnedShrinks
<1>5. CASE DestoryClearsBusy(t)
  <2>1. UNCHANGED <<idle, released>> /\ \A n \in Nodes : busy'[n] \subseteq busy[n]
    BY <1>1, <1>5 DEF DestoryClearsBusy, sockets, Shape, Types
  <2>2. \A s \in released' : \E n \in Nodes : s \in idle'[n]
    BY <2>1 DEF Owned
  <2> QED BY <1>1, <1>2, <2>1, <2>2, OwnedShrinks
<1> QED
  BY <1>3, <1>4, <1>5 DEF DestoryDestroys, DestoryPasses, DestoryEntersBusy, DestoryThrows,
     pools, sockets

LEMMA CloseClientSocketOwned ==
  ASSUME Shape, Owned, NEW c \in Clients, CloseClientSocket(c)
  PROVE  Owned'
<1>1. /\ at[c] \in Nodes /\ c \in Threads /\ pc[c] = "close" /\ UNCHANGED <<held, at, released>>
      /\ \A u \in Threads : u # c => pc'[u] = pc[u]
  BY ThreadFacts DEF CloseClientSocket, sockets, local, Goto, Shape, Types, Placed
<1>2. /\ idle'[at[c]] = idle[at[c]] /\ busy'[at[c]] = busy[at[c]] \ {held[c]}
      /\ \A m \in Nodes : m # at[c] => idle'[m] = idle[m] /\ busy'[m] = busy[m]
  <2>1. idle[at[c]] \in SUBSET Sockets /\ busy[at[c]] \ {held[c]} \in SUBSET Sockets
    BY <1>1 DEF Shape, Types
  <2>2. SetPool(at[c], idle[at[c]], busy[at[c]] \ {held[c]})
    BY DEF CloseClientSocket
  <2> QED BY <1>1, <2>1, <2>2, SetPoolParts DEF Shape
<1>3. \A n \in Nodes : idle'[n] \subseteq idle[n] /\ busy'[n] \subseteq busy[n]
  BY <1>2
<1>4. \A s \in released' : \E n \in Nodes : s \in idle'[n]
  BY <1>1, <1>2 DEF Owned
<1>5. \A d \in Clients : StaysPut(d)
  BY <1>1, ThreadFacts DEF CloseClientSocket, Goto, StaysPut, Shape, Types
<1> QED BY <1>1, <1>3, <1>4, <1>5, OwnedShrinks

LEMMA MaintainTrimsOwned ==
  ASSUME Shape, Owned, NEW n \in Nodes, MaintainTrims(n)
  PROVE  Owned'
<1>1. PICK I \in SUBSET (idle[n] \cap released), B \in SUBSET busy[n] :
        /\ released' = released \ I
        /\ SetPool(n, idle[n] \ I, busy[n] \ B)
        /\ \E l : Goto(n, l)
  BY DEF MaintainTrims
<1>2. UNCHANGED <<held, at>> /\ \A c \in Clients : pc'[c] = pc[c]
  BY <1>1, ThreadFacts DEF MaintainTrims, Goto, Shape, Types
<1>3. /\ idle'[n] = idle[n] \ I /\ busy'[n] = busy[n] \ B
      /\ \A m \in Nodes : m # n => idle'[m] = idle[m] /\ busy'[m] = busy[m]
  <2>1. idle[n] \ I \in SUBSET Sockets /\ busy[n] \ B \in SUBSET Sockets
    BY DEF Shape, Types
  <2> QED BY <1>1, <2>1, SetPoolParts DEF Shape
<1>4. \A m \in Nodes : idle'[m] \subseteq idle[m] /\ busy'[m] \subseteq busy[m]
  BY <1>3
<1>5. ASSUME NEW s \in released' PROVE \E m \in Nodes : s \in idle'[m]
  <2>1. PICK m \in Nodes : s \in idle[m]
    BY <1>1, <1>5 DEF Owned
  <2> QED BY <1>1, <1>3, <1>5, <2>1
<1> QED BY <1>1, <1>2, <1>4, <1>5, OwnedShrinks DEF StaysPut

LEMMA RecoverClearsOwned ==
  ASSUME Shape, Owned, RecoverClears
  PROVE  Owned'
<1>1. /\ at[recoverer] \in Nodes /\ released' = released \ idle[at[recoverer]]
      /\ UNCHANGED <<held, at>> /\ \A c \in Clients : pc'[c] = pc[c]
  BY ThreadFacts DEF RecoverClears, Goto, Shape, Types, Placed
<1>2. /\ idle'[at[recoverer]] = {} /\ busy'[at[recoverer]] = {}
      /\ \A m \in Nodes : m # at[recoverer] => idle'[m] = idle[m] /\ busy'[m] = busy[m]
  <2>1. SetPool(at[recoverer], {}, {}) /\ {} \in SUBSET Sockets
    BY DEF RecoverClears
  <2> QED BY <1>1, <2>1, SetPoolParts DEF Shape
<1>3. \A m \in Nodes : idle'[m] \subseteq idle[m] /\ busy'[m] \subseteq busy[m]
  BY <1>2
<1>4. ASSUME NEW s \in released' PROVE \E m \in Nodes : s \in idle'[m]
  <2>1. PICK m \in Nodes : s \in idle[m]
    BY <1>1, <1>4 DEF Owned
  <2> QED BY <1>1, <1>2, <1>4, <2>1
<1> QED BY <1>1, <1>3, <1>4, OwnedShrinks DEF StaysPut

\* Maintenance and Init add new connections.
LEMMA AddsOwned ==
  ASSUME Shape, Owned, \/ \E n \in Nodes : MaintainAdds(n)
                       \/ \E t \in {recoverer, constructor} : InitAdds(t)
  PROVE  Owned'
<1>1. ASSUME NEW t \in Threads, t \notin Clients, at[t] \in Nodes, UNCHANGED <<released, at, held>>,
             pc' = pc \/ \E l : Goto(t, l),
             \/ UNCHANGED pools
             \/ \E s \in Sockets : Connects(s) /\ SetPool(at[t], idle[at[t]] \cup {s}, busy[at[t]])
      PROVE  Owned'
  <2>1. \A c \in Clients : pc'[c] = pc[c]
    BY <1>1, ThreadFacts DEF Goto, Shape, Types
  <2>2. CASE UNCHANGED pools
    BY <1>1, <2>1, <2>2, OwnedStays DEF pools, StaysPut
  <2>3. ASSUME NEW s \in Sockets, Connects(s), SetPool(at[t], idle[at[t]] \cup {s}, busy[at[t]])
        PROVE  Owned'
    BY <1>1, <2>1, <2>3, OwnedGrowsIdle DEF Connects
  <2> QED BY <1>1, <2>2, <2>3
<1>2. ASSUME NEW n \in Nodes, MaintainAdds(n) PROVE Owned'
  <2>1. n \in Threads /\ n \notin Clients /\ at[n] = n
    BY ThreadFacts DEF Shape, Placed
  <2>2. /\ \E l : Goto(n, l)
        /\ \/ UNCHANGED pools
           \/ \E s \in Sockets : Connects(s) /\ SetPool(n, idle[n] \cup {s}, busy[n])
    BY <1>2 DEF MaintainAdds, ConnectFails
  <2> QED BY <1>1, <1>2, <2>1, <2>2 DEF MaintainAdds
<1>3. ASSUME NEW t \in {recoverer, constructor}, InitAdds(t) PROVE Owned'
  <2>1. t \in Threads /\ t \notin Clients /\ at[t] \in Nodes
    BY <1>3, ThreadFacts DEF InitAdds, Shape, Placed
  <2>2. /\ pc' = pc \/ \E l : Goto(t, l)
        /\ \/ UNCHANGED pools
           \/ \E s \in Sockets : Connects(s) /\ SetPool(at[t], idle[at[t]] \cup {s}, busy[at[t]])
    BY <1>3 DEF InitAdds, ConnectFails
  <2> QED BY <1>1, <1>3, <2>1, <2>2 DEF InitAdds
<1> QED BY <1>2, <1>3

\* Steps that leave every list and every socket with its owner.
LEMMA OthersOwned ==
  ASSUME Shape, Owned, NEW t \in Threads, UNCHANGED <<idle, busy, released, held>>,
         pc[t] # "move", pc' = pc \/ \E l : Goto(t, l) /\ l # "store",
         \A u \in Threads : u # t => at'[u] = at[u], at' = at \/ (t \in Clients => held[t] = None)
  PROVE  Owned'
<1>1. /\ \A u \in Threads : u # t => pc'[u] = pc[u]
      /\ pc'[t] = "store" => pc[t] = "store"
  BY DEF Goto, Shape, Types
<1>2. \A c \in Clients : StaysPut(c)
  BY <1>1, ThreadFacts DEF StaysPut
<1> QED BY <1>2, OwnedStays

LEMMA CallOwned ==
  ASSUME Shape, Owned, NEW c \in Clients, Call(c)
  PROVE  Owned'
<1>1. c \in Threads
  BY ThreadFacts
<1>2. CASE AcquireNode(c)
  <2>1. held[c] = None
    BY <1>2 DEF AcquireNode, Shape, Holding
  <2>2. \A u \in Threads : u # c => at'[u] = at[u]
    BY <1>2 DEF AcquireNode, Shape, Types
  <2> QED BY <1>1, <1>2, <2>1, <2>2, OthersOwned DEF AcquireNode, pools, sockets
<1>3. CASE AcquireSocket(c) \/ GetChecksAlive(c) \/ Write(c) \/ Read(c) \/ ReadStopsSpinning(c)
  <2>1. /\ UNCHANGED <<idle, busy, released, held, at>>
        /\ pc[c] # "move" /\ \E l : Goto(c, l) /\ l # "store"
    BY <1>3 DEF AcquireSocket, GetChecksAlive, Write, Read, ReadStopsSpinning, pools, sockets, local
  <2> QED BY <1>1, <2>1, OthersOwned
<1> QED
  BY <1>2, <1>3, GetChoosesOwned, GetMovesOwned, GetConnectsOwned, GetEnlistsOwned,
     CloseClientSocketOwned, ReturnClientSocketOwned, ReturnStoresOwned DEF Call

LEMMA OwnedStep == Shape /\ Owned /\ [Next]_vars => Owned'
<1> SUFFICES ASSUME Shape, Owned, [Next]_vars PROVE Owned'
  OBVIOUS
<1>1. CASE UNCHANGED vars
  BY <1>1, OwnedStays DEF vars, pools, sockets, local, StaysPut
<1>2. ASSUME NEW t \in Threads, NodeErrorLists(t) PROVE Owned'
  <2>1. /\ UNCHANGED <<idle, busy, released, held, at>>
        /\ pc[t] # "move" /\ \E l : Goto(t, l) /\ l # "store"
    BY <1>2 DEF NodeErrorLists, pools, sockets, local
  <2> QED BY <2>1, OthersOwned
<1>3. ASSUME NEW n \in Nodes, MaintainChecksAlive(n) \/ MaintainRefills(n) \/ MaintainEnds(n)
      PROVE  Owned'
  <2>1. /\ UNCHANGED <<idle, busy, released, held, at>>
        /\ pc[n] # "move" /\ (pc' = pc \/ \E l : Goto(n, l) /\ l # "store")
    BY <1>3 DEF MaintainChecksAlive, MaintainRefills, MaintainEnds, pools, sockets, local
  <2> QED BY <2>1, ThreadFacts, OthersOwned
<1>4. ASSUME NEW t \in {recoverer, constructor}, InitEnds(t) \/ Revive(t) PROVE Owned'
  <2>1. UNCHANGED <<idle, busy, released, held, at>> /\ at[t] \in Nodes
    BY <1>4, ThreadFacts DEF InitEnds, Revive, pools, sockets, local, Shape, Placed
  <2>2. \A c \in Clients : pc'[c] = pc[c]
    BY <1>4, <2>1, ThreadFacts DEF InitEnds, Revive, Goto, Shape, Types
  <2> QED BY <2>1, <2>2, OwnedStays DEF StaysPut
<1>5. CASE RecoverBegins \/ RecoverChecks \/ RecoverJoins \/ RecoverEnds
           \/ ConstructNode \/ ConstructAdds \/ ConstructEnds
  <2>1. UNCHANGED <<idle, busy, released, held>>
    BY <1>5 DEF RecoverBegins, RecoverChecks, RecoverJoins, RecoverEnds, ConstructNode,
                ConstructAdds, ConstructEnds, pools, sockets, local
  <2>2. \A c \in Clients : pc'[c] = pc[c]
    BY <1>5, ThreadFacts DEF RecoverBegins, RecoverChecks, RecoverJoins, RecoverEnds,
       ConstructNode, ConstructAdds, ConstructEnds, Goto, Shape, Types
  <2>3. \A c \in Clients : at'[c] = at[c]
    BY <1>5, ThreadFacts DEF RecoverBegins, RecoverChecks, RecoverJoins, RecoverEnds,
       ConstructNode, ConstructAdds, ConstructEnds, local, Shape, Types
  <2> QED BY <2>1, <2>2, <2>3, OwnedStays DEF StaysPut
<1> QED
  BY <1>1, <1>2, <1>3, <1>4, <1>5, CallOwned, MaintainTrimsOwned, RecoverClearsOwned, AddsOwned,
     DestoryOwned DEF Next, NodeErrorCall, Maintain, Recover, Construct

LEMMA InitOwned == Init => Owned
BY ThreadFacts DEF Init, Owned

----------------------------------------------------------------------------
\* A failure is noticed.

Noticed(n) ==
  \/ alive[n] \/ pc[n] = "unborn"
  \/ n \in deadNodes
  \/ \E t \in Threads : at[t] = n /\ pc[t] \in {"error", "revive"}

LEMMA NoticedParts == DeadNodeIsNoticed <=> \A n \in Nodes : Noticed(n)
BY DEF DeadNodeIsNoticed, Noticed

LEMMA NoticedPartsNext == DeadNodeIsNoticed' <=> \A n \in Nodes : Noticed(n)'
BY DEF DeadNodeIsNoticed, Noticed

\* Where no node fails and no thread stops reporting or recovers one, nothing is missed.
LEMMA NoticedStays ==
  ASSUME Shape, DeadNodeIsNoticed, JoinsAlive,
         \A n \in Nodes : alive[n] => alive'[n],
         \A n \in Nodes : pc[n] = "unborn" => pc'[n] = "unborn",
         deadNodes \subseteq deadNodes',
         \A t \in Threads : pc[t] \in {"error", "revive"} => pc'[t] = pc[t] /\ at'[t] = at[t],
         pc'[recoverer] = "join" => pc[recoverer] = "join" /\ at'[recoverer] = at[recoverer]
  PROVE  DeadNodeIsNoticed' /\ JoinsAlive'
<1>1. \A n \in Nodes : Noticed(n)'
  BY NoticedParts DEF Noticed
<1>2. JoinsAlive'
  BY ThreadFacts DEF JoinsAlive, Shape, Placed
<1> QED BY <1>1, <1>2, NoticedPartsNext

\* A thread that neither reports a failure nor revives a node goes on.
LEMMA NoticedGoto ==
  ASSUME Shape, DeadNodeIsNoticed, JoinsAlive, UNCHANGED <<alive, deadNodes>>,
         NEW t \in Threads, NEW l, Goto(t, l), pc[t] \notin {"error", "revive", "unborn"},
         l # "join", \A u \in Threads : u # t => at'[u] = at[u]
  PROVE  DeadNodeIsNoticed' /\ JoinsAlive'
<1>1. pc'[t] = l /\ \A u \in Threads : u # t => pc'[u] = pc[u]
  BY DEF Goto, Shape, Types
<1> QED BY <1>1, ThreadFacts, NoticedStays

\* A thread finds that its node does not answer, and reports it.
LEMMA NoticedFails ==
  ASSUME Shape, DeadNodeIsNoticed, JoinsAlive, UNCHANGED <<deadNodes, at>>,
         NEW t \in Threads, Goto(t, "error"), at[t] \in Nodes,
         pc[t] \notin {"error", "revive", "unborn"}, alive' = [alive EXCEPT ![at[t]] = FALSE]
  PROVE  DeadNodeIsNoticed' /\ JoinsAlive'
<1>1. pc'[t] = "error" /\ \A u \in Threads : u # t => pc'[u] = pc[u]
  BY DEF Goto, Shape, Types
<1>2. \A n \in Nodes : n # at[t] => alive'[n] = alive[n]
  BY DEF Shape, Types
<1>3. ASSUME NEW n \in Nodes PROVE Noticed(n)'
  <2>1. CASE n = at[t]
    BY <1>1, <2>1 DEF Noticed
  <2>2. CASE n # at[t]
    <3>1. Noticed(n)
      BY NoticedParts
    <3> QED BY <1>1, <1>2, <2>2, <3>1, ThreadFacts DEF Noticed
  <2> QED BY <2>1, <2>2
<1>4. JoinsAlive'
  <2> SUFFICES ASSUME pc'[recoverer] = "join"
               PROVE  \/ alive'[at[recoverer]]
                      \/ \E u \in Threads : at[u] = at[recoverer] /\ pc'[u] = "error"
    BY DEF JoinsAlive
  <2>1. recoverer # t /\ pc[recoverer] = "join" /\ at[recoverer] \in Nodes
    BY <1>1, ThreadFacts DEF Shape, Placed
  <2>2. CASE at[recoverer] = at[t]
    BY <1>1, <2>2
  <2>3. CASE at[recoverer] # at[t]
    BY <1>1, <1>2, <2>1, <2>3 DEF JoinsAlive
  <2> QED BY <2>2, <2>3
<1> QED BY <1>3, <1>4, NoticedPartsNext

\* The report ends when the node is among the dead ones; the recoverer cannot be about to
\* let a node join meanwhile.
LEMMA NodeErrorListsNoticed ==
  ASSUME Shape, DeadNodeIsNoticed, JoinsAlive, NEW t \in Threads, NodeErrorLists(t)
  PROVE  DeadNodeIsNoticed' /\ JoinsAlive'
<1>1. /\ pc[t] = "error" /\ pc'[t] = "destroyIdle" /\ UNCHANGED <<alive, at>>
      /\ \A u \in Threads : u # t => pc'[u] = pc[u]
      /\ deadNodes' = deadNodes \cup {at[t]}
  BY DEF NodeErrorLists, local, Goto, Shape, Types
<1>2. ASSUME NEW n \in Nodes PROVE Noticed(n)'
  <2>1. Noticed(n)
    BY NoticedParts
  <2>2. CASE n = at[t]
    BY <1>1, <2>2 DEF Noticed
  <2>3. CASE n # at[t]
    BY <1>1, <2>1, <2>3, ThreadFacts DEF Noticed
  <2> QED BY <2>2, <2>3
<1>3. JoinsAlive'
  <2>1. pc'[recoverer] # "join"
    BY <1>1, ThreadFacts DEF NodeErrorLists, ClusterWriteFree
  <2> QED BY <2>1 DEF JoinsAlive
<1> QED BY <1>2, <1>3, NoticedPartsNext

LEMMA ReviveNoticed ==
  ASSUME Shape, DeadNodeIsNoticed, JoinsAlive, NEW t \in {recoverer, constructor}, Revive(t)
  PROVE  DeadNodeIsNoticed' /\ JoinsAlive'
<1>1. /\ pc[t] = "revive" /\ at[t] \in Nodes /\ t \in Threads /\ UNCHANGED <<at, deadNodes>>
      /\ alive'[at[t]] /\ \A n \in Nodes : n # at[t] => alive'[n] = alive[n]
      /\ pc'[t] = "join" /\ \A u \in Threads : u # t /\ u # at[t] => pc'[u] = pc[u]
  BY ThreadFacts DEF Revive, lists, local, Shape, Types, Placed
<1>2. ASSUME NEW n \in Nodes PROVE Noticed(n)'
  <2>1. Noticed(n)
    BY NoticedParts
  <2>2. CASE n = at[t]
    BY <1>1, <2>2 DEF Noticed
  <2>3. CASE n # at[t]
    <3>1. \A u \in Threads : at[u] = n => u # t /\ u # at[t]
      BY <1>1, <2>3 DEF Shape, Placed
    <3> QED BY <1>1, <2>1, <2>3, <3>1, ThreadFacts DEF Noticed
  <2> QED BY <2>2, <2>3
<1>3. JoinsAlive'
  <2> SUFFICES ASSUME pc'[recoverer] = "join"
               PROVE  \/ alive'[at[recoverer]]
                      \/ \E u \in Threads : at[u] = at[recoverer] /\ pc'[u] = "error"
    BY <1>1 DEF JoinsAlive
  <2>1. CASE t = recoverer
    BY <1>1, <2>1
  <2>2. CASE t # recoverer
    <3>1. pc[recoverer] = "join" /\ at[recoverer] \in Nodes
      BY <1>1, <2>2, ThreadFacts DEF Shape, Placed
    <3>2. CASE at[recoverer] = at[t]
      BY <1>1, <3>2
    <3>3. CASE at[recoverer] # at[t]
      <4>1. \A u \in Threads : at[u] = at[recoverer] /\ pc[u] = "error" => u # t /\ u # at[t]
        BY <1>1, <3>3 DEF Shape, Placed
      <4> QED BY <1>1, <3>1, <3>3, <4>1 DEF JoinsAlive
    <3> QED BY <3>2, <3>3
  <2> QED BY <2>1, <2>2
<1> QED BY <1>2, <1>3, NoticedPartsNext

LEMMA RecoverJoinsNoticed ==
  ASSUME Shape, DeadNodeIsNoticed, JoinsAlive, RecoverJoins
  PROVE  DeadNodeIsNoticed' /\ JoinsAlive'
<1>1. /\ pc[recoverer] = "join" /\ at[recoverer] \in Nodes /\ UNCHANGED <<alive, at>>
      /\ pc'[recoverer] = "check" /\ deadNodes' = deadNodes \ {at[recoverer]}
      /\ \A u \in Threads : u # recoverer => pc'[u] = pc[u]
  BY ThreadFacts DEF RecoverJoins, local, Goto, Shape, Types, Placed
<1>2. ASSUME NEW n \in Nodes PROVE Noticed(n)'
  <2>1. Noticed(n)
    BY NoticedParts
  <2>2. CASE n = at[recoverer]
    BY <1>1, <2>2, ThreadFacts DEF Noticed, JoinsAlive
  <2>3. CASE n # at[recoverer]
    BY <1>1, <2>1, <2>3, ThreadFacts DEF Noticed
  <2> QED BY <2>2, <2>3
<1>3. JoinsAlive'
  BY <1>1 DEF JoinsAlive
<1> QED BY <1>2, <1>3, NoticedPartsNext

LEMMA CallNoticed ==
  ASSUME Shape, DeadNodeIsNoticed, JoinsAlive, NEW c \in Clients, Call(c)
  PROVE  DeadNodeIsNoticed' /\ JoinsAlive'
<1>1. c \in Threads /\ c # recoverer
  BY ThreadFacts
<1>2. ASSUME UNCHANGED <<alive, deadNodes>>, pc[c] \notin {"error", "revive", "unborn"},
             \E l : Goto(c, l) /\ l # "join", \A u \in Threads : u # c => at'[u] = at[u]
      PROVE  DeadNodeIsNoticed' /\ JoinsAlive'
  BY <1>1, <1>2, NoticedGoto
<1>3. ASSUME UNCHANGED <<deadNodes, at>>, Goto(c, "error"), pc[c] \in {"connect", "write"},
             alive' = [alive EXCEPT ![at[c]] = FALSE]
      PROVE  DeadNodeIsNoticed' /\ JoinsAlive'
  BY <1>1, <1>3, NoticedFails DEF Shape, Placed
<1>4. CASE AcquireNode(c)
  <2>1. \A u \in Threads : u # c => at'[u] = at[u]
    BY <1>4 DEF AcquireNode, Shape, Types
  <2> QED BY <1>2, <1>4, <2>1 DEF AcquireNode, lists
<1>5. CASE AcquireSocket(c) \/ GetChecksAlive(c) \/ GetMoves(c) \/ GetEnlists(c) \/ Read(c)
           \/ ReadStopsSpinning(c) \/ CloseClientSocket(c) \/ ReturnClientSocket(c)
  <2>1. UNCHANGED <<alive, deadNodes, at>>
    BY <1>5 DEF AcquireSocket, GetChecksAlive, GetMoves, GetEnlists, Read, ReadStopsSpinning,
                CloseClientSocket, ReturnClientSocket, lists, local
  <2>2. pc[c] \notin {"error", "revive", "unborn"} /\ \E l : Goto(c, l) /\ l # "join"
    BY <1>5 DEF AcquireSocket, GetChecksAlive, GetMoves, GetEnlists, Read, ReadStopsSpinning,
                CloseClientSocket, ReturnClientSocket
  <2> QED BY <1>2, <2>1, <2>2
<1>6. CASE GetChooses(c) \/ ReturnStores(c)
  <2>1. UNCHANGED <<alive, deadNodes, at>> /\ pc[c] \in {"choose", "store"}
    BY <1>6 DEF GetChooses, ReturnStores, lists
  <2>2. \E l \in {"move", "connect", "ready"} : Goto(c, l)
    BY <1>6 DEF GetChooses, ReturnStores
  <2> QED BY <1>2, <2>1, <2>2
<1>7. CASE GetConnects(c)
  <2>1. UNCHANGED <<deadNodes, at>> /\ pc[c] = "connect"
    BY <1>7 DEF GetConnects, lists
  <2>2. CASE ConnectFails(c, "ready")
    BY <1>3, <2>1, <2>2 DEF ConnectFails
  <2>3. CASE Goto(c, "enlist") /\ UNCHANGED alive
    BY <1>2, <2>1, <2>3
  <2> QED BY <1>7, <2>2, <2>3 DEF GetConnects
<1>8. CASE Write(c)
  <2>1. UNCHANGED <<deadNodes, at>> /\ pc[c] = "write"
    BY <1>8 DEF Write, lists
  <2> QED BY <1>2, <1>3, <1>8, <2>1 DEF Write
<1> QED BY <1>4, <1>5, <1>6, <1>7, <1>8 DEF Call

LEMMA NoticedStep ==
  Shape /\ DeadNodeIsNoticed /\ JoinsAlive /\ [Next]_vars => DeadNodeIsNoticed' /\ JoinsAlive'
<1> SUFFICES ASSUME Shape, DeadNodeIsNoticed, JoinsAlive, [Next]_vars
             PROVE  DeadNodeIsNoticed' /\ JoinsAlive'
  OBVIOUS
<1>1. ASSUME UNCHANGED <<alive, deadNodes, pc>>,
             UNCHANGED at \/ \E n \in Nodes : at' = [at EXCEPT ![recoverer] = n] /\ pc[recoverer] = "check"
      PROVE  DeadNodeIsNoticed' /\ JoinsAlive'
  <2>1. \A t \in Threads : pc[t] \in {"error", "revive"} => at'[t] = at[t]
    BY <1>1 DEF Shape, Types
  <2> QED BY <1>1, <2>1, NoticedStays
<1>2. CASE UNCHANGED vars
  BY <1>1, <1>2 DEF vars, lists, local
<1>3. ASSUME NEW t \in Threads, UNCHANGED <<alive, deadNodes>>,
             pc[t] \notin {"error", "revive", "unborn"}, \E l : Goto(t, l) /\ l # "join",
             \A u \in Threads : u # t => at'[u] = at[u]
      PROVE  DeadNodeIsNoticed' /\ JoinsAlive'
  BY <1>3, NoticedGoto
<1>4. ASSUME NEW t \in Threads, NodeErrorCall(t), ~NodeErrorLists(t)
      PROVE  DeadNodeIsNoticed' /\ JoinsAlive'
  <2>1. UNCHANGED <<alive, deadNodes, at>>
    BY <1>4 DEF NodeErrorCall, DestoryDestroys, DestoryPasses, DestoryEntersBusy, DestoryThrows,
                DestoryClearsIdle, DestoryClearsBusy, lists, local
  <2>2. CASE DestoryDestroys(t)
    BY <1>1, <2>1, <2>2 DEF DestoryDestroys
  <2>3. CASE ~DestoryDestroys(t)
    <3>1. pc[t] \in Destroying
      BY <1>4, <2>3 DEF NodeErrorCall, DestoryPasses, DestoryEntersBusy, DestoryThrows,
                        DestoryClearsIdle, DestoryClearsBusy, Loops, Destroying
    <3>2. \E l \in {"enterBusy", "clearIdle", "destroyBusy", "clearBusy", after[t]} : Goto(t, l)
      BY <1>4, <2>3 DEF NodeErrorCall, DestoryPasses, DestoryEntersBusy, DestoryThrows,
                        DestoryClearsIdle, DestoryClearsBusy
    <3>3. after[t] # "join"
      BY DEF Shape, Types
    <3> QED BY <1>3, <2>1, <3>1, <3>2, <3>3 DEF Destroying
  <2> QED BY <2>2, <2>3
<1>5. ASSUME NEW n \in Nodes, Maintain(n) PROVE DeadNodeIsNoticed' /\ JoinsAlive'
  <2>1. n \in Threads /\ at[n] = n
    BY ThreadFacts DEF Shape, Placed
  <2>2. UNCHANGED <<deadNodes, at>>
    BY <1>5 DEF Maintain, MaintainChecksAlive, MaintainTrims, MaintainRefills, MaintainAdds,
                MaintainEnds, lists, local
  <2>3. CASE MaintainAdds(n)
    <3>1. pc[n] = "add"
      BY <2>3 DEF MaintainAdds
    <3>2. CASE ConnectFails(n, "refill")
      BY <2>1, <2>2, <3>1, <3>2, NoticedFails DEF ConnectFails
    <3>3. CASE Goto(n, "refill") /\ UNCHANGED alive
      BY <1>3, <2>1, <2>2, <3>1, <3>3
    <3> QED BY <2>3, <3>2, <3>3 DEF MaintainAdds
  <2>4. CASE MaintainRefills(n)
    <3>1. UNCHANGED alive /\ pc[n] = "refill" /\ (UNCHANGED pc \/ Goto(n, "add"))
      BY <2>4 DEF MaintainRefills
    <3> QED BY <1>1, <1>3, <2>1, <2>2, <3>1
  <2>5. CASE MaintainChecksAlive(n) \/ MaintainTrims(n) \/ MaintainEnds(n)
    <3>1. UNCHANGED alive /\ pc[n] \in {"ready", "trim", "refill"}
      BY <2>5 DEF MaintainChecksAlive, MaintainTrims, MaintainEnds
    <3>2. \E l \in {"trim", "ready", "refill"} : Goto(n, l)
      BY <2>5 DEF MaintainChecksAlive, MaintainTrims, MaintainEnds
    <3> QED BY <1>3, <2>1, <2>2, <3>1, <3>2
  <2> QED BY <1>5, <2>3, <2>4, <2>5 DEF Maintain
<1>6. ASSUME NEW t \in {recoverer, constructor}, InitAdds(t) \/ InitEnds(t)
      PROVE  DeadNodeIsNoticed' /\ JoinsAlive'
  <2>1. /\ t \in Threads /\ pc[t] = "fill" /\ at[t] \in Nodes /\ UNCHANGED <<deadNodes, at>>
    BY <1>6, ThreadFacts DEF InitAdds, InitEnds, lists, local, Shape, Placed
  <2>2. CASE InitEnds(t)
    BY <1>3, <2>1, <2>2 DEF InitEnds
  <2>3. CASE InitAdds(t)
    BY <1>1, <2>1, <2>3, NoticedFails DEF InitAdds, ConnectFails
  <2> QED BY <1>6, <2>2, <2>3
<1>7. CASE RecoverBegins \/ RecoverClears \/ RecoverEnds
  <2>1. UNCHANGED <<alive, deadNodes, at>> /\ pc[recoverer] \in {"ready", "init", "check"}
    BY <1>7 DEF RecoverBegins, RecoverClears, RecoverEnds, lists, local
  <2>2. \E l \in {"check", "fill", "ready"} : Goto(recoverer, l)
    BY <1>7 DEF RecoverBegins, RecoverClears, RecoverEnds
  <2> QED BY <1>3, <2>1, <2>2, ThreadFacts
<1>8. CASE RecoverChecks
  <2>1. /\ UNCHANGED <<alive, deadNodes>> /\ pc[recoverer] = "check"
        /\ \/ Goto(recoverer, "init") /\ \E n : at' = [at EXCEPT ![recoverer] = n]
           \/ UNCHANGED <<pc, at>>
    BY <1>8 DEF RecoverChecks, lists
  <2>2. \A u \in Threads : u # recoverer => at'[u] = at[u]
    BY <2>1 DEF Shape, Types
  <2> QED BY <1>1, <1>3, <2>1, <2>2, ThreadFacts
<1>9. CASE ConstructNode \/ ConstructAdds \/ ConstructEnds
  <2>1. UNCHANGED <<alive, deadNodes>> /\ pc[constructor] \in {"check", "join"}
    BY <1>9 DEF ConstructNode, ConstructAdds, ConstructEnds, lists
  <2>2. \E l \in {"fill", "threw", "check", "done"} : Goto(constructor, l)
    BY <1>9 DEF ConstructNode, ConstructAdds, ConstructEnds
  <2>3. \A u \in Threads : u # constructor => at'[u] = at[u]
    BY <1>9 DEF ConstructNode, ConstructAdds, ConstructEnds, local, Shape, Types
  <2> QED BY <1>3, <2>1, <2>2, <2>3, ThreadFacts
<1> QED
  BY <1>2, <1>4, <1>5, <1>6, <1>7, <1>8, <1>9, NodeErrorListsNoticed, CallNoticed, ReviveNoticed,
     RecoverJoinsNoticed DEF Next, Recover, Construct

LEMMA InitNoticed == Init => DeadNodeIsNoticed /\ JoinsAlive
BY ThreadFacts DEF Init, DeadNodeIsNoticed, JoinsAlive

----------------------------------------------------------------------------
\* Destory, one thread at a time.

\* A thread in Destory was there before, or there was none.
LEMMA AloneStays ==
  ASSUME DestoryAlone,
         \A t \in Threads : pc'[t] \in Destroying => pc[t] \in Destroying
  PROVE  DestoryAlone'
BY DEF DestoryAlone, Destroying

\* A thread goes on elsewhere than into Destory.
LEMMA AloneGoto ==
  ASSUME Shape, DestoryAlone, NEW t \in Threads, NEW l, Goto(t, l),
         l \in Destroying => pc[t] \in Destroying
  PROVE  DestoryAlone'
<1>1. pc'[t] = l /\ \A u \in Threads : u # t => pc'[u] = pc[u]
  BY DEF Goto, Shape, Types
<1> QED BY <1>1, AloneStays

LEMMA NodeErrorListsAlone ==
  ASSUME Shape, NEW t \in Threads, NodeErrorLists(t)
  PROVE  DestoryAlone'
<1>1. pc'[t] = "destroyIdle" /\ \A u \in Threads : u # t => pc'[u] = pc[u]
  BY DEF NodeErrorLists, Goto, Shape, Types
<1>2. \A u \in Threads : pc[u] \notin Destroying
  BY DEF NodeErrorLists, ClusterWriteFree, NoClusterWriter
<1> QED BY <1>1, <1>2 DEF DestoryAlone, Destroying

\* What a thread that is not in Destory goes on to.
LEMMA OthersGoto ==
  ASSUME Shape,
         \/ \E c \in Clients : Call(c)
         \/ \E n \in Nodes : Maintain(n)
         \/ Recover \/ Construct
  PROVE  \A t \in Threads : pc'[t] \in Destroying => pc'[t] = pc[t]
<1>1. ASSUME NEW t \in Threads, NEW l \in {"ready", "located", "get", "choose", "move", "connect",
               "enlist", "write", "read", "spin", "close", "return", "store", "error", "trim",
               "refill", "add", "check", "init", "fill", "revive", "join", "threw", "done"},
             Goto(t, l)
      PROVE  \A u \in Threads : pc'[u] \in Destroying => pc'[u] = pc[u]
  <2>1. pc'[t] = l /\ \A u \in Threads : u # t => pc'[u] = pc[u]
    BY <1>1 DEF Goto, Shape, Types
  <2> QED BY <2>1 DEF Destroying
<1>2. ASSUME UNCHANGED pc PROVE \A u \in Threads : pc'[u] \in Destroying => pc'[u] = pc[u]
  BY <1>2
<1>3. ASSUME NEW c \in Clients, Call(c)
      PROVE  \A u \in Threads : pc'[u] \in Destroying => pc'[u] = pc[u]
  <2>1. c \in Threads
    BY ThreadFacts
  <2>2. CASE AcquireNode(c) \/ AcquireSocket(c) \/ GetChecksAlive(c) \/ GetChooses(c) \/ GetMoves(c)
    BY <1>1, <2>1, <2>2 DEF AcquireNode, AcquireSocket, GetChecksAlive, GetChooses, GetMoves
  <2>3. CASE GetConnects(c) \/ GetEnlists(c) \/ Write(c) \/ Read(c)
    BY <1>1, <2>1, <2>3 DEF GetConnects, ConnectFails, GetEnlists, Write, Read
  <2>4. CASE ReadStopsSpinning(c) \/ CloseClientSocket(c) \/ ReturnClientSocket(c) \/ ReturnStores(c)
    BY <1>1, <2>1, <2>4 DEF ReadStopsSpinning, CloseClientSocket, ReturnClientSocket, ReturnStores
  <2> QED BY <1>3, <2>2, <2>3, <2>4 DEF Call
<1>4. ASSUME NEW n \in Nodes, Maintain(n)
      PROVE  \A u \in Threads : pc'[u] \in Destroying => pc'[u] = pc[u]
  <2>1. n \in Threads
    BY ThreadFacts
  <2>2. UNCHANGED pc \/ \E l \in {"trim", "refill", "ready", "add", "error"} : Goto(n, l)
    BY <1>4 DEF Maintain, MaintainChecksAlive, MaintainTrims, MaintainRefills, MaintainAdds,
                ConnectFails, MaintainEnds
  <2> QED BY <1>1, <1>2, <2>1, <2>2
<1>5. ASSUME NEW t \in {recoverer, constructor}, InitAdds(t) \/ InitEnds(t)
      PROVE  \A u \in Threads : pc'[u] \in Destroying => pc'[u] = pc[u]
  <2>1. t \in Threads
    BY ThreadFacts
  <2>2. UNCHANGED pc \/ \E l \in {"revive", "error"} : Goto(t, l)
    BY <1>5 DEF InitAdds, ConnectFails, InitEnds
  <2> QED BY <1>1, <1>2, <2>1, <2>2
<1>6. ASSUME NEW t \in {recoverer, constructor}, Revive(t)
      PROVE  \A u \in Threads : pc'[u] \in Destroying => pc'[u] = pc[u]
  <2>1. \A u \in Threads : pc'[u] \in {"join", "ready"} \/ pc'[u] = pc[u]
    BY <1>6, ThreadFacts DEF Revive, Shape, Types
  <2> QED BY <2>1 DEF Destroying
<1>7. CASE RecoverBegins \/ RecoverChecks \/ RecoverClears \/ RecoverJoins \/ RecoverEnds
  <2>1. UNCHANGED pc \/ \E l \in {"check", "init", "fill", "ready"} : Goto(recoverer, l)
    BY <1>7 DEF RecoverBegins, RecoverChecks, RecoverClears, RecoverJoins, RecoverEnds
  <2> QED BY <1>1, <1>2, <2>1, ThreadFacts
<1>8. CASE ConstructNode \/ ConstructAdds \/ ConstructEnds
  <2>1. \E l \in {"fill", "threw", "check", "done"} : Goto(constructor, l)
    BY <1>8 DEF ConstructNode, ConstructAdds, ConstructEnds
  <2> QED BY <1>1, <2>1, ThreadFacts
<1> QED BY <1>3, <1>4, <1>5, <1>6, <1>7, <1>8 DEF Recover, Construct

\* Where a step of Destory leads.
LEMMA DestoryGoto ==
  ASSUME Shape, NEW t \in Threads, NodeErrorCall(t), ~NodeErrorLists(t)
  PROVE  /\ pc[t] \in Destroying /\ at' = at
         /\ \A u \in Threads : u # t => pc'[u] = pc[u]
         /\ pc'[t] \in Destroying => \/ pc'[t] = pc[t]
                                     \/ pc[t] = "destroyIdle" /\ pc'[t] = "enterBusy"
                                     \/ pc[t] = "enterBusy" /\ pc'[t] = "destroyBusy"
                                     \/ pc[t] = "destroyBusy" /\ pc'[t] = "clearIdle"
                                     \/ pc[t] = "clearIdle" /\ pc'[t] = "clearBusy"
<1>1. after[t] \notin Destroying
  BY DEF Shape, Types, Destroying
<1>2. \A l : Goto(t, l) => pc'[t] = l /\ \A u \in Threads : u # t => pc'[u] = pc[u]
  BY DEF Goto, Shape, Types
<1>3. CASE DestoryDestroys(t)
  BY <1>3 DEF DestoryDestroys, Loops, Destroying, local
<1>4. CASE DestoryPasses(t)
  BY <1>2, <1>4 DEF DestoryPasses, Loops, Destroying, local
<1>5. CASE DestoryEntersBusy(t) \/ DestoryClearsIdle(t)
  BY <1>2, <1>5 DEF DestoryEntersBusy, DestoryClearsIdle, Destroying, local
<1>6. CASE DestoryThrows(t) \/ DestoryClearsBusy(t)
  BY <1>1, <1>2, <1>6 DEF DestoryThrows, DestoryClearsBusy, Loops, Destroying
<1> QED BY <1>3, <1>4, <1>5, <1>6 DEF NodeErrorCall

LEMMA AloneStep == Shape /\ DestoryAlone /\ [Next]_vars => DestoryAlone'
<1> SUFFICES ASSUME Shape, DestoryAlone, [Next]_vars PROVE DestoryAlone'
  OBVIOUS
<1>1. CASE UNCHANGED vars
  BY <1>1, AloneStays DEF vars
<1>2. ASSUME NEW t \in Threads, NodeErrorCall(t) PROVE DestoryAlone'
  <2>1. CASE NodeErrorLists(t)
    BY <2>1, NodeErrorListsAlone
  <2>2. CASE ~NodeErrorLists(t)
    BY <1>2, <2>2, DestoryGoto, AloneStays
  <2> QED BY <2>1, <2>2
<1>3. CASE (\E c \in Clients : Call(c)) \/ (\E n \in Nodes : Maintain(n)) \/ Recover \/ Construct
  <2>1. \A t \in Threads : pc'[t] \in Destroying => pc'[t] = pc[t]
    BY <1>3, OthersGoto
  <2> QED BY <2>1, AloneStays
<1> QED BY <1>1, <1>2, <1>3 DEF Next

LEMMA InitAlone == Init => DestoryAlone /\ PassedStay
<1> SUFFICES ASSUME Init PROVE DestoryAlone /\ PassedStay
  OBVIOUS
<1>1. \A t \in Threads : pc[t] \in {"unborn", "check", "ready"}
  BY DEF Init
<1> QED BY <1>1 DEF DestoryAlone, PassedStay, Passed, Destroying

----------------------------------------------------------------------------
\* The idle sockets Destory has passed.

\* A list that Destory enumerates does not change unnoticed, and what is new is in no list.
IdleNoted ==
  /\ disturbed \subseteq disturbed'
  /\ \A n \in Nodes : WatchesIdle(n) => idle'[n] = idle[n] \/ "idle" \in disturbed'

OpensFresh == \A s \in open' : s \in open \/ \A n \in Nodes : s \notin idle[n]

LEMMA SetPoolNotes ==
  ASSUME Shape, NEW n \in Nodes, NEW I, NEW B, SetPool(n, I, B)
  PROVE  IdleNoted
<1>1. \A m \in Nodes : m # n => idle'[m] = idle[m]
  BY DEF SetPool, Shape, Types
<1>2. idle'[n] = I
  BY DEF SetPool, Shape, Types
<1>3. disturbed \subseteq disturbed' /\ (WatchesIdle(n) /\ I # idle[n] => "idle" \in disturbed')
  BY DEF SetPool
<1> QED BY <1>1, <1>2, <1>3 DEF IdleNoted

LEMMA NotedStays ==
  ASSUME UNCHANGED <<idle, disturbed>>
  PROVE  IdleNoted
BY DEF IdleNoted

\* The steps of the threads that are not in Destory.
LEMMA OthersNote ==
  ASSUME Shape,
         \/ \E c \in Clients : Call(c)
         \/ \E n \in Nodes : Maintain(n)
         \/ Recover \/ Construct
  PROVE  IdleNoted
<1>1. ASSUME UNCHANGED pools PROVE IdleNoted
  BY <1>1, NotedStays DEF pools
<1>2. ASSUME NEW c \in Clients, Call(c) PROVE IdleNoted
  <2>1. CASE UNCHANGED pools
    BY <1>1, <2>1
  <2>2. CASE GetMoves(c) \/ GetEnlists(c) \/ CloseClientSocket(c) \/ ReturnClientSocket(c)
             \/ ReturnStores(c)
    <3>1. at[c] \in Nodes
      BY <2>2, ThreadFacts DEF GetMoves, GetEnlists, CloseClientSocket, ReturnClientSocket,
                               ReturnStores, Shape, Placed
    <3> QED BY <2>2, <3>1, SetPoolNotes DEF GetMoves, GetEnlists, CloseClientSocket,
                                            ReturnClientSocket, ReturnStores
  <2> QED BY <1>2, <2>1, <2>2 DEF Call, AcquireNode, AcquireSocket, GetChecksAlive, GetChooses,
                                  GetConnects, Write, Read, ReadStopsSpinning
<1>3. ASSUME NEW n \in Nodes, Maintain(n) PROVE IdleNoted
  <2>1. CASE MaintainTrims(n)
    <3>1. \E I, B : SetPool(n, I, B)
      BY <2>1 DEF MaintainTrims
    <3> QED BY <3>1, SetPoolNotes
  <2>2. CASE MaintainAdds(n)
    <3>1. (\E I, B : SetPool(n, I, B)) \/ UNCHANGED pools
      BY <2>2 DEF MaintainAdds
    <3> QED BY <1>1, <3>1, SetPoolNotes
  <2> QED BY <1>1, <1>3, <2>1, <2>2 DEF Maintain, MaintainChecksAlive, MaintainRefills, MaintainEnds
<1>4. ASSUME NEW t \in {recoverer, constructor}, InitAdds(t) PROVE IdleNoted
  <2>1. at[t] \in Nodes
    BY <1>4, ThreadFacts DEF InitAdds, Shape, Placed
  <2>2. (\E I, B : SetPool(at[t], I, B)) \/ UNCHANGED pools
    BY <1>4 DEF InitAdds
  <2> QED BY <1>1, <2>1, <2>2, SetPoolNotes
<1>5. CASE RecoverClears
  <2>1. at[recoverer] \in Nodes
    BY <1>5, ThreadFacts DEF RecoverClears, Shape, Placed
  <2> QED BY <1>5, <2>1, SetPoolNotes DEF RecoverClears
<1> QED
  BY <1>1, <1>2, <1>3, <1>4, <1>5 DEF Recover, RecoverBegins, RecoverChecks, RecoverJoins,
     RecoverEnds, InitEnds, Revive, Construct, ConstructNode, ConstructAdds, ConstructEnds

LEMMA OthersOpen ==
  ASSUME \/ \E c \in Clients : Call(c)
         \/ \E n \in Nodes : Maintain(n)
         \/ Recover \/ Construct
  PROVE  OpensFresh
<1>1. ASSUME open' \subseteq open PROVE OpensFresh
  BY <1>1 DEF OpensFresh
<1>2. ASSUME NEW s, Unreferenced(s), open' \subseteq open \cup {s} PROVE OpensFresh
  BY <1>2 DEF OpensFresh, Unreferenced
<1>3. ASSUME NEW c \in Clients, Call(c) PROVE OpensFresh
  <2>1. CASE GetConnects(c)
    BY <1>1, <1>2, <2>1 DEF GetConnects
  <2>2. CASE GetChooses(c) \/ Write(c) \/ Read(c) \/ ReturnStores(c)
    BY <1>1, <2>2 DEF GetChooses, Write, Read, ReturnStores, sockets
  <2> QED BY <1>1, <1>3, <2>1, <2>2 DEF Call, AcquireNode, AcquireSocket, GetChecksAlive, GetMoves,
             GetEnlists, ReadStopsSpinning, CloseClientSocket, ReturnClientSocket, sockets
<1>4. ASSUME NEW n \in Nodes, Maintain(n) PROVE OpensFresh
  <2>1. CASE MaintainTrims(n)
    BY <1>1, <2>1 DEF MaintainTrims
  <2>2. CASE MaintainAdds(n)
    BY <1>1, <1>2, <2>2 DEF MaintainAdds, Connects
  <2> QED BY <1>1, <1>4, <2>1, <2>2 DEF Maintain, MaintainChecksAlive, MaintainRefills,
                                        MaintainEnds, sockets
<1>5. ASSUME NEW t \in {recoverer, constructor}, InitAdds(t) PROVE OpensFresh
  BY <1>1, <1>2, <1>5 DEF InitAdds, Connects
<1> QED
  BY <1>1, <1>3, <1>4, <1>5 DEF Recover, RecoverBegins, RecoverChecks, RecoverClears, RecoverJoins,
     RecoverEnds, InitEnds, Revive, Construct, ConstructNode, ConstructAdds, ConstructEnds, sockets

LEMMA OthersPlaces ==
  ASSUME Shape,
         \/ \E c \in Clients : Call(c)
         \/ \E n \in Nodes : Maintain(n)
         \/ Recover \/ Construct
  PROVE  \A t \in Threads : pc[t] \in Destroying => at'[t] = at[t]
<1>1. ASSUME NEW u \in Threads, NEW n, at' = [at EXCEPT ![u] = n], pc[u] \in {"ready", "check"}
      PROVE  \A t \in Threads : pc[t] \in Destroying => at'[t] = at[t]
  BY <1>1 DEF Destroying, Shape, Types
<1>2. ASSUME UNCHANGED at PROVE \A t \in Threads : pc[t] \in Destroying => at'[t] = at[t]
  BY <1>2
<1>3. CASE \E c \in Clients : AcquireNode(c)
  BY <1>1, <1>3, ThreadFacts DEF AcquireNode
<1>4. CASE RecoverChecks
  BY <1>1, <1>2, <1>4, ThreadFacts DEF RecoverChecks
<1>5. CASE ConstructNode
  BY <1>1, <1>5, ThreadFacts DEF ConstructNode
<1>6. ASSUME NEW c \in Clients, Call(c), ~AcquireNode(c) PROVE UNCHANGED at
  BY <1>6 DEF Call, AcquireSocket, GetChecksAlive, GetChooses, GetMoves, GetConnects, GetEnlists,
     Write, Read, ReadStopsSpinning, CloseClientSocket, ReturnClientSocket, ReturnStores, local
<1>7. ASSUME NEW n \in Nodes, Maintain(n) PROVE UNCHANGED at
  BY <1>7 DEF Maintain, MaintainChecksAlive, MaintainTrims, MaintainRefills, MaintainAdds,
     MaintainEnds, local
<1>8. ASSUME Recover, ~RecoverChecks PROVE UNCHANGED at
  BY <1>8 DEF Recover, RecoverBegins, RecoverClears, InitAdds, InitEnds, Revive, RecoverJoins,
     RecoverEnds, local
<1>9. ASSUME Construct, ~ConstructNode PROVE UNCHANGED at
  BY <1>9 DEF Construct, InitAdds, InitEnds, Revive, ConstructAdds, ConstructEnds, local
<1> QED BY <1>2, <1>3, <1>4, <1>5, <1>6, <1>7, <1>8, <1>9

\* A thread that was past its first loop is so with a list that is as it was.
LEMMA PassedKept ==
  ASSUME Shape, PassedStay, IdleNoted, OpensFresh, NEW t \in Threads, at'[t] = at[t],
         pc[t] \in {"enterBusy", "destroyBusy", "clearIdle"}
  PROVE  Passed(t)'
<1>1. at[t] \in Nodes /\ WatchesIdle(at[t])
  BY DEF Shape, Placed, WatchesIdle
<1>2. SUFFICES ASSUME "idle" \notin disturbed' PROVE idle'[at[t]] \cap open' = {}
  BY DEF Passed
<1>3. "idle" \notin disturbed /\ idle'[at[t]] = idle[at[t]]
  BY <1>1, <1>2 DEF IdleNoted
<1>4. idle[at[t]] \cap open = {}
  BY <1>3 DEF PassedStay, Passed
<1> QED BY <1>1, <1>3, <1>4 DEF OpensFresh

LEMMA OthersPassed ==
  ASSUME Shape, PassedStay,
         \/ \E c \in Clients : Call(c)
         \/ \E n \in Nodes : Maintain(n)
         \/ Recover \/ Construct
  PROVE  PassedStay'
<1> SUFFICES ASSUME NEW t \in Threads PROVE Passed(t)'
  BY DEF PassedStay
<1>1. CASE pc'[t] \in {"enterBusy", "destroyBusy", "clearIdle"}
  <2>1. pc'[t] = pc[t]
    BY <1>1, OthersGoto DEF Destroying
  <2>2. at'[t] = at[t]
    BY <1>1, <2>1, OthersPlaces DEF Destroying
  <2> QED BY <1>1, <2>1, <2>2, PassedKept, OthersNote, OthersOpen
<1>2. CASE pc'[t] \notin {"enterBusy", "destroyBusy", "clearIdle"}
  BY <1>2 DEF Passed
<1> QED BY <1>1, <1>2

\* The thread in Destory itself.
LEMMA DestoryPassed ==
  ASSUME Shape, DestoryAlone, PassedStay, NEW t \in Threads, NodeErrorCall(t)
  PROVE  PassedStay'
<1> SUFFICES ASSUME NEW u \in Threads PROVE Passed(u)'
  BY DEF PassedStay
<1>1. at' = at
  BY DEF NodeErrorCall, NodeErrorLists, DestoryDestroys, DestoryPasses, DestoryEntersBusy,
         DestoryThrows, DestoryClearsIdle, DestoryClearsBusy, local
<1>2. CASE NodeErrorLists(t)
  <2>1. pc'[t] = "destroyIdle" /\ \A v \in Threads : v # t => pc'[v] = pc[v]
    BY <1>2 DEF NodeErrorLists, Goto, Shape, Types
  <2>2. UNCHANGED <<idle, disturbed, open>>
    BY <1>2 DEF NodeErrorLists, pools, sockets
  <2> QED BY <1>1, <2>1, <2>2 DEF PassedStay, Passed
<1>3. CASE ~NodeErrorLists(t) /\ u # t
  <2>1. pc[t] \in Destroying /\ pc'[u] = pc[u]
    BY <1>3, DestoryGoto
  <2>2. pc[u] \notin Destroying
    BY <1>3, <2>1 DEF DestoryAlone
  <2> QED BY <2>1, <2>2 DEF Passed, Destroying
<1>4. CASE DestoryDestroys(t)
  <2>1. UNCHANGED <<idle, disturbed, pc>> /\ open' \subseteq open
    BY <1>4 DEF DestoryDestroys, pools, local
  <2> QED BY <1>1, <2>1 DEF PassedStay, Passed
<1>5. CASE DestoryPasses(t) /\ u = t
  <2>1. UNCHANGED <<idle, disturbed, open>>
    BY <1>5 DEF DestoryPasses, pools, sockets
  <2>2. \/ pc[t] = "destroyIdle" /\ idle[at[t]] \cap open = {}
        \/ pc[t] = "destroyBusy"
    BY <1>5 DEF DestoryPasses, Loops, Members
  <2> QED BY <1>1, <1>5, <2>1, <2>2 DEF PassedStay, Passed
<1>6. CASE DestoryEntersBusy(t) /\ u = t
  <2>1. UNCHANGED <<idle, disturbed, open>> /\ pc[t] = "enterBusy"
    BY <1>6 DEF DestoryEntersBusy, pools, sockets
  <2> QED BY <1>1, <1>6, <2>1 DEF PassedStay, Passed
<1>7. CASE (DestoryThrows(t) \/ DestoryClearsIdle(t) \/ DestoryClearsBusy(t)) /\ u = t
  <2>1. after[t] \notin Destroying
    BY DEF Shape, Types, Destroying
  <2>2. pc'[t] \in {"clearBusy", after[t]}
    BY <1>7 DEF DestoryThrows, DestoryClearsIdle, DestoryClearsBusy, Goto, Shape, Types
  <2> QED BY <1>7, <2>1, <2>2 DEF Passed, Destroying
<1> QED BY <1>2, <1>3, <1>4, <1>5, <1>6, <1>7 DEF NodeErrorCall

LEMMA PassedStep == Shape /\ DestoryAlone /\ PassedStay /\ [Next]_vars => PassedStay'
<1> SUFFICES ASSUME Shape, DestoryAlone, PassedStay, [Next]_vars PROVE PassedStay'
  OBVIOUS
<1>1. CASE UNCHANGED vars
  <2>1. UNCHANGED <<idle, disturbed, open, pc, at>>
    BY <1>1 DEF vars, pools, sockets, local
  <2> QED BY <2>1 DEF PassedStay, Passed
<1> QED BY <1>1, OthersPassed, DestoryPassed DEF Next

----------------------------------------------------------------------------
\* What is open and referred to is not forgotten.

Referenced(s) ==
  \/ \E n \in Nodes : s \in idle[n] \/ s \in busy[n]
  \/ \E c \in Clients : held[c] = s

KeepsReferences == \A s \in open : Referenced(s) /\ s \in open' => Referenced(s)'

LEMMA ReferencedParts == \A s : Referenced(s) <=> ~Unreferenced(s)
BY DEF Referenced, Unreferenced

LEMMA ReferencedPartsNext == \A s : Referenced(s)' <=> ~Unreferenced(s)'
BY DEF Referenced, Unreferenced

\* Users keep what they have, and what leaves the lists has a user or is destroyed.
LEMMA ReferencesStay ==
  ASSUME held' = held,
         \A n \in Nodes : \A s \in idle[n] \cup busy[n] :
           s \in idle'[n] \cup busy'[n] \/ s \notin open' \/ \E c \in Clients : held[c] = s
  PROVE  KeepsReferences
BY DEF KeepsReferences, Referenced

\* A caller moves its socket from one list to the other, or takes it out of them: the socket is
\* still its own.
LEMMA MovesReferences ==
  ASSUME Shape, NEW c \in Clients,
         \/ GetMoves(c) \/ GetEnlists(c) \/ CloseClientSocket(c) \/ ReturnClientSocket(c)
  PROVE  KeepsReferences
<1>1. at[c] \in Nodes /\ held[c] \in Sockets /\ UNCHANGED held
  <2>1. pc[c] \in {"move", "enlist", "close", "return"} /\ UNCHANGED held
    BY DEF GetMoves, GetEnlists, CloseClientSocket, ReturnClientSocket, local
  <2>2. at[c] \in Nodes
    BY <2>1, ThreadFacts DEF Shape, Placed
  <2>3. held[c] # None
    BY <2>1 DEF Shape, Holding
  <2> QED BY <2>1, <2>2, <2>3 DEF Shape, Types
<1>2. PICK I \in SUBSET Sockets, B \in SUBSET Sockets :
        /\ SetPool(at[c], I, B)
        /\ \A s \in idle[at[c]] \cup busy[at[c]] : s \in I \cup B \/ s = held[c]
  <2>1. idle[at[c]] \in SUBSET Sockets /\ busy[at[c]] \in SUBSET Sockets
    BY <1>1 DEF Shape, Types
  <2>2. CASE GetMoves(c)
    <3>1. idle[at[c]] \ {held[c]} \in SUBSET Sockets
      BY <2>1
    <3> QED BY <2>1, <2>2, <3>1 DEF GetMoves
  <2>3. CASE GetEnlists(c)
    <3>1. busy[at[c]] \cup {held[c]} \in SUBSET Sockets
      BY <1>1, <2>1
    <3> QED BY <2>1, <2>3, <3>1 DEF GetEnlists
  <2>4. CASE CloseClientSocket(c) \/ ReturnClientSocket(c)
    <3>1. busy[at[c]] \ {held[c]} \in SUBSET Sockets
      BY <2>1
    <3> QED BY <2>1, <2>4, <3>1 DEF CloseClientSocket, ReturnClientSocket
  <2> QED BY <2>2, <2>3, <2>4
<1>3. /\ idle'[at[c]] = I /\ busy'[at[c]] = B
      /\ \A m \in Nodes : m # at[c] => idle'[m] = idle[m] /\ busy'[m] = busy[m]
  BY <1>1, <1>2, SetPoolParts DEF Shape
<1> QED BY <1>1, <1>2, <1>3, ReferencesStay

LEMMA GetChoosesReferences ==
  ASSUME Shape, NEW c \in Clients, GetChooses(c)
  PROVE  KeepsReferences
<1>1. held[c] = None /\ None \notin Sockets /\ UNCHANGED pools
  BY ThreadFacts DEF GetChooses, Shape, Holding
<1>2. \A d \in Clients : d # c => held'[d] = held[d]
  BY DEF GetChooses, Shape, Types
<1> QED BY <1>1, <1>2 DEF KeepsReferences, Referenced, pools, Shape, Types

LEMMA GetConnectsReferences ==
  ASSUME Shape, NEW c \in Clients, GetConnects(c)
  PROVE  KeepsReferences
<1>1. held[c] = None /\ None \notin Sockets /\ UNCHANGED pools
  BY ThreadFacts DEF GetConnects, Shape, Holding
<1>2. \A d \in Clients : d # c => held'[d] = held[d]
  BY DEF GetConnects, Shape, Types
<1> QED BY <1>1, <1>2 DEF KeepsReferences, Referenced, pools, Shape, Types

\* A caller is done with a socket when it is back in the pool or destroyed.
LEMMA ReturnStoresReferences ==
  ASSUME Shape, NEW c \in Clients, ReturnStores(c)
  PROVE  KeepsReferences
<1>1. /\ at[c] \in Nodes /\ held[c] \in Sockets
  <2>1. pc[c] = "store"
    BY DEF ReturnStores
  <2> QED BY <2>1, ThreadFacts DEF Shape, Types, Placed, Holding
<1> DEFINE fits == Connections(at[c]) < Max
           I == IF fits THEN idle[at[c]] \cup {held[c]} ELSE idle[at[c]]
<1>2. /\ idle'[at[c]] = I /\ busy'[at[c]] = busy[at[c]]
      /\ \A m \in Nodes : m # at[c] => idle'[m] = idle[m] /\ busy'[m] = busy[m]
  <2>1. I \in SUBSET Sockets /\ busy[at[c]] \in SUBSET Sockets
    BY <1>1 DEF Shape, Types
  <2>2. SetPool(at[c], I, busy[at[c]])
    BY DEF ReturnStores
  <2> HIDE DEF I
  <2> QED BY <1>1, <2>1, <2>2, SetPoolParts DEF Shape
<1>3. /\ open' = IF fits THEN open ELSE open \ {held[c]}
      /\ \A d \in Clients : d # c => held'[d] = held[d]
  BY DEF ReturnStores, Shape, Types
<1> HIDE DEF fits
<1>4. \A s \in open' : s # held[c] \/ s \in idle'[at[c]]
  BY <1>2, <1>3
<1>5. ASSUME NEW s \in open, Referenced(s), s \in open', s # held[c]
      PROVE  Referenced(s)'
  <2>1. CASE \E d \in Clients : held[d] = s
    BY <1>3, <1>5, <2>1 DEF Referenced
  <2>2. CASE \E n \in Nodes : s \in idle[n] \/ s \in busy[n]
    <3>1. PICK n \in Nodes : s \in idle[n] \/ s \in busy[n]
      BY <2>2
    <3>2. s \in idle'[n] \/ s \in busy'[n]
      BY <1>2, <3>1
    <3> QED BY <3>2 DEF Referenced
  <2> QED BY <1>5, <2>1, <2>2 DEF Referenced
<1> QED BY <1>1, <1>4, <1>5 DEF KeepsReferences, Referenced

LEMMA MaintainTrimsReferences ==
  ASSUME Shape, NEW n \in Nodes, MaintainTrims(n)
  PROVE  KeepsReferences
<1>1. PICK I \in SUBSET (idle[n] \cap released), B \in SUBSET busy[n] :
        open' = open \ (I \cup B) /\ SetPool(n, idle[n] \ I, busy[n] \ B)
  BY DEF MaintainTrims
<1>2. UNCHANGED held
  BY DEF MaintainTrims
<1>3. idle[n] \ I \in SUBSET Sockets /\ busy[n] \ B \in SUBSET Sockets
  BY DEF Shape, Types
<1>4. /\ idle'[n] = idle[n] \ I /\ busy'[n] = busy[n] \ B
      /\ \A m \in Nodes : m # n => idle'[m] = idle[m] /\ busy'[m] = busy[m]
  BY <1>1, <1>3, SetPoolParts DEF Shape
<1> QED BY <1>1, <1>2, <1>4, ReferencesStay

\* Destory clears what its loop has destroyed, or what is in use; only the idle sockets others
\* have added meanwhile are neither.
LEMMA DestoryReferences ==
  ASSUME Shape, Owned, PassedStay, NEW t \in Threads, NodeErrorCall(t),
         ~(DestoryClearsIdle(t) /\ "idle" \in disturbed)
  PROVE  KeepsReferences
<1>1. UNCHANGED held
  BY DEF NodeErrorCall, NodeErrorLists, DestoryDestroys, DestoryPasses, DestoryEntersBusy,
         DestoryThrows, DestoryClearsIdle, DestoryClearsBusy, local
<1>2. CASE DestoryClearsIdle(t)
  <2>1. pc[t] = "clearIdle" /\ "idle" \notin disturbed
    BY <1>2 DEF DestoryClearsIdle
  <2>2. idle[at[t]] \cap open = {}
    BY <2>1 DEF PassedStay, Passed
  <2>3. UNCHANGED <<busy, open>> /\ \A m \in Nodes : m # at[t] => idle'[m] = idle[m]
    BY <1>2 DEF DestoryClearsIdle, Shape, Types
  <2> QED BY <1>1, <2>2, <2>3, ReferencesStay
<1>3. CASE DestoryClearsBusy(t)
  <2>1. UNCHANGED <<idle, open>> /\ \A m \in Nodes : m # at[t] => busy'[m] = busy[m]
    BY <1>3 DEF DestoryClearsBusy, sockets, Shape, Types
  <2>2. \A n \in Nodes : \A s \in busy[n] : \E c \in Clients : held[c] = s
    BY DEF Owned
  <2> QED BY <1>1, <2>1, <2>2, ReferencesStay
<1>4. CASE ~DestoryClearsIdle(t) /\ ~DestoryClearsBusy(t)
  <2>1. UNCHANGED <<idle, busy>>
    BY <1>4 DEF NodeErrorCall, NodeErrorLists, DestoryDestroys, DestoryPasses, DestoryEntersBusy,
                DestoryThrows, pools
  <2> QED BY <1>1, <2>1, ReferencesStay
<1> QED BY <1>2, <1>3, <1>4

LEMMA AddsReferences ==
  ASSUME Shape, \/ \E n \in Nodes : MaintainAdds(n)
                \/ \E t \in {recoverer, constructor} : InitAdds(t)
  PROVE  KeepsReferences
<1>1. ASSUME NEW n \in Nodes, NEW s \in Sockets, held' = held,
             SetPool(n, idle[n] \cup {s}, busy[n])
      PROVE  KeepsReferences
  <2>1. idle[n] \cup {s} \in SUBSET Sockets /\ busy[n] \in SUBSET Sockets
    BY DEF Shape, Types
  <2>2. /\ idle'[n] = idle[n] \cup {s} /\ busy'[n] = busy[n]
        /\ \A m \in Nodes : m # n => idle'[m] = idle[m] /\ busy'[m] = busy[m]
    BY <1>1, <2>1, SetPoolParts DEF Shape
  <2> QED BY <1>1, <2>2, ReferencesStay
<1>2. ASSUME UNCHANGED <<pools, held>> PROVE KeepsReferences
  BY <1>2, ReferencesStay DEF pools
<1>3. ASSUME NEW n \in Nodes, MaintainAdds(n) PROVE KeepsReferences
  BY <1>1, <1>2, <1>3 DEF MaintainAdds
<1>4. ASSUME NEW t \in {recoverer, constructor}, InitAdds(t) PROVE KeepsReferences
  <2>1. at[t] \in Nodes
    BY <1>4, ThreadFacts DEF InitAdds, Shape, Placed
  <2> QED BY <1>1, <1>2, <1>4, <2>1 DEF InitAdds
<1> QED BY <1>3, <1>4

LEMMA ReferencesStep ==
  Shape /\ Owned /\ PassedStay /\ [Next]_vars =>
    \/ KeepsReferences
    \/ RecoverClears
    \/ \E t \in Threads : DestoryClearsIdle(t) /\ "idle" \in disturbed
<1> SUFFICES ASSUME Shape, Owned, PassedStay, [Next]_vars, ~RecoverClears,
                    \A t \in Threads : ~(DestoryClearsIdle(t) /\ "idle" \in disturbed)
             PROVE  KeepsReferences
  OBVIOUS
<1>1. ASSUME UNCHANGED <<pools, held>> PROVE KeepsReferences
  BY <1>1, ReferencesStay DEF pools
<1>2. CASE UNCHANGED vars
  BY <1>1, <1>2 DEF vars, local
<1>3. ASSUME NEW t \in Threads, NodeErrorCall(t) PROVE KeepsReferences
  BY <1>3, DestoryReferences
<1>4. ASSUME NEW c \in Clients, \/ AcquireNode(c) \/ AcquireSocket(c) \/ GetChecksAlive(c)
                                \/ Write(c) \/ Read(c) \/ ReadStopsSpinning(c)
      PROVE  KeepsReferences
  BY <1>1, <1>4 DEF AcquireNode, AcquireSocket, GetChecksAlive, Write, Read, ReadStopsSpinning,
                    local
<1>5. ASSUME NEW n \in Nodes, MaintainChecksAlive(n) \/ MaintainRefills(n) \/ MaintainEnds(n)
      PROVE  KeepsReferences
  BY <1>1, <1>5 DEF MaintainChecksAlive, MaintainRefills, MaintainEnds, local
<1>6. ASSUME NEW t \in {recoverer, constructor}, InitEnds(t) \/ Revive(t) PROVE KeepsReferences
  BY <1>1, <1>6 DEF InitEnds, Revive, local
<1>7. CASE RecoverBegins \/ RecoverChecks \/ RecoverJoins \/ RecoverEnds
           \/ ConstructNode \/ ConstructAdds \/ ConstructEnds
  BY <1>1, <1>7 DEF RecoverBegins, RecoverChecks, RecoverJoins, RecoverEnds, ConstructNode,
                    ConstructAdds, ConstructEnds, local
<1> QED
  BY <1>2, <1>3, <1>4, <1>5, <1>6, <1>7, MovesReferences, GetChoosesReferences,
     GetConnectsReferences, ReturnStoresReferences, MaintainTrimsReferences, AddsReferences
     DEF Next, Call, Maintain, Recover, Construct

----------------------------------------------------------------------------
\* The theorems.

\* The inductive invariant holds in every reachable state of the pool.
THEOREM InvariantHolds == Spec => []IInv
<1>1. Init => IInv
  BY InitShape, InitOwned, InitAlone, InitNoticed DEF IInv
<1>2. IInv /\ [Next]_vars => IInv'
  BY ShapeStep, OwnedStep, AloneStep, PassedStep, NoticedStep DEF IInv
<1> QED BY <1>1, <1>2, PTL DEF Spec

\* Lists, sockets and what threads keep have their types; only idle sockets count as
\* returned, and a client has a socket exactly from choosing to returning it.
THEOREM TypeCorrect == Spec => []TypeOK
<1>1. IInv => TypeOK
  <2> SUFFICES ASSUME IInv PROVE TypeOK
    OBVIOUS
  <2>1. released \subseteq UNION {idle[n] : n \in Nodes}
    BY DEF IInv, Owned
  <2>2. Types /\ Holding
    BY DEF IInv, Shape
  <2> QED BY <2>1, <2>2 DEF Types, Holding, TypeOK, Destroying
<1> QED BY <1>1, InvariantHolds, PTL

\* No two calls use one socket, and none that is idle is in use, whatever threads empty,
\* trim and fill the lists meanwhile.
THEOREM SocketsStayExclusive == Spec => []SocketsAreExclusive
<1>1. IInv => SocketsAreExclusive
  BY DEF IInv, Owned, SocketsAreExclusive
<1> QED BY <1>1, InvariantHolds, PTL

\* No failure of a node is lost, at whatever point of its recovery it is reported.
THEOREM FailuresAreNoticed == Spec => []DeadNodeIsNoticed
<1>1. IInv => DeadNodeIsNoticed
  BY DEF IInv
<1> QED BY <1>1, InvariantHolds, PTL

\* An open connection that lists or calls knew of is forgotten only where Init clears the
\* lists of a node it recovers, or Destory idle sockets that came after its loop.
THEOREM LeaksAreFromClears == Spec => LeaksOnlyInClears
<1> DEFINE Cleared == \/ pc[recoverer] = "init" /\ pc'[recoverer] = "fill"
                      \/ /\ "idle" \in disturbed
                         /\ \E t \in Threads : pc[t] = "clearIdle" /\ pc'[t] = "clearBusy"
           Leaks == \A s \in open : (~Unreferenced(s) /\ s \in open' /\ Unreferenced(s)') => Cleared
<1>1. IInv /\ [Next]_vars => [Leaks]_vars
  <2> SUFFICES ASSUME IInv, [Next]_vars PROVE Leaks
    OBVIOUS
  <2>1. CASE KeepsReferences
    BY <2>1, ReferencedParts, ReferencedPartsNext DEF KeepsReferences
  <2>2. CASE RecoverClears
    BY <2>2, ThreadFacts DEF RecoverClears, Goto, IInv, Shape, Types
  <2>3. ASSUME NEW t \in Threads, DestoryClearsIdle(t), "idle" \in disturbed PROVE Leaks
    BY <2>3 DEF DestoryClearsIdle, Goto, IInv, Shape, Types
  <2> QED BY <2>1, <2>2, <2>3, ReferencesStep DEF IInv
<1> QED BY <1>1, InvariantHolds, PTL DEF Spec, LeaksOnlyInClears
=============================================================================
