--------------------------- MODULE PoolBoundProofs ---------------------------
(***************************************************************************)
(* The bound on a node's connections in ClientPool, the exclusion by its   *)
(* locks and its one deadlock, proved for every number of nodes, sockets   *)
(* and callers and all bounds of the pool.                                 *)
(***************************************************************************)
EXTENDS ClientPoolProofs

----------------------------------------------------------------------------
\* The inductive invariant.

LocksExclude ==
  \A t, u \in Threads : HoldsNodeLock(t) /\ HoldsNodeLock(u) /\ at[t] = at[u] => t = u

Builders == {recoverer, constructor}

\* Nodes whose sockets nobody but the constructor can touch yet.
Fresh == todo[constructor] \cup (IF pc[constructor] = "fill" THEN {at[constructor]} ELSE {})

\* Calls begin when the cluster is there.  A fresh node cannot have failed, so the recoverer
\* does not fill it at the same time.
FreshIsUntouched ==
  /\ pc[constructor] = "done" \/ \A c \in Clients : pc[c] = "ready"
  /\ pc[constructor] = "done" => todo[constructor] = {}
  /\ \A n \in Fresh : n \notin deadNodes \cup todo[recoverer] /\ at[recoverer] # n /\ pc[n] = "unborn"
  /\ \A n \in todo[constructor] : at[constructor] # n /\ idle[n] = {} /\ busy[n] = {}

\* What Init may still add is kept free above Max ...
FillsFit ==
  /\ PoolBound
  /\ \A t \in Builders : pc[t] = "fill" => Connections(at[t]) + left[t] <= Max + Min

\* ... and what the maintenance may still add, below Min.
Refilling(n) ==
  pc[n] \in {"refill", "add"} \/ (pc[n] \in {"error"} \cup Destroying /\ after[n] = "refill")

RefillsFit ==
  \A n \in Nodes : Refilling(n) => /\ Connections(n) + left[n] <= Min
                                   /\ pc[n] = "add" => Connections(n) + left[n] < Min

\* There is a place for one more socket.
Room(n) ==
  /\ Connections(n) < Max + Min
  /\ \A t \in Builders : pc[t] = "fill" /\ at[t] = n => Connections(n) + left[t] < Max + Min

\* A caller on its way from the idle list to the busy one keeps the place of its socket: others
\* change the lists meanwhile only in a Destory, which does not take the lock.
CallsFit ==
  \A c \in Clients :
    /\ pc[c] = "move" => held[c] \in idle[at[c]] \/ Room(at[c])
    /\ pc[c] = "connect" => Connections(at[c]) < Max
    /\ pc[c] = "enlist" => Room(at[c])

Bounded == LocksExclude /\ FreshIsUntouched /\ FillsFit /\ RefillsFit /\ CallsFit

----------------------------------------------------------------------------
\* What a step may do to the lists of a node, and to a thread.

ListsShrink(n) == idle'[n] \subseteq idle[n] /\ busy'[n] \subseteq busy[n]

\* The number of connections of n after the step, whatever n is.
NextConnections(n) == Cardinality(idle'[n]) + Cardinality(busy'[n])

ListEffect(n) ==
  \/ ListsShrink(n)
  \/ \E c \in Clients : at[c] = n /\ (GetEnlists(c) \/ ReturnStores(c))
  \/ MaintainAdds(n)
  \/ \E t \in Builders : at[t] = n /\ InitAdds(t)

Quiet(t) ==
  /\ pc'[t] = pc[t] /\ at'[t] = at[t] /\ after'[t] = after[t] /\ left'[t] = left[t]
  /\ t \in Clients => held'[t] = held[t]

\* It gets to a place without a bound.
Leaves(t) == ~HoldsNodeLock(t)' /\ pc'[t] # "fill"

KeepsLock(t) ==
  /\ HoldsNodeLock(t) /\ at'[t] = at[t] /\ left'[t] = left[t]
  /\ pc'[t] \in {"error", "refill"} \cup Destroying
  /\ Refilling(t)' => Refilling(t)

\* A caller on its way to a socket.
Gets(c) == GetChooses(c) \/ GetMoves(c) \/ GetConnects(c)

Maintains(n) == MaintainTrims(n) \/ MaintainRefills(n) \/ MaintainAdds(n)

Fills(t) ==
  \/ t = recoverer /\ RecoverClears
  \/ t = constructor /\ ConstructNode
  \/ t \in Builders /\ InitAdds(t)

ThreadEffect(t) ==
  \/ Quiet(t)
  \/ Leaves(t)
  \/ KeepsLock(t)
  \/ t \in Clients /\ (Gets(t) \/ ReturnClientSocket(t))
  \/ t \in Nodes /\ Maintains(t)
  \/ Fills(t)

\* The number of connections of a node.
LEMMA Sizes ==
  ASSUME Types, NEW n \in Nodes
  PROVE  /\ IsFiniteSet(idle[n]) /\ IsFiniteSet(busy[n])
         /\ Cardinality(idle[n]) \in Nat /\ Cardinality(busy[n]) \in Nat
         /\ Connections(n) = Cardinality(idle[n]) + Cardinality(busy[n])
         /\ Connections(n) \in Nat
<1>1. idle[n] \in SUBSET Sockets /\ busy[n] \in SUBSET Sockets
  BY DEF Types
<1> QED BY <1>1, SocketSets DEF Connections

LEMMA SizesNext ==
  ASSUME Types', NEW n \in Nodes
  PROVE  /\ Cardinality(idle'[n]) \in Nat /\ Cardinality(busy'[n]) \in Nat
         /\ NextConnections(n) = Cardinality(idle'[n]) + Cardinality(busy'[n])
         /\ NextConnections(n) \in Nat /\ Connections(n)' = NextConnections(n)
<1>1. idle'[n] \in SUBSET Sockets /\ busy'[n] \in SUBSET Sockets
  BY DEF Types
<1> QED BY <1>1, SocketSets DEF NextConnections, Connections

\* Lists that lose sockets.
LEMMA SizesShrink ==
  ASSUME Types, NEW n \in Nodes, ListsShrink(n)
  PROVE  NextConnections(n) <= Connections(n)
<1>1. idle[n] \in SUBSET Sockets /\ busy[n] \in SUBSET Sockets
  BY DEF Types
<1>2. /\ Cardinality(idle'[n]) \in Nat /\ Cardinality(busy'[n]) \in Nat
      /\ Cardinality(idle[n]) \in Nat /\ Cardinality(busy[n]) \in Nat
      /\ Cardinality(idle'[n]) <= Cardinality(idle[n])
      /\ Cardinality(busy'[n]) <= Cardinality(busy[n])
  BY <1>1, SocketSubsets DEF ListsShrink
<1> QED BY <1>2 DEF Connections, NextConnections

\* The lists of n get new contents, the others stay.
LEMMA OthersShrink ==
  ASSUME Shape, NEW n \in Nodes, NEW I, NEW B, SetPool(n, I, B)
  PROVE  /\ \A m \in Nodes : m # n => ListsShrink(m)
         /\ I \subseteq idle[n] /\ B \subseteq busy[n] => ListsShrink(n)
<1>1. idle'[n] = I /\ busy'[n] = B
      /\ \A m \in Nodes : m # n => idle'[m] = idle[m] /\ busy'[m] = busy[m]
  BY DEF SetPool, Shape, Types
<1> QED BY <1>1 DEF ListsShrink

LEMMA DestoryLists ==
  ASSUME Shape, NEW t \in Threads, NodeErrorCall(t), NEW n \in Nodes
  PROVE  ListsShrink(n)
<1>1. CASE DestoryClearsIdle(t)
  BY <1>1 DEF DestoryClearsIdle, ListsShrink, Shape, Types
<1>2. CASE DestoryClearsBusy(t)
  BY <1>2 DEF DestoryClearsBusy, ListsShrink, Shape, Types
<1>3. CASE ~DestoryClearsIdle(t) /\ ~DestoryClearsBusy(t)
  <2>1. UNCHANGED <<idle, busy>>
    BY <1>3 DEF NodeErrorCall, NodeErrorLists, DestoryDestroys, DestoryPasses, DestoryEntersBusy,
                DestoryThrows, pools
  <2> QED BY <2>1 DEF ListsShrink
<1> QED BY <1>1, <1>2, <1>3

LEMMA CallLists ==
  ASSUME Shape, NEW c \in Clients, Call(c), NEW n \in Nodes
  PROVE  ListEffect(n)
<1>1. CASE UNCHANGED pools
  BY <1>1 DEF pools, ListEffect, ListsShrink
<1>2. CASE GetMoves(c) \/ GetEnlists(c) \/ CloseClientSocket(c) \/ ReturnClientSocket(c)
           \/ ReturnStores(c)
  <2>1. at[c] \in Nodes
    BY <1>2, ThreadFacts DEF GetMoves, GetEnlists, CloseClientSocket, ReturnClientSocket,
                             ReturnStores, Shape, Placed
  <2>2. CASE GetMoves(c)
    BY <2>1, <2>2, OthersShrink DEF GetMoves, ListEffect
  <2>3. CASE CloseClientSocket(c) \/ ReturnClientSocket(c)
    BY <2>1, <2>3, OthersShrink DEF CloseClientSocket, ReturnClientSocket, ListEffect
  <2>4. CASE GetEnlists(c) \/ ReturnStores(c)
    <3>1. \E I, B : SetPool(at[c], I, B)
      BY <2>4 DEF GetEnlists, ReturnStores
    <3> QED BY <2>1, <2>4, <3>1, OthersShrink DEF ListEffect
  <2> QED BY <1>2, <2>2, <2>3, <2>4
<1> QED BY <1>1, <1>2 DEF Call, AcquireNode, AcquireSocket, GetChecksAlive, GetChooses,
           GetConnects, Write, Read, ReadStopsSpinning

LEMMA ListEffects ==
  ASSUME Shape, [Next]_vars, NEW n \in Nodes
  PROVE  ListEffect(n)
<1>1. ASSUME UNCHANGED pools PROVE ListEffect(n)
  BY <1>1 DEF pools, ListEffect, ListsShrink
<1>2. CASE UNCHANGED vars
  BY <1>1, <1>2 DEF vars
<1>3. ASSUME NEW t \in Threads, NodeErrorCall(t) PROVE ListEffect(n)
  BY <1>3, DestoryLists DEF ListEffect
<1>4. ASSUME NEW m \in Nodes, Maintain(m) PROVE ListEffect(n)
  <2>1. CASE MaintainChecksAlive(m) \/ MaintainRefills(m) \/ MaintainEnds(m)
    BY <1>1, <2>1 DEF MaintainChecksAlive, MaintainRefills, MaintainEnds
  <2>2. CASE MaintainTrims(m)
    <3>1. \E I, B : SetPool(m, idle[m] \ I, busy[m] \ B)
      BY <2>2 DEF MaintainTrims
    <3> QED BY <3>1, OthersShrink DEF ListEffect
  <2>3. CASE MaintainAdds(m)
    <3>1. UNCHANGED pools \/ \E I, B : SetPool(m, I, B)
      BY <2>3 DEF MaintainAdds
    <3> QED BY <1>1, <2>3, <3>1, OthersShrink DEF ListEffect
  <2> QED BY <1>4, <2>1, <2>2, <2>3 DEF Maintain
<1>5. ASSUME NEW t \in Builders, InitAdds(t) \/ InitEnds(t) \/ Revive(t) PROVE ListEffect(n)
  <2>1. CASE InitEnds(t) \/ Revive(t)
    BY <1>1, <2>1 DEF InitEnds, Revive
  <2>2. CASE InitAdds(t)
    <3>1. at[t] \in Nodes
      BY <2>2, ThreadFacts DEF InitAdds, Builders, Shape, Placed
    <3>2. UNCHANGED pools \/ \E I, B : SetPool(at[t], I, B)
      BY <2>2 DEF InitAdds
    <3> QED BY <1>1, <2>2, <3>1, <3>2, OthersShrink DEF ListEffect
  <2> QED BY <1>5, <2>1, <2>2
<1>6. CASE RecoverClears
  <2>1. at[recoverer] \in Nodes
    BY <1>6, ThreadFacts DEF RecoverClears, Shape, Placed
  <2> QED BY <1>6, <2>1, OthersShrink DEF RecoverClears, ListEffect
<1>7. CASE RecoverBegins \/ RecoverChecks \/ RecoverJoins \/ RecoverEnds
           \/ ConstructNode \/ ConstructAdds \/ ConstructEnds
  BY <1>1, <1>7 DEF RecoverBegins, RecoverChecks, RecoverJoins, RecoverEnds, ConstructNode,
                    ConstructAdds, ConstructEnds
<1> QED
  BY <1>2, <1>3, <1>4, <1>5, <1>6, <1>7, CallLists DEF Next, Recover, Construct, Builders

LEMMA NodeErrorThreads ==
  ASSUME Shape, NEW t \in Threads, NodeErrorCall(t), NEW u \in Threads
  PROVE  ThreadEffect(u)
<1>1. UNCHANGED <<at, held, left>> /\ \A v \in Threads : v # t => after'[v] = after[v]
  BY DEF NodeErrorCall, NodeErrorLists, DestoryDestroys, DestoryPasses, DestoryEntersBusy,
         DestoryThrows, DestoryClearsIdle, DestoryClearsBusy, local, Shape, Types
<1>2. CASE NodeErrorLists(t)
  <2>1. /\ pc[t] = "error" /\ pc'[t] = "destroyIdle" /\ after'[t] = after[t]
        /\ \A v \in Threads : v # t => pc'[v] = pc[v]
    BY <1>2 DEF NodeErrorLists, Goto, local, Shape, Types
  <2>2. Leaves(t) \/ KeepsLock(t)
    BY <1>1, <2>1 DEF Leaves, KeepsLock, HoldsNodeLock, Refilling, Destroying
  <2> QED BY <1>1, <2>1, <2>2 DEF ThreadEffect, Quiet
<1>3. CASE ~NodeErrorLists(t)
  <2>1. pc[t] \in Destroying /\ \A v \in Threads : v # t => pc'[v] = pc[v]
    BY <1>3, DestoryGoto
  <2>2. \/ pc'[t] \in Destroying /\ after'[t] = after[t]
        \/ pc'[t] = after[t] /\ after[t] \in {"ready", "get", "read", "return", "refill", "revive"}
    <3>1. CASE DestoryThrows(t) \/ DestoryClearsBusy(t)
      BY <3>1 DEF DestoryThrows, DestoryClearsBusy, Goto, Shape, Types
    <3>2. CASE DestoryDestroys(t)
      BY <2>1, <3>2 DEF DestoryDestroys, local
    <3>3. CASE DestoryPasses(t) \/ DestoryEntersBusy(t) \/ DestoryClearsIdle(t)
      <4>1. after' = after /\ \E l \in {"enterBusy", "clearIdle", "destroyBusy", "clearBusy"} : Goto(t, l)
        BY <3>3 DEF DestoryPasses, DestoryEntersBusy, DestoryClearsIdle, local
      <4> QED BY <4>1 DEF Goto, Destroying, Shape, Types
    <3> QED BY <1>3, <3>1, <3>2, <3>3 DEF NodeErrorCall
  <2>3. Leaves(t) \/ KeepsLock(t)
    BY <1>1, <2>1, <2>2 DEF Leaves, KeepsLock, HoldsNodeLock, Refilling, Destroying
  <2> QED BY <1>1, <2>1, <2>3 DEF ThreadEffect, Quiet
<1> QED BY <1>2, <1>3

\* What a call changes of its own thread, and of no other.
LEMMA CallLocal ==
  ASSUME Shape, NEW c \in Clients, Call(c)
  PROVE  /\ \A u \in Threads : u # c => Quiet(u)
         /\ UNCHANGED left /\ \E l : Goto(c, l)
<1>0. c \in Threads
  BY ThreadFacts
<1>1. UNCHANGED left
  BY DEF Call, AcquireNode, AcquireSocket, GetChecksAlive, GetChooses, GetMoves, GetConnects,
     GetEnlists, Write, Read, ReadStopsSpinning, CloseClientSocket, ReturnClientSocket,
     ReturnStores, local
<1>2. \E l : Goto(c, l)
  BY DEF Call, AcquireNode, AcquireSocket, GetChecksAlive, GetChooses, GetMoves, GetConnects,
     ConnectFails, GetEnlists, Write, Read, ReadStopsSpinning, CloseClientSocket,
     ReturnClientSocket, ReturnStores
<1>3. \A u \in Threads : u # c => at'[u] = at[u]
  BY <1>0 DEF Call, AcquireNode, AcquireSocket, GetChecksAlive, GetChooses, GetMoves, GetConnects,
     GetEnlists, Write, Read, ReadStopsSpinning, CloseClientSocket, ReturnClientSocket,
     ReturnStores, local, Shape, Types
<1>4. \A u \in Threads : u # c => after'[u] = after[u]
  BY <1>0 DEF Call, AcquireNode, AcquireSocket, GetChecksAlive, GetChooses, GetMoves, GetConnects,
     ConnectFails, GetEnlists, Write, Read, ReadStopsSpinning, CloseClientSocket,
     ReturnClientSocket, ReturnStores, local, Shape, Types
<1>5. \A u \in Clients : u # c => held'[u] = held[u]
  BY DEF Call, AcquireNode, AcquireSocket, GetChecksAlive, GetChooses, GetMoves, GetConnects,
     GetEnlists, Write, Read, ReadStopsSpinning, CloseClientSocket, ReturnClientSocket,
     ReturnStores, local, Shape, Types
<1>6. \A u \in Threads : u # c => pc'[u] = pc[u]
  BY <1>2 DEF Goto, Shape, Types
<1> QED BY <1>1, <1>2, <1>3, <1>4, <1>5, <1>6 DEF Quiet

LEMMA CallThreads ==
  ASSUME Shape, NEW c \in Clients, Call(c), NEW u \in Threads
  PROVE  ThreadEffect(u)
<1>0. c \in Threads
  BY ThreadFacts
<1>1. CASE u # c
  BY <1>1, CallLocal DEF ThreadEffect
<1>2. CASE u = c /\ (Gets(c) \/ ReturnClientSocket(c))
  BY <1>2 DEF ThreadEffect
<1>3. CASE u = c /\ ~Gets(c) /\ ~ReturnClientSocket(c)
  <2>1. CASE AcquireNode(c) \/ AcquireSocket(c) \/ GetChecksAlive(c)
    <3>1. \/ pc'[c] = "error" /\ after'[c] = "get"
          \/ pc'[c] \in {"located", "get", "choose", "ready"}
      BY <1>0, <2>1 DEF AcquireNode, AcquireSocket, GetChecksAlive, Goto, Shape, Types
    <3> QED BY <1>3, <3>1 DEF Leaves, HoldsNodeLock, Destroying, ThreadEffect
  <2>2. CASE GetEnlists(c) \/ Write(c) \/ Read(c)
    <3>1. \/ pc'[c] = "error" /\ after'[c] \in {"read", "return"}
          \/ pc'[c] \in {"write", "read", "spin", "close", "return"}
      BY <1>0, <2>2 DEF GetEnlists, Write, Read, Goto, Shape, Types
    <3> QED BY <1>3, <3>1 DEF Leaves, HoldsNodeLock, Destroying, ThreadEffect
  <2>3. CASE ReadStopsSpinning(c) \/ CloseClientSocket(c) \/ ReturnStores(c)
    <3>1. pc'[c] \in {"close", "return", "ready"}
      BY <1>0, <2>3 DEF ReadStopsSpinning, CloseClientSocket, ReturnStores, Goto, Shape, Types
    <3> QED BY <1>3, <3>1 DEF Leaves, HoldsNodeLock, Destroying, ThreadEffect
  <2> QED BY <1>3, <2>1, <2>2, <2>3 DEF Call, Gets
<1> QED BY <1>1, <1>2, <1>3

LEMMA MaintainLocal ==
  ASSUME Shape, NEW n \in Nodes, Maintain(n)
  PROVE  \A u \in Threads : u # n => Quiet(u)
<1>0. n \in Threads
  BY ThreadFacts
<1>1. UNCHANGED <<at, held>>
  BY DEF Maintain, MaintainChecksAlive, MaintainTrims, MaintainRefills, MaintainAdds,
     MaintainEnds, local
<1>2. UNCHANGED pc \/ \E l : Goto(n, l)
  BY DEF Maintain, MaintainChecksAlive, MaintainTrims, MaintainRefills, MaintainAdds,
     ConnectFails, MaintainEnds
<1>3. \A u \in Threads : u # n => after'[u] = after[u] /\ left'[u] = left[u]
  BY <1>0 DEF Maintain, MaintainChecksAlive, MaintainTrims, MaintainRefills, MaintainAdds,
     ConnectFails, MaintainEnds, local, Shape, Types
<1>4. \A u \in Threads : u # n => pc'[u] = pc[u]
  BY <1>2 DEF Goto, Shape, Types
<1> QED BY <1>1, <1>3, <1>4 DEF Quiet

LEMMA MaintainThreads ==
  ASSUME Shape, NEW n \in Nodes, Maintain(n), NEW u \in Threads
  PROVE  ThreadEffect(u)
<1>0. n \in Threads
  BY ThreadFacts
<1>1. u # n => Quiet(u)
  BY MaintainLocal
<1>2. CASE Maintains(n)
  BY <1>1, <1>2 DEF ThreadEffect
<1>3. CASE MaintainChecksAlive(n) \/ MaintainEnds(n)
  <2>1. pc'[n] \in {"trim", "ready"}
    BY <1>0, <1>3 DEF MaintainChecksAlive, MaintainEnds, Goto, Shape, Types
  <2>2. Leaves(n)
    BY <2>1 DEF Leaves, HoldsNodeLock, Destroying
  <2> QED BY <1>1, <2>2 DEF ThreadEffect
<1> QED BY <1>2, <1>3 DEF Maintain, Maintains

LEMMA BuildThreads ==
  ASSUME Shape, NEW t \in Builders, InitAdds(t) \/ InitEnds(t) \/ Revive(t), NEW u \in Threads
  PROVE  ThreadEffect(u)
<1>0. t \in Threads /\ t \notin Clients
  BY ThreadFacts DEF Builders
<1>1. CASE InitAdds(t)
  <2>1. u # t => Quiet(u)
    BY <1>0, <1>1, ThreadFacts DEF InitAdds, ConnectFails, Goto, Quiet, local, Shape, Types
  <2> QED BY <1>1, <2>1 DEF ThreadEffect, Fills
<1>2. CASE InitEnds(t)
  <2>1. u # t => Quiet(u)
    BY <1>0, <1>2, ThreadFacts DEF InitEnds, Goto, Quiet, local, Shape, Types
  <2>2. pc'[t] = "revive"
    BY <1>0, <1>2 DEF InitEnds, Goto, Shape, Types
  <2>3. Leaves(t)
    BY <2>2 DEF Leaves, HoldsNodeLock, Destroying
  <2> QED BY <2>1, <2>3 DEF ThreadEffect
<1>3. CASE Revive(t)
  <2>1. UNCHANGED local /\ at[t] \in Nodes /\ at[t] \in Threads /\ at[t] # t
    BY <1>0, <1>3, ThreadFacts DEF Revive, Shape, Placed, Builders
  <2>2. \A w \in Threads : pc'[w] = pc[w] \/ pc'[w] \in {"join", "ready"}
    BY <1>0, <1>3, <2>1 DEF Revive, Shape, Types
  <2>3. CASE pc'[u] = pc[u]
    BY <2>1, <2>3 DEF Quiet, local, ThreadEffect
  <2>4. CASE pc'[u] \in {"join", "ready"}
    BY <2>4 DEF Leaves, HoldsNodeLock, Destroying, ThreadEffect
  <2> QED BY <2>2, <2>3, <2>4
<1> QED BY <1>1, <1>2, <1>3

LEMMA ClusterThreads ==
  ASSUME Shape, NEW u \in Threads,
         \/ RecoverBegins \/ RecoverChecks \/ RecoverClears \/ RecoverJoins \/ RecoverEnds
         \/ ConstructNode \/ ConstructAdds \/ ConstructEnds
  PROVE  ThreadEffect(u)
<1>0. recoverer \in Threads /\ constructor \in Threads /\ recoverer \notin Clients
      /\ constructor \notin Clients
  BY ThreadFacts
<1>1. CASE RecoverClears
  <2>1. u # recoverer => Quiet(u)
    BY <1>0, <1>1, ThreadFacts DEF RecoverClears, Goto, Quiet, Shape, Types
  <2> QED BY <1>1, <2>1 DEF ThreadEffect, Fills
<1>2. CASE ConstructNode
  <2>1. u # constructor => Quiet(u)
    BY <1>0, <1>2, ThreadFacts DEF ConstructNode, Goto, Quiet, Shape, Types
  <2> QED BY <1>2, <2>1 DEF ThreadEffect, Fills
<1>3. CASE RecoverBegins \/ RecoverJoins \/ RecoverEnds \/ ConstructAdds \/ ConstructEnds
  <2>1. /\ UNCHANGED <<at, after, left, held>>
        /\ \E t \in Builders, l \in {"check", "ready", "threw", "done"} : Goto(t, l)
    BY <1>3, ThreadFacts DEF RecoverBegins, RecoverJoins, RecoverEnds, ConstructAdds, ConstructEnds,
       local, Builders
  <2>2. pc'[u] = pc[u] \/ pc'[u] \in {"check", "ready", "threw", "done"}
    BY <1>0, <2>1 DEF Goto, Shape, Types, Builders
  <2> QED BY <2>1, <2>2 DEF Quiet, Leaves, HoldsNodeLock, Destroying, ThreadEffect
<1>4. CASE RecoverChecks
  <2>1. u # recoverer => Quiet(u)
    BY <1>0, <1>4, ThreadFacts DEF RecoverChecks, Goto, Quiet, Shape, Types
  <2>2. pc'[recoverer] \in {"init", "check"}
    BY <1>0, <1>4 DEF RecoverChecks, Goto, Shape, Types
  <2>3. Leaves(recoverer)
    BY <2>2 DEF Leaves, HoldsNodeLock, Destroying
  <2> QED BY <2>1, <2>3 DEF ThreadEffect
<1> QED BY <1>1, <1>2, <1>3, <1>4

LEMMA ThreadEffects ==
  ASSUME Shape, [Next]_vars, NEW u \in Threads
  PROVE  ThreadEffect(u)
<1>1. CASE UNCHANGED vars
  BY <1>1 DEF vars, local, ThreadEffect, Quiet
<1>2. ASSUME NEW t \in Builders, InitAdds(t) \/ InitEnds(t) \/ Revive(t)
      PROVE  ThreadEffect(u)
  BY <1>2, BuildThreads
<1>3. CASE Recover \/ Construct
  BY <1>2, <1>3, ClusterThreads DEF Recover, Construct, Builders
<1> QED BY <1>1, <1>3, NodeErrorThreads, CallThreads, MaintainThreads DEF Next

----------------------------------------------------------------------------
\* One thread at most holds the lock of a node.

Enters(t) ==
  \/ t \in Clients /\ (GetChooses(t) \/ ReturnClientSocket(t))
  \/ t \in Nodes /\ MaintainTrims(t)

\* Whoever holds a node's lock after a step held it before, or has found it free.
LEMMA LocksFollow ==
  ASSUME Shape, [Next]_vars, NEW t \in Threads, HoldsNodeLock(t)'
  PROVE  \/ HoldsNodeLock(t) /\ at'[t] = at[t]
         \/ Enters(t)
<1>1. CASE Quiet(t)
  BY <1>1 DEF Quiet, HoldsNodeLock
<1>2. CASE KeepsLock(t)
  BY <1>2 DEF KeepsLock
<1>3. CASE t \in Nodes /\ Maintains(t)
  BY <1>3 DEF Maintains, MaintainRefills, MaintainAdds, HoldsNodeLock, Enters
<1>4. CASE t \in Clients /\ (Gets(t) \/ ReturnClientSocket(t))
  BY <1>4 DEF Gets, GetMoves, GetConnects, local, HoldsNodeLock, Enters
<1>5. CASE Fills(t)
  <2>1. \/ pc'[t] = "fill"
        \/ pc'[t] = "error" /\ after'[t] = "revive"
    BY <1>5 DEF Fills, RecoverClears, ConstructNode, InitAdds, ConnectFails, Goto, Shape, Types
  <2> QED BY <2>1 DEF HoldsNodeLock, Destroying
<1> QED BY <1>1, <1>2, <1>3, <1>4, <1>5, ThreadEffects DEF ThreadEffect, Leaves, Enters

LEMMA EntersMoves ==
  ASSUME NEW t \in Threads, Enters(t)
  PROVE  /\ pc[t] \in {"choose", "return", "trim"} /\ UNCHANGED <<at, after>>
         /\ \E l \in {"move", "connect", "store", "refill", "ready"} : Goto(t, l)
<1>1. ASSUME GetChooses(t) PROVE \E l \in {"move", "connect", "ready"} : Goto(t, l)
  BY <1>1 DEF GetChooses
<1>2. ASSUME ReturnClientSocket(t) PROVE Goto(t, "store")
  BY <1>2 DEF ReturnClientSocket
<1>3. ASSUME MaintainTrims(t) PROVE \E l \in {"refill", "ready"} : Goto(t, l)
  BY <1>3 DEF MaintainTrims
<1> QED BY <1>1, <1>2, <1>3 DEF Enters, GetChooses, ReturnClientSocket, MaintainTrims, local

LEMMA EntersAlone ==
  ASSUME Shape, NEW t \in Threads, Enters(t)
  PROVE  /\ NodeLockFree(at[t]) /\ UNCHANGED at
         /\ \A u \in Threads : u # t => pc'[u] = pc[u] /\ after'[u] = after[u] /\ ~Enters(u)
<1>1. NodeLockFree(at[t])
  BY DEF Enters, GetChooses, ReturnClientSocket, MaintainTrims, Shape, Placed
<1>2. UNCHANGED <<at, after>> /\ \A u \in Threads : u # t => pc'[u] = pc[u]
  BY EntersMoves DEF Goto, Shape, Types
<1>3. ASSUME NEW u \in Threads, u # t, Enters(u)
      PROVE  FALSE
  <2>1. /\ pc[u] \in {"choose", "return", "trim"}
        /\ \E l \in {"move", "connect", "store", "refill", "ready"} : Goto(u, l)
    BY <1>3, EntersMoves
  <2> QED BY <1>2, <1>3, <2>1 DEF Goto, Shape, Types
<1> QED BY <1>1, <1>2, <1>3

LEMMA LocksStep ==
  ASSUME Shape, LocksExclude, [Next]_vars
  PROVE  LocksExclude'
<1> SUFFICES ASSUME NEW t \in Threads, NEW u \in Threads, HoldsNodeLock(t)', HoldsNodeLock(u)',
                    at'[t] = at'[u], t # u
             PROVE  FALSE
  BY DEF LocksExclude
<1>1. ~(Enters(t) \/ Enters(u))
  BY LocksFollow, EntersAlone DEF NodeLockFree
<1> QED BY <1>1, LocksFollow DEF LocksExclude

----------------------------------------------------------------------------
\* Nodes that are still to be constructed.

\* Whoever works on a fresh node is the constructor that fills it.
LEMMA FreshAlone ==
  ASSUME Shape, FreshIsUntouched, NEW n \in Fresh, NEW t \in Threads, at[t] = n
  PROVE  \/ t = constructor /\ pc[t] = "fill" /\ n \notin todo[constructor]
         \/ pc[t] \in {"unborn", "ready"}
<1>1. n \in Nodes /\ pc[constructor] # "done"
  BY ThreadFacts DEF Fresh, FreshIsUntouched, Shape, Types, Placed
<1>2. at[recoverer] # n /\ pc[n] = "unborn"
  BY DEF FreshIsUntouched
<1>3. CASE t \in Clients
  BY <1>1, <1>3 DEF FreshIsUntouched
<1>4. CASE t = constructor
  BY <1>1, <1>4 DEF FreshIsUntouched, Fresh
<1>5. CASE t \in Nodes
  BY <1>2, <1>5 DEF Shape, Placed
<1> QED BY <1>2, <1>3, <1>4, <1>5 DEF Threads

LEMMA FreshLists ==
  ASSUME Shape, FreshIsUntouched, [Next]_vars, NEW n \in todo[constructor]
  PROVE  idle'[n] = {} /\ busy'[n] = {}
<1>1. n \in Nodes /\ n \in Fresh /\ idle[n] = {} /\ busy[n] = {}
  BY ThreadFacts DEF Fresh, FreshIsUntouched, Shape, Types
<1>2. \A t \in Threads : at[t] = n => pc[t] \in {"unborn", "ready"}
  BY <1>1, FreshAlone
<1>3. ~MaintainAdds(n)
  BY <1>1, <1>2, ThreadFacts DEF MaintainAdds, Shape, Placed
<1>4. ASSUME NEW c \in Clients, at[c] = n, GetEnlists(c) \/ ReturnStores(c)
      PROVE  FALSE
  BY <1>2, <1>4, ThreadFacts DEF GetEnlists, ReturnStores
<1>5. ASSUME NEW t \in Builders, at[t] = n, InitAdds(t)
      PROVE  FALSE
  BY <1>2, <1>5, ThreadFacts DEF InitAdds, Builders
<1> QED BY <1>1, <1>3, <1>4, <1>5, ListEffects DEF ListEffect, ListsShrink

\* What keeps the nodes fresh.
LEMMA FreshStays ==
  ASSUME Shape, FreshIsUntouched, [Next]_vars,
         todo'[constructor] = todo[constructor],
         pc'[constructor] = "done" => pc[constructor] = "done",
         at'[constructor] = at[constructor],
         pc'[constructor] = "fill" => pc[constructor] = "fill",
         pc[constructor] = "done" => pc'[constructor] = "done",
         pc[constructor] = "done" \/ \A c \in Clients : pc'[c] = pc[c],
         \A n \in Fresh : \/ n = at[constructor] /\ pc'[constructor] # "fill"
                                                 /\ n \notin todo[constructor]
                          \/ /\ n \notin deadNodes' \cup todo'[recoverer]
                             /\ at'[recoverer] # n /\ pc'[n] = pc[n]
  PROVE  FreshIsUntouched'
<1>1. \A n \in todo'[constructor] : idle'[n] = {} /\ busy'[n] = {}
  BY FreshLists
<1>2. Fresh' \subseteq Fresh
  BY DEF Fresh
<1>3. \A n \in Fresh' : n # at[constructor] \/ pc'[constructor] = "fill"
  BY DEF Fresh, FreshIsUntouched
<1>4. \A n \in Fresh' : /\ n \notin deadNodes' \cup todo'[recoverer]
                        /\ at'[recoverer] # n /\ pc'[n] = "unborn"
  BY <1>2, <1>3 DEF FreshIsUntouched
<1> QED BY <1>1, <1>4 DEF FreshIsUntouched

LEMMA FreshStep ==
  ASSUME Shape, FreshIsUntouched, [Next]_vars
  PROVE  FreshIsUntouched'
<1>0. /\ constructor \in Threads /\ recoverer \in Threads /\ recoverer # constructor
      /\ \A c \in Clients : c \in Threads /\ c # constructor /\ c # recoverer
      /\ \A n \in Nodes : n \in Threads /\ n # constructor /\ n # recoverer /\ n \notin Clients
  BY ThreadFacts
<1>1. \A n \in Fresh : /\ n \in Nodes /\ n \notin deadNodes /\ n \notin todo[recoverer]
                       /\ at[recoverer] # n /\ pc[n] = "unborn"
  BY ThreadFacts DEF Fresh, FreshIsUntouched, Shape, Types, Placed
<1>2. pc[constructor] = "done" => Fresh = {}
  BY DEF FreshIsUntouched, Fresh
<1>3. CASE UNCHANGED vars
  BY <1>1, <1>3, FreshStays DEF vars, lists, local
<1>4. ASSUME NEW t \in Threads, NodeErrorLists(t)
      PROVE  FreshIsUntouched'
  <2>1. /\ pc[t] = "error" /\ pc'[t] = "destroyIdle" /\ \A u \in Threads : u # t => pc'[u] = pc[u]
        /\ deadNodes' = deadNodes \cup {at[t]} /\ UNCHANGED <<at, todo>>
    BY <1>4 DEF NodeErrorLists, Goto, local, Shape, Types
  <2>2. at[t] \notin Fresh
    BY <2>1, FreshAlone
  <2>3. \A n \in Fresh : n \notin deadNodes' /\ pc'[n] = pc[n]
    BY <1>0, <1>1, <2>1, <2>2
  <2>4. pc[constructor] = "done" \/ \A c \in Clients : pc'[c] = pc[c]
    BY <1>0, <2>1 DEF FreshIsUntouched
  <2>5. /\ pc'[constructor] = "done" <=> pc[constructor] = "done"
        /\ pc'[constructor] = "fill" => pc[constructor] = "fill"
        /\ todo'[constructor] = todo[constructor] /\ todo'[recoverer] = todo[recoverer]
        /\ at'[constructor] = at[constructor] /\ at'[recoverer] = at[recoverer]
    BY <1>0, <2>1
  <2> QED BY <1>1, <2>3, <2>4, <2>5, FreshStays
<1>5. ASSUME NEW t \in Threads, NodeErrorCall(t), ~NodeErrorLists(t)
      PROVE  FreshIsUntouched'
  <2>0. pc[t] \in Destroying /\ \A u \in Threads : u # t => pc'[u] = pc[u]
    BY <1>5, DestoryGoto
  <2>1. /\ pc[t] \notin {"unborn", "ready", "fill", "done"} /\ pc'[t] \notin {"fill", "done"}
        /\ UNCHANGED <<deadNodes, at, todo>>
    <3>1. UNCHANGED <<deadNodes, at, todo>>
      BY <1>5 DEF NodeErrorCall, DestoryDestroys, DestoryPasses, DestoryEntersBusy, DestoryThrows,
                  DestoryClearsIdle, DestoryClearsBusy, lists, local
    <3>2. \/ UNCHANGED pc
          \/ \E l \in {"enterBusy", "clearIdle", "destroyBusy", "clearBusy", after[t]} : Goto(t, l)
      BY <1>5 DEF NodeErrorCall, DestoryDestroys, DestoryPasses, DestoryEntersBusy, DestoryThrows,
                  DestoryClearsIdle, DestoryClearsBusy, local
    <3>3. after[t] \notin {"fill", "done"}
      BY DEF Shape, Types
    <3> QED BY <2>0, <3>1, <3>2, <3>3 DEF Goto, Destroying, Shape, Types
  <2>2. \A n \in Fresh : pc'[n] = pc[n]
    BY <1>0, <1>1, <2>0, <2>1
  <2>3. pc[constructor] = "done" \/ \A c \in Clients : pc'[c] = pc[c]
    BY <1>0, <2>0, <2>1 DEF FreshIsUntouched
  <2>4. /\ pc'[constructor] = "done" <=> pc[constructor] = "done"
        /\ pc'[constructor] = "fill" => pc[constructor] = "fill"
        /\ todo'[constructor] = todo[constructor] /\ todo'[recoverer] = todo[recoverer]
        /\ at'[constructor] = at[constructor] /\ at'[recoverer] = at[recoverer]
    BY <1>0, <2>0, <2>1
  <2> QED BY <1>1, <2>1, <2>2, <2>3, <2>4, FreshStays
<1>6. ASSUME NEW c \in Clients, Call(c)
      PROVE  FreshIsUntouched'
  <2>1. pc[constructor] = "done"
    <3>1. CASE pc[c] = "ready"
      BY <1>6, <3>1 DEF Call, AcquireNode, AcquireSocket, GetChecksAlive, GetChooses, GetMoves,
         GetConnects, GetEnlists, Write, Read, ReadStopsSpinning, CloseClientSocket,
         ReturnClientSocket, ReturnStores
    <3>2. CASE pc[c] # "ready"
      BY <3>2 DEF FreshIsUntouched
    <3> QED BY <3>1, <3>2
  <2>2. UNCHANGED todo
    BY <1>6 DEF Call, AcquireNode, AcquireSocket, GetChecksAlive, GetChooses, GetMoves,
       GetConnects, GetEnlists, Write, Read, ReadStopsSpinning, CloseClientSocket,
       ReturnClientSocket, ReturnStores, local
  <2>3. pc'[constructor] = "done" /\ at'[constructor] = at[constructor]
    BY <1>0, <1>6, <2>1, CallLocal DEF Quiet
  <2> QED BY <1>2, <2>1, <2>2, <2>3, FreshStays
<1>7. ASSUME NEW n \in Nodes, Maintain(n)
      PROVE  FreshIsUntouched'
  <2>1. /\ pc[n] # "unborn" /\ UNCHANGED <<deadNodes, at, todo>>
    BY <1>7 DEF Maintain, MaintainChecksAlive, MaintainTrims, MaintainRefills, MaintainAdds,
                MaintainEnds, lists, local
  <2>2. \A u \in Threads : u # n => pc'[u] = pc[u]
    BY <1>7, MaintainLocal DEF Quiet
  <2> QED BY <1>0, <1>1, <2>1, <2>2, FreshStays
<1>8. ASSUME NEW t \in Builders, InitAdds(t) \/ InitEnds(t)
      PROVE  FreshIsUntouched'
  <2>1. /\ pc[t] = "fill" /\ pc'[t] \in {"fill", "error", "revive"}
        /\ \A u \in Threads : u # t => pc'[u] = pc[u]
        /\ UNCHANGED <<deadNodes, at, todo>> /\ t \in Threads
    BY <1>0, <1>8 DEF InitAdds, InitEnds, ConnectFails, Goto, lists, local, Builders, Shape, Types
  <2> QED BY <1>0, <1>1, <2>1, FreshStays DEF Builders
<1>9. ASSUME NEW t \in Builders, Revive(t)
      PROVE  FreshIsUntouched'
  <2>1. /\ pc[t] = "revive" /\ t \in Threads /\ at[t] \in Nodes /\ at[t] # t /\ at[t] \notin Builders
        /\ UNCHANGED <<deadNodes, at, todo>>
    BY <1>0, <1>9 DEF Revive, lists, local, Builders, Shape, Placed
  <2>2. at[t] \notin Fresh
    BY <2>1, FreshAlone
  <2>3. pc'[t] = "join" /\ \A u \in Threads : u # t /\ u # at[t] => pc'[u] = pc[u]
    BY <1>9, <2>1 DEF Revive, Shape, Types
  <2> QED BY <1>0, <1>1, <2>1, <2>2, <2>3, FreshStays DEF Builders
<1>10. CASE RecoverBegins \/ RecoverClears \/ RecoverJoins \/ RecoverEnds
  <2>1. /\ \A u \in Threads : u # recoverer => pc'[u] = pc[u]
        /\ UNCHANGED at /\ todo'[constructor] = todo[constructor] /\ deadNodes' \subseteq deadNodes
        /\ todo'[recoverer] \in {todo[recoverer], deadNodes}
    BY <1>0, <1>10 DEF RecoverBegins, RecoverClears, RecoverJoins, RecoverEnds, Goto, lists, local,
       Shape, Types
  <2> QED BY <1>0, <1>1, <2>1, FreshStays
<1>11. CASE RecoverChecks
  <2>1. /\ \A u \in Threads : u # recoverer => pc'[u] = pc[u]
        /\ UNCHANGED deadNodes /\ todo'[constructor] = todo[constructor]
        /\ at'[constructor] = at[constructor]
        /\ at'[recoverer] \in todo[recoverer] \cup {at[recoverer]}
        /\ todo'[recoverer] \subseteq todo[recoverer]
    BY <1>0, <1>11 DEF RecoverChecks, Goto, lists, Shape, Types
  <2> QED BY <1>0, <1>1, <2>1, FreshStays
<1>12. CASE ConstructNode
  <2>1. PICK n \in todo[constructor] :
          /\ todo' = [todo EXCEPT ![constructor] = todo[constructor] \ {n}]
          /\ at' = [at EXCEPT ![constructor] = n]
    BY <1>12 DEF ConstructNode
  <2>2. /\ todo'[constructor] = todo[constructor] \ {n} /\ todo'[recoverer] = todo[recoverer]
        /\ at'[constructor] = n /\ at'[recoverer] = at[recoverer] /\ UNCHANGED deadNodes
        /\ pc[constructor] = "check" /\ pc'[constructor] = "fill"
        /\ \A u \in Threads : u # constructor => pc'[u] = pc[u]
    BY <1>0, <1>12, <2>1 DEF ConstructNode, Goto, lists, Shape, Types
  <2>3. Fresh' \subseteq Fresh
    BY <2>2 DEF Fresh
  <2>4. \A m \in todo'[constructor] : idle'[m] = {} /\ busy'[m] = {} /\ at'[constructor] # m
    BY <2>2, FreshLists
  <2>5. \A c \in Clients : pc'[c] = "ready"
    BY <1>0, <2>2 DEF FreshIsUntouched
  <2>6. \A m \in Fresh' : m \notin deadNodes' \cup todo'[recoverer] /\ at'[recoverer] # m
                          /\ pc'[m] = "unborn"
    BY <1>0, <1>1, <2>2, <2>3
  <2> QED BY <2>2, <2>4, <2>5, <2>6 DEF FreshIsUntouched
<1>13. CASE ConstructAdds
  <2>1. /\ pc[constructor] = "join" /\ pc'[constructor] \in {"threw", "check"}
        /\ \A u \in Threads : u # constructor => pc'[u] = pc[u]
        /\ UNCHANGED <<deadNodes, at, todo>>
    BY <1>0, <1>13 DEF ConstructAdds, Goto, lists, local, Shape, Types
  <2> QED BY <1>0, <1>1, <2>1, FreshStays
<1>14. CASE ConstructEnds
  <2>1. /\ pc[constructor] = "check" /\ pc'[constructor] = "done" /\ todo[constructor] = {}
        /\ UNCHANGED todo
    BY <1>0, <1>14 DEF ConstructEnds, Goto, local, Shape, Types
  <2>2. Fresh' = {}
    BY <2>1 DEF Fresh
  <2> QED BY <2>1, <2>2 DEF FreshIsUntouched
<1> QED
  BY <1>3, <1>4, <1>5, <1>6, <1>7, <1>8, <1>9, <1>10, <1>11, <1>12, <1>13, <1>14
     DEF Next, Recover, Construct, Builders

----------------------------------------------------------------------------
\* How many connections a step may leave to a node.

LEMMA SetGrows ==
  ASSUME NEW S, NEW s, IsFiniteSet(S)
  PROVE  /\ Cardinality(S) \in Nat /\ Cardinality(S \cup {s}) \in Nat
         /\ Cardinality(S \cup {s}) <= Cardinality(S) + 1
<1> DEFINE k == Cardinality(S)
           l == Cardinality(S \cup {s})
<1>1. k \in Nat
  BY FS_CardinalityType
<1>2. l = IF s \in S THEN k ELSE k + 1
  BY FS_AddElement
<1> HIDE DEF k, l
<1>3. l = k \/ l = k + 1
  BY <1>2
<1>4. l \in Nat /\ l <= k + 1
  BY <1>1, <1>3
<1> QED BY <1>1, <1>4 DEF k, l

LEMMA SizesGrow ==
  ASSUME Types, NEW n \in Nodes, NEW s, idle'[n] = idle[n] \cup {s}, busy'[n] = busy[n]
  PROVE  NextConnections(n) \in Nat /\ NextConnections(n) <= Connections(n) + 1
<1>1. /\ Cardinality(idle[n] \cup {s}) \in Nat
      /\ Cardinality(idle[n] \cup {s}) <= Cardinality(idle[n]) + 1
  BY Sizes, SetGrows
<1>2. Cardinality(idle'[n]) = Cardinality(idle[n] \cup {s})
      /\ Cardinality(busy'[n]) = Cardinality(busy[n])
  OBVIOUS
<1> QED BY <1>1, <1>2, Sizes DEF NextConnections

\* A caller's socket joins the busy ones.
LEMMA GetEnlistsSizes ==
  ASSUME Shape, CallsFit, NEW c \in Clients, GetEnlists(c)
  PROVE  Room(at[c]) /\ NextConnections(at[c]) <= Connections(at[c]) + 1
<1> DEFINE n == at[c]
           s == held[c]
<1>1. n \in Nodes /\ pc[c] = "enlist"
  BY ThreadFacts DEF GetEnlists, Shape, Placed
<1>2. idle'[n] = idle[n] /\ busy'[n] = busy[n] \cup {s}
  BY <1>1 DEF GetEnlists, SetPool, Shape, Types
<1> HIDE DEF s
<1>3. /\ Cardinality(busy[n] \cup {s}) \in Nat
      /\ Cardinality(busy[n] \cup {s}) <= Cardinality(busy[n]) + 1
  BY <1>1, Sizes, SetGrows DEF Shape
<1>4. Cardinality(idle'[n]) = Cardinality(idle[n])
      /\ Cardinality(busy'[n]) = Cardinality(busy[n] \cup {s})
  BY <1>2
<1>5. /\ Cardinality(idle[n]) \in Nat /\ Cardinality(busy[n]) \in Nat
      /\ Connections(n) = Cardinality(idle[n]) + Cardinality(busy[n])
  BY <1>1, Sizes DEF Shape
<1>6. NextConnections(n) <= Connections(n) + 1
  BY <1>3, <1>4, <1>5 DEF NextConnections
<1>7. Room(n)
  BY <1>1 DEF CallsFit
<1> QED BY <1>6, <1>7

\* What a caller returns joins the idle ones if there is a place below Max.
LEMMA ReturnStoresSizes ==
  ASSUME Shape, NEW c \in Clients, ReturnStores(c)
  PROVE  ListsShrink(at[c]) \/ NextConnections(at[c]) <= Max
<1> DEFINE n == at[c]
<1>1. n \in Nodes
  BY ThreadFacts DEF ReturnStores, Shape, Placed
<1>2. CASE ~(Connections(n) < Max)
  BY <1>1, <1>2, OthersShrink DEF ReturnStores
<1>3. CASE Connections(n) < Max
  <2>1. idle'[n] = idle[n] \cup {held[c]} /\ busy'[n] = busy[n]
    BY <1>1, <1>3 DEF ReturnStores, SetPool, Shape, Types
  <2>2. NextConnections(n) \in Nat /\ NextConnections(n) <= Connections(n) + 1
    BY <1>1, <2>1, SizesGrow DEF Shape
  <2>3. Connections(n) \in Nat
    BY <1>1, Sizes DEF Shape
  <2> HIDE DEF n
  <2>4. NextConnections(n) <= Max
    BY <1>3, <2>2, <2>3, PoolAssumption
  <2> QED BY <2>4 DEF n
<1> QED BY <1>2, <1>3

\* The maintenance counts down before it adds ...
LEMMA MaintainRefillsLeft ==
  ASSUME Shape, RefillsFit, NEW n \in Nodes, MaintainRefills(n)
  PROVE  /\ left[n] \in Nat /\ left'[n] \in Nat /\ left'[n] = left[n] - 1
         /\ Connections(n) + left[n] <= Min
<1>1. /\ left[n] \in Nat /\ left[n] > 0 /\ left'[n] = left[n] - 1 /\ Refilling(n)
  BY ThreadFacts DEF MaintainRefills, Refilling, Shape, Types
<1> QED BY <1>1 DEF RefillsFit

\* ... one connection.
LEMMA MaintainAddsSizes ==
  ASSUME Shape, RefillsFit, NEW n \in Nodes, MaintainAdds(n)
  PROVE  /\ left[n] \in Nat /\ left'[n] = left[n]
         /\ Connections(n) + left[n] < Min
         /\ ListsShrink(n) \/ NextConnections(n) <= Connections(n) + 1
<1>1. /\ left[n] \in Nat /\ left'[n] = left[n] /\ pc[n] = "add" /\ Refilling(n)
  BY ThreadFacts DEF MaintainAdds, Refilling, Shape, Types
<1>2. ASSUME UNCHANGED pools PROVE ListsShrink(n)
  BY <1>2 DEF pools, ListsShrink
<1>3. ASSUME NEW s \in Sockets, SetPool(n, idle[n] \cup {s}, busy[n])
      PROVE  NextConnections(n) <= Connections(n) + 1
  <2>1. idle'[n] = idle[n] \cup {s} /\ busy'[n] = busy[n]
    BY <1>3 DEF SetPool, Shape, Types
  <2> QED BY <2>1, SizesGrow DEF Shape
<1>4. Connections(n) + left[n] < Min
  BY <1>1 DEF RefillsFit
<1> QED BY <1>1, <1>2, <1>3, <1>4 DEF MaintainAdds

\* Init adds one connection at a time, with the lock of the node, or gives up.
LEMMA InitAddsSizes ==
  ASSUME Shape, NEW t \in Builders, InitAdds(t)
  PROVE  \/ ListsShrink(at[t]) /\ pc'[t] = "error"
         \/ /\ NodeLockFree(at[t]) /\ pc[t] = "fill" /\ pc'[t] = "fill"
            /\ left[t] \in Nat /\ left[t] > 0 /\ left'[t] = left[t] - 1
            /\ NextConnections(at[t]) <= Connections(at[t]) + 1
<1> DEFINE n == at[t]
<1>1. n \in Nodes /\ left[t] \in Nat /\ left[t] > 0 /\ t \in Threads /\ pc[t] = "fill"
  BY ThreadFacts DEF InitAdds, Shape, Types, Placed, Builders
<1>2. CASE ConnectFails(t, "revive") /\ UNCHANGED <<pools, open, left>>
  BY <1>1, <1>2 DEF pools, ListsShrink, ConnectFails, Goto, Shape, Types
<1>3. ASSUME NEW s \in Sockets, SetPool(n, idle[n] \cup {s}, busy[n])
      PROVE  NextConnections(n) <= Connections(n) + 1
  <2>1. idle'[n] = idle[n] \cup {s} /\ busy'[n] = busy[n]
    BY <1>1, <1>3 DEF SetPool, Shape, Types
  <2> QED BY <1>1, <2>1, SizesGrow DEF Shape
<1>4. CASE NodeLockFree(n) /\ (\E s \in Sockets : SetPool(n, idle[n] \cup {s}, busy[n]))
           /\ left' = [left EXCEPT ![t] = left[t] - 1] /\ UNCHANGED pc
  BY <1>1, <1>3, <1>4 DEF Shape, Types
<1> QED BY <1>2, <1>4 DEF InitAdds

\* A connection more than before, in a turn of the loop of Init.
Added(n) ==
  \E t \in Builders :
    /\ at[t] = n /\ NodeLockFree(n) /\ pc[t] = "fill" /\ pc'[t] = "fill"
    /\ left[t] \in Nat /\ left[t] > 0 /\ left'[t] = left[t] - 1
    /\ NextConnections(n) <= Connections(n) + 1

LEMMA ListBounds ==
  ASSUME Shape, Shape', CallsFit, RefillsFit, [Next]_vars, NEW n \in Nodes
  PROVE  \/ NextConnections(n) <= Connections(n)
         \/ NextConnections(n) <= Max
         \/ Room(n) /\ NextConnections(n) <= Connections(n) + 1
         \/ Added(n)
<1>0. Connections(n) \in Nat /\ NextConnections(n) \in Nat
  BY Sizes, SizesNext DEF Shape
<1>1. ListsShrink(n) => NextConnections(n) <= Connections(n)
  BY SizesShrink DEF Shape
<1>2. ASSUME NEW c \in Clients, at[c] = n, GetEnlists(c)
      PROVE  Room(n) /\ NextConnections(n) <= Connections(n) + 1
  BY <1>2, GetEnlistsSizes
<1>3. ASSUME NEW c \in Clients, at[c] = n, ReturnStores(c)
      PROVE  ListsShrink(n) \/ NextConnections(n) <= Max
  BY <1>3, ReturnStoresSizes
<1>4. CASE MaintainAdds(n) /\ ~ListsShrink(n)
  <2>1. /\ left[n] \in Nat /\ Connections(n) + left[n] < Min
        /\ NextConnections(n) <= Connections(n) + 1
    BY <1>4, MaintainAddsSizes
  <2> QED BY <1>0, <2>1, PoolAssumption
<1>5. ASSUME NEW t \in Builders, at[t] = n, InitAdds(t)
      PROVE  ListsShrink(n) \/ Added(n)
  BY <1>5, InitAddsSizes DEF Added
<1> QED BY <1>1, <1>2, <1>3, <1>4, <1>5, ListEffects DEF ListEffect

\* While a thread holds the lock of a node, the lists of the node only lose sockets, but for
\* what the thread itself adds.
LEMMA LockedLists ==
  ASSUME Shape, LocksExclude, [Next]_vars,
         NEW u \in Threads, HoldsNodeLock(u), NEW n \in Nodes, at[u] = n
  PROVE  \/ ListsShrink(n)
         \/ u \in Clients /\ (GetEnlists(u) \/ ReturnStores(u))
         \/ u = n /\ MaintainAdds(n)
<1>1. ~NodeLockFree(n)
  BY DEF NodeLockFree
<1>2. ASSUME NEW c \in Clients, at[c] = n, GetEnlists(c) \/ ReturnStores(c)
      PROVE  c = u
  <2>1. c \in Threads /\ HoldsNodeLock(c)
    BY <1>2, ThreadFacts DEF GetEnlists, ReturnStores, HoldsNodeLock
  <2> QED BY <1>2, <2>1 DEF LocksExclude
<1>3. MaintainAdds(n) => u = n
  <2>1. n \in Threads /\ at[n] = n
    BY ThreadFacts DEF Shape, Placed
  <2> QED BY <2>1 DEF LocksExclude, MaintainAdds, HoldsNodeLock
<1>4. ASSUME NEW t \in Builders, at[t] = n, InitAdds(t)
      PROVE  ListsShrink(n)
  BY <1>1, <1>4, InitAddsSizes
<1> QED BY <1>2, <1>3, <1>4, ListEffects DEF ListEffect

----------------------------------------------------------------------------
\* The bounds after a step.

LEMMA FillsStep ==
  ASSUME Shape, Shape', FreshIsUntouched, FillsFit, RefillsFit, CallsFit, [Next]_vars
  PROVE  FillsFit'
<1>1. ASSUME NEW n \in Nodes
      PROVE  Connections(n)' <= Max + Min
  <2>1. Connections(n) \in Nat /\ NextConnections(n) \in Nat /\ Connections(n) <= Max + Min
        /\ Connections(n)' = NextConnections(n)
    BY Sizes, SizesNext DEF Shape, FillsFit, PoolBound
  <2>2. Added(n) => NextConnections(n) <= Max + Min
    BY <2>1, PoolAssumption DEF Added, FillsFit
  <2>3. Room(n) /\ NextConnections(n) <= Connections(n) + 1 => NextConnections(n) <= Max + Min
    BY <2>1, PoolAssumption DEF Room
  <2> QED BY <2>1, <2>2, <2>3, ListBounds, PoolAssumption
<1>2. ASSUME NEW u \in Builders, pc'[u] = "fill"
      PROVE  Cardinality(idle'[at'[u]]) + Cardinality(busy'[at'[u]]) + left'[u] <= Max + Min
  <2>0. u \in Threads /\ u \notin Clients /\ u \notin Nodes /\ left[u] \in 0..Min
    BY ThreadFacts DEF Builders, Shape, Types
  <2>1. CASE Quiet(u)
    <3>1. /\ pc[u] = "fill" /\ at'[u] = at[u] /\ left'[u] = left[u] /\ at[u] \in Nodes
          /\ Connections(at[u]) + left[u] <= Max + Min
      BY <1>2, <2>0, <2>1 DEF Quiet, FillsFit, Shape, Placed
    <3>2. Connections(at[u]) \in Nat /\ NextConnections(at[u]) \in Nat
      BY <3>1, Sizes, SizesNext DEF Shape
    <3>3. ~Added(at[u])
      <4> SUFFICES ASSUME NEW t \in Builders, at[t] = at[u], pc[t] = "fill",
                          left[t] \in Nat, left'[t] = left[t] - 1
                   PROVE  FALSE
        BY DEF Added
      <4>1. t # u
        BY <3>1
      <4>2. pc[constructor] = "fill" /\ at[recoverer] = at[constructor]
        BY <3>1, <4>1 DEF Builders
      <4> QED BY <4>2 DEF FreshIsUntouched, Fresh
    <3>4. Room(at[u]) => Connections(at[u]) + left[u] < Max + Min
      BY <3>1 DEF Room
    <3>5. NextConnections(at[u]) + left[u] <= Max + Min
      BY <2>0, <3>1, <3>2, <3>3, <3>4, ListBounds, PoolAssumption
    <3> QED BY <3>1, <3>5 DEF NextConnections
  <2>2. CASE u = recoverer /\ RecoverClears
    <3>1. at[recoverer] \in Nodes
      BY <2>2, ThreadFacts DEF RecoverClears, Shape, Placed
    <3>2. idle'[at[u]] = {} /\ busy'[at[u]] = {} /\ at'[u] = at[u] /\ left'[u] = Min
      BY <2>0, <2>2, <3>1, SetPoolParts DEF RecoverClears, Shape, Types
    <3>3. idle'[at'[u]] = {} /\ busy'[at'[u]] = {}
      BY <3>2
    <3>4. Cardinality({}) = 0
      BY FS_EmptySet
    <3>5. Cardinality(idle'[at'[u]]) = 0 /\ Cardinality(busy'[at'[u]]) = 0
      BY <3>3, <3>4
    <3> QED BY <3>2, <3>5, PoolAssumption
  <2>3. CASE u = constructor /\ ConstructNode
    <3>1. at'[u] \in todo[constructor] /\ left'[u] = Min
      BY <2>0, <2>3 DEF ConstructNode, Shape, Types
    <3>2. idle'[at'[u]] = {} /\ busy'[at'[u]] = {}
      BY <3>1, FreshLists
    <3>3. Cardinality({}) = 0
      BY FS_EmptySet
    <3> QED BY <3>1, <3>2, <3>3, PoolAssumption
  <2>4. CASE InitAdds(u)
    <3>1. /\ pc[u] = "fill" /\ at'[u] = at[u] /\ at[u] \in Nodes
          /\ Connections(at[u]) + left[u] <= Max + Min
      BY <2>0, <2>4 DEF InitAdds, FillsFit, Shape, Placed
    <3>2. /\ left'[u] = left[u] - 1 /\ left[u] \in Nat
          /\ NextConnections(at[u]) <= Connections(at[u]) + 1
      BY <1>2, <2>4, InitAddsSizes
    <3>3. Connections(at[u]) \in Nat /\ NextConnections(at[u]) \in Nat
      BY <3>1, Sizes, SizesNext DEF Shape
    <3>4. NextConnections(at[u]) + left'[u] <= Max + Min
      BY <3>1, <3>2, <3>3, PoolAssumption
    <3> QED BY <3>1, <3>4 DEF NextConnections
  <2> QED BY <1>2, <2>0, <2>1, <2>2, <2>3, <2>4, ThreadEffects
             DEF ThreadEffect, Leaves, KeepsLock, Fills, Destroying
<1> QED BY <1>1, <1>2 DEF FillsFit, PoolBound, Connections

LEMMA RefillsStep ==
  ASSUME Shape, Shape', LocksExclude, RefillsFit, [Next]_vars
  PROVE  RefillsFit'
<1> SUFFICES ASSUME NEW n \in Nodes, Refilling(n)'
             PROVE  /\ Connections(n)' + left'[n] <= Min
                    /\ pc'[n] = "add" => Connections(n)' + left'[n] < Min
  BY DEF RefillsFit
<1>0. /\ n \in Threads /\ n \notin Clients /\ n \notin Builders /\ at[n] = n
      /\ left[n] \in 0..Min /\ left'[n] \in 0..Min
      /\ Connections(n) \in Nat /\ NextConnections(n) \in Nat
      /\ Connections(n)' = NextConnections(n)
  BY Sizes, SizesNext, ThreadFacts DEF Shape, Types, Placed, Builders
<1>1. ASSUME HoldsNodeLock(n), Refilling(n), ~MaintainAdds(n)
      PROVE  /\ NextConnections(n) <= Connections(n)
             /\ Connections(n) + left[n] <= Min
             /\ pc[n] = "add" => Connections(n) + left[n] < Min
  <2>1. ListsShrink(n)
    BY <1>0, <1>1, LockedLists
  <2>2. NextConnections(n) <= Connections(n)
    BY <2>1, SizesShrink DEF Shape
  <2> QED BY <1>1, <2>2 DEF RefillsFit
<1>2. CASE Quiet(n)
  <2>1. Refilling(n) /\ HoldsNodeLock(n) /\ left'[n] = left[n] /\ pc'[n] = pc[n]
    BY <1>2 DEF Quiet, Refilling, HoldsNodeLock
  <2>2. ~MaintainAdds(n)
    BY <1>0, <2>1 DEF MaintainAdds, ConnectFails, Goto, Shape, Types
  <2> QED BY <1>0, <1>1, <2>1, <2>2, PoolAssumption
<1>3. CASE Leaves(n)
  BY <1>3 DEF Leaves, Refilling, HoldsNodeLock
<1>4. CASE MaintainAdds(n)
  <2>1. pc'[n] \in {"refill", "error"}
    BY <1>0, <1>4 DEF MaintainAdds, ConnectFails, Goto, Shape, Types
  <2>2. /\ left'[n] = left[n] /\ Connections(n) + left[n] < Min
        /\ ListsShrink(n) \/ NextConnections(n) <= Connections(n) + 1
    BY <1>4, MaintainAddsSizes
  <2>3. ListsShrink(n) => NextConnections(n) <= Connections(n)
    BY SizesShrink DEF Shape
  <2> QED BY <1>0, <2>1, <2>2, <2>3, PoolAssumption
<1>5. CASE KeepsLock(n) /\ ~MaintainAdds(n)
  <2>1. Refilling(n) /\ HoldsNodeLock(n) /\ left'[n] = left[n] /\ pc'[n] # "add"
    BY <1>5 DEF KeepsLock, Destroying
  <2> QED BY <1>0, <1>1, <1>5, <2>1, PoolAssumption
<1>6. CASE MaintainTrims(n)
  <2>1. PICK I \in SUBSET (idle[n] \cap released), B \in SUBSET busy[n] :
          LET rest == Connections(n) - Cardinality(I) - Cardinality(B)
          IN /\ SetPool(n, idle[n] \ I, busy[n] \ B)
             /\ left' = [left EXCEPT ![n] = IF rest < Min THEN Min - rest ELSE 0]
             /\ Goto(n, IF rest < Min THEN "refill" ELSE "ready")
    BY <1>6 DEF MaintainTrims
  <2> DEFINE rest == Connections(n) - Cardinality(I) - Cardinality(B)
  <2>2. idle[n] \in SUBSET Sockets /\ busy[n] \in SUBSET Sockets /\ I \in SUBSET idle[n]
    BY DEF Shape, Types
  <2>3. idle'[n] = idle[n] \ I /\ busy'[n] = busy[n] \ B
    BY <2>1 DEF SetPool, Shape, Types
  <2>4. NextConnections(n) = rest
    <3>1. /\ Cardinality(idle[n] \ I) = Cardinality(idle[n]) - Cardinality(I)
          /\ Cardinality(busy[n] \ B) = Cardinality(busy[n]) - Cardinality(B)
      <4>1. idle[n] \cap I = I /\ busy[n] \cap B = B
        BY <2>2
      <4>2. IsFiniteSet(idle[n]) /\ IsFiniteSet(busy[n])
        BY Sizes DEF Shape
      <4>3. Cardinality(idle[n] \ I) = Cardinality(idle[n]) - Cardinality(idle[n] \cap I)
        BY <4>2, FS_Difference
      <4>4. Cardinality(busy[n] \ B) = Cardinality(busy[n]) - Cardinality(busy[n] \cap B)
        BY <4>2, FS_Difference
      <4> QED BY <4>1, <4>3, <4>4
    <3>2. /\ Cardinality(idle[n]) \in Nat /\ Cardinality(busy[n]) \in Nat
          /\ Cardinality(I) \in Nat /\ Cardinality(B) \in Nat
      BY <2>2, SocketSubsets
    <3> QED BY <2>3, <3>1, <3>2 DEF NextConnections, Connections
  <2>5. /\ left'[n] = IF rest < Min THEN Min - rest ELSE 0
        /\ pc'[n] = IF rest < Min THEN "refill" ELSE "ready"
    BY <1>0, <2>1 DEF Goto, Shape, Types
  <2>6. rest < Min /\ pc'[n] = "refill"
    BY <2>5 DEF Refilling, Destroying
  <2> HIDE DEF rest
  <2> QED BY <1>0, <2>4, <2>5, <2>6, PoolAssumption
<1>7. CASE MaintainRefills(n)
  <2>1. /\ left[n] \in Nat /\ left'[n] = left[n] - 1 /\ Connections(n) + left[n] <= Min
    BY <1>7, MaintainRefillsLeft
  <2>2. ListsShrink(n)
    BY <1>7 DEF MaintainRefills, pools, ListsShrink
  <2>3. NextConnections(n) <= Connections(n)
    BY <2>2, SizesShrink DEF Shape
  <2> QED BY <1>0, <2>1, <2>3, PoolAssumption
<1> QED BY <1>0, <1>2, <1>3, <1>4, <1>5, <1>6, <1>7, ThreadEffects
           DEF ThreadEffect, Maintains, Fills, Builders

\* While a caller holds the lock of a node, Init does not begin to fill it, nor go on.
LEMMA BuildersWait ==
  ASSUME Shape, FreshIsUntouched, [Next]_vars,
         NEW c \in Clients, HoldsNodeLock(c), at[c] \in Nodes,
         NEW t \in Builders, pc'[t] = "fill", at'[t] = at[c]
  PROVE  pc[t] = "fill" /\ at[t] = at[c] /\ left'[t] = left[t]
<1>0. c \in Threads /\ t \in Threads /\ t \notin Clients /\ t \notin Nodes /\ pc[c] # "ready"
  BY ThreadFacts DEF Builders, HoldsNodeLock, Destroying
<1>1. ~NodeLockFree(at[c])
  BY <1>0 DEF NodeLockFree
<1>2. CASE t = recoverer /\ RecoverClears
  BY <1>1, <1>2 DEF RecoverClears
<1>3. CASE t = constructor /\ ConstructNode
  <2>1. pc[constructor] = "check"
    BY <1>3 DEF ConstructNode
  <2> QED BY <1>0, <2>1 DEF FreshIsUntouched
<1>4. CASE InitAdds(t)
  <2>1. at[t] = at[c]
    BY <1>4 DEF InitAdds
  <2> QED BY <1>1, <1>4, <2>1, InitAddsSizes
<1> QED BY <1>0, <1>2, <1>3, <1>4, ThreadEffects
           DEF ThreadEffect, Quiet, Leaves, KeepsLock, Fills, Destroying

\* Where there is a place below Max, there is one for good while the caller has the lock.
LEMMA RoomBelowMax ==
  ASSUME Shape, Shape', NEW n \in Nodes, NextConnections(n) < Max
  PROVE  Room(n)'
<1>1. NextConnections(n) \in Nat /\ Connections(n)' = NextConnections(n)
  BY SizesNext DEF Shape
<1>2. \A t \in Builders : left'[t] \in 0..Min
  BY ThreadFacts DEF Builders, Shape, Types
<1>3. \A t \in Builders : NextConnections(n) + left'[t] < Max + Min
  BY <1>1, <1>2, PoolAssumption
<1>4. NextConnections(n) < Max + Min
  BY <1>1, PoolAssumption
<1> QED BY <1>1, <1>3, <1>4 DEF Room

\* A list that loses a socket gives a place ...
LEMMA RoomMade ==
  ASSUME Shape, Shape', FreshIsUntouched, FillsFit, [Next]_vars,
         NEW c \in Clients, HoldsNodeLock(c), NEW n \in Nodes, at[c] = n,
         NextConnections(n) < Connections(n)
  PROVE  Room(n)'
<1>1. /\ NextConnections(n) \in Nat /\ Connections(n)' = NextConnections(n)
      /\ Connections(n) \in Nat /\ Connections(n) <= Max + Min
  BY Sizes, SizesNext DEF Shape, FillsFit, PoolBound
<1>2. ASSUME NEW t \in Builders, pc'[t] = "fill", at'[t] = n
      PROVE  NextConnections(n) + left'[t] < Max + Min
  <2>1. pc[t] = "fill" /\ at[t] = n /\ left'[t] = left[t]
    BY <1>2, BuildersWait
  <2>2. Connections(n) + left[t] <= Max + Min /\ left[t] \in 0..Min
    BY <2>1, ThreadFacts DEF FillsFit, Builders, Shape, Types
  <2> QED BY <1>1, <2>1, <2>2, PoolAssumption
<1>3. NextConnections(n) < Max + Min
  BY <1>1, PoolAssumption
<1> QED BY <1>1, <1>2, <1>3 DEF Room

\* ... and keeps one.
LEMMA RoomStays ==
  ASSUME Shape, Shape', FreshIsUntouched, [Next]_vars,
         NEW c \in Clients, HoldsNodeLock(c), NEW n \in Nodes, at[c] = n,
         Room(n), ListsShrink(n)
  PROVE  Room(n)'
<1>1. /\ NextConnections(n) \in Nat /\ Connections(n)' = NextConnections(n)
      /\ Connections(n) \in Nat /\ NextConnections(n) <= Connections(n)
  BY Sizes, SizesNext, SizesShrink DEF Shape
<1>2. ASSUME NEW t \in Builders, pc'[t] = "fill", at'[t] = n
      PROVE  NextConnections(n) + left'[t] < Max + Min
  <2>1. pc[t] = "fill" /\ at[t] = n /\ left'[t] = left[t]
    BY <1>2, BuildersWait
  <2>2. Connections(n) + left[t] < Max + Min /\ left[t] \in 0..Min
    BY <2>1, ThreadFacts DEF Room, Builders, Shape, Types
  <2> QED BY <1>1, <2>1, <2>2, PoolAssumption
<1>3. NextConnections(n) < Max + Min
  BY <1>1, PoolAssumption DEF Room
<1> QED BY <1>1, <1>2, <1>3 DEF Room

\* Of the socket a caller has chosen, the list or the place remains.
LEMMA ChosenKeepsRoom ==
  ASSUME Shape, Shape', FreshIsUntouched, FillsFit, CallsFit, [Next]_vars,
         NEW c \in Clients, pc[c] = "move", NEW n \in Nodes, at[c] = n, ListsShrink(n)
  PROVE  held[c] \in idle'[n] \/ Room(n)'
<1>1. HoldsNodeLock(c) /\ (held[c] \in idle[n] \/ Room(n))
  BY DEF HoldsNodeLock, CallsFit
<1>2. CASE Room(n)
  BY <1>1, <1>2, RoomStays
<1>3. CASE held[c] \in idle[n] /\ held[c] \notin idle'[n]
  <2>1. /\ IsFiniteSet(idle[n]) /\ IsFiniteSet(busy[n])
        /\ Cardinality(idle[n]) \in Nat /\ Cardinality(busy[n]) \in Nat
        /\ Cardinality(idle'[n]) \in Nat /\ Cardinality(busy'[n]) \in Nat
    BY <1>1, Sizes, SizesNext DEF Shape
  <2>2. Cardinality(idle'[n]) < Cardinality(idle[n])
    <3>1. idle'[n] \in SUBSET (idle[n] \ {held[c]}) /\ IsFiniteSet(idle[n] \ {held[c]})
      BY <1>3, <2>1, FS_Difference DEF ListsShrink
    <3>2. /\ Cardinality(idle[n] \ {held[c]}) = Cardinality(idle[n]) - 1
          /\ Cardinality(idle'[n]) <= Cardinality(idle[n] \ {held[c]})
      BY <1>3, <2>1, <3>1, FS_RemoveElement, FS_Subset
    <3> QED BY <2>1, <3>2
  <2>3. Cardinality(busy'[n]) <= Cardinality(busy[n])
    BY <2>1, FS_Subset DEF ListsShrink
  <2>4. NextConnections(n) < Connections(n)
    BY <2>1, <2>2, <2>3 DEF NextConnections, Connections
  <2> QED BY <1>1, <2>4, RoomMade
<1> QED BY <1>1, <1>2, <1>3

LEMMA CallsStep ==
  ASSUME Shape, Shape', LocksExclude, FreshIsUntouched, FillsFit, CallsFit, [Next]_vars
  PROVE  CallsFit'
<1> SUFFICES ASSUME NEW c \in Clients, NEW n \in Nodes, at'[c] = n
             PROVE  /\ pc'[c] = "move" => held'[c] \in idle'[n] \/ Room(n)'
                    /\ pc'[c] = "connect" => NextConnections(n) < Max
                    /\ pc'[c] = "enlist" => Room(n)'
  <2>1. \A c \in Clients : pc'[c] \in {"move", "connect", "enlist"} => at'[c] \in Nodes
    BY ThreadFacts DEF Shape, Placed
  <2> QED BY <2>1 DEF CallsFit, Connections, NextConnections, Room
<1>0. c \in Threads /\ c \notin Nodes /\ c \notin Builders
  BY ThreadFacts DEF Builders
<1>1. CASE Quiet(c) /\ pc[c] \in {"move", "connect", "enlist"}
  <2>1. at[c] = n /\ HoldsNodeLock(c) /\ pc'[c] = pc[c] /\ held'[c] = held[c]
    BY <1>0, <1>1 DEF Quiet, HoldsNodeLock
  <2>2. ~(GetEnlists(c) \/ ReturnStores(c))
    BY <1>0, <1>1, <2>1 DEF GetEnlists, ReturnStores, Goto, Shape, Types
  <2>3. ListsShrink(n)
    BY <1>0, <2>1, <2>2, LockedLists
  <2>4. CASE pc[c] = "move"
    BY <2>1, <2>3, <2>4, ChosenKeepsRoom
  <2>5. CASE pc[c] = "connect"
    <3>1. /\ Connections(n) \in Nat /\ NextConnections(n) \in Nat
          /\ NextConnections(n) <= Connections(n)
      BY <2>3, Sizes, SizesNext, SizesShrink DEF Shape
    <3>2. Connections(n) < Max
      BY <2>1, <2>5 DEF CallsFit
    <3>3. NextConnections(n) < Max
      BY <3>1, <3>2, PoolAssumption
    <3> QED BY <2>1, <2>5, <3>3
  <2>6. CASE pc[c] = "enlist"
    <3>1. Room(n)
      BY <2>1, <2>6 DEF CallsFit
    <3> QED BY <2>1, <2>3, <2>6, <3>1, RoomStays
  <2> QED BY <1>1, <2>4, <2>5, <2>6
<1>2. CASE Quiet(c) /\ pc[c] \notin {"move", "connect", "enlist"}
  BY <1>2 DEF Quiet
<1>3. CASE Leaves(c) \/ KeepsLock(c)
  BY <1>3 DEF Leaves, KeepsLock, HoldsNodeLock, Destroying
<1>4. CASE ReturnClientSocket(c)
  BY <1>0, <1>4 DEF ReturnClientSocket, Goto, Shape, Types
<1>5. CASE GetChooses(c)
  <2>1. UNCHANGED <<idle, busy>> /\ held \in [Clients -> Sockets \cup {None}] /\ at[c] = n
    BY <1>0, <1>5 DEF GetChooses, pools, Shape, Types
  <2>2. CASE idle[n] = {}
    <3>1. pc'[c] = IF Cardinality(busy[n]) < Max THEN "connect" ELSE "ready"
      BY <1>0, <1>5, <2>1, <2>2 DEF GetChooses, Goto, Shape, Types
    <3>2. NextConnections(n) = Cardinality(busy[n])
      <4>1. Cardinality(idle'[n]) = 0 /\ Cardinality(busy[n]) \in Nat
        BY <2>1, <2>2, FS_EmptySet, Sizes DEF Shape
      <4> QED BY <2>1, <4>1 DEF NextConnections
    <3> QED BY <3>1, <3>2
  <2>3. CASE idle[n] # {}
    <3>1. pc'[c] = "move" /\ held'[c] \in idle[n]
      BY <1>0, <1>5, <2>1, <2>3 DEF GetChooses, Goto, Shape, Types
    <3> QED BY <2>1, <3>1
  <2> QED BY <2>2, <2>3
<1>6. CASE GetMoves(c)
  <2>1. pc[c] = "move" /\ pc'[c] = "enlist" /\ at[c] = n
    BY <1>0, <1>6 DEF GetMoves, Goto, local, Shape, Types
  <2>2. idle'[n] = idle[n] \ {held[c]} /\ busy'[n] = busy[n]
    BY <1>6, <2>1 DEF GetMoves, SetPool, Shape, Types
  <2>3. Room(n)'
    BY <2>1, <2>2, ChosenKeepsRoom DEF ListsShrink
  <2> QED BY <2>1, <2>3
<1>7. CASE GetConnects(c)
  <2>1. pc[c] = "connect" /\ pc'[c] \in {"enlist", "error"} /\ UNCHANGED <<idle, busy>> /\ at[c] = n
    BY <1>0, <1>7 DEF GetConnects, ConnectFails, Goto, pools, Shape, Types
  <2>2. NextConnections(n) < Max
    BY <2>1 DEF CallsFit, NextConnections, Connections
  <2> QED BY <2>1, <2>2, RoomBelowMax
<1> QED BY <1>0, <1>1, <1>2, <1>3, <1>4, <1>5, <1>6, <1>7, ThreadEffects
           DEF ThreadEffect, Gets, Fills, Builders

----------------------------------------------------------------------------
\* The theorems.

LEMMA InitBounded == Init => Bounded
<1> SUFFICES ASSUME Init PROVE Bounded
  OBVIOUS
<1>1. /\ \A t \in Threads : pc[t] \in {"unborn", "check", "ready"}
      /\ \A c \in Clients : pc[c] = "ready"
      /\ \A n \in Nodes : pc[n] = "unborn" /\ idle[n] = {} /\ busy[n] = {}
      /\ pc[constructor] = "check" /\ pc[recoverer] = "ready"
      /\ at[constructor] = None /\ at[recoverer] = None
      /\ todo[constructor] = Nodes /\ todo[recoverer] = {} /\ deadNodes = {}
  BY ThreadFacts DEF Init
<1>2. LocksExclude
  BY <1>1 DEF LocksExclude, HoldsNodeLock, Destroying
<1>3. FreshIsUntouched
  BY <1>1, ThreadFacts DEF FreshIsUntouched, Fresh
<1>4. FillsFit
  <2>1. Cardinality({}) = 0
    BY FS_EmptySet
  <2>2. \A n \in Nodes : Cardinality(idle[n]) = 0 /\ Cardinality(busy[n]) = 0
    BY <1>1, <2>1
  <2>3. \A t \in Builders : pc[t] # "fill"
    BY <1>1, ThreadFacts DEF Builders
  <2> QED BY <2>2, <2>3, PoolAssumption DEF FillsFit, PoolBound, Connections
<1>5. RefillsFit
  BY <1>1, ThreadFacts DEF RefillsFit, Refilling, Destroying
<1>6. CallsFit
  BY <1>1 DEF CallsFit
<1> QED BY <1>2, <1>3, <1>4, <1>5, <1>6 DEF Bounded

\* The inductive invariant of the bound holds in every reachable state of the pool.
THEOREM BoundedHolds == Spec => []Bounded
<1>1. Shape /\ Bounded /\ [Next]_vars => Bounded'
  <2> SUFFICES ASSUME Shape, Bounded, [Next]_vars PROVE Bounded'
    OBVIOUS
  <2>1. Shape'
    BY ShapeStep
  <2> QED BY <2>1, LocksStep, FreshStep, FillsStep, RefillsStep, CallsStep DEF Bounded
<1>2. IInv => Shape
  BY DEF IInv
<1> QED BY <1>1, <1>2, InitBounded, InvariantHolds, PTL DEF Spec

\* However calls, the maintenance and the recovery of a node interleave, and wherever the
\* lists are emptied meanwhile, no node has more than MaxConnections sockets and those
\* Init may have added to them.
THEOREM ConnectionsAreBounded == Spec => []PoolBound
<1>1. Bounded => PoolBound
  BY DEF Bounded, FillsFit
<1> QED BY <1>1, BoundedHolds, PTL

----------------------------------------------------------------------------
\* Who waits for whom.

\* The upgradeable lock of the node t works on, which u has ...
WaitsForNode(t, u) ==
  /\ \/ pc[t] \in {"choose", "close", "return", "trim", "init"}
     \/ pc[t] = "fill" /\ left[t] > 0
  /\ HoldsNodeLock(u) /\ at[u] = at[t]

\* The cluster's lock is wanted by one who changes its lists, ...
WantsToWrite(t) == pc[t] = "error" \/ (t = constructor /\ pc[t] = "join")

\* ... for which every writer waits for the one that has the lock, and for the recoverer at
\* work, and a reader for writers, also for those that still wait themselves.
WaitsForCluster(t, u) ==
  \/ /\ t \in Clients \cup {recoverer} /\ pc[t] = "ready"
     /\ pc[u] \in Destroying \/ WantsToWrite(u)
  \/ /\ WantsToWrite(t)
     /\ \/ pc[u] \in Destroying
        \/ u = recoverer /\ t # recoverer /\ pc[u] # "ready"

WaitsFor(t, u) == WaitsForNode(t, u) \/ WaitsForCluster(t, u)

Waits(t) == \E u \in Threads : WaitsFor(t, u)

\* The recoverer has the cluster's lock and wants that of a node, a thread whose connection
\* failed has the node's and wants the cluster's.
RecoveryDeadlock ==
  \E u \in Threads : WaitsForNode(recoverer, u) /\ WaitsForCluster(u, recoverer)

\* At the end of each chain of threads that wait is one that goes on, or the deadlock.
OnlyRecoveryDeadlocks ==
  RecoveryDeadlock \/
  \A t, u \in Threads : WaitsFor(t, u) =>
    \/ ~Waits(u)
    \/ \E v \in Threads : /\ WaitsFor(u, v)
                          /\ ~Waits(v) \/ \E w \in Threads : WaitsFor(v, w) /\ ~Waits(w)

\* One writer of the cluster's lists at a time, and none but the recoverer while it works.
RecovererSteps ==
  {"ready", "check", "init", "fill", "revive", "join", "error"} \cup Destroying

ClusterExcludes ==
  /\ DestoryAlone
  /\ \A t \in Threads : pc[t] \in Destroying => t = recoverer \/ pc[recoverer] = "ready"
  /\ pc[recoverer] \in RecovererSteps
  /\ pc[recoverer] \in {"error"} \cup Destroying => after[recoverer] = "revive"

\* Whoever writes the cluster's lists after a step did so before, or begins it now.
LEMMA WritersFollow ==
  ASSUME Shape, [Next]_vars, NEW t \in Threads, pc'[t] \in Destroying
  PROVE  pc[t] \in Destroying \/ NodeErrorLists(t)
<1>1. CASE UNCHANGED vars
  BY <1>1 DEF vars
<1>2. ASSUME NEW u \in Threads, NodeErrorCall(u)
      PROVE  pc[t] \in Destroying \/ NodeErrorLists(t)
  <2>1. CASE NodeErrorLists(u)
    <3>1. u # t => pc'[t] = pc[t]
      BY <2>1 DEF NodeErrorLists, Goto, Shape, Types
    <3> QED BY <2>1, <3>1
  <2>2. CASE ~NodeErrorLists(u)
    <3>1. pc[u] \in Destroying /\ (u # t => pc'[t] = pc[t])
      BY <1>2, <2>2, DestoryGoto
    <3> QED BY <3>1
  <2> QED BY <2>1, <2>2
<1>3. CASE (\E c \in Clients : Call(c)) \/ (\E n \in Nodes : Maintain(n)) \/ Recover \/ Construct
  <2>1. pc'[t] = pc[t]
    BY <1>3, OthersGoto
  <2> QED BY <2>1
<1> QED BY <1>1, <1>2, <1>3 DEF Next

\* Where a thread calls NodeError.
LEMMA CallersOfNodeError ==
  ASSUME Shape, NEW u \in Threads, NodeErrorCall(u)
  PROVE  /\ (pc[u] = "error" /\ NodeErrorLists(u)) \/ pc[u] \in Destroying
         /\ UNCHANGED at
BY DestoryGoto DEF NodeErrorLists, local

\* NodeError goes through Destory and ends where it was to; it moves no other thread.
LEMMA CallOfNodeError ==
  ASSUME Shape, NEW u \in Threads, NodeErrorCall(u)
  PROVE  /\ \A t \in Threads : t # u => Quiet(t)
         /\ \/ pc'[u] = after[u]
            \/ pc'[u] \in Destroying /\ after'[u] = after[u]
<1>1. \A l : Goto(u, l) => pc'[u] = l /\ \A t \in Threads : t # u => pc'[t] = pc[t]
  BY DEF Goto, Shape, Types
<1>2. \A t \in Threads : t # u => pc'[t] = pc[t]
  BY <1>1 DEF NodeErrorCall, NodeErrorLists, DestoryDestroys, DestoryPasses, DestoryEntersBusy,
     DestoryThrows, DestoryClearsIdle, DestoryClearsBusy
<1>3. UNCHANGED <<at, held, left>>
  BY DEF NodeErrorCall, NodeErrorLists, DestoryDestroys, DestoryPasses, DestoryEntersBusy,
     DestoryThrows, DestoryClearsIdle, DestoryClearsBusy, local
<1>4. \A t \in Threads : t # u => after'[t] = after[t]
  BY DEF NodeErrorCall, NodeErrorLists, DestoryDestroys, DestoryPasses, DestoryEntersBusy,
     DestoryThrows, DestoryClearsIdle, DestoryClearsBusy, local, Shape, Types
<1>5. \A t \in Threads : t # u => Quiet(t)
  BY <1>2, <1>3, <1>4 DEF Quiet
<1>6. CASE DestoryThrows(u) \/ DestoryClearsBusy(u)
  BY <1>1, <1>5, <1>6 DEF DestoryThrows, DestoryClearsBusy
<1>7. CASE \/ NodeErrorLists(u) \/ DestoryDestroys(u) \/ DestoryPasses(u) \/ DestoryEntersBusy(u)
           \/ DestoryClearsIdle(u)
  <2>1. after' = after
    BY <1>7 DEF NodeErrorLists, DestoryDestroys, DestoryPasses, DestoryEntersBusy,
       DestoryClearsIdle, local
  <2>2. pc'[u] \in Destroying
    <3>1. CASE NodeErrorLists(u) \/ DestoryEntersBusy(u) \/ DestoryClearsIdle(u)
      BY <1>1, <3>1 DEF NodeErrorLists, DestoryEntersBusy, DestoryClearsIdle, Destroying
    <3>2. CASE DestoryDestroys(u)
      BY <3>2 DEF DestoryDestroys, Loops, Destroying
    <3>3. CASE DestoryPasses(u)
      BY <1>1, <3>3 DEF DestoryPasses, Destroying
    <3> QED BY <1>7, <3>1, <3>2, <3>3
  <2> QED BY <1>5, <2>1, <2>2
<1> QED BY <1>6, <1>7 DEF NodeErrorCall

\* Where the recoverer gets to; it starts when nobody writes the lists.
LEMMA RecovererFollows ==
  ASSUME Shape, ClusterExcludes, [Next]_vars
  PROVE  /\ pc'[recoverer] \in RecovererSteps
         /\ pc'[recoverer] \in {"error"} \cup Destroying => after'[recoverer] = "revive"
         /\ pc'[recoverer] # "ready" => pc[recoverer] # "ready" \/ NoClusterWriter
<1> DEFINE Follows == /\ pc'[recoverer] \in RecovererSteps
                      /\ pc'[recoverer] \in {"error"} \cup Destroying
                           => after'[recoverer] = "revive"
                      /\ pc'[recoverer] # "ready" => pc[recoverer] # "ready" \/ NoClusterWriter
           Rests == pc'[recoverer] = pc[recoverer] /\ after'[recoverer] = after[recoverer]
<1>0. Rests => Follows
  BY DEF ClusterExcludes
<1>1. CASE UNCHANGED vars
  BY <1>0, <1>1 DEF vars, local
<1>2. ASSUME NEW u \in Threads, NodeErrorCall(u)
      PROVE  Follows
  <2>1. CASE u = recoverer
    <3>1. pc[recoverer] \in {"error"} \cup Destroying /\ after[recoverer] = "revive"
      <4>1. pc[recoverer] \in {"error"} \cup Destroying
        BY <1>2, <2>1, CallersOfNodeError
      <4> QED BY <4>1 DEF ClusterExcludes
    <3>2. \/ pc'[recoverer] = "revive"
          \/ pc'[recoverer] \in Destroying /\ after'[recoverer] = "revive"
      BY <1>2, <2>1, <3>1, CallOfNodeError, ThreadFacts
    <3>3. pc[recoverer] # "ready"
      BY <3>1 DEF Destroying
    <3> QED BY <3>2, <3>3 DEF RecovererSteps, Destroying
  <2>2. CASE u # recoverer
    BY <1>0, <1>2, <2>2, CallOfNodeError, ThreadFacts DEF Quiet
  <2> QED BY <2>1, <2>2
<1>3. ASSUME NEW c \in Clients, Call(c)
      PROVE  Rests
  BY <1>3, CallLocal, ThreadFacts DEF Quiet
<1>4. ASSUME NEW n \in Nodes, Maintain(n)
      PROVE  Rests
  BY <1>4, MaintainLocal, ThreadFacts DEF Quiet
<1>5. ASSUME NEW b \in Builders, InitAdds(b) \/ InitEnds(b) \/ Revive(b)
      PROVE  Follows
  <2>1. CASE b = recoverer
    <3>1. at[recoverer] # recoverer
      BY ThreadFacts, <1>5, <2>1 DEF InitAdds, InitEnds, Revive, Shape, Placed
    <3> QED
      <4>1. /\ pc[recoverer] \in {"fill", "revive"}
            /\ \/ pc'[recoverer] \in {"fill", "revive", "join"}
               \/ pc'[recoverer] = "error" /\ after'[recoverer] = "revive"
        BY <1>5, <2>1, <3>1, ThreadFacts DEF InitAdds, InitEnds, Revive, ConnectFails, Goto, Shape,
           Types
      <4> QED BY <4>1 DEF RecovererSteps, Destroying
  <2>2. CASE b = constructor
    <3>1. at[constructor] # recoverer
      BY ThreadFacts, <1>5, <2>2 DEF InitAdds, InitEnds, Revive, Shape, Placed
    <3> QED
      BY <1>0, <1>5, <2>2, <3>1, ThreadFacts DEF InitAdds, InitEnds, Revive, ConnectFails, Goto,
         local, Shape, Types
  <2> QED BY <2>1, <2>2 DEF Builders
<1>6. CASE RecoverBegins \/ RecoverChecks \/ RecoverClears \/ RecoverJoins \/ RecoverEnds
  <2>1. pc'[recoverer] \in {"check", "init", "fill", "ready"}
    BY <1>6, ThreadFacts DEF RecoverBegins, RecoverChecks, RecoverClears, RecoverJoins, RecoverEnds,
       Goto, Shape, Types
  <2>2. pc[recoverer] # "ready" \/ NoClusterWriter
    BY <1>6 DEF RecoverBegins, RecoverChecks, RecoverClears, RecoverJoins, RecoverEnds
  <2> QED BY <2>1, <2>2 DEF RecovererSteps, Destroying
<1>7. CASE ConstructNode \/ ConstructAdds \/ ConstructEnds
  <2>1. Rests
    BY <1>7, ThreadFacts DEF ConstructNode, ConstructAdds, ConstructEnds, Goto, local, Shape, Types
  <2> QED BY <1>0, <2>1
<1> QED
  BY <1>0, <1>1, <1>2, <1>3, <1>4, <1>5, <1>6, <1>7 DEF Next, Recover, Construct, Builders

LEMMA ClusterExcludesStep ==
  ASSUME Shape, ClusterExcludes, [Next]_vars
  PROVE  ClusterExcludes'
<1>1. DestoryAlone'
  BY AloneStep DEF ClusterExcludes
<1>2. ASSUME NEW t \in Threads, pc'[t] \in Destroying
      PROVE  t = recoverer \/ pc'[recoverer] = "ready"
  <2>1. CASE NodeErrorLists(t)
    BY <2>1, ThreadFacts DEF NodeErrorLists, ClusterWriteFree, Goto, Shape, Types
  <2>2. CASE pc[t] \in Destroying
    BY <2>2, RecovererFollows DEF NoClusterWriter, ClusterExcludes
  <2> QED BY <1>2, <2>1, <2>2, WritersFollow
<1> QED BY <1>1, <1>2, RecovererFollows DEF ClusterExcludes

\* One thread at most has the lock of a node, also where a failed connection is reported under
\* it; one at most writes the cluster's lists, and no other than the recoverer while it works.
THEOREM LocksAreExclusive == Spec => [](LocksExclude /\ ClusterExcludes)
<1>1. Init => ClusterExcludes
  BY ThreadFacts DEF Init, ClusterExcludes, DestoryAlone, RecovererSteps, Destroying
<1>2. IInv => Shape
  BY DEF IInv
<1>3. Bounded => LocksExclude
  BY DEF Bounded
<1> QED
  BY <1>1, <1>2, <1>3, ClusterExcludesStep, InvariantHolds, BoundedHolds, PTL DEF Spec

\* A writer does not wait.
LEMMA WritersGoOn ==
  ASSUME NEW t \in Threads, pc[t] \in Destroying
  PROVE  ~Waits(t)
BY DEF Waits, WaitsFor, WaitsForNode, WaitsForCluster, WantsToWrite, Destroying

\* The recoverer at work waits for a node at most, whose holder goes on.
LEMMA RecovererWaits ==
  ASSUME ClusterExcludes, ~RecoveryDeadlock, pc[recoverer] # "ready",
         NEW w \in Threads, WaitsFor(recoverer, w)
  PROVE  ~Waits(w)
<1>1. WaitsForNode(recoverer, w)
  <2>1. pc[w] \in Destroying => w = recoverer
    BY DEF ClusterExcludes
  <2>2. ~WaitsForCluster(recoverer, w)
    BY <2>1, ThreadFacts DEF WaitsForCluster, WantsToWrite, Destroying
  <2> QED BY <2>2 DEF WaitsFor
<1>2. HoldsNodeLock(w) /\ w # recoverer
  BY <1>1 DEF WaitsForNode, HoldsNodeLock, ClusterExcludes, RecovererSteps, Destroying
<1>3. ~WaitsForCluster(w, recoverer)
  BY <1>1 DEF RecoveryDeadlock
<1>4. pc[w] # "error"
  BY <1>2, <1>3 DEF WaitsForCluster, WantsToWrite
<1>5. pc[w] \in {"move", "connect", "enlist", "store", "refill", "add"} \cup Destroying
  BY <1>2, <1>4 DEF HoldsNodeLock
<1> QED BY <1>5 DEF Waits, WaitsFor, WaitsForNode, WaitsForCluster, WantsToWrite, Destroying

\* Threads of the pool wait for each other in a circle in one way only: the recoverer has the
\* cluster's lock and initialises a node, while a thread that failed to connect has the
\* node's lock and reports it.  All other chains of waiting threads end with one that goes on.
THEOREM OnlyRecoveryCanDeadlock == Spec => []OnlyRecoveryDeadlocks
<1>1. ClusterExcludes => OnlyRecoveryDeadlocks
  <2> SUFFICES ASSUME ClusterExcludes, ~RecoveryDeadlock, NEW t \in Threads, NEW u \in Threads,
                      WaitsFor(t, u), Waits(u)
               PROVE  \E v \in Threads :
                        /\ WaitsFor(u, v)
                        /\ ~Waits(v) \/ \E w \in Threads : WaitsFor(v, w) /\ ~Waits(w)
    BY DEF OnlyRecoveryDeadlocks
  <2>1. PICK v \in Threads : WaitsFor(u, v)
    BY DEF Waits
  <2>2. CASE u = recoverer /\ pc[u] # "ready"
    BY <2>1, <2>2, RecovererWaits
  <2>3. CASE WantsToWrite(u)
    <3>1. WaitsForCluster(u, v)
      BY <2>1, <2>3 DEF WantsToWrite, WaitsFor, WaitsForNode
    <3>2. pc[v] \in Destroying \/ (v = recoverer /\ pc[v] # "ready")
      BY <2>3, <3>1 DEF WantsToWrite, WaitsForCluster
    <3>3. CASE pc[v] \in Destroying
      BY <2>1, <3>3, WritersGoOn
    <3>4. CASE v = recoverer /\ pc[v] # "ready"
      BY <2>1, <3>4, RecovererWaits DEF Waits
    <3> QED BY <3>2, <3>3, <3>4
  <2>4. CASE pc[u] \in Destroying
    BY <2>4, WritersGoOn
  <2>5. CASE HoldsNodeLock(u) /\ pc[u] \in {"move", "connect", "enlist", "store", "refill", "add"}
    <3>1. ~Waits(u)
      BY <2>5 DEF Waits, WaitsFor, WaitsForNode, WaitsForCluster, WantsToWrite
    <3> QED BY <3>1
  <2>6. CASE WaitsForNode(t, u)
    BY <2>3, <2>4, <2>5, <2>6 DEF WaitsForNode, HoldsNodeLock, WantsToWrite
  <2>7. CASE WaitsForCluster(t, u)
    BY <2>2, <2>3, <2>4, <2>7 DEF WaitsForCluster
  <2> QED BY <2>6, <2>7 DEF WaitsFor
<1> QED BY <1>1, LocksAreExclusive, PTL

----------------------------------------------------------------------------
\* The deadlock of the recovery is for good.

\* The maintenance thread of a node starts when the constructor is through with the node.
Unborn ==
  pc[constructor] \in {"fill", "revive", "error"} \cup Destroying
    => pc[at[constructor]] = "unborn"

\* What another thread's step does to a thread that is not at work.
LEMMA OthersStay ==
  ASSUME Shape, [Next]_vars, NEW u \in Threads
  PROVE  \/ Quiet(u)
         \/ NodeErrorCall(u)
         \/ u \in Clients /\ Call(u)
         \/ u \in Nodes /\ Maintain(u)
         \/ u = recoverer /\ Recover
         \/ u = constructor /\ Construct
         \/ u \in Nodes /\ at[constructor] = u /\ Revive(constructor)
<1>1. CASE UNCHANGED vars
  BY <1>1 DEF vars, local, Quiet
<1>2. ASSUME NEW t \in Threads, t # u, NodeErrorCall(t)
      PROVE  Quiet(u)
  BY <1>2, CallOfNodeError
<1>3. ASSUME NEW c \in Clients, c # u, Call(c)
      PROVE  Quiet(u)
  BY <1>3, CallLocal
<1>4. ASSUME NEW n \in Nodes, n # u, Maintain(n)
      PROVE  Quiet(u)
  BY <1>4, MaintainLocal
<1>5. ASSUME u # recoverer, InitAdds(recoverer) \/ InitEnds(recoverer) \/ Revive(recoverer)
      PROVE  Quiet(u)
  BY <1>5, ThreadFacts DEF InitAdds, InitEnds, Revive, ConnectFails, Goto, local, Quiet, Shape,
     Types, Placed
<1>6. ASSUME u # recoverer,
             RecoverBegins \/ RecoverChecks \/ RecoverClears \/ RecoverJoins \/ RecoverEnds
      PROVE  Quiet(u)
  BY <1>6, ThreadFacts DEF RecoverBegins, RecoverChecks, RecoverClears, RecoverJoins, RecoverEnds,
     Goto, local, Quiet, Shape, Types
<1>7. ASSUME u # constructor, InitAdds(constructor) \/ InitEnds(constructor)
      PROVE  Quiet(u)
  BY <1>7, ThreadFacts DEF InitAdds, InitEnds, ConnectFails, Goto, local, Quiet, Shape, Types
<1>8. ASSUME u # constructor, Revive(constructor)
      PROVE  Quiet(u) \/ (u \in Nodes /\ at[constructor] = u)
  BY <1>8, ThreadFacts DEF Revive, local, Quiet, Shape, Types, Placed
<1>9. ASSUME u # constructor, ConstructNode \/ ConstructAdds \/ ConstructEnds
      PROVE  Quiet(u)
  BY <1>9, ThreadFacts DEF ConstructNode, ConstructAdds, ConstructEnds, Goto, local, Quiet, Shape,
     Types
<1>10. CASE Recover
  BY <1>5, <1>6, <1>10 DEF Recover
<1>11. CASE Construct
  BY <1>7, <1>8, <1>9, <1>11 DEF Construct
<1> QED BY <1>1, <1>2, <1>3, <1>4, <1>10, <1>11 DEF Next

LEMMA UnbornStays ==
  ASSUME Shape, [Next]_vars, NEW n \in Nodes, pc[n] = "unborn"
  PROVE  pc'[n] = "unborn" \/ (at[constructor] = n /\ Revive(constructor))
<1>1. n \in Threads /\ n \notin Clients /\ n # recoverer /\ n # constructor
  BY ThreadFacts
<1>2. ~NodeErrorCall(n) /\ ~Maintain(n)
  <2>1. ~NodeErrorCall(n)
    BY <1>1, CallersOfNodeError DEF Destroying
  <2> QED BY <2>1 DEF Maintain, MaintainChecksAlive, MaintainTrims, MaintainRefills, MaintainAdds,
       MaintainEnds
<1> QED BY <1>1, <1>2, OthersStay DEF Quiet

LEMMA UnbornStep ==
  ASSUME Shape, FreshIsUntouched, Unborn, [Next]_vars
  PROVE  Unborn'
<1> DEFINE Early == {"fill", "revive", "error"} \cup Destroying
<1> SUFFICES ASSUME pc'[constructor] \in Early PROVE pc'[at'[constructor]] = "unborn"
  BY DEF Unborn
<1>1. CASE ConstructNode
  <2>1. PICK n \in todo[constructor] : at' = [at EXCEPT ![constructor] = n]
    BY <1>1 DEF ConstructNode
  <2>2. n \in Nodes /\ pc[n] = "unborn" /\ at'[constructor] = n
    BY <2>1, ThreadFacts DEF FreshIsUntouched, Fresh, Shape, Types
  <2>3. pc'[n] = pc[n]
    BY <1>1, <2>2, ThreadFacts DEF ConstructNode, Goto, Shape, Types
  <2> QED BY <2>2, <2>3
<1>2. CASE ~ConstructNode
  <2>1. pc[constructor] \in Early /\ at'[constructor] = at[constructor] /\ ~Revive(constructor)
    <3>1. CASE Quiet(constructor)
      <4>1. ~Revive(constructor)
        BY <3>1, ThreadFacts DEF Quiet, Revive, Shape, Types, Placed
      <4> QED BY <3>1, <4>1 DEF Quiet
    <3>2. CASE NodeErrorCall(constructor)
      BY <3>2, CallersOfNodeError, ThreadFacts DEF Revive, Destroying
    <3>3. CASE Construct
      <4>1. InitAdds(constructor) \/ InitEnds(constructor)
        <5>1. ASSUME Revive(constructor) PROVE FALSE
          BY <5>1, ThreadFacts DEF Revive, Destroying, Shape, Types, Placed
        <5>2. ASSUME ConstructAdds \/ ConstructEnds PROVE FALSE
          BY <5>2, ThreadFacts DEF ConstructAdds, ConstructEnds, Goto, Destroying, Shape, Types
        <5> QED BY <1>2, <3>3, <5>1, <5>2 DEF Construct
      <4> QED BY <4>1 DEF InitAdds, InitEnds, Revive, local
    <3> QED BY <3>1, <3>2, <3>3, OthersStay, ThreadFacts
  <2>2. at[constructor] \in Nodes /\ pc[at[constructor]] = "unborn"
    BY <2>1, ThreadFacts DEF Unborn, Destroying, Shape, Placed
  <2> QED BY <2>1, <2>2, UnbornStays
<1> QED BY <1>1, <1>2

\* The two threads stay where they are, and the lists of nodes as they are.  Of the places of
\* the recoverer it is "init" where nothing but the lock can happen to it; in "fill", its next
\* connection may still fail before it asks for the lock.
LastsForGood ==
  RecoveryDeadlock /\ pc[recoverer] = "init" =>
    RecoveryDeadlock' /\ pc'[recoverer] = "init" /\ UNCHANGED <<deadNodes, clientNodes>>

LEMMA DeadlockStep ==
  ASSUME Shape, ClusterExcludes, Unborn, [Next]_vars
  PROVE  LastsForGood
<1> SUFFICES ASSUME RecoveryDeadlock, pc[recoverer] = "init"
             PROVE  RecoveryDeadlock' /\ pc'[recoverer] = "init" /\ UNCHANGED <<deadNodes, clientNodes>>
  BY DEF LastsForGood
<1>1. PICK u \in Threads : WaitsForNode(recoverer, u) /\ WaitsForCluster(u, recoverer)
  BY DEF RecoveryDeadlock
<1>2. /\ HoldsNodeLock(u) /\ at[u] = at[recoverer]
      /\ pc[u] = "error" /\ u # recoverer
  BY <1>1 DEF WaitsForNode, WaitsForCluster, WantsToWrite, HoldsNodeLock, Destroying
<1>3. Quiet(recoverer)
  <2>1. ~RecoverClears
    BY <1>2 DEF RecoverClears, NodeLockFree
  <2>2. ~NodeErrorCall(recoverer) /\ ~Recover
    <3>1. ~NodeErrorCall(recoverer)
      BY CallersOfNodeError, ThreadFacts DEF Destroying
    <3> QED BY <2>1, <3>1 DEF Recover, RecoverBegins, RecoverChecks, InitAdds, InitEnds, Revive,
         RecoverJoins, RecoverEnds
  <2> QED BY <2>2, OthersStay, ThreadFacts
<1>4. Quiet(u)
  <2>1. ~NodeErrorCall(u)
    BY <1>2, CallersOfNodeError DEF NodeErrorLists, ClusterWriteFree, Destroying
  <2>2. ~(u \in Clients /\ Call(u)) /\ ~(u \in Nodes /\ Maintain(u))
    BY <1>2 DEF Call, AcquireNode, AcquireSocket, GetChecksAlive, GetChooses, GetMoves,
       GetConnects, GetEnlists, Write, Read, ReadStopsSpinning, CloseClientSocket,
       ReturnClientSocket, ReturnStores, Maintain, MaintainChecksAlive, MaintainTrims,
       MaintainRefills, MaintainAdds, MaintainEnds
  <2>3. ~(u = constructor /\ Construct)
    BY <1>2 DEF Construct, ConstructNode, InitAdds, InitEnds, Revive, ConstructAdds, ConstructEnds
  <2>4. ~(u \in Nodes /\ at[constructor] = u /\ Revive(constructor))
    BY <1>2 DEF Unborn, Revive
  <2> QED BY <1>2, <2>1, <2>2, <2>3, <2>4, OthersStay
<1>5. RecoveryDeadlock' /\ pc'[recoverer] = "init"
  BY <1>2, <1>3, <1>4 DEF Quiet, RecoveryDeadlock, WaitsForNode, WaitsForCluster, WantsToWrite,
     HoldsNodeLock
<1>6. UNCHANGED <<deadNodes, clientNodes>>
  <2>1. CASE UNCHANGED vars
    BY <2>1 DEF vars, lists
  <2>2. ASSUME NEW t \in Threads, NodeErrorCall(t)
        PROVE  UNCHANGED <<deadNodes, clientNodes>>
    <3>1. ~NodeErrorLists(t)
      BY DEF NodeErrorLists, ClusterWriteFree
    <3> QED BY <2>2, <3>1 DEF NodeErrorCall, DestoryDestroys, DestoryPasses, DestoryEntersBusy,
         DestoryThrows, DestoryClearsIdle, DestoryClearsBusy, lists
  <2>3. ASSUME NEW c \in Clients, Call(c)
        PROVE  UNCHANGED <<deadNodes, clientNodes>>
    BY <2>3 DEF Call, AcquireNode, AcquireSocket, GetChecksAlive, GetChooses, GetMoves,
       GetConnects, GetEnlists, Write, Read, ReadStopsSpinning, CloseClientSocket,
       ReturnClientSocket, ReturnStores, lists
  <2>4. ASSUME NEW n \in Nodes, Maintain(n)
        PROVE  UNCHANGED <<deadNodes, clientNodes>>
    BY <2>4 DEF Maintain, MaintainChecksAlive, MaintainTrims, MaintainRefills, MaintainAdds,
       MaintainEnds, lists
  <2>5. CASE Recover
    BY <2>5 DEF Recover, RecoverBegins, RecoverChecks, RecoverClears, InitAdds, InitEnds, Revive,
       RecoverJoins, RecoverEnds, lists
  <2>6. CASE Construct
    <3>1. ~ConstructAdds
      BY ThreadFacts DEF ConstructAdds, ClusterWriteFree
    <3> QED BY <2>6, <3>1 DEF Construct, ConstructNode, InitAdds, InitEnds, Revive, ConstructEnds,
       lists
  <2> QED BY <2>1, <2>2, <2>3, <2>4, <2>5, <2>6 DEF Next
<1> QED BY <1>5, <1>6

\* Once the recoverer waits for a node's lock at the start of Init and its holder for the
\* cluster's lock, they do so for good: no dead node is taken back and no failure is reported
\* any more.
THEOREM RecoveryDeadlockIsForGood == Spec => [][LastsForGood]_vars
<1>1. Init => Unborn
  BY ThreadFacts DEF Init, Unborn, Destroying
<1>2. IInv => Shape
  BY DEF IInv
<1>3. Bounded => FreshIsUntouched
  BY DEF Bounded
<1>4. Spec => []Unborn
  BY <1>1, <1>2, <1>3, UnbornStep, InvariantHolds, BoundedHolds, PTL DEF Spec
<1>5. Shape /\ ClusterExcludes /\ Unborn /\ [Next]_vars => LastsForGood
  BY DeadlockStep
<1> QED BY <1>2, <1>4, <1>5, InvariantHolds, LocksAreExclusive, PTL DEF Spec
=============================================================================
