----------------------------- MODULE ClientPool -----------------------------
(***************************************************************************)
(* The connection pools of the memcached client: ClientCluster, its        *)
(* ClientNodes and their ClientSockets, as used by the calls of            *)
(* MemcachedClient.  Four kinds of threads meet here: the callers, one     *)
(* maintenance thread per node, the thread that recovers dead nodes, and   *)
(* the one that constructs the cluster while the recoverer already runs.   *)
(*                                                                         *)
(* Steps are split at every lock, every connection attempt, every I/O,     *)
(* every unlocked read of IsAlive, and wherever Destory, which takes no    *)
(* lock of the node, could find a connection between two lists.  A single  *)
(* operation of a List is one step, and so is what the maintenance removes *)
(* in one round.  The locks are those of two ReaderWriterLockSlim: a       *)
(* thread's pc tells whether it holds the node's upgradeable or write lock *)
(* or the cluster's.                                                       *)
(*                                                                         *)
(* A definition whose name no action uses, right above one the actions do  *)
(* use, is a plausible bug in its place: a property below notices it.      *)
(***************************************************************************)
EXTENDS Naturals, FiniteSets

CONSTANTS
  Nodes,       \* the nodes; n also names the maintenance thread of node n
  Sockets,     \* connections; one that nobody refers to may be reused for a new one
  Clients,     \* the threads that call the client
  recoverer,   \* TryRecoverNodeThread
  constructor, \* the thread that runs the constructor of ClientCluster
  None,        \* no node, no socket
  Min, Max,    \* MinConnections, MaxConnections
  ConnectMayFail \* whether a connection attempt can fail

Threads == Clients \cup Nodes \cup {recoverer, constructor}

ASSUME PoolAssumption ==
  /\ Min \in Nat /\ Max \in Nat /\ Min <= Max
  /\ ConnectMayFail \in BOOLEAN
  /\ IsFiniteSet(Sockets)
  /\ None \notin Nodes \cup Sockets
  /\ Clients \cap Nodes = {}
  /\ recoverer \notin Clients \cup Nodes
  /\ constructor \notin Clients \cup Nodes \cup {recoverer}

VARIABLES
  alive,       \* IsAlive of each node
  idle, busy,  \* idleSockets and busySockets of each node
  open,        \* sockets that are connected and not destroyed
  released,    \* idle sockets whose IdleTime is set: those a call has returned
  clientNodes, deadNodes,
  locator,     \* the nodes the locator was last initialised with
  disturbed,   \* lists that others changed since Destory began to enumerate them
  pc,
  after,       \* where a thread goes on when its call of NodeError is over
  at,          \* the node a thread works on
  held,        \* the socket a client works with
  todo,        \* nodes the recoverer or the constructor has still to look at
  left         \* sockets a loop has still to create

pools == <<idle, busy, disturbed>>
sockets == <<open, released>>
lists == <<clientNodes, deadNodes, locator>>
local == <<after, at, held, todo, left>>
vars == <<alive, pools, sockets, lists, pc, local>>

\* Init clears a pool that is still empty, so the constructor starts at its loop.
Init ==
  /\ alive = [n \in Nodes |-> FALSE]
  /\ idle = [n \in Nodes |-> {}] /\ busy = [n \in Nodes |-> {}]
  /\ disturbed = {}
  /\ open = {} /\ released = {}
  /\ clientNodes = {} /\ deadNodes = {} /\ locator = {}
  /\ pc = [t \in Threads |-> IF t \in Nodes THEN "unborn"
                             ELSE IF t = constructor THEN "check" ELSE "ready"]
  /\ after = [t \in Threads |-> "ready"]
  /\ at = [t \in Threads |-> IF t \in Nodes THEN t ELSE None]
  /\ held = [c \in Clients |-> None]
  /\ todo = [t \in {recoverer, constructor} |-> IF t = constructor THEN Nodes ELSE {}]
  /\ left = [t \in Threads |-> 0]

----------------------------------------------------------------------------
\* Locks, pools and sockets.

Goto(t, l) == pc' = [pc EXCEPT ![t] = l]

\* A thread in Destory: in its loop over a list, between the loops, before a Clear.
Destroying == {"destroyIdle", "enterBusy", "destroyBusy", "clearIdle", "clearBusy"}

\* NodeError after a connection attempt under the node's upgradeable lock keeps that lock.
HoldsNodeLock(t) ==
  \/ pc[t] \in {"move", "connect", "enlist", "store", "refill", "add"}
  \/ pc[t] \in {"error"} \cup Destroying /\ after[t] \in {"ready", "refill"}

NodeLockFree(n) == \A t \in Threads : at[t] = n => ~HoldsNodeLock(t)

NoClusterWriter == \A t \in Threads : pc[t] \notin Destroying

ClusterWriteAlways(t) == NoClusterWriter

\* The recoverer keeps the upgradeable lock while it works and upgrades it itself.
ClusterWriteFree(t) ==
  NoClusterWriter /\ (t = recoverer \/ pc[recoverer] = "ready")

\* Destory has begun to enumerate the list of n and has not cleared it yet.
WatchesIdle(n) ==
  \E t \in Threads : at[t] = n /\ pc[t] \in {"destroyIdle", "enterBusy", "destroyBusy", "clearIdle"}

WatchesBusy(n) ==
  \E t \in Threads : at[t] = n /\ pc[t] \in {"destroyBusy", "clearIdle", "clearBusy"}

\* The lists of n become i and b.
SetPool(n, i, b) ==
  /\ idle' = [idle EXCEPT ![n] = i]
  /\ busy' = [busy EXCEPT ![n] = b]
  /\ disturbed' = disturbed \cup (IF i # idle[n] /\ WatchesIdle(n) THEN {"idle"} ELSE {})
                            \cup (IF b # busy[n] /\ WatchesBusy(n) THEN {"busy"} ELSE {})

Connections(n) == Cardinality(idle[n]) + Cardinality(busy[n])

\* No list and no thread refers to s.
Unreferenced(s) ==
  /\ \A n \in Nodes : s \notin idle[n] \cup busy[n]
  /\ \A c \in Clients : held[c] # s

\* CreateClientSocket: a new connection ...
Connects(s) == Unreferenced(s) /\ open' = open \cup {s}

\* ... or none: the node counts as dead, and the thread calls NodeError.
ConnectFails(t, next) ==
  /\ ConnectMayFail
  /\ alive' = [alive EXCEPT ![at[t]] = FALSE]
  /\ Goto(t, "error")
  /\ after' = [after EXCEPT ![t] = next]

----------------------------------------------------------------------------
\* NodeError: the cluster's lists under its write lock, then Destory, which goes through the
\* lists of the node without the node's lock.

NodeErrorLists(t) ==
  /\ pc[t] = "error"
  /\ ClusterWriteFree(t)
  /\ deadNodes' = deadNodes \cup {at[t]}
  /\ clientNodes' = clientNodes \ {at[t]}
  /\ Goto(t, "destroyIdle")
  /\ UNCHANGED <<alive, pools, sockets, locator, local>>

Loops(t, l) == pc[t] = IF l = "idle" THEN "destroyIdle" ELSE "destroyBusy"

Members(n, l) == IF l = "idle" THEN idle[n] ELSE busy[n]

\* The loop destroys the next socket ...
DestoryDestroys(t) ==
  /\ \E l \in {"idle", "busy"} :
       /\ Loops(t, l)
       /\ l \notin disturbed
       /\ \E s \in Members(at[t], l) \cap open : open' = open \ {s}
  /\ UNCHANGED <<alive, pools, released, lists, pc, local>>

\* ... until it has destroyed all of a list that nobody has changed meanwhile.
DestoryPasses(t) ==
  /\ \E l \in {"idle", "busy"} :
       /\ Loops(t, l)
       /\ l \notin disturbed
       /\ Members(at[t], l) \cap open = {}
       /\ Goto(t, IF l = "idle" THEN "enterBusy" ELSE "clearIdle")
  /\ UNCHANGED <<alive, pools, sockets, lists, local>>

DestoryEntersBusy(t) ==
  /\ pc[t] = "enterBusy"
  /\ Goto(t, "destroyBusy")
  /\ UNCHANGED <<alive, pools, sockets, lists, local>>

\* A loop over a changed list throws, after the socket it has reached, wherever that is by
\* now.  Nothing is cleared, the locator stays, and NodeError's catch swallows the exception.
DestoryThrows(t) ==
  /\ \E l \in disturbed : Loops(t, l)
  /\ \/ UNCHANGED open
     \/ \E s \in idle[at[t]] \cup busy[at[t]] : open' = open \ {s}
  /\ disturbed' = {}
  /\ Goto(t, after[t])
  /\ after' = [after EXCEPT ![t] = "ready"]
  /\ UNCHANGED <<alive, idle, busy, released, lists, at, held, todo, left>>

DestoryClearsIdle(t) ==
  /\ pc[t] = "clearIdle"
  /\ idle' = [idle EXCEPT ![at[t]] = {}]
  /\ released' = released \ idle[at[t]]
  /\ disturbed' = disturbed \ {"idle"}
  /\ Goto(t, "clearBusy")
  /\ UNCHANGED <<alive, busy, open, lists, local>>

\* The last Clear and InitNodeLocator.
DestoryClearsBusy(t) ==
  /\ pc[t] = "clearBusy"
  /\ busy' = [busy EXCEPT ![at[t]] = {}]
  /\ disturbed' = {}
  /\ locator' = clientNodes
  /\ Goto(t, after[t])
  /\ after' = [after EXCEPT ![t] = "ready"]
  /\ UNCHANGED <<alive, idle, sockets, clientNodes, deadNodes, at, held, todo, left>>

NodeErrorCall(t) ==
  \/ NodeErrorLists(t) \/ DestoryDestroys(t) \/ DestoryPasses(t) \/ DestoryEntersBusy(t)
  \/ DestoryThrows(t) \/ DestoryClearsIdle(t) \/ DestoryClearsBusy(t)

----------------------------------------------------------------------------
\* A call of MemcachedClient.

\* AcquireNode or AcquireNodes; a call that finds no node is over at once.  A reader may wait
\* behind a waiting writer, too: its step then comes later.
AcquireNode(c) ==
  /\ pc[c] = "ready"
  /\ pc[constructor] = "done"
  /\ NoClusterWriter
  /\ \E n \in locator \cup clientNodes :
       /\ at' = [at EXCEPT ![c] = n]
       /\ \/ n \in locator /\ Goto(c, "located")
          \/ n \in clientNodes /\ Goto(c, "get")
  /\ UNCHANGED <<alive, pools, sockets, lists, after, held, todo, left>>

\* AcquireSocket reports a node that is not alive, and asks it for a socket all the same.
AcquireSocket(c) ==
  /\ pc[c] = "located"
  /\ \/ alive[at[c]] /\ Goto(c, "get") /\ UNCHANGED after
     \/ ~alive[at[c]] /\ Goto(c, "error") /\ after' = [after EXCEPT ![c] = "get"]
  /\ UNCHANGED <<alive, pools, sockets, lists, at, held, todo, left>>

\* GetClientSocket up to its lock.
GetChecksAlive(c) ==
  /\ pc[c] = "get"
  /\ Goto(c, IF alive[at[c]] THEN "choose" ELSE "ready")
  /\ UNCHANGED <<alive, pools, sockets, lists, local>>

\* Under the upgradeable lock: an idle socket, a new one, or none.  Acquire resets an idle
\* socket; where that fails, or the socket is destroyed, it is closed and used all the same.
GetChooses(c) ==
  LET n == at[c]
  IN /\ pc[c] = "choose"
     /\ NodeLockFree(n)
     /\ \/ \E s \in idle[n] :
             /\ Goto(c, "move")
             /\ held' = [held EXCEPT ![c] = s]
             /\ open' \in {open, open \ {s}}
             /\ released' = released \ {s}
        \/ /\ idle[n] = {}
           /\ Goto(c, IF Cardinality(busy[n]) < Max THEN "connect" ELSE "ready")
           /\ UNCHANGED <<held, sockets>>
     /\ UNCHANGED <<alive, pools, lists, after, at, todo, left>>

GetForgetsIdle(c) ==
  /\ pc[c] = "move"
  /\ Goto(c, "enlist")
  /\ UNCHANGED <<alive, pools, sockets, lists, local>>

GetMoves(c) ==
  /\ pc[c] = "move"
  /\ SetPool(at[c], idle[at[c]] \ {held[c]}, busy[at[c]])
  /\ Goto(c, "enlist")
  /\ UNCHANGED <<alive, sockets, lists, local>>

\* A new socket is acquired like an idle one.
GetConnects(c) ==
  /\ pc[c] = "connect"
  /\ \/ \E s \in Sockets :
          /\ Unreferenced(s)
          /\ open' \in {open \cup {s}, open \ {s}}
          /\ held' = [held EXCEPT ![c] = s]
          /\ Goto(c, "enlist")
          /\ UNCHANGED <<alive, after>>
     \/ ConnectFails(c, "ready") /\ UNCHANGED <<open, held>>
  /\ UNCHANGED <<pools, released, lists, at, todo, left>>

GetEnlists(c) ==
  /\ pc[c] = "enlist"
  /\ SetPool(at[c], idle[at[c]], busy[at[c]] \cup {held[c]})
  /\ Goto(c, "write")
  /\ UNCHANGED <<alive, sockets, lists, local>>

WriteForgetsSocket(c) ==
  /\ pc[c] = "write"
  /\ \/ /\ held[c] \in open
        /\ Goto(c, "read") \/ Goto(c, "return")
        /\ UNCHANGED <<alive, open, after>>
     \/ /\ alive' = [alive EXCEPT ![at[c]] = FALSE]
        /\ open' = open \ {held[c]}
        /\ Goto(c, "error")
        /\ UNCHANGED after
  /\ UNCHANGED <<pools, released, lists, at, held, todo, left>>

\* A request is sent; quiet requests expect no answer.  A failed write kills the node.
Write(c) ==
  /\ pc[c] = "write"
  /\ \/ /\ held[c] \in open
        /\ Goto(c, "read") \/ Goto(c, "return")
        /\ UNCHANGED <<alive, open, after>>
     \/ /\ alive' = [alive EXCEPT ![at[c]] = FALSE]
        /\ open' = open \ {held[c]}
        /\ Goto(c, "error")
        /\ \E next \in {"read", "return"} : after' = [after EXCEPT ![c] = next]
  /\ UNCHANGED <<pools, released, lists, at, held, todo, left>>

\* A failed read closes the socket only.  A read that meets the end of the stream, the peer
\* having closed the connection, gets no byte and tries again and again ...
Read(c) ==
  /\ pc[c] = "read"
  /\ \/ held[c] \in open /\ Goto(c, "return") /\ UNCHANGED open
     \/ held[c] \in open /\ Goto(c, "spin") /\ UNCHANGED open
     \/ open' = open \ {held[c]} /\ Goto(c, "close")
  /\ UNCHANGED <<alive, pools, released, lists, local>>

\* ... until another thread destroys the socket.
ReadStopsSpinning(c) ==
  /\ pc[c] = "spin"
  /\ held[c] \notin open
  /\ Goto(c, "close")
  /\ UNCHANGED <<alive, pools, sockets, lists, local>>

CloseClientSocket(c) ==
  LET n == at[c]
  IN /\ pc[c] = "close"
     /\ NodeLockFree(n)
     /\ SetPool(n, idle[n], busy[n] \ {held[c]})
     /\ Goto(c, "return")
     /\ UNCHANGED <<alive, sockets, lists, local>>

\* ReturnClientSocket: out of the busy sockets, under the write lock ...
ReturnClientSocket(c) ==
  /\ pc[c] = "return"
  /\ NodeLockFree(at[c])
  /\ SetPool(at[c], idle[at[c]], busy[at[c]] \ {held[c]})
  /\ Goto(c, "store")
  /\ UNCHANGED <<alive, sockets, lists, local>>

StoreWithoutDestroy(c) ==
  LET n == at[c]
      fits == Connections(n) < Max
  IN /\ pc[c] = "store"
     /\ SetPool(n, IF fits THEN idle[n] \cup {held[c]} ELSE idle[n], busy[n])
     /\ released' = IF fits THEN released \cup {held[c]} ELSE released
     /\ Goto(c, "ready")
     /\ held' = [held EXCEPT ![c] = None]
     /\ UNCHANGED <<alive, open, lists, after, at, todo, left>>

StoreUnbounded(c) ==
  LET n == at[c]
  IN /\ pc[c] = "store"
     /\ SetPool(n, idle[n] \cup {held[c]}, busy[n])
     /\ released' = released \cup {held[c]}
     /\ Goto(c, "ready")
     /\ held' = [held EXCEPT ![c] = None]
     /\ UNCHANGED <<alive, open, lists, after, at, todo, left>>

\* ... and back to the idle ones, destroyed or not, unless the pool is full.
ReturnStores(c) ==
  LET n == at[c]
      fits == Connections(n) < Max
  IN /\ pc[c] = "store"
     /\ SetPool(n, IF fits THEN idle[n] \cup {held[c]} ELSE idle[n], busy[n])
     /\ open' = IF fits THEN open ELSE open \ {held[c]}
     /\ released' = IF fits THEN released \cup {held[c]} ELSE released
     /\ Goto(c, "ready")
     /\ held' = [held EXCEPT ![c] = None]
     /\ UNCHANGED <<alive, lists, after, at, todo, left>>

Call(c) ==
  \/ AcquireNode(c) \/ AcquireSocket(c) \/ GetChecksAlive(c) \/ GetChooses(c)
  \/ GetMoves(c) \/ GetConnects(c) \/ GetEnlists(c) \/ Write(c) \/ Read(c)
  \/ ReadStopsSpinning(c) \/ CloseClientSocket(c) \/ ReturnClientSocket(c) \/ ReturnStores(c)

----------------------------------------------------------------------------
\* The maintenance thread of node n.

MaintainChecksAlive(n) ==
  /\ pc[n] = "ready"
  /\ alive[n]
  /\ Goto(n, "trim")
  /\ UNCHANGED <<alive, pools, sockets, lists, local>>

MaintainTrimsIdleOnly(n) ==
  /\ pc[n] = "trim"
  /\ NodeLockFree(n)
  /\ \E I \in SUBSET (idle[n] \cap released) :
       /\ I # {} => Connections(n) - Cardinality(I) >= Min
       /\ open' = open \ I
       /\ released' = released \ I
       /\ SetPool(n, idle[n] \ I, busy[n])
  /\ Goto(n, "ready")
  /\ UNCHANGED <<alive, lists, after, at, held, todo, left>>

\* Under the upgradeable lock: sockets idle for too long, down to Min, and sockets busy for
\* too long are destroyed; which ones have timed out is up to the clock.
MaintainTrims(n) ==
  /\ pc[n] = "trim"
  /\ NodeLockFree(n)
  /\ \E I \in SUBSET (idle[n] \cap released), B \in SUBSET busy[n] :
       LET kept == Connections(n) - Cardinality(I)
           rest == kept - Cardinality(B)
       IN /\ I # {} => kept >= Min
          /\ open' = open \ (I \cup B)
          /\ released' = released \ I
          /\ SetPool(n, idle[n] \ I, busy[n] \ B)
          /\ left' = [left EXCEPT ![n] = IF rest < Min THEN Min - rest ELSE 0]
          /\ Goto(n, IF rest < Min THEN "refill" ELSE "ready")
  /\ UNCHANGED <<alive, lists, after, at, held, todo>>

\* One turn of the loop that adds sockets up to Min, as long as the node is alive ...
MaintainRefills(n) ==
  /\ pc[n] = "refill"
  /\ left[n] > 0
  /\ left' = [left EXCEPT ![n] = left[n] - 1]
  /\ IF alive[n] THEN Goto(n, "add") ELSE UNCHANGED pc
  /\ UNCHANGED <<alive, pools, sockets, lists, after, at, held, todo>>

\* ... by what it read without a lock.
MaintainAdds(n) ==
  /\ pc[n] = "add"
  /\ \/ /\ \E s \in Sockets : Connects(s) /\ SetPool(n, idle[n] \cup {s}, busy[n])
        /\ Goto(n, "refill")
        /\ UNCHANGED <<alive, after>>
     \/ ConnectFails(n, "refill") /\ UNCHANGED <<pools, open>>
  /\ UNCHANGED <<released, lists, at, held, todo, left>>

MaintainEnds(n) ==
  /\ pc[n] = "refill"
  /\ left[n] = 0
  /\ Goto(n, "ready")
  /\ UNCHANGED <<alive, pools, sockets, lists, local>>

Maintain(n) ==
  \/ MaintainChecksAlive(n) \/ MaintainTrims(n) \/ MaintainRefills(n) \/ MaintainAdds(n)
  \/ MaintainEnds(n)

----------------------------------------------------------------------------
\* The loop of ClientNode.Init, run by the recoverer and by the constructor.

InitAdds(t) ==
  LET n == at[t]
  IN /\ pc[t] = "fill"
     /\ left[t] > 0
     /\ \/ /\ NodeLockFree(n)
           /\ \E s \in Sockets : Connects(s) /\ SetPool(n, idle[n] \cup {s}, busy[n])
           /\ left' = [left EXCEPT ![t] = left[t] - 1]
           /\ UNCHANGED <<alive, pc, after>>
        \/ ConnectFails(t, "revive") /\ UNCHANGED <<pools, open, left>>
     /\ UNCHANGED <<released, lists, at, held, todo>>

InitEnds(t) ==
  /\ pc[t] = "fill"
  /\ left[t] = 0
  /\ Goto(t, "revive")
  /\ UNCHANGED <<alive, pools, sockets, lists, local>>

\* IsAlive = true at the end of Recover, and of the constructor of ClientNode, which has
\* started the maintenance thread: whether Init could connect makes no difference.
Revive(t) ==
  /\ pc[t] = "revive"
  /\ alive' = [alive EXCEPT ![at[t]] = TRUE]
  /\ pc' = [pc EXCEPT ![t] = "join",
                      ![at[t]] = IF t = constructor THEN "ready" ELSE pc[at[t]]]
  /\ UNCHANGED <<pools, sockets, lists, local>>

----------------------------------------------------------------------------
\* TryRecoverNodeThreadAction.

RecoverBegins ==
  /\ pc[recoverer] = "ready"
  /\ NoClusterWriter
  /\ deadNodes # {}
  /\ todo' = [todo EXCEPT ![recoverer] = deadNodes]
  /\ Goto(recoverer, "check")
  /\ UNCHANGED <<alive, pools, sockets, lists, after, at, held, left>>

\* A direct socket to the node tells whether its server answers.
RecoverChecks ==
  /\ pc[recoverer] = "check"
  /\ \E n \in todo[recoverer] :
       /\ todo' = [todo EXCEPT ![recoverer] = todo[recoverer] \ {n}]
       /\ \/ Goto(recoverer, "init") /\ at' = [at EXCEPT ![recoverer] = n]
          \/ ConnectMayFail /\ UNCHANGED <<pc, at>>
  /\ UNCHANGED <<alive, pools, sockets, lists, after, held, left>>

\* Init forgets the sockets of both lists; it does not destroy them.
RecoverClears ==
  /\ pc[recoverer] = "init"
  /\ NodeLockFree(at[recoverer])
  /\ SetPool(at[recoverer], {}, {})
  /\ released' = released \ idle[at[recoverer]]
  /\ left' = [left EXCEPT ![recoverer] = Min]
  /\ Goto(recoverer, "fill")
  /\ UNCHANGED <<alive, open, lists, after, at, held, todo>>

RecoverKeepsDead ==
  /\ pc[recoverer] = "join"
  /\ clientNodes' = clientNodes \cup {at[recoverer]}
  /\ locator' = clientNodes'
  /\ Goto(recoverer, "check")
  /\ UNCHANGED <<alive, pools, sockets, deadNodes, local>>

RecoverJoins ==
  /\ pc[recoverer] = "join"
  /\ deadNodes' = deadNodes \ {at[recoverer]}
  /\ clientNodes' = clientNodes \cup {at[recoverer]}
  /\ locator' = clientNodes'
  /\ Goto(recoverer, "check")
  /\ UNCHANGED <<alive, pools, sockets, local>>

RecoverEnds ==
  /\ pc[recoverer] = "check"
  /\ todo[recoverer] = {}
  /\ Goto(recoverer, "ready")
  /\ UNCHANGED <<alive, pools, sockets, lists, local>>

Recover ==
  \/ RecoverBegins \/ RecoverChecks \/ RecoverClears
  \/ InitAdds(recoverer) \/ InitEnds(recoverer) \/ Revive(recoverer)
  \/ RecoverJoins \/ RecoverEnds

----------------------------------------------------------------------------
\* The constructor of ClientCluster: one node after the other.

ConstructNode ==
  /\ pc[constructor] = "check"
  /\ \E n \in todo[constructor] :
       /\ todo' = [todo EXCEPT ![constructor] = todo[constructor] \ {n}]
       /\ at' = [at EXCEPT ![constructor] = n]
  /\ left' = [left EXCEPT ![constructor] = Min]
  /\ Goto(constructor, "fill")
  /\ UNCHANGED <<alive, pools, sockets, lists, after, held>>

\* Dictionary.Add throws where the recoverer was faster: there is no cluster then.
ConstructAdds ==
  LET n == at[constructor]
  IN /\ pc[constructor] = "join"
     /\ ClusterWriteFree(constructor)
     /\ clientNodes' = clientNodes \cup {n}
     /\ Goto(constructor, IF n \in clientNodes THEN "threw" ELSE "check")
     /\ UNCHANGED <<alive, pools, sockets, deadNodes, locator, local>>

ConstructEnds ==
  /\ pc[constructor] = "check"
  /\ todo[constructor] = {}
  /\ locator' = clientNodes
  /\ Goto(constructor, "done")
  /\ UNCHANGED <<alive, pools, sockets, clientNodes, deadNodes, local>>

Construct ==
  \/ ConstructNode \/ InitAdds(constructor) \/ InitEnds(constructor)
  \/ Revive(constructor) \/ ConstructAdds \/ ConstructEnds

Next ==
  \/ \E t \in Threads : NodeErrorCall(t)
  \/ \E c \in Clients : Call(c)
  \/ \E n \in Nodes : Maintain(n)
  \/ Recover
  \/ Construct

Spec == Init /\ [][Next]_vars

(***************************************************************************)
(* Every thread goes on, and a thread that waits for a lock gets it if the *)
(* lock is free again and again: a ReaderWriterLockSlim wakes its waiters. *)
(* As time passes, a busy socket exceeds MaxBusyTime.  Nothing makes a     *)
(* thread call the client.                                                 *)
(***************************************************************************)
MaintainTimesOut(n) ==
  MaintainTrims(n) /\ \A c \in Clients : pc[c] = "spin" => held[c] \notin busy'[n]

FairSpec ==
  /\ Spec
  /\ \A c \in Clients : SF_vars(pc[c] # "ready" /\ (Call(c) \/ NodeErrorCall(c)))
  /\ \A n \in Nodes : /\ WF_vars(Maintain(n) \/ NodeErrorCall(n))
                      /\ SF_vars(MaintainTimesOut(n))
  /\ SF_vars(Recover \/ NodeErrorCall(recoverer))
  /\ WF_vars(Construct \/ NodeErrorCall(constructor))
----------------------------------------------------------------------------
\* Properties.

\* Every variable has its type; a client has a socket exactly from choosing to returning it.
TypeOK ==
  /\ alive \in [Nodes -> BOOLEAN]
  /\ idle \in [Nodes -> SUBSET Sockets]
  /\ busy \in [Nodes -> SUBSET Sockets]
  /\ disturbed \subseteq {"idle", "busy"}
  /\ open \subseteq Sockets
  /\ released \subseteq UNION {idle[n] : n \in Nodes}
  /\ clientNodes \subseteq Nodes /\ deadNodes \subseteq Nodes /\ locator \subseteq Nodes
  /\ pc \in [Threads -> {"ready", "located", "get", "choose", "move", "connect", "enlist",
                         "write", "read", "spin", "close", "return", "store", "error",
                         "unborn", "trim", "refill", "add", "check", "init", "fill",
                         "revive", "join", "threw", "done"} \cup Destroying]
  /\ after \in [Threads -> {"ready", "get", "read", "return", "refill", "revive"}]
  /\ at \in [Threads -> Nodes \cup {None}]
  /\ held \in [Clients -> Sockets \cup {None}]
  /\ todo \in [{recoverer, constructor} -> SUBSET Nodes]
  /\ left \in [Threads -> 0..Min]
  /\ \A c \in Clients :
       held[c] # None <=> \/ pc[c] \in {"move", "enlist", "write", "read", "spin", "close",
                                        "return", "store"}
                          \/ pc[c] \in {"error"} \cup Destroying
                             /\ after[c] \in {"read", "return"}

\* Two calls never use one socket, and a socket in use is not among the idle ones, although
\* Destory and Init empty the lists while sockets are in use and calls return them later.
SocketsAreExclusive ==
  /\ \A c, d \in Clients : held[c] # None /\ held[c] = held[d] => c = d
  /\ \A c \in Clients, n \in Nodes : held[c] \in idle[n] => pc[c] = "move"
  /\ \A n \in Nodes : idle[n] \cap busy[n] = {}

\* A node that is not alive is among the dead nodes, or a thread is about to put it there: a
\* failure reported while the node is being recovered is not lost.
DeadNodeIsNoticed ==
  \A n \in Nodes :
    \/ alive[n] \/ pc[n] = "unborn"
    \/ n \in deadNodes
    \/ \E t \in Threads : at[t] = n /\ pc[t] \in {"error", "revive"}

\* MaxConnections bounds the pool except for the sockets Init adds without looking at it,
\* Min at most: calls fill the pool between its turns, and what they return stays bounded.
PoolBound == \A n \in Nodes : Connections(n) <= Max + Min

\* A connection that is open and that no list and no call knows of comes from Init, which
\* clears the lists of a node that calls have filled since it died, or from the Clear of the
\* idle sockets in Destory, if others changed them after its loop had destroyed them all.
LeaksOnlyInClears ==
  [][\A s \in open : (~Unreferenced(s) /\ s \in open' /\ Unreferenced(s)')
                       => \/ pc[recoverer] = "init" /\ pc'[recoverer] = "fill"
                          \/ /\ "idle" \in disturbed
                             /\ \E t \in Threads : pc[t] = "clearIdle" /\ pc'[t] = "clearBusy"]_vars

\* Whatever fails, each call of the client comes to its end: a read that spins on a closed
\* connection is freed by the maintenance, except where Init or Destory has cleared the list
\* of busy sockets and so made it forget this one.
CallsReturn ==
  \A c \in Clients :
    pc[c] # "ready" ~> pc[c] = "ready" \/ (pc[c] = "spin" /\ held[c] \notin busy[at[c]])

\* Each dead node is taken back in the end.
DeadNodesRecover == \A n \in Nodes : n \in deadNodes ~> n \notin deadNodes

\* "Start to check whether the node has recovered": the recovery thread looks at each dead
\* node again and again.
DeadNodesAreChecked ==
  \A n \in Nodes :
    n \in deadNodes ~> \/ n \notin deadNodes
                       \/ pc[recoverer] = "check" /\ n \in todo[recoverer]
=============================================================================
