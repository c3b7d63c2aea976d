-------------------------- MODULE MemcachedLocker --------------------------
(***************************************************************************)
(* The lock that MemcachedLocker keeps as one key of a memcached server.   *)
(* Its value is the time at which its writer asked for it plus timeOut; it *)
(* is given up for lost when two more timeOut have gone by.                *)
(*                                                                         *)
(* Times are relative: an age is the time since a client computed a value, *)
(* counted up to where no comparison can tell more, and 0 when the value   *)
(* is not in use.  A client is one use of the lock, from the constructor   *)
(* to the end of Dispose.  A request is carried out at once or is lost,    *)
(* and the answer of one that was carried out may be lost.  Only Dispose's *)
(* Delete may be carried out late.                                         *)
(*                                                                         *)
(* A definition whose name no action uses, right above one the actions do  *)
(* use, is a plausible bug in its place: a property below notices it.      *)
(***************************************************************************)
EXTENDS Naturals, FiniteSets

CONSTANTS
  Clients,  \* uses of the lock, in any thread of any process
  TimeOut,  \* timeOut, the same for all
  None      \* no client

ASSUME LockerAssumption ==
  /\ TimeOut \in Nat \ {0}
  /\ None \notin Clients

VARIABLES
  entry,    \* the client that wrote the value the server has for key, or None
  entryAge, \* age of that value
  pc,       \* where each client is
  waited,   \* time since the client entered the constructor
  age,      \* age of the value the client last computed
  seen,     \* the version Get returned: none, that of the entry, or one that is gone
  voided    \* history: a lease ran out, or the key was lost, while a client had the lock

vars == <<entry, entryAge, pc, waited, age, seen, voided>>

\* A value is computed as now + timeOut and is stale 2 * timeOut after that.
Lease == 3 * TimeOut

\* Ages above this one are not told apart.
Cap == Lease + 1

TypeOK ==
  /\ entry \in Clients \cup {None}
  /\ entryAge \in 0..Cap
  /\ pc \in [Clients -> {"idle", "loop", "add", "get", "again", "holding", "disposing"}]
  /\ waited \in [Clients -> 0..TimeOut]
  /\ age \in [Clients -> 0..Cap]
  /\ seen \in [Clients -> {"none", "current", "gone"}]
  /\ voided \in BOOLEAN
  /\ entry = None => \A c \in Clients : seen[c] # "current"

Init ==
  /\ entry = None /\ entryAge = 0
  /\ pc = [c \in Clients |-> "idle"]
  /\ waited = [c \in Clients |-> 0]
  /\ age = [c \in Clients |-> 0]
  /\ seen = [c \in Clients |-> "none"]
  /\ voided = FALSE

Waiting == {"loop", "add", "get", "again"}

ValueInUse == {"add", "again", "holding", "disposing"}

\* Times and versions a client has no more use for are reset.
Goto(c, l) ==
  /\ pc' = [pc EXCEPT ![c] = l]
  /\ waited' = [waited EXCEPT ![c] = IF l \in Waiting THEN waited[c] ELSE 0]
  /\ age' = [age EXCEPT ![c] = IF l \in {"holding", "disposing"} THEN age[c] ELSE 0]

\* Each change of the entry gives it a version no one has seen; a deleted one has none.
Outdated == [d \in Clients |-> IF seen[d] = "current" THEN "gone" ELSE seen[d]]

Store(c) ==
  /\ entry' = c
  /\ entryAge' = age[c]
  /\ seen' = [Outdated EXCEPT ![c] = "none"]

RemoveKeepsVersion == entry' = None /\ entryAge' = 0 /\ UNCHANGED seen

Remove == entry' = None /\ entryAge' = 0 /\ seen' = Outdated

----------------------------------------------------------------------------
\* The constructor.

Enter(c) ==
  /\ pc[c] = "idle"
  /\ Goto(c, "loop")
  /\ UNCHANGED <<entry, entryAge, seen, voided>>

MayTryForEver(c) == TRUE

MayTry(c) == waited[c] < TimeOut

Try(c) ==
  /\ pc[c] = "loop"
  /\ MayTry(c)
  /\ Goto(c, "add")
  /\ UNCHANGED <<entry, entryAge, seen, voided>>

GiveUpDisposing(c) == pc[c] = "loop" /\ ~MayTry(c) /\ Goto(c, "disposing")

\* TimeoutException: there is no object to dispose of.
GiveUp(c) == pc[c] = "loop" /\ ~MayTry(c) /\ Goto(c, "idle")

TimesOut(c) ==
  /\ GiveUp(c)
  /\ UNCHANGED <<entry, entryAge, seen, voided>>

\* The answer says stored; the request may have been longer on its way than the lease.
Obtain(c) ==
  /\ Goto(c, "holding")
  /\ voided' = (voided \/ age[c] > Lease)

\* The answer says no, or there is none.
Fail(c, l) == Goto(c, l) /\ UNCHANGED voided

\* Add without a version: only where there is no entry.
Add(c) ==
  /\ pc[c] = "add"
  /\ \/ entry = None /\ Store(c) /\ (Obtain(c) \/ Fail(c, "get"))
     \/ Fail(c, "get") /\ UNCHANGED <<entry, entryAge, seen>>

StaleEarly(a) == a > TimeOut

Stale(a) == a > Lease

\* No answer counts as no entry.
Get(c) ==
  /\ pc[c] = "get"
  /\ \/ /\ entry # None /\ Stale(entryAge)
        /\ Goto(c, "again")
        /\ seen' = [seen EXCEPT ![c] = "current"]
     \/ entry # None /\ ~Stale(entryAge) /\ Goto(c, "loop") /\ UNCHANGED seen
     \/ Goto(c, "again") /\ UNCHANGED seen
  /\ UNCHANGED <<entry, entryAge, voided>>

AcceptedAnyVersion(c) == IF seen[c] = "none" THEN entry = None ELSE entry # None

\* With a version, the server stores over the entry that has it and over no other.
Accepted(c) == IF seen[c] = "none" THEN entry = None ELSE seen[c] = "current"

AddAgain(c) ==
  /\ pc[c] = "again"
  /\ \/ Accepted(c) /\ Store(c) /\ (Obtain(c) \/ Fail(c, "loop"))
     \/ /\ Fail(c, "loop")
        /\ seen' = [seen EXCEPT ![c] = "none"]
        /\ UNCHANGED <<entry, entryAge>>

----------------------------------------------------------------------------
\* Dispose, and what happens around it.

Dispose(c) ==
  /\ pc[c] = "holding"
  /\ Goto(c, "disposing")
  /\ UNCHANGED <<entry, entryAge, seen, voided>>

\* Whoever wrote the entry.
Delete(c) ==
  /\ pc[c] = "disposing"
  /\ Goto(c, "idle")
  /\ Remove \/ UNCHANGED <<entry, entryAge, seen>>
  /\ UNCHANGED voided

\* The process of a client ends: its entry stays.
Crash(c) ==
  /\ pc[c] # "idle"
  /\ Goto(c, "idle")
  /\ seen' = [seen EXCEPT ![c] = "none"]
  /\ UNCHANGED <<entry, entryAge, voided>>

HasLock(c) == pc[c] \in {"holding", "disposing"}

\* The server evicts the key or restarts, or the cluster moves the key to another node.
KeyIsLost ==
  /\ entry # None
  /\ Remove
  /\ voided' = (voided \/ \E c \in Clients : HasLock(c))
  /\ UNCHANGED <<pc, waited, age>>

Older(a, top) == IF a < top THEN a + 1 ELSE a

Tick ==
  /\ entryAge' = IF entry = None THEN 0 ELSE Older(entryAge, Cap)
  /\ waited' = [c \in Clients |-> IF pc[c] \in Waiting THEN Older(waited[c], TimeOut) ELSE 0]
  /\ age' = [c \in Clients |-> IF pc[c] \in ValueInUse THEN Older(age[c], Cap) ELSE 0]
  /\ voided' = (voided \/ \E c \in Clients : HasLock(c) /\ age[c] >= Lease)
  /\ UNCHANGED <<entry, pc, seen>>

ConstructorStep(c) == Try(c) \/ TimesOut(c) \/ Add(c) \/ Get(c) \/ AddAgain(c)

Next ==
  \/ \E c \in Clients :
       Enter(c) \/ ConstructorStep(c) \/ Dispose(c) \/ Delete(c) \/ Crash(c)
  \/ KeyIsLost
  \/ Tick

Spec == Init /\ [][Next]_vars

\* A constructor's thread goes on, and so does time.
FairSpec ==
  /\ Spec
  /\ \A c \in Clients : WF_vars(ConstructorStep(c))
  /\ WF_vars(Tick)

----------------------------------------------------------------------------
\* Properties.

\* No two clients have the lock at once, however many find it stale together, unless one
\* kept it beyond its lease or the server lost the key: what the lock is for.
ExclusiveWithinLease ==
  voided \/ \A c, d \in Clients : HasLock(c) /\ HasLock(d) => c = d

\* An entry is overwritten only when its lease is over, also when the client that does it
\* looked a long time ago and others have deleted and written the key since.
TakenOverOnlyWhenStale ==
  [][entry # None /\ entry' # None /\ (entry' # entry \/ entryAge' < entryAge)
       => entryAge > Lease]_vars

\* Dispose deletes whatever it finds; as long as nobody outlived a lease, that is its own.
DeletesItsOwn ==
  [][\A c \in Clients :
       ~voided /\ ~voided' /\ entry # None /\ entry' = None /\ Delete(c) => entry = c]_vars

\* Whoever asks gets the lock or the TimeoutException, whatever others do and is lost.
CallersAreAnswered ==
  \A c \in Clients :
    pc[c] \in Waiting ~> pc[c] \in {"idle", "holding", "disposing"}
=============================================================================
