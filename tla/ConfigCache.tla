---------------------------- MODULE ConfigCache ----------------------------
(***************************************************************************)
(* The cache of the configuration client: one setting whose value is a     *)
(* list, the items that are its elements, the rows of the server behind    *)
(* them, the thread that synchronises, and threads that ask for the value, *)
(* some with a callback.                                                   *)
(*                                                                         *)
(* A row is its RowVersion and IsDeleted: every change gives a row a new   *)
(* version, so a version stands for the content.  Version 0 is no row, or  *)
(* no entry in the cache.  What happens under _locker is one step; calls   *)
(* of the server outside it are steps of their own.  The list's own row is *)
(* changed but not removed, and a callback asks for the value again, as    *)
(* those of ConfigService and AlarmService do; the Mongodb services' drop  *)
(* what they made of it and get the value when they need it next.          *)
(* BatchLoadConfigItems fills the cache like a first round of the          *)
(* synchronisation.                                                        *)
(*                                                                         *)
(* A definition whose name no action uses, right above one the actions do  *)
(* use, is a plausible bug in its place: a property below notices it.      *)
(***************************************************************************)
EXTENDS Naturals, FiniteSets

CONSTANTS
  Elements,    \* ids of the elements of the list
  List,        \* id of the list
  Readers,     \* threads that ask for the value of the list
  Subscribers, \* those of them that pass a callback, once
  MaxVersion,  \* how many versions the server hands out: a bound of the model
  None         \* no value

Items == Elements \cup {List}

Version == 0..MaxVersion

ASSUME ConfigAssumption ==
  /\ List \notin Elements
  /\ IsFiniteSet(Elements)
  /\ Subscribers \subseteq Readers
  /\ MaxVersion \in Nat \ {0}

VARIABLES
  row,        \* the table ConfigItem
  latest,     \* the highest RowVersion in it: the last one the database handed out
  synced,     \* _lastRowVersion
  batch,      \* rows the thread has got and not yet applied
  cache,      \* entries, children and value of the list, and what came of it
  registered, \* the list has a callback
  reader,     \* where each thread is, and what it has read
  dropped     \* history: items whose row the thread has got and never applied

vars == <<row, latest, synced, batch, cache, registered, reader, dropped>>

\* What a value was computed from.
Value == [own : Version, elems : SUBSET (Elements \X Version)]

ASSUME NoneAssumption == None \notin Value

Row == [ver : Version, deleted : BOOLEAN]

Change == [item : Items, ver : Version, deleted : BOOLEAN]

\* ver, kids and value are _configCache: RowVersion of each entry, ChildItems and
\* ObjectValue of the list.  held is what the subscriber keeps, None its default.
\* overtaken is history: the value was stored over an entry that had changed since.
Cache == [ver : [Items -> Version], kids : SUBSET Elements, value : Value \cup {None},
          held : Value \cup {None}, overtaken : BOOLEAN]

Reader == [pc : {"idle", "fetch", "put", "children", "ask", "fill", "store", "register"},
           own : Version, elems : SUBSET (Elements \X Version),
           todo : SUBSET (Elements \X Version)]

TypeOK ==
  /\ row \in [Items -> Row]
  /\ latest \in Version
  /\ synced \in Version
  /\ batch \subseteq Change
  /\ cache \in Cache
  /\ registered \in BOOLEAN
  /\ reader \in [Readers -> Reader]
  /\ dropped \subseteq Items

Resting == [pc |-> "idle", own |-> 0, elems |-> {}, todo |-> {}]

Init ==
  /\ row = [i \in Items |-> [ver |-> IF i = List THEN 1 ELSE 0, deleted |-> FALSE]]
  /\ latest = 1
  /\ synced = 0 /\ batch = {} /\ dropped = {}
  /\ cache = [ver |-> [i \in Items |-> 0], kids |-> {}, value |-> None,
              held |-> None, overtaken |-> FALSE]
  /\ registered = FALSE
  /\ reader = [t \in Readers |-> Resting]

Live(i) == row[i].ver > 0 /\ ~row[i].deleted

----------------------------------------------------------------------------
\* The server.

Write(i, isDeleted) ==
  /\ latest < MaxVersion
  /\ latest' = latest + 1
  /\ row' = [row EXCEPT ![i] = [ver |-> latest + 1, deleted |-> isDeleted]]
  /\ UNCHANGED <<synced, batch, cache, registered, reader, dropped>>

\* SaveConfigItem, and SetItemsInited.
Save(i) == Live(i) /\ Write(i, FALSE)

\* AddConfigItem inserts a row or takes a deleted one back.
AddConfigItem(e) == ~Live(e) /\ Write(e, FALSE)

RemoveConfigItem(e) == Live(e) /\ Write(e, TRUE)

----------------------------------------------------------------------------
\* UpdateConfigItemCache, and the callback it may make.

Listed(c) == {<<e, c.ver[e]>> : e \in c.kids}

FetchedWithDeleted == {<<e, row[e].ver>> : e \in {x \in Elements : row[x].ver > 0}}

\* GetChildConfigItems.
Fetched == {<<e, row[e].ver>> : e \in {x \in Elements : Live(x)}}

\* A value agrees with the entries.
Matches(c, v) ==
  /\ v.own = c.ver[List]
  /\ \A p \in v.elems : c.ver[p[1]] = p[2]
  /\ Listed(c) \subseteq v.elems

\* The callback gets the value anew: from the children, or where there are none from the
\* server, whose answer is put into the cache.
Refreshed(c) ==
  LET filled == IF c.kids # {} THEN c
                ELSE [c EXCEPT !.ver = [i \in Items |-> IF i # List /\ Live(i) THEN row[i].ver
                                                        ELSE c.ver[i]],
                               !.kids = {e \in Elements : Live(e) /\ c.ver[e] = 0}]
      v == [own |-> c.ver[List], elems |-> IF c.kids # {} THEN Listed(c) ELSE Fetched]
  IN  [filled EXCEPT !.value = v, !.held = v, !.overtaken = FALSE]

\* What the callback may leave behind.  GetConfigItemValue catches a server that does not
\* answer: the callback gets the default, and no value is stored.
Notified(c) ==
  IF ~registered THEN {c}
  ELSE {Refreshed(c)} \cup (IF c.kids = {} THEN {[c EXCEPT !.held = None]} ELSE {})

StateIgnoringAge(c, r) ==
  IF c.ver[r.item] = 0 THEN IF r.deleted THEN "Invalid" ELSE "Added"
  ELSE IF r.deleted THEN "Deleted" ELSE "Modified"

StateNotOlder(c, r) ==
  IF c.ver[r.item] = 0 THEN IF r.deleted THEN "Invalid" ELSE "Added"
  ELSE IF c.ver[r.item] <= r.ver + 1 THEN IF r.deleted THEN "Deleted" ELSE "Modified"
  ELSE "Unchanged"

\* configItemState.
State(c, r) ==
  IF c.ver[r.item] = 0 THEN IF r.deleted THEN "Invalid" ELSE "Added"
  ELSE IF c.ver[r.item] < r.ver THEN IF r.deleted THEN "Deleted" ELSE "Modified"
  ELSE "Unchanged"

Changes(c, r) == State(c, r) \in {"Added", "Modified", "Deleted"}

\* An element's list is in the cache before its children and its value are touched.
WithList(c) ==
  IF c.ver[List] # 0 THEN c
  ELSE [c EXCEPT !.ver[List] = row[List].ver, !.kids = {}]

KeepValue(c) == c

ResetValue(c) == [c EXCEPT !.value = None, !.overtaken = FALSE]

LinkForgetful(c, r) == IF r.deleted THEN c.kids \ {r.item} ELSE c.kids

\* ChildItems.Add and ChildItems.Remove.
Link(c, r) ==
  IF State(c, r) = "Added" THEN c.kids \cup {r.item}
  ELSE IF State(c, r) = "Deleted" THEN c.kids \ {r.item}
  ELSE c.kids

EntryAhead(r) == IF r.deleted THEN 0 ELSE r.ver + 1

Entry(r) == IF r.deleted THEN 0 ELSE r.ver

\* The new object of the list has no children and no value.
Applied(c, r) ==
  IF r.item = List
    THEN ResetValue([c EXCEPT !.ver[List] = Entry(r), !.kids = {}])
    ELSE LET d == WithList(c)
         IN  ResetValue([d EXCEPT !.ver[r.item] = Entry(r), !.kids = Link(d, r)])

PutSilentlyDeleting(c, r) ==
  IF Changes(c, r) /\ ~r.deleted THEN Notified(Applied(c, r))
  ELSE {IF Changes(c, r) THEN Applied(c, r) ELSE c}

Put(c, r) == IF Changes(c, r) THEN Notified(Applied(c, r)) ELSE {c}

\* The server does not answer with the list of a new element, or the callback throws.
PutFails(c, r) ==
  IF r.item # List /\ c.ver[List] = 0
    THEN [c EXCEPT !.ver[r.item] = Entry(r)]
    ELSE Applied(c, r)

----------------------------------------------------------------------------
\* SyncConfigCacheWorker.

Changed == {i \in Items : row[i].ver > synced}

\* GetLastUpdatedConfigItems moves _lastRowVersion on before anything is applied.
\* The row with the last version stays in the table: synced' is the highest version read.
SyncReads ==
  /\ batch = {}
  /\ Changed # {}
  /\ batch' = {[item |-> i, ver |-> row[i].ver, deleted |-> row[i].deleted] : i \in Changed}
  /\ synced' = latest
  /\ UNCHANGED <<row, latest, cache, registered, reader, dropped>>

First(r) == r \in batch /\ \A s \in batch : r.ver <= s.ver

SyncApplies ==
  /\ \E r \in batch :
       /\ First(r)
       /\ cache' \in Put(cache, r)
       /\ batch' = batch \ {r}
       /\ dropped' = dropped \ {r.item}
  /\ UNCHANGED <<row, latest, synced, registered, reader>>

\* An exception ends the round, and what is left of it is not asked for again.
SyncFails ==
  /\ \E r \in batch :
       /\ First(r)
       /\ Changes(cache, r)
       /\ registered \/ (r.item # List /\ cache.ver[List] = 0)
       /\ cache' = PutFails(cache, r)
       /\ dropped' = (dropped \cup {s.item : s \in batch}) \ {r.item}
  /\ batch' = {}
  /\ UNCHANGED <<row, latest, synced, registered, reader>>

----------------------------------------------------------------------------
\* GetConfigItemValue of the list.

Goto(t, l) == [reader[t] EXCEPT !.pc = l]

ReaderKeepsServer == UNCHANGED <<row, latest, synced, batch, dropped>>

\* A value that is there is returned, and the callback is not registered.
ReturnsEarly(t) ==
  /\ reader[t].pc = "idle"
  /\ t \in Subscribers
  /\ cache.value # None /\ ~registered /\ cache.held = None
  /\ cache' = [cache EXCEPT !.held = cache.value]
  /\ ReaderKeepsServer /\ UNCHANGED <<registered, reader>>

Lookup(t) ==
  /\ reader[t].pc = "idle"
  /\ cache.value = None
  /\ t \in Subscribers => ~registered /\ cache.held = None
  /\ reader' = [reader EXCEPT ![t] =
       IF cache.ver[List] = 0 THEN Goto(t, "fetch")
       ELSE [Goto(t, "children") EXCEPT !.own = cache.ver[List]]]
  /\ ReaderKeepsServer /\ UNCHANGED <<cache, registered>>

FetchList(t) ==
  /\ reader[t].pc = "fetch"
  /\ reader' = [reader EXCEPT ![t] = [Goto(t, "put") EXCEPT !.own = row[List].ver]]
  /\ ReaderKeepsServer /\ UNCHANGED <<cache, registered>>

\* What a thread may put into the cache next.
PutNext(t) ==
  CASE reader[t].pc = "put" -> {[item |-> List, ver |-> reader[t].own, deleted |-> FALSE]}
    [] reader[t].pc = "fill" ->
         {[item |-> p[1], ver |-> p[2], deleted |-> FALSE] : p \in reader[t].todo}
    [] OTHER -> {}

\* EnsureConfigItemAdded takes the entry of the cache, which may be another one.
PutList(t) ==
  /\ reader[t].pc = "put"
  /\ \E r \in PutNext(t) : cache' \in Put(cache, r)
  /\ reader' = [reader EXCEPT ![t] = [Goto(t, "children") EXCEPT !.own = cache'.ver[List]]]
  /\ ReaderKeepsServer /\ UNCHANGED registered

\* InternalGetChildConfigItems: the children of the cache, or the server's.
Children(t) ==
  /\ reader[t].pc = "children"
  /\ reader' = [reader EXCEPT ![t] =
       IF cache.kids # {} THEN [Goto(t, "store") EXCEPT !.elems = Listed(cache)]
       ELSE Goto(t, "ask")]
  /\ ReaderKeepsServer /\ UNCHANGED <<cache, registered>>

FetchChildren(t) ==
  /\ reader[t].pc = "ask"
  /\ reader' = [reader EXCEPT ![t] =
       [Goto(t, "fill") EXCEPT !.elems = Fetched, !.todo = Fetched]]
  /\ ReaderKeepsServer /\ UNCHANGED <<cache, registered>>

Fill(t) ==
  /\ reader[t].pc = "fill"
  /\ IF reader[t].todo = {}
       THEN /\ reader' = [reader EXCEPT ![t] = Goto(t, "store")]
            /\ UNCHANGED cache
       ELSE \E r \in PutNext(t) :
              /\ cache' \in Put(cache, r)
              /\ reader' = [reader EXCEPT ![t].todo = reader[t].todo \ {<<r.item, r.ver>>}]
  /\ ReaderKeepsServer /\ UNCHANGED registered

Computed(t) == [own |-> reader[t].own, elems |-> reader[t].elems]

\* Into the entry that is there now.
StoreValue(t) ==
  /\ reader[t].pc = "store"
  /\ cache' = [cache EXCEPT !.value = Computed(t), !.overtaken = ~Matches(cache, Computed(t))]
  /\ reader' = [reader EXCEPT ![t] = Goto(t, "register")]
  /\ ReaderKeepsServer /\ UNCHANGED registered

\* The first callback of an item is the one that stays.
Register(t) ==
  /\ reader[t].pc = "register"
  /\ IF t \in Subscribers /\ ~registered
       THEN /\ registered' = TRUE
            /\ cache' = [cache EXCEPT !.held = Computed(t)]
       ELSE UNCHANGED <<registered, cache>>
  /\ reader' = [reader EXCEPT ![t] = Resting]
  /\ ReaderKeepsServer

\* The server does not answer: the caller gets its default.
ReaderFails(t) ==
  /\ reader[t].pc \in {"fetch", "ask"}
  /\ reader' = [reader EXCEPT ![t] = Resting]
  /\ ReaderKeepsServer /\ UNCHANGED <<cache, registered>>

\* A callback made on the caller's thread throws: the caller gets its default.
ReaderThrows(t) ==
  /\ registered
  /\ \E r \in PutNext(t) : Changes(cache, r) /\ cache' = PutFails(cache, r)
  /\ reader' = [reader EXCEPT ![t] = Resting]
  /\ ReaderKeepsServer /\ UNCHANGED registered

GetConfigItemValue(t) ==
  \/ ReturnsEarly(t) \/ Lookup(t) \/ FetchList(t) \/ PutList(t) \/ Children(t)
  \/ FetchChildren(t) \/ Fill(t) \/ StoreValue(t) \/ Register(t) \/ ReaderFails(t)
  \/ ReaderThrows(t)

----------------------------------------------------------------------------

Sync == SyncReads \/ SyncApplies \/ SyncFails

Next ==
  \/ \E i \in Items : Save(i)
  \/ \E e \in Elements : AddConfigItem(e) \/ RemoveConfigItem(e)
  \/ Sync
  \/ \E t \in Readers : GetConfigItemValue(t)

Spec == Init /\ [][Next]_vars

\* The thread loops as long as the client lives.
FairSpec == Spec /\ WF_vars(Sync)

----------------------------------------------------------------------------
\* Properties.

Pending == {r.item : r \in batch}

\* What the synchronisation has gone past is in the cache as it is on the server, whatever
\* readers fetched earlier and put there later; rows of a failed round are the exception.
LiveItemsAreCurrent ==
  \A i \in Items \ (Pending \cup dropped) :
    Live(i) /\ row[i].ver <= synced => cache.ver[i] = row[i].ver

\* A row the synchronisation knows to be deleted comes back into the cache only with an
\* answer of the server that a reader has had in its hands since before.
OnlyLateAnswersRevive ==
  [][\A e \in Elements :
       /\ row[e].deleted /\ row[e].ver <= synced /\ e \notin Pending
       /\ cache.ver[e] = 0 /\ cache'.ver[e] # 0
       => \E t \in Readers : \E p \in reader[t].todo : p[1] = e /\ p[2] < row[e].ver]_vars

\* The value kept with the list agrees with the entries, unless it was computed from older
\* ones and stored after they had been replaced.
ValueIsCurrent == cache.value # None => cache.overtaken \/ Matches(cache, cache.value)

\* The server did not answer the callback: the subscriber has the default.
HasDefault == cache.held = None /\ cache.kids = {}

\* Whatever changes the list's entries, a round or another reader's late answer, and however
\* it crosses the subscriber's own calls: once the callback is registered the subscriber
\* holds what the cache has after the change, also if it had fallen behind before, unless
\* its callback threw or the server did not answer it and it was given the default.
SubscriberIsTold ==
  [][registered =>
       \/ UNCHANGED <<cache.ver, cache.kids, cache.held>>
       \/ HasDefault'
       \/ cache'.held # None /\ Matches(cache', cache'.held)
       \/ SyncFails
       \/ \E t \in Readers : ReaderThrows(t)]_vars

Unlisted == {e \in Elements : cache.ver[e] # 0} \ cache.kids

\* A cached element gets lost from the list's children only when the list itself is
\* replaced, or its arrival was cut short.
UnlistedOnlyByReplacement ==
  [][Unlisted' \subseteq Unlisted \/ cache'.ver[List] # cache.ver[List] \/ SyncFails]_vars

\* After the last change on the server every cached item that is left there gets current.
CacheConverges ==
  \A i \in Items :
    <>[](cache.ver[i] # 0 /\ Live(i) /\ i \notin dropped => cache.ver[i] = row[i].ver)
=============================================================================
