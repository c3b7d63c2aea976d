-------------------------- MODULE AlarmEventsProofs --------------------------
(***************************************************************************)
(* Proofs about AlarmEvents for every number of rows, groups, overlapping  *)
(* callbacks and users.                                                    *)
(***************************************************************************)
EXTENDS AlarmEvents, FiniteSetTheorems, TLAPS

----------------------------------------------------------------------------
\* Types.

LEMMA InitType == Init => TypeOK
BY DEF Init, TypeOK, Channels, Statuses

LEMMA CheckType ==
  ASSUME TypeOK, NEW t \in Callbacks, Check(t)
  PROVE  TypeOK'
<1> USE DEF TypeOK, Goto, Channels, Statuses, clearing
<1>1. CASE CheckBegins(t)
  BY <1>1 DEF CheckBegins
<1>2. CASE CheckEnds(t)
  BY <1>2 DEF CheckEnds
<1>3. CASE CreateReads(t)
  BY <1>3 DEF CreateReads
<1>4. CASE CreateInserts(t)
  BY <1>4 DEF CreateInserts
<1>5. CASE AlarmIsHandling(t)
  BY <1>5 DEF AlarmIsHandling
<1>6. CASE Throttle(t)
  BY <1>6 DEF Throttle, NextChannel
<1>7. CASE Send(t)
  <2> DEFINE g == at[t][1]
  <2>1. /\ g \in Groups /\ at[t] \in Groups \X Channels
        /\ <<g, "mail">> \in Groups \X Channels /\ <<g, "mobile">> \in Groups \X Channels
    OBVIOUS
  <2> HIDE DEF g
  <2>2. at' \in [Callbacks -> Groups \X Channels]
    BY <1>7, <2>1 DEF Send, NextChannel, g
  <2>3. burst' \in [Groups \X Channels -> Nat]
    <3> DEFINE x == at[t]
               P == Groups \X Channels
    <3>1. x \in P /\ burst \in [P -> Nat]
      BY <2>1
    <3>2. burst' = [burst EXCEPT ![x] = burst[x] + 1] \/ burst' = burst
      BY <1>7 DEF Send
    <3> HIDE DEF x, P
    <3>3. burst' \in [P -> Nat]
      BY <3>1, <3>2
    <3> QED BY <3>3 DEF P
  <2>4. /\ pc' \in [Callbacks -> {"idle", "group", "insert", "ask", "throttle", "send"}]
        /\ todo' \in [Callbacks -> SUBSET Groups]
        /\ due' \subseteq Groups \X Channels
    BY <1>7 DEF Send, NextChannel
  <2> QED BY <1>7, <2>2, <2>3, <2>4 DEF Send
<1> QED BY <1>1, <1>2, <1>3, <1>4, <1>5, <1>6, <1>7 DEF Check

LEMMA UserType ==
  ASSUME TypeOK, NEW u \in Users, UserReads(u) \/ UserSaves(u)
  PROVE  TypeOK'
<1> USE DEF TypeOK, Statuses, clearing, callbacks
<1>1. CASE UserReads(u)
  BY <1>1 DEF UserReads, Active
<1>2. CASE UserSaves(u)
  <2>1. user[u] \in [op : {"handle", "close"}, id : Ids, was : {"Open", "Handling"}]
    BY <1>2 DEF UserSaves
  <2>2. CASE HandleSaves(u)
    BY <1>2, <2>1, <2>2 DEF UserSaves, HandleSaves, StatusSaved
  <2>3. CASE CloseSaves(u)
    BY <1>2, <2>1, <2>3 DEF UserSaves, CloseSaves
  <2>4. CASE UNCHANGED <<row, overdue, renewed>>
    BY <1>2, <2>4 DEF UserSaves
  <2> QED BY <1>2, <2>2, <2>3, <2>4 DEF UserSaves
<1> QED BY <1>1, <1>2

LEMMA ClearType ==
  ASSUME TypeOK, ClearExpiredAlarmItem
  PROVE  TypeOK'
<1> USE DEF TypeOK, Statuses, callbacks
<1>1. CASE ClearBegins
  BY <1>1 DEF ClearBegins, ClearReads
<1>2. ASSUME NEW i \in Ids, ClearCloses(i)
      PROVE  TypeOK'
  BY <1>2 DEF ClearCloses
<1>3. ASSUME NEW i \in Ids, ClearSkips(i)
      PROVE  TypeOK'
  BY <1>3 DEF ClearSkips
<1>4. CASE ClearFails
  BY <1>4 DEF ClearFails
<1> QED BY <1>1, <1>2, <1>3, <1>4 DEF ClearExpiredAlarmItem

LEMMA NextType == TypeOK /\ [Next]_vars => TypeOK'
<1> SUFFICES ASSUME TypeOK, [Next]_vars
             PROVE  TypeOK'
  OBVIOUS
<1>1. ASSUME NEW x \in Groups \X Channels, IntervalPasses(x)
      PROVE  TypeOK'
  BY <1>1 DEF IntervalPasses, TypeOK, callbacks, clearing
<1>2. ASSUME NEW i \in Ids, ProcessTimeoutPasses(i)
      PROVE  TypeOK'
  BY <1>2 DEF ProcessTimeoutPasses, TypeOK, callbacks
<1>3. CASE UNCHANGED vars
  BY <1>3 DEF vars, callbacks, clearing, TypeOK
<1> QED BY <1>1, <1>2, <1>3, CheckType, UserType, ClearType DEF Next

\* Type correctness, with what it says of rows: only events being handled are overdue, and
\* the clearing timer never has an event in its list that nobody has taken over.
THEOREM TypeCorrect == Spec => []TypeOK
<1>1. Init => TypeOK
  BY InitType
<1>2. TypeOK /\ [Next]_vars => TypeOK'
  BY NextType
<1> QED BY <1>1, <1>2, PTL DEF Spec

----------------------------------------------------------------------------
\* Throttling: with the callbacks that are past the check, a group's channel has no more
\* messages in its interval than there are callbacks.

Pending(x) == {t \in Callbacks : pc[t] = "send" /\ at[t] = x}

Throttled(x) ==
  /\ x \in due => burst[x] = 0
  /\ burst[x] + Cardinality(Pending(x)) <= Cardinality(Callbacks)

ThrottleInv == \A x \in Groups \X Channels : Throttled(x)

LEMMA SubsetSize ==
  ASSUME NEW S, IsFiniteSet(S), NEW T, T \subseteq S
  PROVE  /\ IsFiniteSet(T)
         /\ Cardinality(T) \in Nat /\ Cardinality(S) \in Nat
         /\ Cardinality(T) <= Cardinality(S)
BY FS_Subset, FS_CardinalityType

LEMMA PendingSize ==
  ASSUME NEW x
  PROVE  /\ Cardinality(Callbacks) \in Nat
         /\ IsFiniteSet(Pending(x)) /\ Cardinality(Pending(x)) \in Nat
         /\ Cardinality(Pending(x)) <= Cardinality(Callbacks)
         /\ Cardinality(Pending(x))' \in Nat
         /\ Cardinality(Pending(x))' <= Cardinality(Callbacks)
<1>1. Pending(x) \subseteq Callbacks /\ Pending(x)' \subseteq Callbacks
  BY DEF Pending
<1>2. IsFiniteSet(Callbacks)
  BY AlarmAssumption
<1> QED BY <1>1, <1>2, SubsetSize

\* A step that sends nothing and lets no callback past the check.
LEMMA QuietStep ==
  ASSUME TypeOK, ThrottleInv, due' \subseteq due, burst' = burst,
         \A t \in Callbacks : pc'[t] = "send" => pc[t] = "send" /\ at'[t] = at[t]
  PROVE  ThrottleInv'
<1> SUFFICES ASSUME NEW x \in Groups \X Channels
             PROVE  Throttled(x)'
  BY DEF ThrottleInv
<1>1. Throttled(x) /\ burst[x] \in Nat
  BY DEF ThrottleInv, TypeOK
<1>2. Pending(x)' \subseteq Pending(x)
  BY DEF Pending
<1>3. Cardinality(Pending(x))' <= Cardinality(Pending(x))
  BY <1>2, PendingSize, SubsetSize
<1> QED BY <1>1, <1>3, PendingSize DEF Throttled

LEMMA SendThrottled ==
  ASSUME TypeOK, ThrottleInv, NEW t \in Callbacks, Send(t)
  PROVE  ThrottleInv'
<1>1. CASE due' = due /\ burst' = burst /\ Goto(t, "idle")
  <2>1. \A s \in Callbacks : pc'[s] = "send" => pc[s] = "send" /\ at'[s] = at[s]
    BY <1>1 DEF Send, Goto, TypeOK
  <2> QED BY <1>1, <2>1, QuietStep
<1>2. CASE /\ due' = due \ {at[t]}
           /\ burst' = [burst EXCEPT ![at[t]] = burst[at[t]] + 1]
           /\ NextChannel(t)
  <2> SUFFICES ASSUME NEW x \in Groups \X Channels
               PROVE  Throttled(x)'
    BY DEF ThrottleInv
  <2>1. Throttled(x) /\ burst \in [Groups \X Channels -> Nat] /\ burst[x] \in Nat
    BY DEF ThrottleInv, TypeOK
  <2>2. Pending(x)' = Pending(x) \ {t}
    BY <1>2 DEF Pending, NextChannel, Goto, Send, TypeOK
  <2>3. CASE at[t] = x
    <3>1. t \in Pending(x)
      BY <2>3 DEF Pending, Send
    <3>2. Cardinality(Pending(x))' = Cardinality(Pending(x)) - 1
      BY <2>2, <3>1, PendingSize, FS_RemoveElement
    <3>3. burst'[x] = burst[x] + 1 /\ x \notin due'
      BY <1>2, <2>1, <2>3
    <3> QED BY <2>1, <3>2, <3>3, PendingSize DEF Throttled
  <2>4. CASE at[t] # x
    <3>1. Cardinality(Pending(x))' <= Cardinality(Pending(x))
      BY <2>2, PendingSize, SubsetSize
    <3>2. burst'[x] = burst[x] /\ (x \in due' => x \in due)
      BY <1>2, <2>1, <2>4
    <3> QED BY <2>1, <3>1, <3>2, PendingSize DEF Throttled
  <2> QED BY <2>3, <2>4
<1> QED BY <1>1, <1>2 DEF Send

LEMMA ThrottleThrottled ==
  ASSUME TypeOK, ThrottleInv, NEW t \in Callbacks, Throttle(t)
  PROVE  ThrottleInv'
<1>1. CASE MaySend(t) /\ Goto(t, "send") /\ UNCHANGED at
  <2> SUFFICES ASSUME NEW x \in Groups \X Channels
               PROVE  Throttled(x)'
    BY DEF ThrottleInv
  <2>1. Throttled(x) /\ burst[x] \in Nat /\ burst' = burst /\ due' = due
    BY DEF ThrottleInv, TypeOK, Throttle
  <2>2. CASE x \in due
    BY <2>1, <2>2, PendingSize DEF Throttled
  <2>3. CASE x \notin due
    <3>1. Pending(x)' \subseteq Pending(x)
      BY <1>1, <2>3 DEF Pending, MaySend, Goto, TypeOK
    <3>2. Cardinality(Pending(x))' <= Cardinality(Pending(x))
      BY <3>1, PendingSize, SubsetSize
    <3> QED BY <2>1, <3>2, PendingSize DEF Throttled
  <2> QED BY <2>2, <2>3
<1>2. CASE NextChannel(t)
  <2>1. \A s \in Callbacks : pc'[s] = "send" => pc[s] = "send" /\ at'[s] = at[s]
    BY <1>2 DEF NextChannel, Goto, TypeOK
  <2>2. due' = due /\ burst' = burst
    BY DEF Throttle
  <2> QED BY <2>1, <2>2, QuietStep
<1> QED BY <1>1, <1>2 DEF Throttle

LEMMA CheckThrottled ==
  ASSUME TypeOK, ThrottleInv, NEW t \in Callbacks, Check(t)
  PROVE  ThrottleInv'
<1>1. CASE CheckBegins(t) \/ CheckEnds(t) \/ CreateReads(t) \/ CreateInserts(t)
             \/ AlarmIsHandling(t)
  <2>1. \A s \in Callbacks : pc'[s] = "send" => pc[s] = "send" /\ at'[s] = at[s]
    <3>1. CASE CheckBegins(t)
      BY <3>1 DEF CheckBegins, Goto, TypeOK
    <3>2. CASE CheckEnds(t)
      BY <3>2 DEF CheckEnds, Goto, TypeOK
    <3>3. CASE CreateReads(t)
      BY <3>3 DEF CreateReads, Goto, TypeOK
    <3>4. CASE CreateInserts(t)
      BY <3>4 DEF CreateInserts, Goto, TypeOK
    <3>5. CASE AlarmIsHandling(t)
      BY <3>5 DEF AlarmIsHandling, Goto, TypeOK
    <3> QED BY <1>1, <3>1, <3>2, <3>3, <3>4, <3>5
  <2>2. due' = due /\ burst' = burst
    BY <1>1 DEF CheckBegins, CheckEnds, CreateReads, CreateInserts, AlarmIsHandling
  <2> QED BY <2>1, <2>2, QuietStep
<1> QED BY <1>1, SendThrottled, ThrottleThrottled DEF Check

LEMMA ThrottleStep == TypeOK /\ ThrottleInv /\ [Next]_vars => ThrottleInv'
<1> SUFFICES ASSUME TypeOK, ThrottleInv, [Next]_vars
             PROVE  ThrottleInv'
  OBVIOUS
<1>1. ASSUME NEW x \in Groups \X Channels, IntervalPasses(x)
      PROVE  ThrottleInv'
  <2> SUFFICES ASSUME NEW y \in Groups \X Channels
               PROVE  Throttled(y)'
    BY DEF ThrottleInv
  <2>1. /\ Throttled(y) /\ burst[y] \in Nat
        /\ burst \in [Groups \X Channels -> Nat]
    BY DEF ThrottleInv, TypeOK
  <2>2. Pending(y)' = Pending(y)
    BY <1>1 DEF IntervalPasses, callbacks, Pending
  <2>3. CASE x = y
    <3>1. burst'[y] = 0
      BY <1>1, <2>1, <2>3 DEF IntervalPasses
    <3> QED BY <3>1, PendingSize DEF Throttled
  <2>4. CASE x # y
    <3>1. burst'[y] = burst[y] /\ (y \in due' => y \in due)
      BY <1>1, <2>1, <2>4 DEF IntervalPasses
    <3> QED BY <2>1, <2>2, <3>1 DEF Throttled
  <2> QED BY <2>3, <2>4
<1>2. CASE UNCHANGED <<due, callbacks, burst>>
  BY <1>2, QuietStep DEF callbacks
<1>3. ASSUME NEW u \in Users, UserReads(u) \/ UserSaves(u)
      PROVE  UNCHANGED <<due, callbacks, burst>>
  BY <1>3 DEF UserReads, UserSaves
<1>4. ASSUME ClearExpiredAlarmItem \/ \E i \in Ids : ProcessTimeoutPasses(i)
      PROVE  UNCHANGED <<due, callbacks, burst>>
  BY <1>4 DEF ClearExpiredAlarmItem, ClearBegins, ClearCloses, ClearSkips, ClearFails,
              ProcessTimeoutPasses
<1>5. CASE UNCHANGED vars
  BY <1>2, <1>5 DEF vars
<1> QED BY <1>1, <1>2, <1>3, <1>4, <1>5, CheckThrottled DEF Next

LEMMA ThrottleInit == Init => ThrottleInv
<1> SUFFICES ASSUME Init, NEW x \in Groups \X Channels
             PROVE  Throttled(x)
  BY DEF ThrottleInv
<1>1. burst[x] = 0
  BY DEF Init
<1> QED BY <1>1, PendingSize DEF Throttled

LEMMA ThrottleBound == TypeOK /\ ThrottleInv => MessagesAreThrottled
<1> SUFFICES ASSUME TypeOK, ThrottleInv, NEW x \in Groups \X Channels
             PROVE  burst[x] <= Cardinality(Callbacks)
  BY DEF MessagesAreThrottled
<1> QED BY PendingSize DEF ThrottleInv, Throttled, TypeOK

\* However many callbacks overlap, each sends at most one message to a group's channel in
\* an interval, although nothing is held between looking at the time and setting it.
THEOREM MessagesThrottled == Spec => []MessagesAreThrottled
<1>1. Init => TypeOK /\ ThrottleInv
  BY InitType, ThrottleInit
<1>2. TypeOK /\ ThrottleInv /\ [Next]_vars => (TypeOK /\ ThrottleInv)'
  BY NextType, ThrottleStep
<1> QED BY <1>1, <1>2, ThrottleBound, PTL DEF Spec

----------------------------------------------------------------------------
\* Active events: a row is claimed when it is not closed or a user is about to take over,
\* with the status it had before, an event read when nobody was handling it.

Inserting == {t \in Callbacks : pc[t] = "insert"}

Reviving == {u \in Users : user[u].op = "handle" /\ user[u].was = "Open"}

ReviveIds == {user[u].id : u \in Reviving}

Claims == Active \cup ReviveIds

ClaimsBounded ==
  Cardinality(Claims) + Cardinality(Inserting) < Cardinality(Callbacks) + Cardinality(Users)

\* When all users are, the event the last of them has read is still open: nobody is left
\* to handle or close it, and the clearing timer takes only events being handled.
SomeReadOpen == Reviving = Users => \E u \in Users : row[user[u].id] = "Open"

ActiveInv == ClaimsBounded /\ SomeReadOpen

LEMMA RevivingTyped ==
  ASSUME TypeOK, NEW u \in Users, user[u].op \in {"handle", "close"}
  PROVE  user[u] \in [op : {"handle", "close"}, id : Ids, was : {"Open", "Handling"}]
BY DEF TypeOK, Nothing

LEMMA ClaimSizes ==
  ASSUME TypeOK
  PROVE  /\ IsFiniteSet(Callbacks) /\ Cardinality(Callbacks) \in Nat
         /\ IsFiniteSet(Users) /\ Cardinality(Users) \in Nat
         /\ Claims \subseteq Ids /\ IsFiniteSet(Claims) /\ Cardinality(Claims) \in Nat
         /\ IsFiniteSet(Inserting) /\ Cardinality(Inserting) \in Nat
         /\ Cardinality(Inserting) <= Cardinality(Callbacks)
<1>1. IsFiniteSet(Callbacks) /\ IsFiniteSet(Users) /\ IsFiniteSet(Ids)
  BY AlarmAssumption
<1>2. ReviveIds \subseteq Ids
  BY RevivingTyped DEF ReviveIds, Reviving
<1>3. Claims \subseteq Ids /\ Inserting \subseteq Callbacks
  BY <1>2 DEF Claims, Active, Inserting
<1> QED BY <1>1, <1>3, SubsetSize, FS_CardinalityType

LEMMA ReviveSize == Cardinality(ReviveIds) <= Cardinality(Reviving)
<1> DEFINE f == [u \in Reviving |-> user[u].id]
<1>1. f \in Surjection(Reviving, ReviveIds)
  BY DEF Surjection, ReviveIds
<1>2. Reviving \subseteq Users /\ IsFiniteSet(Users)
  BY AlarmAssumption DEF Reviving
<1>3. IsFiniteSet(Reviving)
  BY <1>2, SubsetSize
<1> HIDE DEF f
<1> QED BY <1>1, <1>3, FS_Surjection

\* A step that adds no claim and no callback about to insert.
LEMMA ClaimsShrink ==
  ASSUME TypeOK, TypeOK', ClaimsBounded, Claims' \subseteq Claims, Inserting' \subseteq Inserting
  PROVE  ClaimsBounded'
<1>1. Cardinality(Claims') <= Cardinality(Claims)
  BY ClaimSizes, SubsetSize
<1>2. Cardinality(Inserting') <= Cardinality(Inserting)
  BY ClaimSizes, SubsetSize
<1>3. Cardinality(Claims') \in Nat /\ Cardinality(Inserting') \in Nat
  BY ClaimSizes, SubsetSize
<1> QED BY <1>1, <1>2, <1>3, ClaimSizes DEF ClaimsBounded

\* An event is found missing only while some user revives nothing.
LEMMA ReadsBounded ==
  ASSUME TypeOK, TypeOK', ActiveInv, NEW t \in Callbacks, NoneActive,
         UNCHANGED <<row, user>>
  PROVE  ClaimsBounded'
<1>1. Claims' = Claims /\ Claims = ReviveIds
  BY DEF NoneActive, Claims, Active, ReviveIds, Reviving
<1>2. PICK u \in Users : u \notin Reviving
  <2> SUFFICES ASSUME Reviving = Users
               PROVE  FALSE
    BY DEF Reviving
  <2>1. PICK u \in Users : row[user[u].id] = "Open"
    BY DEF ActiveInv, SomeReadOpen
  <2>2. user[u].id \in Ids
    BY RevivingTyped DEF Reviving
  <2> QED BY <2>1, <2>2 DEF NoneActive, Active
<1>3. Reviving \subseteq Users /\ Reviving # Users
  BY <1>2 DEF Reviving
<1>4. Cardinality(Reviving) \in Nat /\ Cardinality(Reviving) < Cardinality(Users)
  BY <1>3, ClaimSizes, FS_Subset, FS_CardinalityType
<1>5. /\ Cardinality(Inserting') \in Nat
      /\ Cardinality(Inserting') <= Cardinality(Callbacks)
  <2>1. Inserting' \subseteq Callbacks
    BY DEF Inserting
  <2> QED BY <2>1, ClaimSizes, SubsetSize
<1>6. Cardinality(Claims') < Cardinality(Users) /\ Cardinality(Claims') \in Nat
  BY <1>1, <1>4, ReviveSize, ClaimSizes
<1> QED BY <1>5, <1>6, ClaimSizes DEF ClaimsBounded

LEMMA InsertBounded ==
  ASSUME TypeOK, TypeOK', ClaimsBounded, NEW t \in Callbacks, CreateInserts(t)
  PROVE  ClaimsBounded'
<1>1. Inserting' = Inserting \ {t} /\ t \in Inserting
  BY DEF CreateInserts, Inserting, Goto, TypeOK
<1>2. Cardinality(Inserting') = Cardinality(Inserting) - 1
  BY <1>1, ClaimSizes, FS_RemoveElement
<1>3. PICK i \in Ids \cup {t} : Claims' \subseteq Claims \cup {i}
  BY DEF CreateInserts, Claims, Active, ReviveIds, Reviving, TypeOK
<1>4. /\ IsFiniteSet(Claims \cup {i}) /\ Cardinality(Claims \cup {i}) \in Nat
      /\ Cardinality(Claims \cup {i}) <= Cardinality(Claims) + 1
  <2>1. IsFiniteSet(Claims) /\ Cardinality(Claims) \in Nat
    BY ClaimSizes
  <2>2. /\ IsFiniteSet(Claims \cup {i})
        /\ Cardinality(Claims \cup {i})
             = IF i \in Claims THEN Cardinality(Claims) ELSE Cardinality(Claims) + 1
    BY <2>1, FS_AddElement
  <2> QED BY <2>1, <2>2
<1>5. Cardinality(Claims') \in Nat /\ Cardinality(Claims') <= Cardinality(Claims) + 1
  BY <1>3, <1>4, ClaimSizes, SubsetSize
<1> QED BY <1>2, <1>5, ClaimSizes DEF ClaimsBounded

LEMMA CheckActive ==
  ASSUME TypeOK, TypeOK', ActiveInv, NEW t \in Callbacks, Check(t)
  PROVE  ActiveInv'
<1>1. SomeReadOpen'
  <2>1. user' = user /\ \A i \in Ids : row[i] = "Open" => row'[i] = "Open"
    BY DEF Check, CheckBegins, CheckEnds, CreateReads, CreateInserts, AlarmIsHandling,
           Throttle, Send, TypeOK
  <2> QED BY <2>1, RevivingTyped DEF ActiveInv, SomeReadOpen, Reviving
<1>2. CASE CreateInserts(t)
  BY <1>1, <1>2, InsertBounded DEF ActiveInv
<1>3. CASE CreateReads(t) /\ NoneActive
  BY <1>1, <1>3, ReadsBounded DEF ActiveInv, CreateReads
<1>4. CASE ~CreateInserts(t) /\ ~(CreateReads(t) /\ NoneActive)
  <2>1. UNCHANGED <<row, user>>
    BY <1>4 DEF Check, CheckBegins, CheckEnds, CreateReads, AlarmIsHandling, Throttle, Send
  <2>2. Claims' = Claims
    BY <2>1 DEF Claims, Active, ReviveIds, Reviving
  <2>3. Inserting' \subseteq Inserting
    BY <1>4 DEF Check, CheckBegins, CheckEnds, CreateReads, AlarmIsHandling, Throttle, Send,
                NextChannel, Goto, Inserting, TypeOK
  <2> QED BY <1>1, <2>2, <2>3, ClaimsShrink DEF ActiveInv
<1> QED BY <1>2, <1>3, <1>4

LEMMA UserActive ==
  ASSUME TypeOK, TypeOK', ActiveInv, NEW u \in Users, UserReads(u) \/ UserSaves(u)
  PROVE  ActiveInv'
<1>1. Inserting' = Inserting
  BY DEF UserReads, UserSaves, callbacks, Inserting
<1>2. CASE UserReads(u)
  <2>1. PICK i \in Active, op \in {"handle", "close"} :
               user' = [user EXCEPT ![u] = [op |-> op, id |-> i, was |-> row[i]]]
    BY <1>2 DEF UserReads
  <2>2. row' = row /\ user'[u] = [op |-> op, id |-> i, was |-> row[i]]
    BY <1>2, <2>1 DEF UserReads, TypeOK
  <2>3. \A v \in Users \ {u} : user'[v] = user[v]
    BY <2>1 DEF TypeOK
  <2>4. ReviveIds' \subseteq ReviveIds \cup {i}
    BY <2>2, <2>3 DEF ReviveIds, Reviving
  <2>5. Claims' \subseteq Claims
    BY <2>1, <2>2, <2>4 DEF Claims, Active
  <2>6. Reviving' = Users => row'[user'[u].id] = "Open"
    BY <2>2 DEF Reviving
  <2> QED BY <1>1, <2>5, <2>6, ClaimsShrink DEF ActiveInv, SomeReadOpen
<1>3. CASE UserSaves(u)
  <2>1. /\ user'[u] = Nothing
        /\ \A v \in Users \ {u} : user'[v] = user[v]
    BY <1>3 DEF UserSaves, TypeOK
  <2>2. u \notin Reviving' /\ Reviving' \subseteq Reviving
    BY <2>1 DEF Reviving, Nothing
  <2>3. ReviveIds' \subseteq ReviveIds
    <3>1. \A v \in Reviving' : v \in Reviving /\ user'[v].id = user[v].id
      BY <2>1, <2>2 DEF Reviving
    <3> QED BY <3>1 DEF ReviveIds
  <2>4. Active' \subseteq Claims
    <3>1. CASE HandleSaves(u)
      <4>1. user[u] \in [op : {"handle", "close"}, id : Ids, was : {"Open", "Handling"}]
        BY <3>1, RevivingTyped DEF HandleSaves
      <4>2. CASE user[u].was = "Handling"
        BY <3>1, <4>1, <4>2 DEF HandleSaves, StatusSaved, Active, Claims, TypeOK
      <4>3. CASE user[u].was = "Open"
        <5>1. user[u].id \in ReviveIds
          BY <3>1, <4>3 DEF HandleSaves, ReviveIds, Reviving
        <5> QED BY <3>1, <4>1, <5>1 DEF HandleSaves, Active, Claims, TypeOK
      <4> QED BY <4>1, <4>2, <4>3
    <3>2. CASE CloseSaves(u)
      BY <3>2 DEF CloseSaves, Active, Claims, TypeOK
    <3>3. CASE UNCHANGED row
      BY <3>3 DEF Active, Claims
    <3> QED BY <1>3, <3>1, <3>2, <3>3 DEF UserSaves
  <2>5. Claims' \subseteq Claims
    BY <2>3, <2>4 DEF Claims
  <2>6. SomeReadOpen'
    BY <2>2 DEF SomeReadOpen
  <2> QED BY <1>1, <2>5, <2>6, ClaimsShrink DEF ActiveInv
<1> QED BY <1>2, <1>3

\* The clearing timer and time: rows that are being handled may be closed.
LEMMA OthersActive ==
  ASSUME TypeOK, TypeOK', ActiveInv, UNCHANGED <<user, pc>>,
         \A i \in Ids : row'[i] # row[i] => row[i] # "Open" /\ row'[i] = "Closed"
  PROVE  ActiveInv'
<1>1. Inserting' = Inserting /\ Reviving' = Reviving /\ ReviveIds' = ReviveIds
  BY DEF Inserting, Reviving, ReviveIds
<1>2. Claims' \subseteq Claims
  BY <1>1 DEF Claims, Active
<1>3. SomeReadOpen'
  BY <1>1, RevivingTyped DEF ActiveInv, SomeReadOpen, Reviving
<1> QED BY <1>1, <1>2, <1>3, ClaimsShrink DEF ActiveInv

LEMMA ClearActive ==
  ASSUME TypeOK, TypeOK', ActiveInv, ClearExpiredAlarmItem
  PROVE  ActiveInv'
<1>1. UNCHANGED <<user, pc>>
  BY DEF ClearExpiredAlarmItem, ClearBegins, ClearCloses, ClearSkips, ClearFails, callbacks
<1>2. \A i \in Ids : row'[i] # row[i] => row[i] # "Open" /\ row'[i] = "Closed"
  <2>1. ASSUME NEW j \in Ids, ClearCloses(j)
        PROVE  \A i \in Ids : row'[i] # row[i] => row[i] # "Open" /\ row'[i] = "Closed"
    BY <2>1 DEF ClearCloses, TypeOK
  <2>2. CASE row' = row
    BY <2>2
  <2> QED BY <2>1, <2>2 DEF ClearExpiredAlarmItem, ClearBegins, ClearSkips, ClearFails
<1> QED BY <1>1, <1>2, OthersActive

LEMMA ActiveStep == TypeOK /\ TypeOK' /\ ActiveInv /\ [Next]_vars => ActiveInv'
<1> SUFFICES ASSUME TypeOK, TypeOK', ActiveInv, [Next]_vars
             PROVE  ActiveInv'
  OBVIOUS
<1>1. CASE UNCHANGED <<user, pc, row>>
  BY <1>1, OthersActive
<1>2. ASSUME NEW x \in Groups \X Channels, IntervalPasses(x)
      PROVE  UNCHANGED <<user, pc, row>>
  BY <1>2 DEF IntervalPasses, callbacks
<1>3. ASSUME NEW i \in Ids, ProcessTimeoutPasses(i)
      PROVE  UNCHANGED <<user, pc, row>>
  BY <1>3 DEF ProcessTimeoutPasses, callbacks
<1>4. CASE UNCHANGED vars
  BY <1>1, <1>4 DEF vars, callbacks
<1> QED BY <1>1, <1>2, <1>3, <1>4, CheckActive, UserActive, ClearActive DEF Next

LEMMA ActiveInit == Init => ActiveInv
<1> SUFFICES ASSUME Init
             PROVE  ActiveInv
  OBVIOUS
<1>1. Reviving = {} /\ ReviveIds = {}
  BY DEF Init, Reviving, ReviveIds, Nothing
<1>2. Claims = {} /\ Inserting = {}
  BY <1>1 DEF Claims, Inserting, Active, Init
<1>3. Users # {} /\ IsFiniteSet(Users) /\ IsFiniteSet(Callbacks)
  BY AlarmAssumption
<1>4. /\ Cardinality(Users) \in Nat /\ Cardinality(Users) # 0
      /\ Cardinality(Callbacks) \in Nat
  BY <1>3, FS_CardinalityType, FS_EmptySet
<1>5. ClaimsBounded
  BY <1>2, <1>4, FS_EmptySet DEF ClaimsBounded
<1> QED BY <1>1, <1>3, <1>5 DEF ActiveInv, SomeReadOpen

LEMMA ActiveBound == TypeOK /\ ActiveInv => ActiveEventsAreBounded
<1> SUFFICES ASSUME TypeOK, ActiveInv
             PROVE  ActiveEventsAreBounded
  OBVIOUS
<1>1. Active \subseteq Claims
  BY DEF Claims
<1>2. Cardinality(Active) \in Nat /\ Cardinality(Active) <= Cardinality(Claims)
  BY <1>1, ClaimSizes, SubsetSize
<1> QED BY <1>2, ClaimSizes DEF ActiveInv, ClaimsBounded, ActiveEventsAreBounded

\* Overlapping callbacks and people acting on what they read earlier leave fewer events
\* that are not closed than there are callbacks and users together.
THEOREM ActiveEventsBounded == Spec => []ActiveEventsAreBounded
<1>1. Init => TypeOK /\ ActiveInv
  BY InitType, ActiveInit
<1>2. TypeOK /\ ActiveInv /\ [Next]_vars => (TypeOK /\ ActiveInv)'
  BY NextType, ActiveStep
<1> QED BY <1>1, <1>2, ActiveBound, PTL DEF Spec

----------------------------------------------------------------------------
\* Closed events.

\* No step but the saving of a take-over that was read before the first one revives an event.
LEMMA RevivalStep ==
  ASSUME TypeOK, [Next]_vars, NEW i \in Ids, row[i] = "Closed", row'[i] # "Closed"
  PROVE  \E u \in Users : /\ user[u] = [op |-> "handle", id |-> i, was |-> "Open"]
                          /\ user'[u] = Nothing
<1>1. ASSUME NEW t \in Callbacks, CreateInserts(t)
      PROVE  FALSE
  BY <1>1 DEF CreateInserts, TypeOK
<1>2. ASSUME NEW u \in Users, UserSaves(u)
      PROVE  user[u] = [op |-> "handle", id |-> i, was |-> "Open"] /\ user'[u] = Nothing
  <2>1. user[u] \in [op : {"handle", "close"}, id : Ids, was : {"Open", "Handling"}]
        /\ user'[u] = Nothing
    BY <1>2 DEF UserSaves, TypeOK
  <2>2. row' = [row EXCEPT ![user[u].id] = StatusSaved(u)] /\ user[u].op = "handle"
    BY <1>2, <2>1 DEF UserSaves, HandleSaves, CloseSaves, TypeOK
  <2>3. user[u].id = i /\ user[u].was = "Open"
    BY <2>1, <2>2 DEF StatusSaved, TypeOK
  <2> QED BY <2>1, <2>2, <2>3
<1>3. ASSUME NEW j \in Ids, ClearCloses(j)
      PROVE  FALSE
  BY <1>3 DEF ClearCloses, TypeOK
<1>4. \/ UNCHANGED row
      \/ \E t \in Callbacks : CreateInserts(t)
      \/ \E u \in Users : UserSaves(u)
      \/ \E j \in Ids : ClearCloses(j)
  BY DEF Next, vars, Check, CheckBegins, CheckEnds, CreateReads, AlarmIsHandling, Throttle, Send,
         UserReads, ClearExpiredAlarmItem, ClearBegins, ClearSkips, ClearFails, IntervalPasses,
         ProcessTimeoutPasses
<1> QED BY <1>1, <1>2, <1>3, <1>4

\* Only a take-over by someone who read the event while it was open revives a closed one.
THEOREM ClosedStaysClosed == Spec => RevivedOnlyByStaleRead
<1>1. TypeOK /\ [Next]_vars
      => [\A i \in Ids : row[i] = "Closed" /\ row'[i] # "Closed" =>
            \E u \in Users : /\ user[u] = [op |-> "handle", id |-> i, was |-> "Open"]
                             /\ user'[u] = Nothing]_vars
  BY RevivalStep
<1> QED BY <1>1, TypeCorrect, PTL DEF Spec, RevivedOnlyByStaleRead

----------------------------------------------------------------------------
\* Who closes an event.

\* What the timer takes for overdue is so, or it was handled anew since the timer read it.
LapsedForAReason == \A i \in lapsed : i \in overdue \cup renewed \/ row[i] = "Closed"

ClosedForAReason ==
  \A i \in Ids : row[i] \in {"Open", "Handling"} /\ row'[i] = "Closed" =>
    \/ i \in overdue \cup renewed
    \/ \E u \in Users : user[u] # Nothing /\ user[u].op = "close" /\ user[u].id = i
                        /\ user'[u] = Nothing

LEMMA LapsedStep ==
  ASSUME TypeOK, LapsedForAReason, [Next]_vars
  PROVE  LapsedForAReason'
<1>1. ASSUME UNCHANGED <<row, overdue, clearing>>
      PROVE  LapsedForAReason'
  BY <1>1 DEF LapsedForAReason, clearing
<1>2. CASE UNCHANGED vars
  BY <1>1, <1>2 DEF vars
<1>3. ASSUME NEW t \in Callbacks, Check(t)
      PROVE  LapsedForAReason'
  <2>1. CASE CreateInserts(t)
    BY <2>1 DEF CreateInserts, LapsedForAReason, TypeOK, clearing
  <2>2. CASE ~CreateInserts(t)
    BY <1>1, <1>3, <2>2 DEF Check, CheckBegins, CheckEnds, CreateReads, AlarmIsHandling, Throttle,
       Send
  <2> QED BY <2>1, <2>2
<1>4. ASSUME NEW u \in Users, UserReads(u)
      PROVE  LapsedForAReason'
  BY <1>1, <1>4 DEF UserReads
<1>5. ASSUME NEW u \in Users, UserSaves(u)
      PROVE  LapsedForAReason'
  BY <1>5 DEF UserSaves, HandleSaves, CloseSaves, LapsedForAReason, TypeOK
<1>6. CASE ClearExpiredAlarmItem
  BY <1>6 DEF ClearExpiredAlarmItem, ClearBegins, ClearCloses, ClearSkips, ClearFails, ClearReads,
     LapsedForAReason, TypeOK
<1>7. ASSUME NEW x \in Groups \X Channels, IntervalPasses(x)
      PROVE  LapsedForAReason'
  BY <1>1, <1>7 DEF IntervalPasses
<1>8. ASSUME NEW i \in Ids, ProcessTimeoutPasses(i)
      PROVE  LapsedForAReason'
  BY <1>8 DEF ProcessTimeoutPasses, LapsedForAReason, TypeOK
<1> QED BY <1>2, <1>3, <1>4, <1>5, <1>6, <1>7, <1>8 DEF Next

LEMMA ClosingStep ==
  ASSUME TypeOK, LapsedForAReason, [Next]_vars
  PROVE  ClosedForAReason
<1> SUFFICES ASSUME NEW i \in Ids, row[i] \in {"Open", "Handling"}, row'[i] = "Closed"
             PROVE  \/ i \in overdue \cup renewed
                    \/ \E u \in Users : user[u] # Nothing /\ user[u].op = "close" /\ user[u].id = i
                                        /\ user'[u] = Nothing
  BY DEF ClosedForAReason
<1>1. row' # row
  OBVIOUS
<1>2. ASSUME NEW t \in Callbacks, Check(t)
      PROVE  FALSE
  <2>1. CreateInserts(t)
    BY <1>1, <1>2 DEF Check, CheckBegins, CheckEnds, CreateReads, AlarmIsHandling, Throttle, Send
  <2> QED BY <2>1 DEF CreateInserts, TypeOK
<1>3. ASSUME NEW u \in Users, UserReads(u) \/ UserSaves(u)
      PROVE  user[u] # Nothing /\ user[u].op = "close" /\ user[u].id = i /\ user'[u] = Nothing
  <2>1. UserSaves(u)
    BY <1>1, <1>3 DEF UserReads
  <2>2. user[u] # Nothing /\ user'[u] = Nothing /\ (HandleSaves(u) \/ CloseSaves(u))
    BY <1>1, <2>1 DEF UserSaves, TypeOK
  <2>3. user[u].id \in Ids
    BY <2>2 DEF TypeOK
  <2>4. ~HandleSaves(u)
    BY <2>3 DEF HandleSaves, StatusSaved, TypeOK
  <2> QED BY <2>2, <2>3, <2>4 DEF CloseSaves, TypeOK
<1>4. ASSUME ClearExpiredAlarmItem
      PROVE  i \in overdue \cup renewed
  <2>1. ClearCloses(i)
    BY <1>1, <1>4 DEF ClearExpiredAlarmItem, ClearBegins, ClearCloses, ClearSkips, ClearFails,
       TypeOK
  <2> QED BY <2>1 DEF ClearCloses, LapsedForAReason
<1>5. \A x \in Groups \X Channels : ~IntervalPasses(x)
  BY <1>1 DEF IntervalPasses
<1>6. \A j \in Ids : ~ProcessTimeoutPasses(j)
  BY <1>1 DEF ProcessTimeoutPasses
<1> QED BY <1>1, <1>2, <1>3, <1>4, <1>5, <1>6 DEF Next, vars

\* An event is closed by a user who meant to, or by the timer when its time is over: the only
\* other events the timer closes are those taken over again between its query and its save.
THEOREM ClosingsAreJustified == Spec => [][ClosedForAReason]_vars
<1>1. Init => LapsedForAReason
  BY DEF Init, LapsedForAReason
<1>2. Spec => []LapsedForAReason
  BY <1>1, LapsedStep, TypeCorrect, PTL DEF Spec
<1> QED BY <1>2, ClosingStep, TypeCorrect, PTL DEF Spec
=============================================================================
