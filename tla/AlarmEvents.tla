---------------------------- MODULE AlarmEvents ----------------------------
(***************************************************************************)
(* The alarm events of one alarm configuration: the check timer of         *)
(* AlarmService whose callbacks may overlap, the timer that closes events  *)
(* nobody finished, and the people who take over and close events in the   *)
(* web console.  They share rows of a database without row versions, and   *)
(* the callbacks share the times of the last messages without a lock.      *)
(*                                                                         *)
(* A query and the SaveChanges that follows it are two steps.  SaveChanges *)
(* writes the columns that differ from what the query had read, so a       *)
(* status that has not changed in memory is not written.  AlarmTimes, a    *)
(* counter nothing depends on, is left out, and so is AlarmService.Init    *)
(* after a change of the configuration: every event has its configuration. *)
(* A run of the clearing timer ends before its next one begins.            *)
(*                                                                         *)
(* A definition whose name no action uses, right above one the actions do  *)
(* use, is a plausible bug in its place: a property below notices it.      *)
(***************************************************************************)
EXTENDS Naturals, FiniteSets

CONSTANTS
  Ids,        \* the rows the database has room for: a bound of the model
  Groups,     \* the receiver groups of the alarm configuration
  Enabled,    \* the channels each group has enabled: mail, mobile or both
  Callbacks,  \* callbacks of the check timer that may run at a time
  Users       \* people at the web console, each doing one thing at a time

Channels == {"mail", "mobile"}

ASSUME AlarmAssumption ==
  /\ IsFiniteSet(Ids) /\ IsFiniteSet(Callbacks) /\ IsFiniteSet(Users)
  /\ Users # {}
  /\ Enabled \in [Groups -> SUBSET Channels]

VARIABLES
  row,      \* AlarmStatus of each row; "none" where there is no row yet
  overdue,  \* rows being handled whose HandleTime is longer ago than ProcessTimeout
  due,      \* group and channel whose last message is longer ago than the interval
  pc,       \* where each callback is
  todo,     \* groups the callback has still to look at
  at,       \* group and channel the callback works on
  silenced, \* what AlarmIsHandling returned to the callback
  user,     \* what each user is about to save, from which row and which status read
  listed,   \* openItems of the clearing timer that are still to be looked at
  lapsed,   \* those of them whose HandleTime, as read, is overdue
  renewed,  \* those of them taken over again since they were read
  burst     \* history: messages since the interval was last over

callbacks == <<pc, todo, at, silenced>>
clearing == <<listed, lapsed, renewed>>
vars == <<row, overdue, due, callbacks, user, clearing, burst>>

Statuses == {"Open", "Handling", "Closed"}

Active == {i \in Ids : row[i] \in {"Open", "Handling"}}

Nothing == [op |-> "nothing"]

Init ==
  /\ row = [i \in Ids |-> "none"]
  /\ overdue = {}
  /\ due = Groups \X Channels
  /\ pc = [t \in Callbacks |-> "idle"]
  /\ todo = [t \in Callbacks |-> {}]
  /\ at \in [Callbacks -> Groups \X {"mail"}]
  /\ silenced = [t \in Callbacks |-> FALSE]
  /\ user = [u \in Users |-> Nothing]
  /\ listed = {} /\ lapsed = {} /\ renewed = {}
  /\ burst = [x \in Groups \X Channels |-> 0]

----------------------------------------------------------------------------
\* A callback of the check timer.

Goto(t, l) == pc' = [pc EXCEPT ![t] = l]

\* The condition of the alarm is met: every receiver group is looked at.
CheckBegins(t) ==
  /\ pc[t] = "idle"
  /\ Goto(t, "group")
  /\ todo' = [todo EXCEPT ![t] = Groups]
  /\ UNCHANGED <<row, overdue, due, at, silenced, user, clearing, burst>>

CheckEnds(t) ==
  /\ pc[t] = "group"
  /\ todo[t] = {}
  /\ Goto(t, "idle")
  /\ UNCHANGED <<row, overdue, due, todo, at, silenced, user, clearing, burst>>

NoneOpen == \A i \in Ids : row[i] # "Open"

NoneActive == Active = {}

\* CreateAlarmEvent asks for an event that is not closed; a query that fails ends it.
CreateReads(t) ==
  /\ pc[t] = "group"
  /\ \E g \in todo[t] :
       /\ todo' = [todo EXCEPT ![t] = todo[t] \ {g}]
       /\ at' = [at EXCEPT ![t] = <<g, "mail">>]
  /\ \/ NoneActive /\ Goto(t, "insert")
     \/ Goto(t, "ask")
  /\ UNCHANGED <<row, overdue, due, silenced, user, clearing, burst>>

CreateInserts(t) ==
  /\ pc[t] = "insert"
  /\ \/ \E i \in Ids : row[i] = "none" /\ row' = [row EXCEPT ![i] = "Open"]
     \/ UNCHANGED row
  /\ Goto(t, "ask")
  /\ UNCHANGED <<overdue, due, todo, at, silenced, user, clearing, burst>>

\* AlarmIsHandling looks at one event that is not closed; a failing query counts as no.
AlarmIsHandling(t) ==
  /\ pc[t] = "ask"
  /\ \E b \in {FALSE} \cup {row[i] = "Handling" : i \in Active} :
       silenced' = [silenced EXCEPT ![t] = b]
  /\ Goto(t, "throttle")
  /\ UNCHANGED <<row, overdue, due, todo, at, user, clearing, burst>>

\* First mail, then mobile.
NextChannel(t) ==
  \/ /\ at[t][2] = "mail"
     /\ at' = [at EXCEPT ![t] = <<at[t][1], "mobile">>]
     /\ Goto(t, "throttle")
  \/ /\ at[t][2] = "mobile"
     /\ at' = [at EXCEPT ![t] = <<at[t][1], "mail">>]
     /\ Goto(t, "group")

MaySendAlways(t) == at[t][2] \in Enabled[at[t][1]] /\ ~silenced[t]

MaySend(t) == at[t][2] \in Enabled[at[t][1]] /\ ~silenced[t] /\ at[t] \in due

Throttle(t) ==
  /\ pc[t] = "throttle"
  /\ \/ MaySend(t) /\ Goto(t, "send") /\ UNCHANGED at
     \/ ~MaySend(t) /\ NextChannel(t)
  /\ UNCHANGED <<row, overdue, due, todo, silenced, user, clearing, burst>>

\* Messages are enqueued and the time is set; a receiver that cannot be read ends the
\* callback before, with the groups it has not looked at.
Send(t) ==
  /\ pc[t] = "send"
  /\ \/ /\ due' = due \ {at[t]}
        /\ burst' = [burst EXCEPT ![at[t]] = burst[at[t]] + 1]
        /\ NextChannel(t)
        /\ UNCHANGED todo
     \/ /\ Goto(t, "idle")
        /\ todo' = [todo EXCEPT ![t] = {}]
        /\ at' = [at EXCEPT ![t] = <<at[t][1], "mail">>]
        /\ UNCHANGED <<due, burst>>
  /\ UNCHANGED <<row, overdue, silenced, user, clearing>>

Check(t) ==
  \/ CheckBegins(t) \/ CheckEnds(t) \/ CreateReads(t) \/ CreateInserts(t)
  \/ AlarmIsHandling(t) \/ Throttle(t) \/ Send(t)

----------------------------------------------------------------------------
\* The web console: HandleAlarmEvent and CloseAlarmEvent.

UserReads(u) ==
  /\ user[u] = Nothing
  /\ \E i \in Active, op \in {"handle", "close"} :
       user' = [user EXCEPT ![u] = [op |-> op, id |-> i, was |-> row[i]]]
  /\ UNCHANGED <<row, overdue, due, callbacks, clearing, burst>>

StatusAlwaysSaved(u) == "Handling"

\* Taking over an event that was being handled already leaves the status column alone.
StatusSaved(u) ==
  IF user[u].was = "Handling" THEN row[user[u].id] ELSE "Handling"

HandleSaves(u) ==
  /\ user[u].op = "handle"
  /\ row' = [row EXCEPT ![user[u].id] = StatusSaved(u)]
  /\ overdue' = overdue \ {user[u].id}
  /\ renewed' = renewed \cup ({user[u].id} \cap listed)

CloseSaves(u) ==
  /\ user[u].op = "close"
  /\ row' = [row EXCEPT ![user[u].id] = "Closed"]
  /\ overdue' = overdue \ {user[u].id}
  /\ UNCHANGED renewed

\* The changes are saved, or an exception reaches the user.
UserSaves(u) ==
  /\ user[u] # Nothing
  /\ user' = [user EXCEPT ![u] = Nothing]
  /\ HandleSaves(u) \/ CloseSaves(u) \/ UNCHANGED <<row, overdue, renewed>>
  /\ UNCHANGED <<due, callbacks, listed, lapsed, burst>>

----------------------------------------------------------------------------
\* The timer that closes events nobody finished.

ClearReadsOpen == {i \in Ids : row[i] = "Open"}

ClearReads == {i \in Ids : row[i] = "Handling"}

ClearBegins ==
  /\ listed = {}
  /\ listed' = ClearReads
  /\ lapsed' = ClearReads \cap overdue
  /\ UNCHANGED <<renewed, row, overdue, due, callbacks, user, burst>>

\* One turn of its loop.  What a user has saved since the query makes no difference.
ClearCloses(i) ==
  /\ i \in lapsed
  /\ row' = [row EXCEPT ![i] = "Closed"]
  /\ overdue' = overdue \ {i}
  /\ listed' = listed \ {i}
  /\ lapsed' = lapsed \ {i}
  /\ renewed' = renewed \ {i}
  /\ UNCHANGED <<due, callbacks, user, burst>>

ClearSkips(i) ==
  /\ i \in listed \ lapsed
  /\ listed' = listed \ {i}
  /\ renewed' = renewed \ {i}
  /\ UNCHANGED <<row, overdue, due, callbacks, user, lapsed, burst>>

\* A SaveChanges that fails ends the whole run.
ClearFails ==
  /\ lapsed # {}
  /\ listed' = {} /\ lapsed' = {} /\ renewed' = {}
  /\ UNCHANGED <<row, overdue, due, callbacks, user, burst>>

ClearExpiredAlarmItem ==
  ClearBegins \/ (\E i \in Ids : ClearCloses(i) \/ ClearSkips(i)) \/ ClearFails

----------------------------------------------------------------------------
\* Time.

IntervalPasses(x) ==
  /\ x \notin due
  /\ due' = due \cup {x}
  /\ burst' = [burst EXCEPT ![x] = 0]
  /\ UNCHANGED <<row, overdue, callbacks, user, clearing>>

\* The HandleTime the clearing timer has read is the row's or, once renewed, earlier.
ProcessTimeoutPasses(i) ==
  /\ \/ row[i] = "Handling" /\ i \notin overdue /\ overdue' = overdue \cup {i}
     \/ /\ i \in listed \ lapsed
        /\ i \in renewed \/ row[i] = "Closed"
        /\ UNCHANGED overdue
  /\ lapsed' = lapsed \cup (listed \cap {i})
  /\ UNCHANGED <<row, due, callbacks, user, listed, renewed, burst>>

Next ==
  \/ \E t \in Callbacks : Check(t)
  \/ \E u \in Users : UserReads(u) \/ UserSaves(u)
  \/ ClearExpiredAlarmItem
  \/ \E x \in Groups \X Channels : IntervalPasses(x)
  \/ \E i \in Ids : ProcessTimeoutPasses(i)

Spec == Init /\ [][Next]_vars

(***************************************************************************)
(* The clearing timer fires every minute and its loop goes on; saving an   *)
(* event does not fail for ever.  Nothing makes users or alarms happen.    *)
(***************************************************************************)
FairSpec ==
  /\ Spec
  /\ WF_vars(ClearBegins)
  /\ \A i \in Ids : WF_vars(ClearSkips(i)) /\ SF_vars(ClearCloses(i))

----------------------------------------------------------------------------
\* Properties.

\* Every variable has its type; only events being handled can be overdue.
TypeOK ==
  /\ row \in [Ids -> Statuses \cup {"none"}]
  /\ overdue \subseteq {i \in Ids : row[i] = "Handling"}
  /\ due \subseteq Groups \X Channels
  /\ pc \in [Callbacks -> {"idle", "group", "insert", "ask", "throttle", "send"}]
  /\ todo \in [Callbacks -> SUBSET Groups]
  /\ at \in [Callbacks -> Groups \X Channels]
  /\ silenced \in [Callbacks -> BOOLEAN]
  /\ user \in [Users -> {Nothing} \cup [op : {"handle", "close"}, id : Ids,
                                        was : {"Open", "Handling"}]]
  /\ listed \subseteq Ids
  /\ lapsed \subseteq listed /\ renewed \subseteq listed
  /\ burst \in [Groups \X Channels -> Nat]
  /\ \A u \in Users : user[u] # Nothing => row[user[u].id] # "none"
  /\ \A i \in listed : row[i] \in {"Handling", "Closed"}

\* Callbacks that overlap may each insert an event, and users may revive a closed one with
\* what they read before: but events that are not closed do not pile up beyond that.
ActiveEventsAreBounded ==
  Cardinality(Active) < Cardinality(Callbacks) + Cardinality(Users)

\* Within the interval of a group's channel each overlapping callback sends once at most.
MessagesAreThrottled ==
  \A x \in Groups \X Channels : burst[x] <= Cardinality(Callbacks)

\* A closed event stays closed, unless someone takes it over who read it before it was
\* handled for the first time; the clearing timer and the alarms never revive one.
RevivedOnlyByStaleRead ==
  [][\A i \in Ids : row[i] = "Closed" /\ row'[i] # "Closed" =>
       \E u \in Users : /\ user[u] = [op |-> "handle", id |-> i, was |-> "Open"]
                        /\ user'[u] = Nothing]_vars

\* An event whose processing time is over is closed, unless someone takes it over again.
OverdueEventIsClosed ==
  \A i \in Ids : i \in overdue ~> i \notin overdue

\* "The event was not finished within {ProcessTimeout}, the system closes it": the clearing
\* timer closes events whose time is over.
ClosedOnlyWhenOverdue ==
  [][\A i \in Ids : row[i] = "Handling" /\ row'[i] = "Closed" /\ i \notin listed'
                      /\ i \in listed => i \in overdue]_vars
=============================================================================
