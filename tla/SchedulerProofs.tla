--------------------------- MODULE SchedulerProofs ---------------------------
(***************************************************************************)
(* Module Scheduler keeps its promises for any recurring work, any events, *)
(* any intervals, backoffs and batches, and any number of crashes: what a  *)
(* run claimed is what the tables still say (RunInvariant), the one alarm  *)
(* covers every deadline and every pending event (AlarmCoversAll), and a   *)
(* run leaves no recurring work behind its clock (NoCatchUpBurst).         *)
(*                                                                         *)
(* AlarmCoversAll speaks of an object at rest only, and is not inductive:  *)
(* while a run goes on the flush row may be gone although events are       *)
(* pending.  What holds then is EventsCovered: some row is due by then,    *)
(* if only one of those the run has yet to serve.                          *)
(***************************************************************************)
EXTENDS Scheduler, WellFoundedInduction, TLAPS

Table(d) ==
    /\ d \in [WorkIds -> WorkRows \cup {None}]
    /\ \A id \in WorkIds : d[id] # None => d[id].at >= -Interval

(* No instant is kept further back than it can be told from earlier ones. *)
InstantsBounded ==
    /\ Table(due)
    /\ \A e \in Events : events[e].nextAt >= Past
    /\ run.now >= Past /\ run.now <= 0

AbsentUntried == \A e \in Events : events[e].status = "absent" => events[e].attempts = 0

TodoIsDue == \A c \in run.todo : due[c.id].at <= 0

EventsCovered ==
    \A e \in Pending(events) :
        \E id \in Scheduled(due) : due[id].at <= 0 \/ due[id].at <= events[e].nextAt

AlarmCoversRows ==
    AtRest => \A id \in Scheduled(due) : alarm # None /\ (alarm = 0 \/ alarm <= due[id].at)

SchedulerInvariant ==
    /\ RunInvariant
    /\ InstantsBounded
    /\ AbsentUntried
    /\ TodoIsDue
    /\ EventsCovered
    /\ AlarmCoversRows

-----------------------------------------------------------------------------
(* The earliest of a set of instants that are bounded from below. *)

LEMMA HasEarliest ==
    ASSUME NEW S \in SUBSET Int, S # {}, NEW b \in Nat, \A t \in S : t >= -b
    PROVE  \E m \in S : \A y \in S : m <= y
<1> DEFINE R == OpToRel(<, Nat)
           T == {t + b : t \in S}
<1>1. \A x, y \in Nat : x < y => <<x, y>> \in R
  BY DEF OpToRel
<1>2. IsWellFoundedOn(R, Nat)
  BY NatLessThanWellFounded
<1>3. T \subseteq Nat /\ T # {}
  <2>1. ASSUME NEW t \in S PROVE t + b \in Nat
    <3>1. t \in Int /\ t >= -b
      OBVIOUS
    <3> QED BY <3>1
  <2> QED BY <2>1
<1> HIDE DEF R
<1>4. PICK u \in T : \A y \in T : ~ (<<y, u>> \in R)
  <2> HIDE DEF T
  <2> QED BY <1>2, <1>3, WFMin
<1>5. PICK m \in S : u = m + b
  OBVIOUS
<1>6. ASSUME NEW y \in S PROVE m <= y
  <2>1. m \in Int /\ y \in Int /\ y + b \in Nat /\ m + b \in Nat /\ y + b \in T
    BY <1>3
  <2> HIDE DEF T
  <2>2. ~ (y + b < m + b)
    BY <1>1, <1>4, <1>5, <2>1, Zenon
  <2> QED BY <2>1, <2>2
<1> QED BY <1>6

LEMMA MinIsEarliest ==
    ASSUME NEW S \in SUBSET Int, S # {}, NEW b \in Nat, \A t \in S : t >= -b
    PROVE  Min(S) \in S /\ \A y \in S : Min(S) <= y
BY HasEarliest DEF Min

-----------------------------------------------------------------------------
(* The operators of the tables. *)

(* The next slot of recurring work is after now. *)
LEMMA RecurrenceAfter ==
    ASSUME NEW at \in Int, NEW now \in Int
    PROVE  nextRecurrence(at, now) \in Int /\ nextRecurrence(at, now) > now
<1>1. Interval \in Nat /\ Interval > 0
  BY SchedulerAssumption
<1>2. CASE at > now
  BY <1>2 DEF nextRecurrence
<1>3. CASE ~(at > now)
  <2> DEFINE q == (now - at) \div Interval
  <2>1. q \in Int /\ now - at < Interval * (q + 1)
    BY <1>1, <1>3
  <2>2. nextRecurrence(at, now) = at + Interval * (q + 1)
    BY <1>3 DEF nextRecurrence
  <2> HIDE DEF q
  <2>3. Interval * (q + 1) \in Int
    BY <1>1, <2>1
  <2> QED BY <2>1, <2>2, <2>3
<1> QED BY <1>2, <1>3

(* The alarm is no later than any row. *)
LEMMA ArmedCovers ==
    ASSUME NEW d, Table(d)
    PROVE  /\ Armed(d) \in Nat \cup {None}
           /\ \A id \in Scheduled(d) : /\ Armed(d) \in Nat
                                       /\ Armed(d) = 0 \/ Armed(d) <= d[id].at
<1>1. CASE Scheduled(d) = {}
  BY <1>1 DEF Armed
<1>2. CASE Scheduled(d) # {}
  <2> DEFINE S == {d[id].at : id \in Scheduled(d)}
  <2>1. S \in SUBSET Int /\ S # {} /\ \A t \in S : t >= -Interval
    BY <1>2 DEF Table, Scheduled, WorkRows
  <2>2. Interval \in Nat
    BY SchedulerAssumption
  <2>3. \A id \in Scheduled(d) : d[id].at \in S
    OBVIOUS
  <2>4. Earliest(d) = Min(S)
    BY DEF Earliest
  <2> HIDE DEF S
  <2>5. Min(S) \in Int /\ \A y \in S : Min(S) <= y
    BY <2>1, <2>2, MinIsEarliest
  <2>6. \A y \in S : y \in Int
    BY <2>1
  <2> QED BY <1>2, <2>3, <2>4, <2>5, <2>6 DEF Armed
<1> QED BY <1>1, <1>2

LEMMA ScheduleAtKeeps ==
    ASSUME NEW d, Table(d), NEW id \in WorkIds, NEW at \in Int, at >= -Interval
    PROVE  LET e == ScheduleAt(d, id, at)
           IN  /\ Table(e) /\ Scheduled(e) = Scheduled(d) \cup {id}
               /\ e[id].at <= at
               /\ \A w \in WorkIds \ {id} : e[w] = d[w]
               /\ d[id] # None => e[id].at <= d[id].at /\ e[id].attempts = d[id].attempts
<1> DEFINE e == ScheduleAt(d, id, at)
<1>1. Interval \in Nat
  BY SchedulerAssumption
<1>2. CASE d[id] = None
  <2>1. e = [d EXCEPT ![id] = [at |-> at, attempts |-> 0]]
    BY <1>2 DEF ScheduleAt
  <2>2. [at |-> at, attempts |-> 0] \in WorkRows
    BY DEF WorkRows
  <2> HIDE DEF e
  <2>3. [at |-> at, attempts |-> 0] # None
    BY <2>2, NoneIsNoValue
  <2> QED BY <1>2, <2>1, <2>2, <2>3 DEF Table, Scheduled, e
<1>3. CASE d[id] # None
  <2> DEFINE t == IF at < d[id].at THEN at ELSE d[id].at
             row == [at |-> t, attempts |-> d[id].attempts]
  <2>1. d[id] \in WorkRows /\ d[id].at >= -Interval
    BY <1>3 DEF Table
  <2>2. t \in Int /\ t <= at /\ t <= d[id].at /\ t >= -Interval
    BY <2>1 DEF WorkRows
  <2>3. e = [d EXCEPT ![id] = row]
    BY <1>3 DEF ScheduleAt
  <2> HIDE DEF e, t
  <2>4. row \in WorkRows
    BY <2>1, <2>2 DEF WorkRows
  <2>5. row # None
    BY <2>4, NoneIsNoValue
  <2> QED BY <1>3, <2>2, <2>3, <2>4, <2>5 DEF Table, Scheduled, e
<1> QED BY <1>2, <1>3

(* A row that was served: completed, or deferred after a failure. *)
LEMMA ServedKeeps ==
    ASSUME NEW d, Table(d), NEW claim \in Claims, NEW now \in Int, now >= Past,
           NEW e, e \in {Completed(d, claim, now), Deferred(d, claim, now)}
    PROVE  /\ Table(e)
           /\ \A w \in WorkIds \ {claim.id} : e[w] = d[w]
           /\ claim.id \in Recurring => e[claim.id] # None /\ e[claim.id].at > now
<1>1. Interval \in Nat /\ now >= -Interval
  BY SchedulerAssumption DEF Past
<1>2. claim.id \in WorkIds /\ claim.at \in Int /\ claim.attempts \in Nat
  BY DEF Claims
<1> DEFINE next == nextRecurrence(claim.at, now)
           later == now + DueBackoff[claim.attempts + 1]
<1>3. next \in Int /\ next > now
  BY <1>2, RecurrenceAfter
<1>4. claim.attempts + 1 < DueAttempts => later \in Int /\ later > now
  <2>1. ASSUME claim.attempts + 1 < DueAttempts
        PROVE  DueBackoff[claim.attempts + 1] \in Nat \ {0}
    <3>1. claim.attempts + 1 \in 1 .. DueAttempts - 1
      BY <1>2, <2>1, SchedulerAssumption
    <3> QED BY <3>1, SchedulerAssumption
  <2> QED BY <2>1
<1>5. PICK row \in WorkRows \cup {None} :
          /\ e = [d EXCEPT ![claim.id] = row]
          /\ row # None => row.at > now
          /\ claim.id \in Recurring => row # None
  <2> HIDE DEF next, later
  <2>1. /\ next \in Int => [at |-> next, attempts |-> 0] \in WorkRows
        /\ later \in Int => [at |-> later, attempts |-> claim.attempts + 1] \in WorkRows
    BY <1>2 DEF WorkRows
  <2>2. CASE e = Completed(d, claim, now)
    BY <1>3, <2>1, <2>2, NoneIsNoValue DEF Completed, next
  <2>3. CASE e = Deferred(d, claim, now)
    BY <1>3, <1>4, <2>1, <2>3, NoneIsNoValue DEF Deferred, next, later
  <2> QED BY <2>2, <2>3
<1> HIDE DEF next, later
<1>6. row # None => row.at \in Int
  BY <1>5 DEF WorkRows
<1> QED BY <1>1, <1>2, <1>5, <1>6 DEF Table

-----------------------------------------------------------------------------
(* The end of an item, and of a run. *)

LEMMA ContinueKeeps ==
    ASSUME SchedulerInvariant, up,
           NEW T, T \subseteq run.todo,
           NEW d, Table(d), Recurring \subseteq Scheduled(d),
           \A c \in T : d[c.id] = due[c.id],
           run.batch = {}, run.sent = None,
           Continue(d, events, T), UNCHANGED <<up, crashes, dispatched>>
    PROVE  SchedulerInvariant'
<1> USE DEF SchedulerInvariant, InstantsBounded
<1>0. /\ run \in Runs /\ events \in [Events -> EventRows] /\ events' = events
      /\ Interval \in Nat /\ Interval > 0 /\ MaxLag \in Nat /\ MaxLag < Interval
      /\ Flush \in WorkIds /\ Flush \notin Recurring
  BY SchedulerAssumption DEF RunInvariant, SchedulerTypeOK, Continue, WorkIds
<1>1. CASE T = {}
  <2> DEFINE S == {events[e].nextAt : e \in Pending(events)}
  <2>1. /\ run' = Idle
        /\ due' = IF Pending(events) = {} THEN d ELSE ScheduleAt(d, Flush, Min(S))
        /\ alarm' = Armed(due')
    BY <1>1 DEF Continue
  <2>2. Pending(events) # {} => Min(S) \in Int /\ Min(S) >= -Interval /\ \A y \in S : Min(S) <= y
    <3>1. S \in SUBSET Int /\ \A t \in S : t >= -Interval
      BY <1>0 DEF Pending, EventRows, Past
    <3>2. Pending(events) # {} => S # {}
      OBVIOUS
    <3> HIDE DEF S
    <3> QED BY <1>0, <3>1, <3>2, MinIsEarliest
  <2>3. \A e \in Pending(events) : events[e].nextAt \in S
    OBVIOUS
  <2> HIDE DEF S
  <2>4. /\ Table(due') /\ Scheduled(d) \subseteq Scheduled(due')
        /\ \A e \in Pending(events) : Flush \in Scheduled(due') /\ due'[Flush].at <= events[e].nextAt
    <3>1. CASE Pending(events) = {}
      BY <2>1, <3>1
    <3>2. CASE Pending(events) # {}
      <4>1. /\ Table(due') /\ Scheduled(due') = Scheduled(d) \cup {Flush}
            /\ due'[Flush].at <= Min(S)
        BY <1>0, <2>1, <2>2, <3>2, ScheduleAtKeeps
      <4>2. due'[Flush].at \in Int
        BY <1>0, <4>1 DEF Table, Scheduled, WorkRows
      <4>3. \A e \in Pending(events) : events[e].nextAt \in Int
        BY <1>0 DEF Pending, EventRows
      <4> QED BY <2>2, <2>3, <4>1, <4>2, <4>3
    <3> QED BY <3>1, <3>2
  <2>5. alarm' \in Nat \cup {None} /\ AlarmCoversRows'
    BY <2>1, <2>4, ArmedCovers, NoneIsNoValue, SchedulerAssumption DEF AlarmCoversRows, Scheduled
  <2>6. Idle \in Runs
    BY DEF Idle, Runs
  <2>7. RunInvariant'
    <3>1. SchedulerTypeOK'
      BY <1>0, <2>1, <2>4, <2>5, <2>6 DEF RunInvariant, SchedulerTypeOK, Table
    <3> QED BY <1>0, <2>1, <2>4, <3>1 DEF RunInvariant, Idle
  <2>8. InstantsBounded' /\ TodoIsDue'
    BY <1>0, <2>1, <2>4 DEF Idle, TodoIsDue, Past
  <2>9. AbsentUntried' /\ EventsCovered'
    BY <1>0, <2>4 DEF AbsentUntried, EventsCovered, Pending
  <2> QED BY <2>5, <2>7, <2>8, <2>9
<1>2. CASE T # {}
  <2>1. /\ run' = [run EXCEPT !.pc = "items", !.todo = T, !.batch = {}, !.sent = None]
        /\ due' = d /\ alarm' = alarm
    BY <1>2 DEF Continue
  <2>2. run' \in Runs
    BY <1>0, <2>1 DEF Runs
  <2>3. /\ run'.pc = "items" /\ run'.todo = T /\ run'.batch = {} /\ run'.sent = None
        /\ run'.now = run.now
    BY <1>0, <2>1 DEF Runs
  <2>4. run.pc # "idle"
    BY <1>2 DEF RunInvariant, Idle
  <2>5. RunInvariant'
    <3>1. SchedulerTypeOK'
      BY <1>0, <2>1, <2>2 DEF RunInvariant, SchedulerTypeOK, Table
    <3>2. \A c \in T : /\ due'[c.id] # None
                       /\ due'[c.id].attempts = c.attempts
                       /\ c.id \in Recurring => due'[c.id].at = c.at
      BY <2>1 DEF RunInvariant
    <3>3. \A e \in Events : dispatched[e] <= events[e].attempts + crashes + 0
      BY DEF RunInvariant
    <3> QED BY <1>0, <1>2, <2>1, <2>3, <3>1, <3>2, <3>3 DEF RunInvariant
  <2>6. TodoIsDue'
    BY <2>1, <2>3 DEF TodoIsDue
  <2>7. EventsCovered'
    <3>1. PICK c \in T : TRUE
      BY <1>2
    <3>2. c.id \in Scheduled(due') /\ due'[c.id].at <= 0
      BY <1>0, <2>1, <3>1 DEF RunInvariant, TodoIsDue, Scheduled, Runs, Claims
    <3> QED BY <3>2 DEF EventsCovered
  <2>8. AbsentUntried' /\ InstantsBounded' /\ AlarmCoversRows'
    BY <1>0, <2>1, <2>3 DEF AbsentUntried, AlarmCoversRows, AtRest
  <2> QED BY <2>5, <2>6, <2>7, <2>8
<1> QED BY <1>1, <1>2

-----------------------------------------------------------------------------
(* Each action. *)

(* An event that is added, and its flush row. *)
LEMMA AddedKeeps ==
    ASSUME SchedulerInvariant, NEW e \in Events, NEW at \in 0 .. MaxDelay,
           events[e].status = "absent",
           events' = [events EXCEPT ![e] = [status |-> "pending", attempts |-> 0, nextAt |-> at]],
           due' = ScheduleAt(due, Flush, 0), UNCHANGED dispatched
    PROVE  /\ events' \in [Events -> EventRows] /\ Table(due')
           /\ Scheduled(due) \subseteq Scheduled(due')
           /\ \A id \in Recurring : due'[id] = due[id]
           /\ \A id \in Scheduled(due) : due'[id].attempts = due[id].attempts /\ due'[id].at <= due[id].at
           /\ \A f \in Events : events'[f].nextAt >= Past
           /\ AbsentUntried' /\ EventsCovered'
           /\ \A f \in Events :
                 /\ events'[f].attempts = events[f].attempts
                 /\ events'[f].attempts <= OutboxAttempts
                 /\ events'[f].status = "pending" => events'[f].attempts < OutboxAttempts
                 /\ events[f].status = "pending" => events'[f] = events[f]
<1> USE DEF SchedulerInvariant, InstantsBounded
<1>0. /\ events \in [Events -> EventRows] /\ Flush \in WorkIds /\ Flush \notin Recurring
      /\ Interval \in Nat /\ Interval > 0 /\ at \in Nat /\ Past <= 0 /\ OutboxAttempts \in Nat \ {0}
      /\ Past \in Int
  BY SchedulerAssumption DEF RunInvariant, SchedulerTypeOK, WorkIds, Past
<1> DEFINE row == [status |-> "pending", attempts |-> 0, nextAt |-> at]
<1>1. row \in EventRows /\ row.nextAt >= Past
  BY <1>0 DEF EventRows, Statuses
<1>2. events' = [events EXCEPT ![e] = row]
  OBVIOUS
<1>3. /\ Table(due') /\ Scheduled(due') = Scheduled(due) \cup {Flush}
      /\ due'[Flush].at <= 0
      /\ \A w \in WorkIds \ {Flush} : due'[w] = due[w]
      /\ due[Flush] # None => due'[Flush].at <= due[Flush].at /\ due'[Flush].attempts = due[Flush].attempts
  BY <1>0, ScheduleAtKeeps
<1>4. \A id \in Scheduled(due) : due'[id].attempts = due[id].attempts /\ due'[id].at <= due[id].at
  BY <1>0, <1>3 DEF Scheduled, Table, WorkRows
<1>5. events[e].attempts = 0
  BY DEF AbsentUntried
<1>6. EventsCovered'
  BY <1>3 DEF EventsCovered
<1>7. \A id \in Recurring : due'[id] = due[id]
  BY <1>0, <1>3 DEF WorkIds
<1>8. AbsentUntried'
  BY <1>0, <1>2 DEF AbsentUntried
<1>9. \A f \in Events :
                 /\ events'[f].attempts = events[f].attempts
                 /\ events'[f].attempts <= OutboxAttempts
                 /\ events'[f].status = "pending" => events'[f].attempts < OutboxAttempts
                 /\ events[f].status = "pending" => events'[f] = events[f]
                 /\ events'[f].nextAt >= Past
  <2> HIDE DEF row
  <2>1. row.status = "pending" /\ row.attempts = 0 /\ row.nextAt = at
    BY DEF row
  <2>2. ASSUME NEW f \in Events, f # e
        PROVE /\ events'[f] = events[f]
              /\ events[f].attempts <= OutboxAttempts
              /\ events[f].status = "pending" => events[f].attempts < OutboxAttempts
    BY <1>0, <1>2, <2>2 DEF RunInvariant
  <2>3. events'[e] = row
    BY <1>0, <1>2
  <2> QED BY <1>0, <1>1, <1>5, <2>1, <2>2, <2>3
<1> QED BY <1>0, <1>1, <1>2, <1>3, <1>4, <1>6, <1>7, <1>8, <1>9

(* Of the run, only the crash that comes after the commit is left.          *)
LEMMA LostKeeps ==
    ASSUME SchedulerInvariant, crashes < MaxCrashes, run' = Idle, up' = FALSE, crashes' = crashes + 1,
           alarm' = (IF run.pc = "idle" THEN alarm ELSE 0), UNCHANGED dispatched,
           events' \in [Events -> EventRows], Table(due'),
           \A f \in Events : /\ events'[f].nextAt >= Past
                             /\ events'[f].attempts = events[f].attempts
                             /\ events'[f].attempts <= OutboxAttempts
                             /\ events'[f].status = "pending" => events'[f].attempts < OutboxAttempts,
           AbsentUntried', EventsCovered'
    PROVE  SchedulerInvariant'
<1> USE DEF SchedulerInvariant
<1>1. SchedulerTypeOK'
  <2>1. Idle \in Runs
    BY DEF Idle, Runs
  <2>2. alarm' \in Nat \cup {None} /\ dispatched' \in [Events -> Nat]
    BY DEF RunInvariant, SchedulerTypeOK
  <2>3. crashes' \in 0 .. MaxCrashes
    BY SchedulerAssumption DEF RunInvariant, SchedulerTypeOK
  <2> QED BY <2>1, <2>2, <2>3 DEF SchedulerTypeOK, Table
<1>2. \A f \in Events : dispatched[f] <= events[f].attempts + crashes + 1
  BY DEF RunInvariant, SchedulerTypeOK, EventRows
<1>3. RunInvariant'
  <2>1. \A f \in Events : dispatched'[f] <= events'[f].attempts + crashes' + 0
    BY <1>2 DEF RunInvariant, SchedulerTypeOK, EventRows
  <2> QED BY <1>1, <2>1 DEF RunInvariant, Idle
<1>4. Past <= 0 /\ Past \in Int
  BY SchedulerAssumption DEF Past
<1>5. InstantsBounded' /\ TodoIsDue' /\ AlarmCoversRows'
  BY <1>4 DEF InstantsBounded, TodoIsDue, AlarmCoversRows, AtRest, Idle
<1> QED BY <1>3, <1>5

LEMMA PostKeeps ==
    ASSUME SchedulerInvariant, NEW e \in Events, NEW at \in 0 .. MaxDelay, Post(e, at)
    PROVE  SchedulerInvariant'
<1> USE DEF SchedulerInvariant
<1>0. up /\ alarm' = Armed(due') /\ UNCHANGED <<run, up, crashes, dispatched>>
  BY DEF Post
<1>1. CASE events[e].status # "absent"
  <2>1. UNCHANGED <<events, due>>
    BY <1>1 DEF Post
  <2>2. alarm' \in Nat \cup {None} /\ AlarmCoversRows'
    BY <1>0, <2>1, ArmedCovers, NoneIsNoValue DEF AlarmCoversRows, InstantsBounded
  <2>3. RunInvariant'
    BY <1>0, <2>1, <2>2 DEF RunInvariant, SchedulerTypeOK
  <2>4. InstantsBounded' /\ AbsentUntried' /\ TodoIsDue' /\ EventsCovered'
    BY <1>0, <2>1 DEF InstantsBounded, AbsentUntried, TodoIsDue, EventsCovered
  <2> QED BY <2>2, <2>3, <2>4
<1>2. CASE events[e].status = "absent"
  <2>1. /\ events' = [events EXCEPT ![e] = [status |-> "pending", attempts |-> 0, nextAt |-> at]]
        /\ due' = ScheduleAt(due, Flush, 0)
    BY <1>2 DEF Post
  <2>2. /\ events' \in [Events -> EventRows] /\ Table(due')
        /\ Scheduled(due) \subseteq Scheduled(due')
        /\ \A id \in Recurring : due'[id] = due[id]
        /\ \A id \in Scheduled(due) : due'[id].attempts = due[id].attempts /\ due'[id].at <= due[id].at
        /\ \A f \in Events : events'[f].nextAt >= Past
        /\ AbsentUntried' /\ EventsCovered'
        /\ \A f \in Events :
              /\ events'[f].attempts = events[f].attempts
              /\ events'[f].attempts <= OutboxAttempts
              /\ events'[f].status = "pending" => events'[f].attempts < OutboxAttempts
              /\ events[f].status = "pending" => events'[f] = events[f]
    BY <1>0, <1>2, <2>1, AddedKeeps
  <2>3. alarm' \in Nat \cup {None} /\ AlarmCoversRows'
    BY <1>0, <2>2, ArmedCovers, NoneIsNoValue DEF AlarmCoversRows
  <2>4. \A c \in run.todo : c.id \in Scheduled(due)
    BY DEF RunInvariant, SchedulerTypeOK, Runs, Claims, Scheduled
  <2>5. \A c \in run.todo : /\ due'[c.id] # None
                            /\ due'[c.id].attempts = c.attempts
                            /\ c.id \in Recurring => due'[c.id].at = c.at
    BY <2>2, <2>4 DEF RunInvariant, Scheduled
  <2>6. \A b \in run.batch : events'[b.id].status = "pending" /\ events'[b.id].attempts = b.attempts
    BY <2>2 DEF RunInvariant, SchedulerTypeOK, Runs, Entries
  <2>7. SchedulerTypeOK'
    BY <1>0, <2>2, <2>3 DEF RunInvariant, SchedulerTypeOK, Table
  <2>8. \A f \in Events : dispatched'[f] <= events'[f].attempts + crashes'
                              + (IF run'.sent # None /\ run'.sent.entry.id = f THEN 1 ELSE 0)
    BY <1>0, <2>2 DEF RunInvariant
  <2>9. RunInvariant'
    <3>1. Recurring \subseteq Scheduled(due')
      BY <1>0, <2>2 DEF RunInvariant
    <3> QED BY <1>0, <2>2, <2>5, <2>6, <2>7, <2>8, <3>1 DEF RunInvariant
  <2>10. TodoIsDue'
    <3>1. \A id \in Scheduled(due) : due'[id].at \in Int /\ due[id].at \in Int
      BY <2>2 DEF InstantsBounded, Table, Scheduled, WorkRows
    <3> QED BY <1>0, <2>2, <2>4, <3>1 DEF TodoIsDue
  <2>11. InstantsBounded'
    BY <1>0, <2>2 DEF InstantsBounded
  <2> QED BY <2>2, <2>3, <2>9, <2>10, <2>11
<1> QED BY <1>1, <1>2

LEMMA CrashKeeps ==
    ASSUME SchedulerInvariant,
           Crash \/ \E e \in Events, at \in 0 .. MaxDelay : PostThenCrash(e, at)
    PROVE  SchedulerInvariant'
<1>1. ASSUME Crash PROVE SchedulerInvariant'
  <2>1. /\ events \in [Events -> EventRows] /\ Table(due) /\ due' = due /\ events' = events
        /\ dispatched' = dispatched
    BY <1>1 DEF SchedulerInvariant, Crash, RunInvariant, SchedulerTypeOK, InstantsBounded
  <2>2. AbsentUntried' /\ EventsCovered'
    BY <2>1 DEF SchedulerInvariant, AbsentUntried, EventsCovered
  <2>3. /\ crashes < MaxCrashes /\ run' = Idle /\ up' = FALSE /\ crashes' = crashes + 1
        /\ alarm' = (IF run.pc = "idle" THEN alarm ELSE 0)
    BY <1>1 DEF Crash
  <2>4. \A f \in Events : /\ events'[f].nextAt >= Past
                          /\ events'[f].attempts = events[f].attempts
                          /\ events'[f].attempts <= OutboxAttempts
                          /\ events'[f].status = "pending" => events'[f].attempts < OutboxAttempts
    BY <2>1 DEF SchedulerInvariant, RunInvariant, InstantsBounded
  <2> QED BY <2>1, <2>2, <2>3, <2>4, LostKeeps
<1>2. ASSUME NEW e \in Events, NEW at \in 0 .. MaxDelay, PostThenCrash(e, at)
      PROVE  SchedulerInvariant'
  <2>1. /\ events[e].status = "absent" /\ due' = ScheduleAt(due, Flush, 0)
        /\ events' = [events EXCEPT ![e] = [status |-> "pending", attempts |-> 0, nextAt |-> at]]
        /\ UNCHANGED dispatched
    BY <1>2 DEF PostThenCrash
  <2>2. /\ events' \in [Events -> EventRows] /\ Table(due')
        /\ AbsentUntried' /\ EventsCovered'
    BY <2>1, AddedKeeps
  <2>3. /\ crashes < MaxCrashes /\ run' = Idle /\ up' = FALSE /\ crashes' = crashes + 1
        /\ alarm' = (IF run.pc = "idle" THEN alarm ELSE 0) /\ dispatched' = dispatched
    BY <1>2 DEF PostThenCrash
  <2>4. \A f \in Events : /\ events'[f].nextAt >= Past
                          /\ events'[f].attempts = events[f].attempts
                          /\ events'[f].attempts <= OutboxAttempts
                          /\ events'[f].status = "pending" => events'[f].attempts < OutboxAttempts
    BY <2>1, AddedKeeps
  <2> QED BY <2>2, <2>3, <2>4, LostKeeps
<1> QED BY <1>1, <1>2

LEMMA StartKeeps ==
    ASSUME SchedulerInvariant, Start
    PROVE  SchedulerInvariant'
<1> USE DEF SchedulerInvariant
<1>0. /\ ~up /\ up' = TRUE /\ alarm' = Armed(due') /\ due' = WithRecurring(due)
      /\ UNCHANGED <<events, run, crashes, dispatched>> /\ run = Idle
      /\ Interval \in Nat /\ Interval > 0
  BY SchedulerAssumption DEF Start, RunInvariant
<1> DEFINE row == [at |-> Interval, attempts |-> 0]
<1>1. row \in WorkRows /\ row # None /\ row.at >= -Interval
  BY <1>0, NoneIsNoValue DEF WorkRows
<1>2. due' = [id \in WorkIds |-> IF id \in Recurring /\ due[id] = None THEN row ELSE due[id]]
  BY <1>0 DEF WithRecurring
<1> HIDE DEF row
<1>3. Table(due') /\ Recurring \subseteq Scheduled(due')
  BY <1>1, <1>2 DEF InstantsBounded, Table, Scheduled, WorkIds
<1>4. \A id \in Scheduled(due) : id \in Scheduled(due') /\ due'[id] = due[id]
  BY <1>2 DEF Scheduled
<1>5. alarm' \in Nat \cup {None} /\ AlarmCoversRows'
  BY <1>0, <1>3, ArmedCovers, NoneIsNoValue DEF AlarmCoversRows
<1>6. EventsCovered'
  BY <1>0, <1>4 DEF EventsCovered, Pending
<1>7. SchedulerTypeOK'
  BY <1>0, <1>3, <1>5 DEF RunInvariant, SchedulerTypeOK, Table
<1>8. RunInvariant'
  BY <1>0, <1>3, <1>7 DEF RunInvariant, Idle
<1>9. InstantsBounded' /\ AbsentUntried' /\ TodoIsDue'
  BY <1>0, <1>3 DEF InstantsBounded, AbsentUntried, TodoIsDue, Idle
<1> QED BY <1>5, <1>6, <1>8, <1>9

LEMMA AlarmFiresKeeps ==
    ASSUME SchedulerInvariant, AlarmFires
    PROVE  SchedulerInvariant'
<1> USE DEF SchedulerInvariant
<1> DEFINE claimed == {[id |-> id, at |-> due[id].at, attempts |-> due[id].attempts] :
                          id \in {w \in Scheduled(due) : due[w].at <= 0}}
<1>0. /\ up /\ run = Idle /\ UNCHANGED <<up, crashes, dispatched>>
  BY DEF AlarmFires, RunInvariant
<1>1. CASE claimed = {}
  <2>1. Continue(due, events, {})
    BY <1>1 DEF AlarmFires
  <2>2. run.batch = {} /\ run.sent = None /\ Table(due) /\ Recurring \subseteq Scheduled(due)
    BY <1>0 DEF Idle, InstantsBounded, RunInvariant
  <2> QED BY <1>0, <2>1, <2>2, ContinueKeeps
<1>2. CASE claimed # {}
  <2>1. /\ run' = [Idle EXCEPT !.pc = "items", !.todo = claimed] /\ alarm' = None
        /\ UNCHANGED <<due, events>>
    BY <1>2 DEF AlarmFires
  <2>2. \A c \in claimed : /\ c \in Claims /\ c.id \in Scheduled(due) /\ due[c.id].at <= 0
                           /\ due[c.id].at = c.at /\ due[c.id].attempts = c.attempts
    BY DEF InstantsBounded, Table, Scheduled, WorkRows, Claims
  <2>3. \A c, d \in claimed : c.id = d.id => c = d
    OBVIOUS
  <2> HIDE DEF claimed
  <2>4. run' = [pc |-> "items", now |-> 0, todo |-> claimed, batch |-> {}, sent |-> None]
    BY <2>1 DEF Idle
  <2>5. run' \in Runs
    BY <2>2, <2>4 DEF Runs
  <2>6. SchedulerTypeOK'
    BY <1>0, <2>1, <2>5 DEF RunInvariant, SchedulerTypeOK
  <2>7. RunInvariant'
    <3>1. \A e \in Events : dispatched[e] <= events[e].attempts + crashes + 0
      BY <1>0 DEF RunInvariant, Idle
    <3>2. \A e \in Events : /\ events[e].attempts <= OutboxAttempts
                            /\ events[e].status = "pending" => events[e].attempts < OutboxAttempts
      BY DEF RunInvariant
    <3>3. up' /\ Recurring \subseteq Scheduled(due')
      BY <1>0, <2>1 DEF RunInvariant
    <3>4. \A c \in run'.todo : /\ due'[c.id] # None
                               /\ due'[c.id].attempts = c.attempts
                               /\ c.id \in Recurring => due'[c.id].at = c.at
      BY <2>1, <2>2, <2>4 DEF Scheduled
    <3>5. run'.pc = "items" /\ run'.todo = claimed /\ run'.batch = {} /\ run'.sent = None
      BY <2>4
    <3>6. events' = events /\ crashes' = crashes /\ dispatched' = dispatched
      BY <1>0, <2>1
    <3>7. \A e \in Events :
            /\ events'[e].attempts <= OutboxAttempts
            /\ events'[e].status = "pending" => events'[e].attempts < OutboxAttempts
            /\ dispatched'[e] <= events'[e].attempts + crashes'
                              + (IF run'.sent # None /\ run'.sent.entry.id = e THEN 1 ELSE 0)
      BY <3>1, <3>2, <3>5, <3>6
    <3> HIDE DEF SchedulerInvariant
    <3> QED BY <1>2, <2>3, <2>6, <3>3, <3>4, <3>5, <3>7 DEF RunInvariant
  <2>8. Past <= 0
    BY SchedulerAssumption DEF Past
  <2>9. InstantsBounded' /\ AbsentUntried' /\ TodoIsDue' /\ EventsCovered' /\ AlarmCoversRows'
    BY <1>0, <2>1, <2>2, <2>4, <2>8 DEF InstantsBounded, AbsentUntried, TodoIsDue, EventsCovered,
       AlarmCoversRows, AtRest
  <2> QED BY <2>7, <2>9
<1> QED BY <1>1, <1>2

(* What an item that is served leaves of the claims. *)
LEMMA RunRecurringKeeps ==
    ASSUME SchedulerInvariant, NEW claim \in run.todo, NEW ok \in BOOLEAN, RunRecurring(claim, ok)
    PROVE  /\ SchedulerInvariant'
           /\ due'[claim.id].at > run.now
           /\ \A c \in run.todo \ {claim} : c \in run'.todo
<1> USE DEF SchedulerInvariant
<1> DEFINE T == run.todo \ {claim}
           d == IF ok THEN Completed(due, claim, run.now) ELSE Deferred(due, claim, run.now)
<1>0. /\ run \in Runs /\ claim \in Claims /\ claim.id \in Recurring /\ run.pc = "items"
      /\ Continue(d, events, T) /\ UNCHANGED <<up, crashes, dispatched>> /\ up
      /\ run.batch = {} /\ run.sent = None
  BY DEF RunRecurring, RunInvariant, SchedulerTypeOK, Runs
<1>1. /\ Table(d) /\ \A w \in WorkIds \ {claim.id} : d[w] = due[w]
      /\ d[claim.id] # None /\ d[claim.id].at > run.now
  BY <1>0, ServedKeeps DEF InstantsBounded, Runs
<1>2. \A c \in T : d[c.id] = due[c.id]
  BY <1>0, <1>1 DEF RunInvariant, Runs, Claims
<1>3. Recurring \subseteq Scheduled(d)
  BY <1>0, <1>1 DEF RunInvariant, Scheduled, WorkIds
<1> HIDE DEF d
<1>4. SchedulerInvariant'
  BY <1>0, <1>1, <1>2, <1>3, ContinueKeeps
<1>5. due'[claim.id] = d[claim.id]
  <2>1. Flush \in WorkIds /\ Flush # claim.id
    BY <1>0, SchedulerAssumption DEF WorkIds
  <2>2. due' = d \/ \E t : due' = ScheduleAt(d, Flush, t)
    BY <1>0 DEF Continue
  <2>3. \A t : ScheduleAt(d, Flush, t)[claim.id] = d[claim.id]
    BY <1>0, <1>1, <2>1 DEF ScheduleAt, Table, Claims
  <2> QED BY <2>2, <2>3
<1>6. T # {} => run'.todo = T
  BY <1>0 DEF Continue, Runs
<1> QED BY <1>1, <1>4, <1>5, <1>6

LEMMA BeginDrainKeeps ==
    ASSUME SchedulerInvariant, NEW claim \in run.todo, NEW B \in SUBSET Events, BeginDrain(claim, B)
    PROVE  SchedulerInvariant' /\ run'.todo = run.todo
<1> USE DEF SchedulerInvariant
<1> DEFINE E == {[id |-> e, attempts |-> events[e].attempts] : e \in B}
<1>0. /\ run \in Runs /\ events \in [Events -> EventRows] /\ run.pc = "items" /\ claim.id = Flush
      /\ B \subseteq Ready(events, run.now) /\ run' = [run EXCEPT !.pc = "drain", !.batch = E]
      /\ UNCHANGED <<due, events, alarm, up, crashes, dispatched>>
  BY DEF BeginDrain, Batches, RunInvariant, SchedulerTypeOK
<1>1. \A b \in E : b \in Entries /\ events[b.id].status = "pending" /\ events[b.id].attempts = b.attempts
  BY <1>0 DEF Ready, Pending, EventRows, Entries
<1> HIDE DEF E
<1>2. run' \in Runs
  BY <1>0, <1>1 DEF Runs
<1>3. /\ run'.pc = "drain" /\ run'.todo = run.todo /\ run'.batch = E
      /\ run'.sent = run.sent /\ run'.now = run.now /\ run.sent = None
  BY <1>0 DEF Runs, RunInvariant
<1>4. SchedulerTypeOK'
  BY <1>0, <1>2 DEF RunInvariant, SchedulerTypeOK
<1>5. RunInvariant'
  BY <1>0, <1>1, <1>3, <1>4 DEF RunInvariant
<1>6. InstantsBounded' /\ AbsentUntried' /\ TodoIsDue' /\ EventsCovered' /\ AlarmCoversRows'
  BY <1>0, <1>3 DEF InstantsBounded, AbsentUntried, TodoIsDue, EventsCovered, AlarmCoversRows, AtRest
<1> QED BY <1>3, <1>5, <1>6

LEMMA DispatchKeeps ==
    ASSUME SchedulerInvariant, NEW entry \in run.batch, NEW outcome \in Outcomes, Dispatch(entry, outcome)
    PROVE  SchedulerInvariant' /\ run'.todo = run.todo
<1> USE DEF SchedulerInvariant
<1> DEFINE s == [entry |-> entry, outcome |-> outcome]
<1>0. /\ run \in Runs /\ run.pc = "drain" /\ run.sent = None /\ run' = [run EXCEPT !.sent = s]
      /\ dispatched' = [dispatched EXCEPT ![entry.id] = @ + 1] /\ entry \in Entries
      /\ UNCHANGED <<due, events, alarm, up, crashes>> /\ dispatched \in [Events -> Nat]
  BY DEF Dispatch, RunInvariant, SchedulerTypeOK, Runs
<1>1. s \in [entry : Entries, outcome : Outcomes] /\ s # None /\ s.entry = entry
  BY <1>0, NoneIsNoValue
<1> HIDE DEF s
<1>2. run' \in Runs
  BY <1>0, <1>1 DEF Runs
<1>3. /\ run'.pc = "drain" /\ run'.todo = run.todo /\ run'.batch = run.batch
      /\ run'.sent = s /\ run'.now = run.now
  BY <1>0 DEF Runs
<1>4. SchedulerTypeOK'
  BY <1>0, <1>2 DEF RunInvariant, SchedulerTypeOK, Entries
<1>5. \A e \in Events : dispatched'[e] <= events[e].attempts + crashes + (IF entry.id = e THEN 1 ELSE 0)
  <2>1. \A e \in Events : /\ dispatched[e] <= events[e].attempts + crashes + 0
                          /\ events[e].attempts \in Nat /\ dispatched[e] \in Nat
    BY <1>0 DEF RunInvariant, SchedulerTypeOK, EventRows
  <2>2. crashes \in Nat
    BY SchedulerAssumption DEF RunInvariant, SchedulerTypeOK
  <2> QED BY <1>0, <2>1, <2>2 DEF Entries
<1>6. RunInvariant'
  <2>1. \A e \in Events :
            /\ events'[e].attempts <= OutboxAttempts
            /\ events'[e].status = "pending" => events'[e].attempts < OutboxAttempts
            /\ dispatched'[e] <= events'[e].attempts + crashes'
                              + (IF run'.sent # None /\ run'.sent.entry.id = e THEN 1 ELSE 0)
    BY <1>0, <1>1, <1>3, <1>5 DEF RunInvariant
  <2> QED BY <1>0, <1>1, <1>3, <1>4, <2>1 DEF RunInvariant
<1>7. InstantsBounded' /\ AbsentUntried' /\ TodoIsDue' /\ EventsCovered' /\ AlarmCoversRows'
  BY <1>0, <1>3 DEF InstantsBounded, AbsentUntried, TodoIsDue, EventsCovered, AlarmCoversRows, AtRest
<1> QED BY <1>3, <1>6, <1>7

LEMMA SettleOutboxKeeps ==
    ASSUME SchedulerInvariant, SettleOutbox
    PROVE  SchedulerInvariant' /\ run'.todo = run.todo
<1> USE DEF SchedulerInvariant
<1> DEFINE entry == run.sent.entry
           e == entry.id
           tried == entry.attempts + 1
<1>0. /\ run \in Runs /\ events \in [Events -> EventRows] /\ run.pc = "drain" /\ run.sent # None
      /\ events' = SettledOutbox(events, run.sent, run.now)
      /\ run' = [run EXCEPT !.batch = run.batch \ {entry}, !.sent = None]
      /\ UNCHANGED <<due, alarm, up, crashes, dispatched>>
      /\ entry \in run.batch /\ run.todo # {}
  BY DEF SettleOutbox, RunInvariant, SchedulerTypeOK
<1>1. /\ run.sent.outcome \in Outcomes /\ entry \in Entries /\ e \in Events /\ entry.attempts \in Nat
      /\ events[e].status = "pending" /\ events[e].attempts = entry.attempts
      /\ events[e].attempts < OutboxAttempts /\ events[e] \in EventRows
      /\ OutboxAttempts \in Nat /\ run.now \in Int /\ run.now >= Past /\ Past \in Int
  BY <1>0, SchedulerAssumption DEF Runs, Entries, RunInvariant, InstantsBounded, Past
<1>2. tried < OutboxAttempts => OutboxBackoff[tried] \in Nat
  <2>1. ASSUME tried < OutboxAttempts PROVE tried \in 1 .. OutboxAttempts - 1
    BY <1>1, <2>1
  <2> QED BY <2>1, SchedulerAssumption
<1>3. PICK row \in EventRows :
          /\ events' = [events EXCEPT ![e] = row]
          /\ row.attempts = tried /\ row.status # "absent" /\ row.nextAt >= Past
          /\ row.status = "pending" => tried < OutboxAttempts
  <2> DEFINE o == run.sent.outcome
             later == run.now + OutboxBackoff[tried]
             r == IF o = "delivered" THEN [status |-> "delivered", attempts |-> tried, nextAt |-> events[e].nextAt]
                  ELSE IF o = "permanent" \/ tried >= OutboxAttempts
                  THEN [status |-> "dead", attempts |-> tried, nextAt |-> events[e].nextAt]
                  ELSE [status |-> "pending", attempts |-> tried, nextAt |-> later]
  <2>1. tried < OutboxAttempts => later \in Int /\ later >= Past
    BY <1>1, <1>2
  <2>2. tried \in Nat /\ events[e].nextAt \in Int /\ events[e].nextAt >= Past
    BY <1>1 DEF EventRows, InstantsBounded
  <2>3. [events EXCEPT ![e] = r] = SettledOutbox(events, run.sent, run.now)
    BY <1>0, <1>1 DEF SettledOutbox, EventRows
  <2> HIDE DEF tried, later, e, entry, o
  <2>4. r \in EventRows /\ r.attempts = tried /\ r.status # "absent" /\ r.nextAt >= Past
        /\ (r.status = "pending" => tried < OutboxAttempts)
    BY <1>1, <2>1, <2>2 DEF EventRows, Statuses
  <2> HIDE DEF r
  <2> QED BY <1>0, <2>3, <2>4
<1>4. /\ run'.pc = "drain" /\ run'.todo = run.todo /\ run'.batch = run.batch \ {entry}
      /\ run'.sent = None /\ run'.now = run.now /\ run' \in Runs
  BY <1>0 DEF Runs
<1>5. events' \in [Events -> EventRows] /\ events'[e] = row /\ \A f \in Events \ {e} : events'[f] = events[f]
  BY <1>0, <1>1, <1>3
<1>6. \A b \in run'.batch : b.id # e /\ b.id \in Events
  <2>1. ASSUME NEW b \in run.batch, b.id = e PROVE b = entry
    <3>1. b.attempts = entry.attempts /\ b \in Entries
      BY <1>0, <1>1, <2>1 DEF RunInvariant, Runs
    <3> QED BY <1>1, <2>1, <3>1 DEF Entries
  <2> QED BY <1>0, <1>4, <2>1 DEF Runs, Entries
<1>7. \A f \in Events :
          /\ events'[f].attempts <= OutboxAttempts
          /\ events'[f].status = "pending" => events'[f].attempts < OutboxAttempts
          /\ dispatched'[f] <= events'[f].attempts + crashes'
                              + (IF run'.sent # None /\ run'.sent.entry.id = f THEN 1 ELSE 0)
  <2>1. crashes \in Nat /\ dispatched \in [Events -> Nat]
    BY SchedulerAssumption DEF RunInvariant, SchedulerTypeOK
  <2>2. dispatched[e] <= entry.attempts + crashes + 1
    BY <1>0, <1>1 DEF RunInvariant
  <2>3. dispatched[e] <= tried + crashes
    BY <1>1, <2>1, <2>2
  <2>4. ASSUME NEW f \in Events, f # e
        PROVE  /\ events[f].attempts <= OutboxAttempts
               /\ events[f].status = "pending" => events[f].attempts < OutboxAttempts
               /\ dispatched[f] <= events[f].attempts + crashes + 0
    BY <2>4 DEF RunInvariant
  <2>5. tried <= OutboxAttempts /\ tried \in Nat
    BY <1>1
  <2> HIDE DEF tried, e
  <2>6. /\ events'[e].attempts <= OutboxAttempts
        /\ events'[e].status = "pending" => events'[e].attempts < OutboxAttempts
        /\ dispatched'[e] <= events'[e].attempts + crashes' + 0
    BY <1>0, <1>3, <1>5, <2>1, <2>3, <2>5
  <2>7. ASSUME NEW f \in Events, f # e
        PROVE  /\ events'[f].attempts <= OutboxAttempts
               /\ events'[f].status = "pending" => events'[f].attempts < OutboxAttempts
               /\ dispatched'[f] <= events'[f].attempts + crashes' + 0
    BY <1>0, <1>5, <2>4, <2>7
  <2> QED BY <1>4, <2>6, <2>7
<1> HIDE DEF entry, e, tried
<1>8. SchedulerTypeOK'
  BY <1>0, <1>4, <1>5 DEF RunInvariant, SchedulerTypeOK
<1>9. RunInvariant'
  <2>1. \A b \in run'.batch : events'[b.id].status = "pending" /\ events'[b.id].attempts = b.attempts
    BY <1>4, <1>5, <1>6 DEF RunInvariant
  <2> QED BY <1>0, <1>4, <1>7, <1>8, <2>1 DEF RunInvariant
<1>10. EventsCovered'
  <2>1. PICK c \in run.todo : TRUE
    BY <1>0
  <2>2. c.id \in Scheduled(due') /\ due'[c.id].at <= 0
    BY <1>0, <2>1 DEF RunInvariant, TodoIsDue, Scheduled, Runs, Claims
  <2> QED BY <2>2 DEF EventsCovered
<1>11. InstantsBounded'
  BY <1>0, <1>3, <1>4, <1>5 DEF InstantsBounded
<1>12. AbsentUntried' /\ TodoIsDue' /\ AlarmCoversRows'
  BY <1>0, <1>3, <1>4, <1>5 DEF AbsentUntried, TodoIsDue, AlarmCoversRows, AtRest
<1> QED BY <1>4, <1>9, <1>10, <1>11, <1>12

LEMMA EndDrainKeeps ==
    ASSUME SchedulerInvariant, EndDrain
    PROVE  /\ SchedulerInvariant'
           /\ \A c \in run.todo : c.id \in Recurring => c \in run'.todo
<1> USE DEF SchedulerInvariant
<1>0. /\ run.pc = "drain" /\ run.batch = {} /\ run.sent = None /\ UNCHANGED <<up, crashes, dispatched>>
      /\ run \in Runs /\ up /\ Flush \notin Recurring
  BY SchedulerAssumption DEF EndDrain, RunInvariant, SchedulerTypeOK
<1>1. PICK claim \in run.todo : /\ claim.id = Flush
                                /\ Continue(Completed(due, claim, run.now), events, run.todo \ {claim})
  BY DEF EndDrain
<1> DEFINE T == run.todo \ {claim}
           d == Completed(due, claim, run.now)
<1>2. /\ Table(d) /\ \A w \in WorkIds \ {claim.id} : d[w] = due[w]
  BY <1>0, ServedKeeps DEF InstantsBounded, Runs
<1>3. \A c \in T : d[c.id] = due[c.id]
  BY <1>0, <1>2 DEF RunInvariant, Runs, Claims
<1>4. Recurring \subseteq Scheduled(d)
  BY <1>0, <1>1, <1>2 DEF RunInvariant, Scheduled, WorkIds
<1> HIDE DEF d
<1>5. SchedulerInvariant'
  BY <1>0, <1>1, <1>2, <1>3, <1>4, ContinueKeeps DEF d
<1>6. T # {} => run'.todo = T
  BY <1>0, <1>1 DEF Continue, Runs
<1> QED BY <1>0, <1>1, <1>5, <1>6

(* A unit of time: rows, events and copies come nearer together. *)
LEMMA NearerOrders ==
    ASSUME NEW id \in WorkIds, NEW t \in Int, t >= -Interval
    PROVE  /\ NearerWork(id, t) \in Int /\ NearerWork(id, t) >= -Interval
           /\ t <= 0 => NearerWork(id, t) <= 0
           /\ t > 0 => NearerWork(id, t) = t - 1
<1>1. Interval \in Nat /\ Interval > 0 /\ Past \in Int /\ Past <= 0 /\ Past > -Interval
  BY SchedulerAssumption DEF Past
<1> QED BY <1>1 DEF NearerWork, NearerSlot, Nearer

LEMMA TickKeeps ==
    ASSUME SchedulerInvariant, Tick
    PROVE  SchedulerInvariant' /\ {c.id : c \in run.todo} \subseteq {c.id : c \in run'.todo}
<1> USE DEF SchedulerInvariant
<1> DEFINE Near(c) == [c EXCEPT !.at = NearerWork(c.id, c.at)]
           T == {Near(c) : c \in run.todo}
<1>0. /\ run \in Runs /\ events \in [Events -> EventRows] /\ due \in [WorkIds -> WorkRows \cup {None}]
      /\ alarm \in Nat \cup {None} /\ run.now > Past /\ UNCHANGED <<up, crashes, dispatched>>
      /\ Past \in Int /\ Past <= 0
  BY SchedulerAssumption DEF Tick, RunInvariant, SchedulerTypeOK, Past
<1>1. \A id \in WorkIds :
          /\ due[id] = None => due'[id] = None
          /\ due[id] # None => /\ due'[id] \in WorkRows /\ due'[id] # None
                               /\ due[id].at \in Int /\ due[id].at >= -Interval
                               /\ due'[id].at = NearerWork(id, due[id].at)
                               /\ due'[id].attempts = due[id].attempts
  <2>1. \A id \in WorkIds : due'[id] = IF due[id] = None THEN None
                                        ELSE [due[id] EXCEPT !.at = NearerWork(id, due[id].at)]
    BY DEF Tick
  <2> TAKE id \in WorkIds
  <2>2. ASSUME due[id] # None
        PROVE  /\ due'[id] \in WorkRows /\ due'[id] # None
               /\ due[id].at \in Int /\ due[id].at >= -Interval
               /\ due'[id].at = NearerWork(id, due[id].at)
               /\ due'[id].attempts = due[id].attempts
    <3>1. due[id] \in WorkRows /\ due[id].at >= -Interval
      BY <1>0, <2>2 DEF InstantsBounded, Table
    <3>2. due[id].at \in Int
      BY <3>1 DEF WorkRows
    <3>3. NearerWork(id, due[id].at) \in Int
      BY <3>1, <3>2, NearerOrders
    <3>4. due'[id] = [due[id] EXCEPT !.at = NearerWork(id, due[id].at)]
      BY <2>1, <2>2
    <3>5. due'[id] \in WorkRows
      BY <3>1, <3>3, <3>4 DEF WorkRows
    <3> QED BY <3>1, <3>2, <3>4, <3>5, NoneIsNoValue DEF WorkRows
  <2> QED BY <2>1, <2>2
<1>2. due' \in [WorkIds -> WorkRows \cup {None}] /\ Scheduled(due') = Scheduled(due)
  <2>1. due' = [id \in WorkIds |-> due'[id]]
    BY DEF Tick
  <2> QED BY <1>1, <2>1 DEF Scheduled
<1>3. Table(due')
  BY <1>1, <1>2, NearerOrders DEF Table
<1>4. events' \in [Events -> EventRows] /\ \A e \in Events :
          /\ events'[e].status = events[e].status /\ events'[e].attempts = events[e].attempts
          /\ events'[e].nextAt = Nearer(events[e].nextAt) /\ events'[e].nextAt >= Past
  <2>1. events' = [e \in Events |-> [events[e] EXCEPT !.nextAt = Nearer(events[e].nextAt)]]
    BY DEF Tick
  <2>2. ASSUME NEW e \in Events
        PROVE  /\ events'[e] \in EventRows
               /\ events'[e].status = events[e].status /\ events'[e].attempts = events[e].attempts
               /\ events'[e].nextAt = Nearer(events[e].nextAt) /\ events'[e].nextAt >= Past
    <3>1. events[e] \in EventRows /\ events[e].nextAt >= Past /\ events[e].nextAt \in Int
      BY <1>0 DEF InstantsBounded, EventRows
    <3>2. Nearer(events[e].nextAt) \in Int /\ Nearer(events[e].nextAt) >= Past
      BY <1>0, <3>1 DEF Nearer
    <3>3. events'[e] = [events[e] EXCEPT !.nextAt = Nearer(events[e].nextAt)]
      BY <2>1
    <3> QED BY <3>1, <3>2, <3>3 DEF EventRows
  <2> QED BY <2>1, <2>2
<1>5. alarm' \in Nat \cup {None} /\ (alarm # None => alarm' # None /\ alarm' = NearerAlarm(alarm))
  <2>1. alarm' = IF alarm = None THEN None ELSE NearerAlarm(alarm)
    BY DEF Tick
  <2>2. alarm # None => NearerAlarm(alarm) \in Nat
    BY <1>0 DEF NearerAlarm
  <2> QED BY <2>1, <2>2, NoneIsNoValue
<1>6. AlarmCoversRows'
  <2>1. ASSUME AtRest', NEW id \in Scheduled(due')
        PROVE  alarm' # None /\ (alarm' = 0 \/ alarm' <= due'[id].at)
    <3>1. id \in WorkIds /\ id \in Scheduled(due) /\ due[id] # None
      BY <1>2, <2>1 DEF Scheduled
    <3>2. AtRest
      <4>1. run.pc = "idle" \/ run'.pc = run.pc
        BY <1>0 DEF Tick, Runs
      <4> QED BY <1>0, <2>1, <4>1 DEF AtRest
    <3>3. alarm # None /\ (alarm = 0 \/ alarm <= due[id].at)
      BY <3>1, <3>2 DEF AlarmCoversRows
    <3>4. alarm \in Nat /\ alarm' = NearerAlarm(alarm) /\ alarm' # None
      BY <1>0, <1>5, <3>3
    <3>5. due[id].at \in Int /\ (due[id].at > 0 => due'[id].at = due[id].at - 1)
      BY <1>1, <3>1, NearerOrders
    <3> QED BY <3>3, <3>4, <3>5 DEF NearerAlarm
  <2> QED BY <2>1 DEF AlarmCoversRows
<1>7. EventsCovered'
  <2>1. ASSUME NEW e \in Pending(events')
        PROVE  \E id \in Scheduled(due') : due'[id].at <= 0 \/ due'[id].at <= events'[e].nextAt
    <3>1. e \in Events /\ e \in Pending(events)
      BY <1>4, <2>1 DEF Pending
    <3>2. PICK id \in Scheduled(due) : due[id].at <= 0 \/ due[id].at <= events[e].nextAt
      BY <3>1 DEF EventsCovered
    <3>3. /\ id \in WorkIds /\ due[id].at \in Int /\ due'[id].at \in Int
          /\ due[id].at <= 0 => due'[id].at <= 0
          /\ due[id].at > 0 => due'[id].at = due[id].at - 1
      BY <1>1, <3>2, NearerOrders DEF Scheduled
    <3>4. /\ events[e].nextAt \in Int /\ events'[e].nextAt = Nearer(events[e].nextAt)
      BY <1>0, <1>4, <3>1 DEF EventRows
    <3>5. due'[id].at <= 0 \/ due'[id].at <= events'[e].nextAt
      BY <1>0, <3>2, <3>3, <3>4 DEF Nearer
    <3> QED BY <1>2, <3>5
  <2> QED BY <2>1 DEF EventsCovered
<1>8. AbsentUntried'
  BY <1>4 DEF AbsentUntried
<1>9. CASE run.pc = "idle"
  <2>1. run' = run /\ run = Idle
    BY <1>9 DEF Tick, RunInvariant
  <2>2. SchedulerTypeOK'
    BY <1>0, <1>2, <1>4, <1>5, <2>1 DEF RunInvariant, SchedulerTypeOK
  <2>3. \A e \in Events :
          /\ events'[e].attempts <= OutboxAttempts
          /\ events'[e].status = "pending" => events'[e].attempts < OutboxAttempts
          /\ dispatched'[e] <= events'[e].attempts + crashes'
                              + (IF run'.sent # None /\ run'.sent.entry.id = e THEN 1 ELSE 0)
    BY <1>0, <1>4, <2>1 DEF RunInvariant
  <2>4. up' => Recurring \subseteq Scheduled(due')
    BY <1>0, <1>2 DEF RunInvariant
  <2>5. RunInvariant'
    BY <2>1, <2>2, <2>3, <2>4 DEF RunInvariant, Idle
  <2>6. InstantsBounded' /\ TodoIsDue'
    BY <1>0, <1>3, <1>4, <2>1 DEF InstantsBounded, TodoIsDue, Idle
  <2> QED BY <1>6, <1>7, <1>8, <2>1, <2>5, <2>6
<1>10. CASE run.pc # "idle"
  <2>1. run' = [run EXCEPT !.now = run.now - 1, !.todo = T]
    BY <1>10 DEF Tick
  <2>2. \A c \in run.todo :
           /\ Near(c) \in Claims /\ Near(c).id = c.id /\ Near(c).attempts = c.attempts
           /\ Near(c).at = NearerWork(c.id, c.at) /\ c.id \in WorkIds /\ due[c.id] # None
           /\ due[c.id].attempts = c.attempts /\ (c.id \in Recurring => due[c.id].at = c.at)
           /\ due[c.id].at <= 0
    <3> TAKE c \in run.todo
    <3>1. c \in Claims
      BY <1>0 DEF Runs
    <3>2. c.at \in Int /\ NearerWork(c.id, c.at) \in Int
      BY <1>0, <3>1, SchedulerAssumption DEF Claims, NearerWork, NearerSlot, Nearer
    <3> QED BY <3>1, <3>2 DEF Claims, RunInvariant, TodoIsDue
  <2>3. \A c \in T : /\ c \in Claims /\ due'[c.id] # None
                     /\ due'[c.id].attempts = c.attempts
                     /\ c.id \in Recurring => due'[c.id].at = c.at
                     /\ due'[c.id].at <= 0
    <3>1. SUFFICES ASSUME NEW c \in run.todo
                   PROVE  /\ Near(c) \in Claims /\ due'[Near(c).id] # None
                          /\ due'[Near(c).id].attempts = Near(c).attempts
                          /\ Near(c).id \in Recurring => due'[Near(c).id].at = Near(c).at
                          /\ due'[Near(c).id].at <= 0
      OBVIOUS
    <3>2. /\ Near(c).id = c.id /\ c.id \in WorkIds /\ due[c.id] # None
      BY <2>2
    <3>3. due'[c.id].at <= 0
      BY <1>1, <2>2, <3>2, NearerOrders
    <3> HIDE DEF Near
    <3> QED BY <1>1, <2>2, <3>2, <3>3
  <2>4. \A c, d \in T : c.id = d.id => c = d
    <3>1. ASSUME NEW c \in run.todo, NEW d \in run.todo, Near(c).id = Near(d).id
          PROVE  Near(c) = Near(d)
      <4>1. c.id = d.id
        BY <2>2, <3>1
      <4> QED BY <4>1 DEF RunInvariant
    <3> HIDE DEF Near
    <3> QED BY <3>1
  <2>5. /\ T # {} /\ \A c \in run.todo : Near(c) \in T /\ Near(c).id = c.id
    <3>1. run.todo # {}
      BY <1>10 DEF RunInvariant
    <3> HIDE DEF Near
    <3> QED BY <2>2, <3>1
  <2> HIDE DEF T, Near
  <2>6. /\ run'.pc = run.pc /\ run'.now = run.now - 1 /\ run'.todo = T /\ run'.batch = run.batch
        /\ run'.sent = run.sent /\ run' \in Runs
    <3>1. run.now - 1 \in Int /\ T \subseteq Claims
      BY <1>0, <2>3 DEF Runs
    <3>2. run' \in Runs
      BY <1>0, <2>1, <3>1 DEF Runs
    <3> QED BY <1>0, <2>1, <3>2 DEF Runs
  <2>7. SchedulerTypeOK'
    BY <1>0, <1>2, <1>4, <1>5, <2>6 DEF RunInvariant, SchedulerTypeOK
  <2>8. \A e \in Events :
          /\ events'[e].attempts <= OutboxAttempts
          /\ events'[e].status = "pending" => events'[e].attempts < OutboxAttempts
          /\ dispatched'[e] <= events'[e].attempts + crashes'
                              + (IF run'.sent # None /\ run'.sent.entry.id = e THEN 1 ELSE 0)
    BY <1>0, <1>4, <2>6 DEF RunInvariant
  <2>9. \A b \in run'.batch : events'[b.id].status = "pending" /\ events'[b.id].attempts = b.attempts
    BY <1>0, <1>4, <2>6 DEF RunInvariant, Runs, Entries
  <2>10. run'.pc = "drain" => \E c \in run'.todo : c.id = Flush
    BY <2>5, <2>6 DEF RunInvariant
  <2>11. up' /\ Recurring \subseteq Scheduled(due')
    BY <1>0, <1>2, <1>10 DEF RunInvariant
  <2>12. /\ run'.pc # "idle"
         /\ run'.pc # "drain" => run'.batch = {} /\ run'.sent = None
         /\ run'.sent # None => run'.sent.entry \in run'.batch
    BY <1>10, <2>6 DEF RunInvariant
  <2>13. RunInvariant'
    BY <2>3, <2>4, <2>5, <2>6, <2>7, <2>8, <2>9, <2>10, <2>11, <2>12 DEF RunInvariant
  <2>14. InstantsBounded'
    <3>1. run.now \in Int /\ run.now <= 0
      BY <1>0 DEF InstantsBounded, Runs
    <3> QED BY <1>0, <1>3, <1>4, <2>6, <3>1 DEF InstantsBounded
  <2>15. TodoIsDue'
    BY <2>3, <2>6 DEF TodoIsDue
  <2> QED BY <1>6, <1>7, <1>8, <2>5, <2>6, <2>13, <2>14, <2>15
<1> QED BY <1>9, <1>10

-----------------------------------------------------------------------------
LEMMA InitInvariant == Init => SchedulerInvariant
<1> SUFFICES ASSUME Init PROVE SchedulerInvariant
  OBVIOUS
<1>1. Past \in Int /\ Past <= 0 /\ MaxCrashes \in Nat /\ OutboxAttempts \in Nat \ {0}
  BY SchedulerAssumption DEF Past
<1>2. Idle \in Runs /\ run = Idle
  BY DEF Idle, Runs, Init
<1>3. [status |-> "absent", attempts |-> 0, nextAt |-> Past] \in EventRows
  BY <1>1 DEF EventRows, Statuses
<1>4. SchedulerTypeOK
  <2>1. events \in [Events -> EventRows] /\ due \in [WorkIds -> WorkRows \cup {None}]
    BY <1>3 DEF Init
  <2>2. dispatched \in [Events -> Nat] /\ crashes \in 0 .. MaxCrashes
    BY <1>1 DEF Init
  <2> QED BY <1>2, <2>1, <2>2 DEF Init, SchedulerTypeOK
<1>5. RunInvariant
  BY <1>1, <1>4 DEF Init, RunInvariant, Idle
<1> QED BY <1>1, <1>5 DEF Init, SchedulerInvariant, InstantsBounded, Table, AbsentUntried, TodoIsDue, EventsCovered,
           AlarmCoversRows, AtRest, Pending, Idle

LEMMA NextKeeps == SchedulerInvariant /\ [Next]_vars => SchedulerInvariant'
<1> SUFFICES ASSUME SchedulerInvariant, [Next]_vars PROVE SchedulerInvariant'
  OBVIOUS
<1>1. ASSUME NEW e \in Events, NEW at \in 0 .. MaxDelay, Post(e, at)
      PROVE  SchedulerInvariant'
  BY <1>1, PostKeeps
<1>2. ASSUME NEW e \in Events, NEW at \in 0 .. MaxDelay, PostThenCrash(e, at)
      PROVE  SchedulerInvariant'
  BY <1>2, CrashKeeps
<1>3. CASE Crash
  BY <1>3, CrashKeeps
<1>4. CASE Start
  BY <1>4, StartKeeps
<1>5. CASE AlarmFires
  BY <1>5, AlarmFiresKeeps
<1>6. CASE RunStep
  BY <1>6, RunRecurringKeeps, BeginDrainKeeps, DispatchKeeps, SettleOutboxKeeps, EndDrainKeeps DEF RunStep
<1>7. CASE Tick
  BY <1>7, TickKeeps
<1>8. CASE UNCHANGED vars
  BY <1>8 DEF vars, SchedulerInvariant, RunInvariant, SchedulerTypeOK, InstantsBounded, Table, AbsentUntried,
     TodoIsDue, EventsCovered, AlarmCoversRows, AtRest, Scheduled, Pending
<1> QED BY <1>1, <1>2, <1>3, <1>4, <1>5, <1>6, <1>7, <1>8 DEF Next

(* Whatever mutations commit and crashes come in the middle of a run, what  *)
(* the run claimed is what the tables say when it acts on its copies, and   *)
(* no event is handed out more often than its budget and the crashes allow. *)
THEOREM RunsHold == Spec => []RunInvariant
<1>1. SchedulerInvariant => RunInvariant
  BY DEF SchedulerInvariant
<1> QED BY <1>1, InitInvariant, NextKeeps, PTL DEF Spec

(* Whenever the object is at rest, its one alarm is no later than any row   *)
(* of due_work and than the next attempt of any event of the outbox.        *)
THEOREM AlarmIsEnough == Spec => []AlarmCoversAll
<1>1. ASSUME SchedulerInvariant PROVE AlarmCoversAll
  <2>1. SUFFICES ASSUME AtRest, NEW e \in Pending(events)
                 PROVE  alarm # None /\ (alarm = 0 \/ alarm <= events[e].nextAt)
    BY <1>1 DEF SchedulerInvariant, AlarmCoversRows, AlarmCoversAll
  <2>2. PICK id \in Scheduled(due) : due[id].at <= 0 \/ due[id].at <= events[e].nextAt
    BY <1>1 DEF SchedulerInvariant, EventsCovered
  <2>3. alarm # None /\ (alarm = 0 \/ alarm <= due[id].at)
    BY <1>1, <2>1 DEF SchedulerInvariant, AlarmCoversRows
  <2>4. alarm \in Nat /\ events[e].nextAt \in Int
    BY <1>1, <2>3 DEF SchedulerInvariant, RunInvariant, SchedulerTypeOK, Pending, EventRows
  <2>5. due[id].at \in Int
    BY <1>1 DEF SchedulerInvariant, InstantsBounded, Table, Scheduled, WorkRows
  <2> QED BY <2>2, <2>3, <2>4, <2>5
<1> QED BY <1>1, InitInvariant, NextKeeps, PTL DEF Spec

(* After a long absence recurring work runs once, not once for every slot   *)
(* it missed: completed or deferred, its row ends after the run's clock.    *)
THEOREM NoBurst == Spec => NoCatchUpBurst
<1>1. ASSUME SchedulerInvariant, [Next]_vars
      PROVE  [\A c \in run.todo :
                 (c.id \in Recurring /\ up' /\ c.id \notin {d.id : d \in run'.todo})
                     => due'[c.id].at > run.now]_vars
  <2> SUFFICES ASSUME Next, NEW c \in run.todo, c.id \in Recurring, up', c.id \notin {d.id : d \in run'.todo}
               PROVE  due'[c.id].at > run.now
    BY <1>1
  <2>1. run.todo # {} /\ run # Idle /\ c \notin run'.todo /\ ~(run'.todo = run.todo)
    BY DEF Idle
  <2>2. up
    BY <1>1, <2>1 DEF SchedulerInvariant, RunInvariant
  <2>3. ~(\E e \in Events, at \in 0 .. MaxDelay : Post(e, at) \/ PostThenCrash(e, at))
    BY <2>1 DEF Post, PostThenCrash
  <2>4. ~Crash /\ ~Start /\ ~AlarmFires
    BY <1>1, <2>1, <2>2 DEF Crash, Start, AlarmFires, SchedulerInvariant, RunInvariant
  <2>5. ~Tick
    BY <1>1, TickKeeps
  <2>6. RunStep
    BY <2>3, <2>4, <2>5 DEF Next
  <2>7. PICK claim \in run.todo, ok \in BOOLEAN : RunRecurring(claim, ok)
    BY <1>1, <2>1, <2>6, BeginDrainKeeps, DispatchKeeps, SettleOutboxKeeps, EndDrainKeeps DEF RunStep
  <2>8. c = claim
    BY <1>1, <2>1, <2>7, RunRecurringKeeps
  <2> QED BY <1>1, <2>7, <2>8, RunRecurringKeeps
<1> QED BY <1>1, InitInvariant, NextKeeps, PTL DEF Spec, NoCatchUpBurst
=============================================================================
