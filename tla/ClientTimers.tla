--------------------------- MODULE ClientTimers ---------------------------
(* The timers of the web client: the scheduler agent and its queue          *)
(* (src/client/src/time/scheduler.rs, queue.rs) with the components that    *)
(* show relative times, Time (time/view.rs) and Countdown                   *)
(* (post/countdown.rs).  The interval timer fires every second, but a       *)
(* browser may delay it, so the clock of the scheduler advances by leaps.   *)
EXTENDS Integers, SequencesExt

CONSTANTS
  View,        \* handlers of Time and Countdown components
  Countdown,   \* those of them that are Countdown components
  Units,       \* how many of each unit make the next one (UNITS)
  Time,        \* timestamps that components are given
  MaxTime,     \* bound: the last second of an instance
  MaxGap       \* bound: seconds between two ticks of the interval timer

ASSUME TimersAssumption ==
  /\ Countdown \subseteq View
  /\ Units \in Seq(Nat \ {0, 1})
  /\ Time \subseteq Nat
  /\ MaxTime \in Nat
  /\ MaxGap \in Nat \ {0}

VARIABLES
  now,         \* Scheduler.now
  queue,       \* Scheduler.queue: ticks [id, val, pending_on, diff]
  props,       \* mounted components |-> the timestamp they were given last
  shown        \* mounted components |-> [diff, as_of]: what they show and,
               \* for properties only, the second it was computed for

timerVars == <<now, queue, props, shown>>

(* RelativeTime::new.  The unit is the number of divisions made. *)
RelativeTime(at, val) ==
  LET n == Len(Units)
      time[i \in 0 .. n] ==
        IF i = 0 THEN (IF at < val THEN val - at ELSE at - val)
        ELSE time[i - 1] \div Units[i]
      unit == Min({n} \cup {i \in 0 .. n - 1 : time[i] < Units[i + 1]})
  IN [is_future |-> at < val, duration |-> time[unit] % 256, unit |-> unit]

Divisor(unit) == FoldLeft(LAMBDA a, b : a * b, 1, SubSeq(Units, 1, unit))

Tick(id, val, at) ==
  [id |-> id, val |-> val, pending_on |-> at, diff |-> RelativeTime(at, val)]

(* Mutant: the next tick is a unit later instead of at the next unit. *)
SetNextTickUnfloored(t, at) ==
  Tick(t.id, t.val, at + Divisor(t.diff.unit) + 1)

(* Tick::set_next_tick *)
set_next_tick(t, at) ==
  LET d == Divisor(t.diff.unit) IN Tick(t.id, t.val, (at - (at % d)) + d)

(* Mutant: the queue is not sorted. *)
InsertFirst(q, t) == <<t>> \o q

(* Queue::insert: before the first tick that is due later *)
Insert(q, t) ==
  InsertAt(q, Min({Len(q) + 1} \cup {i \in DOMAIN q : t.pending_on < q[i].pending_on}), t)

(* Queue::remove *)
remove(q, id) ==
  LET found == {i \in DOMAIN q : q[i].id = id} IN
  IF found = {} THEN q ELSE RemoveAt(q, Min(found))

Put(f, k, v) == [x \in DOMAIN f \cup {k} |-> IF x = k THEN v ELSE f[x]]

Sent(t) == [diff |-> t.diff, as_of |-> t.pending_on]

(* refresh_tick: the tick is sent and the next one queued. *)
Refresh(q, t, at) == Insert(q, set_next_tick(t, at))

(* View::create, Countdown::create and Request::Register *)
Register(v, val) ==
  /\ v \notin DOMAIN props
  /\ props' = Put(props, v, val)
  /\ LET t == Tick(v, val, now) IN
     /\ shown' = Put(shown, v, Sent(t))
     /\ queue' = Refresh(queue, t, now)
  /\ UNCHANGED now

(* View::change and Request::ChangeTimestamp; a Countdown only stores its   *)
(* new properties.                                                          *)
ChangeTimestamp(v, val) ==
  /\ v \in DOMAIN props
  /\ props[v] # val
  /\ props' = [props EXCEPT ![v] = val]
  /\ IF v \in Countdown THEN UNCHANGED <<shown, queue>>
     ELSE LET t == Tick(v, val, now) IN
          /\ shown' = [shown EXCEPT ![v] = Sent(t)]
          /\ queue' = Refresh(remove(queue, v), t, now)
  /\ UNCHANGED now

(* Mutant: the component's rendering stays. *)
DisconnectedShown(v) ==
  /\ v \in DOMAIN props
  /\ props' = [x \in DOMAIN props \ {v} |-> props[x]]
  /\ queue' = remove(queue, v)
  /\ UNCHANGED <<now, shown>>

(* Scheduler::disconnected *)
Disconnected(v) ==
  /\ v \in DOMAIN props
  /\ props' = [x \in DOMAIN props \ {v} |-> props[x]]
  /\ shown' = [x \in DOMAIN shown \ {v} |-> shown[x]]
  /\ queue' = remove(queue, v)
  /\ UNCHANGED now

(* Message::Tick, gap seconds after the last one.  The loop pops the ticks  *)
(* that are due; those it queues again are due later than now.              *)
IntervalTick(gap) ==
  /\ now + gap <= MaxTime
  /\ now' = now + gap
  /\ LET due == SelectSeq(queue, LAMBDA t : t.pending_on <= now')
         rest == SelectSeq(queue, LAMBDA t : t.pending_on > now')
     IN /\ queue' = FoldLeft(LAMBDA q, t : Refresh(q, t, now'), rest, due)
        /\ shown' = FoldLeft(LAMBDA s, t : [s EXCEPT ![t.id] = Sent(t)], shown, due)
  /\ UNCHANGED props

TimerInit ==
  /\ now = 0
  /\ queue = <<>>
  /\ props = <<>>
  /\ shown = <<>>

TimerNext ==
  \/ \E v \in View, val \in Time : Register(v, val) \/ ChangeTimestamp(v, val)
  \/ \E v \in View : Disconnected(v)
  \/ \E gap \in 1 .. MaxGap : IntervalTick(gap)

TimerSpec == TimerInit /\ [][TimerNext]_timerVars

----------------------------------------------------------------------------

(* Types; exactly the mounted components show something. *)
TimerTypeOK ==
  /\ now \in 0 .. MaxTime
  /\ DOMAIN props \subseteq View
  /\ DOMAIN shown = DOMAIN props
  /\ \A i \in DOMAIN queue : queue[i].id \in View /\ queue[i].val \in Time

(* The queue is sorted, and holds exactly one tick, due in the future, for  *)
(* each mounted component: none is lost and none outlives its component     *)
(* when timestamps change between ticks (refresh_tick, remove).             *)
OneTickEach ==
  /\ \A i, j \in DOMAIN queue :
       i < j => queue[i].pending_on <= queue[j].pending_on /\ queue[i].id # queue[j].id
  /\ {queue[i].id : i \in DOMAIN queue} = DOMAIN props
  /\ \A i \in DOMAIN queue : queue[i].pending_on > now

(* A Time component shows the age of its own timestamp at some moment that  *)
(* is not in the future and not a whole unit of what it shows ago, apart    *)
(* from the delay of the interval timer ("updates all Time components, if   *)
(* their value changed within their current resolution").                   *)
ShownInTime ==
  \A v \in DOMAIN shown \ Countdown :
    LET s == shown[v] IN
    /\ s.diff = RelativeTime(s.as_of, props[v])
    /\ s.as_of <= now
    /\ now - s.as_of < Divisor(s.diff.unit) + MaxGap - 1
============================================================================
