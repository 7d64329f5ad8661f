----------------------------- MODULE TimedStats -----------------------------
(***************************************************************************)
(* CountingStats and MeanStats of common/base/timed_stats.h: what has been *)
(* added in each of the last kTimeWindowSize seconds, in a ring of one     *)
(* item per second, and in total.  Both are given the same values here.    *)
(*                                                                         *)
(* A caller takes its timestamp before it locks m_mutex, or passes one of  *)
(* its own: the timestamps may come in any order.                          *)
(***************************************************************************)
EXTENDS Integers, Sequences, FiniteSetsExt

CONSTANTS
    kTimeWindowSize,  \* the seconds kept
    MaxTime,          \* bound: the latest timestamp
    Values,           \* what is added, a set of integers
    MaxAdds           \* bound: the values accepted

VARIABLES
    counting,   \* the CountingStats
    mean,       \* the MeanStats
    history     \* ghost: second -> what was accepted in it

vars == <<counting, mean, history>>

Seconds == 0..MaxTime
Slots == 0..(kTimeWindowSize - 1)

Larger(a, b) == IF a > b THEN a ELSE b
Smaller(a, b) == IF a < b THEN a ELSE b

-----------------------------------------------------------------------------
(* The items of the rings.                                                 *)

ClearItem == [cnt |-> 0, min |-> 0, max |-> 0, sum |-> 0]

SetItem(value) == [cnt |-> 1, min |-> value, max |-> value, sum |-> value]

UpdateItem(item, value) ==
    [cnt |-> item.cnt + 1,
     min |-> Smaller(value, item.min), max |-> Larger(value, item.max),
     sum |-> item.sum + value]

\* Variant: the seconds between are not cleared.
ForwardStale(stats, timestamp, blank, item) ==
    [stats.m_items EXCEPT ![timestamp % kTimeWindowSize] = item]

\* The ring at a second later than the last: the seconds between are
\* cleared, which is all of the ring after a window without a value.
Forward(stats, timestamp, blank, item) ==
    LET from == Larger(stats.m_last_time + 1,
                       timestamp - kTimeWindowSize + 1)
        cleared == {s % kTimeWindowSize : s \in from..(timestamp - 1)}
    IN  [i \in Slots |-> CASE i = timestamp % kTimeWindowSize -> item
                           [] i \in cleared -> blank
                           [] OTHER -> stats.m_items[i]]

-----------------------------------------------------------------------------
(* Adding a value, under m_mutex.                                          *)

\* m_start_time after a value at a second later than the last.
StartTime(stats, timestamp) ==
    Larger(stats.m_start_time, timestamp - kTimeWindowSize + 1)

AddInternalCount(value, timestamp) ==
    LET pos == timestamp % kTimeWindowSize IN
    counting' =
      CASE counting.m_start_time < 0 ->
             [m_start_time |-> timestamp, m_last_time |-> timestamp,
              m_total |-> value,
              m_items |-> [counting.m_items EXCEPT ![pos] = value]]
        [] counting.m_start_time >= 0 /\ timestamp < counting.m_last_time ->
             counting
        [] counting.m_start_time >= 0 /\ timestamp = counting.m_last_time ->
             [counting EXCEPT !.m_items[pos] = @ + value, !.m_total = @ + value]
        [] counting.m_start_time >= 0 /\ timestamp > counting.m_last_time ->
             [m_start_time |-> StartTime(counting, timestamp),
              m_last_time |-> timestamp,
              m_total |-> counting.m_total + value,
              m_items |-> Forward(counting, timestamp, 0, value)]

AddInternalValue(value, timestamp) ==
    LET pos == timestamp % kTimeWindowSize IN
    mean' =
      CASE mean.m_start_time < 0 ->
             [m_start_time |-> timestamp, m_last_time |-> timestamp,
              m_total |-> SetItem(value),
              m_items |-> [mean.m_items EXCEPT ![pos] = SetItem(value)]]
        [] mean.m_start_time >= 0 /\ timestamp < mean.m_last_time ->
             mean
        [] mean.m_start_time >= 0 /\ timestamp = mean.m_last_time ->
             [mean EXCEPT !.m_items[pos] = UpdateItem(@, value),
                          !.m_total = UpdateItem(@, value)]
        [] mean.m_start_time >= 0 /\ timestamp > mean.m_last_time ->
             [m_start_time |-> StartTime(mean, timestamp),
              m_last_time |-> timestamp,
              m_total |-> UpdateItem(mean.m_total, value),
              m_items |-> Forward(mean, timestamp, ClearItem, SetItem(value))]

\* A value is accepted when none of a later second has come before it.
Record(value, timestamp) ==
    history' =
      IF \E s \in Seconds : s > timestamp /\ history[s].count > 0
      THEN history
      ELSE [history EXCEPT ![timestamp] =
              [count |-> @.count + 1, sum |-> @.sum + value,
               values |-> @.values \cup {value}]]

Add(value, timestamp) ==
    /\ mean.m_total.cnt < MaxAdds
    /\ AddInternalCount(value, timestamp)
    /\ AddInternalValue(value, timestamp)
    /\ Record(value, timestamp)

Init ==
    /\ counting = [m_start_time |-> -1, m_last_time |-> -1, m_total |-> 0,
                   m_items |-> [i \in Slots |-> 0]]
    /\ mean = [m_start_time |-> -1, m_last_time |-> -1,
               m_total |-> ClearItem, m_items |-> [i \in Slots |-> ClearItem]]
    /\ history = [s \in Seconds |-> [count |-> 0, sum |-> 0, values |-> {}]]

Next == \E value \in Values, timestamp \in Seconds : Add(value, timestamp)

Spec == Init /\ [][Next]_vars

-----------------------------------------------------------------------------
(* The queries, which read the rings under m_mutex.  They ask for at least *)
(* one second.                                                             *)

\* The seconds a query of the last so many seconds looks at, none before the
\* first value.
Section(stats, seconds, timestamp) ==
    IF stats.m_start_time < 0
    THEN {}
    ELSE Larger(timestamp - seconds, stats.m_start_time)
           ..Smaller(timestamp - 1, stats.m_last_time)

Item(stats, second) == stats.m_items[second % kTimeWindowSize]

GetRecentCount(seconds, timestamp) ==
    MapThenSumSet(LAMBDA s : Item(counting, s),
                  Section(counting, seconds, timestamp))

\* It is asked with a timestamp of at least so many seconds: the code has no
\* test of m_start_time here.
GetMaxCountOfRecent(seconds, timestamp) ==
    Max({0} \cup {Item(counting, s) : s \in Section(counting, seconds, timestamp)})

\* Seconds without a value are passed over, but for the first.
GetRecentStats(seconds, timestamp) ==
    LET range == Section(mean, seconds, timestamp)
        items == {Item(mean, s) :
                    s \in {r \in range : r = Min(range) \/ Item(mean, r).cnt # 0}}
        Total(f(_)) == MapThenSumSet(LAMBDA s : f(Item(mean, s)), range)
        count == Total(LAMBDA item : item.cnt)
    IN  IF range = {}
        THEN [min |-> 0, max |-> 0, count |-> 0, average |-> 0]
        ELSE [min |-> Min({item.min : item \in items}),
              max |-> Max({item.max : item \in items}),
              count |-> count,
              average |-> IF count = 0
                          THEN 0
                          ELSE Total(LAMBDA item : item.sum) \div count]
-----------------------------------------------------------------------------
(* Properties.                                                             *)

Latest == counting.m_last_time

\* The seconds of the window that a query asks for, whatever timestamp it
\* has, and what was accepted in them.
Asked(seconds, timestamp) ==
    {s \in Seconds : /\ s \in (timestamp - seconds)..(timestamp - 1)
                     /\ s \in (Latest - kTimeWindowSize + 1)..Latest}

Count(seconds, timestamp) ==
    MapThenSumSet(LAMBDA s : history[s].count, Asked(seconds, timestamp))

Sum(seconds, timestamp) ==
    MapThenSumSet(LAMBDA s : history[s].sum, Asked(seconds, timestamp))

Given(seconds, timestamp) ==
    UNION {history[s].values : s \in Asked(seconds, timestamp)}

\* No item of a second that has left the window, or of a second skipped over,
\* is still in the rings: the item of every second of the window, from the
\* first value on, is what was accepted in it.  The first value may have come
\* later than the window begins; then nothing was accepted before it.
RingIsHistory ==
    \A s \in Seconds :
        /\ s \in counting.m_start_time..counting.m_last_time =>
             /\ Item(counting, s) = history[s].sum
             /\ Item(mean, s).cnt = history[s].count
             /\ Item(mean, s).sum = history[s].sum
        /\ history[s].count > 0 /\ s > Latest - kTimeWindowSize =>
             s \in counting.m_start_time..counting.m_last_time

\* What GetRecentCount, GetMaxCountOfRecent and GetRecentStats return is what
\* was accepted in the seconds asked for, also when the query's timestamp is
\* older than the last value, long after it, or before the first.  The least
\* and the largest value are exact when the first second of the range has one.
RecentIsExact ==
    \A seconds \in 1..kTimeWindowSize, timestamp \in 0..(MaxTime + 2) :
      LET recent == GetRecentStats(seconds, timestamp)
          given == Given(seconds, timestamp)
          range == Section(mean, seconds, timestamp)
      IN  /\ GetRecentCount(seconds, timestamp) = Sum(seconds, timestamp)
          /\ timestamp >= seconds =>
               GetMaxCountOfRecent(seconds, timestamp) =
                 Max({0} \cup {history[s].sum : s \in Asked(seconds, timestamp)})
          /\ recent.count = Count(seconds, timestamp)
          /\ recent.count > 0 =>
               /\ recent.average = Sum(seconds, timestamp) \div recent.count
               /\ history[Min(range)].count > 0 =>
                    recent.min = Min(given) /\ recent.max = Max(given)

\* The totals are those of all accepted values.
TotalIsSum ==
    /\ counting.m_total = MapThenSumSet(LAMBDA s : history[s].sum, Seconds)
    /\ mean.m_total.cnt = MapThenSumSet(LAMBDA s : history[s].count, Seconds)
    /\ mean.m_total.sum = counting.m_total
    /\ mean.m_total.cnt > 0 =>
         LET all == UNION {history[s].values : s \in Seconds}
         IN  mean.m_total.min = Min(all) /\ mean.m_total.max = Max(all)
=============================================================================
