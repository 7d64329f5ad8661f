-------------------------- MODULE ComponentsProofs --------------------------
(***************************************************************************)
(* What MCComponents checks of the components of Components on small       *)
(* instances, for every value of their constants.  Each part has an        *)
(* inductive invariant, a lemma for every step and a theorem.              *)
(***************************************************************************)
EXTENDS Components, FiniteSetTheorems, TLAPS

\* Leaves are tried with Zenon, then SMT; a leaf that only SMT proves says so.
USE ZenonT(30), SMTT(60)

-----------------------------------------------------------------------------
(* TimedStats.  The window of seconds from m_start_time to m_last_time is  *)
(* never longer than the ring, so no two of its seconds share a slot; a    *)
(* step forward clears the slots of exactly the seconds it passes.         *)

W == kTimeWindowSize

StatsItems == [cnt : Int, min : Int, max : Int, sum : Int]

StatsTypes ==
    /\ counting \in [m_start_time : Int, m_last_time : Int, m_total : Int,
                     m_items : [Stats!Slots -> Int]]
    /\ mean \in [m_start_time : Int, m_last_time : Int, m_total : StatsItems,
                 m_items : [Stats!Slots -> StatsItems]]
    /\ history \in [Stats!Seconds -> [count : Nat, sum : Int, values : SUBSET Values]]
    /\ \A s \in Stats!Seconds : history[s].count = 0 => history[s].sum = 0

\* Both rings cover the same seconds: none before the first value, then no
\* more than the ring has slots, the latest of them being the latest second
\* with a value.
StatsWindow ==
    /\ mean.m_start_time = counting.m_start_time
    /\ mean.m_last_time = counting.m_last_time
    /\ counting.m_start_time < 0 =>
         /\ counting.m_start_time = -1 /\ counting.m_last_time = -1
         /\ \A s \in Stats!Seconds : history[s].count = 0
    /\ counting.m_start_time >= 0 =>
         /\ counting.m_last_time \in Stats!Seconds
         /\ counting.m_start_time <= counting.m_last_time
         /\ counting.m_last_time - counting.m_start_time < W
         /\ history[counting.m_last_time].count > 0
         /\ \A s \in Stats!Seconds : s > counting.m_last_time => history[s].count = 0

StatsInv == StatsTypes /\ StatsWindow /\ Stats!RingIsHistory

\* Two seconds less than the window apart have different slots.
LEMMA SlotsDiffer ==
  ASSUME W \in Nat \ {0}, NEW s \in Nat, NEW r \in Nat, s < r, r - s < W
  PROVE  s % W # r % W
<1> HIDE DEF W
<1>1. s = W * (s \div W) + (s % W) /\ s \div W \in Int /\ s % W \in 0..(W-1)
  OBVIOUS
<1>2. r = W * (r \div W) + (r % W) /\ r \div W \in Int /\ r % W \in 0..(W-1)
  OBVIOUS
<1> DEFINE a == s \div W
<1> DEFINE b == r \div W
<1> HIDE DEF a, b
<1>3. ASSUME s % W = r % W PROVE FALSE
  <2>1. r - s = W * b - W * a
    BY <1>1, <1>2, <1>3 DEF a, b
  <2>2. a \in Int /\ b \in Int
    BY <1>1, <1>2 DEF a, b
  <2>3. W * b - W * a = W * (b - a)
    BY <2>2
  <2>4. CASE b - a <= 0
    <3>1. W * (b - a) <= 0
      BY <2>2, <2>4
    <3> QED BY <3>1, <2>1, <2>3
  <2>5. CASE b - a >= 1
    <3>1. W * (b - a) >= W
      BY <2>2, <2>5
    <3> QED BY <3>1, <2>1, <2>3
  <2> QED BY SMTT(60), <2>2, <2>4, <2>5
<1> QED BY <1>3

\* A second has a slot, and only one of the window has it.
LEMMA SlotOf ==
  ASSUME NEW s \in Stats!Seconds
  PROVE  s \in Nat /\ s % W \in Stats!Slots
BY StatsAssumption DEF W, Stats!Slots, Stats!Seconds
\* The rings are empty at the start.
LEMMA StatsInitInv == Stats!Init => StatsInv
BY SMTT(60), StatsAssumption DEF Stats!Init, StatsInv, StatsTypes, StatsWindow,
   Stats!RingIsHistory, Stats!Item, StatsItems, Stats!Slots, Stats!Seconds,
   Stats!ClearItem, W, Stats!Latest
\* The first value of all.
LEMMA FirstValueInv ==
  ASSUME StatsInv, NEW value \in Values, NEW timestamp \in Stats!Seconds,
         Stats!Add(value, timestamp), counting.m_start_time < 0
  PROVE  StatsInv'
<1>0. /\ counting.m_start_time < 0 /\ ~(counting.m_start_time >= 0)
      /\ mean.m_start_time < 0 /\ ~(mean.m_start_time >= 0)
  BY SMTT(60) DEF StatsInv, StatsTypes, StatsWindow
<1>1. /\ counting' = [m_start_time |-> timestamp, m_last_time |-> timestamp,
                      m_total |-> value,
                      m_items |-> [counting.m_items EXCEPT
                                     ![timestamp % W] = value]]
      /\ mean' = [m_start_time |-> timestamp, m_last_time |-> timestamp,
                  m_total |-> Stats!SetItem(value),
                  m_items |-> [mean.m_items EXCEPT
                                 ![timestamp % W] = Stats!SetItem(value)]]
  <2>1. Stats!AddInternalCount(value, timestamp) /\ Stats!AddInternalValue(value, timestamp)
    BY DEF Stats!Add
  <2>2. counting' = [m_start_time |-> timestamp, m_last_time |-> timestamp,
                     m_total |-> value,
                     m_items |-> [counting.m_items EXCEPT ![timestamp % W] = value]]
    BY <1>0, <2>1 DEF Stats!AddInternalCount, W
  <2>3. mean' = [m_start_time |-> timestamp, m_last_time |-> timestamp,
                 m_total |-> Stats!SetItem(value),
                 m_items |-> [mean.m_items EXCEPT ![timestamp % W] = Stats!SetItem(value)]]
    BY <1>0, <2>1 DEF Stats!AddInternalValue, W
  <2> QED
    BY <2>2, <2>3
<1>2. history' = [history EXCEPT ![timestamp] =
                    [count |-> @.count + 1, sum |-> @.sum + value,
                     values |-> @.values \cup {value}]]
  BY SMTT(60) DEF Stats!Add, Stats!Record, StatsInv, StatsTypes, StatsWindow
<1>3. Stats!SetItem(value) \in StatsItems /\ timestamp % W \in Stats!Slots /\ timestamp \in Nat
  BY SlotOf, StatsAssumption DEF StatsItems, Stats!SetItem
<1>4. StatsTypes'
  BY SMTT(60), <1>1, <1>2, <1>3, StatsAssumption DEF StatsInv, StatsTypes
<1>5. StatsWindow'
  BY SMTT(60), <1>1, <1>2, <1>3, StatsAssumption DEF StatsInv, StatsTypes, StatsWindow, W
<1>6. Stats!RingIsHistory'
  BY SMTT(60), <1>1, <1>2, <1>3, StatsAssumption DEF StatsInv, StatsTypes, StatsWindow,
     Stats!RingIsHistory, Stats!Item, W, Stats!Latest, Stats!SetItem, Stats!Seconds
<1> QED
  BY <1>4, <1>5, <1>6 DEF StatsInv

\* A value older than the latest is dropped.
LEMMA LateValueInv ==
  ASSUME StatsInv, NEW value \in Values, NEW timestamp \in Stats!Seconds,
         Stats!Add(value, timestamp), counting.m_start_time >= 0,
         timestamp < counting.m_last_time
  PROVE  StatsInv'
<1>1. counting' = counting /\ mean' = mean
  BY SMTT(60) DEF Stats!Add, Stats!AddInternalCount, Stats!AddInternalValue, StatsInv,
     StatsTypes, StatsWindow, Stats!Seconds
<1>2. history' = history
  BY DEF Stats!Add, Stats!Record, StatsInv, StatsTypes, StatsWindow
<1> QED
  BY <1>1, <1>2 DEF StatsInv, StatsTypes, StatsWindow, Stats!RingIsHistory, Stats!Item,
     Stats!Latest

\* One more value in the latest second: only that second's slot changes.
LEMMA SameSecondInv ==
  ASSUME StatsInv, NEW value \in Values, NEW timestamp \in Stats!Seconds,
         Stats!Add(value, timestamp), counting.m_start_time >= 0,
         timestamp = counting.m_last_time
  PROVE  StatsInv'
<1> DEFINE pos == timestamp % W
<1>1. /\ counting' = [counting EXCEPT !.m_items[pos] = @ + value,
                                      !.m_total = @ + value]
      /\ mean' = [mean EXCEPT !.m_items[pos] = Stats!UpdateItem(@, value),
                              !.m_total = Stats!UpdateItem(@, value)]
  BY SMTT(60) DEF Stats!Add, Stats!AddInternalCount, Stats!AddInternalValue, StatsInv,
     StatsTypes, StatsWindow, W, Stats!Seconds
<1>2. history' = [history EXCEPT ![timestamp] =
                    [count |-> @.count + 1, sum |-> @.sum + value,
                     values |-> @.values \cup {value}]]
  BY SMTT(60) DEF Stats!Add, Stats!Record, StatsInv, StatsTypes, StatsWindow
<1>3. pos \in Stats!Slots /\ timestamp \in Nat /\ value \in Int
  BY SlotOf, StatsAssumption
<1>4. \A item \in StatsItems :
        /\ Stats!UpdateItem(item, value) \in StatsItems
        /\ Stats!UpdateItem(item, value).cnt = item.cnt + 1
        /\ Stats!UpdateItem(item, value).sum = item.sum + value
  BY SMTT(60), <1>3 DEF StatsItems, Stats!UpdateItem, Stats!Smaller, Stats!Larger
<1>5. \A s \in Stats!Seconds :
        s \in counting.m_start_time..counting.m_last_time /\ s # timestamp
          => s % W # pos
  <2> SUFFICES ASSUME NEW s \in Stats!Seconds,
                      s \in counting.m_start_time..counting.m_last_time,
                      s # timestamp
               PROVE  s % W # timestamp % W
    OBVIOUS
  <2>1. /\ s \in Nat /\ timestamp \in Nat /\ W \in Nat \ {0}
        /\ s < timestamp /\ timestamp - s < W
    BY SMTT(60), SlotOf, StatsAssumption DEF StatsInv, StatsTypes, StatsWindow, W
  <2> QED
    BY <2>1, SlotsDiffer
<1>6. \A s \in Stats!Seconds : s % W \in Stats!Slots
  BY SlotOf
<1> HIDE DEF pos
<1>7. /\ counting' = [m_start_time |-> counting.m_start_time,
                      m_last_time |-> counting.m_last_time,
                      m_total |-> counting.m_total + value,
                      m_items |-> [counting.m_items EXCEPT
                                     ![pos] = counting.m_items[pos] + value]]
      /\ mean' = [m_start_time |-> mean.m_start_time,
                  m_last_time |-> mean.m_last_time,
                  m_total |-> Stats!UpdateItem(mean.m_total, value),
                  m_items |-> [mean.m_items EXCEPT
                                 ![pos] = Stats!UpdateItem(mean.m_items[pos], value)]]
  BY <1>1, <1>3 DEF StatsInv, StatsTypes
<1>8. StatsTypes'
  <2>1. counting' \in [m_start_time : Int, m_last_time : Int, m_total : Int,
                       m_items : [Stats!Slots -> Int]]
    BY SMTT(60), <1>3, <1>7 DEF StatsInv, StatsTypes
  <2>2. mean' \in [m_start_time : Int, m_last_time : Int, m_total : StatsItems,
                   m_items : [Stats!Slots -> StatsItems]]
    BY <1>3, <1>4, <1>7 DEF StatsInv, StatsTypes
  <2> QED
    BY SMTT(60), <1>2, <1>3, <2>1, <2>2, StatsAssumption DEF StatsInv, StatsTypes
<1>9. StatsWindow'
  BY SMTT(60), <1>2, <1>3, <1>7, StatsAssumption DEF StatsInv, StatsTypes, StatsWindow
<1>10. Stats!RingIsHistory'
  <2> SUFFICES ASSUME NEW s \in Stats!Seconds
               PROVE  Stats!RingIsHistory!(s)'
    BY DEF Stats!RingIsHistory
  <2>1. CASE s = timestamp
    <3>1. /\ counting.m_items[pos] = history[s].sum
          /\ mean.m_items[pos].cnt = history[s].count
          /\ mean.m_items[pos].sum = history[s].sum
          /\ mean.m_items[pos] \in StatsItems
      BY SMTT(60), <2>1, <1>3 DEF StatsInv, StatsTypes, StatsWindow,
         Stats!RingIsHistory, Stats!Item, W, pos, Stats!Seconds
    <3>2. s % W = pos
      BY <2>1 DEF pos
    <3> QED
      BY SMTT(60), <2>1, <1>2, <1>3, <1>4, <1>7, <3>1, <3>2 DEF StatsInv, StatsTypes,
         StatsWindow, Stats!Item, W, Stats!Latest, Stats!Seconds
  <2>2. CASE s # timestamp
    BY <2>2, <1>2, <1>3, <1>5, <1>6, <1>7
    DEF StatsInv, StatsTypes, StatsWindow, Stats!RingIsHistory, Stats!Item, W, Stats!Latest
  <2> QED
    BY <2>1, <2>2
<1> QED
  BY <1>8, <1>9, <1>10 DEF StatsInv

\* What Forward leaves in the slots of the new window: the item at the new
\* second, nothing in the seconds passed over, and the old items before them.
LEMMA ForwardItems ==
  ASSUME StatsWindow, StatsTypes, NEW timestamp \in Stats!Seconds,
         counting.m_start_time >= 0, timestamp > counting.m_last_time,
         NEW stats, stats.m_last_time = counting.m_last_time,
         NEW blank, NEW item, NEW s \in Stats!Seconds,
         s >= counting.m_start_time, s >= timestamp - W + 1, s <= timestamp
  PROVE  Stats!Forward(stats, timestamp, blank, item)[s % W] =
           IF s = timestamp THEN item
           ELSE IF s > counting.m_last_time THEN blank
           ELSE stats.m_items[s % W]
<1> DEFINE latest == counting.m_last_time
           from == Stats!Larger(latest + 1, timestamp - W + 1)
           cleared == {r % W : r \in from..(timestamp - 1)}
<1>1. /\ s \in Nat /\ timestamp \in Nat /\ latest \in Nat /\ W \in Nat \ {0}
      /\ s % W \in Stats!Slots
  BY SlotOf, StatsAssumption DEF StatsWindow, W
<1>2. Stats!Forward(stats, timestamp, blank, item)[s % W] =
        CASE s % W = timestamp % W -> item
          [] s % W \in cleared -> blank
          [] OTHER -> stats.m_items[s % W]
  BY <1>1 DEF Stats!Forward, W
<1>3. from \in Nat /\ from >= latest + 1 /\ from >= timestamp - W + 1
  BY <1>1 DEF Stats!Larger
<1>4. \A r \in from..(timestamp - 1) :
        r \in Nat /\ r % W # timestamp % W
  <2> TAKE r \in from..(timestamp - 1)
  <2>1. r \in Nat /\ r < timestamp /\ timestamp - r < W
    BY <1>1, <1>3
  <2> QED
    BY <1>1, <2>1, SlotsDiffer
<1>5. CASE s = timestamp
  <2>1. s % W \notin cleared
    BY <1>4, <1>5
  <2> HIDE DEF cleared
  <2> QED
    BY <1>2, <1>5, <2>1
<1>6. CASE s # timestamp /\ s > latest
  <2>1. s \in from..(timestamp - 1)
    BY <1>1, <1>6 DEF Stats!Larger
  <2>2. s % W \in cleared
    BY <2>1
  <2>3. s % W # timestamp % W
    BY <1>4, <2>1
  <2> HIDE DEF cleared
  <2> QED
    BY <1>1, <1>2, <1>6, <2>2, <2>3
<1>7. CASE s # timestamp /\ ~(s > latest)
  <2>1. s % W # timestamp % W
    <3>1. s < timestamp /\ timestamp - s < W
      BY SMTT(60), <1>1, <1>7
    <3> QED
      BY <1>1, <3>1, SlotsDiffer
  <2>2. s % W \notin cleared
    <3> SUFFICES ASSUME NEW r \in from..(timestamp - 1)
                 PROVE  r % W # s % W
      OBVIOUS
    <3>1. r \in Nat /\ s < r /\ r - s < W
      BY SMTT(60), <1>1, <1>3, <1>7
    <3> QED
      BY <1>1, <3>1, SlotsDiffer
  <2> HIDE DEF cleared
  <2> QED
    BY <1>1, <1>2, <1>7, <2>1, <2>2
<1> QED
  BY <1>5, <1>6, <1>7

\* A value at a later second moves the window: the seconds passed over become
\* empty, and those that leave the window give their slots away.
LEMMA LaterSecondInv ==
  ASSUME StatsInv, NEW value \in Values, NEW timestamp \in Stats!Seconds,
         Stats!Add(value, timestamp), counting.m_start_time >= 0,
         timestamp > counting.m_last_time
  PROVE  StatsInv'
<1> DEFINE start == Stats!StartTime(counting, timestamp)
           counts == Stats!Forward(counting, timestamp, 0, value)
           items == Stats!Forward(mean, timestamp, Stats!ClearItem, Stats!SetItem(value))
<1>1. /\ counting' = [m_start_time |-> start, m_last_time |-> timestamp,
                      m_total |-> counting.m_total + value, m_items |-> counts]
      /\ mean' = [m_start_time |-> start, m_last_time |-> timestamp,
                  m_total |-> Stats!UpdateItem(mean.m_total, value),
                  m_items |-> items]
  BY SMTT(60) DEF Stats!Add, Stats!AddInternalCount, Stats!AddInternalValue, StatsInv,
     StatsTypes, StatsWindow, W, Stats!Seconds, Stats!StartTime
<1>2. history' = [history EXCEPT ![timestamp] =
                    [count |-> 1, sum |-> value,
                     values |-> history[timestamp].values \cup {value}]]
  <2>1. \A s \in Stats!Seconds : s >= timestamp => history[s].count = 0
    BY SMTT(60), SlotOf DEF StatsInv, StatsTypes, StatsWindow
  <2>2. history[timestamp].count = 0 /\ history[timestamp].sum = 0
    BY SMTT(60), <2>1, SlotOf DEF StatsInv, StatsTypes
  <2>3. ~\E s \in Stats!Seconds : s > timestamp /\ history[s].count > 0
    BY <2>1, SlotOf
  <2>4. history' = [history EXCEPT ![timestamp] =
                      [count |-> 0 + 1, sum |-> 0 + value,
                       values |-> history[timestamp].values \cup {value}]]
    BY <2>2, <2>3 DEF Stats!Add, Stats!Record
  <2> QED
    BY <2>4, StatsAssumption
<1>3. /\ timestamp \in Nat /\ value \in Int /\ W \in Nat \ {0}
      /\ counting.m_start_time \in Nat /\ counting.m_last_time \in Nat
      /\ counting.m_start_time <= counting.m_last_time
  BY SMTT(60), SlotOf, StatsAssumption DEF StatsInv, StatsTypes, StatsWindow, W
<1>4. /\ start \in Nat /\ start >= counting.m_start_time
      /\ start >= timestamp - W + 1 /\ start <= timestamp
      /\ start = counting.m_start_time \/ start = timestamp - W + 1
  BY <1>3 DEF Stats!StartTime, Stats!Larger, W
<1>5. /\ counts \in [Stats!Slots -> Int]
      /\ items \in [Stats!Slots -> StatsItems]
      /\ Stats!UpdateItem(mean.m_total, value) \in StatsItems
  <2>1. counts \in [Stats!Slots -> Int]
    BY SMTT(60), <1>3 DEF Stats!Forward, StatsInv, StatsTypes
  <2>2. Stats!ClearItem \in StatsItems /\ Stats!SetItem(value) \in StatsItems
    BY <1>3 DEF Stats!ClearItem, Stats!SetItem, StatsItems
  <2>3. items \in [Stats!Slots -> StatsItems]
    BY <2>2 DEF Stats!Forward, StatsInv, StatsTypes
  <2> QED
    BY SMTT(60), <1>3, <2>1, <2>3 DEF Stats!UpdateItem, Stats!Smaller, Stats!Larger,
       StatsInv, StatsTypes, StatsItems
<1>6. ASSUME NEW s \in Stats!Seconds, s \in start..timestamp
      PROVE  /\ counts[s % W] = IF s = timestamp THEN value
                                ELSE IF s > counting.m_last_time THEN 0
                                ELSE counting.m_items[s % W]
             /\ items[s % W] = IF s = timestamp THEN Stats!SetItem(value)
                               ELSE IF s > counting.m_last_time THEN Stats!ClearItem
                               ELSE mean.m_items[s % W]
  <2>1. s >= counting.m_start_time /\ s >= timestamp - W + 1 /\ s <= timestamp
    BY <1>3, <1>4, <1>6 DEF Stats!Seconds
  <2>2. mean.m_last_time = counting.m_last_time
    BY DEF StatsInv, StatsWindow
  <2> QED
    BY SMTT(60), <2>1, <2>2, ForwardItems DEF StatsInv
<1> HIDE DEF start, counts, items
<1>7. StatsTypes'
  BY SMTT(60), <1>1, <1>2, <1>3, <1>4, <1>5 DEF StatsInv, StatsTypes
<1>8. StatsWindow'
  BY SMTT(60), <1>1, <1>2, <1>3, <1>4 DEF StatsInv, StatsTypes, StatsWindow, W
<1>9. Stats!RingIsHistory'
  <2> SUFFICES ASSUME NEW s \in Stats!Seconds
               PROVE  Stats!RingIsHistory!(s)'
    BY DEF Stats!RingIsHistory
  <2>1. ASSUME s \in start..timestamp
        PROVE  /\ Stats!Item(counting, s)' = history'[s].sum
               /\ Stats!Item(mean, s)'.cnt = history'[s].count
               /\ Stats!Item(mean, s)'.sum = history'[s].sum
    <3>1. /\ Stats!Item(counting, s)' = counts[s % W]
          /\ Stats!Item(mean, s)' = items[s % W]
      BY <1>1 DEF Stats!Item, W
    <3>2. CASE s = timestamp
      BY SMTT(60), <1>2, <1>6, <2>1, <3>1, <3>2 DEF Stats!SetItem, StatsInv, StatsTypes
    <3>3. CASE s # timestamp /\ s > counting.m_last_time
      BY SMTT(60), <1>2, <1>6, <2>1, <3>1, <3>3 DEF Stats!ClearItem, StatsInv,
         StatsTypes, StatsWindow
    <3>4. CASE s # timestamp /\ ~(s > counting.m_last_time)
      <4>1. s \in counting.m_start_time..counting.m_last_time
        BY SMTT(60), <1>3, <1>4, <2>1, <3>4 DEF Stats!Seconds
      <4>2. /\ counting.m_items[s % W] = history[s].sum
            /\ mean.m_items[s % W].cnt = history[s].count
            /\ mean.m_items[s % W].sum = history[s].sum
        BY <4>1 DEF StatsInv, Stats!RingIsHistory, Stats!Item, W
      <4>3. history'[s] = history[s]
        BY <1>2, <3>4 DEF StatsInv, StatsTypes
      <4> QED
        BY <1>6, <2>1, <3>1, <3>4, <4>2, <4>3
    <3> QED
      BY <3>2, <3>3, <3>4
  <2>2. ASSUME history'[s].count > 0, s > timestamp - W
        PROVE  s \in start..timestamp
    <3>1. CASE s = timestamp
      BY SMTT(60), <3>1, <1>3, <1>4
    <3>2. CASE s # timestamp
      <4>1. history[s].count > 0
        BY <1>2, <2>2, <3>2 DEF StatsInv, StatsTypes
      <4>2. s \in Nat /\ s > counting.m_last_time - W
        BY SMTT(60), <1>3, <2>2, SlotOf
      <4>3. s \in counting.m_start_time..counting.m_last_time
        BY <4>1, <4>2 DEF StatsInv, Stats!RingIsHistory, Stats!Latest, W
      <4> QED
        BY <1>3, <1>4, <2>2, <4>2, <4>3
    <3> QED
      BY <3>1, <3>2
  <2> QED
    BY <1>1, <2>1, <2>2 DEF Stats!Latest, W
<1> QED
  BY <1>7, <1>8, <1>9 DEF StatsInv

\* Every step keeps the invariant.
LEMMA StatsNextInv == StatsInv /\ [Stats!Next]_(Stats!vars) => StatsInv'
<1> SUFFICES ASSUME StatsInv, [Stats!Next]_(Stats!vars) PROVE StatsInv'
  OBVIOUS
<1>1. CASE UNCHANGED Stats!vars
  BY <1>1 DEF Stats!vars, StatsInv, StatsTypes, StatsWindow, Stats!RingIsHistory,
     Stats!Item, Stats!Latest
<1>2. CASE Stats!Next
  <2> PICK value \in Values, timestamp \in Stats!Seconds : Stats!Add(value, timestamp)
    BY <1>2 DEF Stats!Next
  <2>1. timestamp \in Int /\ counting.m_start_time \in Int
        /\ counting.m_last_time \in Int
    BY SMTT(60), SlotOf DEF StatsInv, StatsTypes
  <2> QED
    BY SMTT(60), <2>1, FirstValueInv, LateValueInv, SameSecondInv, LaterSecondInv
<1> QED
  BY <1>1, <1>2

\* Whatever values CountingStats and MeanStats are given, with timestamps in
\* whatever order, the ring's item for every second of the window is what was
\* accepted in that second: nothing older is left in a slot that is reused.
THEOREM RingHoldsHistory ==
  Stats!Spec => []Stats!RingIsHistory
<1>1. StatsInv => Stats!RingIsHistory
  BY DEF StatsInv
<1>2. Stats!Init => StatsInv
  BY StatsInitInv
<1>3. StatsInv /\ [Stats!Next]_(Stats!vars) => StatsInv'
  BY StatsNextInv
<1> QED
  BY <1>1, <1>2, <1>3, PTL DEF Stats!Spec

-----------------------------------------------------------------------------
(* BarrierClosure.  The decrements return different numbers, none below    *)
(* left_, which counts the threads still to come: so only the last of them *)
(* gets 0, and nobody needs the closure any more when it does.             *)

StillToCome == {t \in Runners : runner[t] = "before"}

\* t is the thread whose decrement returned 0.
GotZero(t) == runner[t] # "before" /\ decremented[t] = 0

BarrierTypes ==
    /\ runner \in [Runners -> {"before", "decremented", "done", "returned"}]
    /\ decremented \in [Runners -> Int]
    /\ left_ \in Nat
    /\ done_runs \in 0..1
    /\ deleted \in BOOLEAN

\* What the decrements have returned.
NumbersDiffer ==
    /\ left_ = Cardinality(StillToCome)
    /\ \A t \in Runners : runner[t] # "before" => decremented[t] >= left_
    /\ \A t, u \in Runners :
         runner[t] # "before" /\ runner[u] # "before" /\ t # u =>
           decremented[t] # decremented[u]
    /\ left_ = 0 => \E t \in Runners : GotZero(t)

\* What the last thread has done.
LastRunsDone ==
    /\ ~misused
    /\ \A t \in Runners : runner[t] = "done" => decremented[t] = 0
    /\ \A t \in Runners :
         GotZero(t) => /\ done_runs = (IF runner[t] = "decremented" THEN 0 ELSE 1)
                       /\ deleted <=> runner[t] = "returned"
    /\ (\A t \in Runners : ~GotZero(t)) => done_runs = 0 /\ ~deleted

BarrierInv == BarrierTypes /\ NumbersDiffer /\ LastRunsDone

-----------------------------------------------------------------------------
\* Cardinality is the same operator inside the instance.
LEMMA Card == ASSUME NEW S PROVE Barrier!Cardinality(S) = Cardinality(S)
BY DEF Barrier!Cardinality, Cardinality

\* Nobody has come when the closure is made, and n threads will.
LEMMA BarrierInitInv == Barrier!Init => BarrierInv
<1> SUFFICES ASSUME Barrier!Init PROVE BarrierInv
  OBVIOUS
<1>1. StillToCome = Runners
  BY DEF Barrier!Init, StillToCome
<1>2. Cardinality(Runners) \in Nat /\ Cardinality(Runners) # 0
  BY FS_CardinalityType, FS_EmptySet, BarrierAssumption
<1>3. \A t \in Runners : runner[t] = "before"
  BY DEF Barrier!Init
<1>4. BarrierTypes
  <2>1. decremented \in [Runners -> Int] /\ left_ \in Nat /\ done_runs \in 0..1
    BY SMTT(60), <1>2, Card DEF Barrier!Init
  <2>2. /\ runner \in [Runners -> {"before", "decremented", "done", "returned"}]
        /\ deleted \in BOOLEAN
    BY DEF Barrier!Init
  <2> QED
    BY <2>1, <2>2 DEF BarrierTypes
<1>5. NumbersDiffer
  BY <1>1, <1>2, <1>3, Card DEF Barrier!Init, NumbersDiffer
<1>6. LastRunsDone
  BY <1>3 DEF Barrier!Init, LastRunsDone, GotZero
<1> QED
  BY <1>4, <1>5, <1>6 DEF BarrierInv

\* When some thread has got 0 from its decrement in Run, all have come.
LEMMA LastMeansAll ==
  ASSUME BarrierInv, NEW t \in Runners, GotZero(t)
  PROVE  left_ = 0 /\ StillToCome = {}
<1>1. left_ = 0
  BY SMTT(60) DEF BarrierInv, BarrierTypes, NumbersDiffer, GotZero
<1>2. IsFiniteSet(StillToCome)
  BY FS_Subset, BarrierAssumption DEF StillToCome
<1> QED
  BY <1>1, <1>2, FS_EmptySet DEF BarrierInv, NumbersDiffer

\* A thread that decrements left_ finds the closure in place.
LEMMA DecrementInv ==
  ASSUME BarrierInv, NEW t \in Runners, Barrier!AtomicDecrementLeft(t)
  PROVE  BarrierInv'
<1>1. \A u \in Runners : ~GotZero(u)
  BY LastMeansAll DEF Barrier!AtomicDecrementLeft, StillToCome
<1>2. done_runs = 0 /\ ~deleted
  BY <1>1 DEF BarrierInv, LastRunsDone
<1>3. StillToCome' = StillToCome \ {t} /\ t \in StillToCome
  BY DEF Barrier!AtomicDecrementLeft, StillToCome, BarrierInv, BarrierTypes
<1>4. IsFiniteSet(StillToCome)
  BY FS_Subset, BarrierAssumption DEF StillToCome
<1>5. left_' = Cardinality(StillToCome') /\ left_ >= 1
  <2>1. Cardinality(StillToCome') = Cardinality(StillToCome) - 1
    BY <1>3, <1>4, FS_RemoveElement
  <2>2. Cardinality(StillToCome) # 0
    BY <1>3, <1>4, FS_EmptySet
  <2> QED
    BY SMTT(60), <2>1, <2>2 DEF Barrier!AtomicDecrementLeft, BarrierInv, BarrierTypes,
       NumbersDiffer
<1>6. BarrierTypes'
  BY <1>5 DEF Barrier!AtomicDecrementLeft, BarrierInv, BarrierTypes
<1>7. NumbersDiffer'
  BY SMTT(60), <1>5 DEF Barrier!AtomicDecrementLeft, BarrierInv, BarrierTypes,
     NumbersDiffer, GotZero
<1>8. LastRunsDone'
  BY <1>1, <1>2 DEF Barrier!AtomicDecrementLeft, BarrierInv, BarrierTypes, LastRunsDone,
     GotZero
<1> QED
  BY <1>6, <1>7, <1>8 DEF BarrierInv

\* The thread that got 0 runs done_, the others return.
LEMMA RunDoneInv ==
  ASSUME BarrierInv, NEW t \in Runners, Barrier!RunDone(t)
  PROVE  BarrierInv'
<1>1. StillToCome' = StillToCome
  BY DEF Barrier!RunDone, StillToCome, BarrierInv, BarrierTypes
<1>2. \A u \in Runners : GotZero(u)' <=> GotZero(u)
  BY DEF Barrier!RunDone, BarrierInv, BarrierTypes, GotZero
<1>3. Barrier!IsLast(t) <=> GotZero(t)
  BY DEF Barrier!IsLast, GotZero, Barrier!RunDone
<1>4. GotZero(t) => done_runs = 0 /\ ~deleted
  BY DEF Barrier!RunDone, BarrierInv, LastRunsDone
<1>5. BarrierTypes'
  BY SMTT(60), <1>3, <1>4 DEF Barrier!RunDone, BarrierInv, BarrierTypes
<1>6. NumbersDiffer'
  BY <1>1, <1>2 DEF Barrier!RunDone, BarrierInv, BarrierTypes, NumbersDiffer
<1>7. \A u \in Runners : GotZero(t) /\ GotZero(u) => u = t
  BY DEF BarrierInv, NumbersDiffer, GotZero, BarrierTypes
<1>8. LastRunsDone'
  BY SMTT(60), <1>2, <1>3, <1>4, <1>7 DEF Barrier!RunDone, BarrierInv, BarrierTypes,
     LastRunsDone, GotZero
<1> QED
  BY <1>5, <1>6, <1>8 DEF BarrierInv

\* The thread that has run done_ deletes the closure.
LEMMA DeleteInv ==
  ASSUME BarrierInv, NEW t \in Runners, Barrier!DeleteThis(t)
  PROVE  BarrierInv'
<1>1. StillToCome' = StillToCome
  BY DEF Barrier!DeleteThis, StillToCome, BarrierInv, BarrierTypes
<1>2. \A u \in Runners : GotZero(u)' <=> GotZero(u)
  BY DEF Barrier!DeleteThis, BarrierInv, BarrierTypes, GotZero
<1>3. GotZero(t) /\ done_runs = 1 /\ ~deleted
  BY DEF Barrier!DeleteThis, BarrierInv, LastRunsDone, GotZero
<1>4. BarrierTypes'
  BY DEF Barrier!DeleteThis, BarrierInv, BarrierTypes
<1>5. NumbersDiffer'
  BY <1>1, <1>2 DEF Barrier!DeleteThis, BarrierInv, BarrierTypes, NumbersDiffer
<1>6. \A u \in Runners : GotZero(u) => u = t
  BY <1>3 DEF BarrierInv, NumbersDiffer, GotZero, BarrierTypes
<1>7. LastRunsDone'
  BY <1>2, <1>3, <1>6 DEF Barrier!DeleteThis, BarrierInv, BarrierTypes, LastRunsDone,
     GotZero
<1> QED
  BY <1>4, <1>5, <1>7 DEF BarrierInv

\* The invariant says what BarrierClosure promises.
LEMMA BarrierInvIsSafe == BarrierInv => Barrier!BarrierIsSafe
<1> SUFFICES ASSUME BarrierInv PROVE Barrier!BarrierIsSafe
  OBVIOUS
<1>1. ~misused /\ done_runs <= 1
  BY SMTT(60) DEF BarrierInv, BarrierTypes, LastRunsDone
<1>2. done_runs = 1 => \A t \in Runners : runner[t] # "before"
  <2> SUFFICES ASSUME done_runs = 1 PROVE StillToCome = {}
    BY DEF StillToCome
  <2>1. PICK t \in Runners : GotZero(t)
    BY DEF BarrierInv, LastRunsDone
  <2> QED
    BY <2>1, LastMeansAll
<1>3. (\A t \in Runners : runner[t] = "returned") => done_runs = 1 /\ deleted
  <2> SUFFICES ASSUME \A t \in Runners : runner[t] = "returned"
               PROVE  done_runs = 1 /\ deleted
    OBVIOUS
  <2>1. StillToCome = {}
    BY DEF StillToCome
  <2>2. left_ = 0
    BY <2>1, FS_EmptySet DEF BarrierInv, NumbersDiffer
  <2>3. PICK t \in Runners : GotZero(t)
    BY <2>2 DEF BarrierInv, NumbersDiffer
  <2> QED
    BY <2>3 DEF BarrierInv, LastRunsDone
<1> QED
  BY <1>1, <1>2, <1>3 DEF Barrier!BarrierIsSafe

\* For every finite number of threads that call Run once each, done_ runs once
\* and after all have come, and left_ is not touched after `delete this`.
THEOREM BarrierAlwaysSafe ==
  Barrier!Spec => []BarrierIsSafe
<1>1. Barrier!Init => BarrierInv
  BY BarrierInitInv
<1>2. BarrierInv /\ [Barrier!Next]_(Barrier!vars) => BarrierInv'
  <2> SUFFICES ASSUME BarrierInv, [Barrier!Next]_(Barrier!vars) PROVE BarrierInv'
    OBVIOUS
  <2>1. CASE UNCHANGED Barrier!vars
    BY <2>1 DEF Barrier!vars, BarrierInv, BarrierTypes, NumbersDiffer, LastRunsDone,
       StillToCome, GotZero
  <2>2. CASE Barrier!Next
    BY <2>2, DecrementInv, RunDoneInv, DeleteInv DEF Barrier!Next
  <2> QED
    BY <2>1, <2>2
<1>3. BarrierInv => BarrierIsSafe
  BY BarrierInvIsSafe DEF BarrierIsSafe
<1> QED
  BY <1>1, <1>2, <1>3, PTL DEF Barrier!Spec

-----------------------------------------------------------------------------
(* AutoResetEvent and ManualResetEvent.  NobodyOversleeps is kept by every *)
(* step: Set wakes all of a manual event's sleepers and one of an          *)
(* automatic one's, and whoever goes to sleep has seen the event unset.    *)

EventTypes ==
    /\ kind \in {"auto", "manual"}
    /\ m_signaled \in BOOLEAN
    /\ waiter \in [EventThreads -> [at : {"outside", "asleep", "awake"}, timed : BOOLEAN]]
    /\ sets \in Nat
    /\ released \in Nat

EventInv == EventTypes /\ Event!NobodyOversleeps /\ Event!OneReleasePerSet

\* A wait that ends takes an AutoResetEvent with it; a ManualResetEvent has no sleepers.
LEMMA TakeEventInv ==
  ASSUME EventInv, NEW t \in EventThreads, m_signaled, Event!Take(t),
         UNCHANGED <<kind, sets>>
  PROVE  EventInv'
<1>1. Event!Outside \in [at : {"outside", "asleep", "awake"}, timed : BOOLEAN]
      /\ Event!Outside.at = "outside"
  BY DEF Event!Outside
<1>2. EventTypes'
  BY SMTT(60), <1>1 DEF Event!Take, EventInv, EventTypes
<1>3. Event!NobodyOversleeps'
  <2>1. CASE kind = "auto"
    BY <2>1 DEF Event!Take, Event!NobodyOversleeps
  <2>2. CASE kind = "manual"
    <3>1. \A u \in EventThreads : waiter[u].at # "asleep"
      BY <2>2 DEF EventInv, Event!NobodyOversleeps, Event!At
    <3>2. \A u \in EventThreads : waiter'[u].at # "asleep"
      BY <1>1, <3>1 DEF Event!Take, EventInv, EventTypes
    <3> QED
      BY <3>2 DEF Event!NobodyOversleeps, Event!At
  <2> QED
    BY <2>1, <2>2 DEF EventInv, EventTypes
<1>4. Event!OneReleasePerSet'
  <2>1. CASE kind = "auto"
    <3>1. ~m_signaled' /\ released' = released + 1 /\ sets' = sets
      BY <2>1 DEF Event!Take
    <3>2. released + 1 <= sets
      BY <2>1 DEF EventInv, Event!OneReleasePerSet
    <3> QED
      BY SMTT(60), <3>1, <3>2 DEF EventInv, EventTypes, Event!OneReleasePerSet
  <2>2. CASE kind = "manual"
    BY <2>2 DEF Event!OneReleasePerSet
  <2> QED
    BY <2>1, <2>2 DEF EventInv, EventTypes
<1> QED
  BY <1>2, <1>3, <1>4 DEF EventInv

\* One thread moves and nothing else happens.
LEMMA WaiterMovesInv ==
  ASSUME EventInv, NEW t \in EventThreads,
         NEW w \in [at : {"outside", "asleep", "awake"}, timed : BOOLEAN],
         waiter' = [waiter EXCEPT ![t] = w],
         w.at = "awake" \/ ~m_signaled,
         w.at = "awake" => waiter[t].at = "asleep",
         UNCHANGED <<kind, m_signaled, sets, released>>
  PROVE  EventInv'
<1>1. EventTypes' /\ Event!OneReleasePerSet'
  BY DEF EventInv, EventTypes, Event!OneReleasePerSet
<1>2. Event!NobodyOversleeps'
  BY DEF EventInv, EventTypes, Event!NobodyOversleeps, Event!At
<1> QED
  BY <1>1, <1>2 DEF EventInv

\* A thread begins to wait, or has the event at once.
LEMMA WaitEventInv ==
  ASSUME EventInv, NEW t \in EventThreads, NEW timed \in BOOLEAN, Event!Wait(t, timed)
  PROVE  EventInv'
<1>1. CASE m_signaled
  BY <1>1, TakeEventInv DEF Event!Wait
<1>2. CASE ~m_signaled
  <2> DEFINE w == [at |-> "asleep", timed |-> timed]
  <2>1. w \in [at : {"outside", "asleep", "awake"}, timed : BOOLEAN] /\ w.at = "asleep"
    OBVIOUS
  <2>2. waiter' = [waiter EXCEPT ![t] = w] /\ UNCHANGED <<kind, m_signaled, sets, released>>
    BY <1>2 DEF Event!Wait
  <2> HIDE DEF w
  <2> QED
    BY <1>2, <2>1, <2>2, WaiterMovesInv
<1> QED
  BY <1>1, <1>2

\* A sleeper wakes by itself.
LEMMA WakeUpEventInv ==
  ASSUME EventInv, NEW t \in EventThreads, Event!WakeUp(t)
  PROVE  EventInv'
<1> DEFINE w == [waiter[t] EXCEPT !.at = "awake"]
<1>1. w \in [at : {"outside", "asleep", "awake"}, timed : BOOLEAN] /\ w.at = "awake"
  BY DEF EventInv, EventTypes
<1>2. /\ waiter' = [waiter EXCEPT ![t] = w] /\ waiter[t].at = "asleep"
      /\ UNCHANGED <<kind, m_signaled, sets, released>>
  BY DEF Event!WakeUp
<1> HIDE DEF w
<1> QED
  BY <1>1, <1>2, WaiterMovesInv

\* A thread that was woken looks at the event again.
LEMMA AwakeEventInv ==
  ASSUME EventInv, NEW t \in EventThreads, Event!Awake(t)
  PROVE  EventInv'
<1>1. CASE m_signaled
  BY <1>1, TakeEventInv DEF Event!Awake
<1>2. CASE ~m_signaled
  <2> DEFINE w == IF waiter[t].timed THEN Event!Outside ELSE [waiter[t] EXCEPT !.at = "asleep"]
  <2>1. w \in [at : {"outside", "asleep", "awake"}, timed : BOOLEAN] /\ w.at # "awake"
    BY DEF EventInv, EventTypes, Event!Outside
  <2>2. waiter' = [waiter EXCEPT ![t] = w] /\ UNCHANGED <<kind, m_signaled, sets, released>>
    BY <1>2 DEF Event!Awake
  <2> HIDE DEF w
  <2> QED
    BY <1>2, <2>1, <2>2, WaiterMovesInv
<1> QED
  BY <1>1, <1>2

\* Set wakes all who sleep on a ManualResetEvent, and one on an AutoResetEvent.
LEMMA SetEventInv ==
  ASSUME EventInv, Event!Set
  PROVE  EventInv'
<1>1. PICK woken \in Event!Notified :
        waiter' = [t \in EventThreads |-> IF t \in woken THEN [waiter[t] EXCEPT !.at = "awake"]
                                                    ELSE waiter[t]]
  BY DEF Event!Set
<1>2. m_signaled' /\ sets' = sets + 1 /\ UNCHANGED <<kind, released>>
  BY DEF Event!Set
<1>3. \A t \in EventThreads : [waiter[t] EXCEPT !.at = "awake"]
                           \in [at : {"outside", "asleep", "awake"}, timed : BOOLEAN]
                         /\ [waiter[t] EXCEPT !.at = "awake"].at = "awake"
  BY DEF EventInv, EventTypes
<1>4. EventTypes'
  BY SMTT(60), <1>1, <1>2, <1>3 DEF EventInv, EventTypes, Event!Set
<1>5. Event!OneReleasePerSet'
  BY SMTT(60), <1>2 DEF EventInv, EventTypes, Event!OneReleasePerSet
<1>6. /\ kind = "manual" => woken = Event!At("asleep")
      /\ woken \subseteq Event!At("asleep")
      /\ Event!At("asleep") # {} => woken # {}
  BY <1>1 DEF Event!Notified
<1>7. \A t \in EventThreads :
         waiter'[t].at = "asleep" => t \in Event!At("asleep") /\ t \notin woken
  BY <1>1, <1>3 DEF Event!At
<1>8. \A t \in woken : t \in EventThreads /\ waiter'[t].at = "awake"
  BY <1>1, <1>3, <1>6 DEF Event!At
<1>9. ASSUME NEW t \in EventThreads, waiter'[t].at = "asleep"
      PROVE  kind = "auto" /\ \E u \in EventThreads : waiter'[u].at = "awake"
  <2>1. t \in Event!At("asleep") /\ t \notin woken
    BY <1>7, <1>9
  <2>2. kind # "manual" /\ woken # {}
    BY <1>6, <2>1
  <2>3. PICK u : u \in woken
    BY <2>2
  <2> QED
    BY <1>8, <2>2, <2>3 DEF EventInv, EventTypes
<1>10. Event!NobodyOversleeps'
  BY <1>2, <1>9 DEF Event!NobodyOversleeps, Event!At
<1> QED
  BY <1>4, <1>5, <1>10 DEF EventInv

\* Every step of an event keeps the invariant.
LEMMA EventNextInv == EventInv /\ [Event!Next]_(Event!vars) => EventInv'
<1> SUFFICES ASSUME EventInv, [Event!Next]_(Event!vars) PROVE EventInv'
  OBVIOUS
<1>1. CASE UNCHANGED Event!vars
  BY <1>1 DEF Event!vars, EventInv, EventTypes, Event!NobodyOversleeps,
     Event!OneReleasePerSet, Event!At
<1>2. CASE Event!Reset
  <2>1. m_signaled /\ m_signaled' = FALSE /\ UNCHANGED <<kind, waiter, sets, released>>
    BY <1>2 DEF Event!Reset
  <2>2. EventTypes' /\ Event!NobodyOversleeps'
    <3>1. EventTypes'
      BY <2>1 DEF EventInv, EventTypes
    <3>2. Event!NobodyOversleeps'
      BY <2>1 DEF Event!NobodyOversleeps
    <3> QED
      BY <3>1, <3>2
  <2>3. Event!OneReleasePerSet'
    <3>1. kind = "auto" => released + 1 <= sets
      BY <2>1 DEF EventInv, Event!OneReleasePerSet
    <3> QED
      BY SMTT(60), <2>1, <3>1 DEF EventInv, EventTypes, Event!OneReleasePerSet
  <2> QED
    BY <2>2, <2>3 DEF EventInv
<1>3. CASE Event!Set
  BY <1>3, SetEventInv
<1>4. ASSUME NEW t \in EventThreads,
             (\E timed \in BOOLEAN :
                 Event!Wait(t, timed)) \/ Event!WakeUp(t) \/ Event!Awake(t)
      PROVE  EventInv'
  BY <1>4, WaitEventInv, WakeUpEventInv, AwakeEventInv
<1> QED
  BY <1>1, <1>2, <1>3, <1>4 DEF Event!Next

\* For any threads that wait, with or without a timeout, and any calls of Set
\* and Reset, nobody sleeps beside an event that is set, and an AutoResetEvent
\* ends no more waits than Set was called.
THEOREM EventsAlwaysRelease == Event!Spec => []EventsRelease
<1>1. Event!Init => EventInv
  BY DEF Event!Init, EventInv, EventTypes, Event!NobodyOversleeps,
     Event!OneReleasePerSet, Event!At, Event!Outside
<1>2. EventInv => EventsRelease
  BY DEF EventInv, EventsRelease
<1> QED
  BY <1>1, <1>2, EventNextInv, PTL DEF Event!Spec

-----------------------------------------------------------------------------
(* Interval.  Every operation is exact for ends of any size.               *)

IntervalOperations == {"Interval", "Set", "IntersectWith", "SpanningUnion", "Difference"}

IntervalTypes ==
    /\ this \in Intervals!Given
    /\ last \in [op : IntervalOperations,
                 before : Intervals!Given, arg : Intervals!Given, ret : BOOLEAN,
                 lo : Intervals!Given, hi : Intervals!Given]

IntervalInv == IntervalTypes /\ Intervals!PointsAreExact /\ Intervals!UnionIsSmallest

\* IntersectWith keeps the common points.
LEMMA IntersectIsExact ==
  ASSUME NEW i \in Intervals!Given, NEW j \in Intervals!Given
  PROVE  /\ Intervals!IntersectWith(i, j) \in Intervals!Given
         /\ \A t \in Intervals!Points : Intervals!Contains(Intervals!IntersectWith(i, j), t)
                                <=> Intervals!Contains(i, t) /\ Intervals!Contains(j, t)
         /\ Intervals!IntersectModifies(i, j) <=> Intervals!IntersectWith(i, j) # i
<1>1. CASE Intervals!Empty(i)
  BY SMTT(60), <1>1, IntervalAssumption DEF Intervals!Given, Intervals!Points,
     Intervals!IntersectWith, Intervals!IntersectModifies, Intervals!Empty,
     Intervals!Contains
<1>2. CASE ~Intervals!Empty(i)
  BY <1>2, IntervalAssumption DEF Intervals!Given, Intervals!Points,
     Intervals!IntersectWith, Intervals!IntersectModifies, Intervals!Intersection,
              Intervals!Empty, Intervals!Contains, Intervals!Span, Intervals!Larger,
              Intervals!Smaller
<1> QED
  BY <1>1, <1>2

\* SpanningUnion gives the smallest interval that contains both.
LEMMA UnionIsExact ==
  ASSUME NEW i \in Intervals!Given, NEW j \in Intervals!Given
  PROVE  LET u == Intervals!SpanningUnion(i, j) IN
         /\ u \in Intervals!Given
         /\ \A t \in Intervals!Points :
              Intervals!Contains(i, t) \/ Intervals!Contains(j, t)
                => Intervals!Contains(u, t)
         /\ \A k \in Intervals!Given :
              /\ ~Intervals!Empty(u)
              /\ Intervals!Empty(i) \/ Intervals!ContainsAll(k, i)
              /\ Intervals!Empty(j) \/ Intervals!ContainsAll(k, j)
              => Intervals!ContainsAll(k, u)
         /\ Intervals!UnionModifies(i, j) <=> u # i
<1>1. CASE Intervals!Empty(j)
  BY SMTT(60), <1>1, IntervalAssumption DEF Intervals!Given, Intervals!Points,
     Intervals!SpanningUnion, Intervals!UnionModifies, Intervals!Empty,
     Intervals!Contains, Intervals!ContainsAll
<1>2. CASE ~Intervals!Empty(j) /\ Intervals!Empty(i)
  BY <1>2, IntervalAssumption DEF Intervals!Given, Intervals!Points,
     Intervals!SpanningUnion, Intervals!UnionModifies, Intervals!Empty, Intervals!Contains,
              Intervals!ContainsAll
<1>3. CASE ~Intervals!Empty(j) /\ ~Intervals!Empty(i)
  BY SMTT(60), <1>3, IntervalAssumption DEF Intervals!Given, Intervals!Points,
     Intervals!SpanningUnion, Intervals!UnionModifies, Intervals!Empty,
     Intervals!Contains, Intervals!ContainsAll, Intervals!Span, Intervals!Larger,
     Intervals!Smaller
<1> QED
  BY <1>1, <1>2, <1>3

\* Difference splits off the points of the other interval.
LEMMA DifferenceIsExact ==
  ASSUME NEW i \in Intervals!Given, NEW j \in Intervals!Given
  PROVE  LET d == Intervals!Difference(i, j) IN
         /\ d.lo \in Intervals!Given /\ d.hi \in Intervals!Given /\ d.ret \in BOOLEAN
         /\ \A t \in Intervals!Points :
              /\ Intervals!Contains(d.lo, t) \/ Intervals!Contains(d.hi, t)
                   <=> Intervals!Contains(i, t) /\ ~Intervals!Contains(j, t)
              /\ \A u \in Intervals!Points :
                   Intervals!Contains(d.lo, t) /\ Intervals!Contains(d.hi, u) => t < u
         /\ d.ret <=> \E t \in Intervals!Points :
                         Intervals!Contains(i, t) /\ Intervals!Contains(j, t)
<1> DEFINE d == Intervals!Difference(i, j)
<1>1. /\ d.lo \in Intervals!Given /\ d.hi \in Intervals!Given
      /\ d.ret \in BOOLEAN
      /\ d.ret <=> Intervals!Intersects(i, j)
  BY SMTT(60), IntervalAssumption DEF Intervals!Given, Intervals!Difference,
     Intervals!Intersects, Intervals!Empty, Intervals!Span, Intervals!Nothing
<1>2. ASSUME NEW t \in Intervals!Points
      PROVE  Intervals!Contains(d.lo, t) \/ Intervals!Contains(d.hi, t)
               <=> Intervals!Contains(i, t) /\ ~Intervals!Contains(j, t)
  BY SMTT(60), IntervalAssumption DEF Intervals!Given, Intervals!Points,
     Intervals!Difference, Intervals!Empty, Intervals!Contains, Intervals!Span,
     Intervals!Nothing
<1>3. ASSUME NEW t \in Intervals!Points, NEW u \in Intervals!Points,
             Intervals!Contains(d.lo, t), Intervals!Contains(d.hi, u)
      PROVE  t < u
  BY SMTT(60), <1>3, IntervalAssumption DEF Intervals!Given, Intervals!Points,
     Intervals!Difference, Intervals!Empty, Intervals!Contains, Intervals!Span,
     Intervals!Nothing
<1>4. Intervals!Intersects(i, j) <=> \E t \in Intervals!Points :
                                        Intervals!Contains(i, t) /\ Intervals!Contains(j, t)
  <2>1. ASSUME Intervals!Intersects(i, j)
        PROVE  \E t \in Intervals!Points :
                  Intervals!Contains(i, t) /\ Intervals!Contains(j, t)
    <3> DEFINE t == Intervals!Larger(i.min, j.min)
    <3>1. t \in Intervals!Points /\ Intervals!Contains(i, t) /\ Intervals!Contains(j, t)
      BY SMTT(60), <2>1, IntervalAssumption DEF Intervals!Given, Intervals!Points,
         Intervals!Intersects, Intervals!Empty, Intervals!Contains, Intervals!Larger
    <3> QED
      BY <3>1
  <2>2. ASSUME NEW t \in Intervals!Points, Intervals!Contains(i, t),
               Intervals!Contains(j, t)
        PROVE  Intervals!Intersects(i, j)
    BY <2>2, IntervalAssumption DEF Intervals!Given, Intervals!Points,
       Intervals!Intersects, Intervals!Empty, Intervals!Contains
  <2> QED
    BY <2>1, <2>2
<1> HIDE DEF d
<1>5. /\ d.lo \in Intervals!Given /\ d.hi \in Intervals!Given /\ d.ret \in BOOLEAN
      /\ \A t \in Intervals!Points :
           /\ Intervals!Contains(d.lo, t) \/ Intervals!Contains(d.hi, t)
                <=> Intervals!Contains(i, t) /\ ~Intervals!Contains(j, t)
           /\ \A u \in Intervals!Points :
                Intervals!Contains(d.lo, t) /\ Intervals!Contains(d.hi, u) => t < u
      /\ d.ret <=> \E t \in Intervals!Points :
                      Intervals!Contains(i, t) /\ Intervals!Contains(j, t)
  BY <1>1, <1>2, <1>3, <1>4
<1> QED
  BY <1>5 DEF d

\* Every operation's result is as its lemma says.
LEMMA IntervalNextInv == IntervalInv /\ [Intervals!Next]_(Intervals!vars) => IntervalInv'
<1> SUFFICES ASSUME IntervalInv, [Intervals!Next]_(Intervals!vars) PROVE IntervalInv'
  OBVIOUS
<1>0. Intervals!Nothing \in Intervals!Given /\ this \in Intervals!Given
  BY SMTT(60), IntervalAssumption DEF Intervals!Given, Intervals!Nothing,
     Intervals!Span, IntervalInv, IntervalTypes
<1>1. CASE UNCHANGED Intervals!vars
  BY <1>1 DEF Intervals!vars, IntervalInv, IntervalTypes, Intervals!PointsAreExact,
     Intervals!UnionIsSmallest
<1>2. ASSUME NEW i \in Intervals!Given, Intervals!Set(i) PROVE IntervalInv'
  BY <1>0, <1>2 DEF Intervals!Set, Intervals!Done, IntervalInv, IntervalTypes,
     Intervals!PointsAreExact, Intervals!UnionIsSmallest,
                    IntervalOperations
<1>3. ASSUME NEW i \in Intervals!Given, Intervals!DoIntersectWith(i) PROVE IntervalInv'
  <2>1. Intervals!IntersectModifies(this, i) \in BOOLEAN
    BY DEF Intervals!IntersectModifies
  <2> QED
    BY <1>0, <1>3, <2>1, IntersectIsExact
    DEF Intervals!DoIntersectWith, Intervals!Done, IntervalInv, IntervalTypes,
       Intervals!PointsAreExact, Intervals!UnionIsSmallest,
        IntervalOperations
<1>4. ASSUME NEW i \in Intervals!Given, Intervals!DoSpanningUnion(i) PROVE IntervalInv'
  <2>1. Intervals!UnionModifies(this, i) \in BOOLEAN
    BY DEF Intervals!UnionModifies
  <2> QED
    BY <1>0, <1>4, <2>1, UnionIsExact
    DEF Intervals!DoSpanningUnion, Intervals!Done, IntervalInv, IntervalTypes,
       Intervals!PointsAreExact, Intervals!UnionIsSmallest,
        IntervalOperations
<1>5. ASSUME NEW i \in Intervals!Given, Intervals!DoDifference(i) PROVE IntervalInv'
  BY SMTT(60), <1>0, <1>5, DifferenceIsExact DEF Intervals!DoDifference, Intervals!Done,
     IntervalInv, IntervalTypes, Intervals!PointsAreExact, Intervals!UnionIsSmallest,
     IntervalOperations
<1> QED
  BY <1>1, <1>2, <1>3, <1>4, <1>5 DEF Intervals!Next

\* For integers of any size, intersection, difference and spanning union are
\* what Interval's comments say, empty intervals with any bounds included.
THEOREM IntervalsAreAlwaysExact ==
  Intervals!Spec => []IntervalsAreExact
<1>1. Intervals!Init => IntervalInv
  BY SMTT(60), IntervalAssumption DEF Intervals!Init, IntervalInv, IntervalTypes,
     Intervals!PointsAreExact, Intervals!UnionIsSmallest, IntervalOperations,
     Intervals!Given, Intervals!Nothing, Intervals!Span
<1>2. IntervalInv /\ [Intervals!Next]_(Intervals!vars) => IntervalInv'
  BY IntervalNextInv
<1>3. IntervalInv => IntervalsAreExact
  BY DEF IntervalInv, IntervalsAreExact
<1> QED
  BY <1>1, <1>2, <1>3, PTL DEF Intervals!Spec

-----------------------------------------------------------------------------
(* CountBlocker.  The count never falls below 0, so only Dec takes it to   *)
(* 0, and whoever is notified then is waiting.                             *)

BlockerTypes ==
    /\ count_ \in Nat
    /\ blocked \in [BlockerThreads -> {"outside", "asleep", "notified", "timeout", "spurious"}]

BlockerInv == BlockerTypes /\ Blocker!NotifiedMeansZero /\ Blocker!ZeroWakesAll

\* Dec notifies all sleepers if, and only if, it takes the count to 0.
LEMMA DecBlockerInv ==
  ASSUME BlockerInv, NEW cnt \in 1..2, cnt <= count_, Blocker!Dec(cnt)
  PROVE  BlockerInv'
<1>1. count_' \in Nat
  BY DEF Blocker!Dec, BlockerInv, BlockerTypes
<1>2. CASE count_' = 0
  <2>1. /\ \A t \in BlockerThreads : blocked'[t] = IF blocked[t] = "asleep" THEN "notified"
                                            ELSE blocked[t]
        /\ blocked' \in [BlockerThreads -> {"outside", "asleep", "notified", "timeout", "spurious"}]
    BY <1>2 DEF Blocker!Dec, Blocker!Notify, BlockerInv, BlockerTypes
  <2>2. reached' = reached \cup {t \in Blocker!Waiting : count_' = 0}
    BY DEF Blocker!Dec
  <2>3. \A t \in BlockerThreads : blocked[t] # "outside" => t \in reached'
    BY <1>2, <2>2 DEF Blocker!Waiting
  <2> QED
    BY <1>1, <2>1, <2>3 DEF BlockerInv, BlockerTypes, Blocker!NotifiedMeansZero,
       Blocker!ZeroWakesAll
<1>3. CASE count_' # 0
  <2>1. blocked' = blocked /\ reached \subseteq reached'
    BY <1>3 DEF Blocker!Dec
  <2> QED
    BY <1>1, <1>3, <2>1 DEF BlockerInv, BlockerTypes, Blocker!NotifiedMeansZero,
       Blocker!ZeroWakesAll
<1> QED
  BY <1>2, <1>3

\* Every step of CountBlocker keeps the invariant.
LEMMA BlockerNextInv == BlockerInv /\ [Blocker!Next]_(Blocker!vars) => BlockerInv'
<1> SUFFICES ASSUME BlockerInv, [Blocker!Next]_(Blocker!vars) PROVE BlockerInv'
  OBVIOUS
<1> USE DEF BlockerInv, BlockerTypes, Blocker!NotifiedMeansZero, Blocker!ZeroWakesAll
<1>1. CASE UNCHANGED Blocker!vars
  BY <1>1 DEF Blocker!vars
<1>2. ASSUME NEW cnt \in 1..2, cnt <= count_, Blocker!Dec(cnt) PROVE BlockerInv'
  BY <1>2, DecBlockerInv
<1>3. ASSUME NEW cnt \in 1..2, Blocker!Inc(cnt) PROVE BlockerInv'
  BY SMTT(60), <1>3 DEF Blocker!Inc
<1>4. ASSUME NEW t \in BlockerThreads, Blocker!Wait(t) PROVE BlockerInv'
  BY <1>4 DEF Blocker!Wait
<1>5. ASSUME NEW t \in BlockerThreads, Blocker!WakeUp(t) PROVE BlockerInv'
  BY <1>5 DEF Blocker!WakeUp
<1>6. ASSUME NEW t \in BlockerThreads, Blocker!Return(t) PROVE BlockerInv'
  BY <1>6 DEF Blocker!Return
<1> QED
  BY <1>1, <1>2, <1>3, <1>4, <1>5, <1>6 DEF Blocker!Next

\* For any threads and any counts CountBlocker's Dec leaves nobody asleep at 0,
\* and a Wait that is notified has seen the count reach 0.
THEOREM BlockerAlwaysReleases == Blocker!Spec => []BlockerReleases
<1>1. Blocker!Init => BlockerInv
  BY BlockerAssumption DEF Blocker!Init, BlockerInv, BlockerTypes,
     Blocker!NotifiedMeansZero, Blocker!ZeroWakesAll
<1>2. BlockerInv => BlockerReleases
  BY DEF BlockerInv, BlockerReleases
<1> QED
  BY <1>1, <1>2, BlockerNextInv, PTL DEF Blocker!Spec
=============================================================================
