---------------------------- MODULE CountBlocker ----------------------------
(***************************************************************************)
(* app/qzap/common/thread/count_blocker.h: threads wait until a number of  *)
(* things has been done.  Wait sleeps at most once, and takes any wakeup   *)
(* but a timeout for the notification.                                     *)
(***************************************************************************)
EXTENDS Integers

CONSTANTS
    Threads,
    MaxCount     \* bound: the count, and the calls of Inc and Dec

VARIABLES
    count_,
    blocked,     \* thread -> where it is in Wait, and why it was woken
    reached,     \* ghost: threads during whose Wait the count was 0
    changes_     \* ghost: calls of Inc and Dec

vars == <<count_, blocked, reached, changes_>>

\* notify_.NotifyAll.
Notify == [t \in Threads |-> IF blocked[t] = "asleep" THEN "notified"
                                                      ELSE blocked[t]]

Waiting == {t \in Threads : blocked[t] # "outside"}

\* Variant: Dec looks at the count it found.
DecLate(cnt) ==
    /\ changes_ < MaxCount
    /\ changes_' = changes_ + 1
    /\ count_' = count_ - cnt
    /\ blocked' = IF count_ = 0 THEN Notify ELSE blocked
    /\ reached' = reached \cup {t \in Waiting : count_' = 0}

Dec(cnt) ==
    /\ changes_ < MaxCount
    /\ changes_' = changes_ + 1
    /\ count_' = count_ - cnt
    /\ blocked' = IF count_' = 0 THEN Notify ELSE blocked
    /\ reached' = reached \cup {t \in Waiting : count_' = 0}

Inc(cnt) ==
    /\ changes_ < MaxCount
    /\ changes_' = changes_ + 1
    /\ count_' = count_ + cnt
    /\ UNCHANGED <<blocked, reached>>

\* With nothing left to wait for, Wait returns true at once.
Wait(t) ==
    /\ blocked[t] = "outside"
    /\ count_ > 0
    /\ blocked' = [blocked EXCEPT ![t] = "asleep"]
    /\ reached' = reached \ {t}
    /\ UNCHANGED <<count_, changes_>>

\* TimedWait ends by itself, at the timeout or for no reason.
WakeUp(t) ==
    /\ blocked[t] = "asleep"
    /\ \E why \in {"timeout", "spurious"} :
         blocked' = [blocked EXCEPT ![t] = why]
    /\ UNCHANGED <<count_, reached, changes_>>

\* Wait returns: false after a timeout, else true.
Return(t) ==
    /\ blocked[t] \in {"notified", "spurious", "timeout"}
    /\ blocked' = [blocked EXCEPT ![t] = "outside"]
    /\ UNCHANGED <<count_, reached, changes_>>

Init ==
    /\ count_ \in 0..MaxCount
    /\ blocked = [t \in Threads |-> "outside"]
    /\ reached = {}
    /\ changes_ = 0

\* What is counted down has been counted before.
Next ==
    \/ \E cnt \in 1..2 : (cnt <= count_ /\ Dec(cnt)) \/ Inc(cnt)
    \/ \E t \in Threads : Wait(t) \/ WakeUp(t) \/ Return(t)

Spec == Init /\ [][Next]_vars

-----------------------------------------------------------------------------
(* Properties.                                                             *)

\* A Wait is notified only if the count was 0 at some time during it, whatever
\* Inc has done since.
NotifiedMeansZero ==
    \A t \in Threads : blocked[t] = "notified" => t \in reached

\* Nobody is left asleep when the count is 0.
ZeroWakesAll ==
    count_ = 0 => \A t \in Threads : blocked[t] # "asleep"
=============================================================================
