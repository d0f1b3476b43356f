-------------------------------- MODULE Timers --------------------------------
(****************************************************************************)
(* What a user of set_timeout, set_interval and cancel_timeout relies on    *)
(* (core/timewheel.h): a set of deadlines.  A callback runs only for a      *)
(* timer that is set and whose time has come, and takes the timer down or   *)
(* moves a periodic one to a later time in the same step; nothing is said   *)
(* about slots, lists or the order of expiry.                               *)
(****************************************************************************)
EXTENDS Naturals

CONSTANTS Handle, Off, Nobody

VARIABLES now,      \* the time
          deadline, \* the time of each timer that is set, Off for the others
          fn        \* the timer whose callback runs, or Nobody

tvars == <<now, deadline, fn>>

TInit ==
    /\ now \in Nat
    /\ deadline = [h \in Handle |-> Off]
    /\ fn = Nobody

\* Only the deadline of h changes.
Move(h) == deadline' = [deadline EXCEPT ![h] = deadline'[h]]

\* A timer of 0 ms is due at once.
Set(h) ==
    /\ deadline[h] = Off
    /\ deadline'[h] = 0 \/ deadline'[h] > now
    /\ Move(h)
    /\ UNCHANGED <<now, fn>>

Cancel(h) ==
    /\ deadline[h] # Off
    /\ deadline' = [deadline EXCEPT ![h] = Off]
    /\ UNCHANGED <<now, fn>>

\* The callback of h starts; a periodic timer has a new deadline by then.
Fire(h) ==
    /\ fn = Nobody
    /\ deadline[h] # Off
    /\ deadline[h] <= now
    /\ fn' = h
    /\ deadline'[h] = Off \/ deadline'[h] > now
    /\ Move(h)
    /\ now' = now

Return ==
    /\ fn # Nobody
    /\ fn' = Nobody
    /\ UNCHANGED <<now, deadline>>

\* The clock moves, in any direction.
SetClock ==
    /\ now' \in Nat
    /\ UNCHANGED <<deadline, fn>>

TNext ==
    \/ \E h \in Handle : Set(h) \/ Cancel(h) \/ Fire(h)
    \/ Return
    \/ SetClock

TSpec == TInit /\ [][TNext]_tvars
=============================================================================
