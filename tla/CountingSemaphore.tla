-------------------------- MODULE CountingSemaphore -------------------------
(***************************************************************************)
(* What a semaphore promises: a token taken or a place in a first-come-    *)
(* first-served line, and a token is only stored when nobody waits.        *)
(***************************************************************************)
EXTENDS Integers, Sequences

CONSTANTS Threads, InitCount

VARIABLES
  count,    \* tokens nobody has claimed
  waiting   \* the threads that wait for one

vars == <<count, waiting>>

Init == count = InitCount /\ waiting = <<>>

Take ==
  /\ count > 0
  /\ count' = count - 1
  /\ UNCHANGED waiting

Join(t) ==
  /\ count = 0
  /\ \A i \in 1..Len(waiting) : waiting[i] # t
  /\ waiting' = Append(waiting, t)
  /\ UNCHANGED count

Store ==
  /\ waiting = <<>>
  /\ count' = count + 1
  /\ UNCHANGED waiting

HandOver ==
  /\ waiting # <<>>
  /\ waiting' = Tail(waiting)
  /\ UNCHANGED count

Next == Take \/ (\E t \in Threads : Join(t)) \/ Store \/ HandOver

Spec == Init /\ [][Next]_vars
=============================================================================
