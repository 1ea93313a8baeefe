------------------------------ MODULE FifoLock ------------------------------
(***************************************************************************)
(* What withSiteLock of browser-intent/worker/worker.js promises: the      *)
(* calls on a site are served one at a time, in the order in which they    *)
(* came.  There are no promises here, only a queue.                        *)
(***************************************************************************)
EXTENDS Sequences, Naturals

CONSTANTS
  Customers,   \* calls
  Nobody       \* no call

VARIABLES
  queue,    \* calls that came and have not left, in order of arrival
  active    \* the call being served

fifoVars == <<queue, active>>

FifoInit == queue = <<>> /\ active = Nobody

Arrive(c) ==
  /\ \A i \in 1..Len(queue) : queue[i] # c
  /\ queue' = Append(queue, c)
  /\ UNCHANGED active

Serve ==
  /\ active = Nobody /\ queue # <<>>
  /\ active' = Head(queue)
  /\ UNCHANGED queue

Leave ==
  /\ active # Nobody
  /\ active' = Nobody
  /\ queue' = Tail(queue)

FifoNext == (\E c \in Customers : Arrive(c)) \/ Serve \/ Leave

FifoSpec == FifoInit /\ [][FifoNext]_fifoVars
=============================================================================
