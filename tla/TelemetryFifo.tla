---------------------------- MODULE TelemetryFifo ----------------------------
(***************************************************************************)
(* What components/fram/fram.h promises its one caller, the FRAM task: a   *)
(* bounded FIFO of telemetry values that survives a restart.  FramRing is  *)
(* shown to implement it; TelemetryPipeline uses it in place of the ring.  *)
(*                                                                         *)
(* `queue' is what is stored, oldest first; `ret' is the last operation,   *)
(* its argument and the value it returned (a C bool is 0 or 1).            *)
(***************************************************************************)
EXTENDS Integers, Sequences

CONSTANTS Telemetry,  \* the 64-bit values a caller may store
          Capacity    \* the largest number of values stored at once

VARIABLES queue, ret

vars == <<queue, ret>>

Returned(op, arg, val) == ret' = [op |-> op, arg |-> arg, val |-> val]

Init == /\ queue = <<>>
        /\ ret = [op |-> "none", arg |-> 0, val |-> 0]

(***************************************************************************)
(* A write is refused only when at most one more value would fit: the ring *)
(* cannot use its last free slot in one of its positions.                  *)
(***************************************************************************)
Write(t) == \/ /\ Len(queue) < Capacity
               /\ queue' = Append(queue, t)
               /\ Returned("write", t, 1)
            \/ /\ Len(queue) >= Capacity - 1
               /\ Returned("write", t, 0)
               /\ UNCHANGED queue

Read == /\ Returned("read", 0, IF queue = <<>> THEN 0 ELSE Head(queue))
        /\ UNCHANGED queue

\* Slip of IsOldest: the value is not compared.
IsOldest_unseen(d) == queue # <<>>

\* The oldest value goes, and only if the caller names it.
IsOldest(d) == queue # <<>> /\ Head(queue) = d

Delete(d) == \/ /\ IsOldest(d)
                /\ queue' = Tail(queue)
                /\ Returned("delete", d, 1)
             \/ /\ ~IsOldest(d)
                /\ Returned("delete", d, 0)
                /\ UNCHANGED queue

\* The count may be one too small: the ring does not count its last slot when
\* the records wrap around it.
Count == /\ queue' = queue
         /\ \/ Returned("count", 0, Len(queue))
            \/ queue # <<>> /\ Returned("count", 0, Len(queue) - 1)

Reset == queue' = <<>> /\ Returned("reset", 0, 0)

Next == \/ \E t \in Telemetry : Write(t) \/ Delete(t)
        \/ Read
        \/ Count
        \/ Reset

Spec == Init /\ [][Next]_vars
==============================================================================
