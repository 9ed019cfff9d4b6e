------------------------------- MODULE FramRing -------------------------------
(***************************************************************************)
(* The circular store of components/fram/fram.c between two power cuts:    *)
(* each operation runs to its end (FramPower cuts one in the middle).      *)
(*                                                                         *)
(* Addresses are those of the program.  A record is telemetry_bytes bytes  *)
(* and its most significant byte is at an address that is a multiple of 8, *)
(* so `memory' maps those addresses (Slot) to whole records.  The FRAM     *)
(* also holds a copy of both pointers, fram_top and fram_bottom, from      *)
(* which a restart rebuilds `top' and `bottom'.                            *)
(***************************************************************************)
EXTENDS Integers, Sequences

CONSTANTS limit_addr_top,  \* address of the last slot: 128000 in the program
          Telemetry        \* the values stored; 0 is one a caller may store

telemetry_bytes == 8
limit_addr_bottom == 8

ASSUME LimitAssumption == /\ limit_addr_top \in Nat
                          /\ limit_addr_top % 8 = 0
                          /\ limit_addr_top >= 24
ASSUME TelemetryAssumption == Telemetry \subseteq Nat

Slot == {a \in limit_addr_bottom .. limit_addr_top : a % telemetry_bytes = 0}

VARIABLES memory,       \* the records in the FRAM
          fram_top,     \* FRAM bytes 4..7
          fram_bottom,  \* FRAM bytes 0..3
          top,          \* RAM: the slot the next write goes to
          bottom,       \* RAM: the oldest record
          ret           \* last operation, its argument and what it returned

pointers == <<fram_top, fram_bottom, top, bottom>>
vars == <<memory, pointers, ret>>

Returned(op, arg, val) == ret' = [op |-> op, arg |-> arg, val |-> val]

set_top(a) == top' = a /\ fram_top' = a
set_bottom(a) == bottom' = a /\ fram_bottom' = a

\* Slip of `after': the last slot is not seen as the last.
after_last_slot(a) == IF a > limit_addr_top
                      THEN limit_addr_bottom ELSE a + telemetry_bytes

\* The address of the slot that follows the one at a.
after(a) == IF a + telemetry_bytes > limit_addr_top
            THEN limit_addr_bottom ELSE a + telemetry_bytes

\* Slip of memory_full: only the general case is tested.
memory_full_one_case == top = bottom - telemetry_bytes

\* The first disjunct is the full ring whose oldest record is in the first slot.
memory_full == \/ /\ bottom = limit_addr_bottom
                  /\ top = limit_addr_top - limit_addr_bottom
               \/ top = bottom - telemetry_bytes

\* What read_telemetry returns.
telemetry_read == IF bottom = top THEN 0 ELSE memory[bottom]

messages_num ==
  LET diff == IF top >= bottom
              THEN top - bottom
              ELSE (limit_addr_top - bottom) + (top - limit_addr_bottom)
  IN  diff \div telemetry_bytes

check_state == /\ (fram_bottom - limit_addr_bottom) % telemetry_bytes = 0
               /\ (fram_top - limit_addr_bottom) % telemetry_bytes = 0
-------------------------------------------------------------------------------
(***************************************************************************)
(* A device whose FRAM was reset once; the records are whatever was there. *)
(***************************************************************************)
Init == /\ memory \in [Slot -> Telemetry]
        /\ top = limit_addr_bottom /\ fram_top = top
        /\ bottom = limit_addr_bottom /\ fram_bottom = bottom
        /\ ret = [op |-> "none", arg |-> 0, val |-> 0]

write_telemetry(t) ==
  \/ /\ memory_full
     /\ Returned("write", t, 0)
     /\ UNCHANGED <<memory, pointers>>
  \/ /\ ~memory_full
     /\ memory' = [memory EXCEPT ![top] = t]
     /\ set_top(after(top))
     /\ Returned("write", t, 1)
     /\ UNCHANGED <<bottom, fram_bottom>>

read_telemetry == /\ Returned("read", 0, telemetry_read)
                  /\ UNCHANGED <<memory, pointers>>

\* Slip of may_delete: the head of the store is deleted unseen.
may_delete_blind(d) == bottom # top

\* The guard is what makes deleting a record twice harmless.
may_delete(d) == bottom # top /\ telemetry_read = d

delete_last_read_telemetry(d) ==
  \/ /\ may_delete(d)
     /\ set_bottom(after(bottom))
     /\ Returned("delete", d, 1)
     /\ UNCHANGED <<memory, top, fram_top>>
  \/ /\ ~may_delete(d)
     /\ Returned("delete", d, 0)
     /\ UNCHANGED <<memory, pointers>>

get_stored_messages_count == /\ Returned("count", 0, messages_num)
                             /\ UNCHANGED <<memory, pointers>>

fram_reset == /\ set_top(limit_addr_bottom)
              /\ set_bottom(limit_addr_bottom)
              /\ Returned("reset", 0, 0)
              /\ UNCHANGED memory

(***************************************************************************)
(* A restart between two operations: RAM is lost, fram_internal_setup      *)
(* reads the pointers back and resets the store if they are misaligned.    *)
(* With whole operations they never are; FramPower reaches that branch.    *)
(***************************************************************************)
fram_internal_setup ==
  IF check_state
  THEN /\ top' = fram_top
       /\ bottom' = fram_bottom
       /\ UNCHANGED <<memory, fram_top, fram_bottom, ret>>
  ELSE fram_reset

Next == \/ \E t \in Telemetry : write_telemetry(t) \/ delete_last_read_telemetry(t)
        \/ read_telemetry
        \/ get_stored_messages_count
        \/ fram_reset
        \/ fram_internal_setup

Spec == Init /\ [][Next]_vars
-------------------------------------------------------------------------------
TypeOK == /\ memory \in [Slot -> Telemetry]
          /\ top \in Slot
          /\ bottom \in Slot
          /\ fram_top \in Slot
          /\ fram_bottom \in Slot
          /\ ret \in [op : {"none", "write", "read", "delete", "count", "reset"},
                      arg : Nat, val : Nat]

(***************************************************************************)
(* The wrapped full position is never reached unwrapped: with bottom at    *)
(* its lowest, top stops one slot short of the last one.  Without this the *)
(* next write would make top = bottom and every stored record would vanish *)
(* (fram.c, the check at the head of write_telemetry).                     *)
(***************************************************************************)
RingInv == ~(bottom = limit_addr_bottom /\ top = limit_addr_top)

\* The number of records from b up to t, around the end of the ring.
Span(b, t) == (IF t >= b THEN t - b ELSE limit_addr_top - b + t) \div 8

\* The i-th slot of the ring, counted from b.
SlotFrom(b, i) == LET a == b + 8 * (i - 1)
                  IN  IF a > limit_addr_top THEN a - limit_addr_top ELSE a

RecordsIn(m, b, t) == [i \in 1 .. Span(b, t) |-> m[SlotFrom(b, i)]]

Stored == Span(bottom, top)

\* What is stored, oldest record first.
Records == RecordsIn(memory, bottom, top)

(***************************************************************************)
(* The ring implements the FIFO that fram.h promises: records come out in  *)
(* the order they went in, none lost, none twice, across wraps, refused    *)
(* writes, repeated deletes and restarts.                                  *)
(***************************************************************************)
Fifo == INSTANCE TelemetryFifo
        WITH queue <- Records,
             Capacity <- limit_addr_top \div 8 - 1

ImplementsFifo == Fifo!Spec
===============================================================================
