------------------------------- MODULE FramPower -------------------------------
(***************************************************************************)
(* The circular store of components/fram/fram.c byte by byte: the power    *)
(* may go between any two calls of fram_write_byte.  FramRing says what    *)
(* the operations do when it does not.                                     *)
(*                                                                         *)
(* The layout is that of the program at half the size: a pointer has two   *)
(* bytes instead of four, a record four instead of eight, and a byte has   *)
(* Radix values, few enough for pointers to carry from one byte into the   *)
(* next within a small ring.                                               *)
(***************************************************************************)
EXTENDS Integers, Sequences

CONSTANTS limit_addr_top,  \* address of the last slot
          Radix,           \* values of a byte
          Telemetry,       \* the values stored
          Cuts             \* power cuts that are looked at

pointer_bytes == 2
telemetry_bytes == 2 * pointer_bytes
limit_addr_bottom == telemetry_bytes

PointerRange == Radix * Radix

\* The FM25V10 takes the low bits of an address and ignores the others.
fram_bytes == limit_addr_top + 2 * telemetry_bytes
cell(a) == a % fram_bytes
Address == 0 .. fram_bytes - 1
Slot == {a \in limit_addr_bottom .. limit_addr_top : a % telemetry_bytes = 0}

\* The ring has three slots at least: the program's has 16000.
ASSUME LayoutAssumption == /\ limit_addr_top \in Nat /\ Radix \in Nat \ {0}
                           /\ limit_addr_top % telemetry_bytes = 0
                           /\ limit_addr_top >= 3 * telemetry_bytes
                           /\ fram_bytes <= PointerRange
                           /\ Telemetry \subseteq 1 .. PointerRange * PointerRange - 1
                           /\ Cuts \in Nat

VARIABLES memory,       \* the bytes of the FRAM
          top, bottom,  \* in RAM
          pending,      \* byte writes that the running operation has left
          on,           \* FALSE while the power is off
          before,       \* the pointers before the running operation
          kept, target, \* history: the records before it, and once it is done
          torn,         \* history: a cut left pointers never set together
          cuts          \* power cuts so far

vars == <<memory, top, bottom, pending, on, before, kept, target, torn, cuts>>

\* The bytes of a pointer, most significant first; a record is two pointers long.
high_byte(p) == (p \div Radix) % Radix
low_byte(p) == p % Radix
pointer_writes(a, p) == << <<cell(a), high_byte(p)>>, <<cell(a + 1), low_byte(p)>> >>
telemetry_writes(a, t) == pointer_writes(a, t \div PointerRange)
                            \o pointer_writes(a + pointer_bytes, t % PointerRange)

read_pointer(a) == memory[cell(a)] * Radix + memory[cell(a + 1)]
read_telemetry(a) == read_pointer(a) * PointerRange + read_pointer(a + pointer_bytes)

set_top(a) == pointer_writes(pointer_bytes, a)
set_bottom(a) == pointer_writes(0, a)
fram_pointers == <<read_pointer(pointer_bytes), read_pointer(0)>>

\* Slip of `after': only the end of an intact ring is seen.
after_intact(a) == IF a + telemetry_bytes = limit_addr_top + telemetry_bytes
                   THEN limit_addr_bottom ELSE a + telemetry_bytes

after(a) == IF a + telemetry_bytes > limit_addr_top
            THEN limit_addr_bottom ELSE a + telemetry_bytes

\* The subtraction is unsigned.
memory_full == \/ /\ bottom = limit_addr_bottom
                  /\ top = limit_addr_top - limit_addr_bottom
               \/ top = (bottom - telemetry_bytes) % PointerRange

\* Slip of check_state: the pointer to the next free slot is not tested.
check_state_bottom_only(p) == (p[2] - limit_addr_bottom) % telemetry_bytes = 0

\* The program tests alignment and nothing else.
check_state(p) == \A i \in 1 .. 2 : (p[i] - limit_addr_bottom) % telemetry_bytes = 0

\* The number of records from b up to t, around the end of the ring.
Span(b, t) == (IF t >= b THEN t - b ELSE limit_addr_top - b + t) \div telemetry_bytes

\* The i-th slot of the ring, counted from b.
SlotFrom(b, i) == LET a == b + telemetry_bytes * (i - 1)
                  IN  IF a > limit_addr_top THEN a - limit_addr_top ELSE a

\* The records between the pointers, oldest first.
Records == [i \in 1 .. Span(bottom, top) |-> read_telemetry(SlotFrom(bottom, i))]

Idle == on /\ pending = <<>>
-------------------------------------------------------------------------------
\* A FRAM that was reset once, or one whose pointers are misaligned.
Init == /\ \E p \in {<<limit_addr_bottom, limit_addr_bottom>>,
                      <<limit_addr_top, limit_addr_bottom + 1>>} :
             memory = [a \in Address |-> CASE a = 0 -> high_byte(p[1])
                                           [] a = 1 -> low_byte(p[1])
                                           [] a = 2 -> high_byte(p[2])
                                           [] a = 3 -> low_byte(p[2])
                                           [] OTHER -> 0]
        /\ top = 0 /\ bottom = 0 /\ before = <<0, 0>>
        /\ pending = <<>> /\ on = FALSE
        /\ kept = <<>> /\ target = <<>> /\ torn = FALSE /\ cuts = 0

(***************************************************************************)
(* An operation computes its byte writes at its start.  top and bottom are *)
(* set with it: the program sets them after the last byte, but nothing     *)
(* reads them in between and a power cut loses them.  The records of a     *)
(* torn store are not followed any further.                                *)
(***************************************************************************)
Start(ws, t, b, records) == /\ pending' = ws
                            /\ top' = t /\ bottom' = b
                            /\ before' = <<top, bottom>>
                            /\ target' = IF torn THEN <<>> ELSE records
                            /\ kept' = IF torn THEN <<>> ELSE kept
                            /\ UNCHANGED <<memory, on, torn, cuts>>

\* Slip of record_writes: the pointer is moved before the record is there.
record_writes_late(t) == set_top(after(top)) \o telemetry_writes(top, t)

record_writes(t) == telemetry_writes(top, t) \o set_top(after(top))

write_telemetry(t) ==
  /\ Idle
  /\ \/ ~memory_full /\ Start(record_writes(t), after(top), bottom, Append(kept, t))
     \/ memory_full /\ UNCHANGED vars

\* The FRAM task deletes the value it has read; it takes 0 for an empty store.
delete_last_read_telemetry ==
  /\ Idle /\ bottom # top
  /\ read_telemetry(bottom) # 0
  /\ Start(set_bottom(after(bottom)), top, after(bottom),
           SubSeq(kept, 2, Len(kept)))

reset_writes == set_top(limit_addr_bottom) \o set_bottom(limit_addr_bottom)

\* The FRAM task empties the store if two reads of a bad head differ.
fram_reset ==
  /\ Idle /\ bottom # top
  /\ Start(reset_writes, limit_addr_bottom, limit_addr_bottom, <<>>)

fram_write_byte ==
  /\ pending # <<>>
  /\ memory' = [memory EXCEPT ![pending[1][1]] = pending[1][2]]
  /\ pending' = Tail(pending)
  /\ \/ Len(pending) > 1 /\ UNCHANGED <<before, kept>>
     \/ Len(pending) = 1 /\ before' = <<top, bottom>> /\ kept' = target
  /\ UNCHANGED <<top, bottom, on, target, torn, cuts>>

(***************************************************************************)
(* The running operation is undone if the FRAM still has the old pointers, *)
(* done if it has the new ones, and torn otherwise.                        *)
(***************************************************************************)
PowerLoss ==
  /\ on /\ cuts < Cuts
  /\ cuts' = cuts + 1
  /\ on' = FALSE
  /\ pending' = <<>>
  /\ top' = 0 /\ bottom' = 0 /\ before' = <<0, 0>>
  /\ LET done == pending # <<>> /\ fram_pointers = <<top, bottom>>
     IN  /\ kept' = IF done THEN target ELSE kept
         /\ target' = kept'
         /\ torn' = \/ torn
                    \/ pending # <<>> /\ ~done /\ fram_pointers # before
  /\ UNCHANGED memory

fram_internal_setup ==
  /\ ~on
  /\ on' = TRUE
  /\ \/ /\ check_state(fram_pointers)
        /\ top' = fram_pointers[1] /\ bottom' = fram_pointers[2]
        /\ before' = fram_pointers
        /\ UNCHANGED <<pending, kept, target, torn>>
     \/ /\ ~check_state(fram_pointers)
        /\ pending' = reset_writes
        /\ top' = limit_addr_bottom /\ bottom' = limit_addr_bottom
        /\ before' = fram_pointers
        /\ kept' = <<>> /\ target' = <<>> /\ torn' = FALSE
  /\ UNCHANGED <<memory, cuts>>

Next == \/ \E t \in Telemetry : write_telemetry(t)
        \/ delete_last_read_telemetry
        \/ fram_reset
        \/ fram_write_byte
        \/ PowerLoss
        \/ fram_internal_setup

Spec == Init /\ [][Next]_vars
-------------------------------------------------------------------------------
\* While the device runs, its pointers are aligned, if not always in the ring.
TypeOK == /\ memory \in [Address -> 0 .. Radix - 1]
          /\ \A p \in {top, bottom} : /\ p \in 0 .. PointerRange - 1
                                     /\ on => p % telemetry_bytes = 0
          /\ \A i \in DOMAIN pending : pending[i] \in Address \X (0 .. Radix - 1)
          /\ on \in BOOLEAN /\ torn \in BOOLEAN /\ cuts \in 0 .. Cuts

(***************************************************************************)
(* A power cut undoes an operation or lets it stand, as long as it leaves  *)
(* pointers that were set together (fram.c:156-173: the record is complete *)
(* before the pointer moves).                                              *)
(***************************************************************************)
CutIsAtomicUnlessTorn == (Idle /\ ~torn) => Records = kept

(***************************************************************************)
(* Whatever a cut made of a pointer, the next write or delete puts it back *)
(* on a slot of the ring (fram.c:167 and 225 test for "beyond the end").   *)
(***************************************************************************)
PointersHeal ==
  [][on /\ on' => /\ top' # top => top' \in Slot
                  /\ bottom' # bottom => bottom' \in Slot]_vars
===============================================================================
