---------------------------- MODULE FramPower_proofs ----------------------------
(***************************************************************************)
(* Proofs about FramPower, for every size of the ring, every number of     *)
(* values of a byte, every set of records and every number of power cuts.  *)
(***************************************************************************)
EXTENDS FramPower, SequenceTheorems, TLAPS

Byte == 0 .. Radix - 1
Pointer == 0 .. PointerRange - 1
Writes == Seq(Address \X Byte)

LEMMA Sizes ==
  /\ Radix \in Nat \ {0} /\ PointerRange \in Nat \ {0} /\ fram_bytes \in Nat \ {0}
  /\ telemetry_bytes = 4 /\ limit_addr_bottom = 4 /\ pointer_bytes = 2
  /\ limit_addr_top \in Nat /\ limit_addr_top >= 12 /\ limit_addr_top % 4 = 0
  /\ fram_bytes = limit_addr_top + 8 /\ fram_bytes <= PointerRange
<1>1. telemetry_bytes = 4 /\ limit_addr_bottom = 4 /\ pointer_bytes = 2
  BY DEF telemetry_bytes, limit_addr_bottom, pointer_bytes
<1>2. PointerRange \in Nat \ {0}
  BY LayoutAssumption DEF PointerRange
<1>3. limit_addr_top >= 12
  BY <1>1, LayoutAssumption
<1> QED BY <1>1, <1>2, <1>3, LayoutAssumption DEF fram_bytes

LEMMA CellTyped == ASSUME NEW a \in Int PROVE cell(a) \in Address
  BY Sizes DEF cell, Address

LEMMA ByteTyped == ASSUME NEW p \in Int PROVE high_byte(p) \in Byte /\ low_byte(p) \in Byte
  BY Sizes DEF high_byte, low_byte, Byte

LEMMA TwoBytes == ASSUME NEW h \in Byte, NEW l \in Byte PROVE h * Radix + l \in Pointer
<1>1. h * Radix <= (Radix - 1) * Radix
  BY Sizes DEF Byte
<1>2. (Radix - 1) * Radix = PointerRange - Radix
  BY Sizes DEF PointerRange
<1>3. h * Radix \in Nat
  BY Sizes DEF Byte
<1> QED BY <1>1, <1>2, <1>3, Sizes DEF Byte, Pointer

LEMMA PointerWritesTyped ==
  ASSUME NEW a \in Int, NEW p \in Int
  PROVE  pointer_writes(a, p) \in Writes
  BY CellTyped, ByteTyped DEF pointer_writes, Writes

LEMMA TelemetryWritesTyped ==
  ASSUME NEW a \in Int, NEW t \in Int
  PROVE  telemetry_writes(a, t) \in Writes
<1>1. t \div PointerRange \in Int /\ t % PointerRange \in Int
  BY Sizes
<1>2. /\ pointer_writes(a, t \div PointerRange) \in Writes
      /\ pointer_writes(a + pointer_bytes, t % PointerRange) \in Writes
  BY <1>1, Sizes, PointerWritesTyped
<1> QED BY <1>2, ConcatProperties DEF telemetry_writes, Writes

LEMMA ReadTyped ==
  ASSUME memory \in [Address -> Byte], NEW a \in Int
  PROVE  read_pointer(a) \in Pointer
  BY CellTyped, TwoBytes DEF read_pointer

\* The next address is a slot of the ring, wherever the pointer was.
LEMMA AfterIsSlot ==
  ASSUME NEW a \in Pointer, a % telemetry_bytes = 0
  PROVE  after(a) \in Slot
<1>1. a \in Nat /\ a % 4 = 0
  BY Sizes DEF Pointer
<1>2. (a + 4) % 4 = 0 /\ 4 % 4 = 0
  BY <1>1
<1> QED BY <1>1, <1>2, Sizes DEF after, Slot

LEMMA SlotIsPointer ==
  ASSUME NEW a \in Slot
  PROVE  a \in Pointer /\ a % telemetry_bytes = 0
  BY Sizes DEF Slot, Pointer

LEMMA BottomIsSlot == limit_addr_bottom \in Slot
<1>1. 4 % 4 = 0
  OBVIOUS
<1> QED BY <1>1, Sizes DEF Slot
-------------------------------------------------------------------------------
(***************************************************************************)
(* The type invariant, with the byte writes that are left as a sequence.   *)
(* While the device runs its pointers are aligned, which is what           *)
(* check_state tests; that they are slots of the ring is not an invariant: *)
(* a torn pointer may be aligned and out of the ring.                      *)
(***************************************************************************)
PointerOK(p) == p \in Pointer /\ (on => p % telemetry_bytes = 0)

PowerInv == /\ memory \in [Address -> Byte]
            /\ PointerOK(top) /\ PointerOK(bottom)
            /\ pending \in Writes
            /\ on \in BOOLEAN /\ torn \in BOOLEAN /\ cuts \in 0 .. Cuts

LEMMA ByteZero == 0 \in Byte /\ 0 \in Pointer
  BY Sizes DEF Byte, Pointer

LEMMA InitPower == Init => PowerInv
<1> SUFFICES ASSUME Init PROVE PowerInv
  OBVIOUS
<1>1. PICK p \in {<<limit_addr_bottom, limit_addr_bottom>>,
                  <<limit_addr_top, limit_addr_bottom + 1>>} :
         memory = [a \in Address |-> CASE a = 0 -> high_byte(p[1])
                                       [] a = 1 -> low_byte(p[1])
                                       [] a = 2 -> high_byte(p[2])
                                       [] a = 3 -> low_byte(p[2])
                                       [] OTHER -> 0]
  BY DEF Init
<1>2. p[1] \in Int /\ p[2] \in Int
  BY Sizes
<1>3. /\ high_byte(p[1]) \in Byte /\ low_byte(p[1]) \in Byte
      /\ high_byte(p[2]) \in Byte /\ low_byte(p[2]) \in Byte
      /\ 0 \in Byte
  BY <1>2, ByteTyped, ByteZero
<1>4. memory \in [Address -> Byte]
  BY <1>1, <1>3
<1>5. top = 0 /\ bottom = 0 /\ pending = <<>> /\ on = FALSE /\ torn = FALSE /\ cuts = 0
  BY DEF Init
<1>6. PointerOK(top) /\ PointerOK(bottom)
  BY <1>5, ByteZero DEF PointerOK
<1>7. cuts \in 0 .. Cuts
  BY <1>5, LayoutAssumption
<1>8. pending \in Writes
  BY <1>5, EmptySeq DEF Writes
<1> QED BY <1>4, <1>5, <1>6, <1>7, <1>8 DEF PowerInv

\* An operation that starts with typed writes and pointers keeps the invariant.
LEMMA Started ==
  ASSUME PowerInv, NEW ws \in Writes, NEW t, NEW b, NEW r, PointerOK(t), PointerOK(b),
         Start(ws, t, b, r)
  PROVE  PowerInv'
<1>1. /\ pending' = ws /\ top' = t /\ bottom' = b
      /\ UNCHANGED <<memory, on, torn, cuts>>
  BY DEF Start
<1>2. PointerOK(top)' /\ PointerOK(bottom)'
  BY <1>1 DEF PointerOK
<1> QED BY <1>1, <1>2 DEF PowerInv

LEMMA WriteKeepsInv ==
  ASSUME PowerInv, NEW t \in Telemetry, write_telemetry(t)
  PROVE  PowerInv'
<1>1. CASE memory_full
  BY <1>1 DEF write_telemetry, vars, PowerInv, PointerOK
<1>2. CASE ~memory_full
  <2>1. on /\ Start(record_writes(t), after(top), bottom, Append(kept, t))
    BY <1>2 DEF write_telemetry, Idle
  <2>2. after(top) \in Slot
    BY <2>1, AfterIsSlot DEF PowerInv, PointerOK
  <2>3. PointerOK(after(top)) /\ after(top) \in Int
    BY <2>2, SlotIsPointer DEF PointerOK, Pointer
  <2>4. t \in Int /\ top \in Int
    BY LayoutAssumption DEF PowerInv, PointerOK, Pointer
  <2>5. telemetry_writes(top, t) \in Writes /\ set_top(after(top)) \in Writes
    BY <2>3, <2>4, Sizes, TelemetryWritesTyped, PointerWritesTyped DEF set_top
  <2>6. record_writes(t) \in Writes
    BY <2>5, ConcatProperties DEF record_writes, Writes
  <2> QED BY <2>1, <2>3, <2>6, Started DEF PowerInv
<1> QED BY <1>1, <1>2

LEMMA DeleteKeepsInv ==
  ASSUME PowerInv, delete_last_read_telemetry
  PROVE  PowerInv'
<1>1. /\ on
      /\ Start(set_bottom(after(bottom)), top, after(bottom), SubSeq(kept, 2, Len(kept)))
  BY DEF delete_last_read_telemetry, Idle
<1>2. after(bottom) \in Slot
  BY <1>1, AfterIsSlot DEF PowerInv, PointerOK
<1>3. PointerOK(after(bottom)) /\ after(bottom) \in Int
  BY <1>2, SlotIsPointer DEF PointerOK, Pointer
<1>4. set_bottom(after(bottom)) \in Writes
  BY <1>3, PointerWritesTyped DEF set_bottom
<1> QED BY <1>1, <1>3, <1>4, Started DEF PowerInv

LEMMA ResetTyped == reset_writes \in Writes
<1>1. set_top(limit_addr_bottom) \in Writes /\ set_bottom(limit_addr_bottom) \in Writes
  BY Sizes, PointerWritesTyped DEF set_top, set_bottom
<1> QED BY <1>1, ConcatProperties DEF reset_writes, Writes

LEMMA ResetKeepsInv ==
  ASSUME PowerInv, fram_reset
  PROVE  PowerInv'
<1>1. PointerOK(limit_addr_bottom)
  BY BottomIsSlot, SlotIsPointer DEF PointerOK
<1> QED BY <1>1, ResetTyped, Started DEF fram_reset

LEMMA ByteWriteKeepsInv ==
  ASSUME PowerInv, fram_write_byte
  PROVE  PowerInv'
<1>1. /\ pending # <<>> /\ pending' = Tail(pending)
      /\ memory' = [memory EXCEPT ![pending[1][1]] = pending[1][2]]
      /\ UNCHANGED <<top, bottom, on, torn, cuts>>
  BY DEF fram_write_byte
<1>2. pending' \in Writes /\ pending[1] \in Address \X Byte
  BY <1>1, HeadTailProperties DEF PowerInv, Writes
<1>3. memory' \in [Address -> Byte]
  BY <1>1, <1>2 DEF PowerInv
<1> QED BY <1>1, <1>2, <1>3 DEF PowerInv, PointerOK

LEMMA PowerLossKeepsInv ==
  ASSUME PowerInv, PowerLoss
  PROVE  PowerInv'
<1>1. /\ on' = FALSE /\ pending' = <<>> /\ top' = 0 /\ bottom' = 0
      /\ cuts < Cuts /\ cuts' = cuts + 1 /\ memory' = memory
  BY DEF PowerLoss
<1>2. torn' \in BOOLEAN
  BY DEF PowerLoss
<1>3. PointerOK(top)' /\ PointerOK(bottom)'
  BY <1>1, ByteZero DEF PointerOK
<1>4. cuts' \in 0 .. Cuts
  BY <1>1, LayoutAssumption DEF PowerInv
<1>5. pending' \in Writes
  BY <1>1, EmptySeq DEF Writes
<1>6. memory' \in [Address -> Byte]
  BY <1>1 DEF PowerInv
<1> QED BY <1>1, <1>2, <1>3, <1>4, <1>5, <1>6 DEF PowerInv

LEMMA SetupKeepsInv ==
  ASSUME PowerInv, fram_internal_setup
  PROVE  PowerInv'
<1>1. on' = TRUE /\ UNCHANGED <<memory, cuts>>
  BY DEF fram_internal_setup
<1>2. CASE check_state(fram_pointers)
  <2>1. /\ top' = read_pointer(2) /\ bottom' = read_pointer(0)
        /\ UNCHANGED <<pending, torn>>
    BY <1>2, Sizes DEF fram_internal_setup, fram_pointers
  <2>2. read_pointer(2) \in Pointer /\ read_pointer(0) \in Pointer
    BY ReadTyped DEF PowerInv
  <2>3. (read_pointer(2) - 4) % 4 = 0 /\ (read_pointer(0) - 4) % 4 = 0
    BY <1>2, Sizes DEF check_state, fram_pointers
  <2>4. read_pointer(2) % 4 = 0 /\ read_pointer(0) % 4 = 0
    BY <2>2, <2>3, Sizes DEF Pointer
  <2>5. PointerOK(top)' /\ PointerOK(bottom)'
    BY <2>1, <2>2, <2>4, Sizes DEF PointerOK
  <2> QED BY <1>1, <2>1, <2>5 DEF PowerInv
<1>3. CASE ~check_state(fram_pointers)
  <2>1. /\ top' = limit_addr_bottom /\ bottom' = limit_addr_bottom /\ torn' = FALSE
        /\ pending' = reset_writes
    BY <1>3 DEF fram_internal_setup
  <2>2. PointerOK(top)' /\ PointerOK(bottom)'
    BY <2>1, BottomIsSlot, SlotIsPointer DEF PointerOK
  <2>3. pending' \in Writes
    BY <2>1, ResetTyped
  <2> QED BY <1>1, <2>1, <2>2, <2>3 DEF PowerInv
<1> QED BY <1>2, <1>3

LEMMA NextPower == PowerInv /\ [Next]_vars => PowerInv'
<1> SUFFICES ASSUME PowerInv, [Next]_vars PROVE PowerInv'
  OBVIOUS
<1>1. CASE UNCHANGED vars
  BY <1>1 DEF vars, PowerInv, PointerOK
<1> QED BY <1>1, WriteKeepsInv, DeleteKeepsInv, ResetKeepsInv, ByteWriteKeepsInv,
           PowerLossKeepsInv, SetupKeepsInv DEF Next

(***************************************************************************)
(* Type correctness of the store under power cuts (fram.c:148-316): the    *)
(* pointers keep to 32 bits, and while the device runs they are aligned.   *)
(***************************************************************************)
THEOREM TypeCorrect == Spec => []TypeOK
<1>1. PowerInv => TypeOK
  <2> SUFFICES ASSUME PowerInv PROVE TypeOK
    OBVIOUS
  <2>1. \A i \in DOMAIN pending : pending[i] \in Address \X Byte
    BY DEF PowerInv, Writes
  <2> QED BY <2>1 DEF PowerInv, PointerOK, TypeOK, Byte, Pointer
<1> QED BY <1>1, InitPower, NextPower, PTL DEF Spec

\* What one step may make of the pointers.
Heals == on /\ on' => /\ top' # top => top' \in Slot
                      /\ bottom' # bottom => bottom' \in Slot

(***************************************************************************)
(* Wherever power cuts have left the pointers, an operation moves them to  *)
(* slots of the ring only (fram.c:165-170, 223-228, 307-316): for every    *)
(* size of the ring and every number of cuts.                              *)
(***************************************************************************)
THEOREM TornPointersHeal == Spec => PointersHeal
<1>1. PowerInv /\ [Next]_vars => Heals
  <2> SUFFICES ASSUME PowerInv, [Next]_vars, on, on' PROVE Heals
    BY DEF Heals
  <2>1. ASSUME NEW t \in Telemetry, write_telemetry(t) PROVE Heals
    <3>1. top' \in {top, after(top)} /\ bottom' = bottom
      BY <2>1 DEF write_telemetry, Start, vars
    <3>2. after(top) \in Slot
      BY AfterIsSlot DEF PowerInv, PointerOK
    <3> QED BY <3>1, <3>2 DEF Heals
  <2>2. CASE delete_last_read_telemetry
    <3>1. top' = top /\ bottom' = after(bottom)
      BY <2>2 DEF delete_last_read_telemetry, Start
    <3>2. after(bottom) \in Slot
      BY AfterIsSlot DEF PowerInv, PointerOK
    <3> QED BY <3>1, <3>2 DEF Heals
  <2>3. CASE fram_reset
    BY <2>3, BottomIsSlot DEF fram_reset, Start, Heals
  <2>4. CASE fram_write_byte
    BY <2>4 DEF fram_write_byte, Heals
  <2>5. ~PowerLoss /\ ~fram_internal_setup
    BY DEF PowerLoss, fram_internal_setup
  <2>6. CASE UNCHANGED vars
    BY <2>6 DEF vars, Heals
  <2> QED BY <2>1, <2>2, <2>3, <2>4, <2>5, <2>6 DEF Next
<1>2. Heals <=> (on /\ on' => /\ top' # top => top' \in Slot
                              /\ bottom' # bottom => bottom' \in Slot)
  BY DEF Heals
<1> QED BY <1>1, <1>2, InitPower, NextPower, PTL DEF Spec, PointersHeal
-------------------------------------------------------------------------------
(***************************************************************************)
(* A power cut undoes an operation or lets it stand.  First the numbers:   *)
(* the bytes of a pointer and of a record give the number back.            *)
(***************************************************************************)
LEMMA Division ==
  ASSUME NEW n \in Nat \ {0}, NEW a \in Nat
  PROVE  /\ a = n * (a \div n) + (a % n)
         /\ a \div n \in Nat /\ a % n \in 0 .. n - 1
  OBVIOUS

LEMMA SmallMod == ASSUME NEW n \in Nat, NEW a \in 0 .. n - 1 PROVE a % n = a
  OBVIOUS

LEMMA SmallQuotient ==
  ASSUME NEW n \in Nat \ {0}, NEW m \in Nat, NEW a \in 0 .. n * m - 1
  PROVE  a \div n \in 0 .. m - 1
<1>1. a \div n < m
  OBVIOUS
<1>2. a \in Nat
  OBVIOUS
<1>3. a \div n \in Nat
  BY <1>2, Division
<1> QED BY <1>1, <1>3

LEMMA PointerSplits ==
  ASSUME NEW p \in Pointer
  PROVE  high_byte(p) * Radix + low_byte(p) = p
<1>1. Radix \in Nat \ {0} /\ p \in Nat /\ p \in 0 .. Radix * Radix - 1
  BY Sizes DEF Pointer, PointerRange
<1>2. p \div Radix \in 0 .. Radix - 1
  BY <1>1, SmallQuotient
<1>3. high_byte(p) = p \div Radix
  BY <1>1, <1>2, SmallMod DEF high_byte
<1>4. p = Radix * (p \div Radix) + (p % Radix) /\ p \div Radix \in Nat
  BY <1>1, Division
<1>5. Radix * (p \div Radix) = (p \div Radix) * Radix
  BY <1>1, <1>4
<1> QED BY <1>3, <1>4, <1>5 DEF low_byte

LEMMA RecordSplits ==
  ASSUME NEW x \in Telemetry
  PROVE  /\ x \div PointerRange \in Pointer /\ x % PointerRange \in Pointer
         /\ (x \div PointerRange) * PointerRange + (x % PointerRange) = x
<1>1. PointerRange \in Nat \ {0} /\ x \in Nat /\ x \in 0 .. PointerRange * PointerRange - 1
  BY Sizes, LayoutAssumption
<1>2. x \div PointerRange \in 0 .. PointerRange - 1
  BY <1>1, SmallQuotient
<1>3. /\ x = PointerRange * (x \div PointerRange) + (x % PointerRange)
      /\ x \div PointerRange \in Nat /\ x % PointerRange \in 0 .. PointerRange - 1
  BY <1>1, Division
<1>4. PointerRange * (x \div PointerRange) = (x \div PointerRange) * PointerRange
  BY <1>1, <1>3
<1> QED BY <1>2, <1>3, <1>4 DEF Pointer

\* The pointers are in the first four bytes, the slots after them.
LEMMA Cells ==
  /\ \A a \in Address : cell(a) = a
  /\ 0 \in Address /\ 1 \in Address /\ 2 \in Address /\ 3 \in Address
  /\ \A a \in Slot : a \in Address /\ a + 1 \in Address /\ a + 2 \in Address /\ a + 3 \in Address
  /\ \A a \in Slot : a \in Nat /\ a >= 4 /\ a <= limit_addr_top /\ a % 4 = 0
<1>1. \A a \in Address : cell(a) = a
  BY Sizes, SmallMod DEF Address, cell
<1>2. \A a \in Slot : a \in Nat /\ a >= 4 /\ a <= limit_addr_top /\ a % 4 = 0
  BY Sizes DEF Slot
<1>3. \A a \in Slot : a \in Address /\ a + 1 \in Address /\ a + 2 \in Address /\ a + 3 \in Address
  BY <1>2, Sizes DEF Address
<1>4. 0 \in Address /\ 1 \in Address /\ 2 \in Address /\ 3 \in Address
  BY Sizes DEF Address
<1> QED BY <1>1, <1>2, <1>3, <1>4

\* Different slots share no byte.
LEMMA SlotsApart ==
  ASSUME NEW a \in Slot, NEW c \in Slot, a # c, NEW i \in 0 .. 3, NEW j \in 0 .. 3
  PROVE  a + i # c + j
<1>1. a \in Nat /\ a % 4 = 0 /\ c \in Nat /\ c % 4 = 0
  BY Cells
<1> QED BY <1>1

-------------------------------------------------------------------------------
\* The ring: where the next slot is and how many records there are.
LEMMA AfterSlot ==
  ASSUME NEW a \in Slot
  PROVE  /\ after(a) \in Slot
         /\ a # limit_addr_top => after(a) = a + 4
         /\ a = limit_addr_top => after(a) = 4
         /\ after(a) # a
<1>1. a \in Nat /\ a >= 4 /\ a <= limit_addr_top /\ a % 4 = 0
  BY Cells
<1>2. after(a) \in Slot
  BY <1>1, SlotIsPointer, AfterIsSlot
<1> QED BY <1>1, <1>2, Sizes DEF after

LEMMA SpanFacts ==
  ASSUME NEW b \in Slot, NEW t \in Slot
  PROVE  /\ Span(b, t) \in Nat
         /\ 4 * Span(b, t) = IF t >= b THEN t - b ELSE limit_addr_top - b + t
         /\ Span(b, t) = 0 <=> b = t
  BY Cells, Sizes DEF Span

LEMMA SlotFromFacts ==
  ASSUME NEW b \in Slot, NEW t \in Slot
  PROVE  /\ \A i \in 1 .. Span(b, t) : SlotFrom(b, i) \in Slot /\ SlotFrom(b, i) # t
         /\ SlotFrom(b, 1) = b
         /\ SlotFrom(b, Span(b, t) + 1) = t
<1>0. /\ b \in Nat /\ b >= 4 /\ b <= limit_addr_top /\ b % 4 = 0
      /\ t \in Nat /\ t >= 4 /\ t <= limit_addr_top /\ t % 4 = 0
  BY Cells
<1>1. ASSUME NEW i \in 1 .. Span(b, t)
      PROVE  SlotFrom(b, i) \in Slot /\ SlotFrom(b, i) # t
  <2> DEFINE a == b + 4 * (i - 1)
  <2>1. /\ Span(b, t) \in Nat
        /\ 4 * Span(b, t) = IF t >= b THEN t - b ELSE limit_addr_top - b + t
    BY SpanFacts
  <2>2. a \in Nat /\ a % 4 = 0 /\ a >= b /\ a <= b + 4 * Span(b, t) - 4
    BY <1>0, <1>1, <2>1
  <2>3. SlotFrom(b, i) = IF a > limit_addr_top THEN a - limit_addr_top ELSE a
    BY Sizes DEF SlotFrom
  <2> HIDE DEF a
  <2>4. CASE a > limit_addr_top
    <3>1. limit_addr_top \in Nat /\ limit_addr_top % 4 = 0
      BY Sizes
    <3>2. a - limit_addr_top \in Nat /\ (a - limit_addr_top) % 4 = 0
      BY <2>2, <2>4, <3>1
    <3>3. a - limit_addr_top < t
      BY <1>0, <2>1, <2>2, <2>4, <3>1
    <3>4. a - limit_addr_top >= 4
      BY <2>2, <2>4, <3>1, <3>2
    <3> QED BY <1>0, <2>3, <2>4, <3>2, <3>3, <3>4, Sizes DEF Slot
  <2>5. CASE ~(a > limit_addr_top)
    <3>1. a # t
      BY <1>0, <2>1, <2>2
    <3> QED BY <1>0, <2>2, <2>3, <2>5, <3>1, Sizes DEF Slot
  <2> QED BY <2>4, <2>5
<1>2. SlotFrom(b, 1) = b
  BY <1>0, Sizes DEF SlotFrom
<1>3. SlotFrom(b, Span(b, t) + 1) = t
  BY <1>0, SpanFacts, Sizes DEF SlotFrom
<1> QED BY <1>1, <1>2, <1>3

LEMMA SpanGrows ==
  ASSUME NEW b \in Slot, NEW t \in Slot, after(t) # b
  PROVE  Span(b, after(t)) = Span(b, t) + 1
<1>0. /\ b \in Nat /\ b >= 4 /\ b <= limit_addr_top /\ b % 4 = 0
      /\ t \in Nat /\ t >= 4 /\ t <= limit_addr_top /\ t % 4 = 0
      /\ limit_addr_top \in Nat
  BY Cells, Sizes
<1>1. after(t) \in Slot
  BY AfterSlot
<1>2. /\ Span(b, t) \in Nat
      /\ 4 * Span(b, t) = IF t >= b THEN t - b ELSE limit_addr_top - b + t
  BY SpanFacts
<1>3. /\ Span(b, after(t)) \in Nat
      /\ 4 * Span(b, after(t)) = IF after(t) >= b THEN after(t) - b
                                 ELSE limit_addr_top - b + after(t)
  BY <1>1, SpanFacts
<1>4. CASE t = limit_addr_top
  BY <1>0, <1>2, <1>3, <1>4, AfterSlot
<1>5. CASE t # limit_addr_top
  <2>1. after(t) = t + 4
    BY <1>5, AfterSlot
  <2>2. t + 4 > b <=> t >= b
    BY <1>0
  <2> QED BY <1>0, <1>2, <1>3, <2>1, <2>2
<1> QED BY <1>4, <1>5

LEMMA SpanShrinks ==
  ASSUME NEW b \in Slot, NEW t \in Slot, b # t
  PROVE  /\ Span(after(b), t) = Span(b, t) - 1
         /\ \A i \in 1 .. Span(b, t) - 1 : SlotFrom(after(b), i) = SlotFrom(b, i + 1)
<1>0. /\ b \in Nat /\ b >= 4 /\ b <= limit_addr_top /\ b % 4 = 0
      /\ t \in Nat /\ t >= 4 /\ t <= limit_addr_top /\ t % 4 = 0
      /\ limit_addr_top \in Nat
  BY Cells, Sizes
<1>1. after(b) \in Slot
  BY AfterSlot
<1>2. /\ Span(b, t) \in Nat
      /\ 4 * Span(b, t) = IF t >= b THEN t - b ELSE limit_addr_top - b + t
  BY SpanFacts
<1>3. /\ Span(after(b), t) \in Nat
      /\ 4 * Span(after(b), t) = IF t >= after(b) THEN t - after(b)
                                 ELSE limit_addr_top - after(b) + t
  BY <1>1, SpanFacts
<1>5. CASE b = limit_addr_top
  <2>1. after(b) = 4
    BY <1>5, AfterSlot
  <2>2. Span(after(b), t) = Span(b, t) - 1
    BY <1>0, <1>2, <1>3, <1>5, <2>1
  <2>3. ASSUME NEW i \in 1 .. Span(b, t) - 1
        PROVE  SlotFrom(after(b), i) = SlotFrom(b, i + 1)
    <3>1. 4 * Span(b, t) = t
      BY <1>0, <1>2, <1>5
    <3>2. i \in Nat /\ i >= 1 /\ i <= Span(b, t) - 1
      BY <1>2
    <3>3. 4 * i \in Int /\ 4 * i <= limit_addr_top /\ 4 * i = 4 + 4 * (i - 1)
      <4>1. 4 * (i + 1) <= 4 * Span(b, t)
        BY <1>2, <3>2
      <4> QED BY <1>0, <3>1, <3>2, <4>1
    <3>4. b + 4 * i \in Int /\ b + 4 * i > limit_addr_top /\ b + 4 * i - limit_addr_top = 4 * i
      BY <1>0, <1>5, <3>2
    <3>5. SlotFrom(4, i) = 4 * i
      <4>1. SlotFrom(4, i) = IF 4 * i > limit_addr_top THEN 4 * i - limit_addr_top ELSE 4 * i
        BY <3>2, <3>3, Sizes DEF SlotFrom
      <4> QED BY <1>0, <3>3, <4>1
    <3>6. b + 4 * i = b + 4 * (i + 1 - 1) /\ b \in Int /\ i + 1 \in Int
      BY <1>0, <3>2
    <3> DEFINE d == b + 4 * i
    <3>7. SlotFrom(b, i + 1) = 4 * i
      <4>1. d \in Int /\ d > limit_addr_top /\ d - limit_addr_top = 4 * i
        BY <1>0, <1>5, <3>2
      <4>2. d = b + 4 * (i + 1 - 1)
        BY <3>6
      <4> HIDE DEF d
      <4>3. SlotFrom(b, i + 1) = IF d > limit_addr_top THEN d - limit_addr_top ELSE d
        BY <3>2, <3>6, <4>1, <4>2, Sizes DEF SlotFrom
      <4>4. limit_addr_top \in Int
        BY <1>0
      <4> QED BY <4>1, <4>3, <4>4
    <3> QED BY <2>1, <3>5, <3>7
  <2> QED BY <2>2, <2>3
<1>6. CASE b # limit_addr_top
  <2>1. after(b) = b + 4
    BY <1>6, AfterSlot
  <2>2. t >= b <=> t >= b + 4
    BY <1>0
  <2>3. Span(after(b), t) = Span(b, t) - 1
    BY <1>0, <1>2, <1>3, <2>1, <2>2
  <2>4. ASSUME NEW i \in 1 .. Span(b, t) - 1
        PROVE  SlotFrom(after(b), i) = SlotFrom(b, i + 1)
    <3>1. i \in Int /\ i + 1 \in Int /\ b \in Int /\ b + 4 \in Int
      BY <1>0, <1>2
    <3>2. /\ b + 4 * i \in Int /\ b + 4 * i = b + 4 + 4 * (i - 1)
          /\ b + 4 * i = b + 4 * (i + 1 - 1)
      BY <3>1
    <3> DEFINE d == b + 4 * i
    <3>3. d \in Int /\ d = b + 4 + 4 * (i - 1) /\ d = b + 4 * (i + 1 - 1)
      BY <3>2
    <3> HIDE DEF d
    <3>4. SlotFrom(b + 4, i) = IF d > limit_addr_top THEN d - limit_addr_top ELSE d
      BY <3>1, <3>3, Sizes DEF SlotFrom
    <3>5. SlotFrom(b, i + 1) = IF d > limit_addr_top THEN d - limit_addr_top ELSE d
      BY <3>1, <3>3, Sizes DEF SlotFrom
    <3> QED BY <2>1, <3>4, <3>5
  <2> QED BY <2>3, <2>4
<1> QED BY <1>5, <1>6
-------------------------------------------------------------------------------
\* What a memory holds at an address, and between two pointers.
PointerIn(m, a) == m[cell(a)] * Radix + m[cell(a + 1)]
RecordIn(m, a) == PointerIn(m, a) * PointerRange + PointerIn(m, a + pointer_bytes)
PointersIn(m) == <<PointerIn(m, pointer_bytes), PointerIn(m, 0)>>
RecordsIn(m, t, b) == [i \in 1 .. Span(b, t) |-> RecordIn(m, SlotFrom(b, i))]

InRing(t, b) == t \in Slot /\ b \in Slot /\ ~(b = 4 /\ t = limit_addr_top)

Memory == [Address -> Byte]

LEMMA RecordBytes ==
  ASSUME NEW m, NEW a \in Slot
  PROVE  RecordIn(m, a) = (m[a] * Radix + m[a + 1]) * PointerRange
                            + (m[a + 2] * Radix + m[a + 3])
<1>1. /\ cell(a) = a /\ cell(a + 1) = a + 1 /\ cell(a + 2) = a + 2 /\ cell(a + 3) = a + 3
      /\ a + 2 + 1 = a + 3
  BY Cells
<1> QED BY <1>1, Sizes DEF RecordIn, PointerIn

LEMMA PointerBytes ==
  ASSUME NEW m
  PROVE  PointersIn(m) = <<m[2] * Radix + m[3], m[0] * Radix + m[1]>>
<1>1. /\ cell(0) = 0 /\ cell(1) = 1 /\ cell(2) = 2 /\ cell(3) = 3
      /\ 0 + 1 = 1 /\ 2 + 1 = 3
  BY Cells
<1> QED BY <1>1, Sizes DEF PointersIn, PointerIn

LEMMA RecordTyped ==
  ASSUME NEW m \in Memory, NEW a \in Slot
  PROVE  RecordIn(m, a) \in Nat
<1>1. /\ m[a] \in Byte /\ m[a + 1] \in Byte /\ m[a + 2] \in Byte /\ m[a + 3] \in Byte
  BY Cells DEF Memory
<1>2. m[a] * Radix + m[a + 1] \in Pointer /\ m[a + 2] * Radix + m[a + 3] \in Pointer
  BY <1>1, TwoBytes
<1> DEFINE h == m[a] * Radix + m[a + 1]
           l == m[a + 2] * Radix + m[a + 3]
<1>3. h \in Nat /\ l \in Nat /\ PointerRange \in Nat
  BY <1>2, Sizes DEF Pointer
<1>4. RecordIn(m, a) = h * PointerRange + l
  BY RecordBytes
<1> HIDE DEF h, l
<1>5. h * PointerRange + l \in Nat
  BY <1>3
<1> QED BY <1>4, <1>5

LEMMA SameRecord ==
  ASSUME NEW m, NEW mem, NEW a \in Slot,
         \A j \in 0 .. 3 : mem[a + j] = m[a + j]
  PROVE  RecordIn(mem, a) = RecordIn(m, a)
<1>1. a + 0 = a
  BY Cells
<1>2. mem[a] = m[a] /\ mem[a + 1] = m[a + 1] /\ mem[a + 2] = m[a + 2] /\ mem[a + 3] = m[a + 3]
  BY <1>1
<1> QED BY <1>2, RecordBytes

LEMMA RecordsFacts ==
  ASSUME NEW m \in Memory, NEW t \in Slot, NEW b \in Slot
  PROVE  /\ RecordsIn(m, t, b) \in Seq(Nat)
         /\ Len(RecordsIn(m, t, b)) = Span(b, t)
         /\ \A i \in 1 .. Span(b, t) : RecordsIn(m, t, b)[i] = RecordIn(m, SlotFrom(b, i))
<1> DEFINE n == Span(b, t)
           r == RecordsIn(m, t, b)
<1>1. n \in Nat
  BY SpanFacts
<1>2. \A i \in 1 .. n : RecordIn(m, SlotFrom(b, i)) \in Nat
  BY SlotFromFacts, RecordTyped
<1>3. r = [i \in 1 .. n |-> RecordIn(m, SlotFrom(b, i))]
  BY DEF RecordsIn
<1>4. r \in [1 .. n -> Nat] /\ \A i \in 1 .. n : r[i] = RecordIn(m, SlotFrom(b, i))
  <2> HIDE DEF r, n
  <2> QED BY <1>2, <1>3
<1>5. r \in Seq(Nat) /\ DOMAIN r = 1 .. n
  <2> HIDE DEF r, n
  <2> QED BY <1>1, <1>4, SeqDef
<1>6. Len(r) = n
  <2> HIDE DEF r, n
  <2> QED BY <1>1, <1>5, LenProperties
<1> QED BY <1>4, <1>5, <1>6

\* Memories that agree on the records between the pointers.
LEMMA SameRecords ==
  ASSUME NEW m \in Memory, NEW mem \in Memory, NEW t \in Slot, NEW b \in Slot,
         \A a \in Slot : a # t => RecordIn(mem, a) = RecordIn(m, a)
  PROVE  RecordsIn(mem, t, b) = RecordsIn(m, t, b)
<1>1. \A i \in 1 .. Span(b, t) :
        RecordIn(mem, SlotFrom(b, i)) = RecordIn(m, SlotFrom(b, i))
  BY SlotFromFacts
<1> QED BY <1>1 DEF RecordsIn

LEMMA RecordAdded ==
  ASSUME NEW m \in Memory, NEW mem \in Memory, NEW t \in Slot, NEW b \in Slot,
         after(t) # b,
         \A a \in Slot : a # t => RecordIn(mem, a) = RecordIn(m, a)
  PROVE  RecordsIn(mem, after(t), b) = Append(RecordsIn(m, t, b), RecordIn(mem, t))
<1> DEFINE n == Span(b, t)
           old == RecordsIn(m, t, b)
           new == RecordsIn(mem, after(t), b)
           x == RecordIn(mem, t)
           more == Append(old, x)
<1>1. n \in Nat /\ Span(b, after(t)) = n + 1 /\ after(t) \in Slot /\ x \in Nat
  BY SpanFacts, SpanGrows, AfterSlot, RecordTyped
<1>2. /\ old \in Seq(Nat) /\ Len(old) = n
      /\ \A i \in 1 .. n : old[i] = RecordIn(m, SlotFrom(b, i))
  BY RecordsFacts
<1>3. /\ new \in Seq(Nat) /\ Len(new) = n + 1
      /\ \A i \in 1 .. n + 1 : new[i] = RecordIn(mem, SlotFrom(b, i))
  <2> HIDE DEF n, new
  <2> QED BY <1>1, RecordsFacts DEF new
<1>4. /\ \A i \in 1 .. n : SlotFrom(b, i) \in Slot /\ SlotFrom(b, i) # t
      /\ SlotFrom(b, n + 1) = t
  BY SlotFromFacts
<1>5. /\ more \in Seq(Nat) /\ Len(more) = n + 1 /\ more[n + 1] = x
      /\ \A i \in 1 .. n : more[i] = old[i]
  <2> HIDE DEF n, old, x
  <2> QED BY <1>1, <1>2, AppendProperties
<1> HIDE DEF n, old, new, more
<1>6. \A i \in 1 .. n : new[i] = more[i]
  <2>1. ASSUME NEW i \in 1 .. n PROVE new[i] = more[i]
    <3>1. i \in 1 .. n + 1
      BY <1>1
    <3>2. new[i] = RecordIn(mem, SlotFrom(b, i))
      BY <1>3, <3>1
    <3> QED BY <1>2, <1>4, <1>5, <3>2
  <2> QED BY <2>1
<1>7. new[n + 1] = more[n + 1]
  BY <1>1, <1>3, <1>4, <1>5
<1>8. \A i \in 1 .. n + 1 : new[i] = more[i]
  <2>1. \A i \in 1 .. n + 1 : i \in 1 .. n \/ i = n + 1
    BY <1>1
  <2> QED BY <1>6, <1>7, <2>1
<1>9. new = more
  BY <1>3, <1>5, <1>8, SeqEqual
<1> QED BY <1>9 DEF new, more, old

LEMMA RecordRemoved ==
  ASSUME NEW m \in Memory, NEW t \in Slot, NEW b \in Slot, b # t
  PROVE  /\ RecordsIn(m, t, b) # << >>
         /\ RecordsIn(m, t, after(b)) = Tail(RecordsIn(m, t, b))
<1> DEFINE n == Span(b, t)
           old == RecordsIn(m, t, b)
           new == RecordsIn(m, t, after(b))
<1>1. n \in Nat /\ n # 0 /\ Span(after(b), t) = n - 1 /\ after(b) \in Slot
  BY SpanFacts, SpanShrinks, AfterSlot
<1>2. \A i \in 1 .. n - 1 : SlotFrom(after(b), i) = SlotFrom(b, i + 1)
  BY SpanShrinks
<1>3. /\ old \in Seq(Nat) /\ Len(old) = n
      /\ \A i \in 1 .. n : old[i] = RecordIn(m, SlotFrom(b, i))
  BY RecordsFacts
<1>4. /\ new \in Seq(Nat) /\ Len(new) = n - 1
      /\ \A i \in 1 .. n - 1 : new[i] = RecordIn(m, SlotFrom(after(b), i))
  <2> HIDE DEF n, new
  <2> QED BY <1>1, RecordsFacts DEF new
<1> HIDE DEF n, old, new
<1>5. old # << >>
  BY <1>1, <1>3, EmptySeq
<1>6. /\ Tail(old) \in Seq(Nat) /\ Len(Tail(old)) = n - 1
      /\ \A i \in 1 .. n - 1 : Tail(old)[i] = old[i + 1]
  BY <1>3, <1>5, HeadTailProperties
<1>7. \A i \in 1 .. n - 1 : new[i] = Tail(old)[i]
  <2>1. ASSUME NEW i \in 1 .. n - 1 PROVE new[i] = Tail(old)[i]
    <3>1. i + 1 \in 1 .. n
      BY <1>1
    <3> QED BY <1>2, <1>3, <1>4, <1>6, <3>1
  <2> QED BY <2>1
<1>8. new = Tail(old)
  BY <1>4, <1>6, <1>7, SeqEqual
<1> QED BY <1>5, <1>8 DEF new, old
-------------------------------------------------------------------------------
(***************************************************************************)
(* The first i of the writes ws have been made to the memory m.  Survives  *)
(* says what an operation owes to a power cut: at every stage of it, the   *)
(* old pointers still have the old records, and the new pointers have the  *)
(* new ones; and its last write leaves the new pointers.                   *)
(***************************************************************************)
Partly(m, ws, i, mem) ==
  /\ \A j \in 1 .. i : mem[ws[j][1]] = ws[j][2]
  /\ \A a \in Address : (\A j \in 1 .. i : ws[j][1] # a) => mem[a] = m[a]

Distinct(ws) == \A j, k \in 1 .. Len(ws) : j # k => ws[j][1] # ws[k][1]

Sound(mem, t, b, r) == InRing(t, b) /\ RecordsIn(mem, t, b) = r

Survives(m, ws, t0, b0, r0, t1, b1, r1) ==
  \A i \in 0 .. Len(ws) : \A mem \in Memory : Partly(m, ws, i, mem) =>
    /\ PointersIn(mem) = <<t0, b0>> /\ check_state(<<t0, b0>>) => Sound(mem, t0, b0, r0)
    /\ PointersIn(mem) = <<t1, b1>> => Sound(mem, t1, b1, r1)
    /\ i = Len(ws) => PointersIn(mem) = <<t1, b1>>

LEMMA PartlyNext ==
  ASSUME NEW m, NEW ws \in Writes, Distinct(ws), NEW i \in Nat, i < Len(ws),
         NEW mem \in Memory, Partly(m, ws, i, mem)
  PROVE  /\ [mem EXCEPT ![ws[i + 1][1]] = ws[i + 1][2]] \in Memory
         /\ Partly(m, ws, i + 1, [mem EXCEPT ![ws[i + 1][1]] = ws[i + 1][2]])
<1> DEFINE c == ws[i + 1][1]
           v == ws[i + 1][2]
           next == [mem EXCEPT ![c] = v]
<1>1. Len(ws) \in Nat /\ i + 1 \in 1 .. Len(ws) /\ \A j \in 1 .. i : j \in 1 .. Len(ws) /\ j # i + 1
  BY DEF Writes
<1>2. c \in Address /\ v \in Byte
  BY <1>1, ElementOfSeq DEF Writes
<1> HIDE DEF c, v
<1>3. next \in Memory /\ next[c] = v /\ \A a \in Address : a # c => next[a] = mem[a]
  BY <1>2 DEF Memory
<1> HIDE DEF next
<1>4. \A j \in 1 .. i : ws[j][1] # c /\ ws[j][1] \in Address
  BY <1>1, ElementOfSeq DEF Distinct, c, Writes
<1>5. \A j \in 1 .. i : next[ws[j][1]] = ws[j][2]
  BY <1>3, <1>4 DEF Partly
<1>6. \A j \in 1 .. i + 1 : j \in 1 .. i \/ j = i + 1
  OBVIOUS
<1>7. \A j \in 1 .. i + 1 : next[ws[j][1]] = ws[j][2]
  BY <1>3, <1>5, <1>6 DEF c, v
<1>8. ASSUME NEW a \in Address, \A j \in 1 .. i + 1 : ws[j][1] # a PROVE next[a] = m[a]
  <2>1. i + 1 \in 1 .. i + 1 /\ \A j \in 1 .. i : j \in 1 .. i + 1
    OBVIOUS
  <2>2. a # c /\ \A j \in 1 .. i : ws[j][1] # a
    BY <1>8, <2>1 DEF c
  <2> QED BY <1>3, <2>2 DEF Partly
<1> QED BY <1>3, <1>7, <1>8 DEF Partly, next, c, v

\* What the operations write, byte by byte.
LEMMA PointerWritesAre ==
  ASSUME NEW a \in Address, a + 1 \in Address, NEW p \in Int
  PROVE  /\ pointer_writes(a, p) \in Writes /\ Len(pointer_writes(a, p)) = 2
         /\ pointer_writes(a, p)[1] = <<a, high_byte(p)>>
         /\ pointer_writes(a, p)[2] = <<a + 1, low_byte(p)>>
<1>1. a \in Int
  BY Sizes DEF Address
<1>2. pointer_writes(a, p) = << <<a, high_byte(p)>>, <<a + 1, low_byte(p)>> >>
  BY Cells DEF pointer_writes
<1> QED BY <1>1, <1>2, PointerWritesTyped

LEMMA TwoPointers ==
  ASSUME NEW a \in Address, a + 1 \in Address, NEW c \in Address, c + 1 \in Address,
         NEW p \in Int, NEW q \in Int
  PROVE  LET w == pointer_writes(a, p) \o pointer_writes(c, q)
         IN  /\ w \in Writes /\ Len(w) = 4
             /\ w[1] = <<a, high_byte(p)>> /\ w[2] = <<a + 1, low_byte(p)>>
             /\ w[3] = <<c, high_byte(q)>> /\ w[4] = <<c + 1, low_byte(q)>>
<1> DEFINE u == pointer_writes(a, p)
           v == pointer_writes(c, q)
           w == u \o v
<1>1. /\ u \in Writes /\ Len(u) = 2 /\ u[1] = <<a, high_byte(p)>> /\ u[2] = <<a + 1, low_byte(p)>>
      /\ v \in Writes /\ Len(v) = 2 /\ v[1] = <<c, high_byte(q)>> /\ v[2] = <<c + 1, low_byte(q)>>
  BY PointerWritesAre
<1> HIDE DEF u, v
<1>2. /\ w \in Writes /\ Len(w) = Len(u) + Len(v)
      /\ \A i \in 1 .. Len(u) + Len(v) : w[i] = IF i <= Len(u) THEN u[i] ELSE v[i - Len(u)]
  BY <1>1, ConcatProperties DEF Writes
<1> HIDE DEF w
<1>3. Len(w) = 4 /\ w[1] = u[1] /\ w[2] = u[2] /\ w[3] = v[1] /\ w[4] = v[2]
  BY <1>1, <1>2
<1> QED BY <1>1, <1>2, <1>3 DEF u, v, w

LEMMA RecordWritesAre ==
  ASSUME NEW a \in Slot, NEW x \in Telemetry, NEW p \in Int
  PROVE  LET w == telemetry_writes(a, x) \o set_top(p)
         IN  /\ w \in Writes /\ Len(w) = 6
             /\ w[1] = <<a, high_byte(x \div PointerRange)>>
             /\ w[2] = <<a + 1, low_byte(x \div PointerRange)>>
             /\ w[3] = <<a + 2, high_byte(x % PointerRange)>>
             /\ w[4] = <<a + 3, low_byte(x % PointerRange)>>
             /\ w[5] = <<2, high_byte(p)>> /\ w[6] = <<3, low_byte(p)>>
<1> DEFINE u == telemetry_writes(a, x)
           v == set_top(p)
           w == u \o v
           h == x \div PointerRange
           l == x % PointerRange
<1>1. h \in Int /\ l \in Int
  BY RecordSplits DEF Pointer
<1>2. u = pointer_writes(a, h) \o pointer_writes(a + 2, l) /\ v = pointer_writes(2, p)
  BY Sizes DEF telemetry_writes, set_top
<1> HIDE DEF u, v, h, l
<1>3. a \in Address /\ a + 1 \in Address /\ a + 2 \in Address /\ a + 2 + 1 = a + 3 /\ a + 3 \in Address
  BY Cells
<1>4. /\ u \in Writes /\ Len(u) = 4
      /\ u[1] = <<a, high_byte(h)>> /\ u[2] = <<a + 1, low_byte(h)>>
      /\ u[3] = <<a + 2, high_byte(l)>> /\ u[4] = <<a + 3, low_byte(l)>>
  BY <1>1, <1>2, <1>3, TwoPointers
<1>5. /\ v \in Writes /\ Len(v) = 2 /\ v[1] = <<2, high_byte(p)>> /\ v[2] = <<3, low_byte(p)>>
  <2>1. 2 \in Address /\ 2 + 1 = 3 /\ 3 \in Address
    BY Cells
  <2> QED BY <1>2, <2>1, PointerWritesAre
<1>6. /\ w \in Writes /\ Len(w) = Len(u) + Len(v)
      /\ \A i \in 1 .. Len(u) + Len(v) : w[i] = IF i <= Len(u) THEN u[i] ELSE v[i - Len(u)]
  BY <1>4, <1>5, ConcatProperties DEF Writes
<1> HIDE DEF w
<1>7. /\ Len(w) = 6 /\ w[1] = u[1] /\ w[2] = u[2] /\ w[3] = u[3] /\ w[4] = u[4]
      /\ w[5] = v[1] /\ w[6] = v[2]
  BY <1>4, <1>5, <1>6
<1> QED BY <1>4, <1>5, <1>6, <1>7 DEF u, v, w, h, l
-------------------------------------------------------------------------------
LEMMA WriteSurvives ==
  ASSUME NEW m \in Memory, NEW t, NEW b, InRing(t, b), NEW x \in Telemetry,
         after(t) # b, InRing(after(t), b), PointersIn(m) = <<t, b>>,
         NEW r, RecordsIn(m, t, b) = r
  PROVE  /\ Distinct(telemetry_writes(t, x) \o set_top(after(t)))
         /\ Survives(m, telemetry_writes(t, x) \o set_top(after(t)), t, b, r,
                     after(t), b, Append(r, x))
<1> DEFINE ws == telemetry_writes(t, x) \o set_top(after(t))
           p == after(t)
           h == x \div PointerRange
           l == x % PointerRange
<1>1. t \in Slot /\ b \in Slot /\ p \in Slot /\ p # t
  BY AfterSlot DEF InRing
<1>2. h \in Pointer /\ l \in Pointer /\ h * PointerRange + l = x /\ p \in Pointer /\ p \in Int
  BY <1>1, RecordSplits, SlotIsPointer DEF Pointer
<1>3. /\ ws \in Writes /\ Len(ws) = 6
      /\ ws[1] = <<t, high_byte(h)>> /\ ws[2] = <<t + 1, low_byte(h)>>
      /\ ws[3] = <<t + 2, high_byte(l)>> /\ ws[4] = <<t + 3, low_byte(l)>>
      /\ ws[5] = <<2, high_byte(p)>> /\ ws[6] = <<3, low_byte(p)>>
  BY <1>1, <1>2, RecordWritesAre
<1> HIDE DEF ws, h, l
<1>4. /\ ws[1][1] = t /\ ws[2][1] = t + 1 /\ ws[3][1] = t + 2 /\ ws[4][1] = t + 3
      /\ ws[5][1] = 2 /\ ws[6][1] = 3
  BY <1>3
<1>5. t \in Nat /\ t >= 4
  BY <1>1, Cells
<1>6. \A j \in 1 .. 6 : \/ j = 1 /\ ws[j][1] = t
                        \/ j = 2 /\ ws[j][1] = t + 1
                        \/ j = 3 /\ ws[j][1] = t + 2
                        \/ j = 4 /\ ws[j][1] = t + 3
                        \/ j = 5 /\ ws[j][1] = 2
                        \/ j = 6 /\ ws[j][1] = 3
  <2>1. \A j \in 1 .. 6 : j = 1 \/ j = 2 \/ j = 3 \/ j = 4 \/ j = 5 \/ j = 6
    OBVIOUS
  <2> QED BY <1>4, <2>1
<1>7. Distinct(ws)
  <2>1. ASSUME NEW j \in 1 .. 6, NEW k \in 1 .. 6, j # k PROVE ws[j][1] # ws[k][1]
    BY <1>5, <1>6, <2>1
  <2> QED BY <1>3, <2>1 DEF Distinct
<1>8. ASSUME NEW i \in 0 .. 6, NEW mem \in Memory, Partly(m, ws, i, mem)
      PROVE  /\ PointersIn(mem) = <<t, b>> /\ check_state(<<t, b>>) => Sound(mem, t, b, r)
             /\ PointersIn(mem) = <<p, b>> => Sound(mem, p, b, Append(r, x))
             /\ i = 6 => PointersIn(mem) = <<p, b>>
  <2>1. /\ \A j \in 1 .. i : mem[ws[j][1]] = ws[j][2] /\ j \in 1 .. 6
        /\ \A a \in Address : (\A j \in 1 .. i : ws[j][1] # a) => mem[a] = m[a]
    BY <1>8 DEF Partly
  <2>2. ASSUME NEW a \in Slot, a # t PROVE RecordIn(mem, a) = RecordIn(m, a)
    <3>1. ASSUME NEW j \in 0 .. 3 PROVE mem[a + j] = m[a + j]
      <4>1. \A k \in 0 .. 3 : a + j # t + k
        BY <1>1, <2>2, SlotsApart
      <4>2. /\ a \in Nat /\ a >= 4 /\ a + j \in Address
            /\ a + j # t /\ a + j # t + 1 /\ a + j # t + 2 /\ a + j # t + 3
        <5>1. j = 0 \/ j = 1 \/ j = 2 \/ j = 3
          OBVIOUS
        <5>2. a \in Nat /\ a >= 4 /\ a + 0 = a
          BY Cells
        <5>3. a + j \in Address
          BY <5>1, <5>2, Cells
        <5>4. t + 0 = t /\ 0 \in 0 .. 3 /\ 1 \in 0 .. 3 /\ 2 \in 0 .. 3 /\ 3 \in 0 .. 3
          BY <1>5
        <5> QED BY <4>1, <5>2, <5>3, <5>4
      <4>3. \A k \in 1 .. 6 : ws[k][1] # a + j
        BY <1>6, <4>2
      <4> QED BY <2>1, <4>2, <4>3
    <3> QED BY <3>1, SameRecord
  <2>3. RecordsIn(mem, t, b) = r
    BY <1>1, <2>2, SameRecords
  <2>4. CASE i <= 4
    <3>1. ASSUME NEW a \in 0 .. 3 PROVE mem[a] = m[a]
      <4>1. \A j \in 1 .. i : ws[j][1] # a
        BY <1>5, <1>6, <2>4
      <4>2. a \in Address
        BY Sizes DEF Address
      <4> QED BY <2>1, <4>1, <4>2
    <3>2. mem[0] = m[0] /\ mem[1] = m[1] /\ mem[2] = m[2] /\ mem[3] = m[3]
      BY <3>1
    <3>3. PointersIn(mem) = <<t, b>>
      BY <3>2, PointerBytes
    <3>4. <<t, b>> # <<p, b>>
      BY <1>1
    <3> QED BY <2>3, <2>4, <3>3, <3>4 DEF Sound
  <2>5. CASE i >= 5
    <3>1. /\ 1 \in 1 .. i /\ 2 \in 1 .. i /\ 3 \in 1 .. i /\ 4 \in 1 .. i
      BY <2>5
    <3>2. /\ mem[t] = high_byte(h) /\ mem[t + 1] = low_byte(h)
          /\ mem[t + 2] = high_byte(l) /\ mem[t + 3] = low_byte(l)
      BY <1>3, <1>4, <2>1, <3>1
    <3>3. RecordIn(mem, t) = x
      BY <1>1, <1>2, <3>2, RecordBytes, PointerSplits
    <3>4. RecordsIn(mem, p, b) = Append(r, x)
      BY <1>1, <2>2, <3>3, RecordAdded
    <3>5. ASSUME i = 6 PROVE PointersIn(mem) = <<p, b>>
      <4>1. 5 \in 1 .. i /\ 6 \in 1 .. i
        BY <3>5
      <4>2. mem[2] = high_byte(p) /\ mem[3] = low_byte(p)
        BY <1>3, <1>4, <2>1, <4>1
      <4>3. mem[0] = m[0] /\ mem[1] = m[1]
        <5>1. \A j \in 1 .. i : ws[j][1] # 0 /\ ws[j][1] # 1
          BY <1>5, <1>6
        <5> QED BY <2>1, <5>1, Cells
      <4>4. m[0] * Radix + m[1] = b
        BY PointerBytes
      <4>5. mem[2] * Radix + mem[3] = p
        BY <1>2, <4>2, PointerSplits
      <4> QED BY <4>3, <4>4, <4>5, PointerBytes
    <3> QED BY <2>3, <3>4, <3>5 DEF Sound
  <2> QED BY <2>4, <2>5
<1>9. \A i \in 0 .. Len(ws) : i \in 0 .. 6
  BY <1>3
<1>10. Survives(m, ws, t, b, r, p, b, Append(r, x))
  <2> HIDE DEF p
  <2> QED BY <1>3, <1>8, <1>9 DEF Survives
<1> QED BY <1>7, <1>10 DEF ws

LEMMA DeleteSurvives ==
  ASSUME NEW m \in Memory, NEW t, NEW b, InRing(t, b), b # t,
         InRing(t, after(b)), PointersIn(m) = <<t, b>>,
         NEW r, RecordsIn(m, t, b) = r
  PROVE  /\ Distinct(set_bottom(after(b)))
         /\ Survives(m, set_bottom(after(b)), t, b, r, t, after(b), Tail(r))
<1> DEFINE ws == set_bottom(after(b))
           p == after(b)
<1>1. t \in Slot /\ b \in Slot /\ p \in Slot /\ p \in Pointer /\ p \in Int
  BY AfterSlot, SlotIsPointer DEF InRing, Pointer
<1>2. /\ ws \in Writes /\ Len(ws) = 2
      /\ ws[1] = <<0, high_byte(p)>> /\ ws[2] = <<1, low_byte(p)>>
  <2>1. 0 \in Address /\ 0 + 1 = 1 /\ 1 \in Address
    BY Cells
  <2> QED BY <1>1, <2>1, PointerWritesAre DEF set_bottom
<1> HIDE DEF ws
<1>3. ws[1][1] = 0 /\ ws[2][1] = 1 /\ \A j \in 1 .. 2 : j = 1 \/ j = 2
  BY <1>2
<1>4. Distinct(ws)
  <2>1. ASSUME NEW j \in 1 .. 2, NEW k \in 1 .. 2, j # k PROVE ws[j][1] # ws[k][1]
    BY <1>3, <2>1
  <2> QED BY <1>2, <2>1 DEF Distinct
<1>5. ASSUME NEW i \in 0 .. 2, NEW mem \in Memory, Partly(m, ws, i, mem)
      PROVE  /\ PointersIn(mem) = <<t, b>> /\ check_state(<<t, b>>) => Sound(mem, t, b, r)
             /\ PointersIn(mem) = <<t, p>> => Sound(mem, t, p, Tail(r))
             /\ i = 2 => PointersIn(mem) = <<t, p>>
  <2>1. /\ \A j \in 1 .. i : mem[ws[j][1]] = ws[j][2] /\ j \in 1 .. 2
        /\ \A a \in Address : (\A j \in 1 .. i : ws[j][1] # a) => mem[a] = m[a]
    BY <1>5 DEF Partly
  <2>2. \A a \in Address : a >= 2 => mem[a] = m[a]
    BY <1>3, <2>1
  <2>3. ASSUME NEW a \in Slot PROVE RecordIn(mem, a) = RecordIn(m, a)
    <3>1. ASSUME NEW j \in 0 .. 3 PROVE mem[a + j] = m[a + j]
      <4>1. j = 0 \/ j = 1 \/ j = 2 \/ j = 3
        OBVIOUS
      <4>2. a \in Nat /\ a >= 4 /\ a + 0 = a
        BY Cells
      <4>3. a + j \in Address /\ a + j >= 2
        BY <4>1, <4>2, Cells
      <4> QED BY <2>2, <4>3
    <3> QED BY <3>1, SameRecord
  <2>4. RecordsIn(mem, t, b) = r
    BY <1>1, <2>3, SameRecords
  <2>5. RecordsIn(mem, t, p) = Tail(r)
    <3>1. RecordsIn(m, t, p) = Tail(r)
      BY <1>1, RecordRemoved
    <3>2. RecordsIn(mem, t, p) = RecordsIn(m, t, p)
      <4> HIDE DEF p
      <4> QED BY <1>1, <2>3, SameRecords
    <3> QED BY <3>1, <3>2
  <2>6. ASSUME i = 2 PROVE PointersIn(mem) = <<t, p>>
    <3>1. 1 \in 1 .. i /\ 2 \in 1 .. i
      BY <2>6
    <3>2. mem[0] = high_byte(p) /\ mem[1] = low_byte(p)
      BY <1>2, <1>3, <2>1, <3>1
    <3>3. mem[2] = m[2] /\ mem[3] = m[3]
      BY <2>2, Cells
    <3>4. m[2] * Radix + m[3] = t
      BY PointerBytes
    <3>5. mem[0] * Radix + mem[1] = p
      BY <1>1, <3>2, PointerSplits
    <3> QED BY <3>3, <3>4, <3>5, PointerBytes
  <2> QED BY <2>4, <2>5, <2>6 DEF Sound
<1>6. Survives(m, ws, t, b, r, t, p, Tail(r))
  <2>1. \A i \in 0 .. Len(ws) : i \in 0 .. 2
    BY <1>2
  <2> HIDE DEF p
  <2> QED BY <1>2, <1>5, <2>1 DEF Survives
<1> QED BY <1>4, <1>6 DEF ws

LEMMA EmptyRing == ASSUME NEW mem \in Memory PROVE Sound(mem, 4, 4, << >>)
<1>1. 4 \in Slot
  BY BottomIsSlot, Sizes
<1>2. Span(4, 4) = 0
  BY <1>1, SpanFacts
<1>3. RecordsIn(mem, 4, 4) \in Seq(Nat) /\ Len(RecordsIn(mem, 4, 4)) = 0
  BY <1>1, <1>2, RecordsFacts
<1>4. RecordsIn(mem, 4, 4) = << >>
  BY <1>3, EmptySeq
<1>5. limit_addr_top # 4
  BY Sizes
<1> QED BY <1>1, <1>4, <1>5 DEF Sound, InRing

\* A reset starts from any records, or from pointers that are misaligned, and
\* ends with none stored.
LEMMA ResetSurvives ==
  ASSUME NEW m \in Memory, NEW t, NEW b, NEW r,
         check_state(<<t, b>>) => Sound(m, t, b, r)
  PROVE  /\ Distinct(set_top(4) \o set_bottom(4))
         /\ Len(set_top(4) \o set_bottom(4)) = 4
         /\ set_top(4) \o set_bottom(4) \in Writes
         /\ Survives(m, set_top(4) \o set_bottom(4), t, b, r, 4, 4, << >>)
<1> DEFINE ws == set_top(4) \o set_bottom(4)
<1>1. 4 \in Slot /\ 4 \in Pointer /\ 4 \in Int
  BY BottomIsSlot, SlotIsPointer, Sizes
<1>2. /\ ws \in Writes /\ Len(ws) = 4
      /\ ws[1] = <<2, high_byte(4)>> /\ ws[2] = <<3, low_byte(4)>>
      /\ ws[3] = <<0, high_byte(4)>> /\ ws[4] = <<1, low_byte(4)>>
  <2>1. /\ 2 \in Address /\ 2 + 1 = 3 /\ 3 \in Address
        /\ 0 \in Address /\ 0 + 1 = 1 /\ 1 \in Address
    BY Cells
  <2>2. set_top(4) = pointer_writes(2, 4) /\ set_bottom(4) = pointer_writes(0, 4)
    BY Sizes DEF set_top, set_bottom
  <2> DEFINE w == pointer_writes(2, 4) \o pointer_writes(0, 4)
  <2>3. /\ w \in Writes /\ Len(w) = 4
        /\ w[1] = <<2, high_byte(4)>> /\ w[2] = <<2 + 1, low_byte(4)>>
        /\ w[3] = <<0, high_byte(4)>> /\ w[4] = <<0 + 1, low_byte(4)>>
    <3>1. PICK a \in Address, c \in Address, p \in Int : a = 2 /\ c = 0 /\ p = 4
      BY <1>1, <2>1
    <3>2. a + 1 \in Address /\ c + 1 \in Address
      BY <2>1, <3>1
    <3> DEFINE u == pointer_writes(a, p) \o pointer_writes(c, p)
    <3>3. /\ u \in Writes /\ Len(u) = 4
          /\ u[1] = <<a, high_byte(p)>> /\ u[2] = <<a + 1, low_byte(p)>>
          /\ u[3] = <<c, high_byte(p)>> /\ u[4] = <<c + 1, low_byte(p)>>
      BY <3>2, TwoPointers
    <3>4. u = w
      BY <3>1
    <3> HIDE DEF u, w
    <3> QED BY <3>1, <3>3, <3>4
  <2>4. ws = w
    BY <2>2
  <2> HIDE DEF w
  <2> QED BY <2>1, <2>3, <2>4
<1> HIDE DEF ws
<1>3. /\ ws[1][1] = 2 /\ ws[2][1] = 3 /\ ws[3][1] = 0 /\ ws[4][1] = 1
      /\ \A j \in 1 .. 4 : j = 1 \/ j = 2 \/ j = 3 \/ j = 4
  BY <1>2
<1>4. Distinct(ws)
  <2>1. ASSUME NEW j \in 1 .. 4, NEW k \in 1 .. 4, j # k PROVE ws[j][1] # ws[k][1]
    BY <1>3, <2>1
  <2> QED BY <1>2, <2>1 DEF Distinct
<1>5. \A mem \in Memory : Sound(mem, 4, 4, << >>)
  BY EmptyRing
<1>6. ASSUME NEW mem, Partly(m, ws, 4, mem) PROVE PointersIn(mem) = <<4, 4>>
  <2>1. \A j \in 1 .. 4 : mem[ws[j][1]] = ws[j][2]
    BY <1>6 DEF Partly
  <2>2. 1 \in 1 .. 4 /\ 2 \in 1 .. 4 /\ 3 \in 1 .. 4 /\ 4 \in 1 .. 4
    OBVIOUS
  <2>3. /\ mem[2] = high_byte(4) /\ mem[3] = low_byte(4)
        /\ mem[0] = high_byte(4) /\ mem[1] = low_byte(4)
    BY <1>2, <1>3, <2>1, <2>2
  <2>4. high_byte(4) * Radix + low_byte(4) = 4
    BY <1>1, PointerSplits
  <2> QED BY <2>3, <2>4, PointerBytes
<1>7. ASSUME NEW i \in 0 .. 4, NEW mem \in Memory, Partly(m, ws, i, mem),
             check_state(<<t, b>>)
      PROVE  Sound(mem, t, b, r)
  <2>1. InRing(t, b) /\ t \in Slot /\ b \in Slot /\ RecordsIn(m, t, b) = r
    BY <1>7 DEF Sound, InRing
  <2>2. \A a \in Address : a >= 4 => mem[a] = m[a]
    <3>1. \A j \in 1 .. i : j \in 1 .. 4
      OBVIOUS
    <3> QED BY <1>3, <1>7, <3>1 DEF Partly
  <2>3. ASSUME NEW a \in Slot PROVE RecordIn(mem, a) = RecordIn(m, a)
    <3>1. ASSUME NEW j \in 0 .. 3 PROVE mem[a + j] = m[a + j]
      <4>1. j = 0 \/ j = 1 \/ j = 2 \/ j = 3
        OBVIOUS
      <4>2. a \in Nat /\ a >= 4 /\ a + 0 = a
        BY Cells
      <4>3. a + j \in Address /\ a + j >= 4
        BY <4>1, <4>2, Cells
      <4> QED BY <2>2, <4>3
    <3> QED BY <3>1, SameRecord
  <2>4. RecordsIn(mem, t, b) = r
    BY <2>1, <2>3, SameRecords
  <2> QED BY <2>1, <2>4 DEF Sound
<1>8. Survives(m, ws, t, b, r, 4, 4, << >>)
  BY <1>2, <1>5, <1>6, <1>7 DEF Survives
<1> QED BY <1>2, <1>4, <1>8 DEF ws
-------------------------------------------------------------------------------
(***************************************************************************)
(* The invariant: an idle device has in its FRAM the pointers that it has  *)
(* in RAM, and between them the records that were kept; a running          *)
(* operation is at some stage of writes that survive a cut; and while the  *)
(* power is off the pointers have the records that were kept, unless they  *)
(* are misaligned and the store is reset.  A torn store promises nothing,  *)
(* until it is reset.                                                      *)
(***************************************************************************)
Rest(ws, i) == SubSeq(ws, i + 1, Len(ws))

Running ==
  \E m \in Memory, ws \in Writes, i \in Nat, t \in Int, b \in Int :
    /\ i < Len(ws) /\ pending = Rest(ws, i)
    /\ Distinct(ws) /\ Partly(m, ws, i, memory)
    /\ before = <<t, b>>
    /\ Survives(m, ws, t, b, kept, top, bottom, target)

OffInv == check_state(PointersIn(memory)) =>
            Sound(memory, PointersIn(memory)[1], PointersIn(memory)[2], kept)

IdleInv == /\ PointersIn(memory) = <<top, bottom>>
           /\ Sound(memory, top, bottom, kept)

CutInv == /\ ~on => pending = << >>
          /\ ~torn /\ ~on => OffInv
          /\ ~torn /\ on /\ pending = << >> => IdleInv
          /\ ~torn /\ on /\ pending # << >> => Running

LEMMA PointersAreIn == fram_pointers = PointersIn(memory)
  BY DEF fram_pointers, read_pointer, PointersIn, PointerIn

LEMMA PointersTyped ==
  ASSUME NEW m \in Memory
  PROVE  /\ PointersIn(m) = <<PointersIn(m)[1], PointersIn(m)[2]>>
         /\ PointersIn(m)[1] \in Pointer /\ PointersIn(m)[2] \in Pointer
<1>1. m[0] \in Byte /\ m[1] \in Byte /\ m[2] \in Byte /\ m[3] \in Byte
  BY Cells DEF Memory
<1>2. m[2] * Radix + m[3] \in Pointer /\ m[0] * Radix + m[1] \in Pointer
  BY <1>1, TwoBytes
<1> QED BY <1>2, PointerBytes

LEMMA RestFacts ==
  ASSUME NEW ws \in Writes, NEW i \in Nat, i < Len(ws)
  PROVE  /\ Rest(ws, i) # << >> /\ Rest(ws, i)[1] = ws[i + 1]
         /\ Len(Rest(ws, i)) = Len(ws) - i
         /\ i + 1 < Len(ws) => Tail(Rest(ws, i)) = Rest(ws, i + 1)
         /\ Tail(Rest(ws, i)) = << >> <=> i + 1 = Len(ws)
<1> DEFINE S == Address \X Byte
           n == Len(ws)
           q == Rest(ws, i)
<1>1. n \in Nat /\ i + 1 \in Int /\ \A j \in i + 1 .. n : ws[j] \in S
  <2>1. \A j \in i + 1 .. n : j \in 1 .. n
    BY DEF Writes
  <2> QED BY <2>1, ElementOfSeq DEF Writes
<1>2. /\ q \in Seq(S) /\ Len(q) = n - i
      /\ \A j \in 1 .. n - i : q[j] = ws[i + j]
  <2>1. /\ q \in Seq(S) /\ Len(q) = (IF i + 1 <= n THEN n - (i + 1) + 1 ELSE 0)
        /\ \A j \in 1 .. n - (i + 1) + 1 : q[j] = ws[i + 1 + j - 1]
    <3> HIDE DEF S, n
    <3> QED BY <1>1, SubSeqProperties DEF Rest, n
  <2>2. n - (i + 1) + 1 = n - i /\ \A j \in 1 .. n - i : i + 1 + j - 1 = i + j
    BY <1>1
  <2> HIDE DEF q, n, S
  <2>3. i + 1 <= n
    BY <1>1 DEF n
  <2> QED BY <1>1, <2>1, <2>2, <2>3
<1> HIDE DEF q
<1>3. q # << >> /\ q[1] = ws[i + 1]
  <2>1. 1 \in 1 .. n - i
    BY <1>1
  <2> QED BY <1>1, <1>2, <2>1, EmptySeq
<1>4. /\ Tail(q) \in Seq(S) /\ Len(Tail(q)) = n - i - 1
      /\ \A j \in 1 .. n - i - 1 : Tail(q)[j] = q[j + 1]
  <2> HIDE DEF S, n
  <2> QED BY <1>1, <1>2, <1>3, HeadTailProperties
<1>5. Tail(q) = << >> <=> i + 1 = n
  <2>1. Tail(q) = << >> <=> Len(Tail(q)) = 0
    BY <1>4, EmptySeq
  <2> QED BY <1>1, <1>4, <2>1
<1>6. ASSUME i + 1 < n PROVE Tail(q) = Rest(ws, i + 1)
  <2> DEFINE u == Rest(ws, i + 1)
  <2>1. i + 2 \in Int /\ \A j \in i + 2 .. n : ws[j] \in S
    BY <1>1
  <2>2. /\ u \in Seq(S) /\ Len(u) = (IF i + 2 <= n THEN n - (i + 2) + 1 ELSE 0)
        /\ \A j \in 1 .. n - (i + 2) + 1 : u[j] = ws[i + 2 + j - 1]
    <3>1. u = SubSeq(ws, i + 2, n)
      BY DEF Rest
    <3> HIDE DEF S, n, u
    <3> QED BY <1>1, <2>1, <3>1, SubSeqProperties
  <2>3. n - (i + 2) + 1 = n - i - 1 /\ i + 2 <= n
    BY <1>1, <1>6
  <2> HIDE DEF u
  <2>4. ASSUME NEW j \in 1 .. n - i - 1 PROVE Tail(q)[j] = u[j]
    <3>1. j + 1 \in 1 .. n - i /\ i + (j + 1) = i + 2 + j - 1
      BY <1>1
    <3> QED BY <1>2, <1>4, <2>2, <2>3, <3>1
  <2>5. Len(u) = n - i - 1
    BY <2>2, <2>3
  <2>6. Tail(q) = u
    <3> HIDE DEF S, n
    <3> QED BY <1>4, <2>2, <2>4, <2>5, SeqEqual
  <2> QED BY <2>6 DEF u
<1> QED BY <1>2, <1>3, <1>5, <1>6 DEF q

LEMMA RestOfAll == ASSUME NEW ws \in Writes PROVE Rest(ws, 0) = ws
<1> DEFINE n == Len(ws)
<1>1. n \in Nat /\ \A j \in 1 .. n : ws[j] \in Address \X Byte
  BY ElementOfSeq DEF Writes
<1>2. Rest(ws, 0) = SubSeq(ws, 1, n)
  BY DEF Rest
<1>3. /\ SubSeq(ws, 1, n) \in Writes
      /\ Len(SubSeq(ws, 1, n)) = (IF 1 <= n THEN n - 1 + 1 ELSE 0)
      /\ \A j \in 1 .. n - 1 + 1 : SubSeq(ws, 1, n)[j] = ws[1 + j - 1]
  <2> HIDE DEF n
  <2> QED BY <1>1, SubSeqProperties DEF Writes
<1> DEFINE u == SubSeq(ws, 1, n)
<1> HIDE DEF u
<1>4. u \in Writes /\ Len(u) = n /\ \A j \in 1 .. n : u[j] = ws[j]
  <2>1. n - 1 + 1 = n /\ \A j \in 1 .. n : 1 + j - 1 = j
    BY <1>1
  <2> QED BY <1>1, <1>3, <2>1 DEF u
<1>5. u = ws
  BY <1>4, SeqEqual DEF Writes
<1> QED BY <1>2, <1>5 DEF u

LEMMA InitCut == Init => CutInv
<1> SUFFICES ASSUME Init PROVE CutInv
  OBVIOUS
<1>1. on = FALSE /\ pending = << >> /\ kept = << >> /\ memory \in Memory
  BY InitPower DEF Init, PowerInv, Memory
<1>2. PICK p \in {<<limit_addr_bottom, limit_addr_bottom>>,
                  <<limit_addr_top, limit_addr_bottom + 1>>} :
         memory = [a \in Address |-> CASE a = 0 -> high_byte(p[1])
                                       [] a = 1 -> low_byte(p[1])
                                       [] a = 2 -> high_byte(p[2])
                                       [] a = 3 -> low_byte(p[2])
                                       [] OTHER -> 0]
  BY DEF Init
<1>3. p[1] \in Pointer /\ p[2] \in Pointer
  BY <1>2, Sizes DEF Pointer
<1>4. /\ memory[0] = high_byte(p[1]) /\ memory[1] = low_byte(p[1])
      /\ memory[2] = high_byte(p[2]) /\ memory[3] = low_byte(p[2])
  BY <1>2, Cells
<1>5. PointersIn(memory) = <<p[2], p[1]>>
  BY <1>3, <1>4, PointerBytes, PointerSplits
<1>6. OffInv
  <2>1. CASE p = <<limit_addr_bottom, limit_addr_bottom>>
    <3>1. PointersIn(memory) = <<4, 4>>
      BY <1>5, <2>1, Sizes
    <3>2. Sound(memory, 4, 4, << >>)
      BY <1>1, EmptyRing
    <3> QED BY <1>1, <3>1, <3>2 DEF OffInv
  <2>2. CASE p = <<limit_addr_top, limit_addr_bottom + 1>>
    <3>1. PointersIn(memory)[1] = 5
      BY <1>5, <2>2, Sizes
    <3>2. (5 - 4) % 4 # 0
      OBVIOUS
    <3>3. ~check_state(PointersIn(memory))
      BY <3>1, <3>2, Sizes DEF check_state
    <3> QED BY <3>3 DEF OffInv
  <2> QED BY <1>2, <2>1, <2>2
<1> QED BY <1>1, <1>6 DEF CutInv

\* An operation starts with all its writes before it.
LEMMA CutStarts ==
  ASSUME PowerInv, CutInv, on, ~torn,
         NEW ws \in Writes, Len(ws) > 0, Distinct(ws),
         NEW t \in Int, NEW b \in Int, NEW r,
         Start(ws, t, b, r), Survives(memory, ws, top, bottom, kept, t, b, r)
  PROVE  CutInv'
<1>1. /\ pending' = ws /\ top' = t /\ bottom' = b /\ before' = <<top, bottom>>
      /\ target' = r /\ kept' = kept /\ memory' = memory /\ on' = on /\ torn' = torn
  BY DEF Start
<1>2. memory \in Memory /\ top \in Int /\ bottom \in Int
  BY DEF PowerInv, PointerOK, Pointer, Memory
<1>3. Partly(memory, ws, 0, memory)
  <2>1. 1 .. 0 = {}
    OBVIOUS
  <2> QED BY <2>1 DEF Partly
<1>4. pending' = Rest(ws, 0) /\ 0 \in Nat /\ 0 < Len(ws)
  BY <1>1, RestOfAll
<1>5. Running'
  BY <1>1, <1>2, <1>3, <1>4 DEF Running
<1>6. pending' # << >>
  BY <1>4, RestFacts
<1> QED BY <1>1, <1>5, <1>6 DEF CutInv

\* A torn store stays torn, whatever is written.
LEMMA CutTorn ==
  ASSUME CutInv, torn', on' \/ pending' = << >>
  PROVE  CutInv'
  BY DEF CutInv

LEMMA FullRing ==
  ASSUME top \in Slot, bottom \in Slot, InRing(top, bottom), ~memory_full
  PROVE  after(top) # bottom /\ InRing(after(top), bottom)
<1>1. /\ bottom \in Nat /\ bottom >= 4 /\ bottom <= limit_addr_top
      /\ top \in Nat /\ top >= 4 /\ top <= limit_addr_top
      /\ limit_addr_top \in Nat /\ limit_addr_top >= 12
  BY Cells, Sizes
<1>2. (bottom - 4) % PointerRange = bottom - 4
  <2>1. bottom - 4 \in 0 .. PointerRange - 1 /\ PointerRange \in Nat
    BY <1>1, Sizes
  <2> QED BY <2>1, SmallMod
<1>3. top # bottom - 4 /\ ~(bottom = 4 /\ top = limit_addr_top - 4)
  BY <1>2, Sizes DEF memory_full
<1>4. ~(bottom = 4 /\ top = limit_addr_top)
  BY DEF InRing
<1>5. CASE top = limit_addr_top
  <2>1. after(top) = 4 /\ after(top) \in Slot
    BY <1>5, AfterSlot
  <2> QED BY <1>1, <1>4, <1>5, <2>1 DEF InRing
<1>6. CASE top # limit_addr_top
  <2>1. after(top) = top + 4 /\ after(top) \in Slot
    BY <1>6, AfterSlot
  <2> QED BY <1>1, <1>3, <2>1 DEF InRing
<1> QED BY <1>5, <1>6

LEMMA WriteCut ==
  ASSUME PowerInv, CutInv, NEW x \in Telemetry, write_telemetry(x)
  PROVE  CutInv'
<1>1. CASE memory_full
  BY <1>1 DEF write_telemetry, vars, CutInv, OffInv, IdleInv, Running
<1>2. CASE ~memory_full
  <2>1. on /\ pending = << >> /\ Start(record_writes(x), after(top), bottom, Append(kept, x))
    BY <1>2 DEF write_telemetry, Idle
  <2>2. CASE torn
    BY <2>1, <2>2, CutTorn DEF Start
  <2>3. CASE ~torn
    <3>1. PointersIn(memory) = <<top, bottom>> /\ Sound(memory, top, bottom, kept)
      BY <2>1, <2>3 DEF CutInv, IdleInv
    <3>2. InRing(top, bottom) /\ top \in Slot /\ bottom \in Slot
      BY <3>1 DEF Sound, InRing
    <3>3. after(top) # bottom /\ InRing(after(top), bottom)
      BY <1>2, <3>2, FullRing
    <3>4. memory \in Memory /\ RecordsIn(memory, top, bottom) = kept
      BY <3>1 DEF PowerInv, Memory, Sound
    <3> DEFINE ws == telemetry_writes(top, x) \o set_top(after(top))
    <3>5. Distinct(ws) /\ Survives(memory, ws, top, bottom, kept, after(top), bottom, Append(kept, x))
      BY <3>1, <3>2, <3>3, <3>4, WriteSurvives
    <3>6. after(top) \in Slot /\ after(top) \in Int /\ bottom \in Int
      BY <3>2, AfterSlot, SlotIsPointer DEF Pointer
    <3>7. ws \in Writes /\ Len(ws) = 6
      BY <3>2, <3>6, RecordWritesAre
    <3>8. record_writes(x) = ws
      BY DEF record_writes
    <3> DEFINE t == after(top)
               r == Append(kept, x)
    <3>9. Start(ws, t, bottom, r) /\ on /\ Len(ws) > 0 /\ t \in Int
      BY <2>1, <3>6, <3>7, <3>8
    <3>10. Distinct(ws) /\ Survives(memory, ws, top, bottom, kept, t, bottom, r)
      BY <3>5
    <3> HIDE DEF ws, t, r
    <3> QED BY <2>3, <3>6, <3>7, <3>9, <3>10, CutStarts
  <2> QED BY <2>2, <2>3
<1> QED BY <1>1, <1>2

LEMMA DeleteCut ==
  ASSUME PowerInv, CutInv, delete_last_read_telemetry
  PROVE  CutInv'
<1>1. /\ on /\ pending = << >> /\ bottom # top
      /\ Start(set_bottom(after(bottom)), top, after(bottom), SubSeq(kept, 2, Len(kept)))
  BY DEF delete_last_read_telemetry, Idle
<1>2. CASE torn
  BY <1>1, <1>2, CutTorn DEF Start
<1>3. CASE ~torn
  <2>1. PointersIn(memory) = <<top, bottom>> /\ Sound(memory, top, bottom, kept)
    BY <1>1, <1>3 DEF CutInv, IdleInv
  <2>2. InRing(top, bottom) /\ top \in Slot /\ bottom \in Slot
    BY <2>1 DEF Sound, InRing
  <2>3. memory \in Memory /\ RecordsIn(memory, top, bottom) = kept
    BY <2>1 DEF PowerInv, Memory, Sound
  <2>4. after(bottom) \in Slot /\ after(bottom) \in Int /\ top \in Int
    BY <2>2, AfterSlot, SlotIsPointer DEF Pointer
  <2>5. InRing(top, after(bottom))
    <3>1. after(bottom) = 4 => bottom = limit_addr_top
      BY <2>2, AfterSlot, Cells
    <3> QED BY <1>1, <2>2, <2>4, <3>1 DEF InRing
  <2>6. SubSeq(kept, 2, Len(kept)) = Tail(kept)
    <3>1. kept \in Seq(Nat) /\ kept # << >>
      BY <1>1, <2>2, <2>3, RecordsFacts, RecordRemoved
    <3>2. Len(kept) \in Nat /\ Len(kept) # 0
      BY <3>1, EmptySeq, LenProperties
    <3>3. /\ SubSeq(kept, 2, Len(kept)) \in Seq(Nat)
          /\ Len(SubSeq(kept, 2, Len(kept))) = Len(kept) - 1
          /\ \A i \in 1 .. Len(kept) - 1 : SubSeq(kept, 2, Len(kept))[i] = kept[i + 1]
      <4> DEFINE n == Len(kept)
                 u == SubSeq(kept, 2, n)
      <4>1. n \in Int /\ n >= 1 /\ 2 \in Int /\ \A i \in 2 .. n : kept[i] \in Nat
        <5>1. \A i \in 2 .. n : i \in 1 .. n
          BY <3>2
        <5> QED BY <3>1, <3>2, <5>1, ElementOfSeq
      <4> HIDE DEF n
      <4>2. /\ u \in Seq(Nat) /\ Len(u) = (IF 2 <= n THEN n - 2 + 1 ELSE 0)
            /\ \A i \in 1 .. n - 2 + 1 : u[i] = kept[2 + i - 1]
        BY <4>1, SubSeqProperties
      <4> HIDE DEF u
      <4>3. n - 2 + 1 = n - 1 /\ \A i \in 1 .. n - 1 : 2 + i - 1 = i + 1
        BY <4>1
      <4>4. /\ u \in Seq(Nat) /\ Len(u) = n - 1
            /\ \A i \in 1 .. n - 1 : u[i] = kept[i + 1]
        BY <4>1, <4>2, <4>3
      <4> QED BY <4>4 DEF u, n
    <3>4. /\ Tail(kept) \in Seq(Nat) /\ Len(Tail(kept)) = Len(kept) - 1
          /\ \A i \in 1 .. Len(kept) - 1 : Tail(kept)[i] = kept[i + 1]
      BY <3>1, <3>2, HeadTailProperties
    <3> QED BY <3>3, <3>4, SeqEqual
  <2> DEFINE ws == set_bottom(after(bottom))
  <2>7. Distinct(ws) /\ Survives(memory, ws, top, bottom, kept, top, after(bottom), Tail(kept))
    BY <1>1, <2>1, <2>2, <2>3, <2>5, DeleteSurvives
  <2>8. ws \in Writes /\ Len(ws) = 2
    <3>1. 0 \in Address /\ 0 + 1 \in Address
      BY Cells
    <3> QED BY <2>4, <3>1, PointerWritesAre DEF set_bottom
  <2> DEFINE b == after(bottom)
             r == Tail(kept)
  <2>9. Start(ws, top, b, r) /\ on /\ Len(ws) > 0 /\ b \in Int
    <3>1. Len(ws) > 0
      BY <2>8
    <3> QED BY <1>1, <2>4, <2>6, <3>1, Zenon
  <2>10. Distinct(ws) /\ Survives(memory, ws, top, bottom, kept, top, b, r) /\ ws \in Writes
    BY <2>7, <2>8
  <2> HIDE DEF ws, b, r
  <2> QED BY <1>3, <2>4, <2>9, <2>10, CutStarts
<1> QED BY <1>2, <1>3

LEMMA ResetCut ==
  ASSUME PowerInv, CutInv, fram_reset
  PROVE  CutInv'
<1>1. on /\ pending = << >> /\ Start(reset_writes, 4, 4, << >>)
  BY Sizes DEF fram_reset, Idle
<1>2. CASE torn
  BY <1>1, <1>2, CutTorn DEF Start
<1>3. CASE ~torn
  <2>1. Sound(memory, top, bottom, kept)
    BY <1>1, <1>3 DEF CutInv, IdleInv
  <2>2. memory \in Memory /\ PointersIn(memory) = <<top, bottom>>
    BY <1>1, <1>3 DEF CutInv, IdleInv, PowerInv, Memory
  <2>3. reset_writes = set_top(4) \o set_bottom(4)
    BY Sizes DEF reset_writes
  <2>4. /\ Distinct(reset_writes) /\ Len(reset_writes) = 4 /\ reset_writes \in Writes
        /\ Survives(memory, reset_writes, top, bottom, kept, 4, 4, << >>)
    BY <2>1, <2>2, <2>3, ResetSurvives
  <2>5. Len(reset_writes) > 0
    BY <2>4
  <2> QED BY <1>1, <1>3, <2>4, <2>5, CutStarts
<1> QED BY <1>2, <1>3

LEMMA ByteWriteCut ==
  ASSUME PowerInv, CutInv, fram_write_byte
  PROVE  CutInv'
<1>1. /\ pending # << >> /\ pending' = Tail(pending)
      /\ memory' = [memory EXCEPT ![pending[1][1]] = pending[1][2]]
      /\ UNCHANGED <<top, bottom, on, target, torn>>
  BY DEF fram_write_byte
<1>2. on
  BY <1>1 DEF CutInv, PowerInv
<1>3. CASE torn
  BY <1>1, <1>2, <1>3, CutTorn
<1>4. CASE ~torn
  <2>1. PICK m \in Memory, ws \in Writes, i \in Nat, t \in Int, b \in Int :
          /\ i < Len(ws) /\ pending = Rest(ws, i)
          /\ Distinct(ws) /\ Partly(m, ws, i, memory)
          /\ before = <<t, b>>
          /\ Survives(m, ws, t, b, kept, top, bottom, target)
    BY <1>1, <1>2, <1>4 DEF CutInv, Running
  <2>2. /\ pending[1] = ws[i + 1] /\ Len(pending) = Len(ws) - i
        /\ i + 1 < Len(ws) => pending' = Rest(ws, i + 1)
        /\ pending' = << >> <=> i + 1 = Len(ws)
    BY <1>1, <2>1, RestFacts
  <2>3. memory \in Memory /\ Len(ws) \in Nat
    BY DEF PowerInv, Memory, Writes
  <2>4. memory' \in Memory /\ Partly(m, ws, i + 1, memory')
    BY <1>1, <2>1, <2>2, <2>3, PartlyNext
  <2>5. CASE i + 1 = Len(ws)
    <3>1. Len(pending) = 1 /\ kept' = target
      <4>1. Len(pending) = 1
        BY <2>1, <2>2, <2>3, <2>5
      <4> QED BY <4>1 DEF fram_write_byte
    <3>2. Len(ws) \in 0 .. Len(ws)
      BY <2>3
    <3>3. /\ PointersIn(memory') = <<top, bottom>>
          /\ Sound(memory', top, bottom, target)
      BY <2>1, <2>4, <2>5, <3>2 DEF Survives
    <3>4. IdleInv'
      BY <1>1, <3>1, <3>3 DEF IdleInv, Sound
    <3> QED BY <1>1, <1>2, <2>2, <2>5, <3>4 DEF CutInv
  <2>6. CASE i + 1 # Len(ws)
    <3>1. i + 1 < Len(ws) /\ i + 1 \in Nat
      BY <2>1, <2>3, <2>6
    <3>2. Len(pending) # 1
      BY <2>2, <2>3, <3>1
    <3>3. before' = before /\ kept' = kept
      BY <3>2 DEF fram_write_byte
    <3>4. Running'
      BY <1>1, <2>1, <2>2, <2>4, <3>1, <3>3 DEF Running
    <3> QED BY <1>1, <1>2, <2>2, <2>6, <3>4 DEF CutInv
  <2> QED BY <2>5, <2>6
<1> QED BY <1>3, <1>4

LEMMA PowerLossCut ==
  ASSUME PowerInv, CutInv, PowerLoss
  PROVE  CutInv'
<1> DEFINE done == pending # << >> /\ fram_pointers = <<top, bottom>>
<1>1. /\ on /\ on' = FALSE /\ pending' = << >> /\ memory' = memory
      /\ kept' = IF done THEN target ELSE kept
      /\ torn' = (torn \/ (pending # << >> /\ ~done /\ fram_pointers # before))
  BY DEF PowerLoss
<1>2. memory \in Memory
  BY DEF PowerInv, Memory
<1> DEFINE p == PointersIn(memory)
<1>3. fram_pointers = p /\ p = <<p[1], p[2]>>
  BY <1>2, PointersAreIn, PointersTyped
<1> HIDE DEF p
<1>4. CASE torn'
  BY <1>1, <1>4, CutTorn
<1>5. CASE ~torn'
  <2>1. ~torn
    BY <1>1, <1>5
  <2>2. check_state(p) => Sound(memory, p[1], p[2], kept')
    <3>1. CASE pending = << >>
      BY <1>1, <1>3, <2>1, <3>1 DEF CutInv, IdleInv, p
    <3>2. CASE pending # << >>
      <4>1. PICK m \in Memory, ws \in Writes, i \in Nat, t \in Int, b \in Int :
              /\ i < Len(ws) /\ pending = Rest(ws, i)
              /\ Distinct(ws) /\ Partly(m, ws, i, memory)
              /\ before = <<t, b>>
              /\ Survives(m, ws, t, b, kept, top, bottom, target)
        BY <1>1, <2>1, <3>2 DEF CutInv, Running
      <4>2. i \in 0 .. Len(ws)
        BY <4>1 DEF Writes
      <4>3. /\ p = <<t, b>> /\ check_state(<<t, b>>) => Sound(memory, t, b, kept)
            /\ p = <<top, bottom>> => Sound(memory, top, bottom, target)
        BY <1>2, <4>1, <4>2 DEF Survives, p
      <4>4. CASE done
        BY <1>1, <1>3, <4>3, <4>4
      <4>5. CASE ~done
        <5>1. p = <<t, b>> /\ kept' = kept
          BY <1>1, <1>3, <1>5, <3>2, <4>1, <4>5
        <5>2. p[1] = t /\ p[2] = b
          BY <5>1
        <5> QED BY <4>3, <5>1, <5>2
      <4> QED BY <4>4, <4>5
    <3> QED BY <3>1, <3>2
  <2>3. OffInv'
    BY <1>1, <2>2 DEF OffInv, Sound, p
  <2> QED BY <1>1, <2>3 DEF CutInv
<1> QED BY <1>4, <1>5

LEMMA SetupCut ==
  ASSUME PowerInv, CutInv, fram_internal_setup
  PROVE  CutInv'
<1>1. ~on /\ on' = TRUE /\ memory' = memory /\ pending = << >>
  BY DEF fram_internal_setup, CutInv
<1>2. memory \in Memory
  BY DEF PowerInv, Memory
<1> DEFINE p == PointersIn(memory)
<1>3. fram_pointers = p /\ p = <<p[1], p[2]>> /\ p[1] \in Int /\ p[2] \in Int
  BY <1>2, PointersAreIn, PointersTyped DEF Pointer
<1> HIDE DEF p
<1>4. CASE check_state(fram_pointers)
  <2>1. top' = p[1] /\ bottom' = p[2] /\ UNCHANGED <<pending, kept, torn>>
    BY <1>3, <1>4 DEF fram_internal_setup
  <2>2. CASE torn
    BY <1>1, <2>1, <2>2, CutTorn
  <2>3. CASE ~torn
    <3>1. Sound(memory, p[1], p[2], kept)
      BY <1>1, <1>3, <1>4, <2>3 DEF CutInv, OffInv, p
    <3>2. IdleInv'
      BY <1>1, <1>3, <2>1, <3>1 DEF IdleInv, Sound, p
    <3> QED BY <1>1, <2>1, <3>2 DEF CutInv
  <2> QED BY <2>2, <2>3
<1>5. CASE ~check_state(fram_pointers)
  <2> DEFINE ws == set_top(4) \o set_bottom(4)
  <2>1. /\ pending' = ws /\ top' = 4 /\ bottom' = 4 /\ before' = p
        /\ kept' = << >> /\ target' = << >> /\ torn' = FALSE
    BY <1>3, <1>5, Sizes DEF fram_internal_setup, reset_writes
  <2>2. /\ Distinct(ws) /\ Len(ws) = 4 /\ ws \in Writes
        /\ Survives(memory, ws, p[1], p[2], << >>, 4, 4, << >>)
    BY <1>2, <1>3, <1>5, ResetSurvives
  <2> HIDE DEF ws
  <2>3. Partly(memory, ws, 0, memory)
    <3>1. 1 .. 0 = {}
      OBVIOUS
    <3> QED BY <3>1 DEF Partly
  <2>4. pending' = Rest(ws, 0) /\ 0 \in Nat /\ 0 < Len(ws)
    BY <2>1, <2>2, RestOfAll
  <2>5. Running'
    BY <1>1, <1>2, <1>3, <2>1, <2>2, <2>3, <2>4 DEF Running
  <2>6. pending' # << >>
    BY <2>2, <2>4, RestFacts
  <2> QED BY <1>1, <2>5, <2>6 DEF CutInv
<1> QED BY <1>4, <1>5

LEMMA NextCut == PowerInv /\ CutInv /\ [Next]_vars => CutInv'
<1> SUFFICES ASSUME PowerInv, CutInv, [Next]_vars PROVE CutInv'
  OBVIOUS
<1>1. CASE UNCHANGED vars
  BY <1>1 DEF vars, CutInv, OffInv, IdleInv, Running
<1> QED BY <1>1, WriteCut, DeleteCut, ResetCut, ByteWriteCut, PowerLossCut, SetupCut DEF Next

(***************************************************************************)
(* A power cut between any two bytes undoes the running operation or       *)
(* lets it stand, as long as the FRAM has pointers that were set together  *)
(* (fram.c:148-237, 272-316, 391-422): no record is lost, changed or       *)
(* given twice, in a ring of any size and after any number of cuts.        *)
(***************************************************************************)
THEOREM CutIsAtomic == Spec => []CutIsAtomicUnlessTorn
<1>1. PowerInv /\ CutInv => CutIsAtomicUnlessTorn
  <2> SUFFICES ASSUME PowerInv, CutInv, Idle, ~torn PROVE Records = kept
    BY DEF CutIsAtomicUnlessTorn
  <2>1. RecordsIn(memory, top, bottom) = kept
    BY DEF CutInv, IdleInv, Sound, Idle
  <2>2. Records = RecordsIn(memory, top, bottom)
    BY DEF Records, RecordsIn, read_telemetry, read_pointer, RecordIn, PointerIn
  <2> QED BY <2>1, <2>2
<1> QED BY <1>1, InitPower, NextPower, InitCut, NextCut, PTL DEF Spec
===============================================================================
