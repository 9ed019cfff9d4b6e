---------------------------- MODULE FramRing_proofs ----------------------------
(***************************************************************************)
(* Proofs about FramRing, for every ring size and every set of values.     *)
(* RingOK is the inductive invariant: its three parts need each other      *)
(* (a write keeps top apart from bottom only if RingInv held before, a     *)
(* restart keeps the types only if the copies agree).                      *)
(***************************************************************************)
EXTENDS FramRing, SequenceTheorems, TLAPS

USE LimitAssumption, TelemetryAssumption

\* Between operations a restart reads back the pointers that were in RAM.
PointersAgree == fram_top = top /\ fram_bottom = bottom

RingOK == TypeOK /\ RingInv /\ PointersAgree

\* The slots are 8, 16, ..., limit_addr_top and `after' walks around them.
LEMMA SlotFacts == /\ Slot \subseteq Nat
                   /\ limit_addr_bottom \in Slot
                   /\ limit_addr_top \in Slot
                   /\ \A a \in Slot : /\ a >= 8
                                      /\ a <= limit_addr_top
                                      /\ a % 8 = 0
  BY DEF Slot, limit_addr_bottom, telemetry_bytes

LEMMA AfterSlot == \A a \in Slot :
                     /\ after(a) \in Slot
                     /\ a # limit_addr_top => after(a) = a + 8
                     /\ a = limit_addr_top => after(a) = 8
  BY DEF Slot, after, limit_addr_bottom, telemetry_bytes

LEMMA InitRingOK == Init => RingOK
  BY SlotFacts DEF Init, RingOK, TypeOK, RingInv, PointersAgree,
                   limit_addr_bottom

(***************************************************************************)
(* A write that is not refused leaves top apart from bottom: the check at  *)
(* the head of write_telemetry is enough, given RingInv.                   *)
(***************************************************************************)
LEMMA TopStaysApart ==
  ASSUME TypeOK, RingInv, ~memory_full
  PROVE  after(top) # bottom
<1>1. CASE top = limit_addr_top
  BY <1>1, AfterSlot, SlotFacts DEF TypeOK, RingInv, limit_addr_bottom
<1>2. CASE top # limit_addr_top
  BY <1>2, AfterSlot, SlotFacts DEF TypeOK, memory_full, telemetry_bytes
<1> QED BY <1>1, <1>2

\* What the caller sees of the ring is a natural number.
LEMMA ReturnedNat ==
  ASSUME TypeOK
  PROVE  telemetry_read \in Nat /\ messages_num \in Nat
<1>1. telemetry_read \in Nat
  BY DEF TypeOK, telemetry_read
<1>2. top - bottom \in Int /\ (top >= bottom => top - bottom \in Nat)
  BY SlotFacts DEF TypeOK
<1>3. (limit_addr_top - bottom) + (top - 8) \in Nat
  BY SlotFacts DEF TypeOK
<1>4. messages_num \in Nat
  BY <1>2, <1>3, SlotFacts DEF TypeOK, messages_num, limit_addr_bottom, telemetry_bytes
<1> QED BY <1>1, <1>4

LEMMA NextRingOK == RingOK /\ [Next]_vars => RingOK'
<1> SUFFICES ASSUME RingOK, [Next]_vars
             PROVE  RingOK'
  OBVIOUS
<1> USE DEF RingOK
<1>1. ASSUME NEW t \in Telemetry, write_telemetry(t)
      PROVE  RingOK'
  <2>1. CASE memory_full
    BY <1>1, <2>1 DEF write_telemetry, TypeOK, RingInv, PointersAgree,
                      pointers, Returned
  <2>2. CASE ~memory_full
    <3>1. /\ memory' \in [Slot -> Telemetry]
          /\ top' = after(top) /\ fram_top' = after(top)
          /\ bottom' = bottom /\ fram_bottom' = fram_bottom
          /\ ret' = [op |-> "write", arg |-> t, val |-> 1]
      BY <1>1, <2>2 DEF write_telemetry, TypeOK, set_top, Returned
    <3>2. TypeOK'
      BY <3>1, AfterSlot DEF TypeOK
    <3>3. RingInv'
      BY <3>1, <2>2, AfterSlot, SlotFacts
         DEF RingInv, TypeOK, memory_full, limit_addr_bottom
    <3> QED BY <3>1, <3>2, <3>3 DEF PointersAgree
  <2> QED BY <2>1, <2>2
<1>2. ASSUME NEW d \in Telemetry, delete_last_read_telemetry(d)
      PROVE  RingOK'
  <2>1. CASE ~may_delete(d)
    BY <1>2, <2>1 DEF delete_last_read_telemetry, TypeOK, RingInv,
                      PointersAgree, pointers, Returned
  <2>2. CASE may_delete(d)
    <3>1. /\ memory' = memory
          /\ top' = top /\ fram_top' = fram_top
          /\ bottom' = after(bottom) /\ fram_bottom' = after(bottom)
          /\ ret' = [op |-> "delete", arg |-> d, val |-> 1]
          /\ bottom # top
      BY <1>2, <2>2 DEF delete_last_read_telemetry, may_delete, set_bottom, Returned
    <3>2. TypeOK'
      BY <3>1, AfterSlot DEF TypeOK
    <3>3. RingInv'
      BY <3>1, AfterSlot, SlotFacts DEF RingInv, TypeOK, limit_addr_bottom
    <3> QED BY <3>1, <3>2, <3>3 DEF PointersAgree
  <2> QED BY <2>1, <2>2
<1>3. CASE read_telemetry
  BY <1>3, ReturnedNat DEF read_telemetry, TypeOK, RingInv, PointersAgree,
                           pointers, Returned
<1>4. CASE get_stored_messages_count
  BY <1>4, ReturnedNat DEF get_stored_messages_count, TypeOK, RingInv,
                           PointersAgree, pointers, Returned
<1>5. ASSUME fram_reset PROVE RingOK'
  BY <1>5, SlotFacts DEF fram_reset, set_top, set_bottom, TypeOK, RingInv,
                         PointersAgree, Returned, limit_addr_bottom
<1>6. CASE fram_internal_setup
  BY <1>6, <1>5 DEF fram_internal_setup, TypeOK, RingInv, PointersAgree
<1>7. CASE UNCHANGED vars
  BY <1>7 DEF vars, pointers, TypeOK, RingInv, PointersAgree
<1> QED BY <1>1, <1>2, <1>3, <1>4, <1>5, <1>6, <1>7 DEF Next

LEMMA RingOKAlways == Spec => []RingOK
  BY InitRingOK, NextRingOK, PTL DEF Spec

(***************************************************************************)
(* Type correctness of the ring (fram.c): the pointers stay on slots.      *)
(***************************************************************************)
THEOREM TypeCorrect == Spec => []TypeOK
  BY RingOKAlways, PTL DEF RingOK

(***************************************************************************)
(* The position in which a write would make a full ring look empty is      *)
(* never reached (fram.c, write_telemetry).                                *)
(***************************************************************************)
THEOREM NeverAtLastSlotUnwrapped == Spec => []RingInv
  BY RingOKAlways, PTL DEF RingOK
-------------------------------------------------------------------------------
(***************************************************************************)
(* The ring implements the FIFO.  The records are those between bottom and *)
(* top, so a step of the ring is explained by what it does to Span and to  *)
(* SlotFrom: a write adds the slot at top, a delete shifts every slot.     *)
(***************************************************************************)
Capacity == limit_addr_top \div 8 - 1

\* The records never reach over the whole ring.
LEMMA SpanFacts ==
  ASSUME NEW b \in Slot, NEW t \in Slot
  PROVE  /\ Span(b, t) \in Nat
         /\ 8 * Span(b, t) = IF t >= b THEN t - b ELSE limit_addr_top - b + t
         /\ Span(b, t) <= Capacity
         /\ Span(b, t) = 0 <=> b = t
  BY SlotFacts DEF Span, Capacity

LEMMA SlotFromFacts ==
  ASSUME NEW b \in Slot, NEW t \in Slot
  PROVE  /\ \A i \in 1 .. Span(b, t) : SlotFrom(b, i) \in Slot /\ SlotFrom(b, i) # t
         /\ SlotFrom(b, 1) = b
         /\ SlotFrom(b, Span(b, t) + 1) = t
<1>1. ASSUME NEW i \in 1 .. Span(b, t)
      PROVE  SlotFrom(b, i) \in Slot /\ SlotFrom(b, i) # t
  <2> DEFINE a == b + 8 * (i - 1)
  <2>1. /\ Span(b, t) \in Nat
        /\ 8 * Span(b, t) = IF t >= b THEN t - b ELSE limit_addr_top - b + t
    BY SpanFacts
  <2>2. /\ b \in Nat /\ b >= 8 /\ b <= limit_addr_top /\ b % 8 = 0
        /\ t \in Nat /\ t >= 8 /\ t <= limit_addr_top /\ t % 8 = 0
    BY SlotFacts
  <2>3. a \in Nat /\ a % 8 = 0 /\ a >= b
    BY <1>1, <2>1, <2>2
  <2>4. a <= b + 8 * Span(b, t) - 8
    BY <1>1, <2>1, <2>2
  <2> HIDE DEF a
  <2>5. CASE a > limit_addr_top
    <3>1. /\ a - limit_addr_top \in Nat
          /\ a - limit_addr_top >= 8
          /\ a - limit_addr_top < t
          /\ (a - limit_addr_top) % 8 = 0
      BY <2>1, <2>2, <2>3, <2>4, <2>5
    <3>2. SlotFrom(b, i) = a - limit_addr_top
      BY <2>5 DEF SlotFrom, a
    <3> QED BY <2>2, <3>1, <3>2 DEF Slot, limit_addr_bottom, telemetry_bytes
  <2>6. CASE ~(a > limit_addr_top)
    <3>1. SlotFrom(b, i) = a
      BY <2>6 DEF SlotFrom, a
    <3>2. a # t
      BY <2>1, <2>2, <2>3, <2>4
    <3> QED BY <2>2, <2>3, <2>6, <3>1, <3>2
            DEF Slot, limit_addr_bottom, telemetry_bytes
  <2> QED BY <2>5, <2>6
<1>2. SlotFrom(b, 1) = b
  BY SlotFacts DEF SlotFrom
<1>3. SlotFrom(b, Span(b, t) + 1) = t
  BY SpanFacts, SlotFacts DEF SlotFrom
<1> QED BY <1>1, <1>2, <1>3

\* r is what the slots of m from b to t hold.
Holds(r, m, b, t) == /\ r \in Seq(Telemetry)
                     /\ Len(r) = Span(b, t)
                     /\ \A i \in 1 .. Span(b, t) : r[i] = m[SlotFrom(b, i)]

LEMMA RecordsFacts ==
  ASSUME NEW b \in Slot, NEW t \in Slot, NEW m \in [Slot -> Telemetry]
  PROVE  LET r == RecordsIn(m, b, t)
         IN  /\ r \in Seq(Telemetry)
             /\ Len(r) = Span(b, t)
             /\ \A i \in 1 .. Span(b, t) : r[i] = m[SlotFrom(b, i)]
             /\ r = <<>> <=> b = t
             /\ r # <<>> => Head(r) = m[b]
<1> DEFINE r == RecordsIn(m, b, t)
<1>1. r \in [1 .. Span(b, t) -> Telemetry]
  BY SlotFromFacts DEF RecordsIn
<1>2. r \in Seq(Telemetry)
  <2> DEFINE n == Span(b, t)
  <2>1. n \in Nat
    BY SpanFacts
  <2>2. r \in [1 .. n -> Telemetry]
    BY <1>1
  <2> HIDE DEF n, r
  <2> QED BY <2>1, <2>2, SeqDef
<1>3. Len(r) = Span(b, t)
  BY <1>1, <1>2, SpanFacts, LenProperties
<1>4. \A i \in 1 .. Span(b, t) : r[i] = m[SlotFrom(b, i)]
  BY DEF RecordsIn
<1>5. r = <<>> <=> Span(b, t) = 0
  BY <1>2, <1>3, EmptySeq
<1>6. ASSUME r # <<>> PROVE Head(r) = m[b]
  <2>1. 1 \in 1 .. Span(b, t)
    BY <1>5, <1>6, SpanFacts
  <2>2. Head(r) = r[1]
    BY <1>2, <1>6
  <2> QED BY <2>1, <2>2, <1>4, SlotFromFacts
<1> QED BY <1>2, <1>3, <1>4, <1>5, <1>6, SpanFacts

LEMMA RecordsHeld ==
  ASSUME NEW b \in Slot, NEW t \in Slot, NEW m \in [Slot -> Telemetry]
  PROVE  Holds(RecordsIn(m, b, t), m, b, t)
BY RecordsFacts, Zenon DEF Holds

\* A write that is not refused adds one record at the end.
LEMMA SpanGrows ==
  ASSUME NEW b \in Slot, NEW t \in Slot, after(t) # b
  PROVE  Span(b, after(t)) = Span(b, t) + 1
<1>1. after(t) \in Slot
  BY AfterSlot
<1>2. /\ Span(b, t) \in Nat
      /\ 8 * Span(b, t) = IF t >= b THEN t - b ELSE limit_addr_top - b + t
  BY SpanFacts
<1>3. /\ Span(b, after(t)) \in Nat
      /\ 8 * Span(b, after(t)) = IF after(t) >= b THEN after(t) - b
                                 ELSE limit_addr_top - b + after(t)
  BY <1>1, SpanFacts
<1>4. CASE t = limit_addr_top
  BY <1>2, <1>3, <1>4, AfterSlot, SlotFacts
<1>5. CASE t # limit_addr_top
  <2>1. after(t) = t + 8
    BY <1>5, AfterSlot
  <2>2. t + 8 > b <=> t >= b
    BY <2>1, <1>1, SlotFacts
  <2> QED BY <1>2, <1>3, <2>1, <2>2, SlotFacts
<1> QED BY <1>4, <1>5

\* A delete removes the first record and moves the others one place up.
LEMMA SpanShrinks ==
  ASSUME NEW b \in Slot, NEW t \in Slot, b # t
  PROVE  /\ Span(after(b), t) = Span(b, t) - 1
         /\ \A i \in 1 .. Span(b, t) - 1 :
               SlotFrom(after(b), i) = SlotFrom(b, i + 1)
<1>1. after(b) \in Slot
  BY AfterSlot
<1>2. /\ Span(b, t) \in Nat
      /\ 8 * Span(b, t) = IF t >= b THEN t - b ELSE limit_addr_top - b + t
  BY SpanFacts
<1>3. /\ Span(after(b), t) \in Nat
      /\ 8 * Span(after(b), t) = IF t >= after(b) THEN t - after(b)
                                 ELSE limit_addr_top - after(b) + t
  BY <1>1, SpanFacts
<1>4. CASE b = limit_addr_top
  <2>1. after(b) = 8
    BY <1>4, AfterSlot
  <2> QED BY <1>2, <1>3, <1>4, <2>1, SlotFacts DEF SlotFrom
<1>5. CASE b # limit_addr_top
  <2>1. after(b) = b + 8
    BY <1>5, AfterSlot
  <2>2. t >= b <=> t >= b + 8
    BY SlotFacts
  <2> QED BY <1>2, <1>3, <2>1, <2>2, SlotFacts DEF SlotFrom
<1> QED BY <1>4, <1>5

LEMMA InitRefines == Init => Fifo!Init
<1> SUFFICES ASSUME Init PROVE Fifo!Init
  OBVIOUS
<1>1. Records = <<>>
  BY InitRingOK, RecordsFacts DEF RingOK, TypeOK, Records, Init
<1> QED BY <1>1 DEF Init, Fifo!Init

LEMMA WriteRefines ==
  ASSUME RingOK, NEW x \in Telemetry, write_telemetry(x)
  PROVE  Fifo!Write(x)
<1> DEFINE q == Records
<1>1. /\ top \in Slot /\ bottom \in Slot
      /\ memory \in [Slot -> Telemetry]
  BY DEF RingOK, TypeOK
<1>2. /\ q \in Seq(Telemetry)
      /\ Len(q) = Stored
      /\ \A i \in 1 .. Stored : q[i] = memory[SlotFrom(bottom, i)]
  BY <1>1, RecordsFacts DEF Records, Stored
<1>3. CASE memory_full
  <2>1. /\ UNCHANGED <<memory, top, bottom>>
        /\ ret' = [op |-> "write", arg |-> x, val |-> 0]
    BY <1>3 DEF write_telemetry, pointers, Returned
  <2>2. Records' = Records
    BY <2>1 DEF Records
  <2>3. Len(q) >= Capacity - 1
    <3>1. 8 * Span(bottom, top) >= limit_addr_top - 16
      BY <1>1, <1>3, SpanFacts, SlotFacts
         DEF memory_full, limit_addr_bottom, telemetry_bytes
    <3>2. Span(bottom, top) \in Nat
      BY <1>1, SpanFacts
    <3>3. Span(bottom, top) >= Capacity - 1
      BY <3>1, <3>2 DEF Capacity
    <3> QED BY <1>2, <3>3 DEF Stored
  <2> QED BY <2>1, <2>2, <2>3 DEF Fifo!Write, Fifo!Returned, Capacity
<1>4. CASE ~memory_full
  <2>1. /\ memory' = [memory EXCEPT ![top] = x]
        /\ top' = after(top)
        /\ bottom' = bottom
        /\ ret' = [op |-> "write", arg |-> x, val |-> 1]
    BY <1>4 DEF write_telemetry, set_top, Returned
  <2>2. after(top) # bottom
    BY <1>4, TopStaysApart DEF RingOK
  <2>3. after(top) \in Slot /\ memory' \in [Slot -> Telemetry]
    BY <1>1, <2>1, AfterSlot
  <2>4. Span(bottom, after(top)) = Stored + 1
    BY <1>1, <2>2, SpanGrows DEF Stored
  <2>5. /\ Records' \in Seq(Telemetry)
        /\ Len(Records') = Stored + 1
        /\ \A i \in 1 .. Stored + 1 : Records'[i] = memory'[SlotFrom(bottom, i)]
    <3>1. Records' = RecordsIn(memory', bottom, after(top))
      BY <2>1 DEF Records
    <3> DEFINE m == memory'
               b == after(top)
               r == RecordsIn(m, bottom, b)
    <3>2. /\ r \in Seq(Telemetry)
          /\ Len(r) = Span(bottom, b)
          /\ \A i \in 1 .. Span(bottom, b) : r[i] = m[SlotFrom(bottom, i)]
      <4>1. m \in [Slot -> Telemetry] /\ b \in Slot /\ bottom \in Slot
        BY <1>1, <2>3
      <4> HIDE DEF m, b
      <4>2. Holds(RecordsIn(m, bottom, b), m, bottom, b)
        BY ONLY <4>1, RecordsHeld, Zenon
      <4> QED BY ONLY <4>2, Zenon DEF Holds
    <3>3. Span(bottom, b) = Stored + 1
      BY <2>4
    <3>4. Records' = r
      BY <3>1
    <3> HIDE DEF r, b
    <3>5. r \in Seq(Telemetry) /\ Len(r) = Stored + 1
      BY ONLY <3>2, <3>3, Zenon
    <3>6. \A i \in 1 .. Stored + 1 : r[i] = m[SlotFrom(bottom, i)]
      BY ONLY <3>2, <3>3
    <3> QED BY ONLY <3>4, <3>5, <3>6, Zenon
  <2>6. Stored \in Nat /\ Stored + 1 <= Capacity
    BY <1>1, <2>3, <2>4, SpanFacts DEF Stored
  <2>7. Records' = Append(q, x)
    <3>1. \A i \in 1 .. Stored : Records'[i] = q[i]
      BY <1>1, <1>2, <2>1, <2>5, <2>6, SlotFromFacts DEF Stored
    <3>2. Records'[Stored + 1] = x
      BY <1>1, <2>1, <2>5, <2>6, SlotFromFacts DEF Stored
    <3>3. /\ Append(q, x) \in Seq(Telemetry)
          /\ Len(Append(q, x)) = Stored + 1
          /\ \A i \in 1 .. Stored : Append(q, x)[i] = q[i]
          /\ Append(q, x)[Stored + 1] = x
      BY <1>2, AppendProperties
    <3>4. \A i \in 1 .. Stored + 1 : Records'[i] = Append(q, x)[i]
      BY <2>6, <3>1, <3>2, <3>3
    <3> QED BY <2>5, <3>3, <3>4, SeqEqual
  <2>8. Len(q) < Capacity
    BY <1>2, <2>6 DEF Capacity
  <2> QED BY <2>1, <2>7, <2>8 DEF Fifo!Write, Fifo!Returned, Capacity
<1> QED BY <1>3, <1>4

LEMMA DeleteRefines ==
  ASSUME RingOK, NEW d \in Telemetry, delete_last_read_telemetry(d)
  PROVE  Fifo!Delete(d)
<1> DEFINE q == Records
<1>1. /\ top \in Slot /\ bottom \in Slot
      /\ memory \in [Slot -> Telemetry]
  BY DEF RingOK, TypeOK
<1>2. /\ q \in Seq(Telemetry)
      /\ Len(q) = Stored
      /\ \A i \in 1 .. Stored : q[i] = memory[SlotFrom(bottom, i)]
      /\ q = <<>> <=> bottom = top
      /\ q # <<>> => Head(q) = memory[bottom]
  BY <1>1, RecordsFacts DEF Records, Stored
<1>3. CASE ~may_delete(d)
  <2>1. /\ UNCHANGED <<memory, top, bottom>>
        /\ ret' = [op |-> "delete", arg |-> d, val |-> 0]
    BY <1>3 DEF delete_last_read_telemetry, pointers, Returned
  <2>2. Records' = Records
    BY <2>1 DEF Records
  <2>3. q = <<>> \/ Head(q) # d
    BY <1>2, <1>3 DEF may_delete, telemetry_read
  <2> QED BY <2>1, <2>2, <2>3 DEF Fifo!Delete, Fifo!IsOldest, Fifo!Returned
<1>4. CASE may_delete(d)
  <2>1. /\ memory' = memory
        /\ top' = top
        /\ bottom' = after(bottom)
        /\ ret' = [op |-> "delete", arg |-> d, val |-> 1]
        /\ bottom # top
    BY <1>4 DEF delete_last_read_telemetry, may_delete, set_bottom, Returned
  <2>2. q # <<>> /\ Head(q) = d
    BY <1>2, <1>4 DEF may_delete, telemetry_read
  <2>3. /\ Span(after(bottom), top) = Stored - 1
        /\ \A i \in 1 .. Stored - 1 :
              SlotFrom(after(bottom), i) = SlotFrom(bottom, i + 1)
    BY <1>1, <2>1, SpanShrinks DEF Stored
  <2>4. /\ Records' \in Seq(Telemetry)
        /\ Len(Records') = Stored - 1
        /\ \A i \in 1 .. Stored - 1 : Records'[i] = memory[SlotFrom(bottom, i + 1)]
    <3>1. Records' = RecordsIn(memory, after(bottom), top)
      BY <2>1 DEF Records
    <3>2. after(bottom) \in Slot
      BY <1>1, AfterSlot
    <3>3. /\ Records' \in Seq(Telemetry)
          /\ Len(Records') = Span(after(bottom), top)
          /\ \A i \in 1 .. Span(after(bottom), top) :
                Records'[i] = memory[SlotFrom(after(bottom), i)]
      <4>1. top \in Slot /\ memory \in [Slot -> Telemetry]
        BY <1>1
      <4>2. Holds(RecordsIn(memory, after(bottom), top), memory, after(bottom), top)
        BY ONLY <3>2, <4>1, RecordsHeld, Zenon
      <4>3. Holds(Records', memory, after(bottom), top)
        BY ONLY <3>1, <4>2, Zenon
      <4> QED BY ONLY <4>3, Zenon DEF Holds
    <3>4. Len(Records') = Stored - 1
      BY ONLY <2>3, <3>3, Zenon
    <3>5. ASSUME NEW i \in 1 .. Stored - 1
          PROVE  Records'[i] = memory[SlotFrom(bottom, i + 1)]
      <4>1. i \in 1 .. Span(after(bottom), top)
        BY ONLY <2>3
      <4>2. Records'[i] = memory[SlotFrom(after(bottom), i)]
        BY ONLY <3>3, <4>1, Zenon
      <4>3. SlotFrom(after(bottom), i) = SlotFrom(bottom, i + 1)
        BY ONLY <2>3, Zenon
      <4> QED BY ONLY <4>2, <4>3, Zenon
    <3> QED BY ONLY <3>3, <3>4, <3>5, Zenon
  <2>5. Records' = Tail(q)
    <3>1. Stored \in Nat
      BY <1>1, SpanFacts DEF Stored
    <3>2. /\ Tail(q) \in Seq(Telemetry)
          /\ Len(Tail(q)) = Stored - 1
          /\ \A i \in 1 .. Stored - 1 : Tail(q)[i] = q[i + 1]
      BY <1>2, <2>2, HeadTailProperties
    <3>3. ASSUME NEW i \in 1 .. Stored - 1 PROVE Records'[i] = Tail(q)[i]
      <4>1. i + 1 \in 1 .. Stored
        BY <3>1, <3>3
      <4>2. q[i + 1] = memory[SlotFrom(bottom, i + 1)]
        BY <1>2, <4>1
      <4> QED BY <2>4, <3>2, <4>2
    <3> QED BY <2>4, <3>2, <3>3, SeqEqual
  <2> QED BY <2>1, <2>2, <2>5 DEF Fifo!Delete, Fifo!IsOldest, Fifo!Returned
<1> QED BY <1>3, <1>4

LEMMA CountRefines ==
  ASSUME RingOK, get_stored_messages_count
  PROVE  Fifo!Count
<1> DEFINE q == Records
<1>1. /\ top \in Slot /\ bottom \in Slot
      /\ memory \in [Slot -> Telemetry]
  BY DEF RingOK, TypeOK
<1>2. /\ UNCHANGED <<memory, top, bottom>>
      /\ ret' = [op |-> "count", arg |-> 0, val |-> messages_num]
  BY DEF get_stored_messages_count, pointers, Returned
<1>3. Records' = Records
  BY <1>2 DEF Records
<1>4. Len(q) = Stored /\ (q = <<>> <=> bottom = top)
  BY <1>1, RecordsFacts DEF Records, Stored
<1>5. Stored \in Nat
      /\ 8 * Stored = IF top >= bottom THEN top - bottom
                                       ELSE limit_addr_top - bottom + top
  BY <1>1, SpanFacts DEF Stored
<1>6. CASE top >= bottom
  <2>1. messages_num = Stored
    BY <1>6 DEF messages_num, Stored, Span, telemetry_bytes
  <2> QED BY <1>2, <1>3, <1>4, <2>1 DEF Fifo!Count, Fifo!Returned
<1>7. CASE ~(top >= bottom)
  <2>1. messages_num = Stored - 1
    BY <1>1, <1>5, <1>7, SlotFacts
       DEF messages_num, limit_addr_bottom, telemetry_bytes
  <2>2. q # <<>>
    BY <1>1, <1>4, <1>7, SlotFacts
  <2> QED BY <1>2, <1>3, <1>4, <2>1, <2>2 DEF Fifo!Count, Fifo!Returned
<1> QED BY <1>6, <1>7

LEMMA ResetRefines ==
  ASSUME RingOK, fram_reset
  PROVE  Fifo!Reset
<1>1. /\ top' = 8 /\ bottom' = 8 /\ memory' = memory
      /\ ret' = [op |-> "reset", arg |-> 0, val |-> 0]
  BY DEF fram_reset, set_top, set_bottom, Returned, limit_addr_bottom
<1>2. 8 \in Slot /\ memory \in [Slot -> Telemetry]
  BY SlotFacts DEF RingOK, TypeOK, limit_addr_bottom
<1>3. RecordsIn(memory, 8, 8) = <<>>
  BY <1>2, RecordsFacts
<1> QED BY <1>1, <1>3 DEF Records, Fifo!Reset, Fifo!Returned

LEMMA NextRefines == RingOK /\ [Next]_vars => [Fifo!Next]_(Fifo!vars)
<1> SUFFICES ASSUME RingOK, [Next]_vars
             PROVE  [Fifo!Next]_(Fifo!vars)
  OBVIOUS
<1>1. ASSUME NEW t \in Telemetry, write_telemetry(t)
      PROVE  Fifo!Next
  BY <1>1, WriteRefines DEF Fifo!Next
<1>2. ASSUME NEW d \in Telemetry, delete_last_read_telemetry(d)
      PROVE  Fifo!Next
  BY <1>2, DeleteRefines DEF Fifo!Next
<1>3. CASE read_telemetry
  <2>1. /\ Records' = Records
        /\ ret' = [op |-> "read", arg |-> 0, val |-> telemetry_read]
    BY <1>3 DEF read_telemetry, pointers, Returned, Records
  <2>2. telemetry_read = IF Records = <<>> THEN 0 ELSE Head(Records)
    BY RecordsFacts DEF RingOK, TypeOK, Records, telemetry_read
  <2> QED BY <2>1, <2>2 DEF Fifo!Next, Fifo!Read, Fifo!Returned
<1>4. CASE get_stored_messages_count
  BY <1>4, CountRefines DEF Fifo!Next
<1>5. CASE fram_reset
  BY <1>5, ResetRefines DEF Fifo!Next
<1>6. CASE fram_internal_setup
  <2>1. CASE check_state
    <3>1. Records' = Records /\ ret' = ret
      BY <1>6, <2>1 DEF fram_internal_setup, fram_reset, set_top, set_bottom, Returned,
                        RingOK, PointersAgree, Records
    <3> QED BY <3>1 DEF Fifo!vars
  <2>2. CASE ~check_state
    BY <1>6, <2>2, ResetRefines DEF fram_internal_setup, Fifo!Next
  <2> QED BY <2>1, <2>2
<1>7. CASE UNCHANGED vars
  BY <1>7 DEF vars, pointers, Fifo!vars, Records
<1> QED BY <1>1, <1>2, <1>3, <1>4, <1>5, <1>6, <1>7 DEF Next

(***************************************************************************)
(* The ring is the FIFO that fram.h promises: every operation of fram.c    *)
(* does to the records between bottom and top what the FIFO's does to its  *)
(* queue, and a restart between two operations is a stutter.               *)
(***************************************************************************)
THEOREM RingImplementsFifo == Spec => ImplementsFifo
<1>1. Init => Fifo!Init
  BY InitRefines
<1>2. RingOK /\ [Next]_vars => [Fifo!Next]_(Fifo!vars)
  BY NextRefines
<1> QED BY <1>1, <1>2, RingOKAlways, PTL DEF Spec, ImplementsFifo, Fifo!Spec
===============================================================================
