---------------------------- MODULE FrameProofs ----------------------------
(***************************************************************************)
(* The layout alloc_slots computes is a stack frame, for every procedure:  *)
(* names have disjoint slots, all inside the frame, the float scratch word *)
(* is nobody's variable, and every destination has a slot once emission    *)
(* starts.                                                                 *)
(*                                                                         *)
(* SlotsDisjoint alone is not inductive.  Layout adds that the slots       *)
(* descend in the order they were allocated and that next_offset is the    *)
(* lowest byte of all of them; Covered adds which names have been met.     *)
(* All of that is said of a layout whose ints have not overflowed.         *)
(***************************************************************************)
EXTENDS Frame, TLAPS

Descends ==
  /\ frame_size + next_offset = 0
  /\ \A s \in Slots : /\ slots[s].size >= 8
                      /\ next_offset <= slots[s].bp_offset
                      /\ slots[s].bp_offset + slots[s].size <= 0
  /\ \A s, t \in Slots : s < t =>
        slots[t].bp_offset + slots[t].size <= slots[s].bp_offset

Descending == ~wrapped => Descends

NamesDistinct ==
  \A s, t \in Slots : s # t => slots[s].hash # slots[t].hash

ScratchFirst ==
  IF phase = "scratch"
  THEN slots = <<>> /\ next_offset = 0 /\ ~wrapped
  ELSE /\ Len(slots) > 0
       /\ slots[1] = [hash |-> FLOAT_SCRATCH, bp_offset |-> -8, size |-> 8]

\* The names that have a slot.
Met == {slots[s].hash : s \in Slots}

Covered ==
  /\ phase = "rets" => i \in Instrs
  /\ phase = "done" => i = Len(code) + 1
  /\ \A j \in Instrs : j < i \/ (j = i /\ phase = "rets") =>
        (code[j].dst # NoName => code[j].dst \in Met)
  /\ \A j \in Instrs : code[j].op = "CALL" =>
        \A r \in 1 .. Len(code[j].rets) :
           j < i \/ (j = i /\ phase = "rets" /\ r < k)
             => code[j].rets[r].name \in Met

Layout == TypeOK /\ Descending /\ NamesDistinct /\ ScratchFirst

IInv == Layout /\ Covered

-----------------------------------------------------------------------------

\* The members of a code and of a slot map have the fields they should.
LEMMA Members ==
  ASSUME TypeOK
  PROVE  /\ Len(code) \in Nat /\ Len(slots) \in Nat
         /\ \A j \in Instrs :
               /\ code[j] \in Instr
               /\ code[j].dst \in Names \cup {NoName}
               /\ code[j].size \in Ints /\ code[j].nbytes \in Ints
               /\ code[j].rets \in Seq(Var)
         /\ \A s \in Slots : /\ slots[s] \in Slot
                             /\ slots[s].hash \in Names \cup {FLOAT_SCRATCH}
                             /\ slots[s].bp_offset \in Int /\ slots[s].size \in Nat
<1>1. code \in Seq(Instr)
  BY FrameAssumption DEF TypeOK
<1>2. \A c \in Instr : /\ c.dst \in Names \cup {NoName}
                       /\ c.size \in Ints /\ c.nbytes \in Ints
                       /\ c.rets \in Seq(Var)
  BY DEF Instr
<1>3. \A s \in Slot : /\ s.hash \in Names \cup {FLOAT_SCRATCH}
                      /\ s.bp_offset \in Int /\ s.size \in Nat
  BY DEF Slot
<1> QED BY <1>1, <1>2, <1>3 DEF TypeOK, Instrs, Slots

\* INT_MAX is a number, and so is every int.
LEMMA IntsInt == INT_MAX \in Nat /\ INT_MAX >= 15 /\ Ints \subseteq Int /\ 8 \in Ints
BY FrameAssumption DEF Ints

\* Wrap gives a number, and the one it was given while that is an int.
LEMMA WrapInt ==
  ASSUME NEW n \in Int
  PROVE  Wrap(n) \in Int /\ (n <= INT_MAX /\ n >= -INT_MAX - 1 => Wrap(n) = n)
BY IntsInt DEF Wrap

\* The size of a slot is a whole number of words, at least one, and as many as
\* were asked for unless the sum overflows.
LEMMA SlotSizeWord ==
  ASSUME NEW n \in Ints
  PROVE  /\ SlotSize(n) \in Nat /\ SlotSize(n) >= 8
         /\ n + 7 <= INT_MAX => SlotSize(n) = WholeWords(n)
<1>1. n \in Int /\ n >= -INT_MAX - 1 /\ Wrap(n + 7) \in Int
  BY IntsInt, WrapInt DEF Ints
<1>2. SlotSize(n) \in Nat /\ SlotSize(n) >= 8
  BY <1>1 DEF SlotSize
<1>3. ASSUME n + 7 <= INT_MAX PROVE SlotSize(n) = WholeWords(n)
  <2>1. Wrap(n + 7) = n + 7
    BY <1>1, <1>3, WrapInt, IntsInt
  <2> QED BY <1>1, <2>1 DEF SlotSize, WholeWords
<1> QED BY <1>2, <1>3

\* slotmap_alloc: the name has a slot afterwards, every older slot is where it
\* was, and the map is still a descending sequence of distinct names.
LEMMA SlotmapAlloc ==
  ASSUME TypeOK, Descending, NamesDistinct,
         NEW h \in Names \cup {FLOAT_SCRATCH}, NEW n \in Ints,
         slotmap_alloc(h, n)
  PROVE  /\ slots' \in Seq(Slot) /\ next_offset' \in Int /\ frame_size' \in Nat
         /\ wrapped' \in BOOLEAN
         /\ Descending' /\ NamesDistinct'
         /\ h \in Met'
         /\ \A s \in Slots : s \in Slots' /\ slots'[s] = slots[s]
         /\ slots = <<>> /\ next_offset = 0 =>
               slots' = <<[hash |-> h, bp_offset |-> Wrap(0 - SlotSize(n)), size |-> SlotSize(n)]>>
<1>1. CASE slotmap_find(h) # {}
  <2>1. UNCHANGED <<slots, next_offset, frame_size, wrapped>>
    BY <1>1 DEF slotmap_alloc, map
  <2>2. slots # <<>> /\ h \in Met
    BY <1>1 DEF slotmap_find, Met, Slots
  <2>3. Slots' = Slots
    BY <2>1 DEF Slots
  <2> QED BY <2>1, <2>2, <2>3 DEF TypeOK, Descending, Descends, NamesDistinct, Met
<1>2. CASE slotmap_find(h) = {}
  <2> DEFINE z == SlotSize(n)
             L == Len(slots)
             new == [hash |-> h, bp_offset |-> next_offset', size |-> z]
  <2>1. z \in Nat /\ z >= 8
    BY SlotSizeWord
  <2>2. /\ next_offset' = Wrap(next_offset - z)
        /\ slots' = Append(slots, new)
        /\ wrapped' = (wrapped \/ Overflows(n))
        /\ frame_size' = IF Wrap(-next_offset') > frame_size THEN Wrap(-next_offset')
                         ELSE frame_size
    BY <1>2 DEF slotmap_alloc
  <2>14. wrapped' \in BOOLEAN /\ (~wrapped' => ~wrapped /\ next_offset - z >= -INT_MAX)
    <3>1. next_offset - z \in Int /\ wrapped \in BOOLEAN /\ INT_MAX \in Nat
      BY <2>1, IntsInt DEF TypeOK
    <3>2. Overflows(n) <=> (n + 7 > INT_MAX \/ next_offset - z < -INT_MAX)
      BY DEF Overflows
    <3>3. next_offset - z < -INT_MAX \/ next_offset - z >= -INT_MAX
      BY <3>1
    <3>4. wrapped' <=> wrapped \/ n + 7 > INT_MAX \/ next_offset - z < -INT_MAX
      BY <2>2, <3>1, <3>2
    <3>5. wrapped' \in BOOLEAN
      BY ONLY <2>2
    <3> QED BY ONLY <3>3, <3>4, <3>5
  <2> HIDE DEF z
  <2>3. next_offset \in Int /\ next_offset' \in Int /\ L \in Nat
    <3>1. next_offset \in Int /\ L \in Nat
      BY Members DEF TypeOK
    <3>2. next_offset - z \in Int
      BY <2>1, <3>1
    <3>3. Wrap(next_offset - z) \in Int
      BY <3>2, WrapInt
    <3> QED BY <2>2, <3>1, <3>3
  <2>4. new \in Slot /\ new.hash = h /\ new.bp_offset = next_offset' /\ new.size = z
    BY <2>1, <2>3 DEF Slot
  <2> HIDE DEF new
  <2>5. /\ slots' \in Seq(Slot) /\ Len(slots') = L + 1
        /\ \A s \in Slots : slots'[s] = slots[s]
        /\ slots'[L + 1] = new
    BY <2>2, <2>3, <2>4 DEF TypeOK, Slots
  <2>6. Slots = 1 .. L /\ Slots' = 1 .. L + 1
    BY <2>5 DEF Slots
  <2>15. frame_size' \in Nat /\ -next_offset' \in Int /\ Wrap(-next_offset') \in Int
    <3>1. -next_offset' \in Int /\ frame_size \in Nat
      BY <2>3 DEF TypeOK
    <3>2. Wrap(-next_offset') \in Int
      BY ONLY <3>1, WrapInt
    <3> QED BY <2>2, <3>1, <3>2
  <2>7. ASSUME ~wrapped'
        PROVE  /\ Descends /\ frame_size' + next_offset' = 0
               /\ next_offset' = next_offset - z
    <3>1. Descends /\ next_offset - z >= -INT_MAX
      BY <2>7, <2>14 DEF Descending
    <3>2. frame_size \in Nat /\ frame_size + next_offset = 0
      BY <3>1 DEF Descends, TypeOK
    <3>3. next_offset' = next_offset - z
      BY <2>1, <2>2, <2>3, <3>1, <3>2, IntsInt, WrapInt
    <3>4. Wrap(-next_offset') = -next_offset'
      BY <2>1, <2>3, <2>15, <3>1, <3>2, <3>3, IntsInt, WrapInt
    <3> QED BY <2>1, <2>2, <2>3, <3>1, <3>2, <3>3, <3>4
  <2>8. \A s \in Slots : slots[s].bp_offset \in Int /\ slots[s].size \in Nat
    BY Members
  <2>9. Descending'
    <3> SUFFICES ASSUME ~wrapped' PROVE Descends'
      BY DEF Descending
    <3>3. /\ Descends /\ frame_size' + next_offset' = 0
          /\ next_offset' = next_offset - z
      BY <2>7
    <3>1. \A s \in Slots' : /\ slots'[s].size >= 8
                            /\ next_offset' <= slots'[s].bp_offset
                            /\ slots'[s].bp_offset + slots'[s].size <= 0
      <4> SUFFICES ASSUME NEW s \in Slots'
                   PROVE  /\ slots'[s].size >= 8
                          /\ next_offset' <= slots'[s].bp_offset
                          /\ slots'[s].bp_offset + slots'[s].size <= 0
        OBVIOUS
      <4>1. CASE s = L + 1
        BY <4>1, <3>3, <2>1, <2>3, <2>4, <2>5 DEF Descends, TypeOK
      <4>2. CASE s \in Slots
        <5>1. slots'[s] = slots[s] /\ slots[s].bp_offset \in Int
          BY <4>2, <2>5, <2>8
        <5>2. /\ slots[s].size >= 8 /\ next_offset <= slots[s].bp_offset
              /\ slots[s].bp_offset + slots[s].size <= 0
          BY <4>2, <3>3 DEF Descends
        <5>3. next_offset' <= slots[s].bp_offset
          BY <5>1, <5>2, <2>1, <3>3, <2>3
        <5> QED BY <5>1, <5>2, <5>3
      <4> QED BY <4>1, <4>2, <2>3, <2>6
    <3>2. \A s, t \in Slots' : s < t =>
             slots'[t].bp_offset + slots'[t].size <= slots'[s].bp_offset
      <4> SUFFICES ASSUME NEW s \in Slots', NEW t \in Slots', s < t
                   PROVE  slots'[t].bp_offset + slots'[t].size <= slots'[s].bp_offset
        OBVIOUS
      <4>1. s \in Slots
        BY <2>3, <2>6
      <4>2. CASE t = L + 1
        <5>1. slots'[s] = slots[s] /\ slots[s].bp_offset \in Int
          BY <4>1, <2>5, <2>8
        <5>2. next_offset <= slots[s].bp_offset
          BY <4>1, <3>3 DEF Descends
        <5>3. slots'[t].bp_offset + slots'[t].size = next_offset
          BY <4>2, <2>1, <3>3, <2>3, <2>4, <2>5
        <5> QED BY <5>1, <5>2, <5>3
      <4>3. CASE t \in Slots
        BY <4>1, <4>3, <3>3, <2>5 DEF Descends
      <4> QED BY <4>2, <4>3, <2>3, <2>6
    <3> QED BY <3>1, <3>2, <3>3 DEF Descends
  <2>10. NamesDistinct'
    <3>1. \A s \in Slots : slots[s].hash # h
      BY <1>2 DEF slotmap_find
    <3> QED BY <3>1, <2>3, <2>4, <2>5, <2>6 DEF NamesDistinct
  <2>11. h \in Met'
    BY <2>3, <2>4, <2>5, <2>6 DEF Met
  <2>12. ASSUME slots = <<>>, next_offset = 0
         PROVE  slots' = <<[hash |-> h, bp_offset |-> Wrap(0 - SlotSize(n)), size |-> SlotSize(n)]>>
    BY <2>12, <2>1, <2>2 DEF new, z
  <2>13. \A s \in Slots : s \in Slots' /\ slots'[s] = slots[s]
    BY <2>3, <2>5, <2>6
  <2> QED BY <2>3, <2>5, <2>14, <2>15, <2>9, <2>10, <2>11, <2>12, <2>13
<1> QED BY <1>1, <1>2

\* The size alloc_slots asks for is an int.
LEMMA ScalarSizeInt ==
  ASSUME NEW n \in Ints
  PROVE  ScalarSize(n) \in Ints
BY IntsInt DEF ScalarSize

\* Names that had a slot still have it when slots are only added.
LEMMA MetGrows ==
  ASSUME \A s \in Slots : s \in Slots' /\ slots'[s] = slots[s]
  PROVE  Met \subseteq Met'
BY DEF Met

LEMMA ScratchStep ==
  ASSUME IInv, Scratch
  PROVE  IInv'
<1>1. /\ phase = "scratch" /\ phase' = "instr" /\ slotmap_alloc(FLOAT_SCRATCH, 8)
      /\ UNCHANGED <<code, i, k, enter>> /\ TypeOK
  BY DEF Scratch, IInv, Layout
<1>2. slots = <<>> /\ next_offset = 0
  BY <1>1 DEF IInv, Layout, ScratchFirst
<1>3. /\ slots' \in Seq(Slot) /\ next_offset' \in Int /\ frame_size' \in Nat
      /\ wrapped' \in BOOLEAN
      /\ Descending' /\ NamesDistinct'
      /\ \A s \in Slots : s \in Slots' /\ slots'[s] = slots[s]
      /\ slots' = <<[hash |-> FLOAT_SCRATCH, bp_offset |-> Wrap(0 - SlotSize(8)),
                     size |-> SlotSize(8)]>>
  BY <1>1, <1>2, IntsInt, SlotmapAlloc DEF IInv, Layout
<1>4. SlotSize(8) = 8 /\ Wrap(0 - 8) = -8
  <2>1. SlotSize(8) = WholeWords(8)
    BY IntsInt, SlotSizeWord
  <2> QED BY <2>1, IntsInt DEF WholeWords, Wrap
<1>5. TypeOK'
  BY <1>1, <1>3 DEF TypeOK
<1>6. ScratchFirst'
  BY <1>1, <1>3, <1>4 DEF ScratchFirst
<1>7. Covered'
  <2>1. Instrs' = Instrs
    BY <1>1 DEF Instrs
  <2>2. Met \subseteq Met'
    BY <1>3, MetGrows
  <2> QED BY <1>1, <2>1, <2>2 DEF IInv, Covered
<1> QED BY <1>3, <1>5, <1>6, <1>7 DEF IInv, Layout

\* An instruction whose destination is h, or which has none, and the names the
\* map covers after it.
LEMMA RequestStep ==
  ASSUME IInv, phase # "scratch", phase' # "scratch",
         code' \in Codes, phase' \in {"instr", "rets", "done"},
         i' \in 1 .. Len(code') + 1, k' \in Nat \ {0}, enter' \in Nat,
         NEW h \in Names, NEW n \in Ints, slotmap_alloc(h, n)
  PROVE  /\ Layout' /\ h \in Met'
         /\ Met \subseteq Met'
<1>1. /\ slots' \in Seq(Slot) /\ next_offset' \in Int /\ frame_size' \in Nat
      /\ wrapped' \in BOOLEAN
      /\ Descending' /\ NamesDistinct' /\ h \in Met'
      /\ \A s \in Slots : s \in Slots' /\ slots'[s] = slots[s]
  BY SlotmapAlloc DEF IInv, Layout
<1>2. TypeOK'
  BY <1>1 DEF TypeOK
<1>3. ScratchFirst'
  <2>1. /\ Len(slots) \in Nat /\ Len(slots) > 0
        /\ slots[1] = [hash |-> FLOAT_SCRATCH, bp_offset |-> -8, size |-> 8]
    BY Members DEF IInv, Layout, ScratchFirst
  <2>2. 1 \in Slots' /\ slots'[1] = slots[1]
    BY <1>1, <2>1 DEF Slots
  <2> QED BY <2>1, <2>2, <1>1 DEF ScratchFirst, Slots
<1>4. Met \subseteq Met'
  BY <1>1, MetGrows
<1> QED BY <1>1, <1>2, <1>3, <1>4 DEF Layout

\* The same when the instruction asks for no slot.
LEMMA NoRequestStep ==
  ASSUME IInv, phase # "scratch", phase' # "scratch",
         code' \in Codes, phase' \in {"instr", "rets", "done"},
         i' \in 1 .. Len(code') + 1, k' \in Nat \ {0}, enter' \in Nat,
         UNCHANGED map
  PROVE  /\ Layout'
         /\ Met \subseteq Met'
<1>1. /\ UNCHANGED <<slots, next_offset, frame_size, wrapped>>
      /\ Slots' = Slots
  BY DEF Slots, map
<1>2. TypeOK'
  BY <1>1 DEF IInv, Layout, TypeOK
<1>3. Descending' /\ NamesDistinct' /\ ScratchFirst'
  BY <1>1 DEF IInv, Layout, Descending, Descends, NamesDistinct, ScratchFirst
<1>4. Met \subseteq Met'
  BY <1>1 DEF Met
<1> QED BY <1>2, <1>3, <1>4 DEF Layout

LEMMA AllocaStep ==
  ASSUME IInv, Alloca
  PROVE  IInv'
<1>1. /\ phase = "instr" /\ phase' = "instr" /\ i \in Instrs /\ i' = i + 1
      /\ code[i].op = "ALLOCA" /\ UNCHANGED <<code, k, enter>> /\ TypeOK
      /\ code' \in Codes /\ k' \in Nat \ {0} /\ enter' \in Nat
      /\ code[i].dst \in Names \cup {NoName} /\ code[i].nbytes \in Ints
  BY Members DEF Alloca, IInv, Layout, TypeOK
<1>2. i' \in 1 .. Len(code') + 1 /\ Instrs' = Instrs /\ i \in Nat
  BY <1>1, Members DEF Instrs
<1>3. /\ Layout'
      /\ Met \subseteq Met'
      /\ code[i].dst # NoName => code[i].dst \in Met'
  <2>1. CASE code[i].dst = NoName
    BY <2>1, <1>1, <1>2, NoRequestStep DEF Alloca
  <2>2. CASE code[i].dst # NoName
    <3>1. code[i].dst \in Names /\ slotmap_alloc(code[i].dst, code[i].nbytes)
      BY <2>2, <1>1 DEF Alloca
    <3> QED BY <3>1, <1>1, <1>2, RequestStep
  <2> QED BY <2>1, <2>2
<1>4. Covered'
  <2>1. \A j \in Instrs : j < i' => j < i \/ j = i
    BY <1>1, <1>2 DEF Instrs
  <2>2. \A j \in Instrs : j < i' /\ code[j].op = "CALL" => j < i
    BY <1>1, <2>1
  <2>3. \A j \in Instrs : j < i' => (code[j].dst # NoName => code[j].dst \in Met')
    BY <1>3, <2>1 DEF IInv, Covered
  <2>4. \A j \in Instrs : code[j].op = "CALL" /\ j < i' =>
           \A r \in 1 .. Len(code[j].rets) : code[j].rets[r].name \in Met'
    BY <1>3, <2>2 DEF IInv, Covered
  <2> QED BY <1>1, <1>2, <2>3, <2>4 DEF Covered
<1> QED BY <1>3, <1>4 DEF IInv

LEMMA ScalarStep ==
  ASSUME IInv, Scalar
  PROVE  IInv'
<1>1. /\ phase = "instr" /\ i \in Instrs /\ i \in Nat
      /\ UNCHANGED <<code, enter>> /\ TypeOK /\ Instrs' = Instrs
      /\ code' \in Codes /\ enter' \in Nat
      /\ code[i].dst \in Names \cup {NoName} /\ code[i].size \in Ints
      /\ code[i].rets \in Seq(Var) /\ Len(code[i].rets) \in Nat
  BY Members DEF Scalar, IInv, Layout, TypeOK, Instrs
<1>2. \/ /\ code[i].op = "CALL" /\ code[i].rets # <<>>
         /\ phase' = "rets" /\ k' = 1 /\ i' = i
      \/ /\ ~(code[i].op = "CALL" /\ code[i].rets # <<>>)
         /\ phase' = "instr" /\ k' = k /\ i' = i + 1
  BY <1>1 DEF Scalar
<1>3. /\ k' \in Nat \ {0} /\ i' \in 1 .. Len(code') + 1
      /\ phase' \in {"instr", "rets"}
  BY <1>1, <1>2, Members DEF TypeOK, Instrs
<1>4. /\ Layout'
      /\ Met \subseteq Met'
      /\ code[i].dst # NoName => code[i].dst \in Met'
  <2>1. CASE code[i].dst = NoName
    BY <2>1, <1>1, <1>3, NoRequestStep DEF Scalar
  <2>2. CASE code[i].dst # NoName
    <3>1. code[i].dst \in Names /\ slotmap_alloc(code[i].dst, ScalarSize(code[i].size))
      BY <2>2, <1>1 DEF Scalar, var_slot
    <3> QED BY <3>1, <1>1, <1>3, RequestStep, ScalarSizeInt
  <2> QED BY <2>1, <2>2
<1>5. Covered'
  <2>1. \A j \in Instrs : j < i' \/ (j = i' /\ phase' = "rets") => j < i \/ j = i
    BY <1>1, <1>2 DEF Instrs
  <2>2. \A j \in Instrs : j < i' \/ (j = i' /\ phase' = "rets") =>
           (code[j].dst # NoName => code[j].dst \in Met')
    BY <1>4, <2>1 DEF IInv, Covered
  <2>3. \A j \in Instrs : code[j].op = "CALL" =>
           \A r \in 1 .. Len(code[j].rets) :
              j < i' \/ (j = i' /\ phase' = "rets" /\ r < k')
                => code[j].rets[r].name \in Met'
    <3> SUFFICES ASSUME NEW j \in Instrs, code[j].op = "CALL",
                        NEW r \in 1 .. Len(code[j].rets),
                        j < i' \/ (j = i' /\ phase' = "rets" /\ r < k')
                 PROVE  code[j].rets[r].name \in Met'
      OBVIOUS
    <3>1. CASE j < i
      BY <3>1, <1>4 DEF IInv, Covered
    <3>2. CASE j = i
      BY <3>2, <1>1, <1>2
    <3> QED BY <3>1, <3>2, <2>1
  <2> QED BY <1>1, <1>2, <2>2, <2>3 DEF Covered
<1> QED BY <1>4, <1>5 DEF IInv

LEMMA ReturnSlotStep ==
  ASSUME IInv, ReturnSlot
  PROVE  IInv'
<1> DEFINE v == code[i].rets[k]
<1>1. /\ phase = "rets" /\ i \in Instrs /\ i \in Nat
      /\ k \in 1 .. Len(code[i].rets) /\ k \in Nat
      /\ UNCHANGED <<code, enter>> /\ TypeOK /\ Instrs' = Instrs
      /\ code' \in Codes /\ enter' \in Nat
      /\ code[i].rets \in Seq(Var) /\ Len(code[i].rets) \in Nat
  BY Members DEF ReturnSlot, IInv, Layout, TypeOK, Instrs
<1>2. \/ k = Len(code[i].rets) /\ phase' = "instr" /\ i' = i + 1 /\ k' = k
      \/ k # Len(code[i].rets) /\ phase' = "rets" /\ i' = i /\ k' = k + 1
  BY <1>1 DEF ReturnSlot
<1>3. /\ k' \in Nat \ {0} /\ i' \in 1 .. Len(code') + 1
      /\ phase' \in {"instr", "rets"}
  BY <1>1, <1>2, Members DEF TypeOK, Instrs
<1>4. v \in Var /\ v.name \in Names /\ v.size \in Ints
  <2>1. v \in Var
    BY <1>1
  <2> QED BY <2>1 DEF Var
<1>5. Layout' /\ v.name \in Met' /\ Met \subseteq Met'
  <2>1. slotmap_alloc(v.name, ScalarSize(v.size))
    BY DEF ReturnSlot, var_slot
  <2> HIDE DEF v
  <2> QED BY <2>1, <1>1, <1>3, <1>4, RequestStep, ScalarSizeInt
<1>6. Covered'
  <2>1. \A j \in Instrs : j < i' \/ (j = i' /\ phase' = "rets") => j < i \/ j = i
    BY <1>1, <1>2 DEF Instrs
  <2>2. \A j \in Instrs : j < i' \/ (j = i' /\ phase' = "rets") =>
           (code[j].dst # NoName => code[j].dst \in Met')
    BY <1>1, <1>5, <2>1 DEF IInv, Covered
  <2>3. \A j \in Instrs : code[j].op = "CALL" =>
           \A r \in 1 .. Len(code[j].rets) :
              j < i' \/ (j = i' /\ phase' = "rets" /\ r < k')
                => code[j].rets[r].name \in Met'
    <3> SUFFICES ASSUME NEW j \in Instrs, code[j].op = "CALL",
                        NEW r \in 1 .. Len(code[j].rets),
                        j < i' \/ (j = i' /\ phase' = "rets" /\ r < k')
                 PROVE  code[j].rets[r].name \in Met'
      OBVIOUS
    <3>1. CASE j < i
      BY <3>1, <1>5 DEF IInv, Covered
    <3>2. CASE j = i
      <4>1. r < k \/ r = k
        BY <3>2, <1>1, <1>2
      <4> QED BY <3>2, <4>1, <1>1, <1>5 DEF IInv, Covered
    <3> QED BY <3>1, <3>2, <2>1
  <2> QED BY <1>1, <1>2, <2>2, <2>3 DEF Covered
<1> QED BY <1>5, <1>6 DEF IInv

LEMMA BackpatchStep ==
  ASSUME IInv, Backpatch
  PROVE  IInv'
<1>1. /\ phase = "instr" /\ phase' = "done" /\ i = Len(code) + 1
      /\ enter' = EnterOperand(frame_size)
      /\ UNCHANGED <<code, i, k, slots, next_offset, frame_size, wrapped>>
      /\ UNCHANGED map /\ TypeOK
  BY DEF Backpatch, IInv, Layout, map
<1>2. enter' \in Nat
  BY <1>1 DEF TypeOK, EnterOperand, Dropped
<1>3. Layout' /\ Met \subseteq Met'
  BY <1>1, <1>2, NoRequestStep DEF TypeOK
<1>4. Covered'
  BY <1>1, <1>3 DEF IInv, Covered, Instrs
<1> QED BY <1>3, <1>4 DEF IInv

-----------------------------------------------------------------------------

\* IInv holds throughout the two passes over every procedure.
THEOREM Invariance == Spec => []IInv
<1>1. Init => IInv
  <2> SUFFICES ASSUME Init PROVE IInv
    OBVIOUS
  <2>1. /\ code \in Codes /\ Len(code) \in Nat /\ phase = "scratch" /\ i = 1 /\ k = 1
        /\ slots = <<>> /\ Slots = {} /\ next_offset = 0 /\ frame_size = 0 /\ enter = 0
        /\ wrapped = FALSE
    BY FrameAssumption DEF Init, Slots
  <2>2. TypeOK
    <3>1. wrapped \in BOOLEAN
      BY ONLY <2>1
    <3>2. /\ i \in 1 .. Len(code) + 1 /\ k \in Nat \ {0} /\ enter \in Nat
          /\ next_offset \in Int /\ frame_size \in Nat
      BY ONLY <2>1
    <3> QED BY ONLY <2>1, <3>1, <3>2 DEF TypeOK
  <2>3. Descending /\ NamesDistinct /\ ScratchFirst
    <3>1. Descending
      BY <2>1 DEF Descending, Descends
    <3> QED BY <3>1, <2>1 DEF NamesDistinct, ScratchFirst
  <2>4. Covered
    BY <2>1 DEF Covered, Instrs
  <2> QED BY <2>2, <2>3, <2>4 DEF IInv, Layout
<1>2. IInv /\ [Next]_vars => IInv'
  <2> SUFFICES ASSUME IInv, [Next]_vars
               PROVE  IInv'
    OBVIOUS
  <2>1. CASE UNCHANGED vars
    <3>1. TypeOK' /\ Slots' = Slots /\ Instrs' = Instrs
      BY <2>1 DEF vars, IInv, Layout, TypeOK, Slots, Instrs
    <3>2. Layout'
      BY <2>1, <3>1 DEF vars, IInv, Layout, Descending, Descends, NamesDistinct, ScratchFirst
    <3>3. Covered'
      BY <2>1, <3>1 DEF vars, IInv, Covered, Met
    <3> QED BY <3>2, <3>3 DEF IInv
  <2> QED BY <2>1, ScratchStep, AllocaStep, ScalarStep, ReturnSlotStep,
             BackpatchStep DEF Next, Done
<1> QED BY <1>1, <1>2, PTL DEF Spec

\* The slot map and the frame have the types of their fields.
THEOREM TypeCorrect == Spec => []TypeOK
<1>1. IInv => TypeOK
  BY DEF IInv, Layout
<1> QED BY <1>1, Invariance, PTL

\* No two variables of a procedure share a byte of its frame.
THEOREM FrameDisjoint == Spec => []SlotsDisjoint
<1>1. IInv => SlotsDisjoint
  <2> SUFFICES ASSUME IInv, ~wrapped, NEW s \in Slots, NEW t \in Slots, s # t
               PROVE  \/ slots[s].bp_offset + slots[s].size <= slots[t].bp_offset
                      \/ slots[t].bp_offset + slots[t].size <= slots[s].bp_offset
    BY DEF SlotsDisjoint
  <2>1. s < t \/ t < s
    BY Members DEF IInv, Layout, Slots
  <2> QED BY <2>1 DEF IInv, Layout, Descending, Descends
<1> QED BY <1>1, Invariance, PTL

\* Every slot lies within frame_size bytes below bp, unless an int overflowed: the
\* number ENTER should carry is large enough (what it carries is EnterCovers).
THEOREM FrameCovers == Spec => []SlotsInFrame
<1>1. IInv => SlotsInFrame
  BY DEF IInv, Layout, TypeOK, Descending, Descends, SlotsInFrame
<1> QED BY <1>1, Invariance, PTL

\* The word at [bp-8] is the float scratch and never a variable's.
THEOREM ScratchIsReserved == Spec => []ScratchReserved
<1>1. IInv => ScratchReserved
  <2> SUFFICES ASSUME IInv, ~wrapped, phase # "scratch", NEW s \in Slots,
                      slots[s].bp_offset + slots[s].size > -8
               PROVE  slots[s].hash = FLOAT_SCRATCH
    BY DEF ScratchReserved
  <2>1. /\ 1 \in Slots /\ slots[1].bp_offset = -8 /\ slots[1].hash = FLOAT_SCRATCH
        /\ slots[s].bp_offset \in Int /\ slots[s].size \in Nat
        /\ s = 1 \/ 1 < s
    BY Members DEF IInv, Layout, ScratchFirst, Slots
  <2> QED BY <2>1 DEF IInv, Layout, Descending, Descends
<1> QED BY <1>1, Invariance, PTL

\* When emission starts every destination and every return slot has its slot.
THEOREM DstsHaveSlots == Spec => []EveryDstHasASlot
<1>1. ASSUME IInv, NEW n \in Met
      PROVE  \E s \in Slots : slotmap_find(n) = {s}
  <2>1. PICK s \in Slots : slots[s].hash = n
    BY <1>1 DEF Met
  <2>2. \A t \in Slots : slots[t].hash = n => t = s
    BY <1>1, <2>1 DEF IInv, Layout, NamesDistinct
  <2>3. slotmap_find(n) = {s}
    BY <2>1, <2>2 DEF slotmap_find
  <2> QED BY <2>3
<1>2. IInv => EveryDstHasASlot
  <2> SUFFICES ASSUME IInv, phase = "done", NEW j \in Instrs
               PROVE  /\ code[j].dst # NoName => code[j].dst \in Met
                      /\ code[j].op = "CALL" =>
                            \A r \in 1 .. Len(code[j].rets) :
                               code[j].rets[r].name \in Met
    BY <1>1 DEF EveryDstHasASlot
  <2>1. j < i
    BY Members DEF IInv, Layout, Covered, Instrs
  <2> QED BY <2>1 DEF IInv, Covered
<1> QED BY <1>2, Invariance, PTL

\* ENTER reserves the whole frame exactly when its size has at most four digits.
THEOREM EnterCovers == Spec => []EnterCoversFrame
<1> DEFINE Patched == phase = "done" => enter = EnterOperand(frame_size)
<1>1. Init => Patched
  BY DEF Init
<1>2. Patched /\ [Next]_vars => Patched'
  <2> SUFFICES ASSUME Patched, [Next]_vars, phase' = "done"
               PROVE  enter' = EnterOperand(frame_size')
    OBVIOUS
  <2>1. CASE UNCHANGED vars
    BY <2>1 DEF vars
  <2>2. CASE Backpatch
    BY <2>2 DEF Backpatch, map
  <2> QED BY <2>1, <2>2 DEF Next, Done, Scratch, Alloca, Scalar, ReturnSlot
<1>3. ASSUME NEW n \in Nat PROVE EnterOperand(n) >= n <=> n < 10000
  BY DEF EnterOperand, Dropped
<1>4. IInv /\ Patched => EnterCoversFrame
  BY <1>3 DEF IInv, Layout, TypeOK, EnterCoversFrame
<1> QED BY <1>1, <1>2, <1>4, Invariance, PTL DEF Spec

\* A slot is never moved or resized once it has been given.
THEOREM SlotsNeverMove == Spec => SlotsStable
<1>1. IInv /\ [Next]_vars =>
        [\A s \in Slots : s \in 1 .. Len(slots') /\ slots'[s] = slots[s]]_vars
  <2> SUFFICES ASSUME IInv, Next, NEW s \in Slots
               PROVE  s \in 1 .. Len(slots') /\ slots'[s] = slots[s]
    OBVIOUS
  <2>1. CASE UNCHANGED slots
    BY <2>1 DEF Slots
  <2>2. ASSUME NEW h \in Names \cup {FLOAT_SCRATCH}, NEW n \in Ints, slotmap_alloc(h, n)
        PROVE  s \in 1 .. Len(slots') /\ slots'[s] = slots[s]
    BY <2>2, SlotmapAlloc DEF IInv, Layout, Slots
  <2>3. CASE Scratch
    BY <2>3, <2>2, IntsInt DEF Scratch
  <2>4. CASE Alloca
    BY <2>4, <2>1, <2>2, Members DEF Alloca, IInv, Layout, map
  <2>5. CASE Scalar
    <3>1. code[i].size \in Ints /\ code[i].dst \in Names \cup {NoName}
      BY <2>5, Members DEF Scalar, IInv, Layout
    <3> QED BY <2>5, <3>1, <2>1, <2>2, ScalarSizeInt DEF Scalar, var_slot, map
  <2>6. CASE ReturnSlot
    <3>1. code[i].rets[k].name \in Names /\ code[i].rets[k].size \in Ints
      <4>1. code[i].rets[k] \in Var
        BY <2>6, Members DEF ReturnSlot, IInv, Layout
      <4> QED BY <4>1 DEF Var
    <3> QED BY <2>6, <3>1, <2>2, ScalarSizeInt DEF ReturnSlot, var_slot
  <2>7. CASE Backpatch \/ Done
    BY <2>7, <2>1 DEF Backpatch, Done, vars, map
  <2> QED BY <2>3, <2>4, <2>5, <2>6, <2>7 DEF Next
<1> QED BY <1>1, Invariance, PTL DEF Spec, SlotsStable
-----------------------------------------------------------------------------
(***************************************************************************)
(* The first instruction that names a variable decides how large its slot  *)
(* is, for every procedure.                                                *)
(*                                                                         *)
(* IInv does not say where the names with a slot come from, so it allows a *)
(* name to have one before its first instruction.  Origins adds that each  *)
(* of them was named by an instruction alloc_slots has met; Sized is the   *)
(* property itself for those instructions.                                 *)
(***************************************************************************)
\* alloc_slots has asked for the destination of instruction j.
Seen(j) == j < i \/ (j = i /\ phase = "rets")

NamedIn(j) == {code[j].dst} \cup {code[j].rets[r].name : r \in 1 .. Len(code[j].rets)}
First(j) == code[j].dst # NoName /\ \A h \in 1 .. j - 1 : code[j].dst \notin NamedIn(h)

Origins ==
  \A n \in Met : n = FLOAT_SCRATCH \/ \E j \in Instrs : Seen(j) /\ n \in NamedIn(j)

Sized ==
  ~wrapped => \A j \in Instrs : Seen(j) /\ First(j) =>
    \A s \in Slots : slots[s].hash = code[j].dst => slots[s].size = Asked(j)

SInv == IInv /\ Origins /\ Sized

-----------------------------------------------------------------------------

\* slotmap_alloc adds one slot at most, and only for a name that has none.
LEMMA OneSlot ==
  ASSUME TypeOK, NEW h \in Names \cup {FLOAT_SCRATCH}, NEW n \in Ints, slotmap_alloc(h, n)
  PROVE  /\ Met' \subseteq Met \cup {h}
         /\ h \notin Met => \A s \in Slots' : slots'[s].hash = h => slots'[s].size = SlotSize(n)
         /\ \A s \in Slots' : slots'[s].hash \in Met => s \in Slots /\ slots'[s] = slots[s]
         /\ h \notin Met /\ ~wrapped' => SlotSize(n) = WholeWords(n)
<1>1. CASE slotmap_find(h) # {}
  <2>1. slots' = slots /\ Slots' = Slots
    BY <1>1 DEF slotmap_alloc, Slots, map
  <2>2. h \in Met
    BY <1>1 DEF slotmap_find, Met
  <2> QED BY <2>1, <2>2 DEF Met
<1>2. CASE slotmap_find(h) = {}
  <2> DEFINE new == [hash |-> h, bp_offset |-> next_offset', size |-> SlotSize(n)]
  <2>1. slots' = Append(slots, new) /\ new.hash = h /\ new.size = SlotSize(n)
    BY <1>2 DEF slotmap_alloc
  <2>2. new \in Slot
    <3>1. next_offset - SlotSize(n) \in Int /\ SlotSize(n) \in Nat
      BY SlotSizeWord DEF TypeOK
    <3>2. next_offset' \in Int
      BY <1>2, <3>1, WrapInt DEF slotmap_alloc
    <3> QED BY <3>1, <3>2 DEF Slot
  <2>7. ~wrapped' => SlotSize(n) = WholeWords(n)
    <3>1. ~wrapped' => ~(n + 7 > INT_MAX)
      BY <1>2 DEF slotmap_alloc, Overflows
    <3>2. n \in Int /\ INT_MAX \in Nat
      BY IntsInt
    <3> QED BY <3>1, <3>2, SlotSizeWord
  <2> HIDE DEF new
  <2>3. /\ Len(slots) \in Nat /\ Slots = 1 .. Len(slots) /\ Slots' = 1 .. Len(slots) + 1
        /\ \A s \in Slots : slots'[s] = slots[s]
        /\ slots'[Len(slots) + 1] = new
    BY <2>1, <2>2 DEF Slots, TypeOK
  <2>4. \A s \in Slots : slots[s].hash # h
    BY <1>2 DEF slotmap_find
  <2>5. \A s \in Slots' : s \in Slots \/ s = Len(slots) + 1
    BY <2>3
  <2>6. h \notin Met /\ h \in Met'
    BY <2>1, <2>3, <2>4 DEF Met
  <2> QED BY <2>1, <2>3, <2>4, <2>5, <2>6, <2>7 DEF Met
<1> QED BY <1>1, <1>2

\* A step that asks for one name at most keeps SInv, if the name belongs to an
\* instruction met by now, and an instruction met by this step is the first that
\* names its destination only if it asks for it here.
LEMMA SizedStep ==
  ASSUME SInv, IInv', UNCHANGED code,
         \A j \in Instrs : Seen(j) => Seen(j)',
         wrapped => wrapped',
         \/ UNCHANGED slots
         \/ \E h \in Names \cup {FLOAT_SCRATCH}, n \in Ints :
              /\ slotmap_alloc(h, n)
              /\ h = FLOAT_SCRATCH \/ \E j \in Instrs : Seen(j)' /\ h \in NamedIn(j),
         \A j \in Instrs : Seen(j)' /\ ~Seen(j) /\ First(j) =>
           /\ code[j].dst \notin Met
           /\ \E n \in Ints : /\ slotmap_alloc(code[j].dst, n)
                              /\ WholeWords(n) = Asked(j)
  PROVE  SInv'
<1>1. Instrs' = Instrs /\ TypeOK
  BY DEF Instrs, SInv, IInv, Layout
<1>2. \A j \in Instrs : /\ NamedIn(j)' = NamedIn(j) /\ First(j)' = First(j)
                        /\ Asked(j)' = Asked(j)
  BY DEF NamedIn, First, Asked
<1>3. \A s \in Slots' : slots'[s].hash \in Met => s \in Slots /\ slots'[s] = slots[s]
  <2>1. CASE UNCHANGED slots
    BY <2>1 DEF Slots
  <2>2. ASSUME NEW h \in Names \cup {FLOAT_SCRATCH}, NEW n \in Ints, slotmap_alloc(h, n)
        PROVE  \A s \in Slots' : slots'[s].hash \in Met => s \in Slots /\ slots'[s] = slots[s]
    BY <2>2, <1>1, OneSlot
  <2> QED BY <2>1, <2>2
<1>4. Origins'
  <2> SUFFICES ASSUME NEW n \in Met', n # FLOAT_SCRATCH
               PROVE  \E j \in Instrs : Seen(j)' /\ n \in NamedIn(j)
    BY <1>1, <1>2 DEF Origins
  <2>1. CASE n \in Met
    BY <2>1 DEF SInv, Origins
  <2>2. CASE n \notin Met
    <3>1. ~(UNCHANGED slots)
      BY <2>2 DEF Met, Slots
    <3> QED BY <3>1, <2>2, <1>1, OneSlot
  <2> QED BY <2>1, <2>2
<1>5. Sized'
  <2> SUFFICES ASSUME NEW j \in Instrs, Seen(j)', First(j),
                      NEW s \in Slots', slots'[s].hash = code[j].dst, ~wrapped'
               PROVE  slots'[s].size = Asked(j)
    BY <1>1, <1>2 DEF Sized
  <2>1. CASE Seen(j)
    <3>1. code[j].dst \in Met
      BY <2>1 DEF SInv, IInv, Covered, Seen, First
    <3> QED BY <3>1, <2>1, <1>3 DEF SInv, Sized
  <2>2. CASE ~Seen(j)
    <3>1. PICK n \in Ints : slotmap_alloc(code[j].dst, n) /\ WholeWords(n) = Asked(j)
      BY <2>2
    <3>2. code[j].dst \notin Met /\ code[j].dst \in Names
      BY <2>2, <1>1, Members DEF First
    <3> QED BY <3>1, <3>2, <1>1, OneSlot
  <2> QED BY <2>1, <2>2
<1> QED BY <1>4, <1>5 DEF SInv

\* A destination that no earlier instruction names has no slot yet.
LEMMA FirstIsFresh ==
  ASSUME SInv, phase = "instr", i \in Instrs, First(i)
  PROVE  code[i].dst \in Names /\ code[i].dst \notin Met
<1>1. code[i].dst \in Names
  BY Members DEF First, SInv, IInv, Layout
<1>2. \A j \in Instrs : Seen(j) => j \in 1 .. i - 1
  BY Members DEF Seen, Instrs, SInv, IInv, Layout
<1> QED BY <1>1, <1>2, FrameAssumption DEF SInv, Origins, First

\* slotmap_alloc never forgets that an int has overflowed.
LEMMA Sticky ==
  ASSUME NEW h, NEW n, slotmap_alloc(h, n)
  PROVE  wrapped => wrapped'
BY DEF slotmap_alloc, map

\* A scalar's slot is one word.
LEMMA ScalarSlot ==
  ASSUME NEW n \in Ints
  PROVE  WholeWords(ScalarSize(n)) = 8
BY IntsInt DEF WholeWords, ScalarSize

LEMMA ScratchSized ==
  ASSUME SInv, IInv', Scratch
  PROVE  SInv'
<1>1. phase = "scratch" /\ phase' = "instr" /\ UNCHANGED <<code, i>> /\ slotmap_alloc(FLOAT_SCRATCH, 8)
  BY DEF Scratch
<1>2. \A j \in Instrs : Seen(j) <=> Seen(j)'
  BY <1>1 DEF Seen
<1> QED BY <1>1, <1>2, IntsInt, Sticky, SizedStep

LEMMA AllocaSized ==
  ASSUME SInv, IInv', Alloca
  PROVE  SInv'
<1>1. /\ phase = "instr" /\ phase' = "instr" /\ i \in Instrs /\ i \in Nat /\ i' = i + 1
      /\ UNCHANGED code /\ code[i].op = "ALLOCA" /\ Instrs \subseteq Nat
      /\ code[i].dst \in Names \cup {NoName} /\ code[i].nbytes \in Ints
  BY Members DEF Alloca, SInv, IInv, Layout, Instrs
<1>2. \A j \in Instrs : Seen(j)' <=> Seen(j) \/ j = i
  BY <1>1 DEF Seen
<1>3. CASE code[i].dst = NoName
  <2>1. UNCHANGED <<slots, wrapped>>
    BY <1>3, <1>1 DEF Alloca, map
  <2> QED BY <2>1, <1>1, <1>2, <1>3, SizedStep DEF First
<1>4. CASE code[i].dst # NoName
  <2>1. code[i].dst \in Names /\ slotmap_alloc(code[i].dst, code[i].nbytes)
    BY <1>1, <1>4 DEF Alloca
  <2>2. code[i].dst \in NamedIn(i) /\ WholeWords(code[i].nbytes) = Asked(i)
    BY <1>1 DEF NamedIn, Asked
  <2>3. First(i) => code[i].dst \notin Met
    BY <1>1, FirstIsFresh
  <2> QED BY <2>1, <2>2, <2>3, <1>1, <1>2, Sticky, SizedStep
<1> QED BY <1>3, <1>4

LEMMA ScalarSized ==
  ASSUME SInv, IInv', Scalar
  PROVE  SInv'
<1>1. /\ phase = "instr" /\ i \in Instrs /\ i \in Nat /\ UNCHANGED code
      /\ code[i].op # "ALLOCA" /\ Instrs \subseteq Nat
      /\ code[i].dst \in Names \cup {NoName} /\ code[i].size \in Ints
      /\ (phase' = "rets" /\ i' = i) \/ (phase' = "instr" /\ i' = i + 1)
  BY Members DEF Scalar, SInv, IInv, Layout, Instrs
<1>2. \A j \in Instrs : Seen(j)' <=> Seen(j) \/ j = i
  BY <1>1 DEF Seen
<1>3. CASE code[i].dst = NoName
  <2>1. UNCHANGED <<slots, wrapped>>
    BY <1>3 DEF Scalar, map
  <2> QED BY <2>1, <1>1, <1>2, <1>3, SizedStep DEF First
<1>4. CASE code[i].dst # NoName
  <2>1. /\ code[i].dst \in Names /\ slotmap_alloc(code[i].dst, ScalarSize(code[i].size))
        /\ ScalarSize(code[i].size) \in Ints
    BY <1>1, <1>4, ScalarSizeInt DEF Scalar, var_slot
  <2>2. code[i].dst \in NamedIn(i) /\ WholeWords(ScalarSize(code[i].size)) = Asked(i)
    BY <1>1, ScalarSlot DEF NamedIn, Asked
  <2>3. First(i) => code[i].dst \notin Met
    BY <1>1, FirstIsFresh
  <2> QED BY <2>1, <2>2, <2>3, <1>1, <1>2, Sticky, SizedStep
<1> QED BY <1>3, <1>4

LEMMA ReturnSlotSized ==
  ASSUME SInv, IInv', ReturnSlot
  PROVE  SInv'
<1> DEFINE v == code[i].rets[k]
<1>1. /\ phase = "rets" /\ i \in Instrs /\ i \in Nat /\ k \in 1 .. Len(code[i].rets)
      /\ UNCHANGED code /\ Instrs \subseteq Nat /\ code[i].rets \in Seq(Var)
      /\ (phase' = "rets" /\ i' = i) \/ (phase' = "instr" /\ i' = i + 1)
      /\ slotmap_alloc(v.name, ScalarSize(v.size))
  BY Members DEF ReturnSlot, var_slot, SInv, IInv, Layout, Instrs
<1>2. v.name \in Names /\ ScalarSize(v.size) \in Ints /\ v.name \in NamedIn(i)
  <2>1. v \in Var
    BY <1>1
  <2> QED BY <2>1, <1>1, ScalarSizeInt DEF Var, NamedIn
<1>3. \A j \in Instrs : Seen(j)' <=> Seen(j)
  BY <1>1 DEF Seen
<1>4. Seen(i)
  BY <1>1 DEF Seen
<1> HIDE DEF v
<1> QED BY <1>1, <1>2, <1>3, <1>4, Sticky, SizedStep

-----------------------------------------------------------------------------

\* The first instruction that names a variable decides the size of its slot.
THEOREM FirstDecides == Spec => []FirstRequestFits
<1>1. Init => Origins /\ Sized
  <2> SUFFICES ASSUME Init PROVE Origins /\ Sized
    OBVIOUS
  <2>1. Slots = {} /\ Met = {}
    BY DEF Init, Slots, Met
  <2> QED BY <2>1 DEF Origins, Sized
<1>2. IInv /\ Origins /\ Sized /\ IInv' /\ [Next]_vars => Origins' /\ Sized'
  <2> SUFFICES ASSUME SInv, IInv', [Next]_vars
               PROVE  SInv'
    BY DEF SInv
  <2>1. CASE UNCHANGED vars \/ Done \/ Backpatch
    <3>1. UNCHANGED <<code, slots, i, wrapped>> /\ (phase' = phase \/ (phase = "instr" /\ phase' = "done"))
      BY <2>1 DEF vars, Done, Backpatch, map
    <3>2. \A j \in Instrs : Seen(j)' <=> Seen(j)
      BY <3>1 DEF Seen
    <3> QED BY <3>1, <3>2, SizedStep
  <2> QED BY <2>1, ScratchSized, AllocaSized, ScalarSized, ReturnSlotSized DEF Next
<1>3. IInv /\ Sized => FirstRequestFits
  <2> SUFFICES ASSUME IInv, Sized, ~wrapped, phase = "done", NEW j \in Instrs, First(j)
               PROVE  \A s \in slotmap_find(code[j].dst) : slots[s].size = Asked(j)
    BY DEF FirstRequestFits, First, NamedIn
  <2>1. Seen(j)
    BY Members DEF IInv, Layout, Covered, Instrs, Seen
  <2> QED BY <2>1 DEF Sized, slotmap_find
<1> QED BY <1>1, <1>2, <1>3, Invariance, PTL DEF Spec
=============================================================================
