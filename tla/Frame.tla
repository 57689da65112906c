------------------------------- MODULE Frame -------------------------------
(***************************************************************************)
(* The stack frame of one procedure (src/ir_codegen.c): alloc_slots walks  *)
(* the procedure's instructions before any code is emitted and gives every *)
(* name it meets a slot below bp; emit_proc then writes the frame size     *)
(* into the ENTER it has already emitted.                                  *)
(*                                                                         *)
(* An instruction is reduced to what alloc_slots reads of it: op, its      *)
(* destination, the nbytes of an IR_ALLOCA, the type size of a scalar      *)
(* destination, and the return slots of an IR_CALL.                        *)
(*                                                                         *)
(* All sizes and offsets are C ints.  The nbytes of an IR_ALLOCA is a      *)
(* size_t, but one made of an int (agg_size, ir.c:202, and the product of  *)
(* an array literal, ir.c:440), so the cast at ir_codegen.c:146 gives that *)
(* int back, a negative one included.  Sums that leave the range of an int *)
(* wrap around, as the build does it; wrapped is history and records that  *)
(* one has.                                                                *)
(***************************************************************************)
EXTENDS Integers, Sequences

CONSTANTS
  Names,      (* variable names, as the hashes the slot map is keyed by       *)
  NoName,     (* the hash of VAR_NULL                                         *)
  Codes,      (* the instruction sequences alloc_slots may be called on       *)
  INT_MAX     (* the largest int, 2^31 - 1 in the build                       *)

Ints == -INT_MAX - 1 .. INT_MAX

\* What an int holds after a sum or difference of two ints.
Wrap(n) ==
  IF n > INT_MAX THEN n - 2 * (INT_MAX + 1)
  ELSE IF n < -INT_MAX - 1 THEN n + 2 * (INT_MAX + 1)
  ELSE n

Var == [name : Names, size : Ints]
Instr == [op     : {"ALLOCA", "CALL", "OTHER"},
          dst    : Names \cup {NoName},
          size   : Ints,           \* dst.type->size, 0 for an untyped word
          nbytes : Ints,           \* (int)n->nbytes
          rets   : Seq(Var)]

\* FLOAT_SCRATCH_HASH, a sentinel no atom hashes to.
FLOAT_SCRATCH == "float scratch"

ASSUME FrameAssumption ==
  /\ NoName \notin Names
  /\ FLOAT_SCRATCH \notin Names
  /\ INT_MAX \in Nat /\ INT_MAX >= 15
  /\ Codes \subseteq Seq(Instr)

VARIABLES
  code,     (* proc->instrs                                                 *)
  phase,    (* what alloc_slots and emit_proc do next                       *)
  i,        (* index of the instruction alloc_slots is at                   *)
  k,        (* index of the return slot of a call it is at                  *)
  slots,    (* SlotMap.slots, in the order of allocation                    *)
  next_offset,
  frame_size,
  enter,    (* the operand of the emitted ENTER                             *)
  wrapped   (* history: the sizes asked for have left the range of an int   *)

vars == <<code, phase, i, k, slots, next_offset, frame_size, enter, wrapped>>

map == <<slots, next_offset, frame_size, wrapped>>

Slot == [hash : Names \cup {FLOAT_SCRATCH}, bp_offset : Int, size : Nat]

Instrs == 1 .. Len(code)
Slots == 1 .. Len(slots)

slotmap_find(hash) == {s \in Slots : slots[s].hash = hash}

\* size rounded up to a multiple of 8, and at least one word.
SlotSize(size) ==
  LET up == 8 * (Wrap(size + 7) \div 8) IN IF up < 8 THEN 8 ELSE up

\* An int of the call for size bytes is too small for its value.
Overflows(size) ==
  \/ size + 7 > INT_MAX
  \/ next_offset - SlotSize(size) < -INT_MAX

\* Variants: the frame size is not kept; the slot is placed before the
\* offset moves; a slot that is too small is widened.
slotmap_alloc_unkept(hash, size) ==
  IF slotmap_find(hash) # {}
  THEN UNCHANGED map
  ELSE /\ next_offset' = Wrap(next_offset - SlotSize(size))
       /\ wrapped' = (wrapped \/ Overflows(size))
       /\ slots' = Append(slots, [hash |-> hash, bp_offset |-> next_offset',
                                  size |-> SlotSize(size)])
       /\ UNCHANGED frame_size
slotmap_alloc_early(hash, size) ==
  IF slotmap_find(hash) # {}
  THEN UNCHANGED map
  ELSE /\ next_offset' = Wrap(next_offset - SlotSize(size))
       /\ wrapped' = (wrapped \/ Overflows(size))
       /\ slots' = Append(slots, [hash |-> hash, bp_offset |-> next_offset,
                                  size |-> SlotSize(size)])
       /\ frame_size' = Wrap(-next_offset')
slotmap_alloc_widen(hash, size) ==
  IF slotmap_find(hash) # {}
  THEN /\ slots' = [s \in Slots |-> IF slots[s].hash = hash /\ slots[s].size < SlotSize(size)
                                    THEN [slots[s] EXCEPT !.size = SlotSize(size)]
                                    ELSE slots[s]]
       /\ UNCHANGED <<next_offset, frame_size, wrapped>>
  ELSE /\ next_offset' = Wrap(next_offset - SlotSize(size))
       /\ wrapped' = (wrapped \/ Overflows(size))
       /\ slots' = Append(slots, [hash |-> hash, bp_offset |-> next_offset',
                                  size |-> SlotSize(size)])
       /\ frame_size' = Wrap(-next_offset')

\* The slot map after slotmap_alloc: a name that is present keeps its slot.
slotmap_alloc(hash, size) ==
  IF slotmap_find(hash) # {}
  THEN UNCHANGED map
  ELSE /\ next_offset' = Wrap(next_offset - SlotSize(size))
       /\ wrapped' = (wrapped \/ Overflows(size))
       /\ slots' = Append(slots, [hash |-> hash, bp_offset |-> next_offset',
                                  size |-> SlotSize(size)])
       /\ frame_size' = IF Wrap(-next_offset') > frame_size THEN Wrap(-next_offset')
                        ELSE frame_size

\* Variant: no clamp.
ScalarSize_type(size) == IF size <= 0 THEN 8 ELSE size

\* A scalar is clamped to one word, whatever the size of its type.
ScalarSize(size) == IF size <= 0 \/ size > 8 THEN 8 ELSE size

var_slot(v) == slotmap_alloc(v.name, ScalarSize(v.size))

Init ==
  /\ code \in Codes
  /\ phase = "scratch" /\ i = 1 /\ k = 1
  /\ slots = <<>> /\ next_offset = 0 /\ frame_size = 0
  /\ enter = 0 /\ wrapped = FALSE

\* Variant: the float scratch word is forgotten.
Scratch_skip == phase = "scratch" /\ phase' = "instr"
                /\ UNCHANGED <<code, i, k, enter, map>>

\* The float scratch word is allocated first.
Scratch ==
  /\ phase = "scratch"
  /\ slotmap_alloc(FLOAT_SCRATCH, 8)
  /\ phase' = "instr"
  /\ UNCHANGED <<code, i, k, enter>>

Alloca ==
  /\ phase = "instr" /\ i \in Instrs /\ code[i].op = "ALLOCA"
  /\ IF code[i].dst # NoName
     THEN slotmap_alloc(code[i].dst, code[i].nbytes)
     ELSE UNCHANGED map
  /\ i' = i + 1
  /\ UNCHANGED <<code, phase, k, enter>>

\* Variant: the return slots of a call are forgotten.
Scalar_norets ==
  /\ phase = "instr" /\ i \in Instrs /\ code[i].op # "ALLOCA"
  /\ IF code[i].dst # NoName
     THEN var_slot([name |-> code[i].dst, size |-> code[i].size])
     ELSE UNCHANGED map
  /\ i' = i + 1
  /\ UNCHANGED <<code, phase, k, enter>>

\* Any other instruction: a scalar slot for dst, then the return slots of a call.
Scalar ==
  /\ phase = "instr" /\ i \in Instrs /\ code[i].op # "ALLOCA"
  /\ IF code[i].dst # NoName
     THEN var_slot([name |-> code[i].dst, size |-> code[i].size])
     ELSE UNCHANGED map
  /\ IF code[i].op = "CALL" /\ code[i].rets # <<>>
     THEN phase' = "rets" /\ k' = 1 /\ UNCHANGED i
     ELSE i' = i + 1 /\ UNCHANGED <<phase, k>>
  /\ UNCHANGED <<code, enter>>

ReturnSlot ==
  /\ phase = "rets" /\ i \in Instrs /\ k \in 1 .. Len(code[i].rets)
  /\ var_slot(code[i].rets[k])
  /\ IF k = Len(code[i].rets)
     THEN phase' = "instr" /\ i' = i + 1 /\ UNCHANGED k
     ELSE k' = k + 1 /\ UNCHANGED <<phase, i>>
  /\ UNCHANGED <<code, enter>>

\* The placeholder has room for four characters: snprintf writes the decimal
\* digits of an int, at most ten, and memcpy takes the first four.
Dropped(n) ==
  IF n < 10000 THEN 1 ELSE IF n < 100000 THEN 10 ELSE IF n < 1000000 THEN 100
  ELSE IF n < 10000000 THEN 1000 ELSE IF n < 100000000 THEN 10000
  ELSE IF n < 1000000000 THEN 100000 ELSE 1000000

\* Variant: three characters.
EnterOperand_three(n) == IF n < 1000 THEN n ELSE n \div (10 * Dropped(n))

EnterOperand(n) == n \div Dropped(n)

\* All instructions are emitted (a slot for every dst exists, so emission adds
\* none) and the operand of ENTER is patched.
Backpatch ==
  /\ phase = "instr" /\ i = Len(code) + 1
  /\ enter' = EnterOperand(frame_size)
  /\ phase' = "done"
  /\ UNCHANGED <<code, i, k, map>>

Done == phase = "done" /\ UNCHANGED vars

Next == Scratch \/ Alloca \/ Scalar \/ ReturnSlot \/ Backpatch \/ Done

Spec == Init /\ [][Next]_vars

-----------------------------------------------------------------------------
(* Properties *)

TypeOK ==
  /\ code \in Codes
  /\ phase \in {"scratch", "instr", "rets", "done"}
  /\ i \in 1 .. Len(code) + 1 /\ k \in Nat \ {0}
  /\ slots \in Seq(Slot) /\ next_offset \in Int /\ frame_size \in Nat
  /\ enter \in Nat /\ wrapped \in BOOLEAN

\* No two names share a byte of the frame, unless the sizes of the procedure's
\* locals have left the range of an int.
SlotsDisjoint ==
  wrapped \/ \A s, t \in Slots : s # t =>
     \/ slots[s].bp_offset + slots[s].size <= slots[t].bp_offset
     \/ slots[t].bp_offset + slots[t].size <= slots[s].bp_offset

\* Every slot lies below bp and within frame_size bytes of it: the size that
\* slotmap_alloc computes covers every local, unless an int has overflowed.
\* What the ENTER instruction then reserves is EnterCoversFrame's subject.
SlotsInFrame ==
  wrapped \/ \A s \in Slots : /\ -frame_size <= slots[s].bp_offset
                              /\ slots[s].bp_offset + slots[s].size <= 0

\* [bp-8], which the float spills use by its literal offset, belongs to the
\* scratch sentinel: no variable is placed there before an int overflows.
ScratchReserved ==
  wrapped \/ phase = "scratch" \/
    \A s \in Slots : slots[s].bp_offset + slots[s].size > -8
                       => slots[s].hash = FLOAT_SCRATCH

\* The least positive number of whole words that holds n bytes.
WholeWords(n) == IF n <= 0 THEN 8 ELSE 8 * ((n + 7) \div 8)

Asked(j) == IF code[j].op = "ALLOCA" THEN WholeWords(code[j].nbytes) ELSE 8

\* Once the pass is over, every destination and every return slot has exactly
\* one slot: emission never grows the frame after ENTER has been sized.
EveryDstHasASlot ==
  phase = "done" =>
    \A j \in Instrs :
       /\ code[j].dst # NoName =>
             \E s \in Slots : slotmap_find(code[j].dst) = {s}
       /\ code[j].op = "CALL" =>
             \A r \in 1 .. Len(code[j].rets) :
                \E s \in Slots : slotmap_find(code[j].rets[r].name) = {s}

\* The first instruction that names a variable decides the size of its slot, as
\* long as no int has overflowed: an IR_ALLOCA gets the bytes of (int)nbytes.
FirstRequestFits ==
  ~wrapped /\ phase = "done" =>
    \A j \in Instrs :
       (/\ code[j].dst # NoName
        /\ \A h \in 1 .. j - 1 :
              /\ code[h].dst # code[j].dst
              /\ \A r \in 1 .. Len(code[h].rets) :
                    code[h].rets[r].name # code[j].dst)
       => \A s \in slotmap_find(code[j].dst) : slots[s].size = Asked(j)

\* The ENTER of the procedure reserves the whole frame exactly when the size of
\* the frame has four digits at most (ir_codegen.c:713); also after an overflow,
\* when frame_size is no longer the size of the frame.
EnterCoversFrame == phase = "done" => (enter >= frame_size <=> frame_size < 10000)

\* A slot, once given, is never moved, resized or taken away.
SlotsStable ==
  [][\A s \in Slots : s \in 1 .. Len(slots') /\ slots'[s] = slots[s]]_vars
=============================================================================
