------------------------------- MODULE Arena -------------------------------
(***************************************************************************)
(* The compiler's arena (src/arena.c): a chain of blocks, newest first in  *)
(* the code and last in chain here, with bump allocation in the newest and *)
(* mark / restore for scratch allocations.                                 *)
(*                                                                         *)
(* chain and total are the fields of struct Arena.  log and marks are      *)
(* history: the storage its clients hold and the positions they saved.     *)
(*                                                                         *)
(* Nothing in src/ calls arena_mark or arena_restore; they are modelled as *)
(* arena.c defines them, for any order of calls.  src/inc/arena.h:56 calls *)
(* a restore safe only if no block boundary was crossed since the mark.    *)
(* arena.c asks for less, since it frees the blocks in between: the        *)
(* properties below hold of restores across blocks too, and so disagree    *)
(* with that comment.  A size is a natural number: the wraparound of       *)
(* size_t in align8 and in used + size is not modelled.                    *)
(***************************************************************************)
EXTENDS Integers, Sequences

CONSTANTS
  BlockSizes,   (* block sizes a client passes to arena_init, 0 for the default *)
  Requests,     (* sizes a client asks for, in bytes                            *)
  MaxBlocks,    (* bound on the blocks obtained from malloc                     *)
  MaxLog,       (* bound on the allocations held at a time                      *)
  MaxMarks,     (* bound on the marks held at a time                            *)
  MaxTotal      (* bound on the bytes allocated between arena_init and arena_free *)

ASSUME ArenaAssumption ==
  /\ BlockSizes \subseteq Nat
  /\ Requests \subseteq Nat
  /\ MaxBlocks \in Nat /\ MaxLog \in Nat /\ MaxMarks \in Nat /\ MaxTotal \in Nat

VARIABLES
  chain,    (* <<oldest block, ..., head>>, <<>> before init and after free *)
  blksz,    (* the default capacity of a new block                          *)
  total,    (* the debug counter                                            *)
  fresh,    (* number of blocks malloc has handed out: their identity       *)
  aborted,  (* block_new found no memory                                    *)
  log,      (* history: the allocations the clients hold, oldest first      *)
  marks     (* history: the marks the clients may still restore             *)

vars == <<chain, blksz, total, fresh, aborted, log, marks>>

ARENA_ALIGN == 8
ARENA_DEFAULT_BLOCK == 64 * 1024

\* Variant: no rounding.
align8_none(n) == n

align8(n) == ARENA_ALIGN * ((n + (ARENA_ALIGN - 1)) \div ARENA_ALIGN)

\* arena_alloc never returns a zero-size allocation.
AllocSize(sz) == IF align8(sz) = 0 THEN ARENA_ALIGN ELSE align8(sz)

Block == [id : Nat, cap : Nat, used : Nat]
Allocation == [blk : Nat, off : Nat, len : Nat]
Mark == [blk : Nat, used : Nat, held : Nat]

head == chain[Len(chain)]
Blocks == 1 .. Len(chain)

\* The first n elements of s.
Prefix(s, n) == SubSeq(s, 1, n)

Init ==
  /\ chain = <<>> /\ log = <<>> /\ marks = <<>>
  /\ blksz = 0 /\ total = 0 /\ fresh = 0
  /\ aborted = FALSE

\* malloc may have no memory for the block that is needed: the process aborts.
OutOfMemory ==
  /\ aborted' = TRUE
  /\ UNCHANGED <<chain, blksz, total, fresh, log, marks>>

ArenaInit(size) ==
  /\ ~aborted /\ chain = <<>> /\ fresh < MaxBlocks
  /\ blksz' = IF size = 0 THEN ARENA_DEFAULT_BLOCK ELSE size
  /\ total' = 0
  /\ chain' = <<[id |-> fresh + 1, cap |-> blksz', used |-> 0]>>
  /\ fresh' = fresh + 1
  /\ UNCHANGED <<aborted, log, marks>>

InitFails == ~aborted /\ chain = <<>> /\ fresh < MaxBlocks /\ OutOfMemory

\* Variant: only what is used is compared.
Fits_used(sz) == head.used < head.cap

Fits(sz) == head.used + sz <= head.cap

AllocFast(n) ==
  LET sz == AllocSize(n) IN
  /\ ~aborted /\ chain # <<>> /\ Len(log) < MaxLog /\ total + sz <= MaxTotal
  /\ Fits(sz)
  /\ log' = Append(log, [blk |-> head.id, off |-> head.used, len |-> sz])
  /\ chain' = [chain EXCEPT ![Len(chain)].used = @ + sz]
  /\ total' = total + sz
  /\ UNCHANGED <<blksz, fresh, aborted, marks>>

\* Variant: the new block is not linked to the chain.
AllocSlow_unlinked(n) ==
  LET sz == AllocSize(n) IN
  /\ ~aborted /\ chain # <<>> /\ Len(log) < MaxLog /\ fresh < MaxBlocks
  /\ total + sz <= MaxTotal /\ ~Fits(sz)
  /\ chain' = <<[id |-> fresh + 1, cap |-> IF sz > blksz THEN sz ELSE blksz,
                 used |-> sz]>>
  /\ log' = Append(log, [blk |-> fresh + 1, off |-> 0, len |-> sz])
  /\ total' = total + sz /\ fresh' = fresh + 1
  /\ UNCHANGED <<blksz, aborted, marks>>

AllocSlow(n) ==
  LET sz == AllocSize(n) IN
  /\ ~aborted /\ chain # <<>> /\ Len(log) < MaxLog /\ fresh < MaxBlocks
  /\ total + sz <= MaxTotal
  /\ ~Fits(sz)
  /\ \/ /\ chain' = Append(chain, [id   |-> fresh + 1,
                                   cap  |-> IF sz > blksz THEN sz ELSE blksz,
                                   used |-> sz])
        /\ log' = Append(log, [blk |-> fresh + 1, off |-> 0, len |-> sz])
        /\ total' = total + sz
        /\ fresh' = fresh + 1
        /\ UNCHANGED <<blksz, aborted, marks>>
     \/ OutOfMemory

\* Variant: the mark names the block but not the position in it.
TakeMark_block ==
  /\ ~aborted /\ chain # <<>> /\ Len(marks) < MaxMarks
  /\ marks' = Append(marks, [blk |-> head.id, used |-> 0, held |-> Len(log)])
  /\ UNCHANGED <<chain, blksz, total, fresh, aborted, log>>

TakeMark ==
  /\ ~aborted /\ chain # <<>> /\ Len(marks) < MaxMarks
  /\ marks' = Append(marks, [blk |-> head.id, used |-> head.used,
                             held |-> Len(log)])
  /\ UNCHANGED <<chain, blksz, total, fresh, aborted, log>>

\* Variant: everything down to the oldest block is freed.
Marked_oldest(m) == 1

\* The index of the marked block: the loop of arena_restore frees what is newer.
Marked(m) == CHOOSE k \in Blocks : chain[k].id = m.blk

\* Variant: used is left as it is.
Restore_used(i) ==
  /\ ~aborted /\ chain # <<>>
  /\ chain' = Prefix(chain, Marked(marks[i]))
  /\ log' = Prefix(log, marks[i].held)
  /\ marks' = Prefix(marks, i)
  /\ UNCHANGED <<blksz, total, fresh, aborted>>

\* Restoring a mark gives up what was allocated after it and the later marks.
Restore(i) ==
  LET m == marks[i]
      k == Marked(m)
  IN  /\ ~aborted /\ chain # <<>>
      /\ chain' = Append(Prefix(chain, k - 1), [chain[k] EXCEPT !.used = m.used])
      /\ log' = Prefix(log, m.held)
      /\ marks' = Prefix(marks, i)
      /\ UNCHANGED <<blksz, total, fresh, aborted>>

ArenaFree ==
  /\ ~aborted /\ chain # <<>>
  /\ chain' = <<>> /\ total' = 0
  /\ log' = <<>> /\ marks' = <<>>
  /\ UNCHANGED <<blksz, fresh, aborted>>

Next ==
  \/ \E size \in BlockSizes : ArenaInit(size)
  \/ InitFails
  \/ \E n \in Requests : AllocFast(n) \/ AllocSlow(n)
  \/ TakeMark
  \/ \E i \in 1 .. Len(marks) : Restore(i)
  \/ ArenaFree

Spec == Init /\ [][Next]_vars

-----------------------------------------------------------------------------
(* Properties *)

\* Every variable has the type of the field or of the history it stands for.
TypeOK ==
  /\ chain \in Seq(Block) /\ log \in Seq(Allocation) /\ marks \in Seq(Mark)
  /\ blksz \in Nat /\ total \in Nat /\ fresh \in Nat
  /\ aborted \in BOOLEAN

\* Storage a client still holds is inside the used part of a block of the
\* chain: no restore, block switch or oversized block takes it away.  This
\* includes restores across blocks, which arena.h:56 calls unsafe.
HeldInside ==
  \A i \in 1 .. Len(log) : \E k \in Blocks :
     /\ chain[k].id = log[i].blk
     /\ log[i].off + log[i].len <= chain[k].used

\* No two allocations a client holds share a byte, whatever was marked,
\* restored and reallocated in between, across blocks too (arena.h:56 says
\* that this is not safe).
HeldDisjoint ==
  \A i, j \in 1 .. Len(log) :
     i < j /\ log[i].blk = log[j].blk => log[i].off + log[i].len <= log[j].off

\* arena_restore's loop finds the block of every mark a client may restore
\* before the chain ends, and never moves used forward: also when blocks were
\* added since the mark, the use arena.h:56 excludes.
MarksReachable ==
  \A i \in 1 .. Len(marks) : \E k \in Blocks :
     /\ chain[k].id = marks[i].blk
     /\ marks[i].used <= chain[k].used

\* A restore gives back everything allocated after the mark, and nothing else:
\* in every block the held allocations lie end to end from 0 up to used, also
\* after restores across blocks (arena.h:56).
NothingLeaks ==
  \A k \in Blocks :
     LET here == {i \in 1 .. Len(log) : log[i].blk = chain[k].id} IN
     {log[i].off : i \in here} \cup {chain[k].used}
       = {0} \cup {log[i].off + log[i].len : i \in here}

\* All storage is handed out at multiples of the alignment.
HeldAligned == \A i \in 1 .. Len(log) : log[i].off % ARENA_ALIGN = 0

\* A block never hands out more than its capacity, for sizes whose sum with
\* used does not wrap around in a size_t.
WithinCapacity == \A k \in Blocks : chain[k].used <= chain[k].cap
=============================================================================
