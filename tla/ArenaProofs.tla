---------------------------- MODULE ArenaProofs ----------------------------
(***************************************************************************)
(* The storage a client of the arena holds stays its own, for every block  *)
(* size, request and interleaving of marks and restores.                   *)
(*                                                                         *)
(* HeldInside and HeldDisjoint are not inductive: a restore keeps the      *)
(* allocations older than the mark, so the invariant has to say where the  *)
(* allocations lie relative to every mark.  Storage is handed out in       *)
(* increasing position (block identity, offset); IInv orders the blocks,   *)
(* the allocations, the marks, and the allocations before each mark.       *)
(***************************************************************************)
EXTENDS Arena, TLAPS

\* Allocation a ends at or before position off of block blk.
Behind(a, blk, off) ==
  \/ a.blk < blk
  \/ a.blk = blk /\ a.off + a.len <= off

BlocksOrdered ==
  /\ \A k, l \in Blocks : k < l => chain[k].id < chain[l].id
  /\ \A k \in Blocks : chain[k].id <= fresh

HeldOrdered ==
  \A i, j \in 1 .. Len(log) : i < j => Behind(log[i], log[j].blk, log[j].off)

MarksHold ==
  \A i \in 1 .. Len(marks) :
     /\ marks[i].held <= Len(log)
     /\ \A a \in 1 .. marks[i].held : Behind(log[a], marks[i].blk, marks[i].used)

MarksOrdered ==
  \A i, j \in 1 .. Len(marks) : i < j =>
     /\ marks[i].held <= marks[j].held
     /\ \/ marks[i].blk < marks[j].blk
        \/ marks[i].blk = marks[j].blk /\ marks[i].used <= marks[j].used

IInv ==
  /\ TypeOK
  /\ BlocksOrdered /\ HeldInside /\ HeldOrdered
  /\ MarksReachable /\ MarksHold /\ MarksOrdered

-----------------------------------------------------------------------------

\* A request of n bytes is rounded to a size that is at least n and not zero.
LEMMA AllocSizeCovers ==
  ASSUME NEW n \in Nat
  PROVE  AllocSize(n) \in Nat /\ AllocSize(n) > 0 /\ AllocSize(n) >= n
BY DEF AllocSize, align8, ARENA_ALIGN

\* What the members of each kind of sequence look like.
LEMMA Fields ==
  /\ \A s \in Seq(Block) :
        /\ Len(s) \in Nat
        /\ \A i \in 1 .. Len(s) : s[i] \in Block /\ s[i].id \in Nat /\ s[i].used \in Nat
  /\ \A s \in Seq(Allocation) :
        /\ Len(s) \in Nat
        /\ \A i \in 1 .. Len(s) :
              s[i] \in Allocation /\ s[i].blk \in Nat /\ s[i].off \in Nat /\ s[i].len \in Nat
  /\ \A s \in Seq(Mark) :
        /\ Len(s) \in Nat
        /\ \A i \in 1 .. Len(s) :
              s[i] \in Mark /\ s[i].blk \in Nat /\ s[i].used \in Nat /\ s[i].held \in Nat
<1>1. \A b \in Block : b.id \in Nat /\ b.used \in Nat
  BY DEF Block
<1>2. \A a \in Allocation : a.blk \in Nat /\ a.off \in Nat /\ a.len \in Nat
  BY DEF Allocation
<1>3. \A m \in Mark : m.blk \in Nat /\ m.used \in Nat /\ m.held \in Nat
  BY DEF Mark
<1> QED BY <1>1, <1>2, <1>3

\* The head is the newest block: every held allocation and every mark is at or
\* behind its bump pointer.
LEMMA HeadIsLast ==
  ASSUME IInv, chain # <<>>
  PROVE  /\ Len(chain) \in Blocks /\ head \in Block
         /\ \A i \in 1 .. Len(log) : Behind(log[i], head.id, head.used)
         /\ \A i \in 1 .. Len(marks) :
               \/ marks[i].blk < head.id
               \/ marks[i].blk = head.id /\ marks[i].used <= head.used
<1>1. chain \in Seq(Block) /\ Len(chain) \in Nat /\ Len(chain) > 0
  BY DEF IInv, TypeOK
<1>2. Len(chain) \in Blocks /\ head \in Block
  BY <1>1 DEF Blocks, head
<1>3. \A k \in Blocks : \/ k = Len(chain)
                         \/ chain[k].id < head.id
  BY <1>1, <1>2 DEF IInv, BlocksOrdered, Blocks, head
<1>4. \A i \in 1 .. Len(log) : Behind(log[i], head.id, head.used)
  BY <1>2, <1>3 DEF IInv, HeldInside, Behind, head
<1>5. \A i \in 1 .. Len(marks) :
               \/ marks[i].blk < head.id
               \/ marks[i].blk = head.id /\ marks[i].used <= head.used
  BY <1>2, <1>3 DEF IInv, MarksReachable, head
<1> QED BY <1>2, <1>4, <1>5

\* A bump inside the head block keeps the invariant.
LEMMA AllocFastStep ==
  ASSUME IInv, NEW n \in Nat, AllocFast(n)
  PROVE  IInv'
<1> DEFINE sz == AllocSize(n)
           new == [blk |-> head.id, off |-> head.used, len |-> sz]
           L == Len(chain)
<1> HIDE DEF sz
<1>1. sz \in Nat /\ sz > 0
  BY AllocSizeCovers DEF sz
<1>2. /\ chain # <<>> /\ log' = Append(log, new)
      /\ chain' = [chain EXCEPT ![L].used = @ + sz]
      /\ total' = total + sz /\ UNCHANGED <<blksz, fresh, aborted, marks>>
  BY DEF AllocFast, sz
<1>3. /\ L \in Blocks /\ head \in Block /\ L \in Nat
      /\ \A i \in 1 .. Len(log) : Behind(log[i], head.id, head.used)
  BY <1>2, HeadIsLast DEF Blocks
<1>4. TypeOK
  BY DEF IInv
<1>5. new \in Allocation
  BY <1>1, <1>3 DEF Allocation, Block
<1>6. /\ chain' \in Seq(Block) /\ Len(chain') = L
      /\ \A k \in Blocks : /\ chain'[k].id = chain[k].id
                           /\ chain'[k].used >= chain[k].used
      /\ chain'[L].used = head.used + sz /\ chain'[L].id = head.id
  <2> DEFINE top == [head EXCEPT !.used = @ + sz]
  <2>1. top \in Block /\ top.id = head.id /\ top.used = head.used + sz
    BY <1>1, <1>3 DEF Block
  <2>2. chain' = [chain EXCEPT ![L] = top]
    BY <1>2 DEF head
  <2> HIDE DEF top
  <2>3. \A k \in Blocks : chain[k] \in Block
    BY <1>4 DEF TypeOK, Blocks
  <2>4. chain' \in Seq(Block) /\ Len(chain') = L
    BY <2>1, <2>2, <1>3, <1>4 DEF TypeOK, Blocks
  <2>5. \A k \in Blocks : chain'[k] = IF k = L THEN top ELSE chain[k]
    BY <2>2, <1>3, <1>4 DEF TypeOK, Blocks
  <2>6. \A k \in Blocks : chain[k].id \in Nat /\ chain[k].used \in Nat
    BY <1>4, Fields DEF TypeOK, Blocks
  <2> QED BY <2>1, <2>4, <2>5, <2>6, <1>1, <1>3 DEF head
<1>7. /\ log' \in Seq(Allocation) /\ Len(log') = Len(log) + 1
      /\ \A i \in 1 .. Len(log) : log'[i] = log[i]
      /\ log'[Len(log) + 1] = new
  BY <1>2, <1>4, <1>5 DEF TypeOK
<1>8. TypeOK'
  BY <1>1, <1>2, <1>4, <1>6, <1>7 DEF TypeOK
<1>9. Blocks' = Blocks
  BY <1>6 DEF Blocks
<1>10. BlocksOrdered'
  BY <1>2, <1>6, <1>9 DEF IInv, BlocksOrdered
<1>11. HeldInside'
  <2> SUFFICES ASSUME NEW i \in 1 .. Len(log')
               PROVE  \E k \in Blocks : /\ chain'[k].id = log'[i].blk
                                        /\ log'[i].off + log'[i].len <= chain'[k].used
    BY <1>9 DEF HeldInside
  <2>1. CASE i = Len(log) + 1
    BY <2>1, <1>1, <1>3, <1>6, <1>7 DEF Block
  <2>2. CASE i \in 1 .. Len(log)
    <3>1. PICK k \in Blocks : /\ chain[k].id = log[i].blk
                              /\ log[i].off + log[i].len <= chain[k].used
      BY <2>2 DEF IInv, HeldInside
    <3>2. /\ log[i].off \in Nat /\ log[i].len \in Nat
          /\ chain[k].used \in Nat /\ chain'[k].used \in Nat
      BY <2>2, <1>4, <1>6, <1>9, Fields DEF TypeOK, Blocks
    <3>3. log'[i] = log[i] /\ chain'[k].id = chain[k].id /\ chain'[k].used >= chain[k].used
      BY <2>2, <1>6, <1>7
    <3>4. chain'[k].id = log'[i].blk /\ log'[i].off + log'[i].len <= chain'[k].used
      BY <3>1, <3>2, <3>3
    <3> QED BY <3>4
  <2> QED BY <2>1, <2>2, <1>4, <1>7 DEF TypeOK
<1>12. HeldOrdered'
  <2> SUFFICES ASSUME NEW i \in 1 .. Len(log'), NEW j \in 1 .. Len(log'), i < j
               PROVE  Behind(log'[i], log'[j].blk, log'[j].off)
    BY DEF HeldOrdered, Behind
  <2>1. Len(log) \in Nat
    BY <1>4, Fields DEF TypeOK
  <2>2. CASE j = Len(log) + 1
    <3>1. i \in 1 .. Len(log) /\ log'[i] = log[i]
      BY <2>1, <2>2, <1>7
    <3>2. log'[j].blk = head.id /\ log'[j].off = head.used
      BY <2>2, <1>7
    <3> QED BY <3>1, <3>2, <1>3
  <2>3. CASE j \in 1 .. Len(log)
    BY <2>1, <2>3, <1>7 DEF IInv, HeldOrdered
  <2> QED BY <2>1, <2>2, <2>3, <1>7
<1>13. MarksReachable'
  <2> SUFFICES ASSUME NEW i \in 1 .. Len(marks)
               PROVE  \E k \in Blocks : /\ chain'[k].id = marks[i].blk
                                        /\ marks[i].used <= chain'[k].used
    BY <1>2, <1>9 DEF MarksReachable
  <2>1. PICK k \in Blocks : chain[k].id = marks[i].blk /\ marks[i].used <= chain[k].used
    BY DEF IInv, MarksReachable
  <2>2. marks[i].used \in Nat /\ chain[k].used \in Nat /\ chain'[k].used \in Nat
    BY <1>4, <1>6, <1>9, Fields DEF TypeOK, Blocks
  <2> QED BY <2>1, <2>2, <1>6
<1>14. MarksHold'
  <2>1. \A i \in 1 .. Len(marks) : marks[i].held \in Nat /\ Len(log) \in Nat
    BY <1>4, Fields DEF TypeOK
  <2> QED BY <2>1, <1>2, <1>7 DEF IInv, MarksHold, Behind
<1>15. MarksOrdered'
  BY <1>2 DEF IInv, MarksOrdered
<1> QED BY <1>8, <1>10, <1>11, <1>12, <1>13, <1>14, <1>15 DEF IInv

\* A new head block, or no memory for one, keeps the invariant.
LEMMA AllocSlowStep ==
  ASSUME IInv, NEW n \in Nat, AllocSlow(n)
  PROVE  IInv'
<1> DEFINE sz == AllocSize(n)
           L == Len(chain)
<1> HIDE DEF sz
<1>1. sz \in Nat /\ sz > 0
  BY AllocSizeCovers DEF sz
<1>2. TypeOK /\ chain # <<>> /\ Len(log) \in Nat /\ L \in Nat
  BY Fields DEF IInv, AllocSlow, TypeOK
<1>3. CASE OutOfMemory
  <2>1. UNCHANGED <<chain, blksz, total, fresh, log, marks>> /\ aborted' \in BOOLEAN
    BY <1>3 DEF OutOfMemory
  <2>2. TypeOK' /\ Blocks' = Blocks
    BY <2>1, <1>2 DEF TypeOK, Blocks
  <2>3. BlocksOrdered' /\ HeldInside' /\ HeldOrdered'
    BY <2>1, <2>2 DEF IInv, BlocksOrdered, HeldInside, HeldOrdered, Behind
  <2>4. MarksReachable' /\ MarksHold' /\ MarksOrdered'
    BY <2>1, <2>2 DEF IInv, MarksReachable, MarksHold, MarksOrdered, Behind
  <2> QED BY <2>2, <2>3, <2>4 DEF IInv
<1>4. CASE ~OutOfMemory
  <2> DEFINE cap == IF sz > blksz THEN sz ELSE blksz
             b == [id |-> fresh + 1, cap |-> cap, used |-> sz]
             new == [blk |-> fresh + 1, off |-> 0, len |-> sz]
  <2>1. /\ chain' = Append(chain, b) /\ log' = Append(log, new)
        /\ total' = total + sz /\ fresh' = fresh + 1
        /\ UNCHANGED <<blksz, aborted, marks>>
    BY <1>4 DEF AllocSlow, sz
  <2>2. b \in Block /\ new \in Allocation /\ b.id = fresh + 1 /\ b.used = sz
    BY <1>1, <1>2 DEF TypeOK, Block, Allocation
  <2>3. new.blk = fresh + 1 /\ new.off = 0 /\ new.len = sz
    OBVIOUS
  <2> HIDE DEF b, new
  <2>4. /\ chain' \in Seq(Block) /\ Len(chain') = L + 1
        /\ \A k \in Blocks : chain'[k] = chain[k]
        /\ chain'[L + 1] = b
    BY <1>2, <2>1, <2>2 DEF TypeOK, Blocks
  <2>5. /\ log' \in Seq(Allocation) /\ Len(log') = Len(log) + 1
        /\ \A i \in 1 .. Len(log) : log'[i] = log[i]
        /\ log'[Len(log) + 1] = new
    BY <1>2, <2>1, <2>2 DEF TypeOK
  <2>6. Blocks' = 1 .. L + 1 /\ Blocks = 1 .. L
    BY <2>4 DEF Blocks
  <2>7. TypeOK'
    BY <1>1, <1>2, <2>1, <2>4, <2>5 DEF TypeOK
  <2>8. /\ \A k \in Blocks : chain[k].id \in Nat /\ chain[k].id <= fresh
        /\ fresh \in Nat
    BY <1>2, Fields DEF TypeOK, Blocks, IInv, BlocksOrdered
  <2>9. BlocksOrdered'
    <3>1. \A k, l \in Blocks' : k < l => chain'[k].id < chain'[l].id
      <4> SUFFICES ASSUME NEW k \in Blocks', NEW l \in Blocks', k < l
                   PROVE  chain'[k].id < chain'[l].id
        OBVIOUS
      <4>1. CASE l = L + 1
        BY <4>1, <1>2, <2>2, <2>4, <2>6, <2>8
      <4>2. CASE l \in Blocks
        BY <4>2, <1>2, <2>4, <2>6 DEF IInv, BlocksOrdered
      <4> QED BY <4>1, <4>2, <1>2, <2>6
    <3>2. \A k \in Blocks' : chain'[k].id <= fresh'
      BY <1>2, <2>1, <2>2, <2>4, <2>6, <2>8
    <3> QED BY <3>1, <3>2 DEF BlocksOrdered
  <2>10. HeldInside'
    <3> SUFFICES ASSUME NEW i \in 1 .. Len(log')
                 PROVE  \E k \in Blocks' : /\ chain'[k].id = log'[i].blk
                                           /\ log'[i].off + log'[i].len <= chain'[k].used
      BY DEF HeldInside
    <3>1. CASE i = Len(log) + 1
      BY <3>1, <1>1, <1>2, <2>2, <2>3, <2>4, <2>5, <2>6
    <3>2. CASE i \in 1 .. Len(log)
      BY <3>2, <1>2, <2>4, <2>5, <2>6 DEF IInv, HeldInside
    <3> QED BY <3>1, <3>2, <1>2, <2>5
  <2>11. \A i \in 1 .. Len(log) : log[i].blk \in Nat /\ log[i].blk < fresh + 1
    BY <1>2, <2>8 DEF IInv, HeldInside
  <2>12. HeldOrdered'
    <3> SUFFICES ASSUME NEW i \in 1 .. Len(log'), NEW j \in 1 .. Len(log'), i < j
                 PROVE  Behind(log'[i], log'[j].blk, log'[j].off)
      BY DEF HeldOrdered, Behind
    <3>1. CASE j = Len(log) + 1
      BY <3>1, <1>2, <2>3, <2>5, <2>11 DEF Behind
    <3>2. CASE j \in 1 .. Len(log)
      BY <3>2, <1>2, <2>5 DEF IInv, HeldOrdered
    <3> QED BY <3>1, <3>2, <1>2, <2>5
  <2>13. MarksReachable'
    <3> SUFFICES ASSUME NEW i \in 1 .. Len(marks)
                 PROVE  \E k \in Blocks' : /\ chain'[k].id = marks[i].blk
                                           /\ marks[i].used <= chain'[k].used
      BY <2>1 DEF MarksReachable
    <3>1. PICK k \in Blocks : chain[k].id = marks[i].blk /\ marks[i].used <= chain[k].used
      BY DEF IInv, MarksReachable
    <3>2. k \in Blocks' /\ chain'[k] = chain[k]
      BY <1>2, <2>4, <2>6
    <3> QED BY <3>1, <3>2
  <2>14. MarksHold'
    <3>1. \A i \in 1 .. Len(marks) : marks[i].held \in Nat
      BY <1>2, Fields DEF TypeOK
    <3> QED BY <3>1, <1>2, <2>1, <2>5 DEF IInv, MarksHold, Behind
  <2>15. MarksOrdered'
    BY <2>1 DEF IInv, MarksOrdered
  <2> QED BY <2>7, <2>9, <2>10, <2>12, <2>13, <2>14, <2>15 DEF IInv
<1> QED BY <1>3, <1>4

\* The position of the bump pointer is a mark every held allocation is behind.
LEMMA TakeMarkStep ==
  ASSUME IInv, TakeMark
  PROVE  IInv'
<1> DEFINE M == Len(marks)
           m == [blk |-> head.id, used |-> head.used, held |-> Len(log)]
<1>1. /\ chain # <<>> /\ marks' = Append(marks, m)
      /\ UNCHANGED <<chain, blksz, total, fresh, aborted, log>>
  BY DEF TakeMark
<1>2. TypeOK /\ Len(log) \in Nat /\ M \in Nat
  BY Fields DEF IInv, TypeOK
<1>3. /\ Len(chain) \in Blocks /\ head \in Block
      /\ \A i \in 1 .. Len(log) : Behind(log[i], head.id, head.used)
      /\ \A i \in 1 .. M : \/ marks[i].blk < head.id
                           \/ marks[i].blk = head.id /\ marks[i].used <= head.used
  BY <1>1, HeadIsLast
<1>4. /\ m \in Mark /\ m.blk = head.id /\ m.used = head.used /\ m.held = Len(log)
      /\ head.used \in Nat
  BY <1>2, <1>3 DEF Mark, Block
<1> HIDE DEF m
<1>5. /\ marks' \in Seq(Mark) /\ Len(marks') = M + 1
      /\ \A i \in 1 .. M : marks'[i] = marks[i]
      /\ marks'[M + 1] = m
  BY <1>1, <1>2, <1>4 DEF TypeOK
<1>6. TypeOK' /\ Blocks' = Blocks
  BY <1>1, <1>2, <1>5 DEF TypeOK, Blocks
<1>7. BlocksOrdered' /\ HeldInside' /\ HeldOrdered'
  BY <1>1, <1>6 DEF IInv, BlocksOrdered, HeldInside, HeldOrdered, Behind
<1>8. MarksReachable'
  <2> SUFFICES ASSUME NEW i \in 1 .. M + 1
               PROVE  \E k \in Blocks : /\ chain[k].id = marks'[i].blk
                                        /\ marks'[i].used <= chain[k].used
    BY <1>1, <1>5, <1>6 DEF MarksReachable
  <2>1. CASE i = M + 1
    BY <2>1, <1>3, <1>4, <1>5 DEF head
  <2>2. CASE i \in 1 .. M
    BY <2>2, <1>5 DEF IInv, MarksReachable
  <2> QED BY <2>1, <2>2, <1>2
<1>9. MarksHold'
  <2> SUFFICES ASSUME NEW i \in 1 .. M + 1
               PROVE  /\ marks'[i].held <= Len(log)
                      /\ \A a \in 1 .. marks'[i].held :
                            Behind(log[a], marks'[i].blk, marks'[i].used)
    BY <1>1, <1>5 DEF MarksHold, Behind
  <2>1. CASE i = M + 1
    BY <2>1, <1>2, <1>3, <1>4, <1>5
  <2>2. CASE i \in 1 .. M
    BY <2>2, <1>5 DEF IInv, MarksHold
  <2> QED BY <2>1, <2>2, <1>2
<1>10. MarksOrdered'
  <2> SUFFICES ASSUME NEW i \in 1 .. M + 1, NEW j \in 1 .. M + 1, i < j
               PROVE  /\ marks'[i].held <= marks'[j].held
                      /\ \/ marks'[i].blk < marks'[j].blk
                         \/ /\ marks'[i].blk = marks'[j].blk
                            /\ marks'[i].used <= marks'[j].used
    BY <1>5 DEF MarksOrdered
  <2>1. i \in 1 .. M
    BY <1>2
  <2>2. CASE j = M + 1
    BY <2>1, <2>2, <1>3, <1>4, <1>5 DEF IInv, MarksHold
  <2>3. CASE j \in 1 .. M
    BY <2>1, <2>3, <1>5 DEF IInv, MarksOrdered
  <2> QED BY <2>2, <2>3, <1>2
<1> QED BY <1>6, <1>7, <1>8, <1>9, <1>10 DEF IInv

\* Restoring a mark keeps exactly the older allocations, marks and blocks.
LEMMA RestoreStep ==
  ASSUME IInv, NEW i \in 1 .. Len(marks), Restore(i)
  PROVE  IInv'
<1> DEFINE m == marks[i]
           k == Marked(m)
           b == [chain[k] EXCEPT !.used = m.used]
<1>1. /\ chain' = Append(Prefix(chain, k - 1), b)
      /\ log' = Prefix(log, m.held) /\ marks' = Prefix(marks, i)
      /\ UNCHANGED <<blksz, total, fresh, aborted>>
  BY DEF Restore
<1>2. /\ TypeOK /\ Len(log) \in Nat /\ Len(marks) \in Nat /\ Len(chain) \in Nat
      /\ m.held \in Nat /\ m.used \in Nat /\ m.held <= Len(log)
  BY Fields DEF IInv, TypeOK, MarksHold
<1>3. k \in Blocks /\ chain[k].id = m.blk /\ m.used <= chain[k].used
  <2>1. PICK l \in Blocks : chain[l].id = m.blk /\ m.used <= chain[l].used
    BY DEF IInv, MarksReachable
  <2>2. k \in Blocks /\ chain[k].id = m.blk
    BY <2>1 DEF Marked
  <2>3. chain[k].id \in Nat /\ chain[l].id \in Nat
    BY <2>1, <2>2, <1>2, Fields DEF TypeOK, Blocks
  <2>4. k = l
    BY <2>1, <2>2, <2>3 DEF IInv, BlocksOrdered, Blocks
  <2> QED BY <2>1, <2>2, <2>4
<1>4. b \in Block /\ b.id = m.blk /\ b.used = m.used
  <2>1. chain[k] \in Block
    BY <1>2, <1>3 DEF TypeOK, Blocks
  <2> QED BY <2>1, <1>2, <1>3 DEF Block
<1>5. k \in Nat /\ k > 0 /\ k <= Len(chain)
  BY <1>3 DEF Blocks
<1> HIDE DEF m, k, b
<1>6. /\ chain' \in Seq(Block) /\ Len(chain') = k
      /\ \A l \in 1 .. k - 1 : chain'[l] = chain[l]
      /\ chain'[k] = b
  <2>1. /\ Prefix(chain, k - 1) \in Seq(Block) /\ Len(Prefix(chain, k - 1)) = k - 1
        /\ \A l \in 1 .. k - 1 : Prefix(chain, k - 1)[l] = chain[l]
    BY <1>2, <1>5 DEF TypeOK, Prefix
  <2> QED BY <2>1, <1>1, <1>4, <1>5
<1>7. /\ log' \in Seq(Allocation) /\ Len(log') = m.held
      /\ \A a \in 1 .. m.held : log'[a] = log[a]
  BY <1>1, <1>2 DEF TypeOK, Prefix
<1>8. /\ marks' \in Seq(Mark) /\ Len(marks') = i
      /\ \A j \in 1 .. i : marks'[j] = marks[j]
  BY <1>1, <1>2 DEF TypeOK, Prefix
<1>9. Blocks' = 1 .. k /\ Blocks = 1 .. Len(chain)
  BY <1>6 DEF Blocks
<1>10. TypeOK'
  BY <1>1, <1>2, <1>6, <1>7, <1>8 DEF TypeOK
<1>11. \A l \in 1 .. k : /\ l \in Blocks /\ chain'[l].id = chain[l].id
                         /\ chain[l].id \in Nat
                         /\ l # k => chain[l].id < m.blk
  BY <1>2, <1>3, <1>4, <1>5, <1>6, <1>9, Fields DEF IInv, BlocksOrdered, TypeOK
<1>12. BlocksOrdered'
  BY <1>1, <1>9, <1>11 DEF IInv, BlocksOrdered
\* What is at or behind the mark is still in the chain.
<1>13. ASSUME NEW x \in Nat, NEW y \in Nat, x < m.blk \/ (x = m.blk /\ y <= m.used),
              NEW l \in Blocks, chain[l].id = x, y <= chain[l].used
       PROVE  \E n \in Blocks' : chain'[n].id = x /\ y <= chain'[n].used
  <2>1. l <= k
    BY <1>2, <1>3, <1>5, <1>11, <1>13, Fields DEF IInv, BlocksOrdered, TypeOK, Blocks
  <2>2. CASE l = k
    BY <2>2, <1>3, <1>4, <1>5, <1>6, <1>9, <1>13, <1>11
  <2>3. CASE l < k
    BY <2>3, <1>5, <1>6, <1>9, <1>13 DEF Blocks
  <2> QED BY <2>1, <2>2, <2>3, <1>5 DEF Blocks
<1>14. HeldInside'
  <2> SUFFICES ASSUME NEW a \in 1 .. m.held
               PROVE  \E n \in Blocks' : /\ chain'[n].id = log[a].blk
                                         /\ log[a].off + log[a].len <= chain'[n].used
    BY <1>7 DEF HeldInside
  <2>1. a \in 1 .. Len(log) /\ Behind(log[a], m.blk, m.used)
    BY <1>2 DEF IInv, MarksHold, m
  <2>2. PICK l \in Blocks : /\ chain[l].id = log[a].blk
                            /\ log[a].off + log[a].len <= chain[l].used
    BY <2>1 DEF IInv, HeldInside
  <2>3. log[a].blk \in Nat /\ log[a].off \in Nat /\ log[a].len \in Nat
    BY <2>1, <1>2, Fields DEF TypeOK
  <2> DEFINE y == log[a].off + log[a].len
  <2>4. y \in Nat
    BY <2>3
  <2>5. log[a].blk < m.blk \/ (log[a].blk = m.blk /\ y <= m.used)
    BY <2>1 DEF Behind
  <2>6. chain[l].id = log[a].blk /\ y <= chain[l].used
    BY <2>2
  <2> HIDE DEF y
  <2>7. \E n \in Blocks' : chain'[n].id = log[a].blk /\ y <= chain'[n].used
    BY <2>3, <2>4, <2>5, <2>6, <1>13
  <2> QED BY <2>7 DEF y
<1>15. HeldOrdered'
  <2>1. HeldOrdered
    BY DEF IInv
  <2> QED BY <1>2, <1>7, <2>1 DEF HeldOrdered, Behind
<1>16. \A j \in 1 .. i : /\ marks[j].held \in Nat /\ marks[j].held <= m.held
                         /\ marks[j].blk \in Nat /\ marks[j].used \in Nat
                         /\ \/ marks[j].blk < m.blk
                            \/ marks[j].blk = m.blk /\ marks[j].used <= m.used
  <2> TAKE j \in 1 .. i
  <2>1. j \in 1 .. Len(marks) /\ (j = i \/ j < i)
    BY <1>2
  <2>2. marks[j].held \in Nat /\ marks[j].blk \in Nat /\ marks[j].used \in Nat
    BY <2>1, <1>2, Fields DEF TypeOK
  <2> QED BY <2>1, <2>2, <1>2 DEF IInv, MarksOrdered, m
<1>17. MarksReachable'
  <2> SUFFICES ASSUME NEW j \in 1 .. i
               PROVE  \E n \in Blocks' : /\ chain'[n].id = marks[j].blk
                                         /\ marks[j].used <= chain'[n].used
    BY <1>8 DEF MarksReachable
  <2>1. PICK l \in Blocks : chain[l].id = marks[j].blk /\ marks[j].used <= chain[l].used
    BY <1>2 DEF IInv, MarksReachable
  <2>2. /\ marks[j].blk \in Nat /\ marks[j].used \in Nat
        /\ marks[j].blk < m.blk \/ (marks[j].blk = m.blk /\ marks[j].used <= m.used)
    BY <1>16
  <2> QED BY <2>1, <2>2, <1>13
<1>18. MarksHold'
  <2> SUFFICES ASSUME NEW j \in 1 .. i
               PROVE  /\ marks[j].held <= m.held
                      /\ \A a \in 1 .. marks[j].held :
                            Behind(log[a], marks[j].blk, marks[j].used)
    <3>1. \A j \in 1 .. i : marks[j].held <= m.held =>
             \A a \in 1 .. marks[j].held : log'[a] = log[a]
      BY <1>2, <1>7, <1>16
    <3> QED BY <3>1, <1>7, <1>8 DEF MarksHold, Behind
  <2> QED BY <1>2, <1>16 DEF IInv, MarksHold
<1>19. MarksOrdered'
  BY <1>2, <1>8 DEF IInv, MarksOrdered
<1> QED BY <1>10, <1>12, <1>14, <1>15, <1>17, <1>18, <1>19 DEF IInv

\* A chain that starts or stops holding nothing satisfies the invariant.
LEMMA InitFreeStep ==
  ASSUME IInv, \/ \E size \in BlockSizes : ArenaInit(size)
               \/ ArenaFree
  PROVE  IInv'
<1>1. CASE ArenaFree
  BY <1>1 DEF ArenaFree, IInv, TypeOK, BlocksOrdered, HeldInside, HeldOrdered,
       MarksReachable, MarksHold, MarksOrdered, Blocks
<1>2. ASSUME NEW size \in BlockSizes, ArenaInit(size)
      PROVE  IInv'
  <2>1. chain = <<>> /\ blksz' \in Nat
    BY <1>2, ArenaAssumption DEF ArenaInit, ARENA_DEFAULT_BLOCK
  <2>2. /\ log = <<>> /\ marks = <<>>
    <3>1. Blocks = {}
      BY <2>1 DEF Blocks
    <3>2. Len(log) = 0 /\ Len(marks) = 0
      BY <3>1, Fields DEF IInv, TypeOK, HeldInside, MarksReachable
    <3> QED BY <3>2 DEF IInv, TypeOK
  <2> DEFINE b == [id |-> fresh + 1, cap |-> blksz', used |-> 0]
  <2>3. /\ chain' = <<b>> /\ fresh' = fresh + 1 /\ total' = 0 /\ fresh \in Nat
        /\ UNCHANGED <<aborted, log, marks>>
    BY <1>2 DEF ArenaInit, IInv, TypeOK
  <2>4. b \in Block /\ b.id = fresh + 1
    BY <2>1, <2>3 DEF Block
  <2> HIDE DEF b
  <2>5. chain' \in Seq(Block) /\ Blocks' = {1} /\ chain'[1] = b
    BY <2>3, <2>4 DEF Blocks
  <2>6. TypeOK'
    BY <2>1, <2>3, <2>5 DEF IInv, TypeOK
  <2>7. BlocksOrdered'
    BY <2>3, <2>4, <2>5 DEF BlocksOrdered
  <2>8. HeldInside' /\ HeldOrdered' /\ MarksReachable' /\ MarksHold' /\ MarksOrdered'
    BY <2>2, <2>3 DEF HeldInside, HeldOrdered, MarksReachable, MarksHold, MarksOrdered
  <2> QED BY <2>6, <2>7, <2>8 DEF IInv
<1> QED BY <1>1, <1>2

-----------------------------------------------------------------------------

\* IInv holds in every reachable state of the arena.
THEOREM Invariance == Spec => []IInv
<1>1. Init => IInv
  <2> SUFFICES ASSUME Init PROVE IInv
    OBVIOUS
  <2>1. Blocks = {} /\ Len(log) = 0 /\ Len(marks) = 0
    BY DEF Init, Blocks
  <2>2. TypeOK
    <3>1. aborted \in BOOLEAN
      BY DEF Init
    <3>2. chain \in Seq(Block) /\ log \in Seq(Allocation) /\ marks \in Seq(Mark)
      BY DEF Init
    <3> QED BY <3>1, <3>2 DEF Init, TypeOK
  <2> QED BY <2>1, <2>2 DEF IInv, BlocksOrdered, HeldInside, HeldOrdered,
            MarksReachable, MarksHold, MarksOrdered
<1>2. IInv /\ [Next]_vars => IInv'
  <2> SUFFICES ASSUME IInv, [Next]_vars
               PROVE  IInv'
    OBVIOUS
  <2>1. CASE UNCHANGED vars
    <3>1. TypeOK' /\ Blocks' = Blocks
      BY <2>1 DEF vars, IInv, TypeOK, Blocks
    <3>2. BlocksOrdered' /\ HeldInside' /\ HeldOrdered'
      BY <2>1, <3>1 DEF vars, IInv, BlocksOrdered, HeldInside, HeldOrdered, Behind
    <3>3. MarksReachable' /\ MarksHold' /\ MarksOrdered'
      BY <2>1, <3>1 DEF vars, IInv, MarksReachable, MarksHold, MarksOrdered, Behind
    <3> QED BY <3>1, <3>2, <3>3 DEF IInv
  <2>2. ASSUME NEW n \in Requests, AllocFast(n) \/ AllocSlow(n)
        PROVE  IInv'
    BY <2>2, AllocFastStep, AllocSlowStep, ArenaAssumption
  <2>3. ASSUME NEW i \in 1 .. Len(marks), Restore(i)
        PROVE  IInv'
    BY <2>3, RestoreStep
  <2>4. CASE InitFails
    <3>1. /\ UNCHANGED <<chain, blksz, total, fresh, log, marks>>
          /\ aborted' \in BOOLEAN
      BY <2>4 DEF InitFails, OutOfMemory
    <3>2. TypeOK' /\ Blocks' = Blocks
      BY <3>1 DEF IInv, TypeOK, Blocks
    <3>3. BlocksOrdered' /\ HeldInside' /\ HeldOrdered'
      BY <3>1, <3>2 DEF IInv, BlocksOrdered, HeldInside, HeldOrdered, Behind
    <3>4. MarksReachable' /\ MarksHold' /\ MarksOrdered'
      BY <3>1, <3>2 DEF IInv, MarksReachable, MarksHold, MarksOrdered, Behind
    <3> QED BY <3>2, <3>3, <3>4 DEF IInv
  <2> QED BY <2>1, <2>2, <2>3, <2>4, TakeMarkStep, InitFreeStep DEF Next
<1> QED BY <1>1, <1>2, PTL DEF Spec

\* The fields of the arena keep their types.
THEOREM TypeCorrect == Spec => []TypeOK
<1>1. IInv => TypeOK
  BY DEF IInv
<1> QED BY <1>1, Invariance, PTL

\* What a client holds stays inside a live block, whatever is allocated,
\* marked and restored.
THEOREM HeldStaysInside == Spec => []HeldInside
<1>1. IInv => HeldInside
  BY DEF IInv
<1> QED BY <1>1, Invariance, PTL

\* No two allocations a client holds ever overlap.
THEOREM HeldStaysDisjoint == Spec => []HeldDisjoint
<1>1. IInv => HeldDisjoint
  <2> SUFFICES ASSUME IInv, NEW i \in 1 .. Len(log), NEW j \in 1 .. Len(log),
                      i < j, log[i].blk = log[j].blk
               PROVE  log[i].off + log[i].len <= log[j].off
    BY DEF HeldDisjoint
  <2>1. log[i].blk \in Nat /\ Behind(log[i], log[j].blk, log[j].off)
    BY Fields DEF IInv, TypeOK, HeldOrdered
  <2> QED BY <2>1 DEF Behind
<1> QED BY <1>1, Invariance, PTL

\* The loop of arena_restore always finds the block of a mark that may be
\* restored: it never runs off the chain.
THEOREM RestoreTerminates == Spec => []MarksReachable
<1>1. IInv => MarksReachable
  BY DEF IInv
<1> QED BY <1>1, Invariance, PTL

\* No block hands out more than its capacity: arena_alloc fills one up to its
\* end at most, the block of an oversized request is as large as the request,
\* and a restore only moves used back.
THEOREM CapacityKept == Spec => []WithinCapacity
<1>1. Init => WithinCapacity
  BY DEF Init, WithinCapacity, Blocks
<1>2. IInv /\ WithinCapacity /\ [Next]_vars => WithinCapacity'
  <2> SUFFICES ASSUME IInv, WithinCapacity, [Next]_vars
               PROVE  WithinCapacity'
    OBVIOUS
  <2>0. /\ chain \in Seq(Block) /\ Len(chain) \in Nat
        /\ \A k \in Blocks : /\ chain[k] \in Block /\ chain[k].id \in Nat
                             /\ chain[k].cap \in Nat /\ chain[k].used \in Nat
                             /\ chain[k].used <= chain[k].cap
    BY Fields DEF IInv, TypeOK, Blocks, Block, WithinCapacity
  <2>1. CASE UNCHANGED chain
    BY <2>1 DEF WithinCapacity, Blocks
  <2>2. ASSUME NEW n \in Requests, AllocFast(n)
        PROVE  WithinCapacity'
    <3>1. AllocSize(n) \in Nat
      BY AllocSizeCovers, ArenaAssumption
    <3>2. /\ chain # <<>>
          /\ head.used + AllocSize(n) <= head.cap
          /\ chain' = [chain EXCEPT ![Len(chain)].used = @ + AllocSize(n)]
      BY <2>2 DEF AllocFast, Fits
    <3>3. Len(chain) \in Blocks /\ head = chain[Len(chain)]
      BY <2>0, <3>2 DEF Blocks, head
    <3>4. Blocks' = Blocks
      BY <2>0, <3>2 DEF Blocks
    <3>5. \A k \in Blocks : /\ chain'[k].cap = chain[k].cap
                           /\ chain'[k].used = IF k = Len(chain)
                                                THEN head.used + AllocSize(n)
                                                ELSE chain[k].used
      BY <2>0, <3>2, <3>3 DEF Blocks, Block
    <3> QED BY <2>0, <3>2, <3>3, <3>4, <3>5 DEF WithinCapacity
  <2>3. ASSUME NEW n \in Requests, AllocSlow(n)
        PROVE  WithinCapacity'
    <3>1. CASE OutOfMemory
      BY <2>1, <3>1 DEF OutOfMemory
    <3>2. CASE ~OutOfMemory
      <4> DEFINE sz == AllocSize(n)
                 b == [id |-> fresh + 1, cap |-> IF sz > blksz THEN sz ELSE blksz,
                       used |-> sz]
      <4>1. sz \in Nat /\ blksz \in Nat
        BY AllocSizeCovers, ArenaAssumption DEF IInv, TypeOK
      <4>2. chain' = Append(chain, b)
        BY <2>3, <3>2 DEF AllocSlow
      <4>3. b.used <= b.cap
        BY <4>1
      <4> HIDE DEF b
      <4>4. /\ Blocks' = 1 .. Len(chain) + 1
            /\ \A k \in Blocks : chain'[k] = chain[k]
            /\ chain'[Len(chain) + 1] = b
        BY <2>0, <4>2 DEF Blocks
      <4> QED BY <2>0, <4>3, <4>4 DEF WithinCapacity, Blocks
    <3> QED BY <3>1, <3>2
  <2>4. ASSUME NEW i \in 1 .. Len(marks), Restore(i)
        PROVE  WithinCapacity'
    <3> DEFINE m == marks[i]
               k == Marked(m)
               b == [chain[k] EXCEPT !.used = m.used]
    <3>1. chain' = Append(Prefix(chain, k - 1), b)
      BY <2>4 DEF Restore
    <3>2. PICK l \in Blocks : chain[l].id = m.blk /\ m.used <= chain[l].used
      BY DEF IInv, MarksReachable
    <3>3. k \in Blocks /\ chain[k].id = m.blk
      BY <3>2 DEF Marked
    <3>4. k = l
      BY <2>0, <3>2, <3>3 DEF IInv, BlocksOrdered, Blocks
    <3>5. m.used \in Nat /\ m.used <= chain[k].used
      BY <3>2, <3>4, Fields DEF IInv, TypeOK
    <3>6. b.cap = chain[k].cap /\ b.used = m.used
      BY <2>0, <3>3 DEF Block
    <3> HIDE DEF m, k, b
    <3>7. k \in Nat /\ k > 0 /\ k <= Len(chain)
      BY <2>0, <3>3 DEF Blocks
    <3>8. /\ Prefix(chain, k - 1) \in Seq(Block) /\ Len(Prefix(chain, k - 1)) = k - 1
          /\ \A j \in 1 .. k - 1 : Prefix(chain, k - 1)[j] = chain[j]
      BY <2>0, <3>7 DEF Prefix
    <3>9. /\ Blocks' = 1 .. k
          /\ \A j \in 1 .. k - 1 : chain'[j] = chain[j]
          /\ chain'[k] = b
      BY <3>1, <3>7, <3>8 DEF Blocks
    <3>10. ASSUME NEW j \in 1 .. k
           PROVE  chain'[j].used <= chain'[j].cap
      <4>1. CASE j = k
        BY <2>0, <3>3, <3>5, <3>6, <3>9, <4>1
      <4>2. CASE j < k
        BY <2>0, <3>7, <3>9, <4>2 DEF Blocks
      <4> QED BY <3>7, <4>1, <4>2
    <3> QED BY <3>9, <3>10 DEF WithinCapacity
  <2>5. ASSUME NEW size \in BlockSizes, ArenaInit(size)
        PROVE  WithinCapacity'
    <3>1. blksz' \in Nat /\ chain' = <<[id |-> fresh + 1, cap |-> blksz', used |-> 0]>>
      BY <2>5, ArenaAssumption DEF ArenaInit, ARENA_DEFAULT_BLOCK
    <3> QED BY <3>1 DEF WithinCapacity, Blocks
  <2>6. CASE ArenaFree
    BY <2>6 DEF ArenaFree, WithinCapacity, Blocks
  <2>7. CASE TakeMark \/ InitFails \/ UNCHANGED vars
    BY <2>1, <2>7 DEF TakeMark, InitFails, OutOfMemory, vars
  <2> QED BY <2>2, <2>3, <2>4, <2>5, <2>6, <2>7 DEF Next
<1> QED BY <1>1, <1>2, Invariance, PTL DEF Spec
-----------------------------------------------------------------------------
(***************************************************************************)
(* The arena wastes nothing and aligns everything, for every block size,   *)
(* request and interleaving of marks and restores.                         *)
(*                                                                         *)
(* NothingLeaks is about the whole log; a restore cuts the log at a mark,  *)
(* so the invariant says the same of the part of the log that is older     *)
(* than each mark, and that what is younger lies in the marked block or in *)
(* newer ones.  HeldAligned likewise needs the marks to be aligned.        *)
(***************************************************************************)
\* Of the first n allocations of s, those in block blk lie end to end up to used.
Within(s, n, blk) == {i \in 1 .. n : s[i].blk = blk}
Packed(s, n, blk, used) ==
  {s[i].off : i \in Within(s, n, blk)} \cup {used}
    = {0} \cup {s[i].off + s[i].len : i \in Within(s, n, blk)}

PInv ==
  /\ \A k \in Blocks : Packed(log, Len(log), chain[k].id, chain[k].used)
  /\ \A i \in 1 .. Len(marks) :
       /\ Packed(log, marks[i].held, marks[i].blk, marks[i].used)
       /\ \A a \in 1 .. Len(log) : a > marks[i].held => log[a].blk >= marks[i].blk

Aligned(n) == n % ARENA_ALIGN = 0
AInv ==
  /\ \A k \in Blocks : Aligned(chain[k].used)
  /\ \A i \in 1 .. Len(marks) : Aligned(marks[i].used)
  /\ HeldAligned

-----------------------------------------------------------------------------
\* Only the first n allocations matter, and of these only the ones in blk.
LEMMA PackedEq ==
  ASSUME NEW s, NEW t, NEW n \in Nat, NEW blk, NEW used,
         \A a \in 1 .. n : s[a] = t[a], Packed(s, n, blk, used)
  PROVE  Packed(t, n, blk, used)
<1>1. Within(s, n, blk) = Within(t, n, blk)
  BY DEF Within
<1>2. \A i \in Within(t, n, blk) : s[i] = t[i]
  BY DEF Within
<1> QED BY <1>1, <1>2 DEF Packed

LEMMA PackedSkip ==
  ASSUME NEW s, NEW n \in Nat, NEW m \in Nat, n <= m, NEW blk, NEW used,
         \A a \in 1 .. m : a > n => s[a].blk # blk
  PROVE  Packed(s, n, blk, used) <=> Packed(s, m, blk, used)
<1>1. Within(s, n, blk) = Within(s, m, blk)
  BY DEF Within
<1> QED BY <1>1 DEF Packed

\* An allocation at used moves used by its length.
LEMMA PackedAppend ==
  ASSUME NEW s, NEW n \in Nat, NEW blk, NEW used,
         Packed(s, n, blk, used), s[n + 1].blk = blk, s[n + 1].off = used
  PROVE  Packed(s, n + 1, blk, used + s[n + 1].len)
<1>1. Within(s, n + 1, blk) = Within(s, n, blk) \cup {n + 1}
  BY DEF Within
<1> HIDE DEF Within
<1>2. {s[i].off : i \in Within(s, n + 1, blk)} = {s[i].off : i \in Within(s, n, blk)} \cup {used}
  BY <1>1
<1>3. {s[i].off + s[i].len : i \in Within(s, n + 1, blk)}
        = {s[i].off + s[i].len : i \in Within(s, n, blk)} \cup {used + s[n + 1].len}
  BY <1>1
<1> QED BY <1>2, <1>3 DEF Packed

\* A block without allocations is packed up to 0.
LEMMA PackedEmpty ==
  ASSUME NEW s, NEW n \in Nat, NEW blk, \A a \in 1 .. n : s[a].blk # blk
  PROVE  Packed(s, n, blk, 0)
<1>1. Within(s, n, blk) = {}
  BY DEF Within
<1> QED BY <1>1 DEF Packed

-----------------------------------------------------------------------------
(* What the operations do to chain, log and marks *)

\* The types of what the invariants relate.
LEMMA Numbers ==
  ASSUME IInv
  PROVE  /\ Len(chain) \in Nat /\ Len(log) \in Nat /\ Len(marks) \in Nat /\ fresh \in Nat
         /\ \A k \in Blocks : chain[k].id \in Nat /\ chain[k].used \in Nat
                              /\ chain[k].id <= fresh
         /\ \A a \in 1 .. Len(log) : log[a].blk \in Nat /\ log[a].off \in Nat
                                     /\ log[a].len \in Nat
         /\ \A i \in 1 .. Len(marks) : marks[i].blk \in Nat /\ marks[i].used \in Nat
                                       /\ marks[i].held \in 0 .. Len(log)
BY Fields DEF IInv, TypeOK, BlocksOrdered, MarksHold, Blocks

LEMMA AllocFastEffect ==
  ASSUME IInv, NEW n \in Nat, AllocFast(n)
  PROVE  LET L == Len(chain)  N == Len(log) IN
         /\ L \in Blocks /\ Blocks' = Blocks /\ marks' = marks
         /\ \A k \in Blocks : chain'[k].id = chain[k].id
         /\ \A k \in Blocks : k # L => chain'[k].used = chain[k].used
         /\ chain'[L].used = chain[L].used + AllocSize(n)
         /\ Len(log') = N + 1 /\ \A a \in 1 .. N : log'[a] = log[a]
         /\ log'[N + 1].blk = chain[L].id /\ log'[N + 1].off = chain[L].used
         /\ log'[N + 1].len = AllocSize(n)
<1> DEFINE sz == AllocSize(n)
           new == [blk |-> head.id, off |-> head.used, len |-> sz]
           L == Len(chain)
<1>1. sz \in Nat
  BY AllocSizeCovers
<1> HIDE DEF sz
<1>2. /\ chain # <<>> /\ log' = Append(log, new) /\ marks' = marks
      /\ chain' = [chain EXCEPT ![L].used = @ + sz]
  BY DEF AllocFast, sz
<1>3. chain \in Seq(Block) /\ log \in Seq(Allocation) /\ L \in Blocks
  BY <1>2, HeadIsLast DEF IInv, TypeOK
<1>4. \A k \in Blocks : chain[k] \in Block
  BY <1>3 DEF Blocks
<1>5. /\ Blocks' = Blocks
      /\ \A k \in Blocks : /\ chain'[k].id = chain[k].id
                           /\ chain'[k].used = IF k = L THEN chain[k].used + sz
                                                        ELSE chain[k].used
  BY <1>2, <1>3, <1>4 DEF Blocks, Block
<1>6. /\ Len(log') = Len(log) + 1 /\ log'[Len(log) + 1] = new
      /\ \A a \in 1 .. Len(log) : log'[a] = log[a]
  BY <1>2, <1>3
<1> QED BY <1>2, <1>3, <1>5, <1>6 DEF head, sz

LEMMA AllocSlowEffect ==
  ASSUME IInv, NEW n \in Nat, AllocSlow(n)
  PROVE  LET L == Len(chain)  N == Len(log) IN
         \/ UNCHANGED <<chain, log, marks>>
         \/ /\ Blocks' = 1 .. L + 1 /\ marks' = marks
            /\ \A k \in Blocks : chain'[k] = chain[k]
            /\ chain'[L + 1].id = fresh + 1 /\ chain'[L + 1].used = AllocSize(n)
            /\ Len(log') = N + 1 /\ \A a \in 1 .. N : log'[a] = log[a]
            /\ log'[N + 1].blk = fresh + 1 /\ log'[N + 1].off = 0
            /\ log'[N + 1].len = AllocSize(n)
<1>1. CASE OutOfMemory
  BY <1>1 DEF OutOfMemory
<1>2. CASE ~OutOfMemory
  <2> DEFINE sz == AllocSize(n)
             b == [id |-> fresh + 1, cap |-> IF sz > blksz THEN sz ELSE blksz, used |-> sz]
             new == [blk |-> fresh + 1, off |-> 0, len |-> sz]
  <2>1. chain' = Append(chain, b) /\ log' = Append(log, new) /\ marks' = marks
    BY <1>2 DEF AllocSlow
  <2>2. b.id = fresh + 1 /\ b.used = sz
    OBVIOUS
  <2>3. new.blk = fresh + 1 /\ new.off = 0 /\ new.len = sz
    OBVIOUS
  <2> HIDE DEF b, new
  <2>4. chain \in Seq(Block) /\ log \in Seq(Allocation)
    BY DEF IInv, TypeOK
  <2>5. /\ Blocks' = 1 .. Len(chain) + 1 /\ chain'[Len(chain) + 1] = b
        /\ \A k \in Blocks : chain'[k] = chain[k]
    BY <2>1, <2>4 DEF Blocks
  <2>6. /\ Len(log') = Len(log) + 1 /\ log'[Len(log) + 1] = new
        /\ \A a \in 1 .. Len(log) : log'[a] = log[a]
    BY <2>1, <2>4
  <2> QED BY <2>1, <2>2, <2>3, <2>5, <2>6
<1> QED BY <1>1, <1>2

LEMMA TakeMarkEffect ==
  ASSUME IInv, TakeMark
  PROVE  LET L == Len(chain)  M == Len(marks) IN
         /\ L \in Blocks /\ UNCHANGED <<chain, log>>
         /\ Len(marks') = M + 1 /\ \A i \in 1 .. M : marks'[i] = marks[i]
         /\ marks'[M + 1].blk = chain[L].id /\ marks'[M + 1].used = chain[L].used
         /\ marks'[M + 1].held = Len(log)
<1> DEFINE m == [blk |-> head.id, used |-> head.used, held |-> Len(log)]
<1>1. chain # <<>> /\ marks' = Append(marks, m) /\ UNCHANGED <<chain, log>>
  BY DEF TakeMark
<1>2. Len(chain) \in Blocks /\ marks \in Seq(Mark)
  BY <1>1, HeadIsLast DEF IInv, TypeOK
<1>3. m.blk = head.id /\ m.used = head.used /\ m.held = Len(log)
  OBVIOUS
<1> HIDE DEF m
<1>4. /\ Len(marks') = Len(marks) + 1 /\ marks'[Len(marks) + 1] = m
      /\ \A i \in 1 .. Len(marks) : marks'[i] = marks[i]
  BY <1>1, <1>2
<1> QED BY <1>1, <1>2, <1>3, <1>4 DEF head

LEMMA RestoreEffect ==
  ASSUME IInv, NEW i \in 1 .. Len(marks), Restore(i)
  PROVE  \E k \in Blocks :
         /\ Blocks' = 1 .. k /\ \A l \in 1 .. k - 1 : chain'[l] = chain[l]
         /\ chain[k].id = marks[i].blk
         /\ chain'[k].id = marks[i].blk /\ chain'[k].used = marks[i].used
         /\ Len(log') = marks[i].held
         /\ \A a \in 1 .. marks[i].held : log'[a] = log[a]
         /\ Len(marks') = i /\ \A j \in 1 .. i : marks'[j] = marks[j]
<1> DEFINE m == marks[i]
           k == Marked(m)
           b == [chain[k] EXCEPT !.used = m.used]
<1>1. /\ chain' = Append(Prefix(chain, k - 1), b)
      /\ log' = Prefix(log, m.held) /\ marks' = Prefix(marks, i)
  BY DEF Restore
<1>2. /\ chain \in Seq(Block) /\ log \in Seq(Allocation) /\ marks \in Seq(Mark)
      /\ m.held \in 0 .. Len(log) /\ Len(log) \in Nat /\ Len(marks) \in Nat
      /\ Len(chain) \in Nat
  BY Numbers DEF IInv, TypeOK
<1>3. k \in Blocks /\ chain[k].id = m.blk
  <2>1. \E l \in Blocks : chain[l].id = m.blk
    BY DEF IInv, MarksReachable
  <2> QED BY <2>1 DEF Marked
<1>4. b.id = m.blk /\ b.used = m.used /\ b \in Block
  <2>1. chain[k] \in Block /\ m.used \in Nat
    BY <1>2, <1>3, Numbers DEF Blocks
  <2> QED BY <2>1, <1>3 DEF Block
<1>5. k \in Nat /\ k > 0 /\ k <= Len(chain)
  BY <1>2, <1>3 DEF Blocks
<1> HIDE DEF m, k, b
<1>6. /\ Prefix(chain, k - 1) \in Seq(Block) /\ Len(Prefix(chain, k - 1)) = k - 1
      /\ \A l \in 1 .. k - 1 : Prefix(chain, k - 1)[l] = chain[l]
  BY <1>2, <1>5 DEF Prefix
<1>7. Blocks' = 1 .. k /\ chain'[k] = b /\ \A l \in 1 .. k - 1 : chain'[l] = chain[l]
  BY <1>1, <1>4, <1>5, <1>6 DEF Blocks
<1>8. Len(log') = m.held /\ \A a \in 1 .. m.held : log'[a] = log[a]
  BY <1>1, <1>2 DEF Prefix
<1>9. Len(marks') = i /\ \A j \in 1 .. i : marks'[j] = marks[j]
  BY <1>1, <1>2 DEF Prefix
<1> QED BY <1>3, <1>4, <1>7, <1>8, <1>9 DEF m

-----------------------------------------------------------------------------
(* Packing *)

\* The part of the log that is older than a mark is not touched by an allocation.
LEMMA PackedBefore ==
  ASSUME IInv, PInv, NEW i \in 1 .. Len(marks),
         \A a \in 1 .. marks[i].held : log'[a] = log[a]
  PROVE  Packed(log', marks[i].held, marks[i].blk, marks[i].used)
<1>1. Packed(log, marks[i].held, marks[i].blk, marks[i].used)
  BY DEF PInv
<1>2. marks[i].held \in Nat
  BY Numbers
<1>3. \A a \in 1 .. marks[i].held : log[a] = log'[a]
  OBVIOUS
<1> DEFINE n == marks[i].held
           b == marks[i].blk
           u == marks[i].used
<1>4. Packed(log, n, b, u) /\ n \in Nat /\ \A a \in 1 .. n : log[a] = log'[a]
  BY <1>1, <1>2, <1>3
<1> HIDE DEF n, b, u
<1>5. Packed(log', n, b, u)
  BY <1>4, PackedEq
<1> QED BY <1>5 DEF n, b, u

LEMMA PackFast ==
  ASSUME IInv, PInv, NEW n \in Nat, AllocFast(n)
  PROVE  PInv'
<1> DEFINE L == Len(chain)
           N == Len(log)
<1>1. /\ L \in Blocks /\ Blocks' = Blocks /\ marks' = marks
      /\ \A k \in Blocks : chain'[k].id = chain[k].id
      /\ \A k \in Blocks : k # L => chain'[k].used = chain[k].used
      /\ chain'[L].used = chain[L].used + AllocSize(n)
      /\ Len(log') = N + 1 /\ \A a \in 1 .. N : log'[a] = log[a]
      /\ log'[N + 1].blk = chain[L].id /\ log'[N + 1].off = chain[L].used
      /\ log'[N + 1].len = AllocSize(n)
  BY AllocFastEffect
<1>2. /\ N \in Nat /\ L \in Nat
      /\ \A i \in 1 .. Len(marks) : marks[i].held \in 0 .. N /\ marks[i].blk \in Nat
      /\ \A k \in Blocks : chain[k].id \in Nat
  BY Numbers
<1>3. ASSUME NEW k \in Blocks
      PROVE  Packed(log', N + 1, chain'[k].id, chain'[k].used)
  <2>1. Packed(log', N, chain[k].id, chain[k].used)
    BY <1>1, <1>2, PackedEq DEF PInv
  <2>2. CASE k = L
    BY <2>1, <2>2, <1>1, <1>2, PackedAppend
  <2>3. CASE k # L
    <3>1. chain[k].id # chain[L].id
      BY <2>3, <1>1, <1>2 DEF IInv, BlocksOrdered, Blocks
    <3>2. \A a \in 1 .. N + 1 : a > N => log'[a].blk # chain[k].id
      BY <3>1, <1>1, <1>2
    <3> QED BY <2>1, <2>3, <3>2, <1>1, <1>2, PackedSkip
  <2> QED BY <2>2, <2>3
<1>4. ASSUME NEW i \in 1 .. Len(marks)
      PROVE  /\ Packed(log', marks[i].held, marks[i].blk, marks[i].used)
             /\ \A a \in 1 .. N + 1 : a > marks[i].held => log'[a].blk >= marks[i].blk
  <2>1. Packed(log', marks[i].held, marks[i].blk, marks[i].used)
    BY <1>1, <1>2, PackedBefore
  <2>2. chain[L].id >= marks[i].blk
    <3>1. chain # <<>>
      BY <1>1 DEF Blocks
    <3> QED BY <3>1, <1>1, <1>2, HeadIsLast DEF head
  <2> QED BY <2>1, <2>2, <1>1, <1>2 DEF PInv
<1> QED BY <1>1, <1>3, <1>4 DEF PInv

LEMMA PackSlow ==
  ASSUME IInv, PInv, NEW n \in Nat, AllocSlow(n)
  PROVE  PInv'
<1> DEFINE L == Len(chain)
           N == Len(log)
<1>1. CASE UNCHANGED <<chain, log, marks>>
  BY <1>1 DEF PInv, Blocks
<1>2. ASSUME /\ Blocks' = 1 .. L + 1 /\ marks' = marks
             /\ \A k \in Blocks : chain'[k] = chain[k]
             /\ chain'[L + 1].id = fresh + 1 /\ chain'[L + 1].used = AllocSize(n)
             /\ Len(log') = N + 1 /\ \A a \in 1 .. N : log'[a] = log[a]
             /\ log'[N + 1].blk = fresh + 1 /\ log'[N + 1].off = 0
             /\ log'[N + 1].len = AllocSize(n)
      PROVE  PInv'
  <2>1. /\ N \in Nat /\ L \in Nat /\ fresh \in Nat
        /\ \A i \in 1 .. Len(marks) : marks[i].held \in 0 .. N /\ marks[i].blk \in Nat
        /\ \A k \in Blocks : chain[k].id \in Nat /\ chain[k].id <= fresh
        /\ AllocSize(n) \in Nat
    BY Numbers, AllocSizeCovers
  <2>2. \A a \in 1 .. N : log[a].blk # fresh + 1
    BY <2>1 DEF IInv, HeldInside
  <2>3. ASSUME NEW k \in 1 .. L + 1
        PROVE  Packed(log', N + 1, chain'[k].id, chain'[k].used)
    <3>1. CASE k = L + 1
      <4>1. Packed(log', N, fresh + 1, 0)
        BY <1>2, <2>1, <2>2, PackedEmpty
      <4>2. Packed(log', N + 1, fresh + 1, 0 + AllocSize(n))
        BY <4>1, <1>2, <2>1, PackedAppend
      <4> QED BY <3>1, <4>2, <1>2, <2>1
    <3>2. CASE k \in Blocks
      <4>1. Packed(log', N, chain[k].id, chain[k].used)
        BY <3>2, <1>2, <2>1, PackedEq DEF PInv
      <4>2. \A a \in 1 .. N + 1 : a > N => log'[a].blk # chain[k].id
        BY <3>2, <1>2, <2>1
      <4>3. N + 1 \in Nat /\ N <= N + 1
        BY <2>1
      <4>4. Packed(log', N + 1, chain[k].id, chain[k].used)
        BY <4>1, <4>2, <4>3, <2>1, PackedSkip
      <4> QED BY <3>2, <4>4, <1>2
    <3> QED BY <3>1, <3>2, <2>1 DEF Blocks
  <2>4. ASSUME NEW i \in 1 .. Len(marks)
        PROVE  /\ Packed(log', marks[i].held, marks[i].blk, marks[i].used)
               /\ \A a \in 1 .. N + 1 : a > marks[i].held => log'[a].blk >= marks[i].blk
    <3>1. Packed(log', marks[i].held, marks[i].blk, marks[i].used)
      BY <1>2, <2>1, PackedBefore
    <3>2. fresh + 1 >= marks[i].blk
      BY <2>1 DEF IInv, MarksReachable
    <3>3. ASSUME NEW a \in 1 .. N + 1, a > marks[i].held
          PROVE  log'[a].blk >= marks[i].blk
      <4>1. CASE a = N + 1
        BY <4>1, <3>2, <1>2
      <4>2. CASE a \in 1 .. N
        BY <4>2, <3>3, <1>2 DEF PInv
      <4> QED BY <4>1, <4>2, <2>1
    <3> QED BY <3>1, <3>3
  <2> QED BY <1>2, <2>3, <2>4 DEF PInv
<1> QED BY <1>1, <1>2, AllocSlowEffect

LEMMA PackMark ==
  ASSUME IInv, PInv, TakeMark
  PROVE  PInv'
<1> DEFINE L == Len(chain)
           M == Len(marks)
<1>1. /\ L \in Blocks /\ UNCHANGED <<chain, log>>
      /\ Len(marks') = M + 1 /\ \A i \in 1 .. M : marks'[i] = marks[i]
      /\ marks'[M + 1].blk = chain[L].id /\ marks'[M + 1].used = chain[L].used
      /\ marks'[M + 1].held = Len(log)
  BY TakeMarkEffect
<1>2. M \in Nat /\ Len(log) \in Nat
  BY Numbers
<1>3. ASSUME NEW i \in 1 .. M + 1
      PROVE  /\ Packed(log, marks'[i].held, marks'[i].blk, marks'[i].used)
             /\ \A a \in 1 .. Len(log) : a > marks'[i].held => log[a].blk >= marks'[i].blk
  <2>1. CASE i = M + 1
    BY <2>1, <1>1, <1>2 DEF PInv
  <2>2. CASE i \in 1 .. M
    BY <2>2, <1>1 DEF PInv
  <2> QED BY <2>1, <2>2, <1>2
<1>4. Blocks' = Blocks
  BY <1>1 DEF Blocks
<1> QED BY <1>1, <1>3, <1>4 DEF PInv

\* What a restore keeps of a block older than the marked one is all there was.
LEMMA PackRestore ==
  ASSUME IInv, PInv, NEW i \in 1 .. Len(marks), Restore(i)
  PROVE  PInv'
<1> DEFINE h == marks[i].held
<1>1. PICK k \in Blocks :
         /\ Blocks' = 1 .. k /\ \A l \in 1 .. k - 1 : chain'[l] = chain[l]
         /\ chain[k].id = marks[i].blk
         /\ chain'[k].id = marks[i].blk /\ chain'[k].used = marks[i].used
         /\ Len(log') = h /\ \A a \in 1 .. h : log'[a] = log[a]
         /\ Len(marks') = i /\ \A j \in 1 .. i : marks'[j] = marks[j]
  BY RestoreEffect
<1>2. /\ Len(log) \in Nat /\ h \in 0 .. Len(log) /\ Len(marks) \in Nat
      /\ \A j \in Blocks : chain[j].id \in Nat
      /\ \A a \in 1 .. Len(log) : log[a].blk \in Nat
      /\ \A j \in 1 .. Len(marks) : marks[j].held \in 0 .. Len(log) /\ marks[j].blk \in Nat
      /\ k \in 1 .. Len(chain) /\ Len(chain) \in Nat
  BY Numbers DEF Blocks
<1>3. ASSUME NEW l \in 1 .. k
      PROVE  Packed(log', h, chain'[l].id, chain'[l].used)
  <2>1. CASE l = k
    BY <2>1, <1>1, PackedBefore
  <2>2. CASE l \in 1 .. k - 1
    <3>1. l \in Blocks /\ l < k
      BY <2>2, <1>2 DEF Blocks
    <3>2. chain[l].id < marks[i].blk
      BY <3>1, <1>1 DEF IInv, BlocksOrdered
    <3>3. \A a \in 1 .. Len(log) : a > h => log[a].blk # chain[l].id
      BY <3>1, <3>2, <1>2 DEF PInv
    <3>4. Packed(log, Len(log), chain[l].id, chain[l].used)
      BY <3>1 DEF PInv
    <3> DEFINE b == chain[l].id
               u == chain[l].used
               n == Len(log)
    <3>5. /\ Packed(log, n, b, u) /\ h \in Nat /\ n \in Nat /\ h <= n
          /\ \A a \in 1 .. n : a > h => log[a].blk # b
          /\ \A a \in 1 .. h : log[a] = log'[a]
      BY <3>3, <3>4, <1>1, <1>2
    <3> HIDE DEF b, u, n, h
    <3>6. Packed(log, h, b, u)
      BY <3>5, PackedSkip
    <3>7. Packed(log', h, b, u)
      BY <3>5, <3>6, PackedEq
    <3> QED BY <2>2, <3>7, <1>1 DEF b, u
  <2> QED BY <2>1, <2>2, <1>2
<1>4. ASSUME NEW j \in 1 .. i
      PROVE  /\ Packed(log', marks[j].held, marks[j].blk, marks[j].used)
             /\ \A a \in 1 .. h : a > marks[j].held => log'[a].blk >= marks[j].blk
  <2>1. j \in 1 .. Len(marks) /\ (j = i \/ j < i)
    BY <1>2
  <2>2. marks[j].held <= h
    BY <2>1, <1>2 DEF IInv, MarksOrdered
  <2>3. \A a \in 1 .. marks[j].held : log'[a] = log[a]
    BY <2>1, <2>2, <1>1, <1>2
  <2>4. Packed(log', marks[j].held, marks[j].blk, marks[j].used)
    BY <2>1, <2>3, PackedBefore
  <2>5. \A a \in 1 .. h : a > marks[j].held => log'[a].blk >= marks[j].blk
    BY <2>1, <1>1, <1>2 DEF PInv
  <2> QED BY <2>4, <2>5
<1> QED BY <1>1, <1>3, <1>4 DEF PInv

\* A new arena has one empty block and nothing else.
LEMMA EmptyArena ==
  ASSUME IInv, NEW size \in BlockSizes, ArenaInit(size)
  PROVE  /\ Blocks' = {1} /\ chain'[1].used = 0
         /\ Len(log') = 0 /\ Len(marks') = 0
<1>1. /\ chain = <<>> /\ UNCHANGED <<log, marks>>
      /\ chain' = <<[id |-> fresh + 1, cap |-> blksz', used |-> 0]>>
  BY DEF ArenaInit
<1>2. Blocks = {}
  BY <1>1 DEF Blocks
<1>3. Len(log) = 0 /\ Len(marks) = 0
  BY <1>2, Numbers DEF IInv, HeldInside, MarksReachable
<1> QED BY <1>1, <1>3 DEF Blocks

\* No restore gives back too little or too much: in every block the allocations
\* clients hold fill what is used, without a gap.
THEOREM NothingIsLeaked == Spec => []NothingLeaks
<1>1. Init => PInv
  <2> SUFFICES ASSUME Init PROVE PInv
    OBVIOUS
  <2>1. Blocks = {} /\ Len(log) = 0 /\ Len(marks) = 0
    BY DEF Init, Blocks
  <2> QED BY <2>1 DEF PInv
<1>2. IInv /\ PInv /\ [Next]_vars => PInv'
  <2> SUFFICES ASSUME IInv, PInv, [Next]_vars PROVE PInv'
    OBVIOUS
  <2>1. CASE UNCHANGED <<chain, log, marks>>
    BY <2>1 DEF PInv, Blocks
  <2>2. ASSUME NEW n \in Requests, AllocFast(n) \/ AllocSlow(n) PROVE PInv'
    BY <2>2, PackFast, PackSlow, ArenaAssumption
  <2>3. ASSUME NEW i \in 1 .. Len(marks), Restore(i) PROVE PInv'
    BY <2>3, PackRestore
  <2>4. ASSUME NEW size \in BlockSizes, ArenaInit(size) PROVE PInv'
    <3>1. /\ Blocks' = {1} /\ chain'[1].used = 0
          /\ Len(log') = 0 /\ Len(marks') = 0
      BY <2>4, EmptyArena
    <3>2. Packed(log', 0, chain'[1].id, 0)
      BY DEF Packed, Within
    <3> QED BY <3>1, <3>2 DEF PInv
  <2>5. CASE ArenaFree
    <3>1. Blocks' = {} /\ Len(log') = 0 /\ Len(marks') = 0
      BY <2>5 DEF ArenaFree, Blocks
    <3> QED BY <3>1 DEF PInv
  <2>6. CASE TakeMark
    BY <2>6, PackMark
  <2>7. CASE InitFails \/ UNCHANGED vars
    BY <2>1, <2>7 DEF InitFails, OutOfMemory, vars
  <2> QED BY <2>2, <2>3, <2>4, <2>5, <2>6, <2>7 DEF Next
<1>3. PInv => NothingLeaks
  BY DEF PInv, Packed, Within, NothingLeaks
<1> QED BY <1>1, <1>2, <1>3, Invariance, PTL DEF Spec

-----------------------------------------------------------------------------
(* Alignment *)

LEMMA AllocSizeAligned ==
  ASSUME NEW n \in Nat
  PROVE  Aligned(AllocSize(n))
BY DEF Aligned, AllocSize, align8, ARENA_ALIGN

LEMMA AlignedSum ==
  ASSUME NEW n \in Nat, NEW m \in Nat, Aligned(n), Aligned(m)
  PROVE  Aligned(n + m)
BY DEF Aligned, ARENA_ALIGN

LEMMA AlignedZero == Aligned(0)
BY DEF Aligned, ARENA_ALIGN

\* Storage is handed out at multiples of the alignment only.
THEOREM HeldStaysAligned == Spec => []HeldAligned
<1>1. Init => AInv
  <2> SUFFICES ASSUME Init PROVE AInv
    OBVIOUS
  <2>1. Blocks = {} /\ Len(log) = 0 /\ Len(marks) = 0
    BY DEF Init, Blocks
  <2> QED BY <2>1 DEF AInv, HeldAligned
<1>2. IInv /\ AInv /\ [Next]_vars => AInv'
  <2> SUFFICES ASSUME IInv, AInv, [Next]_vars PROVE AInv'
    OBVIOUS
  <2>0. \A a \in 1 .. Len(log) : Aligned(log[a].off)
    BY DEF AInv, HeldAligned, Aligned
  <2>1. CASE UNCHANGED <<chain, log, marks>>
    BY <2>1 DEF AInv, HeldAligned, Blocks, Aligned
  <2>2. ASSUME NEW n \in Requests, AllocFast(n) PROVE AInv'
    <3>1. n \in Nat /\ AllocSize(n) \in Nat /\ Aligned(AllocSize(n))
      BY ArenaAssumption, AllocSizeCovers, AllocSizeAligned
    <3>2. /\ Len(chain) \in Blocks /\ Blocks' = Blocks /\ marks' = marks
          /\ \A k \in Blocks : k # Len(chain) => chain'[k].used = chain[k].used
          /\ chain'[Len(chain)].used = chain[Len(chain)].used + AllocSize(n)
          /\ Len(log') = Len(log) + 1 /\ \A a \in 1 .. Len(log) : log'[a] = log[a]
          /\ log'[Len(log) + 1].off = chain[Len(chain)].used
      BY <2>2, <3>1, AllocFastEffect
    <3>3. Len(log) \in Nat /\ chain[Len(chain)].used \in Nat
      BY <3>2, Numbers
    <3>4. Aligned(chain[Len(chain)].used + AllocSize(n))
      BY <3>1, <3>2, <3>3, AlignedSum DEF AInv
    <3>5. \A k \in Blocks' : Aligned(chain'[k].used)
      BY <3>2, <3>4 DEF AInv
    <3>6. \A a \in 1 .. Len(log') : Aligned(log'[a].off)
      BY <2>0, <3>2, <3>3 DEF AInv
    <3> QED BY <3>2, <3>5, <3>6 DEF AInv, HeldAligned, Aligned
  <2>3. ASSUME NEW n \in Requests, AllocSlow(n), ~UNCHANGED <<chain, log, marks>> PROVE AInv'
    <3>1. n \in Nat /\ Aligned(AllocSize(n))
      BY ArenaAssumption, AllocSizeAligned
    <3>2. /\ Blocks' = 1 .. Len(chain) + 1 /\ marks' = marks
          /\ \A k \in Blocks : chain'[k] = chain[k]
          /\ chain'[Len(chain) + 1].used = AllocSize(n)
          /\ Len(log') = Len(log) + 1 /\ \A a \in 1 .. Len(log) : log'[a] = log[a]
          /\ log'[Len(log) + 1].off = 0
      BY <2>3, <3>1, AllocSlowEffect
    <3>3. Len(log) \in Nat /\ Len(chain) \in Nat
      BY Numbers
    <3>4. \A k \in Blocks' : Aligned(chain'[k].used)
      BY <3>1, <3>2, <3>3 DEF AInv, Blocks
    <3>5. \A a \in 1 .. Len(log') : Aligned(log'[a].off)
      BY <2>0, <3>2, <3>3, AlignedZero
    <3> QED BY <3>2, <3>4, <3>5 DEF AInv, HeldAligned, Aligned
  <2>4. ASSUME NEW i \in 1 .. Len(marks), Restore(i) PROVE AInv'
    <3>1. PICK k \in Blocks :
             /\ Blocks' = 1 .. k /\ \A l \in 1 .. k - 1 : chain'[l] = chain[l]
             /\ chain'[k].used = marks[i].used
             /\ Len(log') = marks[i].held
             /\ \A a \in 1 .. marks[i].held : log'[a] = log[a]
             /\ Len(marks') = i /\ \A j \in 1 .. i : marks'[j] = marks[j]
      BY <2>4, RestoreEffect
    <3>2. /\ marks[i].held \in 0 .. Len(log) /\ Len(log) \in Nat /\ Len(marks) \in Nat
          /\ k \in 1 .. Len(chain) /\ Len(chain) \in Nat
      BY Numbers DEF Blocks
    <3>3. \A l \in Blocks' : Aligned(chain'[l].used)
      BY <3>1, <3>2 DEF AInv, Blocks
    <3>4. \A a \in 1 .. Len(log') : Aligned(log'[a].off)
      BY <2>0, <3>1, <3>2
    <3>5. \A j \in 1 .. Len(marks') : Aligned(marks'[j].used)
      BY <3>1, <3>2 DEF AInv
    <3> QED BY <3>3, <3>4, <3>5 DEF AInv, HeldAligned, Aligned
  <2>5. ASSUME NEW size \in BlockSizes, ArenaInit(size) PROVE AInv'
    BY <2>5, EmptyArena, AlignedZero DEF AInv, HeldAligned
  <2>6. CASE ArenaFree
    <3>1. Blocks' = {} /\ Len(log') = 0 /\ Len(marks') = 0
      BY <2>6 DEF ArenaFree, Blocks
    <3> QED BY <3>1 DEF AInv, HeldAligned
  <2>7. CASE TakeMark
    <3>1. /\ Len(chain) \in Blocks /\ UNCHANGED <<chain, log>>
          /\ Len(marks') = Len(marks) + 1
          /\ \A i \in 1 .. Len(marks) : marks'[i] = marks[i]
          /\ marks'[Len(marks) + 1].used = chain[Len(chain)].used
      BY <2>7, TakeMarkEffect
    <3>2. Len(marks) \in Nat /\ Blocks' = Blocks
      BY <3>1, Numbers DEF Blocks
    <3>3. \A i \in 1 .. Len(marks') : Aligned(marks'[i].used)
      BY <3>1, <3>2 DEF AInv
    <3> QED BY <3>1, <3>2, <3>3 DEF AInv, HeldAligned, Aligned
  <2>8. CASE InitFails \/ UNCHANGED vars
    BY <2>1, <2>8 DEF InitFails, OutOfMemory, vars
  <2> QED BY <2>1, <2>2, <2>3, <2>4, <2>5, <2>6, <2>7, <2>8 DEF Next
<1>3. AInv => HeldAligned
  BY DEF AInv
<1> QED BY <1>1, <1>2, <1>3, Invariance, PTL DEF Spec
=============================================================================
