--------------------------- MODULE BuilderProofs ---------------------------
(***************************************************************************)
(* The instruction array of the procedure that is being built holds what   *)
(* was emitted, for any first capacities and any number of instructions,   *)
(* and no procedure is lost before the procedure array is full.            *)
(*                                                                         *)
(* CurrentKept says nothing of capacities, so it is not inductive; IInv    *)
(* adds that the number of instructions is within the array, and that a    *)
(* procedure array is empty or has its first capacity at least.            *)
(*                                                                         *)
(* LiteralsKept says nothing of the counter; LInv adds that it is beyond   *)
(* every label of a literal, so that the next label is new.                *)
(***************************************************************************)
EXTENDS Builder, SequenceTheorems, TLAPS

\* Procedure i holds the instructions it was given.
Holds(i) ==
  /\ procs[i] \in Proc
  /\ procs[i].ninstr = Len(built[i])
  /\ procs[i].ninstr <= Len(procs[i].instrs)
  /\ \A e \in 1 .. Len(built[i]) : procs[i].instrs[e] = built[i][e]

Shape ==
  /\ procs \in Seq(Proc \cup {Garbage}) /\ built \in Seq(Seq(Instrs))
  /\ nprocs \in 0 .. Len(procs) /\ Len(built) = nprocs
  /\ Len(procs) = 0 \/ Len(procs) >= FirstProcs

IInv ==
  /\ Shape
  /\ nprocs > 0 => Holds(nprocs)
  /\ nprocs <= FirstProcs => \A i \in 1 .. nprocs : Holds(i)

Str == [label : Nat, data : Texts]
Entry(u) == [label |-> u.label, data |-> u.data]
LInv ==
  /\ tmp_counter \in Nat /\ strs \in Seq(Str)
  /\ \A i \in 1 .. Len(strs) : strs[i].label < tmp_counter
  /\ \A i, j \in 1 .. Len(strs) : strs[i].label = strs[j].label => i = j
  /\ \A u \in uses : \E i \in 1 .. Len(strs) : strs[i] = Entry(u)

-----------------------------------------------------------------------------
\* Fresh storage is a sequence of the length that was asked for.
LEMMA StorageSeq ==
  ASSUME NEW n \in Nat, NEW S, Garbage \in S
  PROVE  Storage(n) \in Seq(S) /\ Len(Storage(n)) = n
BY DEF Storage

\* A grown capacity is larger than the one it replaces.
LEMMA GrownLarger ==
  ASSUME NEW cap \in Nat, NEW first \in Nat \ {0}
  PROVE  /\ Grown(cap, first) \in Nat /\ Grown(cap, first) > cap
         /\ cap = 0 \/ cap >= first => Grown(cap, first) >= first
BY DEF Grown

\* The array ir_proc_begin writes to has room; it holds the procedures begun
\* before unless the old one was full.
LEMMA RoomyRoom ==
  ASSUME Shape
  PROVE  /\ Roomy \in Seq(Proc \cup {Garbage})
         /\ nprocs + 1 <= Len(Roomy) /\ Len(Roomy) >= FirstProcs
         /\ nprocs < FirstProcs => \A i \in 1 .. nprocs : Roomy[i] = procs[i]
<1>1. /\ Len(procs) \in Nat /\ nprocs \in Nat /\ nprocs <= Len(procs)
      /\ FirstProcs \in Nat \ {0}
  BY BuilderAssumption DEF Shape
<1>2. CASE nprocs >= Len(procs)
  <2>1. Roomy = Storage(Grown(Len(procs), FirstProcs))
    BY <1>2 DEF Roomy
  <2>2. /\ Grown(Len(procs), FirstProcs) \in Nat
        /\ Grown(Len(procs), FirstProcs) > Len(procs)
        /\ Grown(Len(procs), FirstProcs) >= FirstProcs
    BY <1>1, GrownLarger DEF Shape
  <2>3. /\ Roomy \in Seq(Proc \cup {Garbage})
        /\ Len(Roomy) = Grown(Len(procs), FirstProcs)
    BY <2>1, <2>2, StorageSeq
  <2>4. nprocs < FirstProcs => nprocs = 0
    BY <1>1, <1>2 DEF Shape
  <2> QED BY <2>2, <2>3, <2>4, <1>1, <1>2
<1>3. CASE nprocs < Len(procs)
  BY <1>1, <1>3 DEF Roomy, Shape
<1> QED BY <1>1, <1>2, <1>3

\* The array ir_emit writes to has room and holds what was emitted.
LEMMA RefillRoom ==
  ASSUME NEW p \in Proc, p.ninstr <= Len(p.instrs)
  PROVE  /\ Refill(p) \in Seq(Instrs \cup {Garbage})
         /\ p.ninstr + 1 <= Len(Refill(p))
         /\ \A e \in 1 .. p.ninstr : Refill(p)[e] = p.instrs[e]
<1>1. /\ p.ninstr \in Nat /\ p.instrs \in Seq(Instrs \cup {Garbage})
      /\ Len(p.instrs) \in Nat /\ FirstInstrs \in Nat \ {0}
  BY BuilderAssumption DEF Proc
<1>2. CASE p.ninstr >= Len(p.instrs)
  <2> DEFINE g == Grown(Len(p.instrs), FirstInstrs)
             old == SubSeq(p.instrs, 1, p.ninstr)
             new == Storage(g - p.ninstr)
  <2>1. g \in Nat /\ g > p.ninstr
    <3>1. g \in Nat /\ g > Len(p.instrs)
      BY <1>1, GrownLarger
    <3> QED BY <3>1, <1>1, <1>2
  <2>2. new \in Seq(Instrs \cup {Garbage}) /\ Len(new) = g - p.ninstr
    BY <2>1, <1>1, StorageSeq
  <2>3. /\ old \in Seq(Instrs \cup {Garbage}) /\ Len(old) = p.ninstr
        /\ \A e \in 1 .. p.ninstr : old[e] = p.instrs[e]
    BY <1>1
  <2>4. Refill(p) = old \o new
    BY <1>2 DEF Refill
  <2> HIDE DEF g, old, new
  <2>5. /\ old \o new \in Seq(Instrs \cup {Garbage})
        /\ Len(old \o new) = Len(old) + Len(new)
        /\ \A e \in 1 .. Len(old) + Len(new) :
              (old \o new)[e] = IF e <= Len(old) THEN old[e] ELSE new[e - Len(old)]
    BY <2>2, <2>3, ConcatProperties
  <2> QED BY <2>1, <2>2, <2>3, <2>4, <2>5, <1>1
<1>3. CASE p.ninstr < Len(p.instrs)
  BY <1>1, <1>3 DEF Refill
<1> QED BY <1>1, <1>2, <1>3

-----------------------------------------------------------------------------
\* A new procedure is empty, and the earlier ones stay while there is room.
LEMMA BeginStep ==
  ASSUME IInv, ir_proc_begin
  PROVE  IInv'
<1>1. Shape /\ nprocs \in Nat /\ Len(procs) \in Nat /\ FirstProcs \in Nat \ {0}
  BY BuilderAssumption DEF IInv, Shape
<1>2. /\ nprocs' = nprocs + 1 /\ built' = Append(built, <<>>)
      /\ procs' = [Roomy EXCEPT ![nprocs + 1] = EmptyProc]
  BY DEF ir_proc_begin
<1>3. EmptyProc \in Proc /\ EmptyProc.ninstr = 0 /\ EmptyProc.instrs = <<>>
  BY DEF EmptyProc, Proc
<1>4. /\ procs' \in Seq(Proc \cup {Garbage}) /\ Len(procs') = Len(Roomy)
      /\ procs'[nprocs + 1] = EmptyProc
      /\ \A i \in 1 .. nprocs : procs'[i] = Roomy[i]
  BY <1>1, <1>2, <1>3, RoomyRoom
<1>5. /\ built' \in Seq(Seq(Instrs)) /\ Len(built') = nprocs + 1
      /\ built'[nprocs + 1] = <<>>
      /\ \A i \in 1 .. nprocs : built'[i] = built[i]
  BY <1>1, <1>2 DEF Shape
<1>6. Shape'
  BY <1>1, <1>2, <1>4, <1>5, RoomyRoom DEF Shape
<1>8. ASSUME nprocs' <= FirstProcs, NEW i \in 1 .. nprocs' PROVE Holds(i)'
  <2>1. CASE i = nprocs + 1
    BY <2>1, <1>3, <1>4, <1>5 DEF Holds
  <2>2. CASE i \in 1 .. nprocs
    <3>1. Holds(i)
      BY <1>1, <1>2, <1>8, <2>2 DEF IInv
    <3>2. procs'[i] = procs[i] /\ built'[i] = built[i]
      BY <1>1, <1>2, <1>4, <1>5, <1>8, <2>2, RoomyRoom
    <3> QED BY <3>1, <3>2 DEF Holds
  <2> QED BY <2>1, <2>2, <1>1, <1>2
<1>7. Holds(nprocs)'
  BY <1>2, <1>3, <1>4, <1>5 DEF Holds
<1> QED BY <1>6, <1>7, <1>8 DEF IInv

\* An instruction is added after those of the last procedure.
LEMMA EmitStep ==
  ASSUME IInv, NEW instr \in Instrs, ir_emit(instr)
  PROVE  IInv'
<1> DEFINE p == procs[nprocs]
           q == [ninstr |-> p.ninstr + 1,
                 instrs |-> [Refill(p) EXCEPT ![p.ninstr + 1] = instr]]
<1>1. /\ Shape /\ nprocs \in 1 .. Len(procs) /\ Len(procs) \in Nat /\ Holds(nprocs)
      /\ nprocs' = nprocs /\ procs' = [procs EXCEPT ![nprocs] = q]
      /\ built' = [built EXCEPT ![nprocs] = Append(@, instr)]
  BY DEF IInv, Shape, ir_emit
<1>2. /\ p \in Proc /\ p.ninstr \in Nat /\ p.ninstr <= Len(p.instrs)
      /\ p.ninstr = Len(built[nprocs]) /\ built[nprocs] \in Seq(Instrs)
      /\ \A e \in 1 .. p.ninstr : p.instrs[e] = built[nprocs][e]
  BY <1>1 DEF Holds, Proc, Shape
<1>3. /\ q \in Proc /\ q.ninstr = p.ninstr + 1 /\ q.ninstr <= Len(q.instrs)
      /\ q.instrs[p.ninstr + 1] = instr
      /\ \A e \in 1 .. p.ninstr : q.instrs[e] = p.instrs[e]
  <2> DEFINE r == Refill(p)
             s == [r EXCEPT ![p.ninstr + 1] = instr]
  <2>1. /\ r \in Seq(Instrs \cup {Garbage}) /\ p.ninstr + 1 <= Len(r) /\ Len(r) \in Nat
        /\ \A e \in 1 .. p.ninstr : r[e] = p.instrs[e]
    BY <1>2, RefillRoom
  <2> HIDE DEF r
  <2>2. /\ s \in Seq(Instrs \cup {Garbage}) /\ Len(s) = Len(r)
        /\ s[p.ninstr + 1] = instr
        /\ \A e \in 1 .. p.ninstr : s[e] = r[e]
    BY <2>1, <1>2
  <2>3. q = [ninstr |-> p.ninstr + 1, instrs |-> s]
    BY DEF r
  <2> HIDE DEF s, p, q
  <2> QED BY <2>1, <2>2, <2>3, <1>2 DEF Proc
<1> HIDE DEF p, q
<1>4. /\ procs' \in Seq(Proc \cup {Garbage}) /\ Len(procs') = Len(procs)
      /\ procs'[nprocs] = q
      /\ \A i \in 1 .. nprocs : i # nprocs => procs'[i] = procs[i]
  BY <1>1, <1>3 DEF Shape
<1>5. /\ built' \in Seq(Seq(Instrs)) /\ Len(built') = nprocs
      /\ built'[nprocs] = Append(built[nprocs], instr)
      /\ \A i \in 1 .. nprocs : i # nprocs => built'[i] = built[i]
  BY <1>1, <1>2 DEF Shape
<1>6. Shape'
  BY <1>1, <1>4, <1>5 DEF Shape
<1>7. Holds(nprocs)'
  BY <1>1, <1>2, <1>3, <1>4, <1>5 DEF Holds
<1>8. ASSUME nprocs' <= FirstProcs, NEW i \in 1 .. nprocs' PROVE Holds(i)'
  <2>1. CASE i = nprocs
    BY <2>1, <1>1, <1>7 DEF Holds
  <2>2. CASE i # nprocs
    BY <2>2, <1>1, <1>4, <1>5, <1>8 DEF IInv, Holds
  <2> QED BY <2>1, <2>2
<1> QED BY <1>1, <1>6, <1>7, <1>8 DEF IInv

-----------------------------------------------------------------------------
\* Labels are numbers.
LEMMA StrsTyped ==
  ASSUME LInv
  PROVE  \A i \in 1 .. Len(strs) : strs[i] \in Str /\ strs[i].label \in Nat
<1>1. \A i \in 1 .. Len(strs) : strs[i] \in Str
  BY DEF LInv
<1> QED BY <1>1 DEF Str

\* A literal that is found again adds a use of its entry, a new one an entry
\* whose label no entry has.
LEMMA LiteralStep ==
  ASSUME LInv, NEW text \in Texts, ir_str_lit(text)
  PROVE  LInv'
<1>1. CASE \E i \in Same(text) :
             /\ uses' = uses \cup {[data |-> text, label |-> strs[i].label]}
             /\ UNCHANGED <<tmp_counter, strs>>
  <2>1. PICK i \in 1 .. Len(strs) :
          /\ strs[i].data = text
          /\ uses' = uses \cup {[data |-> text, label |-> strs[i].label]}
    BY <1>1 DEF Same, LInv
  <2>2. strs[i] = [label |-> strs[i].label, data |-> text]
    <3>1. strs[i] \in Str
      BY StrsTyped
    <3> QED BY <2>1, <3>1 DEF Str
  <2>3. ASSUME NEW u \in uses' PROVE \E k \in 1 .. Len(strs) : strs[k] = Entry(u)
    <3>1. CASE u \in uses
      BY <3>1 DEF LInv
    <3>2. CASE u = [data |-> text, label |-> strs[i].label]
      <4>1. Entry(u) = strs[i]
        BY <3>2, <2>2 DEF Entry
      <4> QED BY <4>1
    <3> QED BY <3>1, <3>2, <2>1
  <2> QED BY <1>1, <2>3 DEF LInv, Entry
<1>2. CASE /\ strs' = <<[label |-> tmp_counter, data |-> text]>> \o strs
           /\ uses' = uses \cup {[data |-> text, label |-> tmp_counter]}
           /\ tmp_counter' = tmp_counter + 1
  <2> DEFINE e == [label |-> tmp_counter, data |-> text]
  <2>1. e \in Str /\ e.label = tmp_counter /\ strs \in Seq(Str)
        /\ Len(strs) \in Nat /\ tmp_counter \in Nat
    BY DEF LInv, Str
  <2>2. strs' = <<e>> \o strs
    BY <1>2
  <2> HIDE DEF e
  <2>3. /\ strs' \in Seq(Str) /\ Len(strs') = Len(strs) + 1
        /\ strs'[1] = e
        /\ \A i \in 1 .. Len(strs) : strs'[i + 1] = strs[i]
    <3>1. <<e>> \in Seq(Str) /\ Len(<<e>>) = 1 /\ <<e>>[1] = e
      BY <2>1
    <3> QED BY <2>1, <2>2, <3>1, ConcatProperties
  <2>4. \A i \in 1 .. Len(strs') : i # 1 => i - 1 \in 1 .. Len(strs) /\ strs'[i] = strs[i - 1]
    <3> TAKE i \in 1 .. Len(strs')
    <3> HAVE i # 1
    <3>1. i - 1 \in 1 .. Len(strs) /\ (i - 1) + 1 = i
      BY <2>1, <2>3
    <3> QED BY <2>3, <3>1
  <2>5. \A i \in 1 .. Len(strs) : strs[i].label \in Nat /\ strs[i].label < tmp_counter
    BY StrsTyped DEF LInv
  <2>6. ASSUME NEW i \in 1 .. Len(strs') PROVE strs'[i].label < tmp_counter'
    <3>1. tmp_counter \in Nat /\ tmp_counter' = tmp_counter + 1
      BY <1>2, <2>1
    <3>2. CASE i = 1
      <4>1. strs'[i].label = tmp_counter
        BY <2>1, <2>3, <3>2
      <4> QED BY <3>1, <4>1
    <3>3. CASE i # 1
      <4>1. i - 1 \in 1 .. Len(strs) /\ strs'[i].label = strs[i - 1].label
        BY <2>4, <2>6, <3>3
      <4>2. strs'[i].label \in Nat /\ strs'[i].label < tmp_counter
        BY <2>5, <4>1
      <4> QED BY <3>1, <4>2
    <3> QED BY <3>2, <3>3
  <2>7. ASSUME NEW i \in 1 .. Len(strs'), NEW j \in 1 .. Len(strs'), strs'[i].label = strs'[j].label
        PROVE  i = j
    <3>1. CASE i # 1 /\ j # 1
      <4> DEFINE h == i - 1
                 k == j - 1
      <4>1. /\ h \in 1 .. Len(strs) /\ k \in 1 .. Len(strs)
            /\ strs[h].label = strs[k].label
        BY <2>4, <2>7, <3>1
      <4> HIDE DEF h, k
      <4>3. h = k
        BY <4>1 DEF LInv
      <4>2. i - 1 = j - 1
        BY <4>3 DEF h, k
      <4> QED BY <4>2, <2>1, <2>3
    <3>2. CASE i = 1 \/ j = 1
      <4>1. strs'[1].label = tmp_counter
        BY <2>1, <2>3
      <4>2. \A k \in 1 .. Len(strs') : k # 1 => strs'[k].label # tmp_counter
        <5> TAKE k \in 1 .. Len(strs')
        <5> HAVE k # 1
        <5>1. k - 1 \in 1 .. Len(strs) /\ strs'[k] = strs[k - 1]
          BY <2>4
        <5>2. strs[k - 1].label \in Nat /\ strs[k - 1].label < tmp_counter
          BY <5>1, <2>5
        <5> QED BY <5>1, <5>2, <2>1
      <4> QED BY <4>1, <4>2, <2>7, <3>2
    <3> QED BY <3>1, <3>2
  <2>8. ASSUME NEW u \in uses' PROVE \E i \in 1 .. Len(strs') : strs'[i] = Entry(u)
    <3>1. CASE u \in uses
      <4>1. PICK i \in 1 .. Len(strs) : strs[i] = Entry(u)
        BY <3>1 DEF LInv
      <4>2. i + 1 \in 1 .. Len(strs') /\ strs'[i + 1] = Entry(u)
        BY <4>1, <2>1, <2>3
      <4> QED BY <4>2
    <3>2. CASE u = [data |-> text, label |-> tmp_counter]
      <4>1. Entry(u) = e
        BY <3>2 DEF Entry, e
      <4>2. 1 \in 1 .. Len(strs')
        BY <2>1, <2>3
      <4> QED BY <4>1, <4>2, <2>3
    <3> QED BY <1>2, <3>1, <3>2
  <2> QED BY <1>2, <2>1, <2>3, <2>6, <2>7, <2>8 DEF LInv, Entry
<1> QED BY <1>1, <1>2 DEF ir_str_lit

\* IInv holds of every sequence of calls of the builder.
THEOREM Invariance == Spec => []IInv
<1>1. Init => IInv
  BY BuilderAssumption DEF Init, IInv, Shape
<1>2. IInv /\ [Next]_vars => IInv'
  <2> SUFFICES ASSUME IInv, [Next]_vars PROVE IInv'
    OBVIOUS
  <2>1. CASE UNCHANGED arrays
    BY <2>1 DEF arrays, IInv, Shape, Holds
  <2>2. ASSUME NEW text \in Texts, ir_str_lit(text) PROVE UNCHANGED arrays
    BY <2>2 DEF ir_str_lit
  <2> QED BY <2>1, <2>2, BeginStep, EmitStep DEF Next, ir_tmp, vars
<1> QED BY <1>1, <1>2, PTL DEF Spec

\* LInv holds of every sequence of calls of the builder.
THEOREM LiteralInvariance == Spec => []LInv
<1>1. Init => LInv
  BY DEF Init, LInv
<1>2. LInv /\ [Next]_vars => LInv'
  <2> SUFFICES ASSUME LInv, [Next]_vars PROVE LInv'
    OBVIOUS
  <2>1. CASE UNCHANGED literals
    BY <2>1 DEF literals, LInv, Entry
  <2>2. CASE ir_tmp
    <3>1. tmp_counter' = tmp_counter + 1 /\ strs' = strs /\ uses' = uses
      BY <2>2 DEF ir_tmp
    <3>2. \A i \in 1 .. Len(strs) : strs[i].label < tmp_counter + 1
      BY StrsTyped DEF LInv
    <3> QED BY <3>1, <3>2 DEF LInv, Entry
  <2> QED BY <2>1, <2>2, LiteralStep DEF Next, ir_proc_begin, ir_emit, vars
<1> QED BY <1>1, <1>2, PTL DEF Spec

\* The arrays have the types of the structures, and room for what is counted.
THEOREM TypeCorrect == Spec => []TypeOK
<1>1. IInv /\ LInv => TypeOK
  BY DEF IInv, Shape, LInv, TypeOK
<1> QED BY <1>1, Invariance, LiteralInvariance, PTL

\* However often its array is replaced, the procedure being built holds exactly
\* the instructions it was given, in order.
THEOREM CurrentProcKept == Spec => []CurrentKept
<1>1. IInv => CurrentKept
  <2> SUFFICES ASSUME IInv, nprocs > 0
               PROVE  SubSeq(procs[nprocs].instrs, 1, procs[nprocs].ninstr) = built[nprocs]
    BY DEF CurrentKept
  <2>1. Holds(nprocs) /\ built[nprocs] \in Seq(Instrs)
    BY DEF IInv, Shape
  <2> QED BY <2>1 DEF Holds, Proc
<1> QED BY <1>1, Invariance, PTL

\* While the procedure array has its first capacity no procedure is lost.
THEOREM FirstProcsKept == Spec => []KeptWithinFirst
<1>1. IInv => KeptWithinFirst
  <2> SUFFICES ASSUME IInv, nprocs <= FirstProcs, NEW i \in 1 .. nprocs
               PROVE  /\ procs[i] # Garbage
                      /\ SubSeq(procs[i].instrs, 1, procs[i].ninstr) = built[i]
    BY DEF KeptWithinFirst, EveryProcKept
  <2>1. Holds(i) /\ built[i] \in Seq(Instrs)
    BY DEF IInv, Shape
  <2>2. procs[i] # Garbage
    BY <2>1, BuilderAssumption DEF Holds, Proc
  <2> QED BY <2>1, <2>2 DEF Holds, Proc
<1> QED BY <1>1, Invariance, PTL

\* Every instruction keeps the label of its own text, whatever is lowered later.
THEOREM TextsKept == Spec => []LiteralsKept
<1>1. LInv => LiteralsKept
  <2> SUFFICES ASSUME LInv, NEW u \in uses
               PROVE  \E i \in DOMAIN strs :
                        /\ strs[i] = [label |-> u.label, data |-> u.data]
                        /\ \A j \in DOMAIN strs : strs[j].label = u.label => j = i
    BY DEF LiteralsKept
  <2>1. PICK i \in 1 .. Len(strs) : strs[i] = Entry(u)
    BY DEF LInv
  <2>2. strs[i].label = u.label /\ DOMAIN strs = 1 .. Len(strs)
    BY <2>1 DEF Entry, LInv
  <2>3. \A j \in DOMAIN strs : strs[j].label = u.label => j = i
    BY <2>2 DEF LInv
  <2> QED BY <2>1, <2>2, <2>3 DEF Entry
<1> QED BY <1>1, LiteralInvariance, PTL
=============================================================================
