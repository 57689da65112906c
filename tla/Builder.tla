------------------------------ MODULE Builder ------------------------------
(***************************************************************************)
(* The IR builder (src/ir.c).  Two growing arrays: the procedures of a     *)
(* program, appended by ir_proc_begin, and the instructions of the         *)
(* procedure being built, appended by ir_emit.  Both double; the arena     *)
(* hands out storage that is not initialised, and keeps the old array.     *)
(* And the list of string literals, whose labels are numbered by the       *)
(* counter that numbers temporaries.                                       *)
(***************************************************************************)
EXTENDS Integers, Sequences, SequencesExt

CONSTANTS
  FirstProcs,    (* first capacity of the procedure array, 16 in the code   *)
  FirstInstrs,   (* first capacity of an instruction array, 32 in the code  *)
  Instrs,        (* instructions                                            *)
  Garbage,       (* what an element that was never written holds            *)
  Texts,         (* contents of string literals                             *)
  MaxProcs,      (* bound on the procedures of a program                    *)
  MaxInstrs,     (* bound on the instructions of a procedure                *)
  MaxTmps        (* bound on the temporaries and literals of a program      *)

ASSUME BuilderAssumption ==
  /\ FirstProcs \in Nat \ {0} /\ FirstInstrs \in Nat \ {0}
  /\ MaxProcs \in Nat /\ MaxInstrs \in Nat /\ MaxTmps \in Nat
  /\ Garbage \notin Instrs
  /\ Garbage \notin [ninstr : Nat, instrs : Seq(Instrs \cup {Garbage})]

VARIABLES
  procs,     (* IrProg.procs, as long as proc_cap                           *)
  nprocs,
  built,     (* history: the instructions each procedure was given          *)
  tmp_counter,
  strs,      (* IrProg.strs: literals with their labels, newest first       *)
  uses       (* history: the literals lowered, with the labels returned     *)

arrays == <<procs, nprocs, built>>
literals == <<tmp_counter, strs, uses>>
vars == <<arrays, literals>>

\* An array of n elements fresh from the arena.
Storage(n) == [e \in 1 .. n |-> Garbage]

Grown(cap, first) == IF cap = 0 THEN first ELSE 2 * cap

\* A procedure: its ninstr, and instrs as long as its cap.
EmptyProc == [ninstr |-> 0, instrs |-> <<>>]

Init ==
  /\ procs = <<>> /\ nprocs = 0 /\ built = <<>>
  /\ tmp_counter = 0 /\ strs = <<>> /\ uses = {}

\* Variant: the array is replaced one element too early.
Roomy_early ==
  IF nprocs + 1 >= Len(procs) THEN Storage(Grown(Len(procs), FirstProcs)) ELSE procs

\* The array an element can be added to: a full one is replaced by a larger
\* one, into which the procedures are not copied.
Roomy ==
  IF nprocs >= Len(procs) THEN Storage(Grown(Len(procs), FirstProcs)) ELSE procs

ir_proc_begin ==
  /\ nprocs < MaxProcs
  /\ nprocs' = nprocs + 1
  /\ procs' = [Roomy EXCEPT ![nprocs'] = EmptyProc]
  /\ built' = Append(built, <<>>)
  /\ UNCHANGED literals

\* Variant: the old array is not copied.
Refill_lost(p) ==
  IF p.ninstr >= Len(p.instrs)
  THEN Storage(Grown(Len(p.instrs), FirstInstrs)) ELSE p.instrs

\* A full instruction array is copied into one of twice its capacity.
Refill(p) ==
  IF p.ninstr >= Len(p.instrs)
  THEN SubSeq(p.instrs, 1, p.ninstr)
         \o Storage(Grown(Len(p.instrs), FirstInstrs) - p.ninstr)
  ELSE p.instrs

\* lower_proc emits into the procedure it began last, and only there.
ir_emit(instr) ==
  LET p == procs[nprocs] IN
  /\ nprocs > 0 /\ p.ninstr < MaxInstrs
  /\ procs' = [procs EXCEPT ![nprocs] =
                 [ninstr |-> p.ninstr + 1,
                  instrs |-> [Refill(p) EXCEPT ![p.ninstr + 1] = instr]]]
  /\ built' = [built EXCEPT ![nprocs] = Append(@, instr)]
  /\ UNCHANGED <<nprocs, literals>>

ir_tmp ==
  /\ tmp_counter < MaxTmps
  /\ tmp_counter' = tmp_counter + 1
  /\ UNCHANGED <<arrays, strs, uses>>

\* The literals with these contents.
Same(text) == {i \in DOMAIN strs : strs[i].data = text}

\* Variant: the counter is left to ir_tmp.
ir_str_lit_uncounted(text) ==
  \/ \E i \in Same(text) :
       /\ uses' = uses \cup {[data |-> text, label |-> strs[i].label]}
       /\ UNCHANGED <<arrays, tmp_counter, strs>>
  \/ /\ Same(text) = {} /\ tmp_counter < MaxTmps
     /\ strs' = <<[label |-> tmp_counter, data |-> text]>> \o strs
     /\ uses' = uses \cup {[data |-> text, label |-> tmp_counter]}
     /\ UNCHANGED <<arrays, tmp_counter>>

\* A literal of the program is found again, or a new one gets the next number.
ir_str_lit(text) ==
  \/ \E i \in Same(text) :
       /\ \A j \in Same(text) : i <= j
       /\ uses' = uses \cup {[data |-> text, label |-> strs[i].label]}
       /\ UNCHANGED <<arrays, tmp_counter, strs>>
  \/ /\ Same(text) = {} /\ tmp_counter < MaxTmps
     /\ strs' = <<[label |-> tmp_counter, data |-> text]>> \o strs
     /\ uses' = uses \cup {[data |-> text, label |-> tmp_counter]}
     /\ tmp_counter' = tmp_counter + 1
     /\ UNCHANGED arrays

Next ==
  \/ ir_proc_begin
  \/ \E instr \in Instrs : ir_emit(instr)
  \/ ir_tmp
  \/ \E text \in Texts : ir_str_lit(text)

Spec == Init /\ [][Next]_vars

-----------------------------------------------------------------------------
Proc == [ninstr : Nat, instrs : Seq(Instrs \cup {Garbage})]

\* The array holds the procedures that were begun, and perhaps unused elements.
TypeOK ==
  /\ nprocs \in 0 .. Len(procs) /\ Len(built) = nprocs
  /\ \A i \in 1 .. Len(procs) : procs[i] \in Proc \cup {Garbage}
  /\ tmp_counter \in Nat

\* Code generation, which reads the array from its first element, finds in the
\* procedure that is being built exactly the instructions it was given, in
\* order, however often its array was replaced.
CurrentKept ==
  nprocs > 0 =>
    SubSeq(procs[nprocs].instrs, 1, procs[nprocs].ninstr) = built[nprocs]

\* The same of every procedure of the program, begun earlier included: what
\* ir.h 259 promises ("stable").
EveryProcKept ==
  \A i \in 1 .. nprocs :
    /\ procs[i] # Garbage
    /\ SubSeq(procs[i].instrs, 1, procs[i].ninstr) = built[i]

\* Up to the first capacity of the array no procedure is lost.
KeptWithinFirst == nprocs <= FirstProcs => EveryProcKept

\* The label an instruction has for its literal is defined once in the constants
\* of the program (ir_codegen.c:667), with the contents of that literal, however
\* temporaries and literals take turns at the counter.
LiteralsKept ==
  \A u \in uses : \E i \in DOMAIN strs :
    /\ strs[i] = [label |-> u.label, data |-> u.data]
    /\ \A j \in DOMAIN strs : strs[j].label = u.label => j = i
=============================================================================
