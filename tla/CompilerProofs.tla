--------------------------- MODULE CompilerProofs ---------------------------
(***************************************************************************)
(* Proofs about the passes over one body (Compiler), for bodies of any     *)
(* length and depth and any names.                                         *)
(*                                                                         *)
(* The first part is what the parser guarantees about the bodies it hands  *)
(* to the later passes: blocks are nested.  S[i] is the stack of the       *)
(* blocks open before node i, a block being the node that opened it (o)    *)
(* and the node its current part begins with (b: the else, behind an       *)
(* else).  Level, Close and Holder of Program count nodes; here they are   *)
(* shown to say the same as the stack.  Facts about all nodes of a body    *)
(* are proved by looking at the first node that would refute them: Least   *)
(* gives it.                                                               *)
(*                                                                         *)
(* The rest compares the passes.  The lowering begins when the checker     *)
(* has ended, so what it resolves has to be compared with a walk that is   *)
(* over.  H is that walk: H[i] is the scope chain, the loop flag and the   *)
(* saved flags with which check_stmt came to node i.  The two walks are    *)
(* at corresponding chains (Simulates), scope by scope, whatever happened  *)
(* in the blocks that are closed by then.                                  *)
(***************************************************************************)
EXTENDS Compiler, TLAPS, FiniteSetTheorems, WellFoundedInduction

-----------------------------------------------------------------------------
(* Nested blocks *)

Below(n) == [o : 1 .. n, b : 1 .. n]
Node == Stmts \cup Opens \cup Arms \cup {Mark("else"), Mark("end")}

\* The blocks open behind node i, if those of s are open before it.
StackAfter(pr, s, i) ==
  CASE pr[i].k \in Openers -> Append(s, [o |-> i, b |-> i])
    [] pr[i].k = "else"    -> Append(Front(s), [o |-> Last(s).o, b |-> i])
    [] pr[i].k = "end"     -> Front(s)
    [] OTHER               -> s

\* Node i may stand where the blocks of s are open.
Fits(pr, s, i) ==
  /\ pr[i].k \in {"else", "end", "arm"} => s # <<>>
  /\ pr[i].k = "else" => pr[Last(s).b].k = "if"
  /\ pr[i].k = "arm" => pr[Last(s).b].k = "case"
  /\ s # <<>> /\ pr[Last(s).b].k = "case" => pr[i].k \in {"arm", "end"}

Nested(pr, S) ==
  /\ pr \in Seq(Node)
  /\ DOMAIN S = 1 .. Len(pr) + 1 /\ S = [i \in DOMAIN S |-> S[i]] /\ S[1] = <<>>
  /\ \A i \in 1 .. Len(pr) + 1 : S[i] \in Seq(Below(i - 1))
  /\ \A i \in 1 .. Len(pr) : Fits(pr, S[i], i) /\ S[i + 1] = StackAfter(pr, S[i], i)

\* The parser is in the blocks that are open behind the last node.
Reads(pr, S, op) ==
  LET s == S[Len(pr) + 1] IN
  /\ op \in Seq(Openers \cup {"else"})
  /\ Len(op) = Len(s)
  /\ \A k \in 1 .. Len(op) : s[k].b \in 1 .. Len(pr) /\ op[k] = pr[s[k].b].k

NInv == \E S : Nested(prog, S) /\ Reads(prog, S, open) /\ (parsed => open = <<>>)
-----------------------------------------------------------------------------
(* Least and greatest elements *)

\* Every set of numbers that has an element has a least one.
LEMMA Least ==
  ASSUME NEW N \in SUBSET Nat, N # {}
  PROVE  \E m \in N : \A k \in N : m <= k
<1> DEFINE T == {1 .. k : k \in N}
<1>1. IsWellFoundedOn(StrictSubsetOrdering(Nat), FiniteSubsetsOf(Nat))
  BY FS_StrictSubsetOrderingWellFounded
<1>2. T \subseteq FiniteSubsetsOf(Nat) /\ T # {}
  <2> SUFFICES ASSUME NEW k \in N
               PROVE  (1 .. k) \in FiniteSubsetsOf(Nat)
    OBVIOUS
  <2>1. IsFiniteSet(1 .. k)
    BY FS_Interval
  <2> QED BY <2>1 DEF FiniteSubsetsOf
<1>3. PICK x \in T : \A y \in T : <<y, x>> \notin StrictSubsetOrdering(Nat)
  BY <1>1, <1>2, WFMin
<1>4. PICK m \in N : x = 1 .. m
  OBVIOUS
<1>5. ASSUME NEW k \in N, k < m
      PROVE  FALSE
  <2>1. (1 .. k) \in T
    OBVIOUS
  <2>2. 1 .. k \subseteq 1 .. m /\ m \in 1 .. m /\ m \notin 1 .. k
    BY <1>5
  <2>3. <<1 .. k, x>> \in StrictSubsetOrdering(Nat)
    BY <1>4, <2>2 DEF StrictSubsetOrdering
  <2> QED BY <1>3, <2>1, <2>3
<1> QED BY <1>5

\* A bounded one has a greatest one.
LEMMA Greatest ==
  ASSUME NEW N \in SUBSET Nat, N # {}, NEW n \in Nat, \A k \in N : k <= n
  PROVE  \E m \in N : \A k \in N : k <= m
<1> DEFINE D == {n - k : k \in N}
<1>1. D \in SUBSET Nat /\ D # {}
  <2>1. \A k \in N : n - k \in Nat
    OBVIOUS
  <2>2. \A d \in D : d \in Nat
    BY <2>1
  <2>3. D # {}
    OBVIOUS
  <2> QED BY <2>2, <2>3
<1>2. PICK d \in D : \A e \in D : d <= e
  BY <1>1, Least
<1>3. PICK m \in N : d = n - m
  OBVIOUS
<1>4. ASSUME NEW k \in N
      PROVE  k <= m
  <2>1. n - k \in D
    OBVIOUS
  <2> QED BY <1>2, <1>3, <2>1
<1> QED BY <1>4

\* So Max and Min say what they should.
LEMMA MaxOf ==
  ASSUME NEW N \in SUBSET Nat, N # {}, NEW n \in Nat, \A k \in N : k <= n
  PROVE  Max(N) \in N /\ \A k \in N : k <= Max(N)
<1>1. \E m \in N : \A k \in N : m >= k
  BY Greatest
<1> QED BY <1>1 DEF Max

LEMMA MinOf ==
  ASSUME NEW N \in SUBSET Nat, N # {}
  PROVE  Min(N) \in N /\ \A k \in N : Min(N) <= k
BY Least DEF Min

-----------------------------------------------------------------------------
(* The parser builds nested bodies *)

\* Where Stmts, Opens and Arms get their kinds from.
LEMMA NodeKinds ==
  /\ Mark("else").k = "else" /\ Mark("end").k = "end"
  /\ \A n \in Stmts : n.k \notin Openers \cup {"else", "end", "arm", "case"}
  /\ \A n \in Opens : n.k \in Openers \ {"arm"}
  /\ \A n \in Arms : n.k = "arm"
<1>1. Mark("else").k = "else" /\ Mark("end").k = "end"
  BY DEF Mark
<1>2. \A n \in Stmts : n.k \in {"var", "let", "string", "record", "bytes", "assign", "exit"}
  BY NodesAssumption DEF Declarations
<1>3. \A n \in Opens : n.k \in {"if", "case", "while", "loop", "for"}
  BY NodesAssumption DEF Loops
<1>4. \A n \in Arms : n.k = "arm"
  BY NodesAssumption
<1>5. Openers = {"while", "loop", "for", "if", "case", "arm"}
  BY DEF Openers, Loops
<1> QED BY <1>1, <1>2, <1>3, <1>4, <1>5

\* The stack under the top.
LEMMA FrontOf ==
  ASSUME NEW A, NEW s \in Seq(A), s # <<>>
  PROVE  /\ Front(s) \in Seq(A) /\ Len(Front(s)) = Len(s) - 1
         /\ \A k \in 1 .. Len(s) - 1 : Front(s)[k] = s[k]
         /\ Len(s) \in Nat \ {0} /\ Last(s) = s[Len(s)] /\ Last(s) \in A
<1>1. Len(s) \in Nat \ {0}
  OBVIOUS
<1>2. PICK n \in Nat : n = Len(s) - 1
  BY <1>1
<1>3. /\ SubSeq(s, 1, n) \in Seq(A) /\ Len(SubSeq(s, 1, n)) = n
      /\ \A k \in 1 .. n : SubSeq(s, 1, n)[k] = s[k]
  BY <1>1, <1>2
<1>4. Front(s) = SubSeq(s, 1, n)
  BY <1>2 DEF Front
<1>5. Last(s) = s[Len(s)] /\ Last(s) \in A
  BY <1>1 DEF Last
<1> QED BY <1>1, <1>2, <1>3, <1>4, <1>5

\* A block is put on a stack.
LEMMA Stacks ==
  ASSUME NEW A, NEW s \in Seq(A), NEW x \in A
  PROVE  /\ Append(s, x) \in Seq(A) /\ Len(Append(s, x)) = Len(s) + 1
         /\ \A k \in 1 .. Len(s) : Append(s, x)[k] = s[k]
         /\ Append(s, x)[Len(s) + 1] = x
         /\ Last(Append(s, x)) = x /\ Front(Append(s, x)) = s
<1>1. /\ Append(s, x) \in Seq(A) /\ Len(Append(s, x)) = Len(s) + 1
      /\ \A k \in 1 .. Len(s) : Append(s, x)[k] = s[k]
      /\ Append(s, x)[Len(s) + 1] = x
  OBVIOUS
<1>2. Last(Append(s, x)) = x
  BY <1>1 DEF Last
<1>3. Front(Append(s, x)) = s
  <2>1. SubSeq(Append(s, x), 1, Len(s)) = s
    BY <1>1
  <2> QED BY <1>1, <2>1 DEF Front
<1> QED BY <1>1, <1>2, <1>3

\* The four cases of a step do not overlap.
LEMMA StackSteps ==
  ASSUME NEW pr, NEW s, NEW i
  PROVE  /\ pr[i].k \in Openers => StackAfter(pr, s, i) = Append(s, [o |-> i, b |-> i])
         /\ pr[i].k = "else" => StackAfter(pr, s, i) = Append(Front(s), [o |-> Last(s).o, b |-> i])
         /\ pr[i].k = "end" => StackAfter(pr, s, i) = Front(s)
         /\ pr[i].k \notin Openers \cup {"else", "end"} => StackAfter(pr, s, i) = s
<1>1. pr[i].k \in Openers => pr[i].k # "else" /\ pr[i].k # "end"
  BY DEF Openers, Loops
<1>2. pr[i].k = "else" => pr[i].k \notin Openers /\ pr[i].k # "end"
  BY DEF Openers, Loops
<1>3. pr[i].k = "end" => pr[i].k \notin Openers /\ pr[i].k # "else"
  BY DEF Openers, Loops
<1> QED BY <1>1, <1>2, <1>3 DEF StackAfter

\* A stack fits behind node i if it fits before it.
LEMMA StackFits ==
  ASSUME NEW pr, NEW i \in Nat \ {0}, NEW s \in Seq(Below(i - 1)), Fits(pr, s, i)
  PROVE  StackAfter(pr, s, i) \in Seq(Below(i))
<1>1. s \in Seq(Below(i))
  <2>1. \A x \in Below(i - 1) : x \in Below(i)
    BY DEF Below
  <2> QED BY <2>1
<1>2. [o |-> i, b |-> i] \in Below(i)
  BY DEF Below
<1> DEFINE t == StackAfter(pr, s, i)
<1>0. /\ pr[i].k \in Openers => t = Append(s, [o |-> i, b |-> i])
      /\ pr[i].k = "else" => t = Append(Front(s), [o |-> Last(s).o, b |-> i])
      /\ pr[i].k = "end" => t = Front(s)
      /\ pr[i].k \notin Openers \cup {"else", "end"} => t = s
  BY StackSteps
<1> SUFFICES t \in Seq(Below(i))
  OBVIOUS
<1> HIDE DEF t
<1>3. CASE pr[i].k \in Openers
  BY <1>1, <1>2, <1>3, <1>0
<1>4. CASE pr[i].k = "else"
  <2>1. s # <<>>
    BY <1>4 DEF Fits
  <2>2. Front(s) \in Seq(Below(i)) /\ Last(s) \in Below(i)
    BY <1>1, <1>2, <2>1, FrontOf
  <2>3. [o |-> Last(s).o, b |-> i] \in Below(i)
    BY <2>2 DEF Below
  <2> QED BY <1>4, <2>2, <2>3, <1>0, SMTT(30)
<1>5. CASE pr[i].k = "end"
  <2>1. s # <<>>
    BY <1>5 DEF Fits
  <2>2. Front(s) \in Seq(Below(i))
    BY <1>1, <1>2, <2>1, FrontOf
  <2> QED BY <1>5, <2>2, <1>0
<1>6. CASE pr[i].k \notin Openers \cup {"else", "end"}
  BY <1>1, <1>6, <1>0
<1> QED BY <1>3, <1>4, <1>5, <1>6

\* The stacks of a body stay those of a longer one.
LEMMA Longer ==
  ASSUME NEW pr, NEW S, NEW n \in Node, Nested(pr, S), Fits(Append(pr, n), S[Len(pr) + 1], Len(pr) + 1)
  PROVE  \E T : /\ Nested(Append(pr, n), T)
                /\ \A i \in 1 .. Len(pr) + 1 : T[i] = S[i]
                /\ T[Len(pr) + 2] = StackAfter(Append(pr, n), S[Len(pr) + 1], Len(pr) + 1)
<1>1. PICK L \in Nat : L = Len(pr)
  BY DEF Nested
<1>2. PICK q : q = Append(pr, n)
  OBVIOUS
<1>3. q \in Seq(Node) /\ Len(q) = L + 1 /\ (\A i \in 1 .. L : q[i] = pr[i]) /\ q[L + 1] = n
  BY <1>1, <1>2 DEF Nested
<1>4. PICK top : top = StackAfter(q, S[L + 1], L + 1)
  OBVIOUS
<1>5. PICK T : T = [i \in 1 .. L + 2 |-> IF i = L + 2 THEN top ELSE S[i]]
  OBVIOUS
<1>6. (\A i \in 1 .. L + 1 : T[i] = S[i]) /\ T[L + 2] = top /\ DOMAIN T = 1 .. L + 2
  BY <1>5
<1>7. top \in Seq(Below(L + 1))
  <2>1. PICK i \in Nat \ {0} : i = L + 1
    OBVIOUS
  <2>2. S[i] \in Seq(Below(i - 1)) /\ Fits(q, S[i], i)
    BY <1>1, <1>2, <2>1 DEF Nested
  <2> QED BY <1>4, <2>1, <2>2, StackFits
<1>8. ASSUME NEW i \in 1 .. L
      PROVE  Fits(q, T[i], i) /\ T[i + 1] = StackAfter(q, T[i], i)
  <2>1. q[i] = pr[i] /\ T[i] = S[i] /\ T[i + 1] = S[i + 1] /\ S[i] \in Seq(Below(i - 1))
    BY <1>1, <1>3, <1>6 DEF Nested
  <2>2. Fits(pr, S[i], i) /\ S[i + 1] = StackAfter(pr, S[i], i)
    BY <1>1 DEF Nested
  <2>3. StackAfter(pr, S[i], i) = StackAfter(q, S[i], i)
    BY <2>1 DEF StackAfter
  <2>4. S[i] # <<>> => q[Last(S[i]).b] = pr[Last(S[i]).b]
    <3>1. SUFFICES ASSUME S[i] # <<>>
                   PROVE  q[Last(S[i]).b] = pr[Last(S[i]).b]
      OBVIOUS
    <3>2. PICK x : x = Last(S[i])
      OBVIOUS
    <3>3. Len(S[i]) \in 1 .. Len(S[i]) /\ x = S[i][Len(S[i])]
      BY <2>1, <3>1, <3>2 DEF Last
    <3>4. x \in Below(i - 1)
      BY <2>1, <3>3
    <3>5. x.b \in 1 .. L
      BY <3>4 DEF Below
    <3> QED BY <1>3, <3>2, <3>5
  <2>5. Fits(q, S[i], i)
    BY <2>1, <2>2, <2>4 DEF Fits
  <2> QED BY <2>1, <2>2, <2>3, <2>5
<1>9. Nested(q, T)
  <2>1. \A i \in 1 .. L + 1 : Fits(q, T[i], i) /\ T[i + 1] = StackAfter(q, T[i], i)
    <3>1. Fits(q, T[L + 1], L + 1) /\ T[L + 2] = StackAfter(q, T[L + 1], L + 1)
      BY <1>1, <1>2, <1>4, <1>6
    <3>2. L + 1 + 1 = L + 2 /\ \A i \in 1 .. L + 1 : i \in 1 .. L \/ i = L + 1
      OBVIOUS
    <3> QED BY <1>8, <3>1, <3>2
  <2>2. \A i \in 1 .. L + 2 : T[i] \in Seq(Below(i - 1))
    <3>1. \A i \in 1 .. L + 1 : S[i] \in Seq(Below(i - 1))
      BY <1>1 DEF Nested
    <3>2. L + 2 - 1 = L + 1 /\ \A i \in 1 .. L + 2 : i \in 1 .. L + 1 \/ i = L + 2
      OBVIOUS
    <3> QED BY <1>6, <1>7, <3>1, <3>2
  <2>3. T[1] = <<>> /\ T = [i \in DOMAIN T |-> T[i]]
    BY <1>5, <1>6 DEF Nested
  <2>4. Len(q) + 1 = L + 2
    BY <1>3
  <2> QED BY <1>3, <1>6, <2>1, <2>2, <2>3, <2>4 DEF Nested
<1> QED BY <1>1, <1>2, <1>4, <1>6, <1>9

LEMMA ParseInitNInv == ParseInit => NInv
<1> SUFFICES ASSUME ParseInit PROVE NInv
  OBVIOUS
<1>1. prog = <<>> /\ open = <<>> /\ parsed = FALSE
  BY DEF ParseInit
<1>2. PICK S : S = [i \in 1 .. 1 |-> <<>>]
  OBVIOUS
<1>3. DOMAIN S = 1 .. 1 /\ S = [i \in DOMAIN S |-> S[i]] /\ S[1] = <<>>
  BY <1>2
<1>4. Len(prog) = 0 /\ Len(open) = 0 /\ prog \in Seq(Node) /\ open \in Seq(Openers \cup {"else"})
  BY <1>1
<1>5. \A i \in 1 .. 0 + 1 : i = 1
  OBVIOUS
<1>6. Nested(prog, S)
  <2>1. \A i \in 1 .. Len(prog) + 1 : S[i] \in Seq(Below(i - 1))
    <3>1. SUFFICES ASSUME NEW i \in 1 .. 0 + 1
                   PROVE  S[i] \in Seq(Below(i - 1))
      BY <1>4
    <3>2. S[i] = <<>>
      BY <1>3, <1>5
    <3> QED BY <3>2
  <2>2. 1 .. Len(prog) = {}
    BY <1>4
  <2>3. DOMAIN S = 1 .. Len(prog) + 1
    BY <1>3, <1>4
  <2> QED BY <1>3, <1>4, <2>1, <2>2, <2>3 DEF Nested
<1>7. Reads(prog, S, open)
  BY <1>3, <1>4 DEF Reads
<1> QED BY <1>1, <1>6, <1>7 DEF NInv

\* What the parser is reading is the block on top of the stack.
LEMMA ReadingTop ==
  ASSUME NEW S, Nested(prog, S), Reads(prog, S, open)
  PROVE  LET s == S[Len(prog) + 1] IN
         /\ s # <<>> <=> open # <<>>
         /\ open # <<>> => Reading = prog[Last(s).b].k /\ Last(s).b \in 1 .. Len(prog)
         /\ open = <<>> => Reading = "proc"
<1> DEFINE s == S[Len(prog) + 1]
<1>1. Len(prog) \in Nat /\ s \in Seq(Below(Len(prog)))
  BY DEF Nested
<1>2. open \in Seq(Openers \cup {"else"}) /\ Len(open) = Len(s)
      /\ \A k \in 1 .. Len(open) : s[k].b \in 1 .. Len(prog) /\ open[k] = prog[s[k].b].k
  BY DEF Reads
<1> HIDE DEF s
<1>3. s # <<>> <=> open # <<>>
  BY <1>1, <1>2
<1>4. ASSUME open # <<>>
      PROVE  Reading = prog[Last(s).b].k /\ Last(s).b \in 1 .. Len(prog)
  <2>1. Len(open) \in 1 .. Len(open) /\ Last(s) = s[Len(open)] /\ Last(open) = open[Len(open)]
    BY <1>2, <1>4 DEF Last
  <2> QED BY <1>2, <1>4, <2>1 DEF Reading
<1> QED BY <1>3, <1>4 DEF Reading, s

\* A node is added and no block opened or closed.
LEMMA AddsPlain ==
  ASSUME NEW S, Nested(prog, S), Reads(prog, S, open), NEW n \in Node,
         n.k \notin Openers \cup {"else", "end", "arm"}, Reading # "case",
         prog' = Append(prog, n), open' = open, ~parsed'
  PROVE  NInv'
<1>1. PICK L \in Nat : L = Len(prog)
  BY DEF Nested
<1>2. PICK s : s = S[L + 1]
  OBVIOUS
<1>3. prog \in Seq(Node) /\ s \in Seq(Below(L))
  BY <1>1, <1>2 DEF Nested
<1>4. prog'[L + 1] = n /\ Len(prog') = L + 1 /\ \A i \in 1 .. L : prog'[i] = prog[i]
  BY <1>1, <1>3
<1>5. /\ s # <<>> <=> open # <<>>
      /\ open # <<>> => Reading = prog[Last(s).b].k /\ Last(s).b \in 1 .. L
  BY <1>1, <1>2, ReadingTop
<1>6. Fits(prog', s, L + 1)
  BY <1>4, <1>5 DEF Fits
<1>7. PICK T : /\ Nested(prog', T)
               /\ T[L + 2] = StackAfter(prog', s, L + 1)
  BY <1>1, <1>2, <1>6, Longer
<1>8. T[L + 2] = s
  <2>1. PICK q, i : q = prog' /\ i = L + 1
    OBVIOUS
  <2>2. q[i].k \notin Openers \cup {"else", "end"} => StackAfter(q, s, i) = s
    BY StackSteps
  <2> QED BY <1>4, <1>7, <2>1, <2>2
<1>9. Reads(prog', T, open')
  <2>1. L + 1 + 1 = L + 2
    OBVIOUS
  <2>2. open \in Seq(Openers \cup {"else"}) /\ Len(open) = Len(s)
        /\ \A k \in 1 .. Len(open) : s[k].b \in 1 .. L /\ open[k] = prog[s[k].b].k
    BY <1>1, <1>2 DEF Reads
  <2>3. \A k \in 1 .. Len(open) : s[k].b \in 1 .. L + 1 /\ open[k] = prog'[s[k].b].k
    BY <1>4, <2>2
  <2> QED BY <1>4, <1>8, <2>1, <2>2, <2>3 DEF Reads
<1> QED BY <1>7, <1>9 DEF NInv

\* A node is added that opens a block.
LEMMA AddsOpener ==
  ASSUME NEW S, Nested(prog, S), Reads(prog, S, open), NEW n \in Node,
         n.k \in Openers, n.k = "arm" <=> Reading = "case",
         prog' = Append(prog, n), open' = Append(open, n.k), ~parsed'
  PROVE  NInv'
<1>1. PICK L \in Nat : L = Len(prog)
  BY SMTT(30) DEF Nested
<1>2. PICK s : s = S[L + 1]
  OBVIOUS
<1>3. prog \in Seq(Node) /\ s \in Seq(Below(L))
  BY <1>1, <1>2 DEF Nested
<1>4. prog'[L + 1] = n /\ Len(prog') = L + 1 /\ \A i \in 1 .. L : prog'[i] = prog[i]
  BY <1>1, <1>3
<1>5. /\ s # <<>> <=> open # <<>>
      /\ open # <<>> => Reading = prog[Last(s).b].k /\ Last(s).b \in 1 .. L
      /\ open = <<>> => Reading = "proc"
  BY <1>1, <1>2, ReadingTop
<1>6. Fits(prog', s, L + 1)
  <2>1. n.k # "else" /\ n.k # "end"
    BY DEF Openers, Loops
  <2> QED BY <1>4, <1>5, <2>1 DEF Fits
<1>7. PICK T : /\ Nested(prog', T)
               /\ T[L + 2] = StackAfter(prog', s, L + 1)
  BY <1>1, <1>2, <1>6, Longer
<1>8. T[L + 2] = Append(s, [o |-> L + 1, b |-> L + 1])
  <2>1. PICK q, i : q = prog' /\ i = L + 1
    OBVIOUS
  <2>2. q[i].k \in Openers => StackAfter(q, s, i) = Append(s, [o |-> i, b |-> i])
    BY StackSteps
  <2> QED BY <1>4, <1>7, <2>1, <2>2
<1>9. Reads(prog', T, open')
  <2>1. L + 1 + 1 = L + 2
    OBVIOUS
  <2>2. open \in Seq(Openers \cup {"else"}) /\ Len(open) = Len(s)
        /\ \A k \in 1 .. Len(open) : s[k].b \in 1 .. L /\ open[k] = prog[s[k].b].k
    BY <1>1, <1>2 DEF Reads
  <2>3. PICK t : t = T[L + 2]
    OBVIOUS
  <2>4. Len(t) = Len(s) + 1 /\ (\A k \in 1 .. Len(s) : t[k] = s[k])
        /\ t[Len(s) + 1].b = L + 1
    BY <1>3, <1>8, <2>3
  <2>5. open' \in Seq(Openers \cup {"else"}) /\ Len(open') = Len(s) + 1
        /\ (\A k \in 1 .. Len(s) : open'[k] = open[k]) /\ open'[Len(s) + 1] = n.k
    BY <2>2
  <2>6. Len(s) \in Nat /\ \A k \in 1 .. Len(s) + 1 : k \in 1 .. Len(s) \/ k = Len(s) + 1
    BY <1>3
  <2>7. \A k \in 1 .. Len(s) + 1 : t[k].b \in 1 .. L + 1 /\ open'[k] = prog'[t[k].b].k
    BY <1>4, <2>2, <2>4, <2>5, <2>6
  <2>8. T[Len(prog') + 1] = t
    BY <1>4, <2>1, <2>3
  <2>9. Len(open') = Len(t) /\ \A k \in 1 .. Len(open') : t[k].b \in 1 .. Len(prog') /\ open'[k] = prog'[t[k].b].k
    BY <1>4, <2>4, <2>5, <2>7
  <2> QED BY <2>5, <2>8, <2>9 DEF Reads
<1> QED BY <1>7, <1>9 DEF NInv

\* A node is added that ends the block being read, or begins its second part.
LEMMA AddsClosing ==
  ASSUME NEW S, Nested(prog, S), Reads(prog, S, open), open # <<>>,
         \/ /\ Reading = "if" /\ prog' = Append(prog, Mark("else"))
            /\ open' = Append(Front(open), "else")
         \/ prog' = Append(prog, Mark("end")) /\ open' = Front(open),
         ~parsed'
  PROVE  NInv'
<1>1. PICK L \in Nat : L = Len(prog)
  BY DEF Nested
<1>2. PICK s : s = S[L + 1]
  OBVIOUS
<1>3. PICK n \in {Mark("else"), Mark("end")} : prog' = Append(prog, n)
  OBVIOUS
<1>4. n \in Node /\ n.k \in {"else", "end"} /\ n.k \notin Openers
  BY <1>3, NodeKinds DEF Node, Openers, Loops
<1>5. prog \in Seq(Node) /\ s \in Seq(Below(L))
  <2>1. /\ prog \in Seq(Node)
        /\ \A i \in 1 .. Len(prog) + 1 : S[i] \in Seq(Below(i - 1))
    BY ONLY Nested(prog, S) DEF Nested
  <2>2. L + 1 \in 1 .. Len(prog) + 1 /\ (L + 1) - 1 = L
    BY ONLY <1>1
  <2>3. S[L + 1] \in Seq(Below((L + 1) - 1))
    BY ONLY <2>1, <2>2
  <2> QED BY ONLY <1>2, <2>1, <2>2, <2>3
<1>6. prog'[L + 1] = n /\ Len(prog') = L + 1 /\ \A i \in 1 .. L : prog'[i] = prog[i]
  BY <1>1, <1>3, <1>4, <1>5
<1>7. s # <<>> /\ Reading = prog[Last(s).b].k /\ Last(s).b \in 1 .. L
  BY <1>1, <1>2, ReadingTop
<1>8. /\ n.k = "else" => Reading = "if" /\ open' = Append(Front(open), "else")
      /\ n.k = "end" => open' = Front(open)
  <2>1. Mark("else") # Mark("end")
    BY NodeKinds
  <2>2. prog' = Append(prog, Mark("else")) => n = Mark("else")
    <3>1. Mark("else") \in Node
      BY DEF Node
    <3> QED BY <1>1, <1>5, <1>6, <3>1
  <2>3. prog' = Append(prog, Mark("end")) => n = Mark("end")
    <3>1. Mark("end") \in Node
      BY DEF Node
    <3> QED BY <1>1, <1>5, <1>6, <3>1
  <2> QED BY <2>1, <2>2, <2>3, NodeKinds
<1>9. Fits(prog', s, L + 1)
  BY <1>4, <1>6, <1>7, <1>8 DEF Fits
<1>10. PICK T : /\ Nested(prog', T)
                /\ T[L + 2] = StackAfter(prog', s, L + 1)
  BY <1>1, <1>2, <1>3, <1>4, <1>9, Longer
<1>11. /\ n.k = "else" => T[L + 2] = Append(Front(s), [o |-> Last(s).o, b |-> L + 1])
       /\ n.k = "end" => T[L + 2] = Front(s)
  <2>1. PICK q, i : q = prog' /\ i = L + 1
    OBVIOUS
  <2>2. q[i].k = "else" => StackAfter(q, s, i) = Append(Front(s), [o |-> Last(s).o, b |-> i])
    BY StackSteps
  <2>3. q[i].k = "end" => StackAfter(q, s, i) = Front(s)
    <3>1. q[i].k = "end" => q[i].k \notin Openers /\ q[i].k # "else"
      BY DEF Openers, Loops
    <3> QED BY <3>1 DEF StackAfter
  <2> QED BY <1>6, <1>10, <2>1, <2>2, <2>3
<1>12. open \in Seq(Openers \cup {"else"}) /\ Len(open) = Len(s)
       /\ \A k \in 1 .. Len(open) : s[k].b \in 1 .. L /\ open[k] = prog[s[k].b].k
  BY <1>1, <1>2 DEF Reads
<1>13. PICK f, g : f = Front(s) /\ g = Front(open)
  OBVIOUS
<1>14. PICK m \in Nat : m = Len(s) - 1
  <2>1. Len(s) \in Nat \ {0}
    BY <1>5, <1>7
  <2> QED BY <2>1
<1>15. f \in Seq(Below(L)) /\ Len(f) = m /\ \A k \in 1 .. m : f[k] = s[k]
  BY <1>5, <1>7, <1>13, <1>14, FrontOf
<1>16. g \in Seq(Openers \cup {"else"}) /\ Len(g) = m /\ \A k \in 1 .. m : g[k] = open[k]
  <2>1. "else" \in Openers \cup {"else"}
    OBVIOUS
  <2> QED BY <1>12, <1>13, <1>14, <2>1, FrontOf
<1>17. \A k \in 1 .. m : f[k].b \in 1 .. L + 1 /\ g[k] = prog'[f[k].b].k
  <2>1. \A k \in 1 .. m : k \in 1 .. Len(open)
    BY <1>12, <1>14
  <2>2. SUFFICES ASSUME NEW k \in 1 .. m
                 PROVE  f[k].b \in 1 .. L + 1 /\ g[k] = prog'[f[k].b].k
    OBVIOUS
  <2>3. PICK j : j = f[k].b
    OBVIOUS
  <2>4. f[k] = s[k] /\ g[k] = open[k]
    BY ONLY <1>15, <1>16, k \in 1 .. m
  <2>5. s[k].b \in 1 .. L /\ open[k] = prog[s[k].b].k
    BY ONLY <1>12, <2>1, k \in 1 .. m
  <2>6. j \in 1 .. L /\ g[k] = prog[j].k
    BY ONLY <2>3, <2>4, <2>5
  <2>7. prog'[j] = prog[j]
    BY ONLY <1>6, <2>6
  <2>8. j \in 1 .. L + 1
    BY ONLY <2>6, L \in Nat
  <2> QED BY ONLY <2>3, <2>6, <2>7, <2>8
<1>18. T[Len(prog') + 1] = T[L + 2]
  BY <1>6
<1>19. CASE n.k = "end"
  <2>1. T[L + 2] = f /\ open' = g
    BY <1>8, <1>11, <1>13, <1>19
  <2>2. Reads(prog', T, open')
    BY <1>6, <1>15, <1>16, <1>17, <1>18, <2>1 DEF Reads
  <2> QED BY <1>10, <2>2 DEF NInv
<1>20. CASE n.k = "else"
  <2>1. PICK t : t = T[L + 2]
    OBVIOUS
  <2>2. t = Append(f, [o |-> Last(s).o, b |-> L + 1]) /\ open' = Append(g, "else")
    BY <1>8, <1>11, <1>13, <1>20, <2>1
  <2>3. Len(t) = m + 1 /\ (\A k \in 1 .. m : t[k] = f[k]) /\ t[m + 1].b = L + 1
    BY <1>15, <2>2
  <2>4. open' \in Seq(Openers \cup {"else"}) /\ Len(open') = m + 1
        /\ (\A k \in 1 .. m : open'[k] = g[k]) /\ open'[m + 1] = "else"
    BY <1>16, <2>2
  <2>5. \A k \in 1 .. m + 1 : k \in 1 .. m \/ k = m + 1
    OBVIOUS
  <2>6. \A k \in 1 .. m + 1 : t[k].b \in 1 .. L + 1 /\ open'[k] = prog'[t[k].b].k
    <3>1. ASSUME NEW k \in 1 .. m
          PROVE  t[k].b \in 1 .. L + 1 /\ open'[k] = prog'[t[k].b].k
      BY ONLY <1>17, <2>3, <2>4, k \in 1 .. m
    <3>2. t[m + 1].b \in 1 .. L + 1 /\ open'[m + 1] = prog'[t[m + 1].b].k
      BY ONLY <1>6, <1>20, <2>3, <2>4, L \in Nat
    <3> QED BY ONLY <2>5, <3>1, <3>2
  <2>7. Reads(prog', T, open')
    BY <1>6, <1>18, <2>1, <2>3, <2>4, <2>6 DEF Reads
  <2> QED BY <1>10, <2>7 DEF NInv
<1> QED BY <1>4, <1>19, <1>20

\* Every step of the parser leaves a nested body, and the end of the parser one
\* in which no block is open.
LEMMA ParseNInv == NInv /\ ParseNext => NInv'
<1> SUFFICES ASSUME NInv, ParseNext
             PROVE  NInv'
  OBVIOUS
<1>1. PICK S : Nested(prog, S) /\ Reads(prog, S, open) /\ (parsed => open = <<>>)
  BY DEF NInv
<1>2. ~parsed
  BY DEF ParseNext, ParseStmt, ParseOpen, ParseElse, ParseArm, ParseEnd, ParseDone, Room
<1>3. CASE ParseStmt
  <2>1. PICK n \in Stmts : prog' = Append(prog, n)
    BY <1>3 DEF ParseStmt
  <2>2. n \in Node /\ n.k \notin Openers \cup {"else", "end", "arm"}
    BY NodeKinds DEF Node
  <2>3. Reading # "case" /\ open' = open /\ ~parsed'
    BY <1>2, <1>3 DEF ParseStmt
  <2> QED BY <1>1, <2>1, <2>2, <2>3, AddsPlain
<1>4. CASE ParseOpen
  <2>1. PICK n \in Opens : prog' = Append(prog, n) /\ open' = Append(open, n.k)
    BY <1>4 DEF ParseOpen
  <2>2. n \in Node /\ n.k \in Openers /\ n.k # "arm"
    BY NodeKinds DEF Node
  <2>3. Reading # "case" /\ ~parsed'
    BY <1>2, <1>4 DEF ParseOpen
  <2> QED BY <1>1, <2>1, <2>2, <2>3, AddsOpener
<1>5. CASE ParseArm
  <2>1. PICK n \in Arms : prog' = Append(prog, n) /\ open' = Append(open, n.k)
    BY <1>5 DEF ParseArm
  <2>2. n \in Node /\ n.k \in Openers /\ n.k = "arm"
    BY NodeKinds DEF Node, Openers
  <2>3. Reading = "case" /\ ~parsed'
    BY <1>2, <1>5 DEF ParseArm
  <2> QED BY <1>1, <2>1, <2>2, <2>3, AddsOpener
<1>6. CASE ParseElse
  <2>1. Reading = "if" /\ open # <<>>
    BY <1>6 DEF ParseElse, Reading
  <2>2. prog' = Append(prog, Mark("else")) /\ open' = Append(Front(open), "else") /\ ~parsed'
    BY <1>2, <1>6 DEF ParseElse
  <2> QED BY <1>1, <2>1, <2>2, AddsClosing
<1>7. CASE ParseEnd
  <2>1. open # <<>> /\ prog' = Append(prog, Mark("end")) /\ open' = Front(open) /\ ~parsed'
    BY <1>2, <1>7 DEF ParseEnd
  <2> QED BY <1>1, <2>1, AddsClosing
<1>8. CASE ParseDone
  <2>1. prog' = prog /\ open' = open /\ open = <<>>
    BY <1>8 DEF ParseDone
  <2> QED BY <1>1, <2>1 DEF NInv, Nested, Reads
<1> QED BY <1>3, <1>4, <1>5, <1>6, <1>7, <1>8 DEF ParseNext

-----------------------------------------------------------------------------
(* The stacks of a nested body *)

\* The top of the stack before node i was opened at an earlier node, before which
\* the stack was the rest.
Opened(pr, S, i) ==
  LET x == Last(S[i]) IN
  S[i] # <<>> =>
    /\ x.o \in 1 .. i - 1 /\ x.b \in 1 .. i - 1 /\ pr[x.o].k \in Openers
    /\ S[x.o] = Front(S[i])
    /\ x.b = x.o \/ (x.b > x.o /\ pr[x.b].k = "else" /\ pr[x.o].k = "if")

\* The stack of a body before and behind a node.
Stacked(pr, S, i) ==
  /\ S[i] \in Seq(Below(i - 1)) /\ S[i + 1] \in Seq(Below(i))
  /\ Fits(pr, S[i], i)
  /\ pr[i].k \in Openers => S[i + 1] = Append(S[i], [o |-> i, b |-> i])
  /\ pr[i].k = "else" => S[i + 1] = Append(Front(S[i]), [o |-> Last(S[i]).o, b |-> i])
  /\ pr[i].k = "end" => S[i + 1] = Front(S[i])
  /\ pr[i].k \notin Openers \cup {"else", "end"} => S[i + 1] = S[i]

LEMMA StackAt ==
  ASSUME NEW pr, NEW S, Nested(pr, S), NEW i \in 1 .. Len(pr)
  PROVE  Stacked(pr, S, i)
<1>1. Len(pr) \in Nat /\ \A j \in 1 .. Len(pr) + 1 : S[j] \in Seq(Below(j - 1))
  BY DEF Nested
<1>2. S[i] \in Seq(Below(i - 1)) /\ S[i + 1] \in Seq(Below(i))
  <2>1. i + 1 \in 1 .. Len(pr) + 1 /\ i + 1 - 1 = i /\ i \in 1 .. Len(pr) + 1
    BY <1>1
  <2> QED BY <1>1, <2>1
<1>3. Fits(pr, S[i], i) /\ S[i + 1] = StackAfter(pr, S[i], i)
  BY DEF Nested
<1>4. pr[i].k \in Openers => pr[i].k # "else" /\ pr[i].k # "end"
  BY DEF Openers, Loops
<1>5. S[i + 1] = CASE pr[i].k \in Openers -> Append(S[i], [o |-> i, b |-> i])
                   [] pr[i].k = "else"    -> Append(Front(S[i]), [o |-> Last(S[i]).o, b |-> i])
                   [] pr[i].k = "end"     -> Front(S[i])
                   [] OTHER               -> S[i]
  BY <1>3 DEF StackAfter
<1> QED BY <1>1, <1>2, <1>3, <1>4, <1>5 DEF Stacked

LEMMA OpenedStep ==
  ASSUME NEW pr, NEW S, Nested(pr, S), NEW i \in 1 .. Len(pr),
         \A j \in 1 .. i : Opened(pr, S, j)
  PROVE  Opened(pr, S, i + 1)
<1>1. PICK s, t : s = S[i] /\ t = S[i + 1]
  OBVIOUS
<1>2. /\ s \in Seq(Below(i - 1)) /\ Fits(pr, s, i)
      /\ pr[i].k \in Openers => t = Append(s, [o |-> i, b |-> i])
      /\ pr[i].k = "else" => t = Append(Front(s), [o |-> Last(s).o, b |-> i])
      /\ pr[i].k = "end" => t = Front(s)
      /\ pr[i].k \notin Openers \cup {"else", "end"} => t = s
  <2>1. Stacked(pr, S, i)
    BY StackAt
  <2> QED BY <1>1, <2>1 DEF Stacked
<1>3. i \in Nat \ {0} /\ i + 1 - 1 = i
  OBVIOUS
<1>4. Opened(pr, S, i)
  BY <1>3
<1>5. CASE pr[i].k \in Openers
  <2>1. PICK x : x = [o |-> i, b |-> i]
    OBVIOUS
  <2>2. Last(t) = x /\ Front(t) = s
    <3>1. PICK A : A = Below(i - 1) \cup {x}
      OBVIOUS
    <3>2. s \in Seq(A) /\ x \in A
      BY <1>2, <3>1
    <3>3. Last(Append(s, x)) = x /\ Front(Append(s, x)) = s
      BY <3>2, Stacks
    <3> QED BY <1>2, <1>5, <2>1, <3>3
  <2>3. x.o = i /\ x.b = i
    BY <2>1
  <2> QED BY <1>1, <1>3, <1>5, <2>2, <2>3 DEF Opened
<1>6. CASE pr[i].k = "else"
  <2>1. s # <<>> /\ pr[Last(s).b].k = "if"
    BY <1>2, <1>6 DEF Fits
  <2>2. PICK y : y = Last(s)
    OBVIOUS
  <2>3. y.o \in 1 .. i - 1 /\ pr[y.o].k = "if" /\ S[y.o] = Front(s)
    BY <1>1, <1>4, <2>1, <2>2 DEF Opened
  <2>4. PICK x : x = [o |-> y.o, b |-> i]
    OBVIOUS
  <2>5. Last(t) = x /\ Front(t) = Front(s)
    <3>1. PICK A : A = Below(i - 1) \cup {x}
      OBVIOUS
    <3>2. s \in Seq(A) /\ x \in A
      BY <1>2, <3>1
    <3>3. Front(s) \in Seq(A)
      BY <2>1, <3>2, FrontOf
    <3>4. t = Append(Front(s), x)
      BY <1>2, <1>6, <2>2, <2>4
    <3> QED BY <3>2, <3>3, <3>4, Stacks
  <2>6. x.o = y.o /\ x.b = i
    BY <2>4
  <2>7. "if" \in Openers
    BY DEF Openers
  <2>8. x.o \in 1 .. i + 1 - 1 /\ x.b \in 1 .. i + 1 - 1 /\ x.b > x.o
    BY <1>3, <2>3, <2>6
  <2> QED BY <1>1, <1>6, <2>3, <2>5, <2>6, <2>7, <2>8 DEF Opened
<1>7. CASE pr[i].k = "end"
  <2>1. s # <<>>
    BY <1>2, <1>7 DEF Fits
  <2>2. PICK o : o = Last(s).o
    OBVIOUS
  <2>3. o \in 1 .. i - 1 /\ S[o] = Front(s)
    BY <1>1, <1>4, <2>1, <2>2 DEF Opened
  <2>4. t = S[o] /\ Opened(pr, S, o)
    BY <1>2, <1>3, <1>7, <2>3
  <2>5. \A k : k \in 1 .. o - 1 => k \in 1 .. i + 1 - 1
    BY <2>3
  <2> QED BY <1>1, <2>4, <2>5 DEF Opened
<1>8. CASE pr[i].k \notin Openers \cup {"else", "end"}
  <2>1. t = s
    BY <1>2, <1>8
  <2>2. \A k : k \in 1 .. i - 1 => k \in 1 .. i + 1 - 1
    OBVIOUS
  <2> QED BY <1>1, <1>4, <2>1, <2>2 DEF Opened
<1> QED BY <1>5, <1>6, <1>7, <1>8

LEMMA OpenedAll ==
  ASSUME NEW pr, NEW S, Nested(pr, S)
  PROVE  \A i \in 1 .. Len(pr) + 1 : Opened(pr, S, i)
<1> DEFINE Bad == {i \in 1 .. Len(pr) + 1 : ~Opened(pr, S, i)}
<1>1. SUFFICES ASSUME Bad # {} PROVE FALSE
  OBVIOUS
<1>2. Bad \in SUBSET Nat
  OBVIOUS
<1>3. PICK m \in Bad : \A k \in Bad : m <= k
  BY <1>1, <1>2, Least
<1>4. Len(pr) \in Nat
  BY DEF Nested
<1>5. m # 1
  <2>1. S[1] = <<>>
    BY DEF Nested
  <2>2. Opened(pr, S, 1)
    BY <2>1 DEF Opened
  <2> QED BY <2>2
<1>6. PICK i \in 1 .. Len(pr) : m = i + 1
  <2>1. m - 1 \in 1 .. Len(pr) /\ m = m - 1 + 1
    BY <1>3, <1>4, <1>5
  <2> QED BY <2>1
<1>7. \A j \in 1 .. i : Opened(pr, S, j)
  BY <1>3, <1>4, <1>6
<1> QED BY <1>6, <1>7, OpenedStep

-----------------------------------------------------------------------------
(* Program's counting of blocks is the stack *)

\* The nodes before the next one, with one more of a kind or as many.
LEMMA CountOn ==
  ASSUME NEW P, NEW i \in Nat \ {0}
  PROVE  LET D == {j \in 1 .. i - 1 : j \in P}
             E == {j \in 1 .. (i + 1) - 1 : j \in P}
         IN  /\ Cardinality(D) \in Nat
             /\ Cardinality(E) = IF i \in P THEN Cardinality(D) + 1 ELSE Cardinality(D)
<1> DEFINE D == {j \in 1 .. i - 1 : j \in P}
           E == {j \in 1 .. (i + 1) - 1 : j \in P}
<1>1. IsFiniteSet(1 .. i - 1) /\ D \subseteq 1 .. i - 1
  BY FS_Interval
<1>2. IsFiniteSet(D)
  BY <1>1, FS_Subset
<1>3. Cardinality(D) \in Nat
  BY <1>2, FS_CardinalityType
<1>4. E = IF i \in P THEN D \cup {i} ELSE D
  <2>1. \A j : j \in 1 .. (i + 1) - 1 <=> j \in 1 .. i - 1 \/ j = i
    OBVIOUS
  <2> QED BY <2>1
<1>5. i \notin D
  BY <1>1
<1>6. Cardinality(D \cup {i}) = Cardinality(D) + 1
  BY <1>2, <1>5, FS_AddElement
<1> QED BY <1>3, <1>4, <1>6

\* Level counts the blocks of the stack.
LEMMA LevelStep ==
  ASSUME NEW S, Nested(prog, S), NEW i \in 1 .. Len(prog), Level(i) = Len(S[i])
  PROVE  Level(i + 1) = Len(S[i + 1])
<1>0. PICK P, Q : P = {j \in Nat : Kind(j) \in Openers} /\ Q = {j \in Nat : Kind(j) = "end"}
  OBVIOUS
<1> DEFINE Before(T, n) == Cardinality({j \in 1 .. n - 1 : j \in T})
<1>1. i \in Nat \ {0} /\ i + 1 \in Nat
  OBVIOUS
<1>2. ASSUME NEW n \in Nat
      PROVE  Level(n) = Before(P, n) - Before(Q, n)
  <2>1. {j \in 1 .. n - 1 : j \in P} = {j \in 1 .. n - 1 : Kind(j) \in Openers}
    BY <1>0
  <2>2. {j \in 1 .. n - 1 : j \in Q} = {j \in 1 .. n - 1 : Kind(j) = "end"}
    BY <1>0
  <2> QED BY <2>1, <2>2 DEF Level
<1>3. /\ Before(P, i) \in Nat
      /\ Before(P, i + 1) = IF i \in P THEN Before(P, i) + 1 ELSE Before(P, i)
  BY <1>1, CountOn
<1>4. /\ Before(Q, i) \in Nat
      /\ Before(Q, i + 1) = IF i \in Q THEN Before(Q, i) + 1 ELSE Before(Q, i)
  BY <1>1, CountOn
<1>5. Level(i) = Before(P, i) - Before(Q, i) /\ Level(i + 1) = Before(P, i + 1) - Before(Q, i + 1)
  BY <1>1, <1>2
<1> HIDE DEF Before
<1>6. (i \in P <=> prog[i].k \in Openers) /\ (i \in Q <=> prog[i].k = "end")
  BY <1>0, <1>1 DEF Kind
<1>16. PICK a, b : a = Before(P, i) /\ b = Before(Q, i)
  OBVIOUS
<1>17. /\ a \in Nat /\ b \in Nat /\ a - b = Len(S[i])
       /\ Level(i + 1) = (IF prog[i].k \in Openers THEN a + 1 ELSE a) - (IF prog[i].k = "end" THEN b + 1 ELSE b)
  BY <1>3, <1>4, <1>5, <1>6, <1>16
<1>7. Stacked(prog, S, i)
  BY StackAt
<1>8. PICK s, t : s = S[i] /\ t = S[i + 1]
  OBVIOUS
<1>9. PICK A : A = Below(i)
  OBVIOUS
<1>10. s \in Seq(A) /\ Len(s) \in Nat
  <2>1. \A x \in Below(i - 1) : x \in A
    BY <1>9 DEF Below
  <2>2. s \in Seq(Below(i - 1))
    BY <1>7, <1>8 DEF Stacked
  <2> QED BY <2>1, <2>2
<1>11. prog[i].k \in Openers => prog[i].k # "else" /\ prog[i].k # "end"
  BY DEF Openers, Loops
<1>12. CASE prog[i].k \in Openers
  <2>1. PICK x : x = [o |-> i, b |-> i]
    OBVIOUS
  <2>2. t = Append(s, x)
    BY <1>7, <1>8, <1>12, <2>1 DEF Stacked
  <2>3. Len(t) = Len(s) + 1
    BY <1>10, <2>2
  <2>4. Level(i + 1) = (a + 1) - b
    BY <1>11, <1>12, <1>17
  <2>5. PICK n : n = Len(s)
    OBVIOUS
  <2>6. n \in Nat /\ a - b = n /\ Len(S[i + 1]) = n + 1
    BY <1>8, <1>10, <1>17, <2>3, <2>5
  <2>7. (a + 1) - b = n + 1
    BY <1>17, <2>6
  <2> QED BY <2>4, <2>6, <2>7
<1>13. CASE prog[i].k = "else"
  <2>1. s # <<>>
    BY <1>7, <1>8, <1>13 DEF Stacked, Fits
  <2>2. PICK x, f : x = [o |-> Last(s).o, b |-> i] /\ f = Front(s)
    OBVIOUS
  <2>3. t = Append(f, x)
    BY <1>7, <1>8, <1>13, <2>2 DEF Stacked
  <2>4. f \in Seq(A) /\ Len(f) = Len(s) - 1 /\ Len(f) \in Nat
    BY <1>10, <2>1, <2>2, FrontOf
  <2>5. Len(t) = Len(s)
    BY <1>10, <2>3, <2>4
  <2>6. prog[i].k \notin Openers /\ prog[i].k # "end"
    BY <1>11, <1>13
  <2> QED BY <1>8, <1>17, <2>5, <2>6
<1>14. CASE prog[i].k = "end"
  <2>1. s # <<>>
    BY <1>7, <1>8, <1>14 DEF Stacked, Fits
  <2>2. t = Front(s)
    BY <1>7, <1>8, <1>14 DEF Stacked
  <2>3. Len(t) = Len(s) - 1
    BY <1>10, <2>1, <2>2, FrontOf
  <2>4. prog[i].k \notin Openers
    BY <1>11, <1>14
  <2>5. Level(i + 1) = a - (b + 1)
    BY <1>14, <1>17, <2>4
  <2>6. PICK n : n = Len(s)
    OBVIOUS
  <2>7. n \in Nat /\ a - b = n /\ Len(S[i + 1]) = n - 1
    BY <1>8, <1>10, <1>17, <2>3, <2>6
  <2>8. a - (b + 1) = n - 1
    BY <1>17, <2>7
  <2> QED BY <2>5, <2>7, <2>8
<1>15. CASE prog[i].k \notin Openers \cup {"else", "end"}
  <2>1. t = s
    BY <1>7, <1>8, <1>15 DEF Stacked
  <2> QED BY <1>8, <1>15, <1>17, <2>1
<1> QED BY <1>12, <1>13, <1>14, <1>15

LEMMA Levels ==
  ASSUME NEW S, Nested(prog, S)
  PROVE  \A i \in 1 .. Len(prog) + 1 : Level(i) = Len(S[i])
<1> DEFINE Bad == {i \in 1 .. Len(prog) + 1 : Level(i) # Len(S[i])}
<1>1. SUFFICES ASSUME Bad # {} PROVE FALSE
  OBVIOUS
<1>2. Bad \in SUBSET Nat
  OBVIOUS
<1>3. PICK m \in Bad : \A k \in Bad : m <= k
  BY <1>1, <1>2, Least
<1>4. Len(prog) \in Nat
  BY DEF Nested
<1>5. m # 1
  <2>1. S[1] = <<>>
    BY DEF Nested
  <2>2. {j \in 1 .. 1 - 1 : Kind(j) \in Openers} = {} /\ {j \in 1 .. 1 - 1 : Kind(j) = "end"} = {}
    OBVIOUS
  <2>3. Level(1) = 0
    BY <2>2, FS_EmptySet DEF Level
  <2> QED BY <2>1, <2>3
<1>6. PICK i \in 1 .. Len(prog) : m = i + 1
  <2>1. m - 1 \in 1 .. Len(prog) /\ m = m - 1 + 1
    BY <1>3, <1>4, <1>5
  <2> QED BY <2>1
<1>7. Level(i) = Len(S[i])
  BY <1>3, <1>4, <1>6
<1> QED BY <1>6, <1>7, LevelStep

\* Node j begins a block, and nothing before node i ends it.
Begins(j) == Kind(j) \in Openers \cup {"else"}
Unended(j, i) == \A m \in j + 1 .. i - 1 : Kind(m) \in {"else", "end"} => Level(m) # Depth(j)

\* The blocks on the stack are the ones that are not ended.
Standing(S, i) ==
  /\ \A k \in 1 .. Len(S[i]) :
       /\ S[i][k].b \in 1 .. i - 1 /\ Begins(S[i][k].b)
       /\ Depth(S[i][k].b) = k /\ Unended(S[i][k].b, i)
  /\ \A j \in 1 .. i - 1 : Begins(j) /\ Unended(j, i) => \E k \in 1 .. Len(S[i]) : S[i][k].b = j

LEMMA UnendedStep ==
  ASSUME NEW i \in Nat \ {0}
  PROVE  /\ Unended(i, i + 1)
         /\ \A j \in 1 .. i - 1 :
              Unended(j, i + 1) <=> Unended(j, i) /\ (Kind(i) \in {"else", "end"} => Level(i) # Depth(j))
<1>1. Unended(i, i + 1)
  <2>1. i + 1 .. (i + 1) - 1 = {}
    OBVIOUS
  <2> QED BY <2>1 DEF Unended
<1>2. ASSUME NEW j \in 1 .. i - 1
      PROVE  Unended(j, i + 1) <=> Unended(j, i) /\ (Kind(i) \in {"else", "end"} => Level(i) # Depth(j))
  <2>1. \A m : m \in j + 1 .. (i + 1) - 1 <=> m \in j + 1 .. i - 1 \/ m = i
    OBVIOUS
  <2> QED BY <2>1 DEF Unended
<1> QED BY <1>1, <1>2

LEMMA StandingStep ==
  ASSUME NEW S, Nested(prog, S), NEW i \in 1 .. Len(prog), Standing(S, i)
  PROVE  Standing(S, i + 1)
<1>1. PICK s, t : s = S[i] /\ t = S[i + 1]
  OBVIOUS
<1>2. i \in Nat \ {0} /\ (i + 1) - 1 = i
  OBVIOUS
<1>3. Stacked(prog, S, i)
  BY StackAt
<1>4. PICK A : A = Below(i)
  OBVIOUS
<1>5. PICK n \in Nat : n = Len(s)
  <2>1. s \in Seq(Below(i - 1))
    BY <1>1, <1>3 DEF Stacked
  <2> QED BY <2>1
<1>6. s \in Seq(A)
  <2>1. \A x \in Below(i - 1) : x \in A
    BY <1>4 DEF Below
  <2>2. s \in Seq(Below(i - 1))
    BY <1>1, <1>3 DEF Stacked
  <2> QED BY <2>1, <2>2
<1>7. Level(i) = n
  BY <1>1, <1>5, Levels
<1>8. /\ \A k \in 1 .. n : s[k].b \in 1 .. i - 1 /\ Begins(s[k].b) /\ Depth(s[k].b) = k /\ Unended(s[k].b, i)
      /\ \A j \in 1 .. i - 1 : Begins(j) /\ Unended(j, i) => \E k \in 1 .. n : s[k].b = j
  BY <1>1, <1>5 DEF Standing
<1>9. /\ Unended(i, i + 1)
      /\ \A j \in 1 .. i - 1 :
           Unended(j, i + 1) <=> Unended(j, i) /\ (Kind(i) \in {"else", "end"} => n # Depth(j))
  BY <1>2, <1>7, UnendedStep
<1>10. ASSUME NEW m \in Nat, m = Len(t),
              \A k \in 1 .. m : t[k].b \in 1 .. i /\ Begins(t[k].b) /\ Depth(t[k].b) = k /\ Unended(t[k].b, i + 1),
              \A j \in 1 .. i : Begins(j) /\ Unended(j, i + 1) => \E k \in 1 .. m : t[k].b = j
       PROVE  Standing(S, i + 1)
  BY <1>1, <1>2, <1>10 DEF Standing
<1>11. \A j : j \in 1 .. i <=> j \in 1 .. i - 1 \/ j = i
  BY <1>2
<1>12. Kind(i) = prog[i].k
  BY DEF Kind
<1>13. Kind(i) \in Openers => Kind(i) # "else" /\ Kind(i) # "end"
  BY DEF Openers, Loops
<1>14. CASE Kind(i) \in Openers
  <2>1. PICK x : x = [o |-> i, b |-> i]
    OBVIOUS
  <2>2. t = Append(s, x) /\ x.b = i
    BY <1>1, <1>3, <1>12, <1>14, <2>1 DEF Stacked
  <2>3. Len(t) = n + 1 /\ t[n + 1] = x /\ \A k \in 1 .. n : t[k] = s[k]
    BY <1>5, <1>6, <2>2
  <2>4. Depth(i) = n + 1 /\ Begins(i)
    BY <1>7, <1>13, <1>14 DEF Depth, Begins
  <2>5. \A k : k \in 1 .. n + 1 <=> k \in 1 .. n \/ k = n + 1
    OBVIOUS
  <2>6. \A k \in 1 .. n + 1 : t[k].b \in 1 .. i /\ Begins(t[k].b) /\ Depth(t[k].b) = k /\ Unended(t[k].b, i + 1)
    <3> SUFFICES ASSUME NEW k \in 1 .. n + 1
                 PROVE  t[k].b \in 1 .. i /\ Begins(t[k].b) /\ Depth(t[k].b) = k /\ Unended(t[k].b, i + 1)
      OBVIOUS
    <3>1. CASE k = n + 1
      BY <1>2, <1>9, <2>2, <2>3, <2>4, <3>1
    <3>2. CASE k \in 1 .. n
      BY <1>8, <1>9, <1>11, <1>13, <1>14, <2>3, <3>2
    <3> QED BY <2>5, <3>1, <3>2
  <2>7. \A j \in 1 .. i : Begins(j) /\ Unended(j, i + 1) => \E k \in 1 .. n + 1 : t[k].b = j
    <3> SUFFICES ASSUME NEW j \in 1 .. i, Begins(j), Unended(j, i + 1)
                 PROVE  \E k \in 1 .. n + 1 : t[k].b = j
      OBVIOUS
    <3>1. CASE j = i
      BY <2>2, <2>3, <2>5, <3>1
    <3>2. CASE j \in 1 .. i - 1
      BY <1>8, <1>9, <2>3, <2>5, <3>2
    <3> QED BY <1>11, <3>1, <3>2
  <2> QED BY <1>10, <2>3, <2>6, <2>7
<1>15. CASE Kind(i) = "else"
  <2>1. s # <<>>
    BY <1>1, <1>3, <1>12, <1>15 DEF Stacked, Fits
  <2>2. PICK x, f : x = [o |-> Last(s).o, b |-> i] /\ f = Front(s)
    OBVIOUS
  <2>3. t = Append(f, x) /\ x.b = i
    BY <1>1, <1>3, <1>12, <1>15, <2>2 DEF Stacked
  <2>4. f \in Seq(A) /\ Len(f) = n - 1 /\ n - 1 \in Nat /\ \A k \in 1 .. n - 1 : f[k] = s[k]
    BY <1>5, <1>6, <2>1, <2>2, FrontOf
  <2>5. x \in A
    <3>1. Last(s) \in A
      BY <1>6, <2>1, FrontOf
    <3> QED BY <1>2, <1>4, <2>2, <3>1 DEF Below
  <2>6. Len(t) = n /\ t[n] = x /\ \A k \in 1 .. n - 1 : t[k] = s[k]
    BY <1>5, <2>3, <2>4, <2>5
  <2>7. Depth(i) = n /\ Begins(i)
    BY <1>7, <1>15 DEF Depth, Begins
  <2>8. \A k : k \in 1 .. n <=> k \in 1 .. n - 1 \/ k = n
    BY <2>4
  <2>9. \A k \in 1 .. n : t[k].b \in 1 .. i /\ Begins(t[k].b) /\ Depth(t[k].b) = k /\ Unended(t[k].b, i + 1)
    <3> SUFFICES ASSUME NEW k \in 1 .. n
                 PROVE  t[k].b \in 1 .. i /\ Begins(t[k].b) /\ Depth(t[k].b) = k /\ Unended(t[k].b, i + 1)
      OBVIOUS
    <3>1. CASE k = n
      BY <1>2, <1>9, <2>3, <2>6, <2>7, <3>1
    <3>2. CASE k \in 1 .. n - 1
      <4>1. s[k].b \in 1 .. i - 1 /\ Begins(s[k].b) /\ Depth(s[k].b) = k /\ Unended(s[k].b, i) /\ k # n
        BY <1>8, <2>8, <3>2
      <4> QED BY <1>9, <1>11, <2>6, <3>2, <4>1
    <3> QED BY <2>8, <3>1, <3>2
  <2>10. \A j \in 1 .. i : Begins(j) /\ Unended(j, i + 1) => \E k \in 1 .. n : t[k].b = j
    <3> SUFFICES ASSUME NEW j \in 1 .. i, Begins(j), Unended(j, i + 1)
                 PROVE  \E k \in 1 .. n : t[k].b = j
      OBVIOUS
    <3>1. CASE j = i
      BY <2>3, <2>4, <2>6, <2>8, <3>1
    <3>2. CASE j \in 1 .. i - 1
      <4>1. Unended(j, i) /\ n # Depth(j)
        BY <1>9, <1>15, <3>2
      <4>2. PICK k \in 1 .. n : s[k].b = j
        BY <1>8, <3>2, <4>1
      <4>3. k # n
        BY <1>8, <4>1, <4>2
      <4> QED BY <2>6, <2>8, <4>2, <4>3
    <3> QED BY <1>11, <3>1, <3>2
  <2> QED BY <1>10, <2>6, <2>9, <2>10
<1>16. CASE Kind(i) = "end"
  <2>1. s # <<>>
    BY <1>1, <1>3, <1>12, <1>16 DEF Stacked, Fits
  <2>2. t = Front(s)
    BY <1>1, <1>3, <1>12, <1>16 DEF Stacked
  <2>3. Len(t) = n - 1 /\ n - 1 \in Nat /\ \A k \in 1 .. n - 1 : t[k] = s[k]
    BY <1>5, <1>6, <2>1, <2>2, FrontOf
  <2>4. ~Begins(i)
    BY <1>13, <1>16 DEF Begins
  <2>5. \A k : k \in 1 .. n <=> k \in 1 .. n - 1 \/ k = n
    BY <2>3
  <2>6. \A k \in 1 .. n - 1 : t[k].b \in 1 .. i /\ Begins(t[k].b) /\ Depth(t[k].b) = k /\ Unended(t[k].b, i + 1)
    <3> SUFFICES ASSUME NEW k \in 1 .. n - 1
                 PROVE  t[k].b \in 1 .. i /\ Begins(t[k].b) /\ Depth(t[k].b) = k /\ Unended(t[k].b, i + 1)
      OBVIOUS
    <3>1. s[k].b \in 1 .. i - 1 /\ Begins(s[k].b) /\ Depth(s[k].b) = k /\ Unended(s[k].b, i) /\ k # n
      BY <1>8, <2>5
    <3> QED BY <1>9, <1>11, <2>3, <3>1
  <2>7. \A j \in 1 .. i : Begins(j) /\ Unended(j, i + 1) => \E k \in 1 .. n - 1 : t[k].b = j
    <3> SUFFICES ASSUME NEW j \in 1 .. i, Begins(j), Unended(j, i + 1)
                 PROVE  \E k \in 1 .. n - 1 : t[k].b = j
      OBVIOUS
    <3>1. j \in 1 .. i - 1
      BY <1>11, <2>4
    <3>2. Unended(j, i) /\ n # Depth(j)
      BY <1>9, <1>16, <3>1
    <3>3. PICK k \in 1 .. n : s[k].b = j
      BY <1>8, <3>1, <3>2
    <3>4. k # n
      BY <1>8, <3>2, <3>3
    <3> QED BY <2>3, <2>5, <3>3, <3>4
  <2> QED BY <1>10, <2>3, <2>6, <2>7
<1>17. CASE Kind(i) \notin Openers \cup {"else", "end"}
  <2>1. t = s
    BY <1>1, <1>3, <1>12, <1>17 DEF Stacked
  <2>2. ~Begins(i)
    BY <1>17 DEF Begins
  <2>3. \A k \in 1 .. n : t[k].b \in 1 .. i /\ Begins(t[k].b) /\ Depth(t[k].b) = k /\ Unended(t[k].b, i + 1)
    BY <1>8, <1>9, <1>11, <1>17, <2>1
  <2>4. \A j \in 1 .. i : Begins(j) /\ Unended(j, i + 1) => \E k \in 1 .. n : t[k].b = j
    BY <1>8, <1>9, <1>11, <2>1, <2>2
  <2> QED BY <1>5, <1>10, <2>1, <2>3, <2>4
<1> QED BY <1>14, <1>15, <1>16, <1>17

LEMMA StandingAll ==
  ASSUME NEW S, Nested(prog, S)
  PROVE  \A i \in 1 .. Len(prog) + 1 : Standing(S, i)
<1> DEFINE Bad == {i \in 1 .. Len(prog) + 1 : ~Standing(S, i)}
<1>1. SUFFICES ASSUME Bad # {} PROVE FALSE
  OBVIOUS
<1>2. Bad \in SUBSET Nat
  OBVIOUS
<1>3. PICK m \in Bad : \A k \in Bad : m <= k
  BY <1>1, <1>2, Least
<1>4. Len(prog) \in Nat
  BY DEF Nested
<1>5. m # 1
  <2>1. S[1] = <<>>
    BY DEF Nested
  <2>2. Standing(S, 1)
    BY <2>1 DEF Standing
  <2> QED BY <2>2
<1>6. PICK i \in 1 .. Len(prog) : m = i + 1
  <2>1. m - 1 \in 1 .. Len(prog) /\ m = m - 1 + 1
    BY <1>3, <1>4, <1>5
  <2> QED BY <2>1
<1>7. Standing(S, i)
  BY <1>3, <1>4, <1>6
<1> QED BY <1>6, <1>7, StandingStep

\* The blocks node i is in, unless it ends one of them, are those of its stack.
LEMMA BlocksAre ==
  ASSUME NEW S, Nested(prog, S), NEW i \in 1 .. Len(prog), Kind(i) \notin {"else", "end"}
  PROVE  Blocks(i) = {S[i][k].b : k \in 1 .. Len(S[i])}
<1>1. i \in 1 .. Len(prog) + 1
  BY DEF Nested
<1>2. Standing(S, i)
  BY <1>1, StandingAll
<1>3. ASSUME NEW j \in 1 .. i - 1
      PROVE  (\A m \in j + 1 .. i : Kind(m) \in {"else", "end"} => Level(m) # Depth(j)) <=> Unended(j, i)
  <2>1. \A m : m \in j + 1 .. i <=> m \in j + 1 .. i - 1 \/ m = i
    BY <1>3
  <2> QED BY <2>1 DEF Unended
<1>4. Blocks(i) = {j \in 1 .. i - 1 : Begins(j) /\ Unended(j, i)}
  BY <1>3 DEF Blocks, Begins
<1> QED BY <1>2, <1>4 DEF Standing

-----------------------------------------------------------------------------
(* Two walks over a body *)

\* scope_lookup, and check_expr on an operand, in the scope chain c.
KnownIn(c, name) == Holding(c, name) # {}
LookupIn(c, name) == LET s == Max(Holding(c, name)) IN c[s][Max(Entries(c, name))]
ChecksIn(c, y) == y \in Unnamed \/ KnownIn(c, y)
ResolveIn(c, y) == IF y \in Unnamed THEN NoDecl ELSE LookupIn(c, y).d

Bind(name, kind, i) == IF name = None THEN <<>> ELSE <<Symbol(name, "let", Decl(kind, i))>>

Walk(scp, loop, sav) == [scope |-> scp, loop |-> loop, saved |-> sav]

\* check_stmt accepts node n, the i-th, in the walk h: its operands resolve to b.
Accepts(n, h, i, b) ==
  /\ n.k \in Declarations =>
       ChecksIn(h.scope, n.y) /\ b = [x |-> Decl("node", i), y |-> ResolveIn(h.scope, n.y)]
  /\ n.k = "assign" =>
       /\ ChecksIn(h.scope, n.x) /\ ChecksIn(h.scope, n.y)
       /\ b = [x |-> ResolveIn(h.scope, n.x), y |-> ResolveIn(h.scope, n.y)]
  /\ n.k = "exit" => h.loop
  /\ n.k \in {"if"} \cup Loops =>
       ChecksIn(h.scope, n.y) /\ b = [x |-> Decl("node", i), y |-> ResolveIn(h.scope, n.y)]
  /\ n.k = "case" =>
       ChecksIn(h.scope, n.y) /\ b = [x |-> NoDecl, y |-> ResolveIn(h.scope, n.y)]
  /\ n.k \in {"exit", "else", "arm", "end"} => b = [x |-> NoDecl, y |-> NoDecl]

\* What the node does to the walk.
Moves(n, h, g, i) ==
  /\ n.k \in Declarations =>
       g = Walk(Define(h.scope, Symbol(n.x, IF n.k = "let" THEN "let" ELSE "var", Decl("node", i))),
                h.loop, h.saved)
  /\ n.k \in {"assign", "exit"} => g = h
  /\ n.k \in {"if"} \cup Loops =>
       g = Walk(Append(h.scope, Bind(n.key, "key", i) \o Bind(n.x, "node", i)),
                (h.loop \/ n.k \in Loops), Append(h.saved, <<n.k, h.loop>>))
  /\ n.k = "else" => g = Walk(Push(Pop(h.scope)), h.loop, h.saved)
  /\ n.k = "case" => g = Walk(h.scope, h.loop, Append(h.saved, <<"case", h.loop>>))
  /\ n.k = "arm" =>
       g = Walk(Append(h.scope, Bind(n.x, "node", i)), h.loop, Append(h.saved, <<"arm", h.loop>>))
  /\ n.k = "end" =>
       g = Walk(IF Last(h.saved)[1] = "case" THEN h.scope ELSE Pop(h.scope),
                Last(h.saved)[2], Front(h.saved))

Sequence(s) == \E A : s \in Seq(A)

\* The walk as check_proc begins it.
FileScope == [g \in 1 .. Len(Globals) |-> Symbol(Globals[g], "var", Decl("global", Globals[g]))]
ProcScope ==
  [p \in 1 .. Len(Params) |-> Symbol(Params[p], "let", Decl("param", p))]
    \o [o \in 1 .. Len(Outs) |-> Symbol(Outs[o], "var", Decl("out", o))]
Begun == Walk(<<FileScope, ProcScope>>, FALSE, <<>>)

\* H is a walk over the first n - 1 nodes, on which the operands got the
\* declarations bd.
Walked(pr, H, bd, n) ==
  /\ n \in 1 .. Len(pr) + 1 /\ Sequence(bd) /\ Len(bd) = n - 1 /\ H[1] = Begun
  /\ \A i \in 1 .. n - 1 : Accepts(pr[i], H[i], i, bd[i]) /\ Moves(pr[i], H[i], H[i + 1], i)

\* What the checker can have bound before node i.
Symbols(pr, i) ==
  {FileScope[g] : g \in 1 .. Len(Globals)}
    \cup {Symbol(Params[p], "let", Decl("param", p)) : p \in 1 .. Len(Params)}
    \cup {Symbol(Outs[o], "var", Decl("out", o)) : o \in 1 .. Len(Outs)}
    \cup {Symbol(pr[j].x, kind, Decl("node", j)) :
            j \in {j \in 1 .. i - 1 : pr[j].k \in Declarations \cup {"for", "arm"}},
            kind \in {"let", "var"}}
    \cup {Symbol(pr[j].key, "let", Decl("key", j)) :
            j \in {j \in 1 .. i - 1 : pr[j].k = "for" /\ pr[j].key # None}}

\* The walk before node i is one in which the blocks of S[i] are open ...
Shaped(pr, S, H, i) ==
  LET h == H[i] IN
  /\ h.scope \in Seq(Seq(Symbols(pr, i)))
  /\ Len(h.scope) >= 2 /\ h.scope[1] = FileScope
  /\ h.saved \in Seq(Openers \X BOOLEAN) /\ h.loop \in BOOLEAN
  /\ Len(h.saved) = Len(S[i])

\* ... and the innermost of them was entered from the walk before it.
Entered(pr, S, H, i) ==
  S[i] # <<>> =>
    LET o == Last(S[i]).o IN
    /\ H[o].scope = IF pr[o].k = "case" THEN H[i].scope ELSE Front(H[i].scope)
    /\ H[o].saved = Front(H[i].saved) /\ Last(H[i].saved) = <<pr[o].k, H[o].loop>>
    /\ H[i].loop = (H[o].loop \/ pr[o].k \in Loops)
-----------------------------------------------------------------------------
(* Scope chains *)

LEMMA Defines ==
  ASSUME NEW A, NEW c \in Seq(Seq(A)), c # <<>>, NEW e \in A
  PROVE  /\ Define(c, e) \in Seq(Seq(A)) /\ Len(Define(c, e)) = Len(c)
         /\ \A k \in 1 .. Len(c) - 1 : Define(c, e)[k] = c[k]
         /\ Define(c, e)[Len(c)] = Append(c[Len(c)], e)
         /\ Front(Define(c, e)) = Front(c)
<1>1. Len(c) \in Nat \ {0} /\ Len(c) \in 1 .. Len(c)
  OBVIOUS
<1>2. PICK d : d = Define(c, e)
  OBVIOUS
<1>3. PICK t : t = Append(c[Len(c)], e)
  OBVIOUS
<1>4. t \in Seq(A)
  BY <1>1, <1>3
<1>5. d = [c EXCEPT ![Len(c)] = t]
  BY <1>2, <1>3 DEF Define
<1>6. d \in Seq(Seq(A)) /\ Len(d) = Len(c) /\ d[Len(c)] = t
      /\ \A k \in 1 .. Len(c) - 1 : d[k] = c[k]
  BY <1>1, <1>4, <1>5
<1>7. Front(d) = Front(c)
  <2>0. Len(c) - 1 \in Nat
    BY <1>1
  <2>1. PICK n \in Nat : n = Len(c) - 1
    BY <2>0
  <2>2. SubSeq(d, 1, n) = SubSeq(c, 1, n)
    BY <1>1, <1>6, <2>1
  <2> QED BY <1>6, <2>1, <2>2 DEF Front
<1> QED BY <1>2, <1>3, <1>6, <1>7

LEMMA Wider ==
  ASSUME NEW A, NEW B, A \subseteq B, NEW c \in Seq(Seq(A))
  PROVE  c \in Seq(Seq(B))
<1>1. \A s \in Seq(A) : s \in Seq(B)
  OBVIOUS
<1>2. \A k \in 1 .. Len(c) : c[k] \in Seq(B)
  BY <1>1
<1> QED BY <1>2

LEMMA MoreSymbols ==
  ASSUME NEW pr, NEW i \in Nat, NEW k \in Nat, i <= k
  PROVE  Symbols(pr, i) \subseteq Symbols(pr, k)
<1>1. 1 .. i - 1 \subseteq 1 .. k - 1
  OBVIOUS
<1> QED BY <1>1 DEF Symbols

LEMMA ProcScopes ==
  ASSUME NEW pr
  PROVE  FileScope \in Seq(Symbols(pr, 1)) /\ ProcScope \in Seq(Symbols(pr, 1))
<1>1. Len(Globals) \in Nat /\ Len(Params) \in Nat /\ Len(Outs) \in Nat
  BY GlobalsAssumption, TuplesAssumption
<1>2. FileScope \in Seq(Symbols(pr, 1))
  <2>1. \A g \in 1 .. Len(Globals) : FileScope[g] \in Symbols(pr, 1)
    BY DEF Symbols
  <2>2. FileScope = [g \in 1 .. Len(Globals) |-> FileScope[g]]
    BY DEF FileScope
  <2>3. PICK f : f = FileScope
    OBVIOUS
  <2> QED BY <1>1, <2>1, <2>2, <2>3
<1>3. PICK ps : ps = [p \in 1 .. Len(Params) |-> Symbol(Params[p], "let", Decl("param", p))]
  OBVIOUS
<1>4. PICK os : os = [o \in 1 .. Len(Outs) |-> Symbol(Outs[o], "var", Decl("out", o))]
  OBVIOUS
<1>5. ps \in Seq(Symbols(pr, 1))
  <2>1. \A p \in 1 .. Len(Params) : ps[p] \in Symbols(pr, 1)
    BY <1>3 DEF Symbols
  <2> QED BY <1>1, <1>3, <2>1
<1>6. os \in Seq(Symbols(pr, 1))
  <2>1. \A o \in 1 .. Len(Outs) : os[o] \in Symbols(pr, 1)
    BY <1>4 DEF Symbols
  <2> QED BY <1>1, <1>4, <2>1
<1>7. ProcScope = ps \o os
  BY <1>3, <1>4 DEF ProcScope
<1> QED BY <1>2, <1>5, <1>6, <1>7

\* The nodes of a body, by what they bind.
LEMMA NodeShapes ==
  ASSUME NEW n \in Node
  PROVE  /\ n.k \in Declarations \cup {"assign", "exit", "if", "else", "case", "arm", "end"} \cup Loops
         /\ n.k \in {"if", "while", "loop"} => n.x = None /\ n.key = None
<1>1. CASE n \in Stmts
  <2>1. n.k \in Declarations \cup {"assign", "exit"}
    BY <1>1, NodesAssumption
  <2>2. n.k \notin {"if", "while", "loop"}
    BY <2>1 DEF Declarations
  <2> QED BY <2>1, <2>2
<1>2. CASE n \in Opens
  <2>1. n.k \in {"if", "case"} \cup Loops /\ (n.k # "for" => n.x = None /\ n.key = None)
    BY <1>2, NodesAssumption
  <2> QED BY <2>1
<1>3. CASE n \in Arms
  <2>1. n.k = "arm"
    BY <1>3, NodesAssumption
  <2> QED BY <2>1
<1>4. CASE n \in {Mark("else"), Mark("end")}
  <2>1. n.k \in {"else", "end"}
    BY <1>4 DEF Mark
  <2> QED BY <2>1
<1> QED BY <1>1, <1>2, <1>3, <1>4 DEF Node

LEMMA Walks ==
  ASSUME NEW scp, NEW loop, NEW sav
  PROVE  /\ Walk(scp, loop, sav).scope = scp /\ Walk(scp, loop, sav).loop = loop
         /\ Walk(scp, loop, sav).saved = sav
BY DEF Walk

\* A declaration adds to the innermost scope and opens nothing.
LEMMA WalkDecl ==
  ASSUME NEW pr, NEW S, NEW H, Nested(pr, S), NEW i \in 1 .. Len(pr),
         Moves(pr[i], H[i], H[i + 1], i), pr[i].k \in Declarations,
         Shaped(pr, S, H, i), Entered(pr, S, H, i)
  PROVE  Shaped(pr, S, H, i + 1) /\ Entered(pr, S, H, i + 1)
<1>1. PICK h, g, s, n : h = H[i] /\ g = H[i + 1] /\ s = S[i] /\ n = pr[i]
  OBVIOUS
<1>2. PICK e : e = Symbol(n.x, IF n.k = "let" THEN "let" ELSE "var", Decl("node", i))
  OBVIOUS
<1>3. g.scope = Define(h.scope, e) /\ g.loop = h.loop /\ g.saved = h.saved
  <2>1. g = Walk(Define(h.scope, e), h.loop, h.saved)
    BY <1>1, <1>2 DEF Moves
  <2> QED BY <2>1, Walks
<1>4. S[i + 1] = s /\ Fits(pr, s, i)
  <2>1. Stacked(pr, S, i)
    BY StackAt
  <2>2. n.k \notin Openers \cup {"else", "end"}
    BY <1>1 DEF Declarations, Openers, Loops
  <2> QED BY <1>1, <2>1, <2>2 DEF Stacked
<1>5. PICK B : B = Symbols(pr, i + 1)
  OBVIOUS
<1>6. e \in B
  <2>1. i \in 1 .. i + 1 - 1
    OBVIOUS
  <2> QED BY <1>1, <1>2, <1>5, <2>1 DEF Symbols
<1>7. h.scope \in Seq(Seq(B)) /\ h.scope # <<>> /\ Len(h.scope) >= 2 /\ h.scope[1] = FileScope
  <2>1. Symbols(pr, i) \subseteq B
    BY <1>5, MoreSymbols
  <2>2. h.scope \in Seq(Seq(Symbols(pr, i))) /\ Len(h.scope) >= 2 /\ h.scope[1] = FileScope
    BY <1>1 DEF Shaped
  <2>3. h.scope # <<>>
    BY <2>2
  <2> QED BY <2>1, <2>2, <2>3, Wider
<1>8. /\ g.scope \in Seq(Seq(B)) /\ Len(g.scope) >= 2
      /\ g.scope[1] = FileScope /\ Front(g.scope) = Front(h.scope)
  <2>1. PICK d : d = Define(h.scope, e)
    OBVIOUS
  <2>2. /\ d \in Seq(Seq(B)) /\ Len(d) = Len(h.scope)
        /\ \A k \in 1 .. Len(h.scope) - 1 : d[k] = h.scope[k]
        /\ Front(d) = Front(h.scope)
    BY <1>6, <1>7, <2>1, Defines
  <2>3. 1 \in 1 .. Len(h.scope) - 1
    BY <1>7
  <2> QED BY <1>3, <1>7, <2>1, <2>2, <2>3
<1>9. Shaped(pr, S, H, i + 1)
  <2>1. h.saved \in Seq(Openers \X BOOLEAN) /\ h.loop \in BOOLEAN /\ Len(h.saved) = Len(s)
    BY <1>1 DEF Shaped
  <2> QED BY <1>1, <1>3, <1>4, <1>5, <1>8, <2>1 DEF Shaped
<1>10. Entered(pr, S, H, i + 1)
  <2>1. SUFFICES ASSUME s # <<>>
                 PROVE  LET o == Last(s).o IN
                        /\ H[o].scope = IF pr[o].k = "case" THEN g.scope ELSE Front(g.scope)
                        /\ H[o].saved = Front(g.saved) /\ Last(g.saved) = <<pr[o].k, H[o].loop>>
                        /\ g.loop = (H[o].loop \/ pr[o].k \in Loops)
    BY <1>1, <1>4 DEF Entered
  <2>2. PICK o : o = Last(s).o
    OBVIOUS
  <2>3. /\ H[o].scope = IF pr[o].k = "case" THEN h.scope ELSE Front(h.scope)
        /\ H[o].saved = Front(h.saved) /\ Last(h.saved) = <<pr[o].k, H[o].loop>>
        /\ h.loop = (H[o].loop \/ pr[o].k \in Loops)
    BY <1>1, <2>1, <2>2 DEF Entered
  <2>4. pr[o].k # "case"
    <3>1. Opened(pr, S, i)
      BY OpenedAll
    <3>2. PICK x : x = Last(s)
      OBVIOUS
    <3>3. x.b = x.o \/ pr[o].k = "if"
      BY <1>1, <2>1, <2>2, <3>1, <3>2 DEF Opened
    <3>4. pr[x.b].k = "case" => n.k \in {"arm", "end"}
      BY <1>1, <1>4, <2>1, <3>2 DEF Fits
    <3>5. n.k \notin {"arm", "end"}
      BY <1>1 DEF Declarations
    <3> QED BY <2>2, <3>2, <3>3, <3>4, <3>5
  <2> QED BY <1>3, <1>8, <2>2, <2>3, <2>4
<1> QED BY <1>9, <1>10

\* An assignment or an exit leaves the walk as it is.
LEMMA WalkPlain ==
  ASSUME NEW pr, NEW S, NEW H, Nested(pr, S), NEW i \in 1 .. Len(pr),
         Moves(pr[i], H[i], H[i + 1], i), pr[i].k \in {"assign", "exit"},
         Shaped(pr, S, H, i), Entered(pr, S, H, i)
  PROVE  Shaped(pr, S, H, i + 1) /\ Entered(pr, S, H, i + 1)
<1>1. H[i + 1] = H[i]
  BY DEF Moves
<1>2. S[i + 1] = S[i]
  <2>1. Stacked(pr, S, i)
    BY StackAt
  <2>2. pr[i].k \notin Openers \cup {"else", "end"}
    BY DEF Openers, Loops
  <2> QED BY <2>1, <2>2 DEF Stacked
<1>3. H[i].scope \in Seq(Seq(Symbols(pr, i + 1)))
  <2>1. Symbols(pr, i) \subseteq Symbols(pr, i + 1)
    BY MoreSymbols
  <2>2. H[i].scope \in Seq(Seq(Symbols(pr, i)))
    BY DEF Shaped
  <2> QED BY <2>1, <2>2, Wider
<1>4. Shaped(pr, S, H, i + 1)
  BY <1>1, <1>2, <1>3 DEF Shaped
<1>5. Entered(pr, S, H, i + 1)
  BY <1>1, <1>2 DEF Entered
<1> QED BY <1>4, <1>5

\* What the entry of a block binds.
LEMMA Bindings ==
  ASSUME NEW pr, NEW i \in Nat \ {0}, pr[i] \in Node
  PROVE  /\ pr[i].k \in {"if"} \cup Loops =>
              (Bind(pr[i].key, "key", i) \o Bind(pr[i].x, "node", i)) \in Seq(Symbols(pr, i + 1))
         /\ pr[i].k = "arm" => Bind(pr[i].x, "node", i) \in Seq(Symbols(pr, i + 1))
<1>1. PICK n, B : n = pr[i] /\ B = Symbols(pr, i + 1)
  OBVIOUS
<1>2. i \in 1 .. i + 1 - 1
  OBVIOUS
<1>3. n.k \in {"for", "arm"} => Symbol(n.x, "let", Decl("node", i)) \in B
  BY <1>1, <1>2 DEF Symbols
<1>4. n.k \in {"for", "arm"} => Bind(n.x, "node", i) \in Seq(B)
  <2>1. PICK e : e = Symbol(n.x, "let", Decl("node", i))
    OBVIOUS
  <2>2. e \in B => <<e>> \in Seq(B)
    OBVIOUS
  <2> QED BY <1>3, <2>1, <2>2 DEF Bind
<1>5. n.k = "for" => Bind(n.key, "key", i) \in Seq(B)
  <2>1. PICK e : e = Symbol(n.key, "let", Decl("key", i))
    OBVIOUS
  <2>2. n.k = "for" /\ n.key # None => e \in B
    BY <1>1, <1>2, <2>1 DEF Symbols
  <2>3. e \in B => <<e>> \in Seq(B)
    OBVIOUS
  <2> QED BY <2>1, <2>2, <2>3 DEF Bind
<1>6. n.k \in {"if", "while", "loop"} => Bind(n.key, "key", i) = <<>> /\ Bind(n.x, "node", i) = <<>>
  BY <1>1, NodeShapes DEF Bind
<1>7. n.k \in {"if", "while", "loop"} => (Bind(n.key, "key", i) \o Bind(n.x, "node", i)) \in Seq(B)
  <2>1. <<>> \o <<>> = <<>> /\ <<>> \in Seq(B)
    OBVIOUS
  <2> QED BY <1>6, <2>1
<1>8. n.k = "for" => (Bind(n.key, "key", i) \o Bind(n.x, "node", i)) \in Seq(B)
  <2>1. PICK p, q : p = Bind(n.key, "key", i) /\ q = Bind(n.x, "node", i)
    OBVIOUS
  <2>2. p \in Seq(B) /\ q \in Seq(B) => (p \o q) \in Seq(B)
    OBVIOUS
  <2> QED BY <1>4, <1>5, <2>1, <2>2
<1> QED BY <1>1, <1>4, <1>7, <1>8 DEF Loops

\* A block is entered: a scope and a saved flag are put on the stacks.
LEMMA WalkOpen ==
  ASSUME NEW pr, NEW S, NEW H, Nested(pr, S), NEW i \in 1 .. Len(pr),
         Moves(pr[i], H[i], H[i + 1], i), pr[i].k \in {"if", "arm", "case"} \cup Loops,
         Shaped(pr, S, H, i)
  PROVE  Shaped(pr, S, H, i + 1) /\ Entered(pr, S, H, i + 1)
<1>1. PICK h, g, s, n : h = H[i] /\ g = H[i + 1] /\ s = S[i] /\ n = pr[i]
  OBVIOUS
<1>2. PICK B : B = Symbols(pr, i + 1)
  OBVIOUS
<1>3. pr[i] \in Node /\ i \in Nat \ {0}
  BY DEF Nested
<1>4. PICK new : new = IF n.k = "arm" THEN Bind(n.x, "node", i)
                       ELSE Bind(n.key, "key", i) \o Bind(n.x, "node", i)
  OBVIOUS
<1>5. n.k # "case" => new \in Seq(B)
  BY <1>1, <1>2, <1>3, <1>4, Bindings
<1>6. /\ g.scope = IF n.k = "case" THEN h.scope ELSE Append(h.scope, new)
      /\ g.loop = (h.loop \/ n.k \in Loops)
      /\ g.saved = Append(h.saved, <<n.k, h.loop>>)
  <2>0. PICK lp, sv, scp : /\ lp = (h.loop \/ n.k \in Loops) /\ sv = Append(h.saved, <<n.k, h.loop>>)
                           /\ scp = IF n.k = "case" THEN h.scope ELSE Append(h.scope, new)
    OBVIOUS
  <2>1. CASE n.k \in {"if"} \cup Loops
    <3>1. scp = Append(h.scope, new) /\ new = Bind(n.key, "key", i) \o Bind(n.x, "node", i)
      BY <1>4, <2>0, <2>1 DEF Loops
    <3>2. g = Walk(scp, lp, sv)
      BY <1>1, <2>0, <2>1, <3>1 DEF Moves
    <3>3. g.scope = scp /\ g.loop = lp /\ g.saved = sv
      BY <3>2, Walks
    <3> QED BY <2>0, <3>3, Zenon
  <2>2. CASE n.k \in {"arm", "case"}
    <3>1. n.k \notin Loops
      BY <2>2 DEF Loops
    <3>2. h.loop \in BOOLEAN
      BY <1>1 DEF Shaped
    <3>3. lp = h.loop
      BY <2>0, <3>1, <3>2, Zenon
    <3>4. g = Walk(scp, lp, sv)
      BY <1>1, <1>4, <2>0, <2>2, <3>3 DEF Moves
    <3>5. g.scope = scp /\ g.loop = lp /\ g.saved = sv
      BY <3>4, Walks
    <3> QED BY <2>0, <3>5, Zenon
  <2> QED BY <1>1, <2>1, <2>2
<1>7. S[i + 1] = Append(s, [o |-> i, b |-> i]) /\ s \in Seq(Below(i - 1))
  <2>1. Stacked(pr, S, i)
    BY StackAt
  <2>2. n.k \in Openers
    BY <1>1 DEF Openers
  <2> QED BY <1>1, <2>1, <2>2 DEF Stacked
<1>8. /\ h.scope \in Seq(Seq(B)) /\ Len(h.scope) >= 2 /\ h.scope[1] = FileScope
      /\ h.saved \in Seq(Openers \X BOOLEAN) /\ h.loop \in BOOLEAN /\ Len(h.saved) = Len(s)
  <2>1. Symbols(pr, i) \subseteq B
    BY <1>2, MoreSymbols
  <2>2. /\ h.scope \in Seq(Seq(Symbols(pr, i))) /\ Len(h.scope) >= 2 /\ h.scope[1] = FileScope
        /\ h.saved \in Seq(Openers \X BOOLEAN) /\ h.loop \in BOOLEAN /\ Len(h.saved) = Len(s)
    BY <1>1 DEF Shaped
  <2> QED BY <2>1, <2>2, Wider
<1>9. PICK v : v = <<n.k, h.loop>>
  OBVIOUS
<1>10. v \in Openers \X BOOLEAN
  BY <1>1, <1>8, <1>9 DEF Openers
<1>11. /\ g.saved \in Seq(Openers \X BOOLEAN) /\ Len(g.saved) = Len(h.saved) + 1
       /\ Last(g.saved) = v /\ Front(g.saved) = h.saved
  <2>1. PICK q : q = Append(h.saved, v)
    OBVIOUS
  <2>2. q \in Seq(Openers \X BOOLEAN) /\ Len(q) = Len(h.saved) + 1 /\ Last(q) = v /\ Front(q) = h.saved
    BY <1>8, <1>10, <2>1, Stacks, SMTT(30)
  <2> QED BY <1>6, <1>9, <2>1, <2>2
<1>12. n.k # "case" =>
         /\ g.scope \in Seq(Seq(B)) /\ Len(g.scope) = Len(h.scope) + 1
         /\ g.scope[1] = FileScope /\ Front(g.scope) = h.scope
  <2>1. SUFFICES ASSUME n.k # "case"
                 PROVE  /\ g.scope \in Seq(Seq(B)) /\ Len(g.scope) = Len(h.scope) + 1
                        /\ g.scope[1] = FileScope /\ Front(g.scope) = h.scope
    OBVIOUS
  <2>2. PICK A, q : A = Seq(B) /\ q = Append(h.scope, new)
    OBVIOUS
  <2>3. new \in A /\ h.scope \in Seq(A)
    BY <1>5, <1>8, <2>1, <2>2
  <2>4. /\ q \in Seq(A) /\ Len(q) = Len(h.scope) + 1
        /\ \A k \in 1 .. Len(h.scope) : q[k] = h.scope[k]
        /\ Front(q) = h.scope
    BY <2>2, <2>3, Stacks
  <2>5. 1 \in 1 .. Len(h.scope)
    BY <1>8
  <2> QED BY <1>6, <1>8, <2>1, <2>2, <2>4, <2>5
<1>13. Len(S[i + 1]) = Len(s) + 1 /\ Last(S[i + 1]).o = i /\ S[i + 1] # <<>>
  <2>1. PICK x : x = [o |-> i, b |-> i]
    OBVIOUS
  <2>2. x.o = i
    BY <2>1
  <2>3. PICK A : A = Below(i - 1) \cup {x}
    OBVIOUS
  <2>4. s \in Seq(A) /\ x \in A
    BY <1>7, <2>3
  <2>5. Last(Append(s, x)) = x /\ Len(Append(s, x)) = Len(s) + 1 /\ Append(s, x) # <<>>
    BY <2>4, Stacks
  <2> QED BY <1>7, <2>1, <2>2, <2>5
<1>14. Shaped(pr, S, H, i + 1)
  <2>1. g.scope \in Seq(Seq(B)) /\ Len(g.scope) >= 2 /\ g.scope[1] = FileScope
    <3>1. CASE n.k = "case"
      BY <1>6, <1>8, <3>1
    <3>2. CASE n.k # "case"
      BY <1>8, <1>12, <3>2
    <3> QED BY <3>1, <3>2
  <2>2. g.loop \in BOOLEAN
    BY <1>6
  <2> QED BY <1>1, <1>2, <1>8, <1>11, <1>13, <2>1, <2>2 DEF Shaped
<1>15. Entered(pr, S, H, i + 1)
  <2>1. Last(S[i + 1]).o = i /\ H[i] = h /\ H[i + 1] = g /\ pr[i] = n
    BY <1>1, <1>13
  <2>2. h.scope = IF n.k = "case" THEN g.scope ELSE Front(g.scope)
    BY <1>6, <1>12
  <2>3. h.saved = Front(g.saved) /\ Last(g.saved) = <<n.k, h.loop>>
    BY <1>9, <1>11
  <2>4. g.loop = (h.loop \/ n.k \in Loops)
    BY <1>6
  <2> QED BY <2>1, <2>2, <2>3, <2>4 DEF Entered
<1> QED BY <1>14, <1>15

\* The second part of an if starts from the walk before the if.
LEMMA WalkElse ==
  ASSUME NEW pr, NEW S, NEW H, Nested(pr, S), NEW i \in 1 .. Len(pr),
         Moves(pr[i], H[i], H[i + 1], i), pr[i].k = "else",
         \A j \in 1 .. i : Shaped(pr, S, H, j) /\ Entered(pr, S, H, j)
  PROVE  Shaped(pr, S, H, i + 1) /\ Entered(pr, S, H, i + 1)
<1>1. PICK h, g, s : h = H[i] /\ g = H[i + 1] /\ s = S[i]
  OBVIOUS
<1>2. /\ s # <<>> /\ s \in Seq(Below(i - 1)) /\ pr[Last(s).b].k = "if"
      /\ S[i + 1] = Append(Front(s), [o |-> Last(s).o, b |-> i])
  <2>1. Stacked(pr, S, i)
    BY StackAt
  <2> QED BY <1>1, <2>1 DEF Stacked, Fits
<1>3. PICK o : o = Last(s).o
  OBVIOUS
<1>4. o \in 1 .. i - 1 /\ pr[o].k = "if" /\ S[o] = Front(s)
  <2>1. Opened(pr, S, i)
    BY OpenedAll
  <2> QED BY <1>1, <1>2, <1>3, <2>1 DEF Opened
<1>5. /\ H[o].scope = Front(h.scope) /\ H[o].saved = Front(h.saved)
      /\ Last(h.saved) = <<"if", H[o].loop>> /\ h.loop = (H[o].loop \/ "if" \in Loops)
  <2>1. Entered(pr, S, H, i)
    OBVIOUS
  <2>2. /\ H[o].scope = IF pr[o].k = "case" THEN h.scope ELSE Front(h.scope)
        /\ H[o].saved = Front(h.saved) /\ Last(h.saved) = <<pr[o].k, H[o].loop>>
        /\ h.loop = (H[o].loop \/ pr[o].k \in Loops)
    BY <1>1, <1>2, <1>3, <2>1 DEF Entered
  <2> QED BY <1>4, <2>2
<1>6. PICK c : c = H[o].scope
  OBVIOUS
<1>7. PICK B : B = Symbols(pr, i + 1)
  OBVIOUS
<1>8. c \in Seq(Seq(B)) /\ Len(c) >= 2 /\ c[1] = FileScope
  <2>1. Shaped(pr, S, H, o)
    BY <1>4
  <2>2. Symbols(pr, o) \subseteq B
    BY <1>4, <1>7, MoreSymbols
  <2>3. c \in Seq(Seq(Symbols(pr, o))) /\ Len(c) >= 2 /\ c[1] = FileScope
    BY <1>6, <2>1 DEF Shaped
  <2> QED BY <2>2, <2>3, Wider
<1>9. g.scope = Append(c, <<>>) /\ g.loop = h.loop /\ g.saved = h.saved
  <2>1. PICK q, lp, sv : q = Append(c, <<>>) /\ lp = h.loop /\ sv = h.saved
    OBVIOUS
  <2>2. g = Walk(q, lp, sv)
    BY <1>1, <1>5, <1>6, <2>1 DEF Moves, Push, Pop
  <2>3. g.scope = q /\ g.loop = lp /\ g.saved = sv
    BY <2>2, Walks
  <2> QED BY <2>1, <2>3
<1>10. /\ g.scope \in Seq(Seq(B)) /\ Len(g.scope) >= 2 /\ g.scope[1] = FileScope
       /\ Front(g.scope) = c
  <2>1. PICK A, x : A = Seq(B) /\ x = <<>>
    OBVIOUS
  <2>2. x \in A /\ c \in Seq(A)
    BY <1>8, <2>1
  <2>3. PICK q : q = Append(c, x)
    OBVIOUS
  <2>4. /\ q \in Seq(A) /\ Len(q) = Len(c) + 1
        /\ \A k \in 1 .. Len(c) : q[k] = c[k]
        /\ Front(q) = c
    BY <2>2, <2>3, Stacks
  <2>5. 1 \in 1 .. Len(c) /\ Len(c) + 1 >= 2
    BY <1>8
  <2> QED BY <1>8, <1>9, <2>1, <2>3, <2>4, <2>5
<1>11. Len(S[i + 1]) = Len(s) /\ Last(S[i + 1]).o = o /\ S[i + 1] # <<>>
  <2>1. PICK x : x = [o |-> o, b |-> i]
    OBVIOUS
  <2>2. x.o = o
    BY <2>1
  <2>3. PICK A : A = Below(i - 1) \cup {x}
    OBVIOUS
  <2>4. s \in Seq(A) /\ x \in A
    BY <1>2, <2>3
  <2>5. PICK f : f = Front(s)
    OBVIOUS
  <2>6. f \in Seq(A) /\ Len(f) = Len(s) - 1 /\ Len(s) \in Nat
    BY <1>2, <2>4, <2>5, FrontOf
  <2>7. Last(Append(f, x)) = x /\ Len(Append(f, x)) = Len(f) + 1 /\ Append(f, x) \in Seq(A)
    BY <2>4, <2>6, Stacks
  <2>8. S[i + 1] = Append(f, x)
    BY <1>2, <1>3, <2>1, <2>5
  <2> QED BY <2>2, <2>6, <2>7, <2>8
<1>12. Shaped(pr, S, H, i + 1)
  <2>1. Shaped(pr, S, H, i)
    OBVIOUS
  <2>2. h.saved \in Seq(Openers \X BOOLEAN) /\ h.loop \in BOOLEAN /\ Len(h.saved) = Len(s)
    BY <1>1, <2>1 DEF Shaped
  <2> QED BY <1>1, <1>7, <1>9, <1>10, <1>11, <2>2 DEF Shaped
<1>13. Entered(pr, S, H, i + 1)
  <2>1. H[o].scope = Front(g.scope) /\ pr[o].k # "case"
    BY <1>4, <1>6, <1>10
  <2>2. H[o].saved = Front(g.saved) /\ Last(g.saved) = <<pr[o].k, H[o].loop>>
    BY <1>4, <1>5, <1>9
  <2>3. g.loop = (H[o].loop \/ pr[o].k \in Loops)
    BY <1>4, <1>5, <1>9
  <2> QED BY <1>1, <1>11, <2>1, <2>2, <2>3 DEF Entered
<1> QED BY <1>12, <1>13

\* Behind the end of a block the walk is the one before it.
LEMMA WalkEnd ==
  ASSUME NEW pr, NEW S, NEW H, Nested(pr, S), NEW i \in 1 .. Len(pr),
         Moves(pr[i], H[i], H[i + 1], i), pr[i].k = "end",
         \A j \in 1 .. i : Shaped(pr, S, H, j) /\ Entered(pr, S, H, j)
  PROVE  LET o == Last(S[i]).o IN
         /\ Shaped(pr, S, H, i + 1) /\ Entered(pr, S, H, i + 1)
         /\ H[i + 1].scope = H[o].scope /\ H[i + 1].saved = H[o].saved
         /\ H[i + 1].loop = H[o].loop
<1>1. PICK h, g, s : h = H[i] /\ g = H[i + 1] /\ s = S[i]
  OBVIOUS
<1>2. s # <<>> /\ S[i + 1] = Front(s)
  <2>1. Stacked(pr, S, i)
    BY StackAt
  <2> QED BY <1>1, <2>1 DEF Stacked, Fits
<1>3. PICK o : o = Last(s).o
  OBVIOUS
<1>4. o \in 1 .. i - 1 /\ S[o] = S[i + 1]
  <2>1. Opened(pr, S, i)
    BY OpenedAll
  <2> QED BY <1>1, <1>2, <1>3, <2>1 DEF Opened
<1>5. /\ H[o].scope = IF pr[o].k = "case" THEN h.scope ELSE Front(h.scope)
      /\ H[o].saved = Front(h.saved) /\ Last(h.saved) = <<pr[o].k, H[o].loop>>
  <2>1. Entered(pr, S, H, i)
    OBVIOUS
  <2> QED BY <1>1, <1>2, <1>3, <2>1 DEF Entered
<1>6. Last(h.saved)[1] = pr[o].k /\ Last(h.saved)[2] = H[o].loop
  BY <1>5
<1>7. g.scope = H[o].scope /\ g.loop = H[o].loop /\ g.saved = H[o].saved
  <2>1. g = Walk(IF Last(h.saved)[1] = "case" THEN h.scope ELSE Front(h.scope),
                 Last(h.saved)[2], Front(h.saved))
    BY <1>1 DEF Moves, Pop
  <2>2. g = Walk(H[o].scope, H[o].loop, H[o].saved)
    BY <1>5, <1>6, <2>1
  <2> QED BY <2>2, Walks
<1>8. Shaped(pr, S, H, o) /\ Entered(pr, S, H, o)
  BY <1>4
<1>9. Shaped(pr, S, H, i + 1)
  <2>1. Symbols(pr, o) \subseteq Symbols(pr, i + 1)
    BY <1>4, MoreSymbols
  <2>2. H[o].scope \in Seq(Seq(Symbols(pr, o)))
    BY <1>8 DEF Shaped
  <2>3. H[o].scope \in Seq(Seq(Symbols(pr, i + 1)))
    BY <2>1, <2>2, Wider
  <2> QED BY <1>1, <1>4, <1>7, <1>8, <2>3 DEF Shaped
<1>10. Entered(pr, S, H, i + 1)
  BY <1>1, <1>4, <1>7, <1>8 DEF Entered
<1> QED BY <1>1, <1>3, <1>7, <1>9, <1>10

\* Every walk has these shapes, wherever it has come to.
LEMMA WalkStart ==
  ASSUME NEW pr, NEW S, NEW H, Nested(pr, S), H[1] = Begun
  PROVE  Shaped(pr, S, H, 1) /\ Entered(pr, S, H, 1)
<1>1. S[1] = <<>>
  BY DEF Nested
<1>2. PICK h, c : h = H[1] /\ c = <<FileScope, ProcScope>>
  OBVIOUS
<1>3. h.scope = c /\ h.loop = FALSE /\ h.saved = <<>>
  <2>1. PICK lp, sv : lp = FALSE /\ sv = <<>>
    OBVIOUS
  <2>2. h = Walk(c, lp, sv)
    BY <1>2, <2>1 DEF Begun
  <2>3. h.scope = c /\ h.loop = lp /\ h.saved = sv
    BY <2>2, Walks
  <2> QED BY <2>1, <2>3
<1>4. PICK A : A = Seq(Symbols(pr, 1))
  OBVIOUS
<1>5. c \in Seq(A) /\ Len(c) = 2 /\ c[1] = FileScope
  BY <1>2, <1>4, ProcScopes
<1>6. Shaped(pr, S, H, 1)
  <2>1. h.saved \in Seq(Openers \X BOOLEAN) /\ Len(h.saved) = Len(S[1])
    BY <1>1, <1>3
  <2>2. h.scope \in Seq(Seq(Symbols(pr, 1))) /\ Len(h.scope) >= 2 /\ h.scope[1] = FileScope
    BY <1>3, <1>4, <1>5
  <2>3. h.loop \in BOOLEAN
    BY <1>3
  <2> QED BY <1>2, <2>1, <2>2, <2>3 DEF Shaped
<1>7. Entered(pr, S, H, 1)
  BY <1>1 DEF Entered
<1> QED BY <1>6, <1>7

LEMMA WalkAll ==
  ASSUME NEW pr, NEW S, NEW H, NEW bd, NEW n, Nested(pr, S), Walked(pr, H, bd, n)
  PROVE  \A i \in 1 .. n : Shaped(pr, S, H, i) /\ Entered(pr, S, H, i)
<1> DEFINE Bad == {i \in 1 .. n : ~(Shaped(pr, S, H, i) /\ Entered(pr, S, H, i))}
<1>0. Len(pr) \in Nat /\ n \in Nat /\ n <= Len(pr) + 1 /\ H[1] = Begun
      /\ \A i \in 1 .. n - 1 : Moves(pr[i], H[i], H[i + 1], i)
  BY DEF Nested, Walked
<1>1. SUFFICES ASSUME Bad # {} PROVE FALSE
  OBVIOUS
<1>2. Bad \in SUBSET Nat
  OBVIOUS
<1>3. PICK m \in Bad : \A k \in Bad : m <= k
  BY <1>1, <1>2, Least
<1>4. m # 1
  BY <1>0, WalkStart
<1>5. PICK i \in 1 .. n - 1 : m = i + 1
  <2>1. m - 1 \in 1 .. n - 1 /\ m = m - 1 + 1
    BY <1>0, <1>3, <1>4
  <2> QED BY <2>1
<1>6. \A j \in 1 .. i : Shaped(pr, S, H, j) /\ Entered(pr, S, H, j)
  BY <1>0, <1>3, <1>5
<1>7. i \in 1 .. Len(pr) /\ i \in 1 .. i /\ Moves(pr[i], H[i], H[i + 1], i)
  BY <1>0, <1>5
<1>8. pr[i] \in Node
  BY <1>7 DEF Nested
<1>9. pr[i].k \in Declarations \cup {"assign", "exit", "if", "else", "case", "arm", "end"} \cup Loops
  BY <1>8, NodeShapes
<1>10. Shaped(pr, S, H, i) /\ Entered(pr, S, H, i)
  BY <1>6, <1>7
<1>11. Shaped(pr, S, H, i + 1) /\ Entered(pr, S, H, i + 1)
  <2>1. CASE pr[i].k \in Declarations
    BY <1>7, <1>10, <2>1, WalkDecl
  <2>2. CASE pr[i].k \in {"assign", "exit"}
    BY <1>7, <1>10, <2>2, WalkPlain
  <2>3. CASE pr[i].k \in {"if", "arm", "case"} \cup Loops
    BY <1>7, <1>10, <2>3, WalkOpen
  <2>4. CASE pr[i].k = "else"
    BY <1>6, <1>7, <2>4, WalkElse
  <2>5. CASE pr[i].k = "end"
    BY <1>6, <1>7, <2>5, WalkEnd
  <2> QED BY <1>9, <2>1, <2>2, <2>3, <2>4, <2>5
<1> QED BY <1>5, <1>11

-----------------------------------------------------------------------------
(* The checker walks *)

CheckInv ==
  /\ ~parsed => verdict = "none" /\ cpos = 0
  /\ verdict = "none" /\ cpos = 0 =>
       scope = <<FileScope>> /\ in_loop = FALSE /\ saved = <<>> /\ bound = <<>>
  /\ verdict = "none" /\ cpos # 0 =>
       \E H : Walked(prog, H, bound, cpos) /\ H[cpos] = Walk(scope, in_loop, saved)
  /\ verdict = "ok" => \E H : Walked(prog, H, bound, Len(prog) + 1)

LEMMA Appends ==
  ASSUME NEW s, Sequence(s), NEW x
  PROVE  /\ Sequence(Append(s, x)) /\ Len(Append(s, x)) = Len(s) + 1
         /\ \A k \in 1 .. Len(s) : Append(s, x)[k] = s[k]
         /\ Append(s, x)[Len(s) + 1] = x
<1>1. PICK A : s \in Seq(A)
  BY DEF Sequence
<1>2. PICK B : B = A \cup {x}
  OBVIOUS
<1>3. s \in Seq(B) /\ x \in B
  BY <1>1, <1>2
<1> QED BY <1>3, Stacks DEF Sequence

\* A walk goes on by one node.
LEMMA GoesOn ==
  ASSUME NEW pr, NEW H, NEW bd, NEW n \in Nat, Walked(pr, H, bd, n), n <= Len(pr), Len(pr) \in Nat,
         NEW g, NEW b, Accepts(pr[n], H[n], n, b), Moves(pr[n], H[n], g, n)
  PROVE  \E G : Walked(pr, G, Append(bd, b), n + 1) /\ G[n + 1] = g
<1>1. PICK G : G = [i \in 1 .. n + 1 |-> IF i = n + 1 THEN g ELSE H[i]]
  OBVIOUS
<1>2. G[n + 1] = g /\ \A i \in 1 .. n : G[i] = H[i]
  BY <1>1
<1>3. n >= 1 /\ Sequence(bd) /\ Len(bd) = n - 1 /\ H[1] = Begun
      /\ \A i \in 1 .. n - 1 : Accepts(pr[i], H[i], i, bd[i]) /\ Moves(pr[i], H[i], H[i + 1], i)
  BY DEF Walked
<1>4. PICK c : c = Append(bd, b)
  OBVIOUS
<1>5. Sequence(c) /\ Len(c) = n /\ c[n] = b /\ \A i \in 1 .. n - 1 : c[i] = bd[i]
  BY <1>3, <1>4, Appends
<1>6. ASSUME NEW i \in 1 .. n
      PROVE  Accepts(pr[i], G[i], i, c[i]) /\ Moves(pr[i], G[i], G[i + 1], i)
  <2>1. CASE i = n
    BY <1>2, <1>3, <1>5, <2>1
  <2>2. CASE i # n
    <3>1. i \in 1 .. n - 1 /\ i + 1 \in 1 .. n
      BY <2>2
    <3>2. G[i] = H[i] /\ G[i + 1] = H[i + 1] /\ c[i] = bd[i]
      BY <1>2, <1>5, <3>1
    <3> QED BY <1>3, <3>1, <3>2
  <2> QED BY <2>1, <2>2
<1>7. Walked(pr, G, c, n + 1)
  <2>1. n + 1 \in 1 .. Len(pr) + 1 /\ n + 1 - 1 = n /\ 1 \in 1 .. n
    BY <1>3
  <2> QED BY <1>2, <1>3, <1>5, <1>6, <2>1 DEF Walked
<1> QED BY <1>2, <1>4, <1>7

\* A step of check_stmt at a node that it accepts.
Accepting(b) ==
  LET h == Walk(scope, in_loop, saved) IN
  /\ Accepts(prog[cpos], h, cpos, b)
  /\ \A g : g = [scope |-> scope', loop |-> in_loop', saved |-> saved'] => Moves(prog[cpos], h, g, cpos)
  /\ cpos' = cpos + 1 /\ bound' = Append(bound, b) /\ verdict' = "none"

LEMMA CheckDeclAccepts ==
  ASSUME CheckDecl, verdict' # "error"
  PROVE  \E b : Accepting(b)
<1>1. PICK n, h : n = prog[cpos] /\ h = Walk(scope, in_loop, saved)
  OBVIOUS
<1>2. h.scope = scope /\ h.loop = in_loop /\ h.saved = saved
  BY <1>1, Walks
<1>3. verdict = "none" /\ n.k \in Declarations
  BY <1>1 DEF CheckDecl, At, Kind
<1>4. /\ Checks(n.y) /\ in_loop' = in_loop /\ saved' = saved /\ verdict' = verdict /\ cpos' = cpos + 1
      /\ scope' = Define(scope, Symbol(n.x, IF n.k = "let" THEN "let" ELSE "var", Decl("node", cpos)))
      /\ bound' = Append(bound, [x |-> Decl("node", cpos), y |-> Resolve(n.y)])
  BY <1>1 DEF CheckDecl, Reject, Accept
<1>5. PICK b : b = [x |-> Decl("node", cpos), y |-> Resolve(n.y)]
  OBVIOUS
<1>6. ChecksIn(h.scope, n.y) /\ ResolveIn(h.scope, n.y) = Resolve(n.y)
  BY <1>2, <1>4 DEF ChecksIn, KnownIn, Checks, Known, ResolveIn, Resolve, LookupIn, Lookup, NoDecl
<1>7. n.k \notin {"assign", "exit", "if", "else", "case", "arm", "end"} \cup Loops
  BY <1>3 DEF Declarations, Loops
<1>8. Accepts(n, h, cpos, b)
  BY <1>3, <1>5, <1>6, <1>7 DEF Accepts
<1>9. ASSUME NEW g, g = [scope |-> scope', loop |-> in_loop', saved |-> saved']
      PROVE  Moves(n, h, g, cpos)
  BY <1>2, <1>3, <1>4, <1>7, <1>9 DEF Moves, Walk
<1> QED BY <1>1, <1>3, <1>4, <1>5, <1>8, <1>9 DEF Accepting

LEMMA CheckAssignAccepts ==
  ASSUME CheckAssign, verdict' # "error"
  PROVE  \E b : Accepting(b)
<1>1. PICK n, h : n = prog[cpos] /\ h = Walk(scope, in_loop, saved)
  OBVIOUS
<1>2. h.scope = scope /\ h.loop = in_loop /\ h.saved = saved
  BY <1>1, Walks
<1>3. verdict = "none" /\ n.k \in {"assign"}
  BY <1>1 DEF CheckAssign, At, Kind
<1>4. PICK b : b = [x |-> Resolve(n.x), y |-> Resolve(n.y)]
  OBVIOUS
<1>5. /\ Checks(n.x) /\ Checks(n.y)
      /\ scope' = scope /\ in_loop' = in_loop /\ saved' = saved
      /\ verdict' = verdict /\ cpos' = cpos + 1 /\ bound' = Append(bound, b)
  BY <1>1, <1>4 DEF CheckAssign, Reject, Accept
<1>6. ChecksIn(h.scope, n.y) /\ ResolveIn(h.scope, n.y) = Resolve(n.y)
      /\ ChecksIn(h.scope, n.x) /\ ResolveIn(h.scope, n.x) = Resolve(n.x)
  BY <1>2, <1>5 DEF ChecksIn, KnownIn, Checks, Known, ResolveIn, Resolve, LookupIn, Lookup, NoDecl
<1>7. n.k \notin {"exit", "if", "else", "case", "arm", "end"} \cup Declarations \cup Loops
  BY <1>3 DEF Declarations, Loops
<1>8. Accepts(n, h, cpos, b)
  BY <1>2, <1>3, <1>4, <1>5, <1>6, <1>7 DEF Accepts, NoDecl
<1>9. ASSUME NEW g, g = [scope |-> scope', loop |-> in_loop', saved |-> saved']
      PROVE  Moves(n, h, g, cpos)
  BY <1>1, <1>2, <1>3, <1>5, <1>7, <1>9 DEF Moves, Walk
<1> QED BY <1>1, <1>3, <1>5, <1>8, <1>9 DEF Accepting

LEMMA CheckExitAccepts ==
  ASSUME CheckExit, verdict' # "error"
  PROVE  \E b : Accepting(b)
<1>1. PICK n, h : n = prog[cpos] /\ h = Walk(scope, in_loop, saved)
  OBVIOUS
<1>2. h.scope = scope /\ h.loop = in_loop /\ h.saved = saved
  BY <1>1, Walks
<1>3. verdict = "none" /\ n.k \in {"exit"}
  BY <1>1 DEF CheckExit, At, Kind
<1>4. PICK b : b = [x |-> Decl("none", 0), y |-> Decl("none", 0)]
  OBVIOUS
<1>5. /\ in_loop
      /\ scope' = scope /\ in_loop' = in_loop /\ saved' = saved
      /\ verdict' = verdict /\ cpos' = cpos + 1 /\ bound' = Append(bound, b)
  BY <1>1, <1>4 DEF CheckExit, Reject, Accept
<1>6. h.loop
  BY <1>2, <1>5 DEF ChecksIn, KnownIn, Checks, Known, ResolveIn, Resolve, LookupIn, Lookup, NoDecl
<1>7. n.k \notin {"assign", "if", "else", "case", "arm", "end"} \cup Declarations \cup Loops
  BY <1>3 DEF Declarations, Loops
<1>8. Accepts(n, h, cpos, b)
  BY <1>2, <1>3, <1>4, <1>5, <1>6, <1>7 DEF Accepts, NoDecl
<1>9. ASSUME NEW g, g = [scope |-> scope', loop |-> in_loop', saved |-> saved']
      PROVE  Moves(n, h, g, cpos)
  BY <1>1, <1>2, <1>3, <1>5, <1>7, <1>9 DEF Moves, Walk
<1> QED BY <1>1, <1>3, <1>5, <1>8, <1>9 DEF Accepting

LEMMA CheckOpenAccepts ==
  ASSUME CheckOpen, verdict' # "error"
  PROVE  \E b : Accepting(b)
<1>1. PICK n, h : n = prog[cpos] /\ h = Walk(scope, in_loop, saved)
  OBVIOUS
<1>2. h.scope = scope /\ h.loop = in_loop /\ h.saved = saved
  BY <1>1, Walks
<1>3. verdict = "none" /\ n.k \in {"if"} \cup Loops
  BY <1>1 DEF CheckOpen, At, Kind
<1>4. PICK b : b = [x |-> Decl("node", cpos), y |-> Resolve(n.y)]
  OBVIOUS
<1>5. /\ Checks(n.y)
      /\ scope' = Append(scope, Bind(n.key, "key", cpos) \o Bind(n.x, "node", cpos))
      /\ in_loop' = (in_loop \/ n.k \in Loops) /\ saved' = Append(saved, <<n.k, in_loop>>)
      /\ verdict' = verdict /\ cpos' = cpos + 1 /\ bound' = Append(bound, b)
  BY <1>1, <1>4 DEF CheckOpen, Reject, Accept, Bind
<1>6. ChecksIn(h.scope, n.y) /\ ResolveIn(h.scope, n.y) = Resolve(n.y)
  BY <1>2, <1>5 DEF ChecksIn, KnownIn, Checks, Known, ResolveIn, Resolve, LookupIn, Lookup, NoDecl
<1>7. n.k \notin {"assign", "exit", "else", "case", "arm", "end"} \cup Declarations
  BY <1>3 DEF Declarations, Loops
<1>8. Accepts(n, h, cpos, b)
  BY <1>2, <1>3, <1>4, <1>5, <1>6, <1>7 DEF Accepts, NoDecl
<1>9. ASSUME NEW g, g = [scope |-> scope', loop |-> in_loop', saved |-> saved']
      PROVE  Moves(n, h, g, cpos)
  BY <1>2, <1>3, <1>5, <1>7, <1>9 DEF Moves, Walk
<1> QED BY <1>1, <1>3, <1>5, <1>8, <1>9 DEF Accepting

LEMMA CheckElseAccepts ==
  ASSUME CheckElse, verdict' # "error"
  PROVE  \E b : Accepting(b)
<1>1. PICK n, h : n = prog[cpos] /\ h = Walk(scope, in_loop, saved)
  OBVIOUS
<1>2. h.scope = scope /\ h.loop = in_loop /\ h.saved = saved
  BY <1>1, Walks
<1>3. verdict = "none" /\ n.k \in {"else"}
  BY <1>1 DEF CheckElse, At, Kind
<1>4. PICK b : b = [x |-> Decl("none", 0), y |-> Decl("none", 0)]
  OBVIOUS
<1>5. /\ scope' = Push(Pop(scope)) /\ in_loop' = in_loop /\ saved' = saved
      /\ verdict' = verdict /\ cpos' = cpos + 1 /\ bound' = Append(bound, b)
  BY <1>1, <1>4 DEF CheckElse, Reject, Accept
<1>6. n.k \notin {"assign", "exit", "if", "case", "arm", "end"} \cup Declarations \cup Loops
  BY <1>3 DEF Declarations, Loops
<1>7. Accepts(n, h, cpos, b)
  BY <1>2, <1>3, <1>4, <1>5, <1>6 DEF Accepts, NoDecl
<1>8. ASSUME NEW g, g = [scope |-> scope', loop |-> in_loop', saved |-> saved']
      PROVE  Moves(n, h, g, cpos)
  BY <1>2, <1>3, <1>5, <1>6, <1>8 DEF Moves, Walk
<1> QED BY <1>1, <1>3, <1>5, <1>7, <1>8 DEF Accepting

LEMMA CheckCaseAccepts ==
  ASSUME CheckCase, verdict' # "error"
  PROVE  \E b : Accepting(b)
<1>1. PICK n, h : n = prog[cpos] /\ h = Walk(scope, in_loop, saved)
  OBVIOUS
<1>2. h.scope = scope /\ h.loop = in_loop /\ h.saved = saved
  BY <1>1, Walks
<1>3. verdict = "none" /\ n.k \in {"case"}
  BY <1>1 DEF CheckCase, At, Kind
<1>4. PICK b : b = [x |-> Decl("none", 0), y |-> Resolve(n.y)]
  OBVIOUS
<1>5. /\ Checks(n.y)
      /\ scope' = scope /\ in_loop' = in_loop /\ saved' = Append(saved, <<"case", in_loop>>)
      /\ verdict' = verdict /\ cpos' = cpos + 1 /\ bound' = Append(bound, b)
  BY <1>1, <1>4 DEF CheckCase, Reject, Accept
<1>6. ChecksIn(h.scope, n.y) /\ ResolveIn(h.scope, n.y) = Resolve(n.y)
  BY <1>2, <1>5 DEF ChecksIn, KnownIn, Checks, Known, ResolveIn, Resolve, LookupIn, Lookup, NoDecl
<1>7. n.k \notin {"assign", "exit", "if", "else", "arm", "end"} \cup Declarations \cup Loops
  BY <1>3 DEF Declarations, Loops
<1>8. Accepts(n, h, cpos, b)
  BY <1>2, <1>3, <1>4, <1>5, <1>6, <1>7 DEF Accepts, NoDecl
<1>9. ASSUME NEW g, g = [scope |-> scope', loop |-> in_loop', saved |-> saved']
      PROVE  Moves(n, h, g, cpos)
  BY <1>2, <1>3, <1>5, <1>7, <1>9 DEF Moves, Walk
<1> QED BY <1>1, <1>3, <1>5, <1>8, <1>9 DEF Accepting

LEMMA CheckArmAccepts ==
  ASSUME CheckArm, verdict' # "error"
  PROVE  \E b : Accepting(b)
<1>1. PICK n, h : n = prog[cpos] /\ h = Walk(scope, in_loop, saved)
  OBVIOUS
<1>2. h.scope = scope /\ h.loop = in_loop /\ h.saved = saved
  BY <1>1, Walks
<1>3. verdict = "none" /\ n.k \in {"arm"}
  BY <1>1 DEF CheckArm, At, Kind
<1>4. PICK b : b = [x |-> Decl("none", 0), y |-> Decl("none", 0)]
  OBVIOUS
<1>5. /\ scope' = Append(scope, Bind(n.x, "node", cpos)) /\ in_loop' = in_loop /\ saved' = Append(saved, <<"arm", in_loop>>)
      /\ verdict' = verdict /\ cpos' = cpos + 1 /\ bound' = Append(bound, b)
  BY <1>1, <1>4 DEF CheckArm, Reject, Accept, Bind
<1>6. n.k \notin {"assign", "exit", "if", "else", "case", "end"} \cup Declarations \cup Loops
  BY <1>3 DEF Declarations, Loops
<1>7. Accepts(n, h, cpos, b)
  BY <1>2, <1>3, <1>4, <1>5, <1>6 DEF Accepts, NoDecl
<1>8. ASSUME NEW g, g = [scope |-> scope', loop |-> in_loop', saved |-> saved']
      PROVE  Moves(n, h, g, cpos)
  BY <1>2, <1>3, <1>5, <1>6, <1>8 DEF Moves, Walk
<1> QED BY <1>1, <1>3, <1>5, <1>7, <1>8 DEF Accepting

LEMMA CheckEndAccepts ==
  ASSUME CheckEnd, verdict' # "error"
  PROVE  \E b : Accepting(b)
<1>1. PICK n, h : n = prog[cpos] /\ h = Walk(scope, in_loop, saved)
  OBVIOUS
<1>2. h.scope = scope /\ h.loop = in_loop /\ h.saved = saved
  BY <1>1, Walks
<1>3. verdict = "none" /\ n.k \in {"end"}
  BY <1>1 DEF CheckEnd, At, Kind
<1>4. PICK b : b = [x |-> Decl("none", 0), y |-> Decl("none", 0)]
  OBVIOUS
<1>5. /\ scope' = (IF Last(saved)[1] = "case" THEN scope ELSE Pop(scope))
      /\ in_loop' = Last(saved)[2] /\ saved' = Front(saved)
      /\ verdict' = verdict /\ cpos' = cpos + 1 /\ bound' = Append(bound, b)
  BY <1>1, <1>4 DEF CheckEnd, Reject, Accept
<1>6. n.k \notin {"assign", "exit", "if", "else", "case", "arm"} \cup Declarations \cup Loops
  BY <1>3 DEF Declarations, Loops
<1>7. Accepts(n, h, cpos, b)
  BY <1>2, <1>3, <1>4, <1>5, <1>6 DEF Accepts, NoDecl
<1>8. ASSUME NEW g, g = [scope |-> scope', loop |-> in_loop', saved |-> saved']
      PROVE  Moves(n, h, g, cpos)
  BY <1>2, <1>3, <1>5, <1>6, <1>8 DEF Moves, Walk
<1> QED BY <1>1, <1>3, <1>5, <1>7, <1>8 DEF Accepting

LEMMA CheckInitInv == CheckInit => CheckInv
BY DEF CheckInit, CheckInv, FileScope

LEMMA CheckStep ==
  ASSUME CheckInv, CheckNext, parsed, prog \in Seq(Node), prog' = prog, parsed' = parsed
  PROVE  CheckInv'
<1>1. verdict = "none"
  BY DEF CheckNext, EnterProc, CheckDecl, CheckAssign, CheckExit, CheckOpen, CheckElse,
         CheckCase, CheckArm, CheckEnd, LeaveProc, At
<1>2. CASE verdict' = "error"
  BY <1>2 DEF CheckInv
<1>3. CASE EnterProc
  <2>1. verdict' = "none" /\ cpos = 0 /\ cpos' = 1 /\ in_loop' = in_loop /\ saved' = saved /\ bound' = bound
        /\ scope' = Append(scope, ProcScope)
    BY <1>3 DEF EnterProc, ProcScope
  <2>2. scope = <<FileScope>> /\ in_loop = FALSE /\ saved = <<>> /\ bound = <<>>
    BY <1>1, <2>1 DEF CheckInv
  <2>3. scope' = <<FileScope, ProcScope>>
    <3>1. PICK f, q : f = FileScope /\ q = ProcScope
      OBVIOUS
    <3>2. PICK A, t, u : A = {f, q} /\ t = Append(<<f>>, q) /\ u = <<f, q>>
      OBVIOUS
    <3>3. t \in Seq(A) /\ Len(t) = 2 /\ t[1] = f /\ t[2] = q
      BY <3>2
    <3>4. u \in Seq(A) /\ Len(u) = 2 /\ u[1] = f /\ u[2] = q
      BY <3>2
    <3>5. t = u
      BY <3>3, <3>4
    <3> QED BY <2>1, <2>2, <3>1, <3>2, <3>5
  <2>4. PICK H : H = [i \in 1 .. 1 |-> Begun]
    OBVIOUS
  <2>5. Walk(scope', in_loop', saved') = Begun
    BY <2>1, <2>2, <2>3 DEF Begun
  <2>6. H[1] = Begun
    BY <2>4
  <2>7. Walked(prog', H, bound', 1)
    <3>1. Len(prog) \in Nat
      OBVIOUS
    <3>2. 1 \in 1 .. Len(prog) + 1 /\ 1 .. 1 - 1 = {}
      BY <3>1
    <3>3. Sequence(bound') /\ Len(bound') = 1 - 1
      <4>1. <<>> \in Seq({}) /\ Len(<<>>) = 1 - 1
        OBVIOUS
      <4>2. bound' = <<>>
        BY <2>1, <2>2
      <4> QED BY <4>1, <4>2 DEF Sequence
    <3> QED BY <2>6, <3>2, <3>3 DEF Walked
  <2>8. Walked(prog', H, bound', cpos') /\ H[cpos'] = Walk(scope', in_loop', saved')
    BY <2>1, <2>5, <2>6, <2>7
  <2> QED BY <2>1, <2>8 DEF CheckInv
<1>4. CASE LeaveProc
  <2>1. cpos = Len(prog) + 1 /\ verdict' = "ok" /\ bound' = bound /\ cpos # 0
    <3>1. Len(prog) \in Nat
      OBVIOUS
    <3> QED BY <1>4, <3>1 DEF LeaveProc
  <2>2. PICK H : Walked(prog, H, bound, cpos)
    BY <1>1, <2>1 DEF CheckInv
  <2>3. Walked(prog', H, bound', Len(prog') + 1)
    BY <2>1, <2>2
  <2> QED BY <2>1, <2>3 DEF CheckInv
<1>5. ASSUME \E b : Accepting(b), cpos \in Nodes
      PROVE  CheckInv'
  <2>1. PICK b : Accepting(b)
    BY <1>5
  <2>2. PICK h, g : /\ h = Walk(scope, in_loop, saved)
                    /\ g = [scope |-> scope', loop |-> in_loop', saved |-> saved']
    OBVIOUS
  <2>3. /\ Accepts(prog[cpos], h, cpos, b) /\ Moves(prog[cpos], h, g, cpos)
        /\ cpos' = cpos + 1 /\ bound' = Append(bound, b) /\ verdict' = "none"
    BY <2>1, <2>2 DEF Accepting
  <2>4. cpos \in Nat /\ cpos # 0 /\ cpos <= Len(prog) /\ Len(prog) \in Nat
    BY <1>5 DEF Nodes
  <2>5. PICK H : Walked(prog, H, bound, cpos) /\ H[cpos] = h
    BY <1>1, <2>2, <2>4 DEF CheckInv
  <2>6. \E G : Walked(prog, G, Append(bound, b), cpos + 1) /\ G[cpos + 1] = g
    <3>1. PICK pr, bd, n : pr = prog /\ bd = bound /\ n = cpos
      OBVIOUS
    <3>2. /\ n \in Nat /\ n <= Len(pr) /\ Len(pr) \in Nat /\ Walked(pr, H, bd, n)
          /\ Accepts(pr[n], H[n], n, b) /\ Moves(pr[n], H[n], g, n)
      BY <2>3, <2>4, <2>5, <3>1
    <3> HIDE <2>1, <2>2, <2>3, <2>5
    <3> QED BY <3>1, <3>2, GoesOn
  <2>7. PICK G : Walked(prog, G, Append(bound, b), cpos + 1) /\ G[cpos + 1] = g
    BY <2>6
  <2>8. g = Walk(scope', in_loop', saved')
    BY <2>2 DEF Walk
  <2>9. Walked(prog', G, bound', cpos') /\ G[cpos'] = Walk(scope', in_loop', saved') /\ cpos' # 0
    BY <2>3, <2>4, <2>7, <2>8
  <2> QED BY <2>3, <2>9 DEF CheckInv
<1>6. CASE verdict' # "error" /\ ~EnterProc /\ ~LeaveProc
  <2>1. cpos \in Nodes
    BY <1>6 DEF CheckNext, CheckDecl, CheckAssign, CheckExit, CheckOpen, CheckElse,
         CheckCase, CheckArm, CheckEnd, At
  <2>2. \E b : Accepting(b)
    BY <1>6, CheckDeclAccepts, CheckAssignAccepts, CheckExitAccepts, CheckOpenAccepts,
       CheckElseAccepts, CheckCaseAccepts, CheckArmAccepts, CheckEndAccepts DEF CheckNext
  <2> QED BY <1>5, <2>1, <2>2
<1> QED BY <1>2, <1>3, <1>4, <1>6

-----------------------------------------------------------------------------
(* The lowering walks the same scopes *)

\* An entry of the checker's scopes as the lowering keeps it.
Twin(e) == Val(e.name, e.d)

Temporary(v, tc) == \E t \in 0 .. tc - 1 : v = Val(TmpName(t), Decl("temp", t))

\* The scope cs of the checker and the scope ls of the lowering hold the same
\* declarations, but for the fields of variants and the indices of loops.
Match(pr, cs, ls, tc) ==
  /\ \A e \in 1 .. Len(cs) :
       \/ cs[e].d[1] = "node" /\ pr[cs[e].d[2]].k = "arm"
       \/ \E f \in 1 .. Len(ls) : ls[f] = Twin(cs[e])
  /\ \A f \in 1 .. Len(ls) :
       \/ Temporary(ls[f], tc) \/ ls[f].name = None
       \/ \E e \in 1 .. Len(cs) : ls[f] = Twin(cs[e])

\* So do the chains; the lowering has no file scope.
Simulates(pr, c, l, tc) ==
  /\ \E A : l \in Seq(Seq(A))
  /\ Len(c) = Len(l) + 1
  /\ \A s \in 1 .. Len(l) : Match(pr, c[s + 1], l[s], tc)

\* The flags of the checker are the labels of the lowering.
Labelled(h, exit, ls) ==
  /\ h.loop = (exit # LABEL_INVALID)
  /\ Sequence(ls) /\ Len(ls) = Len(h.saved)
  /\ \A k \in 1 .. Len(ls) :
       ls[k].k = h.saved[k][1] /\ h.saved[k][2] = (ls[k].sv # LABEL_INVALID)

LEMMA MatchMore ==
  ASSUME NEW pr, NEW cs, NEW ls, NEW tc \in Nat, NEW td \in Nat, tc <= td, Match(pr, cs, ls, tc)
  PROVE  Match(pr, cs, ls, td)
<1>1. \A v : Temporary(v, tc) => Temporary(v, td)
  BY DEF Temporary
<1> QED BY <1>1 DEF Match

LEMMA MatchEmpty ==
  ASSUME NEW pr, NEW tc
  PROVE  Match(pr, <<>>, <<>>, tc)
BY DEF Match

LEMMA MatchBoth ==
  ASSUME NEW pr, NEW cs, NEW ls, NEW tc, NEW e, Sequence(cs), Sequence(ls), Match(pr, cs, ls, tc)
  PROVE  Match(pr, Append(cs, e), Append(ls, Twin(e)), tc)
<1>1. PICK c, l, w : c = Append(cs, e) /\ w = Twin(e) /\ l = Append(ls, w)
  OBVIOUS
<1>2. PICK m, n : m = Len(cs) /\ n = Len(ls)
  OBVIOUS
<1>3. m \in Nat /\ Len(c) = m + 1 /\ c[m + 1] = e /\ \A k \in 1 .. m : c[k] = cs[k]
  <2>1. Len(cs) \in Nat
    BY DEF Sequence
  <2> QED BY <1>1, <1>2, <2>1, Appends
<1>4. n \in Nat /\ Len(l) = n + 1 /\ l[n + 1] = w /\ \A k \in 1 .. n : l[k] = ls[k]
  <2>1. Len(ls) \in Nat
    BY DEF Sequence
  <2> QED BY <1>1, <1>2, <2>1, Appends
<1>5. ASSUME NEW k \in 1 .. Len(c)
      PROVE  \/ c[k].d[1] = "node" /\ pr[c[k].d[2]].k = "arm"
             \/ \E f \in 1 .. Len(l) : l[f] = Twin(c[k])
  <2>1. CASE k = m + 1
    <3>1. n + 1 \in 1 .. Len(l) /\ l[n + 1] = Twin(c[k])
      BY <1>1, <1>3, <1>4, <2>1
    <3> QED BY <3>1
  <2>2. CASE k # m + 1
    <3>1. k \in 1 .. m /\ c[k] = cs[k]
      BY <1>3, <2>2
    <3>2. \A f \in 1 .. n : f \in 1 .. Len(l) /\ l[f] = ls[f]
      BY <1>4
    <3> QED BY <1>2, <3>1, <3>2 DEF Match
  <2> QED BY <2>1, <2>2
<1>6. ASSUME NEW k \in 1 .. Len(l)
      PROVE  \/ Temporary(l[k], tc) \/ l[k].name = None
             \/ \E f \in 1 .. Len(c) : l[k] = Twin(c[f])
  <2>1. CASE k = n + 1
    <3>1. m + 1 \in 1 .. Len(c) /\ l[k] = Twin(c[m + 1])
      BY <1>1, <1>3, <1>4, <2>1
    <3> QED BY <3>1
  <2>2. CASE k # n + 1
    <3>1. k \in 1 .. n /\ l[k] = ls[k]
      BY <1>4, <2>2
    <3>2. \A f \in 1 .. m : f \in 1 .. Len(c) /\ c[f] = cs[f]
      BY <1>3
    <3> QED BY <1>2, <3>1, <3>2 DEF Match
  <2> QED BY <2>1, <2>2
<1>7. Match(pr, c, l, tc)
  BY <1>5, <1>6 DEF Match
<1> QED BY <1>1, <1>7

\* An entry only the lowering has.
LEMMA MatchOwn ==
  ASSUME NEW pr, NEW cs, NEW ls, NEW tc, NEW v, Sequence(ls), Match(pr, cs, ls, tc),
         Temporary(v, tc) \/ v.name = None
  PROVE  Match(pr, cs, Append(ls, v), tc)
<1>1. PICK l, n : l = Append(ls, v) /\ n = Len(ls)
  OBVIOUS
<1>2. n \in Nat /\ Len(l) = n + 1 /\ l[n + 1] = v /\ \A k \in 1 .. n : l[k] = ls[k]
  <2>1. Len(ls) \in Nat
    BY DEF Sequence
  <2> QED BY <1>1, <2>1, Appends
<1>3. ASSUME NEW k \in 1 .. Len(cs)
      PROVE  \/ cs[k].d[1] = "node" /\ pr[cs[k].d[2]].k = "arm"
             \/ \E f \in 1 .. Len(l) : l[f] = Twin(cs[k])
  <2>1. \A f \in 1 .. n : f \in 1 .. Len(l) /\ l[f] = ls[f]
    BY <1>2
  <2> QED BY <1>1, <2>1 DEF Match
<1>4. ASSUME NEW k \in 1 .. Len(l)
      PROVE  \/ Temporary(l[k], tc) \/ l[k].name = None
             \/ \E f \in 1 .. Len(cs) : l[k] = Twin(cs[f])
  <2>1. k = n + 1 \/ (k \in 1 .. n /\ l[k] = ls[k])
    BY <1>2
  <2> QED BY <1>1, <1>2, <2>1 DEF Match
<1>5. Match(pr, cs, l, tc)
  BY <1>3, <1>4 DEF Match
<1> QED BY <1>1, <1>5

\* An entry only the checker has: the field of a variant.
LEMMA MatchField ==
  ASSUME NEW pr, NEW cs, NEW ls, NEW tc, NEW e, Sequence(cs), Match(pr, cs, ls, tc),
         e.d[1] = "node", pr[e.d[2]].k = "arm"
  PROVE  Match(pr, Append(cs, e), ls, tc)
<1>1. PICK c, n : c = Append(cs, e) /\ n = Len(cs)
  OBVIOUS
<1>2. n \in Nat /\ Len(c) = n + 1 /\ c[n + 1] = e /\ \A k \in 1 .. n : c[k] = cs[k]
  <2>1. Len(cs) \in Nat
    BY DEF Sequence
  <2> QED BY <1>1, <2>1, Appends
<1>3. ASSUME NEW k \in 1 .. Len(c)
      PROVE  \/ c[k].d[1] = "node" /\ pr[c[k].d[2]].k = "arm"
             \/ \E f \in 1 .. Len(ls) : ls[f] = Twin(c[k])
  <2>1. k = n + 1 \/ (k \in 1 .. n /\ c[k] = cs[k])
    BY <1>2
  <2> QED BY <1>1, <1>2, <2>1 DEF Match
<1>4. ASSUME NEW k \in 1 .. Len(ls)
      PROVE  \/ Temporary(ls[k], tc) \/ ls[k].name = None
             \/ \E f \in 1 .. Len(c) : ls[k] = Twin(c[f])
  <2>1. \A f \in 1 .. n : f \in 1 .. Len(c) /\ c[f] = cs[f]
    BY <1>2
  <2> QED BY <1>1, <2>1 DEF Match
<1>5. Match(pr, c, ls, tc)
  BY <1>3, <1>4 DEF Match
<1> QED BY <1>1, <1>5

LEMMA SimMore ==
  ASSUME NEW pr, NEW c, NEW l, NEW tc \in Nat, NEW td \in Nat, tc <= td, Simulates(pr, c, l, tc)
  PROVE  Simulates(pr, c, l, td)
BY MatchMore DEF Simulates

\* A declaration is added to both innermost scopes.
LEMMA SimDefine ==
  ASSUME NEW pr, NEW A, NEW c \in Seq(Seq(A)), NEW l, NEW tc, Simulates(pr, c, l, tc), Len(c) >= 2,
         NEW e \in A
  PROVE  Simulates(pr, Define(c, e), Define(l, Twin(e)), tc)
<1>1. PICK n : n = Len(l)
  OBVIOUS
<1>2. PICK B : l \in Seq(Seq(B)) /\ Twin(e) \in B
  <2>1. PICK B : l \in Seq(Seq(B))
    BY DEF Simulates
  <2>2. PICK D : D = B \cup {Twin(e)}
    OBVIOUS
  <2>3. l \in Seq(Seq(D)) /\ Twin(e) \in D
    BY <2>1, <2>2, Wider
  <2> QED BY <2>3
<1>3. n \in Nat /\ n >= 1 /\ Len(c) = n + 1 /\ c # <<>> /\ l # <<>>
  <2>1. Len(l) \in Nat /\ Len(c) = Len(l) + 1
    BY <1>2 DEF Simulates
  <2> QED BY <1>1, <2>1
<1>4. PICK d, m : d = Define(c, e) /\ m = Define(l, Twin(e))
  OBVIOUS
<1>5. d \in Seq(Seq(A)) /\ Len(d) = n + 1 /\ d[n + 1] = Append(c[n + 1], e) /\ \A k \in 1 .. n : d[k] = c[k]
  <2>1. Len(c) - 1 = n
    BY <1>3
  <2> QED BY <1>3, <1>4, <2>1, Defines, ZenonT(60)
<1>6. m \in Seq(Seq(B)) /\ Len(m) = n /\ m[n] = Append(l[n], Twin(e)) /\ \A k \in 1 .. n - 1 : m[k] = l[k]
  BY <1>1, <1>2, <1>3, <1>4, Defines
<1>7. Match(pr, d[n + 1], m[n], tc)
  <2>1. PICK cs, ls : cs = c[n + 1] /\ ls = l[n]
    OBVIOUS
  <2>2. Match(pr, cs, ls, tc)
    BY <1>1, <1>3, <2>1 DEF Simulates
  <2>3. cs \in Seq(A) /\ ls \in Seq(B)
    BY <1>1, <1>2, <1>3, <2>1
  <2>4. Sequence(cs) /\ Sequence(ls)
    BY <2>3 DEF Sequence
  <2>5. Match(pr, Append(cs, e), Append(ls, Twin(e)), tc)
    BY <2>2, <2>4, MatchBoth
  <2> QED BY <1>5, <1>6, <2>1, <2>5
<1>8. ASSUME NEW s \in 1 .. Len(m)
      PROVE  Match(pr, d[s + 1], m[s], tc)
  <2>1. CASE s = n
    BY <1>7, <2>1
  <2>2. CASE s # n
    <3>1. s \in 1 .. n - 1 /\ s + 1 \in 1 .. n /\ s \in 1 .. Len(l)
      BY <1>1, <1>6, <2>2
    <3>2. d[s + 1] = c[s + 1] /\ m[s] = l[s]
      BY <1>5, <1>6, <3>1
    <3> QED BY <3>1, <3>2 DEF Simulates
  <2> QED BY <2>1, <2>2
<1>9. Simulates(pr, d, m, tc)
  BY <1>5, <1>6, <1>8 DEF Simulates
<1> QED BY <1>4, <1>9

\* A temporary is added to the innermost scope of the lowering.
LEMMA SimOwn ==
  ASSUME NEW pr, NEW c, NEW l, NEW tc, Simulates(pr, c, l, tc), l # <<>>, NEW v, Temporary(v, tc)
  PROVE  Simulates(pr, c, Define(l, v), tc)
<1>1. PICK n : n = Len(l)
  OBVIOUS
<1>2. PICK B : l \in Seq(Seq(B)) /\ v \in B
  <2>1. PICK B : l \in Seq(Seq(B))
    BY DEF Simulates
  <2>2. PICK D : D = B \cup {v}
    OBVIOUS
  <2>3. l \in Seq(Seq(D)) /\ v \in D
    BY <2>1, <2>2, Wider
  <2> QED BY <2>3
<1>3. n \in Nat /\ n >= 1 /\ Len(c) = n + 1
  <2>1. Len(l) \in Nat /\ Len(l) >= 1 /\ Len(c) = Len(l) + 1
    BY <1>2 DEF Simulates
  <2> QED BY <1>1, <2>1
<1>4. PICK m : m = Define(l, v)
  OBVIOUS
<1>5. m \in Seq(Seq(B)) /\ Len(m) = n /\ m[n] = Append(l[n], v) /\ \A k \in 1 .. n - 1 : m[k] = l[k]
  BY <1>1, <1>2, <1>3, <1>4, Defines
<1>6. Match(pr, c[n + 1], m[n], tc)
  <2>1. PICK cs, ls : cs = c[n + 1] /\ ls = l[n]
    OBVIOUS
  <2>2. Match(pr, cs, ls, tc)
    BY <1>1, <1>3, <2>1 DEF Simulates
  <2>3. ls \in Seq(B)
    BY <1>1, <1>2, <1>3, <2>1
  <2>4. Match(pr, cs, Append(ls, v), tc)
    BY <2>2, <2>3, MatchOwn DEF Sequence
  <2> QED BY <1>5, <2>1, <2>4
<1>7. ASSUME NEW s \in 1 .. Len(m)
      PROVE  Match(pr, c[s + 1], m[s], tc)
  <2>1. CASE s = n
    BY <1>6, <2>1
  <2>2. CASE s # n
    <3>1. s \in 1 .. n - 1 /\ s \in 1 .. Len(l)
      BY <1>1, <1>5, <2>2
    <3> QED BY <1>5, <3>1 DEF Simulates
  <2> QED BY <2>1, <2>2
<1>8. Simulates(pr, c, m, tc)
  BY <1>3, <1>5, <1>7 DEF Simulates
<1> QED BY <1>4, <1>8

\* A scope is entered, or left, by both.
LEMMA SimPush ==
  ASSUME NEW pr, NEW c, Sequence(c), NEW l, NEW tc, Simulates(pr, c, l, tc),
         NEW cs, NEW ls, Sequence(ls), Match(pr, cs, ls, tc)
  PROVE  Simulates(pr, Append(c, cs), Append(l, ls), tc)
<1>1. PICK n : n = Len(l)
  OBVIOUS
<1>2. PICK B : l \in Seq(Seq(B)) /\ ls \in Seq(B)
  <2>1. PICK B, E : l \in Seq(Seq(B)) /\ ls \in Seq(E)
    BY DEF Simulates, Sequence
  <2>2. PICK D : D = B \cup E
    OBVIOUS
  <2>3. l \in Seq(Seq(D)) /\ ls \in Seq(D)
    BY <2>1, <2>2, Wider
  <2> QED BY <2>3
<1>3. n \in Nat /\ Len(c) = n + 1
  BY <1>1, <1>2 DEF Simulates
<1>4. PICK d, m : d = Append(c, cs) /\ m = Append(l, ls)
  OBVIOUS
<1>5. Len(d) = n + 2 /\ d[n + 2] = cs /\ \A k \in 1 .. n + 1 : d[k] = c[k]
  <2>1. Len(d) = Len(c) + 1 /\ d[Len(c) + 1] = cs /\ \A k \in 1 .. Len(c) : d[k] = c[k]
    BY <1>4, Appends
  <2>2. n + 1 + 1 = n + 2
    BY <1>3
  <2> QED BY <1>3, <2>1, <2>2
<1>6. m \in Seq(Seq(B)) /\ Len(m) = n + 1 /\ m[n + 1] = ls /\ \A k \in 1 .. n : m[k] = l[k]
  <2>1. PICK E : E = Seq(B)
    OBVIOUS
  <2>2. l \in Seq(E) /\ ls \in E
    BY <1>2, <2>1
  <2> QED BY <1>1, <1>4, <2>1, <2>2, Stacks
<1>7. ASSUME NEW s \in 1 .. n + 1
      PROVE  Match(pr, d[s + 1], m[s], tc)
  <2>1. CASE s = n + 1
    <3>1. s + 1 = n + 2
      BY <1>3, <2>1
    <3> QED BY <1>5, <1>6, <2>1, <3>1
  <2>2. CASE s # n + 1
    <3>1. s \in 1 .. n /\ s + 1 \in 1 .. n + 1
      BY <1>3, <2>2
    <3>2. d[s + 1] = c[s + 1] /\ m[s] = l[s]
      BY <1>5, <1>6, <3>1
    <3> QED BY <1>1, <3>1, <3>2 DEF Simulates
  <2> QED BY <2>1, <2>2
<1>8. Len(d) = Len(m) + 1
  BY <1>3, <1>5, <1>6
<1>9. Simulates(pr, d, m, tc)
  BY <1>6, <1>7, <1>8 DEF Simulates
<1> QED BY <1>4, <1>9

LEMMA SimPop ==
  ASSUME NEW pr, NEW c, Sequence(c), NEW l, NEW tc, Simulates(pr, c, l, tc), l # <<>>
  PROVE  Simulates(pr, Front(c), Front(l), tc)
<1>1. PICK n : n = Len(l)
  OBVIOUS
<1>2. PICK B : l \in Seq(Seq(B))
  BY DEF Simulates
<1>3. PICK A : c \in Seq(A)
  BY DEF Sequence
<1>4. n \in Nat /\ n >= 1 /\ Len(c) = n + 1 /\ c # <<>>
  <2>1. Len(l) \in Nat /\ Len(l) >= 1 /\ Len(c) = Len(l) + 1
    BY <1>2 DEF Simulates
  <2> QED BY <1>1, <2>1
<1>5. PICK d, m : d = Front(c) /\ m = Front(l)
  OBVIOUS
<1>6. Len(d) = n /\ \A k \in 1 .. n : d[k] = c[k]
  <2>1. Len(c) - 1 = n
    BY <1>4
  <2> QED BY <1>3, <1>4, <1>5, <2>1, FrontOf
<1>7. m \in Seq(Seq(B)) /\ Len(m) = n - 1 /\ \A k \in 1 .. n - 1 : m[k] = l[k]
  <2>1. PICK E : E = Seq(B)
    OBVIOUS
  <2>2. l \in Seq(E)
    BY <1>2, <2>1
  <2> QED BY <1>1, <1>5, <2>1, <2>2, FrontOf
<1>8. ASSUME NEW s \in 1 .. n - 1
      PROVE  Match(pr, d[s + 1], m[s], tc)
  <2>1. s \in 1 .. n /\ s + 1 \in 1 .. n
    BY <1>4
  <2>2. d[s + 1] = c[s + 1] /\ m[s] = l[s]
    BY <1>6, <1>7, <2>1
  <2> QED BY <1>1, <2>1, <2>2 DEF Simulates
<1>9. Simulates(pr, d, m, tc)
  <2>1. Len(d) = Len(m) + 1
    BY <1>4, <1>6, <1>7
  <2> QED BY <1>7, <1>8, <2>1 DEF Simulates
<1> QED BY <1>5, <1>9

\* A block is entered, or left, by both.
LEMMA LabelPush ==
  ASSUME NEW h, NEW exit, NEW ls, Labelled(h, exit, ls), h.saved \in Seq(Openers \X BOOLEAN),
         NEW kind \in Openers, NEW f, f.k = kind, f.sv = exit,
         NEW g, g.saved = Append(h.saved, <<kind, h.loop>>), NEW x, g.loop = (x # LABEL_INVALID)
  PROVE  Labelled(g, x, Append(ls, f))
<1>1. PICK m, n : m = Append(ls, f) /\ n = Len(ls)
  OBVIOUS
<1>2. n \in Nat /\ Sequence(m) /\ Len(m) = n + 1 /\ m[n + 1] = f /\ \A k \in 1 .. n : m[k] = ls[k]
  <2>1. Sequence(ls)
    BY DEF Labelled
  <2>2. Len(ls) \in Nat
    BY <2>1 DEF Sequence
  <2> QED BY <1>1, <2>1, <2>2, Appends
<1>3. PICK v, q : v = <<kind, h.loop>> /\ q = Append(h.saved, v)
  OBVIOUS
<1>4. Len(q) = n + 1 /\ q[n + 1] = v /\ \A k \in 1 .. n : q[k] = h.saved[k]
  <2>1. Sequence(h.saved) /\ Len(h.saved) = n
    BY <1>1 DEF Labelled, Sequence
  <2> QED BY <1>3, <2>1, Appends
<1>5. v[1] = kind /\ v[2] = h.loop /\ h.loop = (exit # LABEL_INVALID)
  BY <1>3 DEF Labelled
<1>6. ASSUME NEW k \in 1 .. n + 1
      PROVE  m[k].k = q[k][1] /\ q[k][2] = (m[k].sv # LABEL_INVALID)
  <2>1. CASE k = n + 1
    <3>1. m[k] = f /\ q[k] = v
      BY <1>2, <1>4, <2>1
    <3> QED BY <1>5, <3>1
  <2>2. CASE k # n + 1
    <3>1. k \in 1 .. n
      BY <1>2, <2>2
    <3>2. m[k] = ls[k] /\ q[k] = h.saved[k]
      BY <1>2, <1>4, <3>1
    <3> QED BY <1>1, <3>1, <3>2 DEF Labelled
  <2> QED BY <2>1, <2>2
<1>7. Labelled(g, x, m)
  <2>1. g.saved = q
    BY <1>3
  <2> QED BY <1>2, <1>4, <1>6, <2>1 DEF Labelled
<1> QED BY <1>1, <1>7

LEMMA LabelPop ==
  ASSUME NEW h, NEW exit, NEW ls, Labelled(h, exit, ls), h.saved \in Seq(Openers \X BOOLEAN), h.saved # <<>>,
         NEW g, g.saved = Front(h.saved), NEW x, g.loop = (x # LABEL_INVALID)
  PROVE  Labelled(g, x, Front(ls))
<1>1. PICK n : n = Len(ls)
  OBVIOUS
<1>2. PICK A : ls \in Seq(A)
  BY DEF Labelled, Sequence
<1>3. n \in Nat /\ n >= 1 /\ Len(h.saved) = n /\ ls # <<>>
  <2>1. Len(ls) = Len(h.saved)
    BY DEF Labelled
  <2>2. Len(h.saved) \in Nat /\ Len(h.saved) >= 1
    OBVIOUS
  <2> QED BY <1>1, <2>1, <2>2
<1>4. PICK m, q : m = Front(ls) /\ q = Front(h.saved)
  OBVIOUS
<1>5. m \in Seq(A) /\ Len(m) = n - 1 /\ (\A k \in 1 .. n - 1 : m[k] = ls[k])
  BY <1>1, <1>2, <1>3, <1>4, FrontOf
<1>6. Len(q) = n - 1 /\ (\A k \in 1 .. n - 1 : q[k] = h.saved[k])
  BY <1>3, <1>4, FrontOf
<1>7. \A k \in 1 .. n : ls[k].k = h.saved[k][1] /\ h.saved[k][2] = (ls[k].sv # LABEL_INVALID)
  BY <1>1 DEF Labelled
<1>8. \A k \in 1 .. n - 1 : m[k].k = q[k][1] /\ q[k][2] = (m[k].sv # LABEL_INVALID)
  <2>1. \A k \in 1 .. n - 1 : k \in 1 .. n
    BY <1>3
  <2> QED BY <1>5, <1>6, <1>7, <2>1
<1>9. Labelled(g, x, m)
  BY <1>4, <1>5, <1>6, <1>8 DEF Labelled, Sequence
<1> QED BY <1>4, <1>9

LEMMA LabelTop ==
  ASSUME NEW h, NEW exit, NEW ls, Labelled(h, exit, ls), h.saved \in Seq(Openers \X BOOLEAN), h.saved # <<>>
  PROVE  Last(ls).k = Last(h.saved)[1] /\ Last(h.saved)[2] = (Last(ls).sv # LABEL_INVALID)
<1>1. PICK n : n = Len(ls)
  OBVIOUS
<1>2. PICK A : ls \in Seq(A)
  BY DEF Labelled, Sequence
<1>3. n \in 1 .. n /\ Len(h.saved) = n /\ ls # <<>>
  <2>1. Len(ls) = Len(h.saved)
    BY DEF Labelled
  <2>2. Len(h.saved) \in Nat /\ Len(h.saved) >= 1
    OBVIOUS
  <2> QED BY <1>1, <2>1, <2>2
<1>4. Last(ls) = ls[n] /\ Last(h.saved) = h.saved[n]
  BY <1>1, <1>2, <1>3, FrontOf
<1>5. ls[n].k = h.saved[n][1] /\ h.saved[n][2] = (ls[n].sv # LABEL_INVALID)
  BY <1>1, <1>3 DEF Labelled
<1> QED BY <1>4, <1>5

\* The scope of a for, and of an arm, as the two passes fill it.
LEMMA ForMatch ==
  ASSUME NEW pr, NEW i, NEW x, NEW key, NEW tc
  PROVE  Match(pr, Bind(key, "key", i) \o Bind(x, "node", i),
               IF key = None THEN <<Val(x, Decl("node", i))>>
               ELSE <<Val(key, Decl("key", i)), Val(x, Decl("node", i))>>, tc)
<1>1. PICK sk, sx, vk, vx : /\ sk = Symbol(key, "let", Decl("key", i)) /\ sx = Symbol(x, "let", Decl("node", i))
                            /\ vk = Val(key, Decl("key", i)) /\ vx = Val(x, Decl("node", i))
  OBVIOUS
<1>2. Twin(sk) = vk /\ Twin(sx) = vx /\ vx.name = x
  BY <1>1 DEF Twin, Symbol, Val
<1>3. PICK cs, ls : /\ cs = Bind(key, "key", i) \o Bind(x, "node", i)
                    /\ ls = IF key = None THEN <<vx>> ELSE <<vk, vx>>
  OBVIOUS
<1>4. CASE key = None /\ x = None
  <2>1. ls = <<vx>> /\ cs = <<>>
    BY <1>3, <1>4 DEF Bind
  <2>2. Len(cs) = 0 /\ Len(ls) = 1 /\ ls[1] = vx
    BY <2>1
  <2>3. Match(pr, cs, ls, tc)
    BY <1>2, <1>4, <2>2 DEF Match
  <2> QED BY <1>1, <1>3, <2>3
<1>5. CASE key = None /\ x # None
  <2>1. ls = <<vx>> /\ cs = <<>> \o <<sx>>
    BY <1>1, <1>3, <1>5 DEF Bind
  <2>2. Len(cs) = 1 /\ cs[1] = sx /\ Len(ls) = 1 /\ ls[1] = vx
    BY <2>1
  <2>3. Match(pr, cs, ls, tc)
    BY <1>2, <2>2 DEF Match
  <2> QED BY <1>1, <1>3, <2>3
<1>6. CASE key # None /\ x = None
  <2>1. ls = <<vk, vx>> /\ cs = <<sk>> \o <<>>
    BY <1>1, <1>3, <1>6 DEF Bind
  <2>2. Len(cs) = 1 /\ cs[1] = sk /\ Len(ls) = 2 /\ ls[1] = vk /\ ls[2] = vx
    BY <2>1
  <2>3. Match(pr, cs, ls, tc)
    BY <1>2, <1>6, <2>2 DEF Match
  <2> QED BY <1>1, <1>3, <2>3
<1>7. CASE key # None /\ x # None
  <2>1. ls = <<vk, vx>> /\ cs = <<sk>> \o <<sx>>
    BY <1>1, <1>3, <1>7 DEF Bind
  <2>2. Len(cs) = 2 /\ cs[1] = sk /\ cs[2] = sx /\ Len(ls) = 2 /\ ls[1] = vk /\ ls[2] = vx
    BY <2>1
  <2>3. Match(pr, cs, ls, tc)
    BY <1>2, <2>2 DEF Match
  <2> QED BY <1>1, <1>3, <2>3
<1> QED BY <1>4, <1>5, <1>6, <1>7

LEMMA ArmMatch ==
  ASSUME NEW pr, NEW i, NEW x, NEW tc, pr[i].k = "arm"
  PROVE  Match(pr, Bind(x, "node", i), <<>>, tc)
<1>1. PICK sx : sx = Symbol(x, "let", Decl("node", i))
  OBVIOUS
<1>2. sx.d[1] = "node" /\ sx.d[2] = i
  BY <1>1 DEF Symbol, Decl
<1>3. PICK cs : cs = Bind(x, "node", i)
  OBVIOUS
<1>4. Len(cs) = 0 \/ (Len(cs) = 1 /\ cs[1] = sx)
  BY <1>1, <1>3 DEF Bind
<1>5. Match(pr, cs, <<>>, tc)
  BY <1>2, <1>4 DEF Match
<1> QED BY <1>3, <1>5

\* The lowering is where the checker was when it came to the same node.
Following(H) ==
  /\ Simulates(prog, H[lpos].scope, lscope, tmp_counter)
  /\ Labelled(H[lpos], loop_exit, lstack)
  /\ tmp_counter \in Nat /\ label_counter \in Nat

\* It comes to a node the checker has accepted.
Ready(S, H) ==
  /\ Nested(prog, S) /\ lpos \in 1 .. Len(prog)
  /\ Shaped(prog, S, H, lpos) /\ Entered(prog, S, H, lpos)
  /\ Moves(prog[lpos], H[lpos], H[lpos + 1], lpos)
  /\ Following(H)

\* What Ready says of the node it is at, for a fixed value of every variable.
LEMMA Readies ==
  ASSUME NEW S, NEW H, Ready(S, H)
  PROVE  \E pr, i, l, tc, A :
           /\ pr = prog /\ i = lpos /\ l = lscope /\ tc = tmp_counter /\ i \in Nat \ {0}
           /\ Moves(pr[i], H[i], H[i + 1], i) /\ Simulates(pr, H[i].scope, l, tc) /\ tc \in Nat
           /\ H[i].scope \in Seq(Seq(A)) /\ A = Symbols(pr, i + 1) /\ Len(H[i].scope) >= 2 /\ l # <<>>
           /\ Sequence(H[i].scope)
<1>1. PICK pr, i, l, tc, A : pr = prog /\ i = lpos /\ l = lscope /\ tc = tmp_counter /\ A = Symbols(pr, i + 1)
  OBVIOUS
<1>2. i \in 1 .. Len(pr) /\ i \in Nat \ {0}
  BY <1>1 DEF Ready
<1>3. /\ Moves(pr[i], H[i], H[i + 1], i) /\ Simulates(pr, H[i].scope, l, tc) /\ tc \in Nat
      /\ Shaped(pr, S, H, i)
  BY <1>1 DEF Ready, Following
<1>4. H[i].scope \in Seq(Seq(Symbols(pr, i))) /\ Len(H[i].scope) >= 2
  BY <1>3 DEF Shaped
<1>5. H[i].scope \in Seq(Seq(A))
  <2>1. Symbols(pr, i) \subseteq A
    BY <1>1, <1>2, MoreSymbols
  <2> QED BY <1>4, <2>1, Wider
<1>6. l # <<>>
  <2>1. Len(H[i].scope) = Len(l) + 1 /\ Len(l) \in Nat
    BY <1>3 DEF Simulates
  <2> QED BY <1>4, <2>1
<1> QED BY <1>1, <1>2, <1>3, <1>4, <1>5, <1>6 DEF Sequence

LEMMA LowerDeclFollows ==
  ASSUME NEW S, NEW H, Ready(S, H), LowerDecl, prog' = prog
  PROVE  Following(H)'
<1>1. PICK pr, i, l, tc, A :
           /\ pr = prog /\ i = lpos /\ l = lscope /\ tc = tmp_counter /\ i \in Nat \ {0}
           /\ Moves(pr[i], H[i], H[i + 1], i) /\ Simulates(pr, H[i].scope, l, tc) /\ tc \in Nat
           /\ H[i].scope \in Seq(Seq(A)) /\ A = Symbols(pr, i + 1) /\ Len(H[i].scope) >= 2 /\ l # <<>>
           /\ Sequence(H[i].scope)
  BY Readies
<1>2. pr[i].k \in Declarations /\ loop_exit' = loop_exit /\ lstack' = lstack /\ lpos' = i + 1 /\ label_counter' = label_counter + 0
  BY <1>1 DEF LowerDecl, Lowers, Kind, Emits
<1>3. PICK e : e = Symbol(pr[i].x, IF pr[i].k = "let" THEN "let" ELSE "var", Decl("node", i))
  OBVIOUS
<1>4. lscope' = Define(l, Twin(e)) /\ tmp_counter' \in {tc, tc + 1}
  <2>1. Twin(e) = Val(pr[i].x, Decl("node", i))
    BY <1>3 DEF Twin, Symbol
  <2>2. tmp_counter' \in {tc + 0, tc + 1}
    BY <1>1 DEF LowerDecl, Emits
  <2>3. lscope' = Define(l, Val(pr[i].x, Decl("node", i)))
    BY <1>1 DEF LowerDecl
  <2> QED BY <1>1, <2>1, <2>2, <2>3
<1>5. e \in A
  <2>1. i \in 1 .. i + 1 - 1
    BY <1>1
  <2> QED BY <1>1, <1>2, <1>3, <2>1 DEF Symbols
<1>6. H[i + 1].scope = Define(H[i].scope, e) /\ H[i + 1].loop = H[i].loop /\ H[i + 1].saved = H[i].saved
  <2>1. H[i + 1] = Walk(Define(H[i].scope, e), H[i].loop, H[i].saved)
    BY <1>1, <1>2, <1>3 DEF Moves
  <2> QED BY <2>1, Walks
<1>7. Simulates(pr, Define(H[i].scope, e), Define(l, Twin(e)), tc)
  BY <1>1, <1>5, SimDefine
<1>8. PICK td : td = tmp_counter'
  OBVIOUS
<1>9. td \in Nat /\ Simulates(pr, H[i + 1].scope, Define(l, Twin(e)), td)
  <2>1. td \in Nat /\ tc <= td
    BY <1>1, <1>4, <1>8
  <2> QED BY <1>1, <1>6, <1>7, <2>1, SimMore
<1>10. Labelled(H[i + 1], loop_exit, lstack) /\ label_counter' \in Nat
  <2>1. Labelled(H[i], loop_exit, lstack) /\ label_counter \in Nat
    BY <1>1 DEF Ready, Following
  <2> QED BY <1>2, <1>6, <2>1 DEF Labelled
<1> QED BY <1>1, <1>2, <1>4, <1>8, <1>9, <1>10 DEF Following

LEMMA LowerPlainFollows ==
  ASSUME NEW S, NEW H, Ready(S, H), LowerAssign \/ LowerExit, lowered' # "abort", prog' = prog
  PROVE  Following(H)'
<1>1. PICK pr, i, l, tc, A :
           /\ pr = prog /\ i = lpos /\ l = lscope /\ tc = tmp_counter /\ i \in Nat \ {0}
           /\ Moves(pr[i], H[i], H[i + 1], i) /\ Simulates(pr, H[i].scope, l, tc) /\ tc \in Nat
           /\ H[i].scope \in Seq(Seq(A)) /\ A = Symbols(pr, i + 1) /\ Len(H[i].scope) >= 2 /\ l # <<>>
           /\ Sequence(H[i].scope)
  BY Readies
<1>2. /\ pr[i].k \in {"assign", "exit"} /\ lscope' = l /\ loop_exit' = loop_exit /\ lstack' = lstack
      /\ lpos' = i + 1 /\ label_counter' = label_counter + 0 /\ tmp_counter' \in {tc + 0, tc + 1}
  BY <1>1 DEF LowerAssign, LowerExit, Lowers, Kind, Emits, Abort
<1>3. H[i + 1] = H[i]
  BY <1>1, <1>2 DEF Moves
<1>4. PICK td : td = tmp_counter'
  OBVIOUS
<1>5. td \in Nat /\ Simulates(pr, H[i].scope, l, td)
  <2>1. td \in Nat /\ tc <= td
    BY <1>1, <1>2, <1>4
  <2> QED BY <1>1, <2>1, SimMore
<1>6. Labelled(H[i], loop_exit, lstack) /\ label_counter' \in Nat
  <2>1. Labelled(H[i], loop_exit, lstack) /\ label_counter \in Nat
    BY <1>1 DEF Ready, Following
  <2> QED BY <1>2, <2>1
<1> QED BY <1>1, <1>2, <1>3, <1>4, <1>5, <1>6 DEF Following

\* A block is entered: what is common to the if, the loops, the case and the arm.
LEMMA OpenFollows ==
  ASSUME NEW S, NEW H, Ready(S, H), prog' = prog, prog[lpos].k \in Openers,
         NEW f, f.k = prog[lpos].k, f.sv = loop_exit, lstack' = Append(lstack, f),
         IF prog[lpos].k \in Loops THEN loop_exit' \in Nat ELSE loop_exit' = loop_exit,
         lpos' = lpos + 1, label_counter' \in Nat, tmp_counter' \in Nat,
         Simulates(prog, H[lpos + 1].scope, lscope', tmp_counter')
  PROVE  Following(H)'
<1>1. PICK h, g, n, e, ls : h = H[lpos] /\ g = H[lpos + 1] /\ n = prog[lpos] /\ e = loop_exit /\ ls = lstack
  OBVIOUS
<1>2. g.saved = Append(h.saved, <<n.k, h.loop>>) /\ g.loop = (h.loop \/ n.k \in Loops)
  <2>1. Moves(n, h, g, lpos) /\ h.loop \in BOOLEAN
    BY <1>1 DEF Ready, Shaped
  <2>2. CASE n.k \in {"if"} \cup Loops
    <3>1. PICK c, lp, sv : /\ c = Append(h.scope, Bind(n.key, "key", lpos) \o Bind(n.x, "node", lpos))
                           /\ lp = (h.loop \/ n.k \in Loops) /\ sv = Append(h.saved, <<n.k, h.loop>>)
      OBVIOUS
    <3>2. g = Walk(c, lp, sv)
      BY <2>1, <2>2, <3>1 DEF Moves
    <3>3. g.loop = lp /\ g.saved = sv
      BY <3>2, Walks
    <3> QED BY <3>1, <3>3, Zenon
  <2>3. CASE n.k \in {"case", "arm"}
    <3>1. n.k \notin Loops
      BY <2>3 DEF Loops
    <3>2. PICK lp, sv : lp = h.loop /\ sv = Append(h.saved, <<n.k, h.loop>>)
      OBVIOUS
    <3>3. \E c : g = Walk(c, lp, sv)
      BY <2>1, <2>3, <3>2 DEF Moves
    <3>4. g.loop = lp /\ g.saved = sv
      BY <3>3, Walks
    <3>5. h.loop = (h.loop \/ n.k \in Loops)
      BY <2>1, <3>1, Zenon
    <3> QED BY <3>2, <3>4, <3>5, Zenon
  <2> QED BY <1>1, <2>2, <2>3 DEF Openers
<1>3. Labelled(h, e, ls) /\ h.saved \in Seq(Openers \X BOOLEAN)
  BY <1>1 DEF Ready, Following, Shaped
<1>4. PICK x : x = loop_exit'
  OBVIOUS
<1>5. g.loop = (x # LABEL_INVALID)
  <2>1. h.loop = (e # LABEL_INVALID)
    BY <1>3 DEF Labelled
  <2>2. CASE n.k \in Loops
    <3>1. x # LABEL_INVALID
      BY <1>1, <1>4, <2>2 DEF LABEL_INVALID
    <3> QED BY <1>2, <2>2, <3>1, Zenon
  <2>3. CASE n.k \notin Loops
    <3>1. x = e
      BY <1>1, <1>4, <2>3
    <3> QED BY <1>2, <2>1, <2>3, <3>1, Zenon
  <2> QED BY <2>2, <2>3
<1>6. Labelled(g, x, Append(ls, f))
  <2>1. n.k \in Openers /\ f.k = n.k /\ f.sv = e
    BY <1>1
  <2> QED BY <1>2, <1>3, <1>5, <2>1, LabelPush
<1> QED BY <1>1, <1>4, <1>6 DEF Following

LEMMA LowerIfFollows ==
  ASSUME NEW S, NEW H, Ready(S, H), LowerIf, prog' = prog
  PROVE  Following(H)'
<1>1. PICK pr, i, l, tc, A :
           /\ pr = prog /\ i = lpos /\ l = lscope /\ tc = tmp_counter /\ i \in Nat \ {0}
           /\ Moves(pr[i], H[i], H[i + 1], i) /\ Simulates(pr, H[i].scope, l, tc) /\ tc \in Nat
           /\ H[i].scope \in Seq(Seq(A)) /\ A = Symbols(pr, i + 1) /\ Len(H[i].scope) >= 2 /\ l # <<>>
           /\ Sequence(H[i].scope)
  BY Readies
<1>2. /\ pr[i].k = "if" /\ loop_exit' = loop_exit /\ lpos' = i + 1
      /\ label_counter' = label_counter + 2 /\ tmp_counter' = tc + 0 /\ lscope' = Append(l, <<>>)
  BY <1>1 DEF LowerIf, Lowers, Kind, Emits, Push
<1>3. PICK f : /\ f = Frame("if", label_counter, label_counter + 1, Imm, Imm)
               /\ lstack' = Append(lstack, f)
  BY DEF LowerIf
<1>4. f.k = "if" /\ f.sv = loop_exit
  BY <1>3 DEF Frame
<1>5. H[i + 1].scope = Append(H[i].scope, <<>>)
  <2>1. pr[i].key = None /\ pr[i].x = None
    <3>1. pr[i] \in Node
      BY <1>1 DEF Ready, Nested
    <3> QED BY <1>2, <3>1, NodeShapes
  <2>2. PICK q, lp, sv : /\ q = Append(H[i].scope, <<>> \o <<>>) /\ lp = (H[i].loop \/ pr[i].k \in Loops)
                         /\ sv = Append(H[i].saved, <<pr[i].k, H[i].loop>>)
    OBVIOUS
  <2>3. H[i + 1] = Walk(q, lp, sv)
    BY <1>1, <1>2, <2>1, <2>2 DEF Moves, Bind
  <2>4. H[i + 1].scope = q /\ <<>> \o <<>> = <<>>
    BY <2>3, Walks
  <2> QED BY <2>2, <2>4
<1>6. Simulates(pr, Append(H[i].scope, <<>>), Append(l, <<>>), tc)
  <2>1. Sequence(<<>>)
    <3>1. <<>> \in Seq({})
      OBVIOUS
    <3> QED BY <3>1 DEF Sequence
  <2> QED BY <1>1, <2>1, MatchEmpty, SimPush
<1>7. Simulates(prog, H[lpos + 1].scope, lscope', tmp_counter') /\ tmp_counter' \in Nat
  BY <1>1, <1>2, <1>5, <1>6
<1>8. "if" \in Openers /\ "if" \notin Loops /\ label_counter' \in Nat /\ prog[lpos].k = "if"
  <2>1. label_counter \in Nat
    BY DEF Ready, Following
  <2> QED BY <1>1, <1>2, <2>1 DEF Openers, Loops
<1> QED BY <1>1, <1>2, <1>3, <1>4, <1>7, <1>8, OpenFollows

LEMMA LowerCaseFollows ==
  ASSUME NEW S, NEW H, Ready(S, H), LowerCase, prog' = prog
  PROVE  Following(H)'
<1>1. PICK pr, i, l, tc, A :
           /\ pr = prog /\ i = lpos /\ l = lscope /\ tc = tmp_counter /\ i \in Nat \ {0}
           /\ Moves(pr[i], H[i], H[i + 1], i) /\ Simulates(pr, H[i].scope, l, tc) /\ tc \in Nat
           /\ H[i].scope \in Seq(Seq(A)) /\ A = Symbols(pr, i + 1) /\ Len(H[i].scope) >= 2 /\ l # <<>>
           /\ Sequence(H[i].scope)
  BY Readies
<1>2. /\ pr[i].k = "case" /\ loop_exit' = loop_exit /\ lpos' = i + 1
      /\ label_counter' = label_counter + 1 /\ tmp_counter' = tc + 0 /\ lscope' = l
  BY <1>1 DEF LowerCase, Lowers, Kind, Emits
<1>3. PICK f : /\ f = Frame("case", LABEL_INVALID, label_counter, Imm, Operand(lscope, prog[lpos].y))
               /\ lstack' = Append(lstack, f)
  BY DEF LowerCase
<1>4. f.k = "case" /\ f.sv = loop_exit
  BY <1>3 DEF Frame
<1>5. H[i + 1].scope = H[i].scope
  <2>1. PICK sv : sv = Append(H[i].saved, <<"case", H[i].loop>>)
    OBVIOUS
  <2>2. H[i + 1] = Walk(H[i].scope, H[i].loop, sv)
    BY <1>1, <1>2, <2>1 DEF Moves
  <2> QED BY <2>2, Walks
<1>6. Simulates(prog, H[lpos + 1].scope, lscope', tmp_counter') /\ tmp_counter' \in Nat
  BY <1>1, <1>2, <1>5
<1>7. "case" \in Openers /\ "case" \notin Loops /\ label_counter' \in Nat /\ prog[lpos].k = "case"
  <2>1. label_counter \in Nat
    BY DEF Ready, Following
  <2> QED BY <1>1, <1>2, <2>1 DEF Openers, Loops
<1> QED BY <1>1, <1>2, <1>3, <1>4, <1>6, <1>7, OpenFollows

LEMMA LowerArmFollows ==
  ASSUME NEW S, NEW H, Ready(S, H), LowerArm, prog' = prog
  PROVE  Following(H)'
<1>1. PICK pr, i, l, tc, A :
           /\ pr = prog /\ i = lpos /\ l = lscope /\ tc = tmp_counter /\ i \in Nat \ {0}
           /\ Moves(pr[i], H[i], H[i + 1], i) /\ Simulates(pr, H[i].scope, l, tc) /\ tc \in Nat
           /\ H[i].scope \in Seq(Seq(A)) /\ A = Symbols(pr, i + 1) /\ Len(H[i].scope) >= 2 /\ l # <<>>
           /\ Sequence(H[i].scope)
  BY Readies
<1>2. /\ pr[i].k = "arm" /\ loop_exit' = loop_exit /\ lpos' = i + 1
      /\ label_counter' = label_counter + 1 /\ tmp_counter' \in {tc + 0, tc + 1} /\ lscope' = Append(l, <<>>)
  BY <1>1 DEF LowerArm, Lowers, Kind, Emits, Push
<1>3. PICK f : /\ f = Frame("arm", LABEL_INVALID, label_counter, Imm, Imm)
               /\ lstack' = Append(lstack, f)
  BY DEF LowerArm
<1>4. f.k = "arm" /\ f.sv = loop_exit
  BY <1>3 DEF Frame
<1>5. H[i + 1].scope = Append(H[i].scope, Bind(pr[i].x, "node", i))
  <2>1. PICK q, sv : /\ q = Append(H[i].scope, Bind(pr[i].x, "node", i))
                     /\ sv = Append(H[i].saved, <<"arm", H[i].loop>>)
    OBVIOUS
  <2>2. H[i + 1] = Walk(q, H[i].loop, sv)
    BY <1>1, <1>2, <2>1 DEF Moves
  <2>3. H[i + 1].scope = q
    BY <2>2, Walks
  <2> QED BY <2>1, <2>3
<1>6. PICK td : td = tmp_counter'
  OBVIOUS
<1>7. td \in Nat /\ Simulates(pr, Append(H[i].scope, Bind(pr[i].x, "node", i)), Append(l, <<>>), td)
  <2>1. Sequence(<<>>)
    <3>1. <<>> \in Seq({})
      OBVIOUS
    <3> QED BY <3>1 DEF Sequence
  <2>2. Match(pr, Bind(pr[i].x, "node", i), <<>>, tc)
    BY <1>2, ArmMatch
  <2>3. td \in Nat /\ tc <= td
    BY <1>1, <1>2, <1>6
  <2>4. Simulates(pr, Append(H[i].scope, Bind(pr[i].x, "node", i)), Append(l, <<>>), tc)
    BY <1>1, <2>1, <2>2, SimPush
  <2> QED BY <1>1, <2>3, <2>4, SimMore
<1>8. Simulates(prog, H[lpos + 1].scope, lscope', tmp_counter') /\ tmp_counter' \in Nat
  BY <1>1, <1>2, <1>5, <1>6, <1>7
<1>9. "arm" \in Openers /\ "arm" \notin Loops /\ label_counter' \in Nat /\ prog[lpos].k = "arm"
  <2>1. label_counter \in Nat
    BY DEF Ready, Following
  <2> QED BY <1>1, <1>2, <2>1 DEF Openers, Loops
<1> QED BY <1>1, <1>2, <1>3, <1>4, <1>8, <1>9, OpenFollows

LEMMA LowerLoopFollows ==
  ASSUME NEW S, NEW H, Ready(S, H), LowerLoop, prog' = prog
  PROVE  Following(H)'
<1>1. PICK pr, i, l, tc, A :
           /\ pr = prog /\ i = lpos /\ l = lscope /\ tc = tmp_counter /\ i \in Nat \ {0}
           /\ Moves(pr[i], H[i], H[i + 1], i) /\ Simulates(pr, H[i].scope, l, tc) /\ tc \in Nat
           /\ H[i].scope \in Seq(Seq(A)) /\ A = Symbols(pr, i + 1) /\ Len(H[i].scope) >= 2 /\ l # <<>>
           /\ Sequence(H[i].scope)
  BY Readies
<1>2. PICK n, lc : n = pr[i] /\ lc = label_counter
  OBVIOUS
<1>3. PICK names : names = IF n.k # "for" THEN <<>>
               ELSE IF n.key = None THEN <<Val(n.x, Decl("node", i))>>
               ELSE <<Val(n.key, Decl("key", i)), Val(n.x, Decl("node", i))>>
  OBVIOUS
<1>4. lc \in Nat
  BY <1>2 DEF Ready, Following
<1>5. /\ n.k \in Loops /\ lpos' = i + 1 /\ loop_exit' = lc + 1 /\ label_counter' = lc + 2
      /\ tmp_counter' = tc + (IF n.k = "for" THEN 7 ELSE 0)
      /\ lscope' = Append(IF n.k = "for" THEN Define(l, Tmp(0)) ELSE l, names)
  BY <1>1, <1>2, <1>3 DEF LowerLoop, Lowers, Kind, Emits
<1>6. PICK f : /\ f = Frame(n.k, lc, lc + 1, Tmp(0), Imm)
               /\ lstack' = Append(lstack, f)
  BY <1>1, <1>2 DEF LowerLoop
<1>7. f.k = n.k /\ f.sv = loop_exit
  BY <1>6 DEF Frame
<1>8. PICK cs : cs = Bind(n.key, "key", i) \o Bind(n.x, "node", i)
  OBVIOUS
<1>9. H[i + 1].scope = Append(H[i].scope, cs)
  <2>1. PICK q, lp, sv : /\ q = Append(H[i].scope, cs) /\ lp = (H[i].loop \/ pr[i].k \in Loops)
                         /\ sv = Append(H[i].saved, <<pr[i].k, H[i].loop>>)
    OBVIOUS
  <2>2. H[i + 1] = Walk(q, lp, sv)
    BY <1>1, <1>2, <1>5, <1>8, <2>1 DEF Moves
  <2>3. H[i + 1].scope = q
    BY <2>2, Walks
  <2> QED BY <2>1, <2>3
<1>10. PICK td, m : td = tmp_counter' /\ m = IF n.k = "for" THEN Define(l, Tmp(0)) ELSE l
  OBVIOUS
<1>11. td \in Nat /\ tc <= td
  BY <1>1, <1>5, <1>10
<1>12. Simulates(pr, H[i].scope, m, td)
  <2>1. Simulates(pr, H[i].scope, l, td)
    BY <1>1, <1>11, SimMore
  <2>2. CASE n.k = "for"
    <3>1. PICK v : v = Tmp(0)
      OBVIOUS
    <3>2. v = Val(TmpName(tc), Decl("temp", tc))
      <4>1. tc + 0 = tc
        BY <1>1
      <4> QED BY <1>1, <3>1, <4>1 DEF Tmp
    <3>3. tc \in 0 .. td - 1
      BY <1>1, <1>5, <1>10, <2>2
    <3>4. Temporary(v, td)
      BY <3>2, <3>3 DEF Temporary
    <3> QED BY <1>1, <1>10, <2>1, <2>2, <3>1, <3>4, SimOwn
  <2>3. CASE n.k # "for"
    BY <1>10, <2>1, <2>3
  <2> QED BY <2>2, <2>3
<1>13. Match(pr, cs, names, td) /\ Sequence(names)
  <2>1. CASE n.k = "for"
    <3>1. names = IF n.key = None THEN <<Val(n.x, Decl("node", i))>>
                  ELSE <<Val(n.key, Decl("key", i)), Val(n.x, Decl("node", i))>>
      BY <1>3, <2>1
    <3>2. Match(pr, cs, names, td)
      BY <1>8, <3>1, ForMatch
    <3>3. PICK vk, vx, B : vk = Val(n.key, Decl("key", i)) /\ vx = Val(n.x, Decl("node", i)) /\ B = {vk, vx}
      OBVIOUS
    <3>4. <<vx>> \in Seq(B) /\ <<vk, vx>> \in Seq(B)
      BY <3>3
    <3>5. names \in Seq(B)
      BY <3>1, <3>3, <3>4
    <3> QED BY <3>2, <3>5 DEF Sequence
  <2>2. CASE n.k # "for"
    <3>1. n.k \in {"while", "loop"}
      BY <1>5, <2>2 DEF Loops
    <3>2. n.key = None /\ n.x = None
      <4>1. n \in Node
        BY <1>1, <1>2 DEF Ready, Nested
      <4> QED BY <3>1, <4>1, NodeShapes
    <3>3. cs = <<>>
      <4>1. <<>> \o <<>> = <<>>
        OBVIOUS
      <4> QED BY <1>8, <3>2, <4>1 DEF Bind
    <3>4. names = <<>> /\ <<>> \in Seq({})
      BY <1>3, <2>2
    <3> QED BY <3>3, <3>4, MatchEmpty DEF Sequence
  <2> QED BY <2>1, <2>2
<1>14. Simulates(pr, Append(H[i].scope, cs), Append(m, names), td)
  BY <1>1, <1>12, <1>13, SimPush
<1>15. Simulates(prog, H[lpos + 1].scope, lscope', tmp_counter') /\ tmp_counter' \in Nat
  BY <1>1, <1>5, <1>9, <1>10, <1>11, <1>14
<1>16. prog[lpos].k \in Openers /\ label_counter' \in Nat /\ loop_exit' \in Nat /\ prog[lpos].k \in Loops
  BY <1>1, <1>2, <1>4, <1>5 DEF Openers
<1> QED BY <1>1, <1>2, <1>5, <1>6, <1>7, <1>15, <1>16, OpenFollows

LEMMA LowerElseFollows ==
  ASSUME NEW S, NEW H, Ready(S, H), LowerElse, prog' = prog
  PROVE  Following(H)'
<1>1. PICK pr, i, l, tc, A :
           /\ pr = prog /\ i = lpos /\ l = lscope /\ tc = tmp_counter /\ i \in Nat \ {0}
           /\ Moves(pr[i], H[i], H[i + 1], i) /\ Simulates(pr, H[i].scope, l, tc) /\ tc \in Nat
           /\ H[i].scope \in Seq(Seq(A)) /\ A = Symbols(pr, i + 1) /\ Len(H[i].scope) >= 2 /\ l # <<>>
           /\ Sequence(H[i].scope)
  BY Readies
<1>2. /\ pr[i].k = "else" /\ loop_exit' = loop_exit /\ lstack' = lstack /\ lpos' = i + 1
      /\ label_counter' = label_counter + 0 /\ tmp_counter' = tc + 0
      /\ lscope' = Append(Front(l), <<>>)
  BY <1>1 DEF LowerElse, Lowers, Kind, Emits, Push, Pop
<1>3. /\ H[i + 1].scope = Append(Front(H[i].scope), <<>>)
      /\ H[i + 1].loop = H[i].loop /\ H[i + 1].saved = H[i].saved
  <2>1. PICK q : q = Append(Front(H[i].scope), <<>>)
    OBVIOUS
  <2>2. H[i + 1] = Walk(q, H[i].loop, H[i].saved)
    BY <1>1, <1>2, <2>1 DEF Moves, Push, Pop
  <2>3. H[i + 1].scope = q /\ H[i + 1].loop = H[i].loop /\ H[i + 1].saved = H[i].saved
    BY <2>2, Walks
  <2> QED BY <2>1, <2>3
<1>4. Simulates(pr, Append(Front(H[i].scope), <<>>), Append(Front(l), <<>>), tc)
  <2>1. PICK c, m : c = Front(H[i].scope) /\ m = Front(l)
    OBVIOUS
  <2>2. Simulates(pr, c, m, tc)
    BY <1>1, <2>1, SimPop
  <2>3. Sequence(c)
    <3>1. H[i].scope # <<>>
      BY <1>1
    <3>2. PICK E : E = Seq(A)
      OBVIOUS
    <3>3. H[i].scope \in Seq(E)
      BY <1>1, <3>2
    <3>4. c \in Seq(E)
      BY <2>1, <3>1, <3>3, FrontOf
    <3> QED BY <3>4 DEF Sequence
  <2>4. Sequence(<<>>)
    <3>1. <<>> \in Seq({})
      OBVIOUS
    <3> QED BY <3>1 DEF Sequence
  <2> QED BY <2>1, <2>2, <2>3, <2>4, MatchEmpty, SimPush
<1>5. Labelled(H[i + 1], loop_exit, lstack) /\ label_counter' \in Nat
  <2>1. Labelled(H[i], loop_exit, lstack) /\ label_counter \in Nat
    BY <1>1 DEF Ready, Following
  <2> QED BY <1>2, <1>3, <2>1 DEF Labelled
<1>6. tmp_counter' = tc
  BY <1>1, <1>2
<1> QED BY <1>1, <1>2, <1>3, <1>4, <1>5, <1>6 DEF Following

LEMMA LowerEndFollows ==
  ASSUME NEW S, NEW H, Ready(S, H), LowerEnd, prog' = prog
  PROVE  Following(H)'
<1>1. PICK pr, i, l, tc, A :
           /\ pr = prog /\ i = lpos /\ l = lscope /\ tc = tmp_counter /\ i \in Nat \ {0}
           /\ Moves(pr[i], H[i], H[i + 1], i) /\ Simulates(pr, H[i].scope, l, tc) /\ tc \in Nat
           /\ H[i].scope \in Seq(Seq(A)) /\ A = Symbols(pr, i + 1) /\ Len(H[i].scope) >= 2 /\ l # <<>>
           /\ Sequence(H[i].scope)
  BY Readies
<1>2. PICK h, g, e, ls, f : h = H[i] /\ g = H[i + 1] /\ e = loop_exit /\ ls = lstack /\ f = Last(ls)
  OBVIOUS
<1>3. /\ pr[i].k = "end" /\ lstack' = Front(ls) /\ lpos' = i + 1
      /\ label_counter' = label_counter + 0 /\ tmp_counter' = tc + 0
      /\ lscope' = IF f.k = "case" THEN l ELSE Front(l)
      /\ loop_exit' = IF f.k \in Loops THEN f.sv ELSE e
  BY <1>1, <1>2 DEF LowerEnd, Lowers, Kind, Emits, Pop, ExitAfter
<1>4. PICK kind, was : kind = Last(h.saved)[1] /\ was = Last(h.saved)[2]
  OBVIOUS
<1>5. g.scope = (IF kind = "case" THEN h.scope ELSE Front(h.scope)) /\ g.loop = was /\ g.saved = Front(h.saved)
  <2>1. PICK c, sv : c = (IF kind = "case" THEN h.scope ELSE Front(h.scope)) /\ sv = Front(h.saved)
    OBVIOUS
  <2>2. g = Walk(c, was, sv)
    BY <1>1, <1>2, <1>3, <1>4, <2>1 DEF Moves, Pop
  <2>3. g.scope = c /\ g.loop = was /\ g.saved = sv
    BY <2>2, Walks
  <2> QED BY <2>1, <2>3
<1>6. /\ S[i] # <<>> /\ Labelled(h, e, ls) /\ h.saved \in Seq(Openers \X BOOLEAN) /\ h.saved # <<>>
      /\ label_counter \in Nat
  <2>1. Nested(pr, S) /\ i \in 1 .. Len(pr)
    BY <1>1 DEF Ready
  <2>2. Stacked(pr, S, i)
    BY <2>1, StackAt
  <2>3. S[i] # <<>> /\ S[i] \in Seq(Below(i - 1))
    BY <1>3, <2>2 DEF Stacked, Fits
  <2>4. h.saved \in Seq(Openers \X BOOLEAN) /\ Len(h.saved) = Len(S[i])
    BY <1>1, <1>2 DEF Ready, Shaped
  <2>5. h.saved # <<>>
    BY <2>3, <2>4
  <2> QED BY <1>1, <1>2, <2>3, <2>4, <2>5 DEF Ready, Following
<1>7. PICK x : x = loop_exit'
  OBVIOUS
<1>8. f.k = kind /\ was = (f.sv # LABEL_INVALID)
  BY <1>2, <1>4, <1>6, LabelTop
<1>9. was = (x # LABEL_INVALID)
  <2>1. CASE kind \in Loops
    BY <1>3, <1>7, <1>8, <2>1
  <2>2. CASE kind \notin Loops
    <3>1. h.loop = (H[Last(S[i]).o].loop \/ pr[Last(S[i]).o].k \in Loops)
          /\ Last(h.saved) = <<pr[Last(S[i]).o].k, H[Last(S[i]).o].loop>>
      BY <1>1, <1>2, <1>6 DEF Ready, Entered
    <3>2. PICK o, lp : o = Last(S[i]).o /\ lp = H[o].loop
      OBVIOUS
    <3>3. kind = pr[o].k /\ was = lp
      BY <1>4, <3>1, <3>2
    <3>4. h.loop = (lp \/ FALSE)
      BY <2>2, <3>1, <3>2, <3>3, Zenon
    <3>5. h.loop = (e # LABEL_INVALID) /\ x = e
      BY <1>3, <1>6, <1>7, <1>8, <2>2 DEF Labelled
    <3>6. was \in BOOLEAN
      BY <1>8
    <3> QED BY <3>3, <3>4, <3>5, <3>6
  <2> QED BY <2>1, <2>2
<1>10. Labelled(g, x, Front(ls))
  BY <1>5, <1>6, <1>9, LabelPop
<1>11. Simulates(pr, g.scope, lscope', tc)
  <2>1. CASE kind = "case"
    BY <1>1, <1>2, <1>3, <1>5, <1>8, <2>1
  <2>2. CASE kind # "case"
    <3>1. Simulates(pr, Front(h.scope), Front(l), tc)
      BY <1>1, <1>2, SimPop
    <3> QED BY <1>3, <1>5, <1>8, <2>2, <3>1
  <2> QED BY <2>1, <2>2
<1>12. tmp_counter' = tc /\ label_counter' \in Nat
  BY <1>1, <1>3, <1>6
<1> QED BY <1>1, <1>2, <1>3, <1>7, <1>10, <1>11, <1>12 DEF Following

-----------------------------------------------------------------------------
(* The names in the code *)

\* What lscope_find finds has the name it was asked for.
LEMMA FindNames ==
  ASSUME NEW A, NEW chain \in Seq(Seq(A)), NEW y, Found(chain, y)
  PROVE  /\ Max(Holding(chain, y)) \in Holding(chain, y)
         /\ \A s \in Holding(chain, y) : s <= Max(Holding(chain, y))
         /\ Min(Entries(chain, y)) \in Entries(chain, y)
         /\ lscope_find(chain, y).name = y
<1>1. Len(chain) \in Nat /\ Holding(chain, y) \in SUBSET Nat /\ Holding(chain, y) # {}
      /\ \A s \in Holding(chain, y) : s <= Len(chain)
  BY DEF Holding, Found
<1>2. Max(Holding(chain, y)) \in Holding(chain, y) /\ \A s \in Holding(chain, y) : s <= Max(Holding(chain, y))
  BY <1>1, MaxOf
<1>3. PICK s : s = Max(Holding(chain, y))
  OBVIOUS
<1>4. s \in 1 .. Len(chain) /\ \E e \in 1 .. Len(chain[s]) : chain[s][e].name = y
  BY <1>2, <1>3 DEF Holding
<1>5. Entries(chain, y) = {e \in 1 .. Len(chain[s]) : chain[s][e].name = y}
  BY <1>3 DEF Entries
<1>6. Entries(chain, y) \in SUBSET Nat /\ Entries(chain, y) # {}
  <2>1. PICK c, m : c = chain[s] /\ m = Len(c)
    OBVIOUS
  <2>2. c \in Seq(A)
    BY <1>4, <2>1
  <2>3. m \in Nat
    BY <2>1, <2>2
  <2>4. Entries(chain, y) = {e \in 1 .. m : c[e].name = y}
    BY <1>5, <2>1
  <2>5. Entries(chain, y) # {}
    BY <1>4, <2>1, <2>4
  <2> QED BY <2>3, <2>4, <2>5
<1>7. Min(Entries(chain, y)) \in Entries(chain, y)
  BY <1>6, MinOf
<1>8. lscope_find(chain, y).name = y
  <2>1. PICK e : e = Min(Entries(chain, y))
    OBVIOUS
  <2>2. chain[s][e].name = y
    BY <1>5, <1>7, <2>1
  <2>3. lscope_find(chain, y) = chain[s][e]
    BY <1>3, <2>1 DEF lscope_find
  <2> QED BY <2>2, <2>3
<1> QED BY <1>2, <1>7, <1>8

LEMMA OperandNames ==
  ASSUME NEW A, NEW chain \in Seq(Seq(A)), NEW y
  PROVE  Operand(chain, y).name = None \/ (Operand(chain, y).name = y /\ y # Literal)
<1>1. Imm.name = None
  BY DEF Imm, Val
<1>2. Val(y, Decl("global", y)).name = y
  BY DEF Val
<1>3. Found(chain, y) => lscope_find(chain, y).name = y
  BY FindNames
<1> QED BY <1>1, <1>2, <1>3 DEF Operand, Unnamed

LEMMA RangeCat ==
  ASSUME NEW s, NEW t, Sequence(s), Sequence(t)
  PROVE  Sequence(s \o t) /\ Range(s \o t) = Range(s) \cup Range(t)
<1>1. PICK A, B : s \in Seq(A) /\ t \in Seq(B)
  BY DEF Sequence
<1>2. PICK D, u : D = A \cup B /\ u = s \o t
  OBVIOUS
<1>3. s \in Seq(D) /\ t \in Seq(D)
  BY <1>1, <1>2
<1>4. PICK m, n : m = Len(s) /\ n = Len(t)
  OBVIOUS
<1>5. /\ m \in Nat /\ n \in Nat /\ u \in Seq(D) /\ Len(u) = m + n
      /\ \A k \in 1 .. m : u[k] = s[k]
      /\ \A k \in 1 .. n : u[m + k] = t[k]
  BY <1>2, <1>3, <1>4
<1>6. Range(u) = {u[k] : k \in 1 .. m + n} /\ Range(s) = {s[k] : k \in 1 .. m} /\ Range(t) = {t[k] : k \in 1 .. n}
  <2>1. DOMAIN u = 1 .. m + n /\ DOMAIN s = 1 .. m /\ DOMAIN t = 1 .. n
    BY <1>3, <1>4, <1>5
  <2> QED BY <2>1 DEF Range
<1>7. ASSUME NEW k \in 1 .. m + n
      PROVE  u[k] \in Range(s) \cup Range(t)
  <2>1. CASE k <= m
    <3>1. k \in 1 .. m
      BY <2>1
    <3> QED BY <1>5, <1>6, <3>1
  <2>2. CASE ~(k <= m)
    <3>1. k - m \in 1 .. n /\ m + (k - m) = k
      BY <1>5, <2>2
    <3>2. u[k] = t[k - m]
      BY <1>5, <3>1
    <3> QED BY <1>6, <3>1, <3>2
  <2> QED BY <2>1, <2>2
<1>8. ASSUME NEW k \in 1 .. m
      PROVE  s[k] \in Range(u)
  <2>1. k \in 1 .. m + n /\ u[k] = s[k]
    BY <1>5
  <2> QED BY <1>6, <2>1
<1>9. ASSUME NEW k \in 1 .. n
      PROVE  t[k] \in Range(u)
  <2>1. m + k \in 1 .. m + n /\ u[m + k] = t[k]
    BY <1>5
  <2> QED BY <1>6, <2>1
<1>10. Range(u) = Range(s) \cup Range(t)
  BY <1>6, <1>7, <1>8, <1>9
<1> QED BY <1>2, <1>5, <1>10 DEF Sequence

\* Short instruction sequences.
LEMMA RangeShort ==
  /\ Sequence(<<>>) /\ Range(<<>>) = {}
  /\ \A x : Sequence(<<x>>) /\ Range(<<x>>) = {x}
  /\ \A x, y : Sequence(<<x, y>>) /\ Range(<<x, y>>) = {x, y}
  /\ \A x, y, z : Sequence(<<x, y, z>>) /\ Range(<<x, y, z>>) = {x, y, z}
<1>1. <<>> \in Seq({}) /\ DOMAIN <<>> = {}
  OBVIOUS
<1>2. Sequence(<<>>) /\ Range(<<>>) = {}
  BY <1>1 DEF Sequence, Range
<1>3. ASSUME NEW x
      PROVE  Sequence(<<x>>) /\ Range(<<x>>) = {x}
  <2>1. PICK s : s = <<x>>
    OBVIOUS
  <2>2. s \in Seq({x}) /\ DOMAIN s = {1} /\ s[1] = x
    BY <2>1
  <2> QED BY <2>1, <2>2 DEF Sequence, Range
<1>4. ASSUME NEW x, NEW y
      PROVE  Sequence(<<x, y>>) /\ Range(<<x, y>>) = {x, y}
  <2>1. PICK s : s = <<x, y>>
    OBVIOUS
  <2>2. s \in Seq({x, y}) /\ DOMAIN s = {1, 2} /\ s[1] = x /\ s[2] = y
    BY <2>1
  <2> QED BY <2>1, <2>2 DEF Sequence, Range
<1>5. ASSUME NEW x, NEW y, NEW z
      PROVE  Sequence(<<x, y, z>>) /\ Range(<<x, y, z>>) = {x, y, z}
  <2>1. PICK s : s = <<x, y, z>>
    OBVIOUS
  <2>2. s \in Seq({x, y, z}) /\ DOMAIN s = {1, 2, 3} /\ s[1] = x /\ s[2] = y /\ s[3] = z
    BY <2>1
  <2> QED BY <2>1, <2>2 DEF Sequence, Range
<1> QED BY <1>2, <1>3, <1>4, <1>5

\* The names that have a slot once the code is c.
Slots(c) == {x.dst.name : x \in Range(c)}

\* Nodes whose y is an operand (the one of an arm is a pattern).
Readers == Declarations \cup Loops \cup {"assign", "if", "case"}

\* The text before node i uses the name.
Used(pr, i, name) ==
  \E j \in 1 .. i - 1 :
    \/ pr[j].k \in Readers /\ pr[j].y = name /\ name # Literal
    \/ pr[j].k = "assign" /\ pr[j].x = name

\* A value an instruction may read: one that has a slot, or one the text names.
Fair(pr, i, c, v) ==
  v.name = None \/ v.name \in Slots(c) \/ Used(pr, i, v.name) \/ v.name \in Range(Outs)

FairFrame(pr, i, c, f) == Fair(pr, i, c, f.subj) /\ (f.k = "for" => Fair(pr, i, c, f.idx))

\* What node j declares with a value has a slot.
Stored(pr, j, c) ==
  /\ pr[j].k \in {"var", "let"} /\ pr[j].y # None => pr[j].x \in Slots(c)
  /\ pr[j].k \in {"string"} \cup Aggregates => pr[j].x \in Slots(c)
  /\ pr[j].k = "for" => pr[j].x \in Slots(c) /\ (pr[j].key # None => pr[j].key \in Slots(c))

\* The code before node i, with the activations that will add to it.
Coded(pr, i, c, ls) ==
  /\ Sequence(c)
  /\ \A x \in Range(c) : Fair(pr, i, c, x.a) /\ Fair(pr, i, c, x.b)
  /\ Sequence(ls)
  /\ \A k \in 1 .. Len(ls) : FairFrame(pr, i, c, ls[k])
  /\ Range(Params) \subseteq Slots(c)
  /\ \A j \in 1 .. i - 1 : Stored(pr, j, c)

LEMMA FairMore ==
  ASSUME NEW pr, NEW i \in Nat, NEW c, NEW d, Slots(c) \subseteq Slots(d)
  PROVE  \A v : Fair(pr, i, c, v) => Fair(pr, i + 1, d, v)
<1>1. \A name : Used(pr, i, name) => Used(pr, i + 1, name)
  <2>1. \A j : j \in 1 .. i - 1 => j \in 1 .. i + 1 - 1
    OBVIOUS
  <2> QED BY <2>1 DEF Used
<1> QED BY <1>1 DEF Fair

\* One node adds the instructions t.
LEMMA CodeGrows ==
  ASSUME NEW pr, NEW i \in Nat \ {0}, NEW c, NEW ls, Coded(pr, i, c, ls), NEW t, Sequence(t),
         \A x \in Range(t) : Fair(pr, i + 1, c \o t, x.a) /\ Fair(pr, i + 1, c \o t, x.b),
         NEW ms, Sequence(ms),
         \A k \in 1 .. Len(ms) : (\E m \in 1 .. Len(ls) : ms[k] = ls[m]) \/ FairFrame(pr, i + 1, c \o t, ms[k]),
         Stored(pr, i, c \o t)
  PROVE  Coded(pr, i + 1, c \o t, ms)
<1>1. PICK d : d = c \o t
  OBVIOUS
<1>2. Sequence(d) /\ Range(d) = Range(c) \cup Range(t)
  BY <1>1, RangeCat DEF Coded
<1>3. Slots(c) \subseteq Slots(d)
  BY <1>2 DEF Slots
<1>4. \A v : Fair(pr, i, c, v) => Fair(pr, i + 1, d, v)
  BY <1>3, FairMore
<1>5. \A x \in Range(d) : Fair(pr, i + 1, d, x.a) /\ Fair(pr, i + 1, d, x.b)
  BY <1>1, <1>2, <1>4 DEF Coded
<1>6. \A k \in 1 .. Len(ms) : FairFrame(pr, i + 1, d, ms[k])
  <2>1. \A m \in 1 .. Len(ls) : FairFrame(pr, i + 1, d, ls[m])
    BY <1>4 DEF Coded, FairFrame
  <2> QED BY <1>1, <2>1
<1>7. \A j \in 1 .. i + 1 - 1 : Stored(pr, j, d)
  <2>1. ASSUME NEW j \in 1 .. i - 1
        PROVE  Stored(pr, j, d)
    BY <1>3 DEF Coded, Stored
  <2>2. \A j \in 1 .. i + 1 - 1 : j \in 1 .. i - 1 \/ j = i
    OBVIOUS
  <2> QED BY <1>1, <2>1, <2>2
<1>8. Range(Params) \subseteq Slots(d)
  BY <1>3 DEF Coded
<1> QED BY <1>1, <1>2, <1>5, <1>6, <1>7, <1>8 DEF Coded

\* The frames of an activation more, or of one less.
LEMMA FramesPush ==
  ASSUME NEW ls, Sequence(ls), NEW f
  PROVE  /\ Sequence(Append(ls, f))
         /\ \A k \in 1 .. Len(Append(ls, f)) : (\E m \in 1 .. Len(ls) : Append(ls, f)[k] = ls[m]) \/ Append(ls, f)[k] = f
<1>1. PICK ms, n : ms = Append(ls, f) /\ n = Len(ls)
  OBVIOUS
<1>2. n \in Nat
  BY <1>1 DEF Sequence
<1>3. Sequence(ms) /\ Len(ms) = n + 1 /\ ms[n + 1] = f /\ \A k \in 1 .. n : ms[k] = ls[k]
  BY <1>1, Appends
<1>4. \A k \in 1 .. n + 1 : k \in 1 .. n \/ k = n + 1
  BY <1>2
<1> QED BY <1>1, <1>3, <1>4

LEMMA FramesPop ==
  ASSUME NEW ls, Sequence(ls), ls # <<>>
  PROVE  /\ Sequence(Front(ls)) /\ Len(ls) \in 1 .. Len(ls) /\ Last(ls) = ls[Len(ls)]
         /\ \A k \in 1 .. Len(Front(ls)) : \E m \in 1 .. Len(ls) : Front(ls)[k] = ls[m]
<1>1. PICK A : ls \in Seq(A)
  BY DEF Sequence
<1>2. PICK ms, n : ms = Front(ls) /\ n = Len(ls)
  OBVIOUS
<1>3. /\ ms \in Seq(A) /\ Len(ms) = n - 1 /\ n \in Nat \ {0} /\ Last(ls) = ls[n]
      /\ \A k \in 1 .. n - 1 : ms[k] = ls[k]
  BY <1>1, <1>2, FrontOf
<1>4. \A k \in 1 .. n - 1 : k \in 1 .. n
  BY <1>3
<1>5. \A k \in 1 .. Len(ms) : \E m \in 1 .. n : ms[k] = ls[m]
  BY <1>3, <1>4
<1> QED BY <1>2, <1>3, <1>5 DEF Sequence

LEMMA NewSlots ==
  ASSUME NEW c, NEW t, Sequence(c), Sequence(t), NEW x \in Range(t)
  PROVE  x.dst.name \in Slots(c \o t)
<1>1. x \in Range(c \o t)
  BY RangeCat
<1> QED BY <1>1 DEF Slots

\* Constants, and the operands of node i, are fair.
LEMMA FairOperands ==
  ASSUME NEW pr, NEW i \in Nat \ {0}, NEW c
  PROVE  /\ Fair(pr, i + 1, c, Imm)
         /\ \A A, chain : chain \in Seq(Seq(A)) /\ pr[i].k \in Readers
                            => Fair(pr, i + 1, c, Operand(chain, pr[i].y))
         /\ \A A, chain : chain \in Seq(Seq(A)) /\ pr[i].k = "assign" /\ Found(chain, pr[i].x)
                            => Fair(pr, i + 1, c, lscope_find(chain, pr[i].x))
<1>1. Imm.name = None
  BY DEF Imm, Val
<1>2. i \in 1 .. i + 1 - 1
  OBVIOUS
<1>3. /\ pr[i].k \in Readers /\ pr[i].y # Literal => Used(pr, i + 1, pr[i].y)
      /\ pr[i].k = "assign" => Used(pr, i + 1, pr[i].x)
  BY <1>2 DEF Used
<1>4. ASSUME NEW A, NEW chain \in Seq(Seq(A))
      PROVE  /\ pr[i].k \in Readers => Fair(pr, i + 1, c, Operand(chain, pr[i].y))
             /\ pr[i].k = "assign" /\ Found(chain, pr[i].x) => Fair(pr, i + 1, c, lscope_find(chain, pr[i].x))
  <2>1. LET v == Operand(chain, pr[i].y) IN v.name = None \/ (v.name = pr[i].y /\ pr[i].y # Literal)
    BY OperandNames
  <2>2. Found(chain, pr[i].x) => lscope_find(chain, pr[i].x).name = pr[i].x
    BY FindNames
  <2> QED BY <1>3, <2>1, <2>2 DEF Fair
<1>5. Fair(pr, i + 1, c, Imm)
  BY <1>1 DEF Fair
<1> QED BY <1>4, <1>5

\* Only statements assign.
LEMMA AssignNames ==
  ASSUME NEW n \in Node, n.k = "assign"
  PROVE  n.x \notin Unnamed
<1>1. n \in Stmts
  <2>1. n \notin Opens
    BY NodeKinds DEF Openers, Loops
  <2>2. n \notin Arms /\ n \notin {Mark("else"), Mark("end")}
    BY NodeKinds
  <2> QED BY <2>1, <2>2 DEF Node
<1> QED BY <1>1, NodesAssumption

\* A string is declared with one.
LEMMA StringLiteral ==
  ASSUME NEW n \in Node, n.k = "string"
  PROVE  n.y = Literal
<1>1. n \in Stmts
  <2>1. n \notin Opens
    BY NodeKinds DEF Openers, Loops
  <2>2. n \notin Arms /\ n \notin {Mark("else"), Mark("end")}
    BY NodeKinds
  <2> QED BY <2>1, <2>2 DEF Node
<1> QED BY <1>1, NodesAssumption

\* An aggregate is initialised with a name.
LEMMA AggregateNames ==
  ASSUME NEW n \in Node, n.k \in Aggregates
  PROVE  n.y \notin Unnamed
<1>1. n \in Stmts
  <2>1. n.k \in {"record", "bytes"}
    BY DEF Aggregates
  <2>2. n \notin Opens
    BY <2>1, NodeKinds DEF Openers, Loops
  <2>3. n \notin Arms /\ n \notin {Mark("else"), Mark("end")}
    BY <2>1, NodeKinds
  <2> QED BY <2>2, <2>3 DEF Node
<1> QED BY <1>1, NodesAssumption DEF Aggregates

LEMMA LowerDeclCodes ==
  ASSUME lpos \in Nat \ {0}, Coded(prog, lpos, code, lstack), LowerDecl, prog' = prog,
         prog[lpos] \in Node, NEW B, lscope \in Seq(Seq(B)), lscope # <<>>
  PROVE  Coded(prog, lpos, code, lstack)'
<1>1. PICK pr, i, c, ls, n : pr = prog /\ i = lpos /\ c = code /\ ls = lstack /\ n = prog[lpos]
  OBVIOUS
<1>2. PICK v, y, p, s1, s2, s3, s4, s5 :
        /\ v = Val(n.x, Decl("node", i)) /\ y = Operand(Define(lscope, v), n.y) /\ p = Tmp(0)
        /\ s1 = Op("ALLOCA", v, Imm, Imm) /\ s2 = Op("STR_INIT", v, Imm, Imm) /\ s3 = Op("COPY", v, y, Imm)
        /\ s4 = Op("ADDR", p, v, Imm) /\ s5 = Op(IF n.k = "bytes" THEN "MEMCPY_ODD" ELSE "MEMCPY", Imm, p, y)
  OBVIOUS
<1>3. PICK t : t = IF n.y = None THEN <<>> ELSE IF n.k = "string" THEN <<s1, s2>>
                   ELSE IF n.k \in Aggregates THEN <<s1, s4, s5>> ELSE <<s3>>
  OBVIOUS
<1>4. n.k \in Declarations /\ code' = c \o t /\ lstack' = ls /\ lpos' = i + 1
  <2>1. n.k \in Declarations /\ lstack' = ls /\ lpos' = i + 1
    BY <1>1 DEF LowerDecl, Lowers, Kind, Emits
  <2>2. code' = c \o (IF n.y = None THEN <<>> ELSE Initialise(n.k, v, y))
    BY <1>1, <1>2 DEF LowerDecl, Emits
  <2>3. Initialise(n.k, v, y) = IF n.k = "string" THEN <<s1, s2>>
                                ELSE IF n.k \in Aggregates THEN <<s1, s4, s5>> ELSE <<s3>>
    BY <1>2 DEF Initialise, Aggregates
  <2> QED BY <1>3, <2>1, <2>2, <2>3
<1>5. /\ v.name = n.x /\ s1.dst = v /\ s1.a = Imm /\ s1.b = Imm /\ s2.dst = v /\ s2.a = Imm /\ s2.b = Imm
      /\ s3.dst = v /\ s3.a = y /\ s3.b = Imm /\ s4.dst = p /\ s4.a = v /\ s4.b = Imm /\ s5.a = p /\ s5.b = y
  BY <1>2 DEF Val, Op, Instr
<1>6. /\ Sequence(t) /\ Range(t) \subseteq {s1, s2, s3, s4, s5}
      /\ s4 \in Range(t) \/ s5 \in Range(t) => {s1, s4} \subseteq Range(t)
      /\ n.k \in {"string"} \cup Aggregates => s1 \in Range(t)
      /\ n.k \in {"var", "let"} /\ n.y # None => s3 \in Range(t)
  <2>1. n.k \in {"string"} \cup Aggregates => n.y # None
    BY <1>1, StringLiteral, AggregateNames, OperandsAssumption DEF Unnamed
  <2>2. "string" \notin Aggregates /\ "var" \notin Aggregates /\ "let" \notin Aggregates
    BY DEF Aggregates
  <2>3. CASE n.y = None
    <3>1. Sequence(t) /\ Range(t) = {}
      BY <1>3, <2>3, RangeShort
    <3> QED BY <2>1, <2>3, <3>1
  <2>4. CASE n.y # None /\ n.k = "string"
    <3>1. Sequence(t) /\ Range(t) = {s1, s2}
      BY <1>3, <2>4, RangeShort
    <3>2. s4 # s1 /\ s4 # s2 /\ s5 # s1 /\ s5 # s2
      BY <1>2 DEF Op, Instr
    <3> QED BY <2>2, <2>4, <3>1, <3>2
  <2>5. CASE n.y # None /\ n.k \in Aggregates
    <3>1. Sequence(t) /\ Range(t) = {s1, s4, s5}
      BY <1>3, <2>2, <2>5, RangeShort
    <3> QED BY <2>2, <2>5, <3>1
  <2>6. CASE n.y # None /\ n.k # "string" /\ n.k \notin Aggregates
    <3>1. Sequence(t) /\ Range(t) = {s3}
      BY <1>3, <2>6, RangeShort
    <3>2. s4 # s3 /\ s5 # s3
      BY <1>2 DEF Op, Instr
    <3> QED BY <2>6, <3>1, <3>2
  <2> QED BY <2>3, <2>4, <2>5, <2>6
<1>7. PICK d : d = c \o t
  OBVIOUS
<1>8. Fair(pr, i + 1, d, Imm) /\ Fair(pr, i + 1, d, y)
  <2>1. PICK chain, D : chain = Define(lscope, v) /\ D = B \cup {v}
    OBVIOUS
  <2>2. lscope \in Seq(Seq(D)) /\ v \in D
    BY <2>1, Wider
  <2>3. chain \in Seq(Seq(D))
    BY <2>1, <2>2, Defines
  <2>4. y = Operand(chain, pr[i].y)
    BY <1>1, <1>2, <2>1
  <2>5. pr[i].k \in Readers
    BY <1>1, <1>4 DEF Readers
  <2> QED BY <1>1, <2>3, <2>4, <2>5, FairOperands
<1>9. \A x \in Range(t) : Fair(pr, i + 1, d, x.a) /\ Fair(pr, i + 1, d, x.b)
  <2>1. \A x \in Range(t) : Fair(pr, i + 1, d, x.dst)
    BY <1>1, <1>6, <1>7, NewSlots DEF Coded, Fair
  <2>2. s4 \in Range(t) \/ s5 \in Range(t) => Fair(pr, i + 1, d, v) /\ Fair(pr, i + 1, d, p)
    BY <1>5, <1>6, <2>1
  <2> QED BY <1>5, <1>6, <1>8, <2>2
<1>10. Stored(pr, i, d)
  <2>1. \A x \in Range(t) : x.dst.name \in Slots(d)
    BY <1>1, <1>6, <1>7, NewSlots DEF Coded
  <2>2. n.k # "for"
    BY <1>4 DEF Declarations
  <2> QED BY <1>1, <1>4, <1>5, <1>6, <2>1, <2>2 DEF Stored
<1>11. Sequence(ls) /\ \A k \in 1 .. Len(ls) : \E m \in 1 .. Len(ls) : ls[k] = ls[m]
  BY <1>1 DEF Coded
<1>12. Coded(pr, i + 1, c \o t, ls)
  BY <1>1, <1>6, <1>7, <1>9, <1>10, <1>11, CodeGrows
<1> QED BY <1>1, <1>4, <1>12

LEMMA LowerAssignCodes ==
  ASSUME lpos \in Nat \ {0}, Coded(prog, lpos, code, lstack), LowerAssign, lowered' # "abort", prog' = prog,
         NEW B, lscope \in Seq(Seq(B)), lscope # <<>>
  PROVE  Coded(prog, lpos, code, lstack)'
<1>1. PICK pr, i, c, ls, n, l : pr = prog /\ i = lpos /\ c = code /\ ls = lstack /\ n = prog[lpos] /\ l = lscope
  OBVIOUS
<1>2. PICK p, x, y, s1, s2 :
        /\ p = Tmp(0) /\ x = lscope_find(l, n.x) /\ y = Operand(l, n.y)
        /\ s1 = Op("ADDR", p, x, Imm) /\ s2 = Op("STORE", Imm, p, y)
  OBVIOUS
<1>3. PICK t : t = <<s1, s2>>
  OBVIOUS
<1>4. n.k = "assign" /\ Found(l, n.x) /\ code' = c \o t /\ lstack' = ls /\ lpos' = i + 1
  BY <1>1, <1>2, <1>3 DEF LowerAssign, Lowers, Kind, Emits, Abort
<1>5. s1.dst = p /\ s1.a = x /\ s1.b = Imm /\ s2.a = p /\ s2.b = y
  BY <1>2 DEF Op, Instr
<1>6. Sequence(t) /\ Range(t) = {s1, s2}
  BY <1>3, RangeShort
<1>7. PICK d : d = c \o t
  OBVIOUS
<1>8. Fair(pr, i + 1, d, Imm) /\ Fair(pr, i + 1, d, y) /\ Fair(pr, i + 1, d, x)
  <2>1. pr[i].k \in Readers
    BY <1>1, <1>4 DEF Readers
  <2> QED BY <1>1, <1>2, <1>4, <2>1, FairOperands
<1>9. Fair(pr, i + 1, d, p)
  <2>1. s1.dst.name \in Slots(d)
    BY <1>1, <1>6, <1>7, NewSlots DEF Coded
  <2> QED BY <1>5, <2>1 DEF Fair
<1>10. \A z \in Range(t) : Fair(pr, i + 1, d, z.a) /\ Fair(pr, i + 1, d, z.b)
  BY <1>5, <1>6, <1>8, <1>9
<1>11. Stored(pr, i, d)
  BY <1>1, <1>4 DEF Stored, Aggregates
<1>12. Sequence(ls) /\ \A k \in 1 .. Len(ls) : \E m \in 1 .. Len(ls) : ls[k] = ls[m]
  BY <1>1 DEF Coded
<1>13. Coded(pr, i + 1, c \o t, ls)
  BY <1>1, <1>6, <1>7, <1>10, <1>11, <1>12, CodeGrows
<1> QED BY <1>1, <1>4, <1>13

\* A node whose instructions read and write no name.
LEMMA SilentCodes ==
  ASSUME NEW pr, NEW i \in Nat \ {0}, NEW c, NEW ls, Coded(pr, i, c, ls), NEW t, Sequence(t),
         \A x \in Range(t) : x.a = Imm /\ x.b = Imm,
         pr[i].k \notin Declarations \cup {"for"},
         NEW ms, Sequence(ms),
         \A k \in 1 .. Len(ms) : (\E m \in 1 .. Len(ls) : ms[k] = ls[m]) \/ FairFrame(pr, i + 1, c \o t, ms[k])
  PROVE  Coded(pr, i + 1, c \o t, ms)
<1>1. Fair(pr, i + 1, c \o t, Imm)
  BY FairOperands
<1>2. \A x \in Range(t) : Fair(pr, i + 1, c \o t, x.a) /\ Fair(pr, i + 1, c \o t, x.b)
  BY <1>1
<1>3. Stored(pr, i, c \o t)
  BY DEF Stored, Declarations, Aggregates
<1> QED BY <1>2, <1>3, CodeGrows

LEMMA LowerExitCodes ==
  ASSUME lpos \in Nat \ {0}, Coded(prog, lpos, code, lstack), LowerExit, lowered' # "abort", prog' = prog
  PROVE  Coded(prog, lpos, code, lstack)'
<1>1. PICK pr, i, c, ls : pr = prog /\ i = lpos /\ c = code /\ ls = lstack
  OBVIOUS
<1>2. PICK s, t : s = Jump("JMP", Imm, loop_exit) /\ t = <<s>>
  OBVIOUS
<1>3. pr[i].k = "exit" /\ code' = c \o t /\ lstack' = ls /\ lpos' = i + 1
  BY <1>1, <1>2 DEF LowerExit, Lowers, Kind, Emits, Abort
<1>4. Sequence(t) /\ \A x \in Range(t) : x.a = Imm /\ x.b = Imm
  <2>1. s.a = Imm /\ s.b = Imm
    BY <1>2 DEF Jump, Instr
  <2> QED BY <1>2, <2>1, RangeShort
<1>5. Sequence(ls) /\ \A k \in 1 .. Len(ls) : \E m \in 1 .. Len(ls) : ls[k] = ls[m]
  BY <1>1 DEF Coded
<1>6. pr[i].k \notin Declarations \cup {"for"}
  BY <1>3 DEF Declarations
<1>7. Coded(pr, i + 1, c \o t, ls)
  BY <1>1, <1>4, <1>5, <1>6, SilentCodes
<1> QED BY <1>1, <1>3, <1>7

LEMMA LowerElseCodes ==
  ASSUME lpos \in Nat \ {0}, Coded(prog, lpos, code, lstack), LowerElse, prog' = prog
  PROVE  Coded(prog, lpos, code, lstack)'
<1>1. PICK pr, i, c, ls : pr = prog /\ i = lpos /\ c = code /\ ls = lstack
  OBVIOUS
<1>2. PICK s1, s2, t : /\ s1 = Jump("JMP", Imm, Last(ls).last) /\ s2 = Label(Last(ls).first, i + 1)
                       /\ t = <<s1, s2>>
  OBVIOUS
<1>3. pr[i].k = "else" /\ code' = c \o t /\ lstack' = ls /\ lpos' = i + 1
  BY <1>1, <1>2 DEF LowerElse, Lowers, Kind, Emits
<1>4. Sequence(t) /\ \A x \in Range(t) : x.a = Imm /\ x.b = Imm
  <2>1. s1.a = Imm /\ s1.b = Imm /\ s2.a = Imm /\ s2.b = Imm
    BY <1>2 DEF Jump, Label, Instr
  <2>2. Sequence(t) /\ Range(t) = {s1, s2}
    BY <1>2, RangeShort
  <2> QED BY <2>1, <2>2
<1>5. Sequence(ls) /\ \A k \in 1 .. Len(ls) : \E m \in 1 .. Len(ls) : ls[k] = ls[m]
  BY <1>1 DEF Coded
<1>6. pr[i].k \notin Declarations \cup {"for"}
  BY <1>3 DEF Declarations
<1>7. Coded(pr, i + 1, c \o t, ls)
  BY <1>1, <1>4, <1>5, <1>6, SilentCodes
<1> QED BY <1>1, <1>3, <1>7

LEMMA LowerIfCodes ==
  ASSUME lpos \in Nat \ {0}, Coded(prog, lpos, code, lstack), LowerIf, prog' = prog,
         NEW B, lscope \in Seq(Seq(B))
  PROVE  Coded(prog, lpos, code, lstack)'
<1>1. PICK pr, i, c, ls : pr = prog /\ i = lpos /\ c = code /\ ls = lstack
  OBVIOUS
<1>2. PICK y, s, t : /\ y = Operand(lscope, pr[i].y)
                     /\ s = Jump("JIFN", y, IF Else(lpos) # {} THEN label_counter ELSE label_counter + 1)
                     /\ t = <<s>>
  OBVIOUS
<1>3. PICK f : f = Frame("if", label_counter, label_counter + 1, Imm, Imm)
  OBVIOUS
<1>4. pr[i].k = "if" /\ code' = c \o t /\ lstack' = Append(ls, f) /\ lpos' = i + 1
  BY <1>1, <1>2, <1>3 DEF LowerIf, Lowers, Kind, Emits
<1>5. Sequence(t) /\ Range(t) = {s} /\ s.a = y /\ s.b = Imm
  BY <1>2, RangeShort DEF Jump, Instr
<1>6. PICK d : d = c \o t
  OBVIOUS
<1>7. Fair(pr, i + 1, d, Imm) /\ Fair(pr, i + 1, d, y)
  <2>1. pr[i].k \in Readers
    BY <1>1, <1>4 DEF Readers
  <2> QED BY <1>1, <1>2, <2>1, FairOperands
<1>8. \A x \in Range(t) : Fair(pr, i + 1, d, x.a) /\ Fair(pr, i + 1, d, x.b)
  BY <1>5, <1>7
<1>9. FairFrame(pr, i + 1, d, f)
  <2>1. f.subj = Imm /\ f.idx = Imm
    BY <1>3 DEF Frame
  <2> QED BY <1>7, <2>1 DEF FairFrame
<1>10. PICK ms : ms = Append(ls, f)
  OBVIOUS
<1>11. Sequence(ms) /\ \A k \in 1 .. Len(ms) : (\E m \in 1 .. Len(ls) : ms[k] = ls[m]) \/ ms[k] = f
  BY <1>1, <1>10, FramesPush DEF Coded
<1>12. Stored(pr, i, d)
  BY <1>4 DEF Stored, Aggregates
<1>13. Coded(pr, i + 1, c \o t, ms)
  BY <1>1, <1>5, <1>6, <1>8, <1>9, <1>11, <1>12, CodeGrows
<1> QED BY <1>1, <1>4, <1>10, <1>13

LEMMA LowerCaseCodes ==
  ASSUME lpos \in Nat \ {0}, Coded(prog, lpos, code, lstack), LowerCase, prog' = prog,
         NEW B, lscope \in Seq(Seq(B))
  PROVE  Coded(prog, lpos, code, lstack)'
<1>1. PICK pr, i, c, ls : pr = prog /\ i = lpos /\ c = code /\ ls = lstack
  OBVIOUS
<1>2. PICK y, t : y = Operand(lscope, pr[i].y) /\ t = <<>>
  OBVIOUS
<1>3. PICK f : f = Frame("case", LABEL_INVALID, label_counter, Imm, y)
  OBVIOUS
<1>4. pr[i].k = "case" /\ code' = c \o t /\ lstack' = Append(ls, f) /\ lpos' = i + 1
  BY <1>1, <1>2, <1>3 DEF LowerCase, Lowers, Kind, Emits
<1>5. Sequence(t) /\ Range(t) = {}
  BY <1>2, RangeShort
<1>6. PICK d : d = c \o t
  OBVIOUS
<1>7. Fair(pr, i + 1, d, y)
  <2>1. pr[i].k \in Readers
    BY <1>1, <1>4 DEF Readers
  <2> QED BY <1>1, <1>2, <2>1, FairOperands
<1>8. FairFrame(pr, i + 1, d, f)
  <2>1. f.subj = y /\ f.k # "for"
    BY <1>3 DEF Frame
  <2> QED BY <1>7, <2>1 DEF FairFrame
<1>9. PICK ms : ms = Append(ls, f)
  OBVIOUS
<1>10. Sequence(ms) /\ \A k \in 1 .. Len(ms) : (\E m \in 1 .. Len(ls) : ms[k] = ls[m]) \/ ms[k] = f
  BY <1>1, <1>9, FramesPush DEF Coded
<1>11. Stored(pr, i, d)
  BY <1>4 DEF Stored, Aggregates
<1>12. Coded(pr, i + 1, c \o t, ms)
  BY <1>1, <1>5, <1>6, <1>8, <1>10, <1>11, CodeGrows
<1> QED BY <1>1, <1>4, <1>9, <1>12

\* An arm compares the subject of the case around it.
LEMMA LowerArmCodes ==
  ASSUME lpos \in Nat \ {0}, Coded(prog, lpos, code, lstack), lstack # <<>>, LowerArm, prog' = prog
  PROVE  Coded(prog, lpos, code, lstack)'
<1>1. PICK pr, i, c, ls, n : pr = prog /\ i = lpos /\ c = code /\ ls = lstack /\ n = prog[lpos]
  OBVIOUS
<1>2. PICK p, q, s1, s2 : /\ p = Tmp(0) /\ q = Last(ls).subj
                          /\ s1 = Op("EQ", p, q, Imm) /\ s2 = Jump("JIFN", p, label_counter)
  OBVIOUS
<1>3. PICK t : t = IF n.y = None THEN <<>> ELSE <<s1, s2>>
  OBVIOUS
<1>4. PICK f : f = Frame("arm", LABEL_INVALID, label_counter, Imm, Imm)
  OBVIOUS
<1>5. n.k = "arm" /\ code' = c \o t /\ lstack' = Append(ls, f) /\ lpos' = i + 1
  BY <1>1, <1>2, <1>3, <1>4 DEF LowerArm, Lowers, Kind, Emits
<1>6. Sequence(t) /\ Range(t) \subseteq {s1, s2} /\ (Range(t) # {} => s1 \in Range(t))
  BY <1>3, RangeShort
<1>7. s1.dst = p /\ s1.a = q /\ s1.b = Imm /\ s2.a = p /\ s2.b = Imm
  BY <1>2 DEF Op, Jump, Instr
<1>8. PICK d : d = c \o t
  OBVIOUS
<1>9. Fair(pr, i + 1, d, Imm) /\ Fair(pr, i + 1, d, q)
  <2>1. Len(ls) \in 1 .. Len(ls) /\ Last(ls) = ls[Len(ls)]
    BY <1>1, FramesPop DEF Coded
  <2>2. Fair(pr, i, c, q)
    BY <1>1, <1>2, <2>1 DEF Coded, FairFrame
  <2>3. Slots(c) \subseteq Slots(d)
    BY <1>1, <1>6, <1>8, RangeCat DEF Slots, Coded
  <2> QED BY <1>1, <2>2, <2>3, FairMore, FairOperands
<1>10. Range(t) # {} => Fair(pr, i + 1, d, p)
  <2>1. Range(t) # {} => s1.dst.name \in Slots(d)
    BY <1>1, <1>6, <1>8, NewSlots DEF Coded
  <2> QED BY <1>7, <2>1 DEF Fair
<1>11. \A x \in Range(t) : Fair(pr, i + 1, d, x.a) /\ Fair(pr, i + 1, d, x.b)
  BY <1>6, <1>7, <1>9, <1>10
<1>12. FairFrame(pr, i + 1, d, f)
  <2>1. f.subj = Imm /\ f.idx = Imm
    BY <1>4 DEF Frame
  <2> QED BY <1>9, <2>1 DEF FairFrame
<1>13. PICK ms : ms = Append(ls, f)
  OBVIOUS
<1>14. Sequence(ms) /\ \A k \in 1 .. Len(ms) : (\E m \in 1 .. Len(ls) : ms[k] = ls[m]) \/ ms[k] = f
  BY <1>1, <1>13, FramesPush DEF Coded
<1>15. Stored(pr, i, d)
  BY <1>1, <1>5 DEF Stored, Aggregates
<1>16. Coded(pr, i + 1, c \o t, ms)
  BY <1>1, <1>6, <1>8, <1>11, <1>12, <1>14, <1>15, CodeGrows
<1> QED BY <1>1, <1>5, <1>13, <1>16

\* The instructions behind a block.
LEMMA EndInstrs ==
  ASSUME LowerEnd
  PROVE  \E t : /\ code' = code \o t /\ Sequence(t)
                /\ \A x \in Range(t) :
                     /\ x.op # "MEMCPY_ODD" /\ x.b = Imm
                     /\ x.a = Imm \/ (Last(lstack).k = "for" /\ x.a = Last(lstack).idx)
<1>1. PICK c, f : c = code /\ f = Last(lstack)
  OBVIOUS
<1>2. PICK t : /\ code' = c \o t
               /\ t = CASE f.k = "arm"   -> ArmClosing(f)
                        [] f.k \in Loops -> LoopClosing(f)
                        [] OTHER         -> <<Label(f.last, lpos)>>
  BY <1>1 DEF LowerEnd, Emits
<1>4. PICK s1, s2, s3, s4, s5 :
        /\ s1 = Jump("JMP", Imm, lstack[Len(lstack) - 1].last) /\ s2 = Label(f.last, lpos + 1)
        /\ s3 = Op("ADD", f.idx, f.idx, Imm) /\ s4 = Jump("JMP", Imm, f.first) /\ s5 = Label(f.last, lpos)
  OBVIOUS
<1>5. /\ s1.op # "MEMCPY_ODD" /\ s2.op # "MEMCPY_ODD" /\ s3.op # "MEMCPY_ODD" /\ s4.op # "MEMCPY_ODD"
      /\ s5.op # "MEMCPY_ODD" /\ s1.a = Imm /\ s1.b = Imm /\ s2.a = Imm /\ s2.b = Imm /\ s4.a = Imm /\ s4.b = Imm
      /\ s5.a = Imm /\ s5.b = Imm /\ s3.a = f.idx /\ s3.b = Imm
  BY <1>4 DEF Jump, Label, Op, Instr
<1>6. Sequence(t) /\ Range(t) \subseteq {s1, s2, s3, s4, s5} /\ (s3 \in Range(t) => f.k = "for" \/ s3.a = Imm)
  <2>1. CASE f.k = "arm"
    <3>1. f.k \notin Loops
      BY <2>1 DEF Loops
    <3>2. t = <<s1, s2>>
      BY <1>2, <1>4, <2>1, <3>1 DEF ArmClosing
    <3>3. Sequence(t) /\ Range(t) = {s1, s2}
      BY <3>2, RangeShort
    <3> QED BY <1>5, <3>3
  <2>2. CASE f.k \in Loops
    <3>1. f.k # "arm"
      BY <2>2 DEF Loops
    <3>2. PICK u, w : u = (IF f.k = "for" THEN <<s3>> ELSE <<>>) /\ w = <<s4, s2>>
      OBVIOUS
    <3>3. t = u \o w
      BY <1>2, <1>4, <2>2, <3>1, <3>2 DEF LoopClosing
    <3>4. /\ Sequence(u) /\ Range(u) = (IF f.k = "for" THEN {s3} ELSE {})
          /\ Sequence(w) /\ Range(w) = {s4, s2}
      BY <3>2, RangeShort
    <3>5. Sequence(t) /\ Range(t) = Range(u) \cup Range(w)
      BY <3>3, <3>4, RangeCat
    <3> QED BY <1>5, <3>4, <3>5
  <2>3. CASE f.k # "arm" /\ f.k \notin Loops
    <3>1. t = <<s5>>
      BY <1>2, <1>4, <2>3
    <3>2. Sequence(t) /\ Range(t) = {s5}
      BY <3>1, RangeShort
    <3> QED BY <1>5, <3>2
  <2> QED BY <2>1, <2>2, <2>3
<1> QED BY <1>1, <1>2, <1>5, <1>6

LEMMA LowerEndCodes ==
  ASSUME lpos \in Nat \ {0}, Coded(prog, lpos, code, lstack), lstack # <<>>, LowerEnd, prog' = prog
  PROVE  Coded(prog, lpos, code, lstack)'
<1>1. PICK pr, i, c, ls, f : pr = prog /\ i = lpos /\ c = code /\ ls = lstack /\ f = Last(ls)
  OBVIOUS
<1>2. PICK t : /\ code' = c \o t /\ Sequence(t)
               /\ \A x \in Range(t) : x.b = Imm /\ (x.a = Imm \/ (f.k = "for" /\ x.a = f.idx))
  BY <1>1, EndInstrs
<1>3. pr[i].k = "end" /\ lstack' = Front(ls) /\ lpos' = i + 1
  BY <1>1 DEF LowerEnd, Lowers, Kind, Emits
<1>7. PICK d : d = c \o t
  OBVIOUS
<1>8. Fair(pr, i + 1, d, Imm)
  BY <1>1, FairOperands
<1>9. f.k = "for" => Fair(pr, i + 1, d, f.idx)
  <2>1. Len(ls) \in 1 .. Len(ls) /\ Last(ls) = ls[Len(ls)]
    BY <1>1, FramesPop DEF Coded
  <2>2. f.k = "for" => Fair(pr, i, c, f.idx)
    BY <1>1, <2>1 DEF Coded, FairFrame
  <2>3. Slots(c) \subseteq Slots(d)
    BY <1>1, <1>2, <1>7, RangeCat DEF Slots, Coded
  <2> QED BY <1>1, <2>2, <2>3, FairMore
<1>10. ASSUME NEW x \in Range(t)
       PROVE  Fair(pr, i + 1, d, x.a) /\ Fair(pr, i + 1, d, x.b)
  BY <1>2, <1>8, <1>9
<1>11. PICK ms : ms = Front(ls)
  OBVIOUS
<1>12. Sequence(ms) /\ \A k \in 1 .. Len(ms) : \E m \in 1 .. Len(ls) : ms[k] = ls[m]
  BY <1>1, <1>11, FramesPop DEF Coded
<1>13. Stored(pr, i, d)
  BY <1>3 DEF Stored, Aggregates
<1>14. /\ \A x \in Range(t) : Fair(pr, i + 1, c \o t, x.a) /\ Fair(pr, i + 1, c \o t, x.b)
       /\ \A k \in 1 .. Len(ms) : (\E m \in 1 .. Len(ls) : ms[k] = ls[m]) \/ FairFrame(pr, i + 1, c \o t, ms[k])
       /\ Stored(pr, i, c \o t)
  BY <1>7, <1>10, <1>12, <1>13
<1>15. i \in Nat \ {0} /\ Coded(pr, i, c, ls) /\ Sequence(t) /\ Sequence(ms)
  BY <1>1, <1>2, <1>12
<1>16. Coded(pr, i + 1, c \o t, ms)
  BY <1>14, <1>15, CodeGrows
<1> QED BY <1>1, <1>2, <1>3, <1>11, <1>16

LEMMA RangeLonger ==
  /\ \A x1, x2, x3, x4 :
       Sequence(<<x1, x2, x3, x4>>) /\ Range(<<x1, x2, x3, x4>>) = {x1, x2, x3, x4}
  /\ \A x1, x2, x3, x4, x5, x6 :
       /\ Sequence(<<x1, x2, x3, x4, x5, x6>>)
       /\ Range(<<x1, x2, x3, x4, x5, x6>>) = {x1, x2, x3, x4, x5, x6}
<1>1. ASSUME NEW x1, NEW x2, NEW x3, NEW x4
      PROVE  Sequence(<<x1, x2, x3, x4>>) /\ Range(<<x1, x2, x3, x4>>) = {x1, x2, x3, x4}
  <2>1. PICK s : s = <<x1, x2, x3, x4>>
    OBVIOUS
  <2>2. s \in Seq({x1, x2, x3, x4}) /\ DOMAIN s = {1, 2, 3, 4} /\ s[1] = x1 /\ s[2] = x2 /\ s[3] = x3 /\ s[4] = x4
    BY <2>1
  <2> QED BY <2>1, <2>2 DEF Sequence, Range
<1>2. ASSUME NEW x1, NEW x2, NEW x3, NEW x4, NEW x5, NEW x6
      PROVE  /\ Sequence(<<x1, x2, x3, x4, x5, x6>>)
             /\ Range(<<x1, x2, x3, x4, x5, x6>>) = {x1, x2, x3, x4, x5, x6}
  <2>1. PICK s : s = <<x1, x2, x3, x4, x5, x6>>
    OBVIOUS
  <2>2. /\ s \in Seq({x1, x2, x3, x4, x5, x6}) /\ DOMAIN s = {1, 2, 3, 4, 5, 6}
        /\ s[1] = x1 /\ s[2] = x2 /\ s[3] = x3 /\ s[4] = x4 /\ s[5] = x5 /\ s[6] = x6
    BY <2>1
  <2> QED BY <2>1, <2>2 DEF Sequence, Range
<1> QED BY <1>1, <1>2

\* The instructions before the body of a for.
LEMMA ForHeads ==
  ASSUME NEW y, NEW top, NEW out, NEW key, NEW val
  PROVE  LET t == ForHead(y, top, out, key, val) IN
         /\ Sequence(t)
         /\ \A x \in Range(t) :
              /\ x.a = Imm \/ x.a = y \/ \E z \in Range(t) : z.dst = x.a
              /\ x.b = Imm \/ \E z \in Range(t) : z.dst = x.b
         /\ \E z \in Range(t) : z.dst = Tmp(0)
         /\ \E z \in Range(t) : z.dst = val
         /\ key.name # None => \E z \in Range(t) : z.dst = key
         /\ \A x \in Range(t) : x.op # "MEMCPY_ODD"
<1>1. PICK t, t0, t1, t2, t3, t4, t5, t6 :
        /\ t = ForHead(y, top, out, key, val)
        /\ t0 = Tmp(0) /\ t1 = Tmp(1) /\ t2 = Tmp(2) /\ t3 = Tmp(3) /\ t4 = Tmp(4) /\ t5 = Tmp(5) /\ t6 = Tmp(6)
  OBVIOUS
<1>2. PICK s1, s2, s3, s4, s5, s6, s7, s8, s9, s10, s11 :
        /\ s1 = Op("COPY", t0, Imm, Imm) /\ s2 = Op("FIELD_ADDR", t2, y, Imm) /\ s3 = Op("LOAD", t1, t2, Imm)
        /\ s4 = Label(top, lpos) /\ s5 = Op("GTE", t3, t0, t1) /\ s6 = Jump("JIF", t3, out)
        /\ s7 = Op("COPY", key, t0, Imm) /\ s8 = Op("FIELD_ADDR", t5, y, Imm) /\ s9 = Op("LOAD", t4, t5, Imm)
        /\ s10 = Op("INDEX_ADDR", t6, t4, t0) /\ s11 = Op("LOAD", val, t6, Imm)
  OBVIOUS
<1>3. /\ s1.dst = t0 /\ s1.a = Imm /\ s1.b = Imm /\ s2.dst = t2 /\ s2.a = y /\ s2.b = Imm
      /\ s3.dst = t1 /\ s3.a = t2 /\ s3.b = Imm /\ s4.a = Imm /\ s4.b = Imm
      /\ s5.dst = t3 /\ s5.a = t0 /\ s5.b = t1 /\ s6.a = t3 /\ s6.b = Imm
      /\ s7.dst = key /\ s7.a = t0 /\ s7.b = Imm /\ s8.dst = t5 /\ s8.a = y /\ s8.b = Imm
      /\ s9.dst = t4 /\ s9.a = t5 /\ s9.b = Imm /\ s10.dst = t6 /\ s10.a = t4 /\ s10.b = t0
      /\ s11.dst = val /\ s11.a = t6 /\ s11.b = Imm
  BY <1>2 DEF Op, Jump, Label, Instr
<1>16. \A x \in {s1, s2, s3, s4, s5, s6, s7, s8, s9, s10, s11} : x.op # "MEMCPY_ODD"
  BY <1>2 DEF Op, Jump, Label, Instr
<1>4. PICK u, v, w : /\ u = <<s1, s2, s3, s4, s5, s6>> /\ v = (IF key.name = None THEN <<>> ELSE <<s7>>)
                     /\ w = <<s8, s9, s10, s11>>
  OBVIOUS
<1>5. t = (u \o v) \o w
  BY <1>1, <1>2, <1>4 DEF ForHead
<1>6. /\ Sequence(u) /\ Range(u) = {s1, s2, s3, s4, s5, s6}
      /\ Sequence(w) /\ Range(w) = {s8, s9, s10, s11}
  BY <1>4, RangeLonger
<1>7. Sequence(v) /\ Range(v) = IF key.name = None THEN {} ELSE {s7}
  BY <1>4, RangeShort
<1>8. Sequence(t) /\ Range(t) = Range(u) \cup Range(v) \cup Range(w)
  BY <1>5, <1>6, <1>7, RangeCat
<1>9. \A x \in Range(t) : x \in {s1, s2, s3, s4, s5, s6, s7, s8, s9, s10, s11}
  BY <1>6, <1>7, <1>8
<1>10. {s1, s2, s3, s4, s5, s6, s8, s9, s10, s11} \subseteq Range(t) /\ (key.name # None => s7 \in Range(t))
  BY <1>6, <1>7, <1>8
<1>11. PICK D : D = {z.dst : z \in Range(t)}
  OBVIOUS
<1>12. {t0, t1, t2, t3, t4, t5, t6, val} \subseteq D /\ (key.name # None => key \in D)
  BY <1>3, <1>10, <1>11
<1>13. \A x \in Range(t) : (x.a = Imm \/ x.a = y \/ x.a \in D) /\ (x.b = Imm \/ x.b \in D)
  BY <1>3, <1>9, <1>12
<1>14. \A e \in D : \E z \in Range(t) : z.dst = e
  BY <1>11
<1>15. /\ \A x \in Range(t) :
            /\ x.a = Imm \/ x.a = y \/ \E z \in Range(t) : z.dst = x.a
            /\ x.b = Imm \/ \E z \in Range(t) : z.dst = x.b
       /\ \E z \in Range(t) : z.dst = t0
       /\ \E z \in Range(t) : z.dst = val
       /\ key.name # None => \E z \in Range(t) : z.dst = key
  BY <1>12, <1>13, <1>14
<1>17. \A x \in Range(t) : x.op # "MEMCPY_ODD"
  BY <1>9, <1>16
<1> QED BY <1>1, <1>8, <1>15, <1>17

LEMMA LowerLoopCodes ==
  ASSUME lpos \in Nat \ {0}, Coded(prog, lpos, code, lstack), LowerLoop, prog' = prog,
         NEW B, lscope \in Seq(Seq(B))
  PROVE  Coded(prog, lpos, code, lstack)'
<1>1. PICK pr, i, c, ls, n : pr = prog /\ i = lpos /\ c = code /\ ls = lstack /\ n = prog[lpos]
  OBVIOUS
<1>2. PICK y, top, out, key, val, z :
        /\ y = Operand(lscope, n.y) /\ top = label_counter /\ out = label_counter + 1
        /\ key = Val(n.key, Decl("key", lpos)) /\ val = Val(n.x, Decl("node", lpos)) /\ z = Tmp(0)
  OBVIOUS
<1>3. PICK s1, s2, fh : s1 = Label(top, lpos) /\ s2 = Jump("JIFN", y, out) /\ fh = ForHead(y, top, out, key, val)
  OBVIOUS
<1>4. PICK t : t = CASE n.k = "while" -> <<s1, s2>>
                     [] n.k = "loop"  -> <<s1>>
                     [] n.k = "for"   -> fh
  OBVIOUS
<1>5. PICK f : f = Frame(n.k, top, out, z, Imm)
  OBVIOUS
<1>6. n.k \in Loops /\ code' = c \o t /\ lstack' = Append(ls, f) /\ lpos' = i + 1
  <2>1. n.k \in Loops /\ lpos' = i + 1
    BY <1>1 DEF LowerLoop, Lowers, Kind, Emits
  <2>2. code' = c \o (CASE n.k = "while" -> <<Label(label_counter, lpos), Jump("JIFN", Operand(lscope, n.y), label_counter + 1)>>
                        [] n.k = "loop"  -> <<Label(label_counter, lpos)>>
                        [] n.k = "for"   -> ForHead(Operand(lscope, n.y), label_counter, label_counter + 1,
                                                    Val(n.key, Decl("key", lpos)), Val(n.x, Decl("node", lpos))))
    BY <1>1, Zenon DEF LowerLoop, Emits
  <2>3. lstack' = Append(ls, Frame(n.k, label_counter, label_counter + 1, Tmp(0), Imm))
    BY <1>1, Zenon DEF LowerLoop
  <2>4. code' = c \o t
    BY <1>2, <1>3, <1>4, <2>2, Zenon
  <2> QED BY <1>2, <1>5, <2>1, <2>3, <2>4
<1>7. /\ s1.a = Imm /\ s1.b = Imm /\ s2.a = y /\ s2.b = Imm
  BY <1>3 DEF Jump, Label, Instr
<1>8. PICK D : D = {u.dst : u \in Range(t)}
  OBVIOUS
<1>9. /\ Sequence(t)
      /\ \A x \in Range(t) : (x.a = Imm \/ x.a = y \/ x.a \in D) /\ (x.b = Imm \/ x.b \in D)
      /\ n.k = "for" => z \in D /\ val \in D /\ (key.name # None => key \in D)
  <2>1. CASE n.k = "while"
    <3>1. t = <<s1, s2>>
      BY <1>4, <2>1
    <3>2. Sequence(t) /\ Range(t) = {s1, s2}
      BY <3>1, RangeShort
    <3> QED BY <1>7, <2>1, <3>2
  <2>2. CASE n.k = "loop"
    <3>1. t = <<s1>>
      BY <1>4, <2>2
    <3>2. Sequence(t) /\ Range(t) = {s1}
      BY <3>1, RangeShort
    <3> QED BY <1>7, <2>2, <3>2
  <2>3. CASE n.k = "for"
    <3>1. t = ForHead(y, top, out, key, val)
      BY <1>3, <1>4, <2>3
    <3>2. /\ Sequence(t)
          /\ \A x \in Range(t) :
               /\ x.a = Imm \/ x.a = y \/ \E u \in Range(t) : u.dst = x.a
               /\ x.b = Imm \/ \E u \in Range(t) : u.dst = x.b
          /\ \E u \in Range(t) : u.dst = z
          /\ \E u \in Range(t) : u.dst = val
          /\ key.name # None => \E u \in Range(t) : u.dst = key
      BY <1>2, <3>1, ForHeads
    <3>3. \A e : (\E u \in Range(t) : u.dst = e) <=> e \in D
      BY <1>8
    <3> QED BY <3>2, <3>3
  <2> QED BY <1>6, <2>1, <2>2, <2>3 DEF Loops
<1>10. PICK d : d = c \o t
  OBVIOUS
<1>11. \A e \in D : e.name \in Slots(d) /\ Fair(pr, i + 1, d, e)
  <2>1. ASSUME NEW e \in D
        PROVE  e.name \in Slots(d)
    <3>1. PICK u \in Range(t) : u.dst = e
      BY <1>8
    <3>2. u.dst.name \in Slots(d)
      BY <1>1, <1>9, <1>10, NewSlots DEF Coded
    <3> QED BY <3>1, <3>2
  <2> QED BY <2>1 DEF Fair
<1>12. Fair(pr, i + 1, d, Imm) /\ Fair(pr, i + 1, d, y)
  <2>1. pr[i].k \in Readers
    BY <1>1, <1>6 DEF Readers
  <2> QED BY <1>1, <1>2, <2>1, FairOperands
<1>13. \A x \in Range(t) : Fair(pr, i + 1, d, x.a) /\ Fair(pr, i + 1, d, x.b)
  BY <1>9, <1>11, <1>12
<1>14. FairFrame(pr, i + 1, d, f)
  <2>1. f.k = n.k /\ f.subj = Imm /\ f.idx = z
    BY <1>5 DEF Frame
  <2>2. n.k = "for" => Fair(pr, i + 1, d, z)
    BY <1>9, <1>11
  <2> QED BY <1>12, <2>1, <2>2 DEF FairFrame
<1>15. PICK ms : ms = Append(ls, f)
  OBVIOUS
<1>16. Sequence(ms) /\ \A k \in 1 .. Len(ms) : (\E m \in 1 .. Len(ls) : ms[k] = ls[m]) \/ ms[k] = f
  BY <1>1, <1>15, FramesPush DEF Coded
<1>17. Stored(pr, i, d)
  <2>1. n.k \notin {"var", "let", "string"} \cup Aggregates
    BY <1>6 DEF Loops, Aggregates
  <2>2. key.name = n.key /\ val.name = n.x
    BY <1>2 DEF Val
  <2>3. n.k = "for" => n.x \in Slots(d) /\ (n.key # None => n.key \in Slots(d))
    BY <1>9, <1>11, <2>2
  <2> QED BY <1>1, <2>1, <2>3 DEF Stored
<1>18. /\ \A x \in Range(t) : Fair(pr, i + 1, c \o t, x.a) /\ Fair(pr, i + 1, c \o t, x.b)
       /\ \A k \in 1 .. Len(ms) : (\E m \in 1 .. Len(ls) : ms[k] = ls[m]) \/ FairFrame(pr, i + 1, c \o t, ms[k])
       /\ Stored(pr, i, c \o t)
  BY <1>10, <1>13, <1>14, <1>16, <1>17
<1>19. i \in Nat \ {0} /\ Coded(pr, i, c, ls) /\ Sequence(t) /\ Sequence(ms)
  BY <1>1, <1>9, <1>16
<1>20. Coded(pr, i + 1, c \o t, ms)
  BY <1>18, <1>19, CodeGrows
<1> QED BY <1>1, <1>6, <1>15, <1>20

-----------------------------------------------------------------------------
(* The ends of the lowering *)

LEMMA Joined ==
  ASSUME NEW D, NEW s \in Seq(D), NEW t \in Seq(D)
  PROVE  /\ (s \o t) \in Seq(D) /\ Len(s \o t) = Len(s) + Len(t)
         /\ \A k \in 1 .. Len(s) : (s \o t)[k] = s[k]
         /\ \A k \in 1 .. Len(t) : (s \o t)[Len(s) + k] = t[k]
OBVIOUS

\* The procedure's scope is the one the checker began with.
LEMMA ProcMatch ==
  ASSUME NEW pr, NEW tc
  PROVE  LET ls == [p \in 1 .. Len(Params) |-> Val(Params[p], Decl("param", p))]
                     \o [o \in 1 .. Len(Outs) |-> Val(Outs[o], Decl("out", o))]
         IN  Match(pr, ProcScope, ls, tc) /\ Sequence(ls)
<1>1. PICK m, n : m = Len(Params) /\ n = Len(Outs)
  OBVIOUS
<1>2. m \in Nat /\ n \in Nat
  BY <1>1, TuplesAssumption
<1>3. PICK a, b, c, d :
        /\ a = [p \in 1 .. m |-> Symbol(Params[p], "let", Decl("param", p))]
        /\ b = [o \in 1 .. n |-> Symbol(Outs[o], "var", Decl("out", o))]
        /\ c = [p \in 1 .. m |-> Val(Params[p], Decl("param", p))]
        /\ d = [o \in 1 .. n |-> Val(Outs[o], Decl("out", o))]
  OBVIOUS
<1>4. (\A p \in 1 .. m : c[p] = Twin(a[p])) /\ (\A o \in 1 .. n : d[o] = Twin(b[o]))
  BY <1>3 DEF Twin, Symbol, Val
<1>5. PICK E : E = {a[p] : p \in 1 .. m} \cup {b[o] : o \in 1 .. n} \cup {c[p] : p \in 1 .. m} \cup {d[o] : o \in 1 .. n}
  OBVIOUS
<1>6. a \in Seq(E) /\ Len(a) = m
  BY <1>2, <1>3, <1>5
<1>7. b \in Seq(E) /\ Len(b) = n
  BY <1>2, <1>3, <1>5
<1>8. c \in Seq(E) /\ Len(c) = m
  BY <1>2, <1>3, <1>5
<1>9. d \in Seq(E) /\ Len(d) = n
  BY <1>2, <1>3, <1>5
<1>10. PICK cs, ls : cs = a \o b /\ ls = c \o d
  OBVIOUS
<1>11. Len(cs) = m + n /\ (\A k \in 1 .. m : cs[k] = a[k]) /\ (\A k \in 1 .. n : cs[m + k] = b[k])
  <2>0. a \in Seq(E) /\ b \in Seq(E)
    BY <1>6, <1>7
  <2>1. /\ (a \o b) \in Seq(E) /\ Len(a \o b) = Len(a) + Len(b)
        /\ \A k \in 1 .. Len(a) : (a \o b)[k] = a[k]
        /\ \A k \in 1 .. Len(b) : (a \o b)[Len(a) + k] = b[k]
    BY <2>0, Joined
  <2> QED BY <1>6, <1>7, <1>10, <2>1
<1>12. /\ ls \in Seq(E) /\ Len(ls) = m + n
       /\ (\A k \in 1 .. m : ls[k] = c[k]) /\ (\A k \in 1 .. n : ls[m + k] = d[k])
  <2>0. c \in Seq(E) /\ d \in Seq(E)
    BY <1>8, <1>9
  <2>1. /\ (c \o d) \in Seq(E) /\ Len(c \o d) = Len(c) + Len(d)
        /\ \A k \in 1 .. Len(c) : (c \o d)[k] = c[k]
        /\ \A k \in 1 .. Len(d) : (c \o d)[Len(c) + k] = d[k]
    BY <2>0, Joined
  <2> QED BY <1>8, <1>9, <1>10, <2>1
<1>13. ASSUME NEW k \in 1 .. m + n
       PROVE  ls[k] = Twin(cs[k])
  <2>1. CASE k \in 1 .. m
    BY <1>4, <1>11, <1>12, <2>1
  <2>2. CASE k \notin 1 .. m
    <3>1. PICK j \in 1 .. n : k = m + j
      <4>1. k - m \in 1 .. n /\ k = m + (k - m)
        BY <1>2, <2>2
      <4> QED BY <4>1
    <3> QED BY <1>4, <1>11, <1>12, <3>1
  <2> QED BY <2>1, <2>2
<1>14. Match(pr, cs, ls, tc)
  BY <1>11, <1>12, <1>13 DEF Match
<1>15. cs = ProcScope
  BY <1>1, <1>3, <1>10 DEF ProcScope
<1> QED BY <1>1, <1>3, <1>10, <1>12, <1>14, <1>15 DEF Sequence

\* lower_proc opens the procedure.
LEMMA LowerProcFollows ==
  ASSUME LowerProc, lscope = <<>>, lstack = <<>>, tmp_counter = 0, label_counter = 0,
         NEW H, H[1] = Begun
  PROVE  Following(H)'
<1>1. PICK ls, cs : /\ ls = [p \in 1 .. Len(Params) |-> Val(Params[p], Decl("param", p))]
                              \o [o \in 1 .. Len(Outs) |-> Val(Outs[o], Decl("out", o))]
                    /\ cs = ProcScope
  OBVIOUS
<1>2. /\ lscope' = Append(<<>>, ls) /\ lpos' = 1 /\ loop_exit' = LABEL_INVALID /\ lstack' = <<>>
      /\ tmp_counter' = 0 /\ label_counter' = 0
  BY <1>1 DEF LowerProc
<1>3. H[1].scope = <<FileScope, cs>> /\ H[1].loop = FALSE /\ H[1].saved = <<>>
  <2>1. PICK c : c = <<FileScope, cs>>
    OBVIOUS
  <2>2. H[1] = Walk(c, FALSE, <<>>)
    BY <1>1, <2>1 DEF Begun
  <2>3. H[1].scope = c /\ H[1].loop = FALSE /\ H[1].saved = <<>>
    BY <2>2 DEF Walk
  <2> QED BY <2>1, <2>3
<1>4. Simulates(prog', H[1].scope, Append(<<>>, ls), 0)
  <2>1. PICK m, c : m = Append(<<>>, ls) /\ c = <<FileScope, cs>>
    OBVIOUS
  <2>2. PICK A : ls \in Seq(A)
    BY <1>1, ProcMatch DEF Sequence
  <2>3. PICK D : D = Seq(A)
    OBVIOUS
  <2>4. m \in Seq(D) /\ Len(m) = 1 /\ m[1] = ls
    BY <2>1, <2>2, <2>3
  <2>5. Len(c) = 1 + 1 /\ c[1 + 1] = cs
    BY <2>1
  <2>6. Match(prog', cs, ls, 0)
    BY <1>1, ProcMatch
  <2>7. m \in Seq(Seq(A))
    BY <2>3, <2>4
  <2>8. \A s \in 1 .. 1 : Match(prog', c[s + 1], m[s], 0)
    <3>1. \A s \in 1 .. 1 : s = 1
      OBVIOUS
    <3> QED BY <2>4, <2>5, <2>6, <3>1
  <2>9. Simulates(prog', c, m, 0)
    BY <2>4, <2>5, <2>7, <2>8 DEF Simulates
  <2> QED BY <1>3, <2>1, <2>9
<1>5. Labelled(H[1], LABEL_INVALID, <<>>)
  <2>1. Len(<<>>) = 0 /\ 1 .. 0 = {}
    OBVIOUS
  <2>2. Sequence(<<>>)
    BY RangeShort
  <2> QED BY <1>3, <2>1, <2>2 DEF Labelled
<1>6. 0 \in Nat
  OBVIOUS
<1> QED BY <1>2, <1>4, <1>5, <1>6 DEF Following

\* The inputs are copied into their slots first.
LEMMA LowerProcCodes ==
  ASSUME LowerProc, code = <<>>, lstack = <<>>
  PROVE  Coded(prog, lpos, code, lstack)'
<1>1. PICK m : m = Len(Params)
  OBVIOUS
<1>2. m \in Nat /\ DOMAIN Params = 1 .. m
  BY <1>1, TuplesAssumption
<1>3. PICK ps : ps = [p \in 1 .. m |-> Val(Params[p], Decl("param", p))]
  OBVIOUS
<1>4. PICK t : t = [p \in 1 .. m |-> Op("PARAM", ps[p], Imm, Imm)]
  OBVIOUS
<1>5. code' = <<>> \o t /\ lstack' = <<>> /\ lpos' = 1
  BY <1>1, <1>3, <1>4 DEF LowerProc
<1>6. \A p \in 1 .. m : t[p].dst.name = Params[p] /\ t[p].a = Imm /\ t[p].b = Imm
  BY <1>3, <1>4 DEF Op, Instr, Val
<1>7. Sequence(t) /\ Range(t) = {t[p] : p \in 1 .. m}
  <2>1. PICK E : E = {t[p] : p \in 1 .. m}
    OBVIOUS
  <2>2. t \in Seq(E) /\ DOMAIN t = 1 .. m
    BY <1>2, <1>4, <2>1
  <2> QED BY <2>2 DEF Sequence, Range
<1>8. <<>> \o t = t
  BY <1>7 DEF Sequence
<1>9. \A x \in Range(t) : Fair(prog', 1, t, x.a) /\ Fair(prog', 1, t, x.b)
  <2>1. Imm.name = None
    BY DEF Imm, Val
  <2> QED BY <1>6, <1>7, <2>1 DEF Fair
<1>10. Range(Params) \subseteq Slots(t)
  <2>1. Range(Params) = {Params[p] : p \in 1 .. m}
    BY <1>2 DEF Range
  <2> QED BY <1>6, <1>7, <2>1 DEF Slots
<1>11. Coded(prog', 1, t, <<>>)
  <2>1. Len(<<>>) = 0 /\ 1 .. 0 = {} /\ 1 .. 1 - 1 = {}
    OBVIOUS
  <2>2. Sequence(<<>>)
    BY RangeShort
  <2> QED BY <1>7, <1>9, <1>10, <2>1, <2>2 DEF Coded
<1> QED BY <1>5, <1>8, <1>11

\* lower_proc closes it with the return of the first output.
LEMMA LowerRetCodes ==
  ASSUME NEW n \in Nat \ {0}, Coded(prog, n, code, lstack), LowerRet, prog' = prog,
         NEW B, lscope \in Seq(Seq(B))
  PROVE  Coded(prog, n, code, lstack)'
<1>1. PICK pr, c, ls : pr = prog /\ c = code /\ ls = lstack
  OBVIOUS
<1>2. PICK v, s, t : /\ v = IF Outs = <<>> THEN Imm ELSE Operand(lscope, Outs[1])
                     /\ s = Op("RET", Imm, v, Imm) /\ t = <<s>>
  OBVIOUS
<1>3. s.a = v /\ s.b = Imm
  BY <1>2 DEF Op, Instr
<1>4. Sequence(t) /\ Range(t) = {s}
  BY <1>2, RangeShort
<1>5. code' = Append(c, s) /\ lstack' = ls
  BY <1>1, <1>2 DEF LowerRet
<1>6. Append(c, s) = c \o t
  <2>1. PICK A : c \in Seq(A)
    BY <1>1 DEF Coded, Sequence
  <2>2. PICK D : D = A \cup {s}
    OBVIOUS
  <2>3. c \in Seq(D) /\ s \in D
    BY <2>1, <2>2
  <2> QED BY <1>2, <2>3
<1>7. PICK d : d = c \o t
  OBVIOUS
<1>8. Sequence(d) /\ Range(d) = Range(c) \cup {s}
  BY <1>1, <1>4, <1>7, RangeCat DEF Coded
<1>9. Slots(c) \subseteq Slots(d)
  BY <1>8 DEF Slots
<1>10. Fair(pr, n, d, Imm) /\ Fair(pr, n, d, v)
  <2>1. Imm.name = None
    BY DEF Imm, Val
  <2>2. CASE Outs = <<>>
    BY <1>2, <2>1, <2>2 DEF Fair
  <2>3. CASE Outs # <<>>
    <3>1. PICK w, o : o = Outs[1] /\ w = Operand(lscope, o)
      OBVIOUS
    <3>2. w.name = None \/ w.name = o
      BY <3>1, OperandNames
    <3>3. o \in Range(Outs)
      <4>1. 1 \in DOMAIN Outs
        BY <2>3, TuplesAssumption
      <4> QED BY <3>1, <4>1 DEF Range
    <3>4. v = w
      BY <1>2, <2>3, <3>1
    <3> QED BY <2>1, <3>2, <3>3, <3>4 DEF Fair
  <2> QED BY <2>2, <2>3
<1>11. \A x \in Range(d) : Fair(pr, n, d, x.a) /\ Fair(pr, n, d, x.b)
  <2>1. ASSUME NEW x \in Range(c)
        PROVE  Fair(pr, n, d, x.a) /\ Fair(pr, n, d, x.b)
    BY <1>1, <1>9, <2>1 DEF Coded, Fair
  <2> QED BY <1>3, <1>8, <1>10, <2>1
<1>12. /\ Sequence(ls) /\ Range(Params) \subseteq Slots(d)
       /\ \A k \in 1 .. Len(ls) : FairFrame(pr, n, d, ls[k])
  BY <1>1, <1>9 DEF Coded, FairFrame, Fair
<1>13. \A j \in 1 .. n - 1 : Stored(pr, j, d)
  BY <1>1, <1>9 DEF Coded, Stored
<1>14. Coded(pr, n, d, ls)
  BY <1>8, <1>11, <1>12, <1>13 DEF Coded
<1> QED BY <1>1, <1>5, <1>6, <1>7, <1>14

-----------------------------------------------------------------------------
(* What a later pass gives up on *)

\* What scope_lookup finds is in the chain, and has the name.
LEMMA LookupNames ==
  ASSUME NEW A, NEW c \in Seq(Seq(A)), NEW y, KnownIn(c, y)
  PROVE  \E s \in 1 .. Len(c) : \E e \in 1 .. Len(c[s]) :
           /\ LookupIn(c, y) = c[s][e] /\ c[s][e].name = y /\ c[s][e] \in A
           /\ \A t \in Holding(c, y) : t <= s
<1>1. Len(c) \in Nat /\ Holding(c, y) \in SUBSET Nat /\ Holding(c, y) # {}
      /\ \A s \in Holding(c, y) : s <= Len(c)
  BY DEF Holding, KnownIn
<1>2. Max(Holding(c, y)) \in Holding(c, y) /\ \A t \in Holding(c, y) : t <= Max(Holding(c, y))
  BY <1>1, MaxOf
<1>3. PICK s : s = Max(Holding(c, y))
  OBVIOUS
<1>4. s \in 1 .. Len(c) /\ \E e \in 1 .. Len(c[s]) : c[s][e].name = y
  BY <1>2, <1>3 DEF Holding
<1>5. PICK q, m : q = c[s] /\ m = Len(q)
  OBVIOUS
<1>6. q \in Seq(A) /\ m \in Nat
  BY <1>4, <1>5
<1>7. Entries(c, y) = {e \in 1 .. m : q[e].name = y}
  BY <1>3, <1>5 DEF Entries
<1>8. Entries(c, y) \in SUBSET Nat /\ Entries(c, y) # {} /\ \A e \in Entries(c, y) : e <= m
  <2>1. PICK e \in 1 .. m : q[e].name = y
    BY <1>4, <1>5
  <2>2. e \in Entries(c, y) /\ \A x \in Entries(c, y) : x \in 1 .. m
    BY <1>7, <2>1
  <2>3. \A x \in 1 .. m : x \in Nat /\ x <= m
    BY <1>6
  <2> QED BY <2>2, <2>3
<1>9. Max(Entries(c, y)) \in Entries(c, y)
  BY <1>6, <1>8, MaxOf
<1>10. PICK e : e = Max(Entries(c, y))
  OBVIOUS
<1>11. e \in 1 .. m /\ q[e].name = y /\ q[e] \in A
  <2>1. e \in 1 .. m /\ q[e].name = y
    BY <1>7, <1>9, <1>10
  <2> QED BY <1>5, <1>6, <2>1
<1>12. LookupIn(c, y) = q[e]
  BY <1>3, <1>5, <1>10 DEF LookupIn
<1> QED BY <1>2, <1>3, <1>4, <1>5, <1>11, <1>12

\* A name the code reads and nothing stores is one of the kinds of declaration
\* the back end does not compile.
LEMMA Unstored ==
  ASSUME NEW S, NEW H, NEW j \in 1 .. Len(prog), Shaped(prog, S, H, j),
         Nested(prog, S), NEW ls, Coded(prog, Len(prog) + 1, code, ls), NEW y, KnownIn(H[j].scope, y),
         y \notin Slots(code)
  PROVE  Uncompiled(LookupIn(H[j].scope, y).d)
<1>1. PICK pr, c, A : pr = prog /\ c = code /\ A = Symbols(pr, j)
  OBVIOUS
<1>2. H[j].scope \in Seq(Seq(A))
  BY <1>1 DEF Shaped
<1>3. PICK e : e = LookupIn(H[j].scope, y)
  OBVIOUS
<1>4. e \in A /\ e.name = y
  <2>1. \E t \in 1 .. Len(H[j].scope) : \E f \in 1 .. Len(H[j].scope[t]) :
          LookupIn(H[j].scope, y) = H[j].scope[t][f] /\ H[j].scope[t][f].name = y /\ H[j].scope[t][f] \in A
    BY <1>2, LookupNames
  <2> QED BY <1>3, <2>1
<1>5. Len(pr) \in Nat /\ j \in 1 .. Len(pr)
  BY <1>1 DEF Nested
<1>6. /\ Range(Params) \subseteq Slots(c) /\ y \notin Slots(c)
      /\ \A k \in 1 .. j - 1 : Stored(pr, k, c)
  <2>1. \A k \in 1 .. j - 1 : k \in 1 .. Len(pr) + 1 - 1
    BY <1>5
  <2> QED BY <1>1, <2>1 DEF Coded
<1>7. CASE \E g \in 1 .. Len(Globals) : e = FileScope[g]
  <2>1. e.d[1] = "global"
    BY <1>7 DEF FileScope, Symbol, Decl
  <2> QED BY <1>3, <2>1 DEF Uncompiled
<1>8. CASE \E p \in 1 .. Len(Params) : e = Symbol(Params[p], "let", Decl("param", p))
  <2>1. y \in Range(Params)
    <3>1. DOMAIN Params = 1 .. Len(Params)
      BY TuplesAssumption
    <3> QED BY <1>4, <1>8, <3>1 DEF Symbol, Range
  <2> QED BY <1>6, <2>1
<1>9. CASE \E o \in 1 .. Len(Outs) : e = Symbol(Outs[o], "var", Decl("out", o))
  <2>1. e.d[1] = "out"
    BY <1>9 DEF Symbol, Decl
  <2> QED BY <1>3, <2>1 DEF Uncompiled
<1>10. CASE \E k \in 1 .. j - 1 : \E kind \in {"let", "var"} :
              pr[k].k \in Declarations \cup {"for", "arm"} /\ e = Symbol(pr[k].x, kind, Decl("node", k))
  <2>1. PICK k \in 1 .. j - 1 : \E kind \in {"let", "var"} :
              pr[k].k \in Declarations \cup {"for", "arm"} /\ e = Symbol(pr[k].x, kind, Decl("node", k))
    BY <1>10
  <2>2. e.d[1] = "node" /\ e.d[2] = k /\ e.name = pr[k].x
    BY <2>1 DEF Symbol, Decl
  <2>3. Stored(pr, k, c)
    BY <1>6
  <2>4. pr[k].k = "arm" \/ (pr[k].k \in {"var", "let"} /\ pr[k].y = None)
    BY <1>4, <1>6, <2>1, <2>2, <2>3 DEF Stored, Declarations, Aggregates
  <2> QED BY <1>1, <1>3, <2>2, <2>4 DEF Uncompiled, ArmField, Kind
<1>11. CASE \E k \in 1 .. j - 1 : pr[k].k = "for" /\ pr[k].key # None /\ e = Symbol(pr[k].key, "let", Decl("key", k))
  <2>1. PICK k \in 1 .. j - 1 : pr[k].k = "for" /\ pr[k].key # None /\ e = Symbol(pr[k].key, "let", Decl("key", k))
    BY <1>11
  <2>2. pr[k].key \in Slots(c)
    BY <1>6, <2>1 DEF Stored
  <2>3. e.name = pr[k].key
    BY <2>1 DEF Symbol
  <2> QED BY <1>4, <1>6, <2>2, <2>3
<1> QED BY <1>1, <1>4, <1>7, <1>8, <1>9, <1>10, <1>11 DEF Symbols

\* The copies the back end refuses are those of declarations of the text.
Refusals(pr, c) ==
  \A x \in Range(c) : x.op = "MEMCPY_ODD" =>
    \E j \in 1 .. Len(pr) : pr[j].k = "bytes" /\ pr[j].y = x.b.name

\* AbortsExplained of the body pr with the declarations bd, for the name w.
Explained(pr, bd, w) ==
  \/ \E i \in 1 .. Len(pr) :
       \/ pr[i].y = w /\ (Uncompiled(bd[i].y) \/ w = StringLit \/ pr[i].k = "bytes")
       \/ pr[i].x = w /\ pr[i].k = "assign" /\ Uncompiled(bd[i].x)
  \/ w \in Range(Outs)

LEMMA ExplainedStays ==
  ASSUME prog' = prog, bound' = bound, Explained(prog, bound, why')
  PROVE  AbortsExplained'
<1>1. CASE why' \in Range(Outs)
  BY <1>1 DEF AbortsExplained
<1>2. CASE why' \notin Range(Outs)
  <2>1. PICK i \in 1 .. Len(prog) : \/ /\ prog[i].y = why'
                                       /\ Uncompiled(bound[i].y) \/ why' = StringLit \/ prog[i].k = "bytes"
                                    \/ prog[i].x = why' /\ prog[i].k = "assign" /\ Uncompiled(bound[i].x)
    BY <1>2 DEF Explained
  <2>3. Uncompiled(bound[i].y) => Uncompiled(bound[i].y)'
    BY DEF Uncompiled, ArmField, Kind
  <2>4. Uncompiled(bound[i].x) => Uncompiled(bound[i].x)'
    BY DEF Uncompiled, ArmField, Kind
  <2>5. i \in Nodes'
    BY <2>1 DEF Nodes
  <2>6. \/ (prog[i].y = why /\ (Uncompiled(bound[i].y) \/ why = StringLit \/ Kind(i) = "bytes"))'
        \/ (prog[i].x = why /\ Kind(i) = "assign" /\ Uncompiled(bound[i].x))'
    BY <2>1, <2>3, <2>4 DEF Kind
  <2> QED BY <2>5, <2>6 DEF AbortsExplained
<1> QED BY <1>1, <1>2

\* lower_lval does not find what check_stmt found.
LEMMA AssignAborts ==
  ASSUME NEW S, NEW H, Ready(S, H), Accepts(prog[lpos], H[lpos], lpos, bound[lpos]),
         LowerAssign, lowered' = "abort"
  PROVE  Explained(prog, bound, why')
<1>1. PICK pr, i, l, tc, A :
           /\ pr = prog /\ i = lpos /\ l = lscope /\ tc = tmp_counter /\ i \in Nat \ {0}
           /\ Moves(pr[i], H[i], H[i + 1], i) /\ Simulates(pr, H[i].scope, l, tc) /\ tc \in Nat
           /\ H[i].scope \in Seq(Seq(A)) /\ A = Symbols(pr, i + 1) /\ Len(H[i].scope) >= 2 /\ l # <<>>
           /\ Sequence(H[i].scope)
  BY Readies
<1>2. PICK x, c, b : x = pr[i].x /\ c = H[i].scope /\ b = bound[i]
  OBVIOUS
<1>3. pr[i].k = "assign" /\ ~Found(l, x) /\ why' = x /\ i \in 1 .. Len(pr)
  BY <1>1, <1>2 DEF LowerAssign, Lowers, Kind, Nodes, Abort, Emits
<1>4. x \notin Unnamed
  <2>1. pr[i] \in Node
    BY <1>1, <1>3 DEF Ready, Nested
  <2> QED BY <1>2, <1>3, <2>1, AssignNames
<1>5. KnownIn(c, x) /\ b.x = LookupIn(c, x).d
  <2>1. ChecksIn(c, x) /\ b = [x |-> ResolveIn(c, x), y |-> ResolveIn(c, pr[i].y)]
    BY <1>1, <1>2, <1>3 DEF Accepts
  <2>2. b.x = ResolveIn(c, x)
    BY <2>1
  <2> QED BY <1>4, <2>1, <2>2 DEF ChecksIn, ResolveIn
<1>6. PICK s \in 1 .. Len(c) : \E e \in 1 .. Len(c[s]) :
           LookupIn(c, x) = c[s][e] /\ c[s][e].name = x /\ c[s][e] \in A
  <2>1. c \in Seq(Seq(A)) /\ KnownIn(c, x)
    BY <1>1, <1>2, <1>5
  <2> QED BY <2>1, LookupNames
<1>7. PICK e \in 1 .. Len(c[s]) : LookupIn(c, x) = c[s][e] /\ c[s][e].name = x
  BY <1>6
<1>8. PICK d : d = c[s][e].d
  OBVIOUS
<1>9. Uncompiled(d)
  <2>1. CASE s = 1
    <3>1. c[1] = FileScope
      BY <1>1, <1>2 DEF Ready, Shaped
    <3>2. e \in 1 .. Len(FileScope)
      BY <1>7, <2>1, <3>1
    <3>3. Len(FileScope) = Len(Globals)
      BY GlobalsAssumption DEF FileScope
    <3>4. FileScope[e].d[1] = "global"
      BY <3>2, <3>3 DEF FileScope, Symbol, Decl
    <3> QED BY <1>8, <2>1, <3>1, <3>4 DEF Uncompiled
  <2>2. CASE s # 1
    <3>1. PICK r \in 1 .. Len(l) : s = r + 1
      <4>1. Len(c) = Len(l) + 1 /\ Len(l) \in Nat
        BY <1>1, <1>2 DEF Simulates
      <4>2. s - 1 \in 1 .. Len(l) /\ s = s - 1 + 1
        BY <1>6, <2>2, <4>1
      <4> QED BY <4>2
    <3>2. Match(pr, c[s], l[r], tc)
      BY <1>1, <1>2, <3>1 DEF Simulates
    <3>3. ~(\E f \in 1 .. Len(l[r]) : l[r][f] = Twin(c[s][e]))
      <4>1. Twin(c[s][e]).name = x
        BY <1>7 DEF Twin, Val
      <4>2. ASSUME NEW f \in 1 .. Len(l[r]), l[r][f] = Twin(c[s][e])
            PROVE  FALSE
        <5>1. l[r][f].name = x
          BY <4>1, <4>2
        <5>2. r \in Holding(l, x)
          BY <3>1, <5>1 DEF Holding
        <5> QED BY <1>3, <5>2 DEF Found
      <4> QED BY <4>2
    <3>4. d[1] = "node" /\ pr[d[2]].k = "arm"
      BY <1>7, <1>8, <3>2, <3>3 DEF Match
    <3> QED BY <1>1, <3>4 DEF Uncompiled, ArmField, Kind
  <2> QED BY <2>1, <2>2
<1>10. Uncompiled(b.x)
  BY <1>5, <1>7, <1>8, <1>9
<1> QED BY <1>1, <1>2, <1>3, <1>10 DEF Explained

\* An accepted exit has a loop.
LEMMA ExitHasLoop ==
  ASSUME NEW S, NEW H, Ready(S, H), Accepts(prog[lpos], H[lpos], lpos, bound[lpos]), LowerExit
  PROVE  lowered' # "abort"
<1>1. H[lpos].loop = (loop_exit # LABEL_INVALID)
  BY DEF Ready, Following, Labelled
<1>2. prog[lpos].k = "exit" /\ lowered = "none"
  BY DEF LowerExit, Lowers, Kind
<1>3. H[lpos].loop
  BY <1>2 DEF Accepts
<1>4. loop_exit # LABEL_INVALID
  BY <1>1, <1>3
<1> QED BY <1>2, <1>4 DEF LowerExit, Emits

\* lower_expr does not take a string, where the text has one.
LEMMA StringAborts ==
  ASSUME LowerString
  PROVE  Explained(prog, bound, why')
<1>1. lpos \in 1 .. Len(prog) /\ prog[lpos].y = StringLit /\ why' = StringLit
  BY DEF LowerString, Abort, Nodes
<1> QED BY <1>1 DEF Explained

\* A name that is read and has no slot is explained.
LEMMA NameAborts ==
  ASSUME NEW S, NEW H, Nested(prog, S), Walked(prog, H, bound, Len(prog) + 1),
         Coded(prog, Len(prog) + 1, code, lstack), NEW p \in 1 .. Len(code), NEW v \in Operands(p),
         why' = v.name, v.name \notin Slots(code) \cup {None}
  PROVE  Explained(prog, bound, why')
<1>1. PICK pr, n, c, bd : pr = prog /\ n = Len(pr) /\ c = code /\ bd = bound
  OBVIOUS
<1>2. n \in Nat /\ DOMAIN c = 1 .. Len(c) /\ Len(c) \in Nat
  BY <1>1 DEF Nested, Coded, Sequence
<1>4. p \in 1 .. Len(c) /\ v \in {c[p].a, c[p].b} /\ why' = v.name /\ v.name \notin Slots(c) \cup {None}
  BY <1>1 DEF Operands
<1>5. Used(pr, n + 1, v.name) \/ v.name \in Range(Outs)
  <2>1. c[p] \in Range(c)
    BY <1>2, <1>4 DEF Range
  <2>2. Fair(pr, n + 1, c, v)
    BY <1>1, <1>4, <2>1 DEF Coded
  <2> QED BY <1>4, <2>2 DEF Fair
<1>6. CASE Used(pr, n + 1, v.name)
  <2>1. PICK w : w = v.name
    OBVIOUS
  <2>2. PICK j \in 1 .. n : \/ pr[j].k \in Readers /\ pr[j].y = w /\ w # Literal
                            \/ pr[j].k = "assign" /\ pr[j].x = w
    <3>1. \A j \in 1 .. (n + 1) - 1 : j \in 1 .. n
      BY <1>2
    <3>2. Used(pr, n + 1, w)
      BY <1>6, <2>1
    <3> QED BY <3>1, <3>2 DEF Used
  <2>3. Shaped(pr, S, H, j) /\ Accepts(pr[j], H[j], j, bd[j])
    <3>1. j \in 1 .. n + 1 - 1 /\ j \in 1 .. n + 1
      BY <1>2
    <3>2. Shaped(pr, S, H, j)
      BY <1>1, <3>1, WalkAll
    <3> QED BY <1>1, <3>1, <3>2 DEF Walked
  <2>4. PICK h, b : h = H[j].scope /\ b = bd[j]
    OBVIOUS
  <2>5. \A y : KnownIn(h, y) /\ y \notin Slots(c) => Uncompiled(LookupIn(h, y).d)
    BY <1>1, <2>3, <2>4, Unstored
  <2>8. CASE pr[j].y = w /\ w = StringLit
    BY <1>1, <1>4, <2>1, <2>8 DEF Explained
  <2>6. CASE pr[j].k \in Readers /\ pr[j].y = w /\ w # Literal /\ w # StringLit
    <3>1. ChecksIn(h, w) /\ b.y = ResolveIn(h, w)
      BY <2>3, <2>4, <2>6 DEF Accepts, Readers
    <3>2. KnownIn(h, w) /\ b.y = LookupIn(h, w).d
      BY <1>4, <2>1, <2>6, <3>1 DEF ChecksIn, ResolveIn, Unnamed
    <3>3. Uncompiled(b.y)
      BY <1>4, <2>1, <2>5, <3>2
    <3> QED BY <1>1, <1>4, <2>1, <2>4, <2>6, <3>3 DEF Explained
  <2>7. CASE pr[j].k = "assign" /\ pr[j].x = w
    <3>1. ChecksIn(h, w) /\ b.x = ResolveIn(h, w)
      BY <2>3, <2>4, <2>7 DEF Accepts
    <3>2. w \notin Unnamed
      <4>1. pr[j] \in Node
        BY <1>1 DEF Nested
      <4> QED BY <2>7, <4>1, AssignNames
    <3>3. KnownIn(h, w) /\ b.x = LookupIn(h, w).d
      BY <3>1, <3>2 DEF ChecksIn, ResolveIn
    <3>4. Uncompiled(b.x)
      BY <1>4, <2>1, <2>5, <3>3
    <3> QED BY <1>1, <1>4, <2>1, <2>4, <2>7, <3>4 DEF Explained
  <2> QED BY <2>2, <2>6, <2>7, <2>8
<1>7. CASE v.name \in Range(Outs)
  BY <1>1, <1>4, <1>7 DEF Explained
<1> QED BY <1>5, <1>6, <1>7

\* load_val stops at a name that has no slot, and IR_MEMCPY at a size.
LEMMA EmitAborts ==
  ASSUME NEW S, NEW H, Nested(prog, S), Walked(prog, H, bound, Len(prog) + 1),
         Coded(prog, Len(prog) + 1, code, lstack), Refusals(prog, code), Emit, emitted' = "abort"
  PROVE  Explained(prog, bound, why')
<1>1. PICK pr, n, c, bd : pr = prog /\ n = Len(pr) /\ c = code /\ bd = bound
  OBVIOUS
<1>2. n \in Nat /\ DOMAIN c = 1 .. Len(c) /\ Len(c) \in Nat
  BY <1>1 DEF Nested, Coded, Sequence
<1>3. Slotted \cup {None} = Slots(c) \cup {None}
  <2>1. Range(c) = {c[p] : p \in 1 .. Len(c)}
    BY <1>2 DEF Range
  <2> QED BY <1>1, <2>1 DEF Slotted, Slots
<1>4. PICK p : /\ p \in 1 .. Len(c) /\ p \in Unslotted \cup Refused
               /\ why' = IF c[p].a.name \notin Slots(c) \cup {None} THEN c[p].a.name ELSE c[p].b.name
  <2>1. Unslotted \cup Refused # {}
    BY DEF Emit
  <2>2. Unslotted \cup Refused \in SUBSET Nat
    BY <1>1, <1>2 DEF Unslotted, Refused
  <2>3. PICK p : p = Min(Unslotted \cup Refused)
    OBVIOUS
  <2>4. p \in Unslotted \cup Refused
    BY <2>1, <2>2, <2>3, MinOf
  <2>5. why' = IF c[p].a.name \notin Slots(c) \cup {None} THEN c[p].a.name ELSE c[p].b.name
    BY <1>1, <1>3, <2>1, <2>3 DEF Emit
  <2>6. p \in 1 .. Len(c)
    BY <1>1, <2>4 DEF Unslotted, Refused
  <2> QED BY <2>4, <2>5, <2>6
<1>8. CASE p \notin Unslotted
  <2>1. c[p].op = "MEMCPY_ODD"
    BY <1>1, <1>4, <1>8 DEF Refused
  <2>2. c[p].a.name \in Slots(c) \cup {None}
    BY <1>1, <1>3, <1>4, <1>8 DEF Unslotted, Operands
  <2>3. why' = c[p].b.name
    BY <1>4, <2>2
  <2>4. c[p] \in Range(c)
    BY <1>2, <1>4 DEF Range
  <2>5. \E j \in 1 .. Len(pr) : pr[j].k = "bytes" /\ pr[j].y = c[p].b.name
    BY <1>1, <2>1, <2>4 DEF Refusals
  <2> QED BY <1>1, <2>3, <2>5 DEF Explained
<1>9. CASE p \in Unslotted
  <2>1. PICK v \in {c[p].a, c[p].b} : why' = v.name /\ v.name \notin Slots(c) \cup {None}
    <3>1. \E v \in {c[p].a, c[p].b} : v.name \notin Slots(c) \cup {None}
      BY <1>1, <1>3, <1>9 DEF Unslotted, Operands
    <3> QED BY <1>4, <3>1
  <2>2. p \in 1 .. Len(code) /\ v \in Operands(p) /\ v.name \notin Slots(code) \cup {None}
    BY <1>1, <1>4, <2>1 DEF Operands
  <2> QED BY <2>1, <2>2, NameAborts
<1> QED BY <1>8, <1>9

-----------------------------------------------------------------------------
(* The passes together *)

Unbegun ==
  /\ lowered = "none" /\ lscope = <<>> /\ lstack = <<>> /\ code = <<>>
  /\ tmp_counter = 0 /\ label_counter = 0

\* The lowering of a body the checker walked as H.
Along(S, H) ==
  /\ Nested(prog, S) /\ Walked(prog, H, bound, Len(prog) + 1)
  /\ lowered = "none" /\ lpos # 0 =>
       lpos \in 1 .. Len(prog) + 1 /\ Following(H) /\ Coded(prog, lpos, code, lstack)
  /\ lowered = "ok" => Coded(prog, Len(prog) + 1, code, lstack)

PassesInv ==
  /\ NInv /\ CheckInv
  /\ verdict # "ok" => lpos = 0
  /\ lpos = 0 => Unbegun
  /\ lowered # "ok" => emitted = "none"
  /\ verdict = "ok" => parsed /\ \E S, H : Along(S, H)
  /\ Refusals(prog, code)
  /\ AbortsExplained

LEMMA InitPasses == Init => PassesInv
<1> SUFFICES ASSUME Init PROVE PassesInv
  OBVIOUS
<1>1. NInv
  BY ParseInitNInv DEF Init
<1>2. CheckInv
  BY CheckInitInv DEF Init
<1>3. verdict = "none" /\ lpos = 0 /\ emitted = "none" /\ lowered = "none"
  BY DEF Init, CheckInit, LowerInit
<1>4. Unbegun
  BY DEF Init, LowerInit, Unbegun
<1>5. Refusals(prog, code)
  <2>1. Range(code) = {}
    BY RangeShort DEF Init, LowerInit
  <2> QED BY <2>1 DEF Refusals
<1> QED BY <1>1, <1>2, <1>3, <1>4, <1>5 DEF PassesInv, AbortsExplained

LEMMA ParsePasses ==
  ASSUME PassesInv, Parse
  PROVE  PassesInv'
<1>1. ~parsed
  BY DEF Parse, ParseNext, ParseStmt, ParseOpen, ParseElse, ParseArm, ParseEnd, ParseDone, Room
<1>2. verdict = "none" /\ cpos = 0 /\ lpos = 0
  BY <1>1 DEF PassesInv, CheckInv
<1>3. NInv'
  BY ParseNInv DEF PassesInv, Parse
<1>4. verdict' = "none" /\ cpos' = 0 /\ lpos' = 0 /\ emitted' = emitted /\ lowered' = lowered
  BY <1>2 DEF Parse, checkVars, lowerVars
<1>5. CheckInv'
  <2>1. scope = <<FileScope>> /\ in_loop = FALSE /\ saved = <<>> /\ bound = <<>>
    BY <1>2 DEF PassesInv, CheckInv
  <2>2. scope' = scope /\ in_loop' = in_loop /\ saved' = saved /\ bound' = bound
    BY DEF Parse, checkVars
  <2>3. scope' = <<FileScope>> /\ in_loop' = FALSE /\ saved' = <<>> /\ bound' = <<>>
    BY <2>1, <2>2
  <2> QED BY <1>4, <2>3 DEF CheckInv, FileScope
<1>6. Unbegun'
  <2>1. Unbegun
    BY <1>2 DEF PassesInv
  <2> QED BY <2>1 DEF Unbegun, Parse, lowerVars
<1>7. lowered = "none" /\ emitted = "none"
  BY <1>2 DEF PassesInv, Unbegun
<1>8. AbortsExplained'
  BY <1>4, <1>7 DEF AbortsExplained
<1>9. Refusals(prog', code')
  <2>1. Range(code') = {}
    BY <1>6, RangeShort DEF Unbegun
  <2> QED BY <2>1 DEF Refusals
<1> QED BY <1>3, <1>4, <1>5, <1>6, <1>7, <1>8, <1>9 DEF PassesInv, Refusals

LEMMA CheckPasses ==
  ASSUME PassesInv, Check
  PROVE  PassesInv'
<1>1. verdict = "none" /\ parsed
  BY DEF Check, CheckNext, EnterProc, CheckDecl, CheckAssign, CheckExit, CheckOpen, CheckElse,
         CheckCase, CheckArm, CheckEnd, LeaveProc, At
<1>2. /\ prog' = prog /\ open' = open /\ parsed' = parsed /\ emitted' = emitted /\ lpos' = lpos /\ lowered' = lowered
      /\ lscope' = lscope /\ lstack' = lstack /\ code' = code
      /\ tmp_counter' = tmp_counter /\ label_counter' = label_counter
  BY DEF Check, parseVars, lowerVars
<1>3. lpos = 0 /\ Unbegun
  BY <1>1 DEF PassesInv
<1>4. NInv'
  <2>1. NInv
    BY DEF PassesInv
  <2> QED BY <1>2, <2>1 DEF NInv
<1>5. CheckInv'
  <2>1. prog \in Seq(Node)
    BY DEF PassesInv, NInv, Nested
  <2> QED BY <1>1, <1>2, <2>1, CheckStep DEF PassesInv, Check
<1>6. Unbegun'
  BY <1>2, <1>3 DEF Unbegun
<1>7. lowered = "none" /\ emitted = "none"
  BY <1>3 DEF PassesInv, Unbegun
<1>8. AbortsExplained'
  BY <1>2, <1>7 DEF AbortsExplained
<1>9. ASSUME verdict' = "ok"
      PROVE  \E S, H : Along(S, H)'
  <2>1. PICK S : Nested(prog, S)
    BY DEF PassesInv, NInv
  <2>2. PICK H : Walked(prog', H, bound', Len(prog') + 1)
    BY <1>5, <1>9 DEF CheckInv
  <2>3. Nested(prog', S) /\ lpos' = 0 /\ lowered' = "none"
    BY <1>2, <1>3, <1>7, <2>1
  <2>4. Along(S, H)'
    BY <2>2, <2>3 DEF Along
  <2> QED BY <2>4
<1>10. Refusals(prog', code')
  BY <1>2 DEF PassesInv
<1> QED BY <1>1, <1>2, <1>3, <1>4, <1>5, <1>6, <1>7, <1>8, <1>9, <1>10 DEF PassesInv, Refusals

\* lower_stmt at one node.
LowerNode ==
  \/ LowerDecl \/ LowerAssign \/ LowerExit \/ LowerIf \/ LowerElse \/ LowerLoop \/ LowerCase \/ LowerArm
  \/ LowerEnd \/ LowerString

LEMMA NodeSteps ==
  ASSUME LowerNode
  PROVE  /\ lowered = "none" /\ lpos \in 1 .. Len(prog) /\ lowered' \in {"none", "abort"}
         /\ lowered' = "none" => lpos' = lpos + 1
         /\ lowered' = "abort" => lpos' = lpos
         /\ lowered' = "abort" => LowerAssign \/ LowerExit \/ LowerString
         /\ lowered' # "abort" => ~LowerString
<1>1. lowered = "none" /\ lpos \in 1 .. Len(prog)
  BY DEF LowerNode, LowerDecl, LowerAssign, LowerExit, LowerIf, LowerElse, LowerLoop, LowerCase, LowerArm,
         LowerEnd, LowerString, Lowers, Nodes
<1>5. LowerString => lowered' = "abort" /\ lpos' = lpos
  BY DEF LowerString, Abort
<1>2. ASSUME LowerAssign
      PROVE  lowered' \in {"none", "abort"} /\ lpos' = IF lowered' = "none" THEN lpos + 1 ELSE lpos
  BY <1>1, <1>2 DEF LowerAssign, Emits, Abort
<1>3. ASSUME LowerExit
      PROVE  lowered' \in {"none", "abort"} /\ lpos' = IF lowered' = "none" THEN lpos + 1 ELSE lpos
  BY <1>1, <1>3 DEF LowerExit, Emits, Abort
<1>4. ASSUME LowerDecl \/ LowerIf \/ LowerElse \/ LowerLoop \/ LowerCase \/ LowerArm \/ LowerEnd
      PROVE  lowered' = "none" /\ lpos' = lpos + 1
  <2>1. lowered' = lowered /\ lpos' = lpos + 1
    <3>1. CASE LowerDecl
      BY <3>1 DEF LowerDecl, Emits
    <3>2. CASE LowerIf
      BY <3>2 DEF LowerIf, Emits
    <3>3. CASE LowerElse
      BY <3>3 DEF LowerElse, Emits
    <3>4. CASE LowerLoop
      BY <3>4 DEF LowerLoop, Emits
    <3>5. CASE LowerCase
      BY <3>5 DEF LowerCase, Emits
    <3>6. CASE LowerArm
      BY <3>6 DEF LowerArm, Emits
    <3>7. CASE LowerEnd
      BY <3>7 DEF LowerEnd, Emits
    <3> QED BY <1>4, <3>1, <3>2, <3>3, <3>4, <3>5, <3>6, <3>7
  <2> QED BY <1>1, <2>1
<1> QED BY <1>1, <1>2, <1>3, <1>4, <1>5 DEF LowerNode

LEMMA NodeFollows ==
  ASSUME NEW S, NEW H, Ready(S, H), LowerNode, lowered' # "abort", prog' = prog
  PROVE  Following(H)'
BY NodeSteps, LowerDeclFollows, LowerPlainFollows, LowerIfFollows, LowerElseFollows, LowerLoopFollows,
   LowerCaseFollows, LowerArmFollows, LowerEndFollows DEF LowerNode

LEMMA NodeCodes ==
  ASSUME NEW S, NEW H, Ready(S, H), Coded(prog, lpos, code, lstack), LowerNode, lowered' # "abort", prog' = prog
  PROVE  Coded(prog, lpos, code, lstack)'
<1>1. lpos \in Nat \ {0} /\ lpos \in 1 .. Len(prog) /\ Nested(prog, S)
  BY DEF Ready
<1>2. PICK l : l = lscope
  OBVIOUS
<1>3. PICK B : l \in Seq(Seq(B))
  BY <1>2 DEF Ready, Following, Simulates
<1>4. l # <<>>
  BY <1>2, Readies
<1>5. LowerArm \/ LowerEnd => lstack # <<>>
  <2>1. SUFFICES ASSUME LowerArm \/ LowerEnd PROVE lstack # <<>>
    OBVIOUS
  <2>2. prog[lpos].k \in {"arm", "end"}
    BY <2>1 DEF LowerArm, LowerEnd, Lowers, Kind
  <2>3. PICK s, n : s = S[lpos] /\ n = Len(s)
    OBVIOUS
  <2>4. s # <<>> /\ s \in Seq(Below(lpos - 1))
    <3>1. Stacked(prog, S, lpos)
      BY <1>1, StackAt
    <3> QED BY <2>2, <2>3, <3>1 DEF Stacked, Fits
  <2>5. n # 0
    BY <2>3, <2>4
  <2>6. Len(lstack) = n
    BY <2>3 DEF Ready, Following, Labelled, Shaped
  <2>7. Len(<<>>) = 0
    OBVIOUS
  <2> QED BY <2>5, <2>6, <2>7
<1>6. lscope \in Seq(Seq(B)) /\ lscope # <<>>
  BY <1>2, <1>3, <1>4
<1>7. CASE LowerDecl
  <2>1. prog[lpos] \in Node
    BY <1>1 DEF Nested
  <2> QED BY <1>1, <1>6, <1>7, <2>1, LowerDeclCodes
<1>8. CASE LowerAssign
  BY <1>1, <1>6, <1>8, LowerAssignCodes
<1>9. CASE LowerExit
  BY <1>1, <1>9, LowerExitCodes
<1>10. CASE LowerIf
  BY <1>1, <1>6, <1>10, LowerIfCodes
<1>11. CASE LowerElse
  BY <1>1, <1>11, LowerElseCodes
<1>12. CASE LowerLoop
  BY <1>1, <1>6, <1>12, LowerLoopCodes
<1>13. CASE LowerCase
  BY <1>1, <1>6, <1>13, LowerCaseCodes
<1>14. CASE LowerArm
  BY <1>1, <1>5, <1>14, LowerArmCodes
<1>15. CASE LowerEnd
  BY <1>1, <1>5, <1>15, LowerEndCodes
<1> QED BY <1>7, <1>8, <1>9, <1>10, <1>11, <1>12, <1>13, <1>14, <1>15, NodeSteps DEF LowerNode

\* The body of a declaration has a copy of such a size only if the text has.
LEMMA DeclRefuses ==
  ASSUME LowerDecl, lpos \in 1 .. Len(prog), prog[lpos] \in Node,
         NEW B, lscope \in Seq(Seq(B)), lscope # <<>>
  PROVE  \E t : /\ code' = code \o t /\ Sequence(t)
                /\ \A x \in Range(t) : x.op = "MEMCPY_ODD" =>
                     prog[lpos].k = "bytes" /\ prog[lpos].y = x.b.name
<1>1. PICK c, n : c = code /\ n = prog[lpos]
  OBVIOUS
<1>2. PICK v, y, p, s1, s2, s3, s4, s5 :
        /\ v = Val(n.x, Decl("node", lpos)) /\ y = Operand(Define(lscope, v), n.y) /\ p = Tmp(0)
        /\ s1 = Op("ALLOCA", v, Imm, Imm) /\ s2 = Op("STR_INIT", v, Imm, Imm) /\ s3 = Op("COPY", v, y, Imm)
        /\ s4 = Op("ADDR", p, v, Imm) /\ s5 = Op(IF n.k = "bytes" THEN "MEMCPY_ODD" ELSE "MEMCPY", Imm, p, y)
  OBVIOUS
<1>3. PICK t : t = IF n.y = None THEN <<>> ELSE IF n.k = "string" THEN <<s1, s2>>
                   ELSE IF n.k \in Aggregates THEN <<s1, s4, s5>> ELSE <<s3>>
  OBVIOUS
<1>4. code' = c \o t
  <2>1. code' = c \o (IF n.y = None THEN <<>> ELSE Initialise(n.k, v, y))
    BY <1>1, <1>2 DEF LowerDecl, Emits
  <2>2. Initialise(n.k, v, y) = IF n.k = "string" THEN <<s1, s2>>
                                ELSE IF n.k \in Aggregates THEN <<s1, s4, s5>> ELSE <<s3>>
    BY <1>2 DEF Initialise, Aggregates
  <2> QED BY <1>3, <2>1, <2>2
<1>5. /\ s1.op # "MEMCPY_ODD" /\ s2.op # "MEMCPY_ODD" /\ s3.op # "MEMCPY_ODD" /\ s4.op # "MEMCPY_ODD"
      /\ s5.op = "MEMCPY_ODD" => n.k = "bytes"
      /\ s5.b = y
  BY <1>2 DEF Op, Instr
<1>6. Sequence(t) /\ Range(t) \subseteq {s1, s2, s3, s4, s5}
  BY <1>3, RangeShort
<1>7. n.k = "bytes" => y.name = n.y
  <2>1. SUFFICES ASSUME n.k = "bytes" PROVE y.name = n.y
    OBVIOUS
  <2>2. PICK chain, D : chain = Define(lscope, v) /\ D = B \cup {v}
    OBVIOUS
  <2>3. lscope \in Seq(Seq(D)) /\ v \in D
    BY <2>2, Wider
  <2>4. chain \in Seq(Seq(D))
    BY <2>2, <2>3, Defines
  <2>5. n.y \notin Unnamed
    BY <1>1, <2>1, AggregateNames DEF Aggregates
  <2>6. y = IF Found(chain, n.y) THEN lscope_find(chain, n.y) ELSE Val(n.y, Decl("global", n.y))
    BY <1>2, <2>2, <2>5 DEF Operand
  <2>7. Found(chain, n.y) => lscope_find(chain, n.y).name = n.y
    BY <2>4, FindNames
  <2> QED BY <2>6, <2>7 DEF Val
<1> QED BY <1>1, <1>4, <1>5, <1>6, <1>7

\* The other statements have none.
LEMMA PlainRefuses ==
  ASSUME LowerNode, ~LowerDecl, lowered' # "abort"
  PROVE  \E t : /\ code' = code \o t /\ Sequence(t)
                /\ \A x \in Range(t) : x.op # "MEMCPY_ODD"
<1> DEFINE Plain(t) == Sequence(t) /\ \A x \in Range(t) : x.op # "MEMCPY_ODD"
<1>1. Plain(<<>>)
  BY RangeShort
<1>2. \A s : s.op # "MEMCPY_ODD" => Plain(<<s>>)
  <2>1. ASSUME NEW s, s.op # "MEMCPY_ODD"
        PROVE  Plain(<<s>>)
    <3>1. Sequence(<<s>>) /\ Range(<<s>>) = {s}
      BY RangeShort
    <3> QED BY <2>1, <3>1
  <2> QED BY <2>1
<1>3. \A r, s : r.op # "MEMCPY_ODD" /\ s.op # "MEMCPY_ODD" => Plain(<<r, s>>)
  BY RangeShort
<1>4. /\ \A o, v, a, b : Op(o, v, a, b).op = o
      /\ \A o, a, l : Jump(o, a, l).op = o
      /\ \A l, n : Label(l, n).op = "LABEL"
  BY DEF Op, Jump, Label, Instr
<1> HIDE DEF Plain
<1>5. CASE LowerAssign
  <2>1. ~Abort(prog[lpos].x)
    BY DEF Abort
  <2>2. PICK x, y : code' = code \o <<Op("ADDR", Tmp(0), x, Imm), Op("STORE", Imm, Tmp(0), y)>>
    BY <1>5, <2>1, Zenon DEF LowerAssign, Emits
  <2>3. Plain(<<Op("ADDR", Tmp(0), x, Imm), Op("STORE", Imm, Tmp(0), y)>>)
    BY <1>3, <1>4
  <2> QED BY <2>2, <2>3 DEF Plain
<1>6. CASE LowerExit
  <2>1. ~Abort("exit")
    BY DEF Abort
  <2>2. code' = code \o <<Jump("JMP", Imm, loop_exit)>>
    BY <1>6, <2>1, Zenon DEF LowerExit, Emits
  <2>3. Plain(<<Jump("JMP", Imm, loop_exit)>>)
    BY <1>2, <1>4
  <2> QED BY <2>2, <2>3 DEF Plain
<1>7. CASE LowerIf
  <2>1. PICK y, l : code' = code \o <<Jump("JIFN", y, l)>>
    BY <1>7, Zenon DEF LowerIf, Emits
  <2>2. Plain(<<Jump("JIFN", y, l)>>)
    BY <1>2, <1>4
  <2> QED BY <2>1, <2>2 DEF Plain
<1>8. CASE LowerElse
  <2>1. PICK l, m : code' = code \o <<Jump("JMP", Imm, l), Label(m, lpos + 1)>>
    BY <1>8, Zenon DEF LowerElse, Emits
  <2>2. Plain(<<Jump("JMP", Imm, l), Label(m, lpos + 1)>>)
    BY <1>3, <1>4
  <2> QED BY <2>1, <2>2 DEF Plain
<1>9. CASE LowerLoop
  <2>1. PICK n, y, top, out, key, val :
          /\ n.k \in Loops
          /\ code' = code \o (CASE n.k = "while" -> <<Label(top, lpos), Jump("JIFN", y, out)>>
                              [] n.k = "loop"  -> <<Label(top, lpos)>>
                              [] n.k = "for"   -> ForHead(y, top, out, key, val))
    <3>1. prog[lpos].k \in Loops
      BY <1>9 DEF LowerLoop, Lowers, Kind
    <3> QED BY <1>9, <3>1, Zenon DEF LowerLoop, Emits
  <2>2. Plain(<<Label(top, lpos), Jump("JIFN", y, out)>>) /\ Plain(<<Label(top, lpos)>>)
    BY <1>2, <1>3, <1>4
  <2>3. Plain(ForHead(y, top, out, key, val))
    BY ForHeads DEF Plain
  <2> QED BY <2>1, <2>2, <2>3 DEF Loops, Plain
<1>10. CASE LowerCase
  <2>1. code' = code \o <<>>
    BY <1>10, Zenon DEF LowerCase, Emits
  <2> QED BY <1>1, <2>1 DEF Plain
<1>11. CASE LowerArm
  <2>1. PICK s : code' = code \o <<>> \/ code' = code \o <<Op("EQ", Tmp(0), s, Imm), Jump("JIFN", Tmp(0), label_counter)>>
    BY <1>11, Zenon DEF LowerArm, Emits
  <2>2. Plain(<<Op("EQ", Tmp(0), s, Imm), Jump("JIFN", Tmp(0), label_counter)>>)
    BY <1>3, <1>4
  <2> QED BY <1>1, <2>1, <2>2 DEF Plain
<1>12. CASE LowerEnd
  BY <1>12, EndInstrs
<1> QED BY <1>5, <1>6, <1>7, <1>8, <1>9, <1>10, <1>11, <1>12, NodeSteps DEF LowerNode

\* What is added to code keeps what it refuses.
LEMMA RefusesMore ==
  ASSUME NEW c, NEW t, Sequence(c), Sequence(t), Refusals(prog, c), lpos \in 1 .. Len(prog),
         \A x \in Range(t) : x.op = "MEMCPY_ODD" => prog[lpos].k = "bytes" /\ prog[lpos].y = x.b.name
  PROVE  Refusals(prog, c \o t)
<1>1. Range(c \o t) = Range(c) \cup Range(t)
  BY RangeCat
<1> QED BY <1>1 DEF Refusals

LEMMA ProcRefuses ==
  ASSUME LowerProc, code = <<>>
  PROVE  Refusals(prog, code')
<1>1. PICK m : m = Len(Params)
  OBVIOUS
<1>2. m \in Nat
  BY <1>1, TuplesAssumption
<1>3. PICK f : code' = <<>> \o [p \in 1 .. m |-> Op("PARAM", f[p], Imm, Imm)]
  <2>1. PICK f : f = [p \in 1 .. m |-> Val(Params[p], Decl("param", p))]
    OBVIOUS
  <2> QED BY <1>1, <2>1 DEF LowerProc
<1>4. PICK t, E : t = [p \in 1 .. m |-> Op("PARAM", f[p], Imm, Imm)] /\ E = {t[p] : p \in 1 .. m}
  OBVIOUS
<1>5. t \in Seq(E) /\ DOMAIN t = 1 .. m
  BY <1>2, <1>4
<1>6. <<>> \o t = t /\ Range(t) = {t[p] : p \in 1 .. m}
  BY <1>5 DEF Range
<1>7. \A p \in 1 .. m : t[p].op = "PARAM"
  BY <1>4 DEF Op, Instr
<1> QED BY <1>3, <1>4, <1>6, <1>7 DEF Refusals

LEMMA RetRefuses ==
  ASSUME LowerRet, Sequence(code), Refusals(prog, code)
  PROVE  Refusals(prog, code')
<1>1. PICK v, s : s = Op("RET", Imm, v, Imm) /\ code' = Append(code, s)
  <2>1. PICK v : v = IF Outs = <<>> THEN Imm ELSE Operand(lscope, Outs[1])
    OBVIOUS
  <2> QED BY <2>1 DEF LowerRet
<1>2. Append(code, s) = code \o <<s>>
  <2>1. PICK A : code \in Seq(A)
    BY DEF Sequence
  <2>2. PICK B : B = A \cup {s}
    OBVIOUS
  <2>3. code \in Seq(B) /\ s \in B
    BY <2>1, <2>2
  <2> QED BY <2>3
<1>3. Sequence(<<s>>) /\ Range(<<s>>) = {s}
  BY RangeShort
<1>4. Range(code') = Range(code) \cup {s}
  <2>1. code' = code \o <<s>>
    BY <1>1, <1>2
  <2>2. Range(code \o <<s>>) = Range(code) \cup Range(<<s>>)
    BY <1>3, RangeCat
  <2> QED BY <1>3, <2>1, <2>2
<1>5. s.op = "RET"
  BY <1>1 DEF Op, Instr
<1> QED BY <1>4, <1>5 DEF Refusals

\* At a node the lowering is ready for it.
LEMMA AtNode ==
  ASSUME NEW S, NEW H, Along(S, H), lowered = "none", lpos # 0, lpos \in 1 .. Len(prog)
  PROVE  Ready(S, H) /\ lscope # <<>> /\ \E B : lscope \in Seq(Seq(B))
<1>1. /\ Nested(prog, S) /\ Walked(prog, H, bound, Len(prog) + 1) /\ Len(prog) \in Nat
      /\ Following(H)
  BY DEF Along, Nested
<1>2. PICK pr, n, i, bd : pr = prog /\ n = Len(pr) + 1 /\ i = lpos /\ bd = bound
  OBVIOUS
<1>3. i \in 1 .. n - 1 /\ i \in 1 .. n
  BY <1>1, <1>2
<1>4. Moves(pr[i], H[i], H[i + 1], i)
  BY <1>1, <1>2, <1>3 DEF Walked
<1>5. Shaped(pr, S, H, i) /\ Entered(pr, S, H, i)
  BY <1>1, <1>2, <1>3, WalkAll
<1>6. Ready(S, H)
  BY <1>1, <1>2, <1>4, <1>5 DEF Ready
<1>7. lscope # <<>>
  BY <1>6, Readies
<1>8. \E B : lscope \in Seq(Seq(B))
  BY <1>1 DEF Following, Simulates
<1> QED BY <1>6, <1>7, <1>8

\* Every step of the lowering keeps it.
LEMMA LowerRefuses ==
  ASSUME PassesInv, Lower
  PROVE  Refusals(prog, code')
<1>1. LowerNext /\ Refusals(prog, code)
  BY DEF Lower, PassesInv
<1>2. PICK S, H : Along(S, H)
  BY DEF Lower, PassesInv
<1>3. Nested(prog, S) /\ Len(prog) \in Nat
  BY <1>2 DEF Along, Nested
<1>4. lpos # 0 /\ lowered = "none" => Sequence(code)
  BY <1>2 DEF Along, Coded
<1>5. CASE LowerProc
  <2>1. code = <<>>
    BY <1>5 DEF LowerProc, PassesInv, Unbegun
  <2> QED BY <1>5, <2>1, ProcRefuses
<1>6. CASE LowerRet
  <2>1. lpos # 0 /\ lowered = "none"
    BY <1>3, <1>6 DEF LowerRet
  <2> QED BY <1>1, <1>4, <1>6, <2>1, RetRefuses
<1>7. CASE LowerNode /\ lowered' = "abort"
  <2>1. LowerAssign \/ LowerExit \/ LowerString
    BY <1>7, NodeSteps
  <2>2. lowered = "none"
    BY <1>7, NodeSteps
  <2>3. code' = code
    BY <1>7, <2>1, <2>2 DEF LowerAssign, LowerExit, LowerString, Emits, Abort
  <2> QED BY <1>1, <2>3
<1>8. CASE LowerNode /\ lowered' # "abort"
  <2>1. lpos \in 1 .. Len(prog) /\ lowered = "none" /\ lpos # 0
    <3>1. lpos \in 1 .. Len(prog) /\ lowered = "none"
      BY <1>8, NodeSteps
    <3> QED BY <1>3, <3>1
  <2>2. Sequence(code) /\ prog[lpos] \in Node
    BY <1>3, <1>4, <2>1 DEF Nested
  <2>3. PICK t : /\ code' = code \o t /\ Sequence(t)
                 /\ \A x \in Range(t) : x.op = "MEMCPY_ODD" =>
                      prog[lpos].k = "bytes" /\ prog[lpos].y = x.b.name
    <3>1. CASE LowerDecl
      <4>1. lscope # <<>> /\ \E B : lscope \in Seq(Seq(B))
        BY <1>2, <2>1, AtNode
      <4>2. PICK B : lscope \in Seq(Seq(B))
        BY <4>1
      <4> QED BY <2>1, <2>2, <3>1, <4>1, <4>2, DeclRefuses
    <3>2. CASE ~LowerDecl
      BY <1>8, <3>2, PlainRefuses
    <3> QED BY <3>1, <3>2
  <2> QED BY <1>1, <2>1, <2>2, <2>3, RefusesMore
<1> QED BY <1>1, <1>5, <1>6, <1>7, <1>8 DEF LowerNext, LowerNode

LEMMA LowerPasses ==
  ASSUME PassesInv, Lower
  PROVE  PassesInv'
<1>1. verdict = "ok" /\ parsed /\ LowerNext
  BY DEF Lower, PassesInv
<1>2. /\ prog' = prog /\ open' = open /\ parsed' = parsed /\ emitted' = emitted
      /\ verdict' = verdict /\ cpos' = cpos /\ scope' = scope /\ in_loop' = in_loop /\ saved' = saved /\ bound' = bound
  BY DEF Lower, parseVars, checkVars
<1>3. NInv' /\ CheckInv'
  <2>1. NInv /\ CheckInv
    BY DEF PassesInv
  <2> QED BY <1>2, <2>1 DEF NInv, CheckInv, FileScope
<1>4. PICK S, H : Along(S, H)
  BY <1>1 DEF PassesInv
<1>5. /\ Nested(prog, S) /\ Walked(prog, H, bound, Len(prog) + 1) /\ Len(prog) \in Nat
  BY <1>4 DEF Along, Nested
<1>6. LowerProc \/ LowerNode \/ LowerRet
  BY <1>1 DEF LowerNext, LowerNode
<1>7. lowered = "none"
  BY <1>6, NodeSteps DEF LowerProc, LowerRet
<1>8. emitted = "none" /\ emitted' = "none"
  BY <1>2, <1>7 DEF PassesInv
<1>12. Refusals(prog', code')
  BY <1>2, LowerRefuses
<1>9. CASE LowerProc
  <2>1. lpos = 0 /\ Unbegun /\ lpos' = 1 /\ lowered' = "none"
    BY <1>7, <1>9 DEF LowerProc, PassesInv
  <2>2. Following(H)'
    BY <1>5, <1>9, <2>1, LowerProcFollows DEF Unbegun, Walked
  <2>3. Coded(prog, lpos, code, lstack)'
    BY <1>9, <2>1, LowerProcCodes DEF Unbegun
  <2>4. Nested(prog', S) /\ Walked(prog', H, bound', Len(prog') + 1) /\ lpos' \in 1 .. Len(prog') + 1
    BY <1>2, <1>5, <2>1
  <2>5. Along(S, H)'
    BY <2>1, <2>2, <2>3, <2>4 DEF Along
  <2>6. AbortsExplained'
    BY <1>8, <2>1 DEF AbortsExplained
  <2> QED BY <1>1, <1>2, <1>3, <1>8, <2>1, <2>5, <2>6, <1>12 DEF PassesInv, Refusals
<1>10. CASE LowerNode
  <2>1. lpos \in 1 .. Len(prog) /\ lpos # 0
    BY <1>10, NodeSteps
  <2>2. Following(H) /\ Coded(prog, lpos, code, lstack)
    BY <1>4, <1>7, <2>1 DEF Along
  <2>3. Accepts(prog[lpos], H[lpos], lpos, bound[lpos]) /\ Ready(S, H)
    <3>1. PICK pr, n, i, bd : pr = prog /\ n = Len(pr) + 1 /\ i = lpos /\ bd = bound
      OBVIOUS
    <3>2. i \in 1 .. n - 1 /\ i \in 1 .. n
      BY <1>5, <2>1, <3>1
    <3>3. Accepts(pr[i], H[i], i, bd[i]) /\ Moves(pr[i], H[i], H[i + 1], i)
      BY <1>5, <3>1, <3>2 DEF Walked
    <3>4. Shaped(pr, S, H, i) /\ Entered(pr, S, H, i)
      BY <1>5, <3>1, <3>2, WalkAll
    <3> QED BY <1>5, <2>1, <2>2, <3>1, <3>3, <3>4 DEF Ready
  <2>4. Nested(prog', S) /\ Walked(prog', H, bound', Len(prog') + 1)
    BY <1>2, <1>5
  <2>5. lpos' # 0
    <3>1. lpos' \in {lpos, lpos + 1}
      BY <1>10, NodeSteps
    <3> QED BY <2>1, <3>1
  <2>6. CASE lowered' = "abort"
    <3>1. Explained(prog, bound, why')
      BY <1>10, <2>3, <2>6, NodeSteps, AssignAborts, ExitHasLoop, StringAborts
    <3>2. AbortsExplained'
      BY <1>2, <3>1, ExplainedStays
    <3>3. Along(S, H)'
      BY <2>4, <2>6 DEF Along
    <3> QED BY <1>1, <1>2, <1>3, <1>8, <2>5, <2>6, <3>2, <3>3, <1>12 DEF PassesInv, Refusals
  <2>7. CASE lowered' # "abort"
    <3>1. lowered' = "none" /\ lpos' = lpos + 1
      BY <1>10, <2>7, NodeSteps
    <3>2. Following(H)'
      BY <1>2, <1>10, <2>3, <2>7, NodeFollows
    <3>3. Coded(prog, lpos, code, lstack)'
      BY <1>2, <1>10, <2>2, <2>3, <2>7, NodeCodes
    <3>4. lpos' \in 1 .. Len(prog') + 1
      BY <1>2, <1>5, <2>1, <3>1
    <3>5. Along(S, H)'
      BY <2>4, <3>1, <3>2, <3>3, <3>4 DEF Along
    <3>6. AbortsExplained'
      BY <1>8, <3>1 DEF AbortsExplained
    <3> QED BY <1>1, <1>2, <1>3, <1>8, <2>5, <3>1, <3>5, <3>6, <1>12 DEF PassesInv, Refusals
  <2> QED BY <2>6, <2>7
<1>11. CASE LowerRet
  <2>1. lpos = Len(prog) + 1 /\ lowered' = "ok" /\ lpos' = lpos /\ lpos # 0
    BY <1>5, <1>11 DEF LowerRet
  <2>2. Following(H) /\ Coded(prog, lpos, code, lstack)
    BY <1>4, <1>7, <2>1 DEF Along
  <2>3. PICK l, n : l = lscope /\ n = lpos
    OBVIOUS
  <2>4. PICK B : l \in Seq(Seq(B))
    BY <2>2, <2>3 DEF Following, Simulates
  <2>5. Coded(prog, n, code, lstack)'
    <3>1. n \in Nat \ {0} /\ Coded(prog, n, code, lstack) /\ lscope \in Seq(Seq(B))
      BY <1>5, <2>1, <2>2, <2>3, <2>4
    <3> QED BY <1>2, <1>11, <3>1, LowerRetCodes
  <2>6. Coded(prog', Len(prog') + 1, code', lstack')
    BY <1>2, <2>1, <2>3, <2>5
  <2>7. Along(S, H)'
    BY <1>2, <1>5, <2>1, <2>6 DEF Along
  <2>8. AbortsExplained'
    BY <1>8, <2>1 DEF AbortsExplained
  <2> QED BY <1>1, <1>2, <1>3, <1>8, <2>1, <2>7, <2>8, <1>12 DEF PassesInv, Refusals
<1> QED BY <1>6, <1>9, <1>10, <1>11

LEMMA EmitPasses ==
  ASSUME PassesInv, Emit
  PROVE  PassesInv'
<1>1. lowered = "ok" /\ emitted' \in {"ok", "abort"}
  BY DEF Emit
<1>2. verdict = "ok" /\ parsed /\ lpos # 0
  BY <1>1 DEF PassesInv, Unbegun
<1>3. /\ prog' = prog /\ open' = open /\ parsed' = parsed
      /\ verdict' = verdict /\ cpos' = cpos /\ scope' = scope /\ in_loop' = in_loop /\ saved' = saved /\ bound' = bound
      /\ lowered' = lowered /\ lpos' = lpos /\ lstack' = lstack /\ code' = code
  BY DEF Emit, parseVars, checkVars
<1>4. NInv' /\ CheckInv'
  <2>1. NInv /\ CheckInv
    BY DEF PassesInv
  <2> QED BY <1>3, <2>1 DEF NInv, CheckInv, FileScope
<1>5. PICK S, H : Along(S, H)
  BY <1>2 DEF PassesInv
<1>6. Nested(prog, S) /\ Walked(prog, H, bound, Len(prog) + 1) /\ Coded(prog, Len(prog) + 1, code, lstack)
  BY <1>1, <1>5 DEF Along
<1>7. Along(S, H)'
  BY <1>1, <1>3, <1>6 DEF Along
<1>8. AbortsExplained'
  <2>1. CASE emitted' = "abort"
    <3>1. Explained(prog, bound, why')
      BY <1>6, <2>1, EmitAborts DEF PassesInv
    <3> QED BY <1>3, <3>1, ExplainedStays
  <2>2. CASE emitted' = "ok"
    BY <1>1, <1>3, <2>2 DEF AbortsExplained
  <2> QED BY <1>1, <2>1, <2>2
<1>9. Refusals(prog', code')
  BY <1>3 DEF PassesInv
<1> QED BY <1>1, <1>2, <1>3, <1>4, <1>7, <1>8, <1>9 DEF PassesInv, Refusals

\* Running changes nothing the passes left.
LEMMA StillPasses ==
  ASSUME PassesInv, UNCHANGED <<parseVars, checkVars, lowerVars, emitted>>
  PROVE  PassesInv'
<1>1. /\ prog' = prog /\ open' = open /\ parsed' = parsed
      /\ verdict' = verdict /\ cpos' = cpos /\ scope' = scope /\ in_loop' = in_loop /\ saved' = saved /\ bound' = bound
  BY DEF parseVars, checkVars
<1>2. /\ lowered' = lowered /\ why' = why /\ lpos' = lpos /\ lscope' = lscope /\ loop_exit' = loop_exit
      /\ lstack' = lstack /\ code' = code /\ tmp_counter' = tmp_counter /\ label_counter' = label_counter
      /\ emitted' = emitted
  BY DEF lowerVars
<1>3. NInv' /\ CheckInv'
  <2>1. NInv /\ CheckInv
    BY DEF PassesInv
  <2> QED BY <1>1, <2>1 DEF NInv, CheckInv, FileScope
<1>4. lpos = 0 => Unbegun'
  <2>1. lpos = 0 => Unbegun
    BY DEF PassesInv
  <2> QED BY <1>2, <2>1 DEF Unbegun
<1>5. verdict = "ok" => parsed /\ \E S, H : Along(S, H)'
  <2>1. ASSUME NEW S, NEW H, Along(S, H)
        PROVE  Along(S, H)'
    BY <1>1, <1>2, <2>1 DEF Along, Following
  <2> QED BY <2>1 DEF PassesInv
<1>6. AbortsExplained'
  <2>1. CASE lowered = "abort" \/ emitted = "abort"
    <3>1. Explained(prog, bound, why)
      BY <2>1 DEF PassesInv, AbortsExplained, Explained, Nodes, Kind
    <3>2. Explained(prog, bound, why')
      BY <1>2, <3>1
    <3> QED BY <1>1, <3>2, ExplainedStays
  <2>2. CASE ~(lowered = "abort" \/ emitted = "abort")
    BY <1>2, <2>2 DEF AbortsExplained
  <2> QED BY <2>1, <2>2
<1>7. Refusals(prog', code')
  BY <1>1, <1>2 DEF PassesInv
<1> QED BY <1>1, <1>2, <1>3, <1>4, <1>5, <1>6, <1>7 DEF PassesInv, Refusals

\* In every state the parser's blocks are nested, what check_proc accepted is a
\* walk over the body, and the lowering, the scopes, labels and code it has
\* built so far, follows that walk.
THEOREM PassesInvariance == Spec => []PassesInv
<1>1. Init => PassesInv
  BY InitPasses
<1>2. PassesInv /\ [Next]_vars => PassesInv'
  <2> SUFFICES ASSUME PassesInv, [Next]_vars PROVE PassesInv'
    OBVIOUS
  <2>1. CASE Parse
    BY <2>1, ParsePasses
  <2>2. CASE Check
    BY <2>2, CheckPasses
  <2>3. CASE Lower
    BY <2>3, LowerPasses
  <2>4. CASE Emit
    BY <2>4, EmitPasses
  <2>5. CASE Run
    BY <2>5, StillPasses DEF Run
  <2>6. CASE Halt \/ UNCHANGED vars
    <3>1. UNCHANGED <<parseVars, checkVars, lowerVars, emitted>>
      BY <2>6 DEF Halt, vars
    <3> QED BY <3>1, StillPasses
  <2> QED BY <2>1, <2>2, <2>3, <2>4, <2>5, <2>6 DEF Next
<1> QED BY <1>1, <1>2, PTL DEF Spec

\* A pass gives up on an accepted body only over a declaration of the kinds the
\* back end does not compile (lower_lval, ir.c; load_val, ir_codegen.c), a string
\* that is no initialiser (lower_expr, ir.c 493), or the copy of an aggregate that
\* is no number of words (emit_instr, ir_codegen.c 403): an exit always finds its
\* loop, and every other name that is read has a slot.
THEOREM AbortsAreExplained == Spec => []AbortsExplained
<1>1. PassesInv => AbortsExplained
  BY DEF PassesInv
<1> QED BY <1>1, PassesInvariance, PTL

-----------------------------------------------------------------------------
(* One declaration of a name in a block *)

\* No scope of the procedure has two entries of a name.
Apart(q) == \A e, f \in 1 .. Len(q) : q[e].name = q[f].name /\ q[e].name # None => e = f
Distinct(c) == \A s \in 2 .. Len(c) : Apart(c[s])

LEMMA DistinctDefine ==
  ASSUME NEW A, NEW c \in Seq(Seq(A)), Len(c) >= 2, NEW e \in A, Distinct(c),
         e.name # None => \A k \in 1 .. Len(c[Len(c)]) : c[Len(c)][k].name # e.name
  PROVE  Distinct(Define(c, e))
<1>1. PICK d, n : d = Define(c, e) /\ n = Len(c)
  OBVIOUS
<1>2. n \in Nat /\ n >= 2 /\ n \in 1 .. n /\ c # <<>>
  BY <1>1
<1>3. PICK q : q = c[n]
  OBVIOUS
<1>4. q \in Seq(A) /\ Len(q) \in Nat
  BY <1>1, <1>2, <1>3
<1>5. Len(d) = n /\ (\A k \in 1 .. n - 1 : d[k] = c[k]) /\ d[n] = Append(q, e)
  BY <1>1, <1>2, <1>3, Defines
<1>6. PICK t, m : t = Append(q, e) /\ m = Len(q)
  OBVIOUS
<1>7. m \in Nat /\ Len(t) = m + 1 /\ t[m + 1] = e /\ \A k \in 1 .. m : t[k] = q[k]
  BY <1>4, <1>6, Stacks
<1>8. Apart(q) /\ (e.name # None => \A k \in 1 .. m : q[k].name # e.name)
  BY <1>1, <1>2, <1>3, <1>6 DEF Distinct
<1>9. Apart(t)
  <2>1. \A k : k \in 1 .. m + 1 <=> k \in 1 .. m \/ k = m + 1
    BY <1>7
  <2>2. ASSUME NEW k \in 1 .. m + 1, NEW j \in 1 .. m + 1, t[k].name = t[j].name, t[k].name # None
        PROVE  k = j
    <3>1. CASE k \in 1 .. m /\ j \in 1 .. m
      BY <1>6, <1>7, <1>8, <2>2, <3>1 DEF Apart
    <3>2. CASE k = m + 1
      BY <1>7, <1>8, <2>1, <2>2, <3>2
    <3>3. CASE j = m + 1
      BY <1>7, <1>8, <2>1, <2>2, <3>3
    <3> QED BY <2>1, <3>1, <3>2, <3>3
  <2> QED BY <1>7, <2>2 DEF Apart
<1>10. ASSUME NEW s \in 2 .. n
       PROVE  Apart(d[s])
  <2>1. CASE s = n
    BY <1>5, <1>6, <1>9, <2>1
  <2>2. CASE s # n
    <3>1. s \in 1 .. n - 1
      BY <1>2, <2>2
    <3> QED BY <1>1, <1>5, <3>1 DEF Distinct
  <2> QED BY <2>1, <2>2
<1> QED BY <1>1, <1>5, <1>10 DEF Distinct

LEMMA DistinctPush ==
  ASSUME NEW A, NEW c \in Seq(Seq(A)), NEW q \in Seq(A), Distinct(c), Apart(q)
  PROVE  Distinct(Append(c, q))
<1>1. PICK d, n : d = Append(c, q) /\ n = Len(c)
  OBVIOUS
<1>2. n \in Nat /\ Len(d) = n + 1 /\ d[n + 1] = q /\ \A k \in 1 .. n : d[k] = c[k]
  BY <1>1
<1>3. ASSUME NEW s \in 2 .. n + 1
      PROVE  Apart(d[s])
  <2>1. CASE s = n + 1
    BY <1>2, <2>1
  <2>2. CASE s # n + 1
    <3>1. s \in 2 .. n /\ s \in 1 .. n
      BY <1>2, <2>2
    <3> QED BY <1>1, <1>2, <3>1 DEF Distinct
  <2> QED BY <2>1, <2>2
<1> QED BY <1>1, <1>2, <1>3 DEF Distinct

LEMMA DistinctPop ==
  ASSUME NEW A, NEW c \in Seq(Seq(A)), c # <<>>, Distinct(c)
  PROVE  Distinct(Front(c))
<1>1. PICK d, n : d = Front(c) /\ n = Len(c)
  OBVIOUS
<1>2. PICK B : B = Seq(A)
  OBVIOUS
<1>3. c \in Seq(B)
  BY <1>2
<1>4. n \in Nat /\ Len(d) = n - 1 /\ \A k \in 1 .. n - 1 : d[k] = c[k]
  BY <1>1, <1>3, FrontOf
<1>5. \A s \in 2 .. n - 1 : s \in 2 .. n /\ s \in 1 .. n - 1
  BY <1>4
<1> QED BY <1>1, <1>4, <1>5 DEF Distinct

\* x was bound before node i in the block that begins at the last of nodes B.
BoundIn(B, i, x) ==
  \/ \E j \in 1 .. i - 1 : x \in Binds(j) /\ Home(j) = B
  \/ B = {} /\ x \in Range(Params) \cup Range(Outs)

Inner(s) == {s[k].b : k \in 1 .. Len(s)}

\* The innermost scope before node i is that of the innermost block of s, which
\* a case, having no scope, has not.
Housed(s, c, i) ==
  (s = <<>> \/ Kind(Last(s).b) # "case") =>
    \A e \in 1 .. Len(c[Len(c)]) :
      c[Len(c)][e].name # None => BoundIn(Inner(s), i, c[Len(c)][e].name)

\* What holds of a body that keeps its declarations apart, before node i.
Sorted(S, H, i) == Distinct(H[i].scope) /\ Housed(S[i], H[i].scope, i)

LEMMA BoundLater ==
  ASSUME NEW B, NEW i \in Nat, NEW k \in Nat, i <= k, NEW x, BoundIn(B, i, x)
  PROVE  BoundIn(B, k, x)
<1>1. \A j \in 1 .. i - 1 : j \in 1 .. k - 1
  OBVIOUS
<1> QED BY <1>1 DEF BoundIn

LEMMA SortedDecl ==
  ASSUME NEW S, NEW H, Nested(prog, S), NEW i \in 1 .. Len(prog), DistinctInBlock,
         Moves(prog[i], H[i], H[i + 1], i), prog[i].k \in Declarations,
         Shaped(prog, S, H, i), Sorted(S, H, i)
  PROVE  Sorted(S, H, i + 1)
<1>1. PICK c, s, n : c = H[i].scope /\ s = S[i] /\ n = Len(c)
  OBVIOUS
<1>2. PICK e : e = Symbol(prog[i].x, IF prog[i].k = "let" THEN "let" ELSE "var", Decl("node", i))
  OBVIOUS
<1>3. e.name = prog[i].x
  BY <1>2 DEF Symbol
<1>4. PICK A : A = Symbols(prog, i) \cup {e}
  OBVIOUS
<1>5. c \in Seq(Seq(A)) /\ n >= 2 /\ e \in A
  <2>1. c \in Seq(Seq(Symbols(prog, i))) /\ n >= 2
    BY <1>1 DEF Shaped
  <2>2. Symbols(prog, i) \subseteq A
    BY <1>4
  <2> QED BY <1>4, <2>1, <2>2, Wider
<1>6. H[i + 1].scope = Define(c, e)
  <2>1. H[i + 1] = Walk(Define(c, e), H[i].loop, H[i].saved)
    BY <1>1, <1>2 DEF Moves
  <2> QED BY <2>1, Walks
<1>7. Kind(i) = prog[i].k /\ Kind(i) \notin Openers \cup {"else", "end"} /\ Kind(i) \notin {"for", "arm"}
  BY DEF Kind, Declarations, Openers, Loops
<1>8. S[i + 1] = s /\ (s = <<>> \/ Kind(Last(s).b) # "case")
  <2>1. Stacked(prog, S, i)
    BY StackAt
  <2>2. prog[i].k # "end" /\ prog[i].k # "arm"
    BY <1>7
  <2>3. S[i + 1] = s
    BY <1>1, <1>7, <2>1 DEF Stacked
  <2>4. s # <<>> => prog[Last(s).b].k # "case"
    BY <1>1, <2>1, <2>2 DEF Stacked, Fits
  <2> QED BY <2>3, <2>4 DEF Kind
<1>9. Home(i) = Inner(s)
  <2>1. Blocks(i) = Inner(s)
    BY <1>1, <1>7, BlocksAre DEF Inner
  <2> QED BY <1>7, <2>1 DEF Home
<1>10. PICK q, m : q = c[n] /\ m = Len(q)
  OBVIOUS
<1>11. q \in Seq(A) /\ m \in Nat /\ n \in Nat /\ n \in 1 .. n /\ c # <<>>
  <2>1. PICK D : D = Seq(A)
    OBVIOUS
  <2>2. c \in Seq(D)
    BY <1>5, <2>1
  <2>3. n \in Nat /\ c # <<>>
    BY <1>1, <1>5, <2>2
  <2>4. n \in 1 .. n
    BY <1>5, <2>3
  <2>5. q \in D
    BY <1>1, <1>10, <2>2, <2>4
  <2> QED BY <1>10, <2>1, <2>3, <2>4, <2>5
<1>12. \A k \in 1 .. m : q[k].name # None => BoundIn(Inner(s), i, q[k].name)
  BY <1>1, <1>8, <1>10 DEF Sorted, Housed
<1>13. Binds(i) = {prog[i].x} \ {None}
  BY <1>7 DEF Binds
<1>14. i \in Nodes
  BY DEF Nodes
<1>15. ASSUME NEW k \in 1 .. m, e.name # None
       PROVE  q[k].name # e.name
  <2>1. SUFFICES ASSUME q[k].name = e.name PROVE FALSE
    OBVIOUS
  <2>2. BoundIn(Inner(s), i, e.name) /\ e.name \in Binds(i)
    BY <1>3, <1>12, <1>13, <1>15, <2>1
  <2>3. \A j \in 1 .. i - 1 : Home(i) = Home(j) => Binds(i) \cap Binds(j) = {}
    BY <1>14 DEF DistinctInBlock
  <2>4. Home(i) = {} => Binds(i) \cap (Range(Params) \cup Range(Outs)) = {}
    BY <1>14 DEF DistinctInBlock
  <2> QED BY <1>9, <2>2, <2>3, <2>4 DEF BoundIn
<1>16. Distinct(Define(c, e))
  <2>1. Distinct(c)
    BY <1>1 DEF Sorted
  <2> QED BY <1>1, <1>5, <1>10, <1>15, <2>1, DistinctDefine
<1>17. PICK d, t : d = Define(c, e) /\ t = Append(q, e)
  OBVIOUS
<1>18. Len(d) = n /\ d[n] = t
  <2>1. c \in Seq(Seq(A)) /\ c # <<>> /\ e \in A
    BY <1>5, <1>11
  <2>2. Len(Define(c, e)) = Len(c) /\ Define(c, e)[Len(c)] = Append(c[Len(c)], e)
    BY <2>1, Defines
  <2> QED BY <1>1, <1>10, <1>17, <2>2
<1>19. Len(t) = m + 1 /\ t[m + 1] = e /\ \A k \in 1 .. m : t[k] = q[k]
  <2>1. q \in Seq(A) /\ e \in A
    BY <1>5, <1>11
  <2> QED BY <1>10, <1>17, <2>1, Stacks
<1>20. ASSUME NEW k \in 1 .. m + 1, t[k].name # None
       PROVE  BoundIn(Inner(s), i + 1, t[k].name)
  <2>1. CASE k = m + 1
    <3>1. t[k].name \in Binds(i) /\ i \in 1 .. (i + 1) - 1
      BY <1>3, <1>13, <1>19, <1>20, <2>1
    <3> QED BY <1>9, <3>1 DEF BoundIn
  <2>2. CASE k # m + 1
    <3>1. k \in 1 .. m
      BY <1>11, <2>2
    <3>2. BoundIn(Inner(s), i, t[k].name)
      BY <1>12, <1>19, <1>20, <3>1
    <3> QED BY <3>2, BoundLater
  <2> QED BY <2>1, <2>2
<1>21. Housed(s, d, i + 1)
  BY <1>18, <1>19, <1>20 DEF Housed
<1> QED BY <1>6, <1>8, <1>16, <1>17, <1>21 DEF Sorted

LEMMA SortedPlain ==
  ASSUME NEW S, NEW H, Nested(prog, S), NEW i \in 1 .. Len(prog),
         Moves(prog[i], H[i], H[i + 1], i), prog[i].k \in {"assign", "exit"}, Sorted(S, H, i)
  PROVE  Sorted(S, H, i + 1)
<1>1. PICK c, s : c = H[i].scope /\ s = S[i]
  OBVIOUS
<1>2. H[i + 1].scope = c
  BY <1>1 DEF Moves
<1>3. S[i + 1] = s
  <2>1. Stacked(prog, S, i)
    BY StackAt
  <2> QED BY <1>1, <2>1 DEF Stacked, Openers, Loops
<1>4. Distinct(c) /\ Housed(s, c, i)
  BY <1>1 DEF Sorted
<1>5. Housed(s, c, i + 1)
  <2>1. i \in Nat /\ i + 1 \in Nat /\ i <= i + 1
    OBVIOUS
  <2>2. \A x : BoundIn(Inner(s), i, x) => BoundIn(Inner(s), i + 1, x)
    BY <2>1, BoundLater
  <2> QED BY <1>4, <2>2 DEF Housed
<1> QED BY <1>2, <1>3, <1>4, <1>5 DEF Sorted

\* The blocks behind an opening node.
LEMMA InnerOpen ==
  ASSUME NEW A, NEW s \in Seq(A), NEW x \in A
  PROVE  Inner(Append(s, x)) = Inner(s) \cup {x.b} /\ Append(s, x) # <<>> /\ Last(Append(s, x)) = x
<1>1. PICK t, n : t = Append(s, x) /\ n = Len(s)
  OBVIOUS
<1>2. /\ t \in Seq(A) /\ n \in Nat /\ Len(t) = n + 1 /\ t[n + 1] = x /\ Last(t) = x
      /\ \A k \in 1 .. n : t[k] = s[k]
  BY <1>1, Stacks
<1>3. \A k : k \in 1 .. n + 1 <=> k \in 1 .. n \/ k = n + 1
  BY <1>2
<1>4. Inner(t) = Inner(s) \cup {x.b}
  BY <1>1, <1>2, <1>3 DEF Inner
<1>5. t # <<>>
  <2>1. Len(<<>>) = 0
    OBVIOUS
  <2> QED BY <1>2, <2>1
<1> QED BY <1>1, <1>2, <1>4, <1>5

LEMMA ShortSequences ==
  /\ <<>> \o <<>> = <<>> /\ Len(<<>>) = 0
  /\ \A x : <<x>> \o <<>> = <<x>> /\ <<>> \o <<x>> = <<x>>
  /\ \A x, y : <<x>> \o <<y>> = <<x, y>>
  /\ \A q, x : q = <<x>> => q[1] = x /\ 1 .. Len(q) = {1}
  /\ \A q, x, y : q = <<x, y>> => q[1] = x /\ q[2] = y /\ 1 .. Len(q) = {1, 2}
<1>1. <<>> \o <<>> = <<>> /\ Len(<<>>) = 0
  OBVIOUS
<1>2. ASSUME NEW x
      PROVE  <<x>> \o <<>> = <<x>> /\ <<>> \o <<x>> = <<x>>
  <2>1. PICK s, A : s = <<x>> /\ A = {x}
    OBVIOUS
  <2>2. s \in Seq(A)
    BY <2>1
  <2>4. s \o <<>> = s /\ <<>> \o s = s
    BY <2>2
  <2> QED BY <2>1, <2>4
<1>3. ASSUME NEW x, NEW y
      PROVE  <<x>> \o <<y>> = <<x, y>>
  <2>1. PICK s, t, A : s = <<x>> /\ t = <<y>> /\ A = {x, y}
    OBVIOUS
  <2>2. s \in Seq(A) /\ t \in Seq(A) /\ Len(s) = 1 /\ Len(t) = 1 /\ s[1] = x /\ t[1] = y
    BY <2>1
  <2>3. PICK u : u = s \o t
    OBVIOUS
  <2>4. u \in Seq(A) /\ Len(u) = 2 /\ u[1] = x /\ u[2] = y
    BY <2>2, <2>3, Joined
  <2>5. u = <<x, y>>
    BY <2>4
  <2> QED BY <2>1, <2>3, <2>5
<1>4. ASSUME NEW q, NEW x, q = <<x>>
      PROVE  q[1] = x /\ 1 .. Len(q) = {1}
  <2>1. Len(q) = 1 /\ q[1] = x
    BY <1>4
  <2> QED BY <2>1
<1>5. ASSUME NEW q, NEW x, NEW y, q = <<x, y>>
      PROVE  q[1] = x /\ q[2] = y /\ 1 .. Len(q) = {1, 2}
  <2>1. Len(q) = 2 /\ q[1] = x /\ q[2] = y
    BY <1>5
  <2> QED BY <2>1
<1> QED BY <1>1, <1>2, <1>3, <1>4, <1>5

\* What the entry of a block binds, it binds in that block, each name once.
LEMMA BindsOpen ==
  ASSUME NEW i \in 1 .. Len(prog), prog[i] \in Node, DistinctInBlock,
         prog[i].k \in {"if", "arm"} \cup Loops,
         NEW q, q = IF prog[i].k = "arm" THEN Bind(prog[i].x, "node", i)
                    ELSE Bind(prog[i].key, "key", i) \o Bind(prog[i].x, "node", i)
  PROVE  /\ Apart(q)
         /\ \A e \in 1 .. Len(q) : q[e].name \in Binds(i) /\ Kind(i) \in {"for", "arm"}
<1>1. PICK n : n = prog[i]
  OBVIOUS
<1>2. Kind(i) = n.k /\ i \in Nodes
  BY <1>1 DEF Kind, Nodes
<1>3. PICK a, b : a = Symbol(n.key, "let", Decl("key", i)) /\ b = Symbol(n.x, "let", Decl("node", i))
  OBVIOUS
<1>4. a.name = n.key /\ b.name = n.x
  BY <1>3 DEF Symbol
<1>5. /\ Bind(n.key, "key", i) = IF n.key = None THEN <<>> ELSE <<a>>
      /\ Bind(n.x, "node", i) = IF n.x = None THEN <<>> ELSE <<b>>
  BY <1>3 DEF Bind
<1>6. /\ <<>> \o <<>> = <<>> /\ <<a>> \o <<>> = <<a>> /\ <<>> \o <<b>> = <<b>> /\ <<a>> \o <<b>> = <<a, b>>
      /\ Len(<<>>) = 0
  BY ShortSequences
<1>7. CASE q = <<>>
  <2>1. Len(q) = 0
    BY <1>6, <1>7
  <2>2. \A e : e \notin 1 .. Len(q)
    BY <2>1
  <2> QED BY <2>2 DEF Apart
<1>8. CASE n.k \in {"if", "while", "loop"}
  <2>1. n.x = None /\ n.key = None
    BY <1>1, <1>8, NodeShapes
  <2>2. n.k # "arm"
    BY <1>8
  <2>3. q = <<>>
    BY <1>1, <1>5, <1>6, <2>1, <2>2
  <2> QED BY <1>7, <2>3
<1>9. ASSUME NEW x, q = <<x>>, x.name \in Binds(i), Kind(i) \in {"for", "arm"}
      PROVE  /\ Apart(q)
             /\ \A e \in 1 .. Len(q) : q[e].name \in Binds(i) /\ Kind(i) \in {"for", "arm"}
  <2>1. q[1] = x /\ 1 .. Len(q) = {1}
    BY <1>9, ShortSequences
  <2> QED BY <1>9, <2>1 DEF Apart
<1>10. CASE n.k = "arm" /\ q # <<>>
  <2>1. q = <<b>> /\ n.x # None
    BY <1>1, <1>5, <1>10
  <2>2. Binds(i) = {n.x} \ {None}
    BY <1>1, <1>2, <1>10 DEF Binds, Declarations
  <2> QED BY <1>2, <1>4, <1>9, <1>10, <2>1, <2>2
<1>11. CASE n.k = "for" /\ q # <<>>
  <2>1. Binds(i) = {n.x, n.key} \ {None}
    BY <1>1, <1>2, <1>11 DEF Binds, Declarations
  <2>2. n.key # n.x
    BY <1>1, <1>2, <1>11 DEF DistinctInBlock
  <2>3. q = Bind(n.key, "key", i) \o Bind(n.x, "node", i)
    BY <1>1, <1>11
  <2>4. CASE n.key = None
    <3>1. q = <<b>> /\ n.x # None
      BY <1>5, <1>6, <2>2, <2>3, <2>4
    <3> QED BY <1>2, <1>4, <1>9, <1>11, <2>1, <3>1
  <2>5. CASE n.key # None /\ n.x = None
    <3>1. q = <<a>>
      BY <1>5, <1>6, <2>3, <2>5
    <3> QED BY <1>2, <1>4, <1>9, <1>11, <2>1, <2>5, <3>1
  <2>6. CASE n.key # None /\ n.x # None
    <3>1. q = <<a, b>>
      BY <1>5, <1>6, <2>3, <2>6
    <3>2. q[1] = a /\ q[2] = b /\ 1 .. Len(q) = {1, 2}
      BY <3>1, ShortSequences
    <3>3. \A e \in 1 .. Len(q) : e = 1 \/ e = 2
      BY <3>2
    <3>4. Apart(q)
      BY <1>4, <2>2, <3>2, <3>3 DEF Apart
    <3>5. a.name \in Binds(i) /\ b.name \in Binds(i)
      BY <1>4, <2>1, <2>6
    <3> QED BY <1>2, <1>11, <3>2, <3>3, <3>4, <3>5
  <2> QED BY <2>4, <2>5, <2>6
<1> QED BY <1>1, <1>7, <1>8, <1>10, <1>11 DEF Loops

LEMMA SortedOpen ==
  ASSUME NEW S, NEW H, Nested(prog, S), NEW i \in 1 .. Len(prog), DistinctInBlock,
         Moves(prog[i], H[i], H[i + 1], i), prog[i].k \in {"if", "arm"} \cup Loops,
         Shaped(prog, S, H, i), Sorted(S, H, i)
  PROVE  Sorted(S, H, i + 1)
<1>1. PICK c, s, n : c = H[i].scope /\ s = S[i] /\ n = prog[i]
  OBVIOUS
<1>2. PICK q : q = IF n.k = "arm" THEN Bind(n.x, "node", i)
                   ELSE Bind(n.key, "key", i) \o Bind(n.x, "node", i)
  OBVIOUS
<1>3. n \in Node /\ i \in Nat \ {0} /\ i + 1 \in Nat
  BY <1>1 DEF Nested
<1>4. PICK A : A = Symbols(prog, i + 1)
  OBVIOUS
<1>5. q \in Seq(A)
  BY <1>1, <1>2, <1>3, <1>4, Bindings
<1>6. c \in Seq(Seq(A)) /\ Len(c) >= 2
  <2>1. c \in Seq(Seq(Symbols(prog, i))) /\ Len(c) >= 2
    BY <1>1 DEF Shaped
  <2>2. Symbols(prog, i) \subseteq A
    BY <1>3, <1>4, MoreSymbols
  <2> QED BY <2>1, <2>2, Wider
<1>7. H[i + 1].scope = Append(c, q)
  <2>1. CASE n.k = "arm"
    <3>1. PICK g, lp, sv : g = Append(c, q) /\ lp = H[i].loop /\ sv = Append(H[i].saved, <<"arm", H[i].loop>>)
      OBVIOUS
    <3>2. H[i + 1] = Walk(g, lp, sv)
      BY <1>1, <1>2, <2>1, <3>1 DEF Moves
    <3>3. H[i + 1].scope = g
      BY <3>2, Walks
    <3> QED BY <3>1, <3>3
  <2>2. CASE n.k \in {"if"} \cup Loops
    <3>1. n.k # "arm"
      BY <2>2 DEF Loops
    <3>2. PICK g, lp, sv : /\ g = Append(c, q) /\ lp = (H[i].loop \/ n.k \in Loops)
                           /\ sv = Append(H[i].saved, <<n.k, H[i].loop>>)
      OBVIOUS
    <3>3. H[i + 1] = Walk(g, lp, sv)
      BY <1>1, <1>2, <2>2, <3>1, <3>2 DEF Moves
    <3>4. H[i + 1].scope = g
      BY <3>3, Walks
    <3> QED BY <3>2, <3>4
  <2> QED BY <1>1, <2>1, <2>2
<1>8. Apart(q) /\ \A e \in 1 .. Len(q) : q[e].name \in Binds(i) /\ Kind(i) \in {"for", "arm"}
  BY <1>1, <1>2, <1>3, BindsOpen
<1>9. Distinct(Append(c, q))
  <2>1. Distinct(c)
    BY <1>1 DEF Sorted
  <2> QED BY <1>5, <1>6, <1>8, <2>1, DistinctPush
<1>10. PICK x, t : x = [o |-> i, b |-> i] /\ t = S[i + 1]
  OBVIOUS
<1>11. t = Append(s, x) /\ s \in Seq(Below(i - 1))
  <2>1. Stacked(prog, S, i)
    BY StackAt
  <2>2. n.k \in Openers
    BY <1>1 DEF Openers
  <2> QED BY <1>1, <1>10, <2>1, <2>2 DEF Stacked
<1>12. Inner(t) = Inner(s) \cup {i}
  <2>1. PICK B : B = Below(i - 1) \cup {x}
    OBVIOUS
  <2>2. s \in Seq(B) /\ x \in B
    BY <1>11, <2>1
  <2>3. x.b = i
    BY <1>10
  <2> QED BY <1>11, <2>2, <2>3, InnerOpen
<1>13. Kind(i) \in {"for", "arm"} => Home(i) = Inner(t)
  <2>1. SUFFICES ASSUME Kind(i) \in {"for", "arm"} PROVE Home(i) = Inner(t)
    OBVIOUS
  <2>2. Blocks(i) = Inner(s)
    BY <1>1, <2>1, BlocksAre DEF Inner
  <2> QED BY <1>12, <2>1, <2>2 DEF Home
<1>14. PICK d, m : d = Append(c, q) /\ m = Len(c)
  OBVIOUS
<1>15. Len(d) = m + 1 /\ d[m + 1] = q
  BY <1>5, <1>6, <1>14
<1>16. ASSUME NEW e \in 1 .. Len(q)
       PROVE  BoundIn(Inner(t), i + 1, q[e].name)
  <2>1. i \in 1 .. (i + 1) - 1
    BY <1>3
  <2> QED BY <1>8, <1>13, <2>1 DEF BoundIn
<1>17. Housed(t, d, i + 1)
  BY <1>15, <1>16 DEF Housed
<1> QED BY <1>7, <1>9, <1>10, <1>14, <1>17 DEF Sorted

LEMMA SortedCase ==
  ASSUME NEW S, NEW H, Nested(prog, S), NEW i \in 1 .. Len(prog),
         Moves(prog[i], H[i], H[i + 1], i), prog[i].k = "case", Sorted(S, H, i)
  PROVE  Sorted(S, H, i + 1)
<1>1. PICK c, s, x, t : c = H[i].scope /\ s = S[i] /\ x = [o |-> i, b |-> i] /\ t = S[i + 1]
  OBVIOUS
<1>2. H[i + 1].scope = c
  <2>1. H[i + 1] = Walk(c, H[i].loop, Append(H[i].saved, <<"case", H[i].loop>>))
    BY <1>1 DEF Moves
  <2> QED BY <2>1, Walks
<1>3. t = Append(s, x) /\ s \in Seq(Below(i - 1))
  <2>1. Stacked(prog, S, i)
    BY StackAt
  <2>2. prog[i].k \in Openers
    BY DEF Openers
  <2> QED BY <1>1, <2>1, <2>2 DEF Stacked
<1>4. t # <<>> /\ Last(t) = x
  <2>1. PICK B : B = Below(i - 1) \cup {x}
    OBVIOUS
  <2>2. s \in Seq(B) /\ x \in B
    BY <1>3, <2>1
  <2> QED BY <1>3, <2>2, InnerOpen
<1>5. Kind(Last(t).b) = "case"
  <2>1. x.b = i
    BY <1>1
  <2> QED BY <1>4, <2>1 DEF Kind
<1>6. Housed(t, c, i + 1)
  BY <1>4, <1>5 DEF Housed
<1> QED BY <1>1, <1>2, <1>6 DEF Sorted

LEMMA SortedElse ==
  ASSUME NEW S, NEW H, Nested(prog, S), NEW i \in 1 .. Len(prog),
         Moves(prog[i], H[i], H[i + 1], i), prog[i].k = "else", Shaped(prog, S, H, i), Sorted(S, H, i)
  PROVE  Sorted(S, H, i + 1)
<1>1. PICK c, p : c = H[i].scope /\ p = Front(c)
  OBVIOUS
<1>2. PICK A : c \in Seq(Seq(A)) /\ Len(c) >= 2
  BY <1>1 DEF Shaped
<1>3. H[i + 1].scope = Append(p, <<>>)
  <2>1. PICK g, lp, sv : g = Append(p, <<>>) /\ lp = H[i].loop /\ sv = H[i].saved
    OBVIOUS
  <2>2. H[i + 1] = Walk(g, lp, sv)
    BY <1>1, <2>1 DEF Moves, Push, Pop
  <2>3. H[i + 1].scope = g
    BY <2>2, Walks
  <2> QED BY <2>1, <2>3
<1>4. PICK D : D = Seq(A)
  OBVIOUS
<1>5. c # <<>> /\ c \in Seq(D)
  <2>1. Len(<<>>) = 0
    OBVIOUS
  <2> QED BY <1>2, <1>4, <2>1
<1>6. p \in Seq(D)
  BY <1>1, <1>5, FrontOf
<1>7. p \in Seq(Seq(A)) /\ <<>> \in Seq(A)
  BY <1>4, <1>6
<1>8. Distinct(p)
  <2>1. Distinct(c)
    BY <1>1 DEF Sorted
  <2> QED BY <1>1, <1>2, <1>5, <2>1, DistinctPop
<1>9. Len(<<>>) = 0
  OBVIOUS
<1>10. Distinct(Append(p, <<>>))
  <2>1. Apart(<<>>)
    BY <1>9 DEF Apart
  <2> QED BY <1>7, <1>8, <2>1, DistinctPush
<1>11. PICK d, m : d = Append(p, <<>>) /\ m = Len(p)
  OBVIOUS
<1>12. Len(d) = m + 1 /\ d[m + 1] = <<>>
  BY <1>7, <1>11
<1>13. \A e : e \notin 1 .. Len(d[Len(d)])
  BY <1>9, <1>12
<1>14. Housed(S[i + 1], d, i + 1)
  BY <1>13 DEF Housed
<1> QED BY <1>3, <1>10, <1>11, <1>14 DEF Sorted

LEMMA SortedEnd ==
  ASSUME NEW S, NEW H, Nested(prog, S), NEW i \in 1 .. Len(prog),
         Moves(prog[i], H[i], H[i + 1], i), prog[i].k = "end",
         \A j \in 1 .. i : Shaped(prog, S, H, j) /\ Entered(prog, S, H, j) /\ Sorted(S, H, j)
  PROVE  Sorted(S, H, i + 1)
<1>1. PICK s, o : s = S[i] /\ o = Last(s).o
  OBVIOUS
<1>2. s # <<>> /\ S[i + 1] = Front(s)
  <2>1. Stacked(prog, S, i)
    BY StackAt
  <2> QED BY <1>1, <2>1 DEF Stacked, Fits
<1>3. o \in 1 .. i - 1 /\ S[o] = S[i + 1]
  <2>1. Opened(prog, S, i)
    BY OpenedAll
  <2> QED BY <1>1, <1>2, <2>1 DEF Opened
<1>4. H[i + 1].scope = H[o].scope
  BY <1>1, WalkEnd
<1>5. o \in 1 .. i /\ o \in Nat /\ i + 1 \in Nat /\ o <= i + 1
  BY <1>3
<1>6. PICK c, t : c = H[o].scope /\ t = S[o]
  OBVIOUS
<1>7. Distinct(c) /\ Housed(t, c, o)
  BY <1>5, <1>6 DEF Sorted
<1>8. Housed(t, c, i + 1)
  <2>1. \A x : BoundIn(Inner(t), o, x) => BoundIn(Inner(t), i + 1, x)
    BY <1>5, BoundLater
  <2> QED BY <1>7, <2>1 DEF Housed
<1> QED BY <1>3, <1>4, <1>6, <1>7, <1>8 DEF Sorted

LEMMA SortedStart ==
  ASSUME NEW S, NEW H, Nested(prog, S), DistinctInBlock, H[1] = Begun
  PROVE  Sorted(S, H, 1)
<1>1. PICK m, n, E : m = Len(Params) /\ n = Len(Outs) /\ E = Range(Params) \cup Range(Outs)
  OBVIOUS
<1>2. m \in Nat /\ n \in Nat /\ Params \in Seq(E) /\ Outs \in Seq(E)
  <2>1. Params \in Seq(Range(Params)) /\ Outs \in Seq(Range(Outs))
    BY TuplesAssumption
  <2> QED BY <1>1, <2>1
<1>3. PICK u : u = Params \o Outs
  OBVIOUS
<1>4. /\ u \in Seq(E) /\ Len(u) = m + n
      /\ (\A k \in 1 .. m : u[k] = Params[k]) /\ (\A k \in 1 .. n : u[m + k] = Outs[k])
  BY <1>1, <1>2, <1>3, Joined
<1>5. \A j, k \in 1 .. m + n : u[j] = u[k] => j = k
  <2>1. IsInjective(u)
    BY <1>3 DEF DistinctInBlock
  <2>2. DOMAIN u = 1 .. m + n
    BY <1>2, <1>4
  <2> QED BY <2>1, <2>2 DEF IsInjective
<1>6. PICK a, b : /\ a = [p \in 1 .. m |-> Symbol(Params[p], "let", Decl("param", p))]
                  /\ b = [o \in 1 .. n |-> Symbol(Outs[o], "var", Decl("out", o))]
  OBVIOUS
<1>7. PICK D : D = {a[p] : p \in 1 .. m} \cup {b[o] : o \in 1 .. n}
  OBVIOUS
<1>8. a \in Seq(D) /\ Len(a) = m /\ b \in Seq(D) /\ Len(b) = n
  BY <1>2, <1>6, <1>7
<1>9. PICK q : q = ProcScope
  OBVIOUS
<1>10. Len(q) = m + n /\ (\A k \in 1 .. m : q[k] = a[k]) /\ (\A k \in 1 .. n : q[m + k] = b[k])
  <2>1. q = a \o b
    BY <1>1, <1>6, <1>9 DEF ProcScope
  <2>2. a \in Seq(D) /\ b \in Seq(D)
    BY <1>8
  <2>3. /\ Len(a \o b) = Len(a) + Len(b)
        /\ \A k \in 1 .. Len(a) : (a \o b)[k] = a[k]
        /\ \A k \in 1 .. Len(b) : (a \o b)[Len(a) + k] = b[k]
    BY <2>2, Joined
  <2> QED BY <1>8, <2>1, <2>3
<1>11. (\A k \in 1 .. m : a[k].name = Params[k]) /\ (\A k \in 1 .. n : b[k].name = Outs[k])
  BY <1>6 DEF Symbol
<1>12. ASSUME NEW k \in 1 .. m + n
       PROVE  q[k].name = u[k]
  <2>1. CASE k \in 1 .. m
    BY <1>4, <1>10, <1>11, <2>1
  <2>2. CASE k \notin 1 .. m
    <3>1. PICK j \in 1 .. n : k = m + j
      <4>1. k - m \in 1 .. n /\ k = m + (k - m)
        BY <1>2, <2>2
      <4> QED BY <4>1
    <3> QED BY <1>4, <1>10, <1>11, <3>1
  <2> QED BY <2>1, <2>2
<1>13. Apart(q)
  BY <1>5, <1>10, <1>12 DEF Apart
<1>14. PICK c : c = <<FileScope, ProcScope>>
  OBVIOUS
<1>15. Len(c) = 2 /\ c[2] = q
  BY <1>9, <1>14
<1>16. H[1].scope = c
  <2>1. PICK lp, sv : lp = FALSE /\ sv = <<>>
    OBVIOUS
  <2>2. H[1] = Walk(c, lp, sv)
    BY <1>14, <2>1 DEF Begun
  <2> QED BY <2>2, Walks
<1>17. Distinct(c)
  <2>1. \A s \in 2 .. 2 : s = 2
    OBVIOUS
  <2> QED BY <1>13, <1>15, <2>1 DEF Distinct
<1>18. S[1] = <<>> /\ Inner(<<>>) = {}
  <2>1. Len(<<>>) = 0
    OBVIOUS
  <2>2. S[1] = <<>>
    BY DEF Nested
  <2> QED BY <2>1, <2>2 DEF Inner
<1>19. ASSUME NEW k \in 1 .. m + n
       PROVE  BoundIn({}, 1, q[k].name)
  <2>1. u[k] \in E
    BY <1>4
  <2> QED BY <1>1, <1>12, <2>1 DEF BoundIn
<1>20. Housed(S[1], c, 1)
  BY <1>10, <1>15, <1>18, <1>19 DEF Housed
<1> QED BY <1>16, <1>17, <1>20 DEF Sorted

LEMMA SortedAll ==
  ASSUME NEW S, NEW H, NEW bd, Nested(prog, S), Walked(prog, H, bd, Len(prog) + 1), DistinctInBlock
  PROVE  \A i \in 1 .. Len(prog) + 1 : Sorted(S, H, i)
<1> DEFINE Bad == {i \in 1 .. Len(prog) + 1 : ~Sorted(S, H, i)}
<1>0. PICK n : n = Len(prog)
  OBVIOUS
<1>1. n \in Nat /\ H[1] = Begun /\ \A i \in 1 .. n : Moves(prog[i], H[i], H[i + 1], i)
  <2>1. n \in Nat
    BY <1>0 DEF Nested
  <2>2. PICK k : k = n + 1
    OBVIOUS
  <2>3. H[1] = Begun /\ \A i \in 1 .. k - 1 : Moves(prog[i], H[i], H[i + 1], i)
    BY <1>0, <2>2 DEF Walked
  <2>4. k - 1 = n
    BY <2>1, <2>2
  <2> QED BY <2>1, <2>3, <2>4
<1>2. \A i \in 1 .. n + 1 : Shaped(prog, S, H, i) /\ Entered(prog, S, H, i)
  BY <1>0, WalkAll
<1>3. SUFFICES ASSUME Bad # {} PROVE FALSE
  OBVIOUS
<1>4. Bad \in SUBSET Nat
  OBVIOUS
<1>5. PICK m \in Bad : \A k \in Bad : m <= k
  BY <1>3, <1>4, Least
<1>6. m # 1
  BY <1>1, SortedStart
<1>7. PICK i \in 1 .. n : m = i + 1
  <2>1. m - 1 \in 1 .. n /\ m = m - 1 + 1
    BY <1>0, <1>1, <1>5, <1>6
  <2> QED BY <2>1
<1>8. \A j \in 1 .. i : Shaped(prog, S, H, j) /\ Entered(prog, S, H, j) /\ Sorted(S, H, j)
  <2> SUFFICES ASSUME NEW j \in 1 .. i
               PROVE  Shaped(prog, S, H, j) /\ Entered(prog, S, H, j) /\ Sorted(S, H, j)
    OBVIOUS
  <2>1. j \in 1 .. n + 1 /\ ~(m <= j)
    BY <1>1, <1>7
  <2>2. j \notin Bad
    BY <1>5, <2>1
  <2> QED BY <1>0, <1>2, <2>1, <2>2
<1>9. i \in 1 .. Len(prog) /\ i \in 1 .. i /\ Moves(prog[i], H[i], H[i + 1], i)
  BY <1>0, <1>1, <1>7
<1>10. prog[i] \in Node
  BY <1>9 DEF Nested
<1>11. prog[i].k \in Declarations \cup {"assign", "exit", "if", "else", "case", "arm", "end"} \cup Loops
  BY <1>10, NodeShapes
<1>12. Shaped(prog, S, H, i) /\ Sorted(S, H, i)
  BY <1>8, <1>9
<1>13. Sorted(S, H, i + 1)
  <2>1. CASE prog[i].k \in Declarations
    BY <1>9, <1>12, <2>1, SortedDecl
  <2>2. CASE prog[i].k \in {"assign", "exit"}
    BY <1>9, <1>12, <2>2, SortedPlain
  <2>3. CASE prog[i].k \in {"if", "arm"} \cup Loops
    BY <1>9, <1>12, <2>3, SortedOpen
  <2>4. CASE prog[i].k = "case"
    BY <1>9, <1>12, <2>4, SortedCase
  <2>5. CASE prog[i].k = "else"
    BY <1>9, <1>12, <2>5, SortedElse
  <2>6. CASE prog[i].k = "end"
    BY <1>8, <1>9, <2>6, SortedEnd
  <2> QED BY <1>11, <2>1, <2>2, <2>3, <2>4, <2>5, <2>6
<1> QED BY <1>5, <1>7, <1>13

-----------------------------------------------------------------------------
(* The two walks resolve a name to one declaration *)

\* For name y, the scopes of the two chains hold the same declarations, but for
\* fields of variants.
Alike(pr, c, l, y) ==
  \A s \in 1 .. Len(l) :
    /\ \A e \in 1 .. Len(c[s + 1]) : c[s + 1][e].name = y =>
         \/ c[s + 1][e].d[1] = "node" /\ pr[c[s + 1][e].d[2]].k = "arm"
         \/ \E f \in 1 .. Len(l[s]) : l[s][f] = Twin(c[s + 1][e])
    /\ \A f \in 1 .. Len(l[s]) : l[s][f].name = y =>
         \E e \in 1 .. Len(c[s + 1]) : l[s][f] = Twin(c[s + 1][e])

LEMMA AlikeIfFollows ==
  ASSUME NEW pr, NEW c, NEW l, NEW tc, Simulates(pr, c, l, tc), NEW y, y # None,
         \A t \in 0 .. tc - 1 : TmpName(t) # y
  PROVE  Alike(pr, c, l, y)
<1>1. ASSUME NEW v, Temporary(v, tc)
      PROVE  v.name # y
  <2>1. PICK t \in 0 .. tc - 1 : v = Val(TmpName(t), Decl("temp", t))
    BY <1>1 DEF Temporary
  <2>2. v.name = TmpName(t)
    BY <2>1 DEF Val
  <2> QED BY <2>2
<1>2. \A s \in 1 .. Len(l) : Match(pr, c[s + 1], l[s], tc)
  BY DEF Simulates
<1> QED BY <1>1, <1>2 DEF Match, Alike

\* A declaration is not seen by another name.
LEMMA AlikeDefine ==
  ASSUME NEW pr, NEW c, NEW B, NEW l \in Seq(Seq(B)), l # <<>>, NEW y, Alike(pr, c, l, y),
         NEW v, v.name # y
  PROVE  Alike(pr, c, Define(l, v), y)
<1>1. PICK D, m, n : D = B \cup {v} /\ m = Define(l, v) /\ n = Len(l)
  OBVIOUS
<1>2. l \in Seq(Seq(D)) /\ v \in D
  BY <1>1, Wider
<1>3. Len(m) = n /\ (\A k \in 1 .. n - 1 : m[k] = l[k]) /\ m[n] = Append(l[n], v)
  <2>1. /\ Len(Define(l, v)) = Len(l) /\ Define(l, v)[Len(l)] = Append(l[Len(l)], v)
        /\ \A k \in 1 .. Len(l) - 1 : Define(l, v)[k] = l[k]
    BY <1>2, Defines
  <2> QED BY <1>1, <2>1
<1>4. n \in Nat /\ n \in 1 .. n
  <2>1. PICK E : E = Seq(D)
    OBVIOUS
  <2>2. l \in Seq(E)
    BY <1>2, <2>1
  <2> QED BY <1>1, <2>2
<1>5. ASSUME NEW s \in 1 .. n
      PROVE  /\ \A f \in 1 .. Len(l[s]) : f \in 1 .. Len(m[s]) /\ m[s][f] = l[s][f]
             /\ \A f \in 1 .. Len(m[s]) : m[s][f] = v \/ (f \in 1 .. Len(l[s]) /\ m[s][f] = l[s][f])
  <2>1. CASE s = n
    <3>1. PICK q, k, t : q = l[n] /\ k = Len(q) /\ t = Append(q, v)
      OBVIOUS
    <3>2. q \in Seq(D)
      <4>1. PICK E : E = Seq(D)
        OBVIOUS
      <4>2. l \in Seq(E)
        BY <1>2, <4>1
      <4> QED BY <1>1, <1>4, <3>1, <4>1, <4>2
    <3>3. k \in Nat /\ Len(t) = k + 1 /\ t[k + 1] = v /\ \A f \in 1 .. k : t[f] = q[f]
      BY <1>2, <3>1, <3>2, Stacks
    <3>4. \A f : f \in 1 .. k + 1 <=> f \in 1 .. k \/ f = k + 1
      BY <3>3
    <3>5. /\ \A f \in 1 .. k : f \in 1 .. Len(t) /\ t[f] = q[f]
          /\ \A f \in 1 .. Len(t) : t[f] = v \/ (f \in 1 .. k /\ t[f] = q[f])
      BY <3>3, <3>4
    <3>6. m[s] = t /\ l[s] = q
      BY <1>3, <2>1, <3>1
    <3> QED BY <3>1, <3>5, <3>6
  <2>2. CASE s # n
    <3>1. s \in 1 .. n - 1
      BY <1>4, <2>2
    <3> QED BY <1>3, <3>1
  <2> QED BY <2>1, <2>2
<1>6. ASSUME NEW s \in 1 .. n
      PROVE  /\ \A e \in 1 .. Len(c[s + 1]) : c[s + 1][e].name = y =>
                  \/ c[s + 1][e].d[1] = "node" /\ pr[c[s + 1][e].d[2]].k = "arm"
                  \/ \E f \in 1 .. Len(m[s]) : m[s][f] = Twin(c[s + 1][e])
             /\ \A f \in 1 .. Len(m[s]) : m[s][f].name = y =>
                  \E e \in 1 .. Len(c[s + 1]) : m[s][f] = Twin(c[s + 1][e])
  <2>1. PICK p, q, r : p = m[s] /\ q = l[s] /\ r = c[s + 1]
    OBVIOUS
  <2>2. /\ \A f \in 1 .. Len(q) : f \in 1 .. Len(p) /\ p[f] = q[f]
        /\ \A f \in 1 .. Len(p) : p[f] = v \/ (f \in 1 .. Len(q) /\ p[f] = q[f])
    BY <1>5, <2>1
  <2>3. /\ \A e \in 1 .. Len(r) : r[e].name = y =>
             \/ r[e].d[1] = "node" /\ pr[r[e].d[2]].k = "arm"
             \/ \E f \in 1 .. Len(q) : q[f] = Twin(r[e])
        /\ \A f \in 1 .. Len(q) : q[f].name = y => \E e \in 1 .. Len(r) : q[f] = Twin(r[e])
    BY <1>1, <2>1 DEF Alike
  <2>4. \A e \in 1 .. Len(r) : r[e].name = y =>
          \/ r[e].d[1] = "node" /\ pr[r[e].d[2]].k = "arm"
          \/ \E f \in 1 .. Len(p) : p[f] = Twin(r[e])
    BY <2>2, <2>3
  <2>5. \A f \in 1 .. Len(p) : p[f].name = y => \E e \in 1 .. Len(r) : p[f] = Twin(r[e])
    BY <2>2, <2>3
  <2> QED BY <2>1, <2>4, <2>5
<1> QED BY <1>1, <1>3, <1>6 DEF Alike

\* scope_lookup, newest first, and lscope_find, oldest first, meet at the one
\* declaration of the innermost scope that has the name.
LEMMA Agreement ==
  ASSUME NEW pr, NEW A, NEW c \in Seq(Seq(A)), NEW B, NEW l \in Seq(Seq(B)), Len(c) = Len(l) + 1,
         c[1] = FileScope, Distinct(c), NEW y, y # None, Alike(pr, c, l, y), KnownIn(c, y)
  PROVE  LET d == LookupIn(c, y).d IN
         \/ d[1] = "node" /\ pr[d[2]].k = "arm"
         \/ IF Found(l, y) THEN lscope_find(l, y).d = d ELSE d = Decl("global", y)
<1>1. PICK s \in 1 .. Len(c) : \E e \in 1 .. Len(c[s]) :
           /\ LookupIn(c, y) = c[s][e] /\ c[s][e].name = y
           /\ \A t \in Holding(c, y) : t <= s
  BY LookupNames
<1>2. PICK e \in 1 .. Len(c[s]) : /\ LookupIn(c, y) = c[s][e] /\ c[s][e].name = y
                                  /\ \A t \in Holding(c, y) : t <= s
  BY <1>1
<1>3. PICK n : n = Len(l)
  OBVIOUS
<1>4. n \in Nat /\ Len(c) = n + 1
  <2>1. PICK D : D = Seq(B)
    OBVIOUS
  <2>2. l \in Seq(D)
    BY <2>1
  <2> QED BY <1>3, <2>2
<1>5. ASSUME NEW t \in 1 .. n, NEW f \in 1 .. Len(l[t]), l[t][f].name = y
      PROVE  t + 1 <= s /\ \E g \in 1 .. Len(c[t + 1]) : l[t][f] = Twin(c[t + 1][g]) /\ c[t + 1][g].name = y
  <2>1. PICK g \in 1 .. Len(c[t + 1]) : l[t][f] = Twin(c[t + 1][g])
    BY <1>3, <1>5 DEF Alike
  <2>2. c[t + 1][g].name = y
    BY <1>5, <2>1 DEF Twin, Val
  <2>3. t + 1 \in 1 .. Len(c)
    BY <1>4
  <2>4. t + 1 \in Holding(c, y)
    BY <2>2, <2>3 DEF Holding
  <2> QED BY <1>2, <2>1, <2>2, <2>4
<1>6. CASE s = 1
  <2>1. LookupIn(c, y).d = Decl("global", y)
    <3>1. c[s][e] = FileScope[e] /\ e \in DOMAIN FileScope
      <4>1. Len(FileScope) = Len(Globals)
        <5>1. Len(Globals) \in Nat
          BY GlobalsAssumption
        <5> QED BY <5>1 DEF FileScope
      <4>2. e \in 1 .. Len(Globals)
        BY <1>6, <4>1
      <4> QED BY <1>6, <4>2 DEF FileScope
    <3>2. c[s][e] = Symbol(Globals[e], "var", Decl("global", Globals[e]))
      BY <3>1 DEF FileScope
    <3> QED BY <1>2, <3>2 DEF Symbol
  <2>2. ~Found(l, y)
    <3>1. SUFFICES ASSUME Found(l, y) PROVE FALSE
      OBVIOUS
    <3>2. PICK t \in 1 .. n : \E f \in 1 .. Len(l[t]) : l[t][f].name = y
      BY <1>3, <3>1 DEF Found, Holding
    <3>3. t + 1 <= 1
      BY <1>5, <1>6, <3>2
    <3> QED BY <3>3
  <2> QED BY <2>1, <2>2
<1>7. CASE s # 1 /\ ~(c[s][e].d[1] = "node" /\ pr[c[s][e].d[2]].k = "arm")
  <2>1. PICK r \in 1 .. n : s = r + 1
    <3>1. s - 1 \in 1 .. n /\ s = s - 1 + 1
      BY <1>4, <1>7
    <3> QED BY <3>1
  <2>2. PICK f \in 1 .. Len(l[r]) : l[r][f] = Twin(c[s][e])
    BY <1>2, <1>3, <1>7, <2>1 DEF Alike
  <2>3. l[r][f].name = y
    BY <1>2, <2>2 DEF Twin, Val
  <2>4. r \in Holding(l, y) /\ Found(l, y)
    BY <1>3, <2>3 DEF Holding, Found
  <2>5. PICK t, g : t = Max(Holding(l, y)) /\ g = Min(Entries(l, y))
    OBVIOUS
  <2>6. t \in Holding(l, y) /\ r <= t /\ g \in Entries(l, y)
    BY <2>4, <2>5, FindNames
  <2>7. t \in 1 .. n /\ g \in 1 .. Len(l[t]) /\ l[t][g].name = y
    <3>1. Entries(l, y) = {h \in 1 .. Len(l[t]) : l[t][h].name = y}
      BY <2>5 DEF Entries
    <3> QED BY <1>3, <2>6, <3>1 DEF Holding
  <2>8. t + 1 <= s
    BY <1>5, <2>7
  <2>9. t = r
    BY <2>1, <2>6, <2>7, <2>8
  <2>10. PICK k \in 1 .. Len(c[s]) : l[t][g] = Twin(c[s][k]) /\ c[s][k].name = y
    BY <1>5, <2>1, <2>7, <2>9
  <2>11. k = e
    <3>1. s \in 2 .. Len(c)
      BY <1>4, <2>1
    <3>2. Apart(c[s])
      BY <3>1 DEF Distinct
    <3> QED BY <1>2, <2>10, <3>2 DEF Apart
  <2>12. lscope_find(l, y) = l[t][g]
    BY <2>5 DEF lscope_find
  <2>13. lscope_find(l, y).d = c[s][e].d
    BY <2>10, <2>11, <2>12 DEF Twin, Val
  <2> QED BY <1>2, <2>4, <2>13
<1> QED BY <1>2, <1>6, <1>7

\* What the checker has bound is a name of the text.
LEMMA TextNames ==
  ASSUME NEW i \in 1 .. Len(prog), NEW e \in Symbols(prog, i), e.name # None, Len(prog) \in Nat
  PROVE  e.name \in Outermost \cup UNION {Binds(j) : j \in Nodes}
<1>1. \A j \in 1 .. i - 1 : j \in Nodes
  BY DEF Nodes
<1>2. CASE \E g \in 1 .. Len(Globals) : e = FileScope[g]
  <2>1. PICK g \in 1 .. Len(Globals) : e = FileScope[g]
    BY <1>2
  <2>2. e.name = Globals[g]
    BY <2>1 DEF FileScope, Symbol
  <2>3. Globals[g] \in Range(Globals)
    BY GlobalsAssumption
  <2> QED BY <2>2, <2>3 DEF Outermost
<1>3. CASE \E p \in 1 .. Len(Params) : e = Symbol(Params[p], "let", Decl("param", p))
  <2>1. PICK p \in 1 .. Len(Params) : e.name = Params[p]
    BY <1>3 DEF Symbol
  <2>2. Params[p] \in Range(Params)
    BY TuplesAssumption
  <2> QED BY <2>1, <2>2 DEF Outermost
<1>4. CASE \E o \in 1 .. Len(Outs) : e = Symbol(Outs[o], "var", Decl("out", o))
  <2>1. PICK o \in 1 .. Len(Outs) : e.name = Outs[o]
    BY <1>4 DEF Symbol
  <2>2. Outs[o] \in Range(Outs)
    BY TuplesAssumption
  <2> QED BY <2>1, <2>2 DEF Outermost
<1>5. CASE \E j \in {j \in 1 .. i - 1 : prog[j].k \in Declarations \cup {"for", "arm"}} :
             \E kind \in {"let", "var"} : e = Symbol(prog[j].x, kind, Decl("node", j))
  <2>1. PICK j \in 1 .. i - 1 : prog[j].k \in Declarations \cup {"for", "arm"} /\ e.name = prog[j].x
    BY <1>5 DEF Symbol
  <2>2. e.name \in Binds(j)
    BY <2>1 DEF Binds, Kind, Declarations
  <2> QED BY <1>1, <2>2
<1>6. CASE \E j \in {j \in 1 .. i - 1 : prog[j].k = "for" /\ prog[j].key # None} :
             e = Symbol(prog[j].key, "let", Decl("key", j))
  <2>1. PICK j \in 1 .. i - 1 : prog[j].k = "for" /\ e.name = prog[j].key
    BY <1>6 DEF Symbol
  <2>2. e.name \in Binds(j)
    BY <2>1 DEF Binds, Kind, Declarations
  <2> QED BY <1>1, <2>2
<1> QED BY <1>2, <1>3, <1>4, <1>5, <1>6 DEF Symbols

\* The chains of a node look alike for every name the checker knows there.
LEMMA NodeAlike ==
  ASSUME NEW S, NEW H, Ready(S, H), NoTempNames, NEW y, y # None, KnownIn(H[lpos].scope, y)
  PROVE  Alike(prog, H[lpos].scope, lscope, y)
<1>1. PICK c, i, A : c = H[lpos].scope /\ i = lpos /\ A = Symbols(prog, i)
  OBVIOUS
<1>2. c \in Seq(Seq(A)) /\ i \in 1 .. Len(prog) /\ Len(prog) \in Nat
  BY <1>1 DEF Ready, Shaped, Nested
<1>3. \E s \in 1 .. Len(c) : \E e \in 1 .. Len(c[s]) :
        LookupIn(c, y) = c[s][e] /\ c[s][e].name = y /\ c[s][e] \in A
  <2>1. KnownIn(c, y)
    BY <1>1
  <2>2. \E s \in 1 .. Len(c) : \E e \in 1 .. Len(c[s]) :
          /\ LookupIn(c, y) = c[s][e] /\ c[s][e].name = y /\ c[s][e] \in A
          /\ \A t \in Holding(c, y) : t <= s
    <3>1. c \in Seq(Seq(A))
      BY <1>2
    <3> QED BY ONLY <2>1, <3>1, LookupNames
  <2> QED BY <2>2
<1>4. PICK e \in A : e.name = y
  BY <1>3
<1>5. y \in Outermost \cup UNION {Binds(j) : j \in Nodes}
  BY <1>1, <1>2, <1>4, TextNames
<1>6. Simulates(prog, c, lscope, tmp_counter) /\ tmp_counter \in Nat
  BY <1>1 DEF Ready, Following
<1>7. ASSUME NEW t \in 0 .. tmp_counter - 1
      PROVE  TmpName(t) # y
  <2>1. t \in 0 .. tmp_counter
    BY <1>6
  <2>2. TmpName(t) \in Temps
    BY <2>1 DEF Temps
  <2> QED BY <1>5, <2>2 DEF NoTempNames
<1> QED BY <1>1, <1>6, <1>7, AlikeIfFollows

\* lower_expr takes an operand for what check_expr took it for.
Meets(y, c, l) == ArmField(ResolveIn(c, y)) \/ Operand(l, y).d = ResolveIn(c, y)

LEMMA OperandAgrees ==
  ASSUME NEW A, NEW c \in Seq(Seq(A)), NEW B, NEW l \in Seq(Seq(B)), Len(c) = Len(l) + 1,
         c[1] = FileScope, Distinct(c), NEW y, ChecksIn(c, y),
         y \in Unnamed \/ Alike(prog, c, l, y)
  PROVE  Meets(y, c, l)
<1>1. CASE y \in Unnamed
  BY <1>1 DEF ResolveIn, Operand, Imm, Val, Meets
<1>2. CASE y \notin Unnamed
  <2>1. KnownIn(c, y)
    BY <1>2 DEF ChecksIn
  <2>2. PICK d : d = LookupIn(c, y).d
    OBVIOUS
  <2>3. \/ d[1] = "node" /\ prog[d[2]].k = "arm"
        \/ IF Found(l, y) THEN lscope_find(l, y).d = d ELSE d = Decl("global", y)
    BY <1>2, <2>1, <2>2, Agreement DEF Unnamed
  <2>4. ResolveIn(c, y) = d
    BY <1>2, <2>2 DEF ResolveIn
  <2>5. Operand(l, y) = IF Found(l, y) THEN lscope_find(l, y) ELSE Val(y, Decl("global", y))
    BY <1>2 DEF Operand
  <2>6. Val(y, Decl("global", y)).d = Decl("global", y)
    BY DEF Val
  <2> QED BY <2>3, <2>4, <2>5, <2>6 DEF Meets, ArmField, Kind
<1> QED BY <1>1, <1>2

\* r and b name the same declarations, or one names the field of a variant.
Same(r, b) == r = b \/ ArmField(b.x) \/ ArmField(b.y)

\* The operands of a node in the chain the lowering has at it.
LEMMA NodeOperands ==
  ASSUME NEW S, NEW H, Ready(S, H), Sorted(S, H, lpos), NoTempNames, NEW y, ChecksIn(H[lpos].scope, y)
  PROVE  LET d == ResolveIn(H[lpos].scope, y) IN
         /\ ArmField(d) \/ Operand(lscope, y).d = d
         /\ y \notin Unnamed /\ Found(lscope, y) => ArmField(d) \/ lscope_find(lscope, y).d = d
         /\ \A v : v.name # y => ArmField(d) \/ Operand(Define(lscope, v), y).d = d
<1>1. PICK c, i, A, l : c = H[lpos].scope /\ i = lpos /\ A = Symbols(prog, i) /\ l = lscope
  OBVIOUS
<1>2. c \in Seq(Seq(A)) /\ c[1] = FileScope /\ Distinct(c)
  BY <1>1 DEF Ready, Shaped, Sorted
<1>3. PICK B : l \in Seq(Seq(B)) /\ Len(c) = Len(l) + 1
  BY <1>1 DEF Ready, Following, Simulates
<1>4. l # <<>>
  BY <1>1, Readies
<1>5. y \notin Unnamed => Alike(prog, c, l, y)
  <2>1. y \notin Unnamed => KnownIn(c, y)
    BY <1>1 DEF ChecksIn
  <2>2. y \notin Unnamed => y # None
    BY DEF Unnamed
  <2> QED BY <1>1, <2>1, <2>2, NodeAlike
<1>6. PICK d : d = ResolveIn(c, y)
  OBVIOUS
<1>7. y \in Unnamed \/ Alike(prog, c, l, y)
  BY <1>5
<1>8. Meets(y, c, l)
  BY <1>1, <1>2, <1>3, <1>7, OperandAgrees
<1>9. y \notin Unnamed /\ Found(l, y) => Operand(l, y) = lscope_find(l, y)
  BY DEF Operand
<1>10. ASSUME NEW v, v.name # y
       PROVE  Meets(y, c, Define(l, v))
  <2>1. PICK D, m : D = B \cup {v} /\ m = Define(l, v)
    OBVIOUS
  <2>2. l \in Seq(Seq(D)) /\ v \in D
    BY <1>3, <2>1, Wider
  <2>3. m \in Seq(Seq(D)) /\ Len(m) = Len(l)
    BY <1>4, <2>1, <2>2, Defines
  <2>4. y \in Unnamed \/ Alike(prog, c, m, y)
    BY <1>3, <1>4, <1>7, <1>10, <2>1, AlikeDefine
  <2>5. ChecksIn(c, y)
    BY <1>1
  <2>6. m \in Seq(Seq(D)) /\ Len(c) = Len(m) + 1 /\ c \in Seq(Seq(A)) /\ c[1] = FileScope /\ Distinct(c)
    BY <1>2, <1>3, <2>3
  <2>7. Meets(y, c, m)
    BY ONLY <2>4, <2>5, <2>6, OperandAgrees
  <2> QED BY <2>1, <2>7
<1> QED BY <1>1, <1>6, <1>8, <1>9, <1>10 DEF Meets

\* A node's operands are taken down, and are the checker's.
LEMMA NodeAppends ==
  ASSUME LowerNode, lowered' # "abort", tmp_counter \in Nat
  PROVE  /\ \E r : resolved' = Append(resolved, r)
         /\ tmp_counter' \in Nat /\ tmp_counter <= tmp_counter'
<1>1. ASSUME NEW c, NEW l, NEW x, NEW y, NEW t \in Nat, Emits(c, t, l, x, y)
      PROVE  /\ \E r : resolved' = Append(resolved, r)
             /\ tmp_counter' \in Nat /\ tmp_counter <= tmp_counter'
  BY <1>1 DEF Emits
<1>2. \E c, l, x, y : \E t \in Nat : Emits(c, t, l, x, y)
  <2>2. CASE LowerDecl
    <3>1. \E g, u, v, t : t \in {0, 1} /\ Emits(g, t, 0, u, v)
      BY <2>2, Zenon DEF LowerDecl
    <3> QED BY <3>1
  <2>3. CASE LowerAssign
    <3>1. ~Abort(prog[lpos].x)
      BY DEF Abort
    <3>2. \E g, u, v : Emits(g, 1, 0, u, v)
      BY <2>3, <3>1, Zenon DEF LowerAssign
    <3> QED BY <3>2
  <2>4. CASE LowerExit
    <3>1. ~Abort("exit")
      BY DEF Abort
    <3>2. \E g, u, v : Emits(g, 0, 0, u, v)
      BY <2>4, <3>1, Zenon DEF LowerExit
    <3> QED BY <3>2
  <2>5. CASE LowerIf
    <3>1. \E g, u, v : Emits(g, 0, 2, u, v)
      BY <2>5, Zenon DEF LowerIf
    <3> QED BY <3>1
  <2>6. CASE LowerElse
    <3>1. \E g, u, v : Emits(g, 0, 0, u, v)
      BY <2>6, Zenon DEF LowerElse
    <3> QED BY <3>1
  <2>7. CASE LowerLoop
    <3>1. \E g, u, v : Emits(g, IF prog[lpos].k = "for" THEN 7 ELSE 0, 2, u, v)
      BY <2>7, Zenon DEF LowerLoop
    <3> QED BY <3>1
  <2>8. CASE LowerCase
    <3>1. \E g, u, v : Emits(g, 0, 1, u, v)
      BY <2>8, Zenon DEF LowerCase
    <3> QED BY <3>1
  <2>9. CASE LowerArm
    <3>1. prog[lpos].y = None => \E g, u, v : Emits(g, 0, 1, u, v)
      BY <2>9, Zenon DEF LowerArm
    <3>2. prog[lpos].y # None => \E g, u, v : Emits(g, 1, 1, u, v)
      BY <2>9, Zenon DEF LowerArm
    <3> QED BY <3>1, <3>2
  <2>10. CASE LowerEnd
    <3>1. \E g, u, v : Emits(g, 0, 0, u, v)
      BY <2>10, Zenon DEF LowerEnd
    <3> QED BY <3>1
  <2> QED BY <2>2, <2>3, <2>4, <2>5, <2>6, <2>7, <2>8, <2>9, <2>10, NodeSteps DEF LowerNode
<1> QED BY <1>1, <1>2

\* The declarations the lowering takes a node's operands for are those the
\* checker did.
LEMMA NodeResolves ==
  ASSUME NEW S, NEW H, Ready(S, H), Sorted(S, H, lpos), DistinctInBlock, NoTempNames, NEW b,
         Accepts(prog[lpos], H[lpos], lpos, b), LowerNode, lowered' # "abort"
  PROVE  \E r : resolved' = Append(resolved, r) /\ Same(r, b)
<1>1. PICK n, i, c, l : n = prog[lpos] /\ i = lpos /\ c = H[lpos].scope /\ l = lscope
  OBVIOUS
<1>2. i \in 1 .. Len(prog) /\ n \in Node
  BY <1>1 DEF Ready, Nested
<1>3. Accepts(n, H[i], i, b) /\ H[i].scope = c
  BY <1>1
<1>4. ASSUME ChecksIn(c, n.y)
      PROVE  /\ ArmField(ResolveIn(c, n.y)) \/ Operand(l, n.y).d = ResolveIn(c, n.y)
             /\ \A v : v.name # n.y =>
                  ArmField(ResolveIn(c, n.y)) \/ Operand(Define(l, v), n.y).d = ResolveIn(c, n.y)
  <2>1. ChecksIn(H[lpos].scope, n.y)
    BY <1>1, <1>4
  <2> QED BY <1>1, <2>1, NodeOperands, ZenonT(60)
<1>5. ASSUME NEW g, NEW t, NEW k, NEW x, NEW y, Emits(g, t, k, x, y), Same([x |-> x, y |-> y], b)
      PROVE  \E r : resolved' = Append(resolved, r) /\ Same(r, b)
  BY <1>5 DEF Emits
<1>6. CASE LowerDecl
  <2>1. PICK v : v = Val(n.x, Decl("node", i))
    OBVIOUS
  <2>2. n.k \in Declarations /\ v.name = n.x /\ v.d = Decl("node", i)
    BY <1>1, <1>6, <2>1 DEF LowerDecl, Lowers, Kind, Val
  <2>3. \E g, t : Emits(g, t, 0, v.d, IF n.k = "string" THEN NoDecl ELSE Operand(Define(l, v), n.y).d)
    BY <1>1, <1>6, <2>1, Zenon DEF LowerDecl
  <2>4. ChecksIn(c, n.y) /\ b = [x |-> Decl("node", i), y |-> ResolveIn(c, n.y)]
    BY <1>3, <2>2 DEF Accepts
  <2>5. n.x # n.y
    BY <1>1, <1>2, <2>2 DEF DistinctInBlock, Nodes, Kind
  <2>6. CASE n.k = "string"
    <3>1. n.y = Literal
      BY <1>2, <2>6, StringLiteral
    <3>2. ResolveIn(c, n.y) = NoDecl
      BY <3>1 DEF ResolveIn, Unnamed
    <3>3. Same([x |-> v.d, y |-> NoDecl], b)
      BY <2>2, <2>4, <3>2 DEF Same
    <3>4. \E g, t : Emits(g, t, 0, v.d, NoDecl)
      BY <2>3, <2>6
    <3> QED BY <1>5, <3>3, <3>4
  <2>7. CASE n.k # "string"
    <3>1. PICK y : y = Operand(Define(l, v), n.y).d
      OBVIOUS
    <3>2. ArmField(b.y) \/ y = b.y
      BY <1>4, <2>2, <2>4, <2>5, <3>1
    <3>3. Same([x |-> v.d, y |-> y], b)
      BY <2>2, <2>4, <3>2 DEF Same
    <3>4. \E g, t : Emits(g, t, 0, v.d, y)
      BY <2>3, <2>7, <3>1
    <3> QED BY <1>5, <3>3, <3>4
  <2> QED BY <2>6, <2>7
<1>7. CASE LowerAssign
  <2>1. n.k = "assign"
    BY <1>1, <1>7 DEF LowerAssign, Lowers, Kind
  <2>2. ChecksIn(c, n.x) /\ ChecksIn(c, n.y) /\ b = [x |-> ResolveIn(c, n.x), y |-> ResolveIn(c, n.y)]
    BY <1>3, <2>1 DEF Accepts
  <2>3. ~Abort(n.x)
    BY DEF Abort
  <2>4. Found(l, n.x) /\ \E g, t : Emits(g, t, 0, lscope_find(l, n.x).d, Operand(l, n.y).d)
    BY <1>1, <1>7, <2>3, Zenon DEF LowerAssign
  <2>5. n.x \notin Unnamed
    BY <1>2, <2>1, AssignNames
  <2>6. ArmField(ResolveIn(c, n.x)) \/ lscope_find(l, n.x).d = ResolveIn(c, n.x)
    <3>1. ChecksIn(H[lpos].scope, n.x)
      BY <1>1, <2>2
    <3> QED BY <1>1, <2>4, <2>5, <3>1, NodeOperands
  <2>7. PICK x, y : x = lscope_find(l, n.x).d /\ y = Operand(l, n.y).d
    OBVIOUS
  <2>8. (ArmField(b.x) \/ x = b.x) /\ (ArmField(b.y) \/ y = b.y)
    BY <1>4, <2>2, <2>6, <2>7
  <2>9. Same([x |-> x, y |-> y], b)
    BY <2>2, <2>8 DEF Same
  <2>10. \E g, t : Emits(g, t, 0, x, y)
    BY <2>4, <2>7
  <2> QED BY <1>5, <2>9, <2>10
<1>8. CASE LowerIf \/ LowerLoop
  <2>1. n.k \in {"if"} \cup Loops
    BY <1>1, <1>8 DEF LowerIf, LowerLoop, Lowers, Kind
  <2>2. ChecksIn(c, n.y) /\ b = [x |-> Decl("node", i), y |-> ResolveIn(c, n.y)]
    BY <1>3, <2>1 DEF Accepts
  <2>3. PICK y : y = Operand(l, n.y).d
    OBVIOUS
  <2>4. ArmField(b.y) \/ y = b.y
    BY <1>4, <2>2, <2>3
  <2>5. Same([x |-> Decl("node", i), y |-> y], b)
    BY <2>2, <2>4 DEF Same
  <2>6. \E g, t, k : Emits(g, t, k, Decl("node", i), y)
    <3>1. LowerIf => \E g, t, k : Emits(g, t, k, Decl("node", i), y)
      BY <1>1, <2>3, Zenon DEF LowerIf
    <3>2. LowerLoop => \E g, t, k : Emits(g, t, k, Decl("node", i), y)
      BY <1>1, <2>3, Zenon DEF LowerLoop
    <3> QED BY <1>8, <3>1, <3>2
  <2> QED BY <1>5, <2>5, <2>6
<1>9. CASE LowerCase
  <2>1. n.k = "case"
    BY <1>1, <1>9 DEF LowerCase, Lowers, Kind
  <2>2. ChecksIn(c, n.y) /\ b = [x |-> NoDecl, y |-> ResolveIn(c, n.y)]
    BY <1>3, <2>1 DEF Accepts
  <2>3. PICK y : y = Operand(l, n.y).d
    OBVIOUS
  <2>4. ArmField(b.y) \/ y = b.y
    BY <1>4, <2>2, <2>3
  <2>5. Same([x |-> NoDecl, y |-> y], b)
    BY <2>2, <2>4 DEF Same
  <2>6. \E g, t, k : Emits(g, t, k, NoDecl, y)
    BY <1>1, <1>9, <2>3, Zenon DEF LowerCase
  <2> QED BY <1>5, <2>5, <2>6
<1>10. CASE LowerExit \/ LowerElse \/ LowerArm \/ LowerEnd
  <2>1. n.k \in {"exit", "else", "arm", "end"}
    BY <1>1, <1>10 DEF LowerExit, LowerElse, LowerArm, LowerEnd, Lowers, Kind
  <2>2. Same([x |-> NoDecl, y |-> NoDecl], b)
    BY <1>3, <2>1 DEF Accepts, Same
  <2>3. ~Abort("exit")
    BY DEF Abort
  <2>4. \E g, t, k : Emits(g, t, k, NoDecl, NoDecl)
    <3>1. LowerExit => \E g, t, k : Emits(g, t, k, NoDecl, NoDecl)
      BY <2>3, Zenon DEF LowerExit
    <3>2. LowerElse => \E g, t, k : Emits(g, t, k, NoDecl, NoDecl)
      BY Zenon DEF LowerElse
    <3>3. LowerArm => \E g, t, k : Emits(g, t, k, NoDecl, NoDecl)
      BY Zenon DEF LowerArm
    <3>4. LowerEnd => \E g, t, k : Emits(g, t, k, NoDecl, NoDecl)
      BY Zenon DEF LowerEnd
    <3> QED BY <1>10, <3>1, <3>2, <3>3, <3>4
  <2> QED BY <1>5, <2>2, <2>4
<1> QED BY <1>6, <1>7, <1>8, <1>9, <1>10, NodeSteps DEF LowerNode

\* What the lowering has resolved, of a body that keeps its names apart.
AgreeInv ==
  /\ PassesInv
  /\ Sequence(bound) /\ Sequence(resolved)
  /\ lpos = 0 => resolved = <<>>
  /\ lowered = "none" /\ lpos # 0 => Len(resolved) = lpos - 1
  /\ DistinctInBlock /\ NoTempNames => \A i \in 1 .. Len(resolved) : Same(resolved[i], bound[i])

LEMMA InitAgrees == Init => AgreeInv
<1> SUFFICES ASSUME Init PROVE AgreeInv
  OBVIOUS
<1>1. PassesInv
  BY InitPasses
<1>2. bound = <<>> /\ resolved = <<>> /\ lpos = 0
  BY DEF Init, CheckInit, LowerInit
<1>3. <<>> \in Seq(Nat) /\ Len(<<>>) = 0
  OBVIOUS
<1> QED BY <1>1, <1>2, <1>3 DEF AgreeInv, Sequence

\* Before the lowering there is nothing to agree on.
LEMMA BeforeAgrees ==
  ASSUME AgreeInv, Parse \/ Check
  PROVE  AgreeInv'
<1>1. PassesInv'
  BY ParsePasses, CheckPasses DEF AgreeInv
<1>2. verdict = "none" /\ resolved' = resolved /\ lpos' = lpos
  <2>1. CASE Parse
    <3>1. ~parsed
      BY <2>1 DEF Parse, ParseNext, ParseStmt, ParseOpen, ParseElse, ParseArm, ParseEnd, ParseDone, Room
    <3> QED BY <2>1, <3>1 DEF AgreeInv, PassesInv, CheckInv, Parse, lowerVars
  <2>2. CASE Check
    BY <2>2 DEF Check, CheckNext, EnterProc, CheckDecl, CheckAssign, CheckExit, CheckOpen, CheckElse,
                CheckCase, CheckArm, CheckEnd, LeaveProc, At, lowerVars
  <2> QED BY <2>1, <2>2
<1>3. lpos = 0 /\ resolved = <<>>
  BY <1>2 DEF AgreeInv, PassesInv
<1>4. Sequence(bound')
  <2>1. bound' = bound \/ \E r : bound' = Append(bound, r)
    BY DEF Parse, checkVars, Check, CheckNext, EnterProc, CheckDecl, CheckAssign, CheckExit, CheckOpen, CheckElse,
           CheckCase, CheckArm, CheckEnd, LeaveProc, Reject, Accept
  <2>2. PICK bd : bd = bound
    OBVIOUS
  <2>3. Sequence(bd) /\ \A r : Sequence(Append(bd, r))
    BY <2>2, Appends DEF AgreeInv
  <2> QED BY <2>1, <2>2, <2>3
<1>5. Sequence(resolved')
  BY <1>2 DEF AgreeInv
<1>6. resolved' = <<>> /\ lpos' = 0 /\ Len(<<>>) = 0
  BY <1>2, <1>3
<1> QED BY <1>1, <1>4, <1>5, <1>6 DEF AgreeInv

\* What is said of the body alone does not change with it.
LEMMA SameBody ==
  ASSUME prog' = prog
  PROVE  /\ Nodes' = Nodes
         /\ \A i : Kind(i)' = Kind(i) /\ Binds(i)' = Binds(i)
         /\ DistinctInBlock' = DistinctInBlock
<1>1. Nodes' = Nodes /\ \A i : Kind(i)' = Kind(i)
  BY DEF Nodes, Kind
<1>2. ASSUME NEW i PROVE Binds(i)' = Binds(i)
  BY DEF Binds, Kind
<1>3. ASSUME NEW i PROVE Level(i)' = Level(i)
  <2>1. /\ {j \in 1 .. i - 1 : Kind(j) \in Openers}' = {j \in 1 .. i - 1 : Kind(j) \in Openers}
        /\ {j \in 1 .. i - 1 : Kind(j) = "end"}' = {j \in 1 .. i - 1 : Kind(j) = "end"}
    BY <1>1
  <2> QED BY <2>1 DEF Level
<1>4. ASSUME NEW i PROVE Depth(i)' = Depth(i)
  <2>1. Level(i)' = Level(i) /\ Kind(i)' = Kind(i)
    BY <1>1, <1>3
  <2> QED BY <2>1 DEF Depth
<1>5. ASSUME NEW i PROVE Blocks(i)' = Blocks(i)
  BY <1>1, <1>3, <1>4 DEF Blocks
<1>6. ASSUME NEW i PROVE Home(i)' = Home(i)
  BY <1>1, <1>5 DEF Home
<1>7. DistinctInBlock' = DistinctInBlock
  BY <1>1, <1>2, <1>6 DEF DistinctInBlock
<1> QED BY <1>1, <1>2, <1>7

\* A step that resolves nothing leaves what was resolved.
LEMMA StillAgrees ==
  ASSUME AgreeInv, PassesInv', prog' = prog, bound' = bound, resolved' = resolved, tmp_counter' = tmp_counter,
         lpos' = 0 => lpos = 0, lowered' = "none" => lowered = "none" /\ ((lpos = 0 /\ lpos' = 1) \/ lpos' = lpos)
  PROVE  AgreeInv'
<1>1. Sequence(bound') /\ Sequence(resolved')
  BY DEF AgreeInv
<1>2. lpos' = 0 => resolved' = <<>>
  BY DEF AgreeInv
<1>3. lowered' = "none" /\ lpos' # 0 => Len(resolved') = lpos' - 1
  <2>1. Len(<<>>) = 1 - 1
    OBVIOUS
  <2> QED BY <2>1 DEF AgreeInv
<1>4. ASSUME DistinctInBlock', NoTempNames'
      PROVE  (\A i \in 1 .. Len(resolved) : Same(resolved[i], bound[i]))'
  <2>1. DistinctInBlock /\ Nodes' = Nodes /\ \A i : Binds(i)' = Binds(i)
    BY <1>4, SameBody
  <2>2. NoTempNames
    <3>1. Temps' = Temps
      BY DEF Temps
    <3>2. (UNION {Binds(i) : i \in Nodes})' = UNION {Binds(i) : i \in Nodes}
      BY <2>1
    <3> QED BY <1>4, <3>1, <3>2 DEF NoTempNames, Outermost
  <2>3. \A i \in 1 .. Len(resolved) : Same(resolved[i], bound[i])
    BY <2>1, <2>2 DEF AgreeInv
  <2>4. \A d : ArmField(d)' = ArmField(d)
    BY DEF ArmField, Kind
  <2> QED BY <2>3, <2>4 DEF Same
<1> QED BY <1>1, <1>2, <1>3, <1>4 DEF AgreeInv, Sequence

LEMMA LowerAgrees ==
  ASSUME AgreeInv, Lower
  PROVE  AgreeInv'
<1>1. PassesInv /\ PassesInv'
  BY LowerPasses DEF AgreeInv
<1>2. verdict = "ok" /\ LowerNext /\ prog' = prog /\ bound' = bound
  BY DEF Lower, parseVars, checkVars
<1>3. LowerProc \/ LowerRet \/ LowerNode
  BY <1>2 DEF LowerNext, LowerNode
<1>4. PICK S, H : Along(S, H)
  BY <1>1, <1>2 DEF PassesInv
<1>5. Nested(prog, S) /\ Walked(prog, H, bound, Len(prog) + 1) /\ Len(prog) \in Nat
  BY <1>4 DEF Along, Nested
<1>6. CASE LowerProc
  BY <1>1, <1>2, <1>6, StillAgrees DEF LowerProc
<1>7. CASE LowerRet
  BY <1>1, <1>2, <1>7, StillAgrees DEF LowerRet
<1>8. CASE LowerNode /\ lowered' = "abort"
  <2>1. \E w : Abort(w)
    <3>1. LowerAssign \/ LowerExit \/ LowerString
      BY <1>8, NodeSteps
    <3>2. lowered # "abort"
      BY <1>8, NodeSteps
    <3> QED BY <1>8, <3>1, <3>2 DEF LowerAssign, LowerExit, LowerString, Emits
  <2>2. resolved' = resolved /\ tmp_counter' = tmp_counter /\ lpos' = lpos
    BY <2>1 DEF Abort
  <2> QED BY <1>1, <1>2, <1>8, <2>2, StillAgrees
<1>9. CASE LowerNode /\ lowered' # "abort"
  <2>1. lowered = "none" /\ lpos \in 1 .. Len(prog) /\ lpos # 0 /\ lpos' = lpos + 1
    BY <1>5, <1>9, NodeSteps
  <2>2. Following(H) /\ tmp_counter \in Nat
    BY <1>4, <2>1 DEF Along, Following
  <2>3. Accepts(prog[lpos], H[lpos], lpos, bound[lpos]) /\ Ready(S, H)
    <3>1. PICK pr, n, i, bd : pr = prog /\ n = Len(pr) + 1 /\ i = lpos /\ bd = bound
      OBVIOUS
    <3>2. i \in 1 .. n - 1 /\ i \in 1 .. n
      BY <1>5, <2>1, <3>1
    <3>3. Accepts(pr[i], H[i], i, bd[i]) /\ Moves(pr[i], H[i], H[i + 1], i)
      BY <1>5, <3>1, <3>2 DEF Walked
    <3>4. Shaped(pr, S, H, i) /\ Entered(pr, S, H, i)
      BY <1>5, <3>1, <3>2, WalkAll
    <3> QED BY <1>5, <2>1, <2>2, <3>1, <3>3, <3>4 DEF Ready
  <2>4. /\ \E r : resolved' = Append(resolved, r)
        /\ tmp_counter' \in Nat /\ tmp_counter <= tmp_counter'
    BY <1>9, <2>2, NodeAppends
  <2>5. PICK rs, n, k : rs = resolved /\ n = Len(rs) /\ k = lpos
    OBVIOUS
  <2>6. Sequence(rs) /\ n = k - 1 /\ k \in Nat \ {0}
    BY <1>5, <2>1, <2>5 DEF AgreeInv
  <2>7. ASSUME NEW r
        PROVE  /\ Sequence(Append(rs, r)) /\ Len(Append(rs, r)) = k
               /\ \A i \in 1 .. k - 1 : Append(rs, r)[i] = rs[i]
               /\ Append(rs, r)[k] = r
    <3>1. Len(rs) + 1 = k /\ Len(rs) = k - 1
      BY <2>5, <2>6
    <3>2. /\ Sequence(Append(rs, r)) /\ Len(Append(rs, r)) = Len(rs) + 1
          /\ \A i \in 1 .. Len(rs) : Append(rs, r)[i] = rs[i]
          /\ Append(rs, r)[Len(rs) + 1] = r
      BY <2>6, Appends
    <3> QED BY <3>1, <3>2
  <2>8. Sequence(resolved') /\ Len(resolved') = lpos' - 1 /\ lpos' # 0
    <3>1. PICK r : resolved' = Append(rs, r)
      BY <2>4, <2>5
    <3> QED BY <2>1, <2>5, <2>6, <2>7, <3>1
  <2>9. ASSUME DistinctInBlock', NoTempNames'
        PROVE  (\A i \in 1 .. Len(resolved) : Same(resolved[i], bound[i]))'
    <3>1. DistinctInBlock /\ Nodes' = Nodes /\ \A i : Binds(i)' = Binds(i)
      <4>1. Nodes' = Nodes /\ (\A i : Binds(i)' = Binds(i)) /\ DistinctInBlock' = DistinctInBlock
        BY <1>2, SameBody
      <4> QED BY <2>9, <4>1
    <3>2. NoTempNames
      <4>1. Temps \subseteq Temps'
        <5>1. \A t \in 0 .. tmp_counter : t \in 0 .. tmp_counter'
          BY <2>2, <2>4
        <5> QED BY <5>1 DEF Temps
      <4>2. (UNION {Binds(i) : i \in Nodes})' = UNION {Binds(i) : i \in Nodes}
        BY <3>1
      <4> QED BY <2>9, <4>1, <4>2 DEF NoTempNames, Outermost
    <3>3. Sorted(S, H, lpos)
      <4>1. lpos \in 1 .. Len(prog) + 1
        BY <1>5, <2>1
      <4> QED BY <1>5, <3>1, <4>1, SortedAll
    <3>4. PICK b : b = bound[lpos]
      OBVIOUS
    <3>5. Accepts(prog[lpos], H[lpos], lpos, b)
      BY <2>3, <3>4
    <3>6. PICK r : resolved' = Append(resolved, r) /\ Same(r, b)
      BY <1>9, <2>3, <3>1, <3>2, <3>3, <3>5, NodeResolves
    <3>7. \A i \in 1 .. n : Same(rs[i], bound[i])
      BY <2>5, <3>1, <3>2 DEF AgreeInv
    <3>8. \A i \in 1 .. k : Same(Append(rs, r)[i], bound[i])
      <4>1. \A i \in 1 .. k : i = k \/ i \in 1 .. k - 1
        BY <2>6
      <4> QED BY <2>5, <2>6, <2>7, <3>4, <3>6, <3>7, <4>1
    <3>9. \A i \in 1 .. Len(resolved') : Same((resolved')[i], (bound')[i])
      BY <1>2, <2>5, <2>7, <3>6, <3>8
    <3>10. \A d : ArmField(d)' = ArmField(d)
      BY <1>2 DEF ArmField, Kind
    <3> QED BY <3>9, <3>10 DEF Same
  <2>10. Sequence(bound')
    BY <1>2 DEF AgreeInv
  <2> QED BY <1>1, <2>1, <2>8, <2>9, <2>10 DEF AgreeInv
<1> QED BY <1>3, <1>6, <1>7, <1>8, <1>9

LEMMA AgreeSays == AgreeInv => PassesAgree
<1> SUFFICES ASSUME AgreeInv, DistinctInBlock, NoTempNames PROVE PassesAgree
  BY DEF PassesAgree
<1>1. PICK m, n : m = Len(resolved) /\ n = Len(bound)
  OBVIOUS
<1>2. m \in Nat /\ n \in Nat
  BY <1>1 DEF AgreeInv, Sequence
<1>3. Min({m, n}) \in Nat /\ Min({m, n}) <= m
  <2>1. {m, n} \in SUBSET Nat /\ {m, n} # {}
    BY <1>2
  <2>2. Min({m, n}) \in {m, n} /\ \A k \in {m, n} : Min({m, n}) <= k
    BY <2>1, MinOf
  <2> QED BY <1>2, <2>2
<1>4. \A i \in 1 .. Min({m, n}) : i \in 1 .. m
  BY <1>2, <1>3
<1>5. \A i \in 1 .. m : Same(resolved[i], bound[i])
  BY <1>1 DEF AgreeInv
<1> QED BY <1>1, <1>4, <1>5 DEF PassesAgree, Same

\* The checker's scope_lookup, the newest of a scope's entries first, and
\* lscope_find, the oldest first, give every operand the lowering has reached one
\* declaration, whatever the names a body shadows: of a body no block of which
\* declares a name twice or reads a name it is declaring, and whose names are
\* none the compiler makes up, all but the fields of variants.
THEOREM NamesAgree == Spec => []PassesAgree
<1>1. Init => AgreeInv
  BY InitAgrees
<1>2. AgreeInv /\ [Next]_vars => AgreeInv'
  <2> SUFFICES ASSUME AgreeInv, [Next]_vars PROVE AgreeInv'
    OBVIOUS
  <2>1. CASE Parse \/ Check
    BY <2>1, BeforeAgrees
  <2>2. CASE Lower
    BY <2>2, LowerAgrees
  <2>3. CASE Emit
    <3>1. PassesInv'
      BY <2>3, EmitPasses DEF AgreeInv
    <3> QED BY <2>3, <3>1, StillAgrees DEF Emit, parseVars, checkVars
  <2>4. CASE UNCHANGED <<parseVars, checkVars, lowerVars, emitted>>
    <3>1. PassesInv'
      BY <2>4, StillPasses DEF AgreeInv
    <3> QED BY <2>4, <3>1, StillAgrees DEF parseVars, checkVars, lowerVars
  <2>5. Run \/ Halt \/ UNCHANGED vars => UNCHANGED <<parseVars, checkVars, lowerVars, emitted>>
    BY DEF Run, Halt, vars
  <2> QED BY <2>1, <2>2, <2>3, <2>4, <2>5 DEF Next
<1>3. AgreeInv => PassesAgree
  BY AgreeSays
<1> QED BY <1>1, <1>2, <1>3, PTL DEF Spec
=============================================================================
