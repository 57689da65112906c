------------------------- MODULE ExpressionsProofs -------------------------
(***************************************************************************)
(* What lower_expr returns has been computed when its caller's instruction *)
(* runs, and a temporary is written once, for bodies of any size over any  *)
(* variables and procedures (OperandsReady); and what the code leaves in   *)
(* the variables is what the expressions mean (ValuesKept, further down).  *)
(*                                                                         *)
(* OperandsReady says nothing of what is still to be emitted, so it is not *)
(* inductive; IInv adds that every pending result, and every variable of   *)
(* the text, is written by the code there is, and that destinations are    *)
(* variables of the text or temporaries the counter has passed.            *)
(***************************************************************************)
EXTENDS Expressions, SequenceTheorems, TLAPS

Others == Scalars \cup Arrays \cup {None}

\* A parameter, or the destination of an instruction.
Written(name) ==
  name \in DOMAIN Initial \/ \E q \in 1 .. Len(code) : code[q].dst = name
Usable(v) == v.kind = "var" => Written(v.name)

Counted ==
  /\ nodes \in 0 .. MaxNodes
  /\ tmp_counter \in 0 .. nodes * (IR_MAX_RETS + 1)

CodeReady ==
  /\ code \in Seq(Range(code))
  /\ \A p \in 1 .. Len(code) : code[p].dst \in Temps \cup Others
  /\ OperandsReady

\* An unfinished literal or declaration stands for its storage.
Waits(r) ==
  /\ "val" \in DOMAIN r /\ Usable(r.val)
  /\ r.is # "result" => r.val.kind = "var"
PendingReady ==
  /\ pending \in Seq(Range(pending))
  /\ \A i \in 1 .. Len(pending) : Waits(pending[i])

VariablesWritten == \A w \in DOMAIN env : Written(w[1])

IInv == Counted /\ CodeReady /\ PendingReady /\ VariablesWritten

-----------------------------------------------------------------------------
\* A sequence is one over its own elements.
LEMMA OverItsRange ==
  ASSUME NEW S, NEW s \in Seq(S)
  PROVE  s \in Seq(Range(s))
BY DEF Range

\* A node counts no more temporaries than MaxTmps holds.
LEMMA CounterStep ==
  ASSUME Counted, NEW temps \in 0 .. IR_MAX_RETS + 1,
         nodes' = nodes + 1, nodes + 1 <= MaxNodes, tmp_counter' = tmp_counter + temps
  PROVE  Counted' /\ tmp_counter + temps <= MaxTmps /\ tmp_counter \in Nat
<1> DEFINE r == IR_MAX_RETS + 1
<1>1. /\ nodes \in Nat /\ MaxNodes \in Nat /\ r \in Nat /\ nodes * r \in Nat
      /\ tmp_counter \in 0 .. nodes * r
  BY ExpressionsAssumption DEF Counted
<1> HIDE DEF r
<1>2. (nodes + 1) * r = nodes * r + r
  BY <1>1
<1>3. MaxNodes * r = (nodes + 1) * r + (MaxNodes - (nodes + 1)) * r
  BY <1>1
<1>4. (MaxNodes - (nodes + 1)) * r >= 0
  BY <1>1
<1>5. tmp_counter + temps \in 0 .. (nodes + 1) * r
  BY <1>1, <1>2 DEF r
<1>6. MaxNodes * r \in Int /\ (nodes + 1) * r \in Int /\ (MaxNodes - (nodes + 1)) * r \in Int
  BY <1>1
<1>7. tmp_counter + temps <= MaxNodes * r
  BY <1>1, <1>3, <1>4, <1>5, <1>6
<1>8. Counted'
  BY <1>1, <1>5 DEF Counted, r
<1> QED BY <1>1, <1>7, <1>8 DEF MaxTmps, r

\* A new temporary has a name no variable of the text and no earlier one has.
LEMMA FreshTmp ==
  ASSUME tmp_counter \in 0 .. MaxTmps
  PROVE  /\ tmp(0) = TmpName(tmp_counter)
         /\ tmp(0) \notin Temps \cup Others /\ Temps \cap Others = {}
<1>1. tmp_counter \in Nat /\ tmp_counter + 0 = tmp_counter
  OBVIOUS
<1>2. tmp(0) = TmpName(tmp_counter)
  BY <1>1 DEF tmp
<1>3. \A k \in 0 .. tmp_counter - 1 : k \in 0 .. MaxTmps /\ k # tmp_counter
  BY ExpressionsAssumption DEF MaxTmps
<1> QED BY <1>2, <1>3, ExpressionsAssumption DEF Temps, Others

\* Instructions that write new temporaries, each once, or variables, and read
\* what is written before them, keep the code ready.
LEMMA CodeStep ==
  ASSUME Counted, CodeReady, NEW S, NEW instrs \in Seq(S),
         NEW temps \in 0 .. IR_MAX_RETS + 1, NEW rest, Node(instrs, temps, rest),
         \A j \in 1 .. Len(instrs) :
           instrs[j].dst \in Others \/ (temps > 0 /\ instrs[j].dst = tmp(0)),
         \A j, k \in 1 .. Len(instrs) :
           instrs[j].dst = tmp(0) /\ instrs[k].dst = tmp(0) => j = k,
         \A j \in 1 .. Len(instrs) : \A v \in Reads(instrs[j]) :
           v.kind = "var" => \/ Written(v.name)
                             \/ \E h \in 1 .. j - 1 : instrs[h].dst = v.name
  PROVE  /\ Counted' /\ CodeReady'
         /\ \A n : Written(n) => Written(n)'
         /\ \A j \in 1 .. Len(instrs) : Written(instrs[j].dst)'
<1> DEFINE L == Len(code)
           M == Len(instrs)
           T == TmpName(tmp_counter)
<1>1. /\ code' = code \o instrs /\ nodes' = nodes + 1 /\ tmp_counter' = tmp_counter + temps
      /\ nodes + 1 <= MaxNodes
  <2>1. nodes \in Nat /\ MaxNodes \in Nat
    BY ExpressionsAssumption DEF Counted
  <2> QED BY <2>1 DEF Node
<1>2. /\ Counted' /\ tmp_counter \in Nat /\ tmp_counter' \in Nat
      /\ tmp_counter' <= MaxTmps /\ tmp_counter <= MaxTmps /\ MaxTmps \in Int
  <2>1. Counted' /\ tmp_counter + temps <= MaxTmps /\ tmp_counter \in Nat
    BY <1>1, CounterStep
  <2>2. MaxTmps \in Int
    BY ExpressionsAssumption DEF MaxTmps
  <2>3. temps \in Nat
    BY ExpressionsAssumption
  <2> QED BY <1>1, <2>1, <2>2, <2>3
<1>3. tmp(0) = T /\ T \notin Temps \cup Others /\ Temps \cap Others = {}
  BY <1>2, FreshTmp
<1>4. Temps' \cap Others = {}
  BY <1>2, ExpressionsAssumption DEF Temps, Others
<1>5. Temps \subseteq Temps' /\ (temps > 0 => T \in Temps')
  BY <1>1, <1>2 DEF Temps
<1>6. /\ L \in Nat /\ M \in Nat
      /\ code' \in Seq(Range(code')) /\ Len(code') = L + M
      /\ \A p \in 1 .. L : code'[p] = code[p]
      /\ \A p \in L + 1 .. L + M : p - L \in 1 .. M /\ code'[p] = instrs[p - L]
  <2> DEFINE U == Range(code) \cup S
  <2>1. code \in Seq(U) /\ instrs \in Seq(U)
    BY DEF CodeReady
  <2> HIDE DEF U
  <2>2. /\ code \o instrs \in Seq(U) /\ Len(code \o instrs) = L + M
        /\ \A i \in 1 .. L + M : (code \o instrs)[i] = IF i <= L THEN code[i] ELSE instrs[i - L]
    BY <2>1, ConcatProperties
  <2>3. L \in Nat /\ M \in Nat
    BY <2>1
  <2>4. code' \in Seq(Range(code'))
    BY <1>1, <2>2, OverItsRange
  <2> QED BY <1>1, <2>2, <2>3, <2>4
<1> HIDE DEF L, M, T
<1>7. \A n : Written(n) => Written(n)'
  BY <1>6 DEF Written, L
<1>8. ASSUME NEW j \in 1 .. M PROVE /\ L + j \in L + 1 .. L + M /\ code'[L + j] = instrs[j]
  <2>1. L + j \in L + 1 .. L + M /\ (L + j) - L = j
    BY <1>6
  <2> QED BY <2>1, <1>6
<1>9. \A j \in 1 .. Len(instrs) : Written(instrs[j].dst)'
  <2>1. ASSUME NEW j \in 1 .. M PROVE Written(instrs[j].dst)'
    <3>1. L + j \in 1 .. Len(code') /\ code'[L + j].dst = instrs[j].dst
      BY <1>6, <1>8
    <3> QED BY <3>1 DEF Written
  <2> QED BY <2>1 DEF M
<1>10. ASSUME NEW p \in 1 .. L PROVE code'[p].dst \in Temps \cup Others
  BY <1>6 DEF CodeReady, L
<1>11. ASSUME NEW p \in L + 1 .. L + M
       PROVE  code'[p].dst \in Others \/ (temps > 0 /\ code'[p].dst = T)
  BY <1>3, <1>6 DEF M
<1>12. \A p \in 1 .. Len(code') : code'[p].dst \in Temps' \cup Others
  BY <1>5, <1>6, <1>10, <1>11
<1>13. ASSUME NEW p \in 1 .. Len(code'), NEW q \in 1 .. p - 1, code'[q].dst \in Temps'
       PROVE  code'[q].dst # code'[p].dst
  <2>1. CASE p <= L
    <3>1. p \in 1 .. L /\ q \in 1 .. L /\ code'[q] = code[q] /\ code'[p] = code[p]
      BY <1>6, <2>1
    <3>2. code[q].dst \in Temps
      BY <1>4, <1>10, <1>13, <3>1
    <3> QED BY <3>1, <3>2 DEF CodeReady, OperandsReady, L
  <2>2. CASE p > L /\ q <= L
    <3>1. p \in L + 1 .. L + M /\ q \in 1 .. L
      BY <1>6, <2>2
    <3>2. code'[q].dst \in Temps
      BY <1>4, <1>10, <1>13, <3>1
    <3> QED BY <1>3, <1>11, <3>1, <3>2
  <2>3. CASE p > L /\ q > L
    <3>1. /\ p \in L + 1 .. L + M /\ q \in L + 1 .. L + M
          /\ p - L \in 1 .. M /\ q - L \in 1 .. M /\ p - L # q - L
      BY <1>6, <2>3
    <3>2. code'[q].dst = T
      BY <1>4, <1>11, <1>13, <3>1
    <3>3. code'[q] = instrs[q - L] /\ code'[p] = instrs[p - L]
      BY <1>6, <3>1
    <3> QED BY <1>3, <3>1, <3>2, <3>3 DEF M
  <2> QED BY <1>6, <2>1, <2>2, <2>3
<1>14. ASSUME NEW p \in 1 .. Len(code'), NEW v \in Reads(code'[p]), v.kind = "var"
       PROVE  v.name \in DOMAIN Initial \/ \E q \in 1 .. p - 1 : code'[q].dst = v.name
  <2>1. CASE p <= L
    <3>1. p \in 1 .. L /\ code'[p] = code[p] /\ \A q \in 1 .. p - 1 : code'[q] = code[q]
      BY <1>6, <2>1
    <3> QED BY <1>14, <3>1 DEF CodeReady, OperandsReady, L
  <2>2. CASE p > L
    <3>1. p - L \in 1 .. M /\ code'[p] = instrs[p - L]
      <4>1. p \in L + 1 .. L + M
        BY <1>6, <2>2
      <4> QED BY <1>6, <4>1
    <3>2. Written(v.name) \/ \E h \in 1 .. (p - L) - 1 : instrs[h].dst = v.name
      <4> DEFINE j == p - L
      <4>1. j \in 1 .. Len(instrs) /\ v \in Reads(instrs[j])
        BY <1>14, <3>1 DEF M
      <4> HIDE DEF j
      <4>2. Written(v.name) \/ \E h \in 1 .. j - 1 : instrs[h].dst = v.name
        BY <1>14, <4>1
      <4> QED BY <4>2 DEF j
    <3>3. CASE Written(v.name)
      BY <1>6, <2>2, <3>3 DEF Written, L
    <3>4. ASSUME NEW h \in 1 .. (p - L) - 1, instrs[h].dst = v.name
          PROVE  \E q \in 1 .. p - 1 : code'[q].dst = v.name
      <4>1. h \in 1 .. M /\ L + h \in 1 .. p - 1
        BY <1>6, <3>1, <2>2
      <4> QED BY <1>8, <3>4, <4>1
    <3> QED BY <3>2, <3>3, <3>4
  <2> QED BY <1>6, <2>1, <2>2
<1>15. OperandsReady'
  <2> SUFFICES ASSUME NEW p \in 1 .. Len(code')
               PROVE  /\ \A q \in 1 .. p - 1 :
                            code'[q].dst \in Temps' => code'[q].dst # code'[p].dst
                      /\ \A v \in Reads(code'[p]) : v.kind = "var" =>
                            \/ v.name \in DOMAIN Initial
                            \/ \E q \in 1 .. p - 1 : code'[q].dst = v.name
    BY DEF OperandsReady
  <2> QED BY <1>13, <1>14
<1> QED BY <1>2, <1>6, <1>7, <1>9, <1>12, <1>15 DEF CodeReady

-----------------------------------------------------------------------------
\* What is left of the pending results when the last n are used.
LEMMA UnderReady ==
  ASSUME PendingReady, NEW n \in 0 .. Len(pending)
  PROVE  /\ Under(n) \in Seq(Range(pending))
         /\ \A i \in 1 .. Len(Under(n)) : Waits(Under(n)[i])
<1> DEFINE m == Len(pending) - n
<1>1. Len(pending) \in Nat /\ m \in 0 .. Len(pending)
  BY DEF PendingReady
<1> HIDE DEF m
<1>2. \A i \in 1 .. m : pending[i] \in Range(pending) /\ Waits(pending[i])
  BY <1>1 DEF PendingReady, Range
<1>3. /\ SubSeq(pending, 1, m) \in Seq(Range(pending)) /\ Len(SubSeq(pending, 1, m)) = m
      /\ \A i \in 1 .. m : SubSeq(pending, 1, m)[i] = pending[i]
  <2>1. /\ SubSeq(pending, 1, m) \in Seq(Range(pending))
        /\ Len(SubSeq(pending, 1, m)) = IF 1 <= m THEN m - 1 + 1 ELSE 0
        /\ \A i \in 1 .. m - 1 + 1 : SubSeq(pending, 1, m)[i] = pending[1 + i - 1]
    BY <1>1, <1>2, SubSeqProperties
  <2>2. m - 1 + 1 = m /\ \A i \in 1 .. m : 1 + i - 1 = i
    BY <1>1
  <2> QED BY <1>1, <2>1, <2>2
<1> QED BY <1>2, <1>3 DEF Under, m

\* The results pending at the top.
LEMMA TopReady ==
  ASSUME PendingReady
  PROVE  /\ Len(pending) >= 1 => Waits(Top)
         /\ Len(pending) >= 2 => Waits(Second)
BY DEF PendingReady, Top, Second, Last

\* A result whose operand is written joins results that wait.
LEMMA PendingStep ==
  ASSUME NEW S, NEW base \in Seq(S), \A i \in 1 .. Len(base) : Waits(base[i]),
         NEW r, "val" \in DOMAIN r, Usable(r.val)', r.is # "result" => r.val.kind = "var",
         \A n : Written(n) => Written(n)',
         pending' = Append(base, r)
  PROVE  PendingReady'
<1>1. /\ base \in Seq(S \cup {r}) /\ r \in S \cup {r} /\ Len(base) \in Nat
  OBVIOUS
<1>2. /\ pending' \in Seq(S \cup {r}) /\ Len(pending') = Len(base) + 1
      /\ \A i \in 1 .. Len(base) : pending'[i] = base[i]
      /\ pending'[Len(base) + 1] = r
  BY <1>1, AppendProperties
<1>3. pending' \in Seq(Range(pending'))
  BY <1>2, OverItsRange
<1>4. Waits(r)'
  BY DEF Waits
<1>5. \A x : Waits(x) => Waits(x)'
  BY DEF Waits, Usable
<1>6. \A i \in 1 .. Len(pending') : \E x : x = pending'[i] /\ Waits(x)'
  <2> TAKE i \in 1 .. Len(pending')
  <2>1. CASE i \in 1 .. Len(base)
    BY <1>2, <1>5, <2>1
  <2>2. CASE i = Len(base) + 1
    BY <1>2, <1>4, <2>2
  <2> QED BY <1>1, <1>2, <2>1, <2>2
<1> QED BY <1>3, <1>6 DEF PendingReady, Waits, Usable, Written

\* Variables stay written.
LEMMA EnvStep ==
  ASSUME VariablesWritten, \A n : Written(n) => Written(n)',
         \A w \in DOMAIN env' : w \in DOMAIN env \/ Written(w[1])'
  PROVE  VariablesWritten'
BY DEF VariablesWritten

\* No instruction, one, or two keep the code ready.
LEMMA EmptyStep ==
  ASSUME IInv, NEW rest, Node(<<>>, 0, rest)
  PROVE  Counted' /\ CodeReady' /\ \A n : Written(n) => Written(n)'
<1> DEFINE is == <<>>
<1>1. is \in Seq({}) /\ Len(is) = 0 /\ 0 \in 0 .. IR_MAX_RETS + 1 /\ Node(is, 0, rest)
  BY ExpressionsAssumption
<1> HIDE DEF is
<1>2. ~ \E j \in 1 .. Len(is) : TRUE
  BY <1>1
<1> QED BY <1>1, <1>2, CodeStep DEF IInv

LEMMA SingleStep ==
  ASSUME IInv, NEW i, \A v \in Reads(i) : Usable(v), NEW temps \in 0 .. IR_MAX_RETS + 1,
         i.dst \in Others \/ (temps > 0 /\ i.dst = tmp(0)),
         NEW rest, Node(<<i>>, temps, rest)
  PROVE  Counted' /\ CodeReady' /\ Written(i.dst)' /\ \A n : Written(n) => Written(n)'
<1> DEFINE is == <<i>>
<1>1. is \in Seq({i}) /\ Len(is) = 1 /\ is[1] = i /\ Node(is, temps, rest)
  OBVIOUS
<1> HIDE DEF is
<1>2. \A j \in 1 .. Len(is) : j = 1 /\ is[j] = i
  BY <1>1
<1>3. \A j \in 1 .. Len(is) : is[j].dst \in Others \/ (temps > 0 /\ is[j].dst = tmp(0))
  BY <1>2
<1>4. \A j, k \in 1 .. Len(is) : is[j].dst = tmp(0) /\ is[k].dst = tmp(0) => j = k
  BY <1>2
<1>5. \A j \in 1 .. Len(is) : \A v \in Reads(is[j]) :
        v.kind = "var" => \/ Written(v.name)
                          \/ \E h \in 1 .. j - 1 : is[h].dst = v.name
  BY <1>2 DEF Usable
<1>6. /\ Counted' /\ CodeReady'
      /\ \A n : Written(n) => Written(n)'
      /\ \A j \in 1 .. Len(is) : Written(is[j].dst)'
  BY <1>1, <1>3, <1>4, <1>5, CodeStep DEF IInv
<1>7. Written(i.dst)'
  BY <1>1, <1>6
<1> QED BY <1>6, <1>7

LEMMA PairStep ==
  ASSUME IInv, NEW i, NEW k, i.dst = tmp(0), k.dst = None,
         \A v \in Reads(i) : Usable(v),
         \A v \in Reads(k) : Usable(v) \/ v.name = i.dst,
         NEW rest, Node(<<i, k>>, 1, rest)
  PROVE  Counted' /\ CodeReady' /\ \A n : Written(n) => Written(n)'
<1> DEFINE is == <<i, k>>
<1>1. /\ is \in Seq({i, k}) /\ Len(is) = 2 /\ is[1] = i /\ is[2] = k
      /\ Node(is, 1, rest) /\ 1 \in 0 .. IR_MAX_RETS + 1
  BY ExpressionsAssumption
<1> HIDE DEF is
<1>2. \A j \in 1 .. Len(is) : (j = 1 /\ is[j] = i) \/ (j = 2 /\ is[j] = k)
  BY <1>1
<1>3. None # tmp(0) /\ None \in Others
  <2>1. tmp_counter \in 0 .. MaxTmps
    <3>1. nodes + 1 <= MaxNodes /\ nodes' = nodes + 1 /\ tmp_counter' = tmp_counter + 1
      <4>1. nodes \in Nat /\ MaxNodes \in Nat
        BY ExpressionsAssumption DEF IInv, Counted
      <4> QED BY <1>1, <4>1 DEF Node
    <3>2. tmp_counter + 1 <= MaxTmps /\ tmp_counter \in Nat
      BY <1>1, <3>1, CounterStep DEF IInv
    <3>3. MaxTmps \in Int
      BY ExpressionsAssumption DEF MaxTmps
    <3> QED BY <3>2, <3>3
  <2> QED BY <2>1, FreshTmp DEF Others
<1>4. \A j \in 1 .. Len(is) : is[j].dst \in Others \/ (1 > 0 /\ is[j].dst = tmp(0))
  BY <1>2, <1>3
<1>5. \A j, h \in 1 .. Len(is) : is[j].dst = tmp(0) /\ is[h].dst = tmp(0) => j = h
  BY <1>2, <1>3
<1>6. ASSUME NEW j \in 1 .. Len(is), NEW v \in Reads(is[j]), v.kind = "var"
      PROVE  Written(v.name) \/ \E h \in 1 .. j - 1 : is[h].dst = v.name
  <2>1. CASE j = 1
    BY <1>1, <1>6, <2>1 DEF Usable
  <2>2. CASE j = 2
    <3>1. Written(v.name) \/ is[1].dst = v.name
      BY <1>1, <1>6, <2>2 DEF Usable
    <3>2. 1 \in 1 .. j - 1
      BY <2>2
    <3> QED BY <3>1, <3>2
  <2> QED BY <1>2, <2>1, <2>2
<1> QED BY <1>1, <1>4, <1>5, <1>6, CodeStep DEF IInv

\* An instruction that leaves its result in a new temporary.
LEMMA TmpStep ==
  ASSUME IInv, NEW i, i.dst = tmp(0), \A v \in Reads(i) : Usable(v),
         NEW S, NEW base \in Seq(S), \A j \in 1 .. Len(base) : Waits(base[j]),
         NEW r, "val" \in DOMAIN r, r.val = Var(tmp(0)),
         Node(<<i>>, 1, Append(base, r)), UNCHANGED env
  PROVE  IInv'
<1>1. 1 \in 0 .. IR_MAX_RETS + 1
  BY ExpressionsAssumption
<1>2. Counted' /\ CodeReady' /\ Written(i.dst)' /\ \A n : Written(n) => Written(n)'
  BY <1>1, SingleStep
<1>3. Usable(r.val)'
  BY <1>2 DEF Usable, Var
<1>4. r.val.kind = "var" /\ pending' = Append(base, r)
  BY DEF Var, Node
<1>5. PendingReady'
  BY <1>2, <1>3, <1>4, PendingStep
<1>6. VariablesWritten'
  BY <1>2, EnvStep DEF IInv
<1> QED BY <1>2, <1>5, <1>6 DEF IInv

\* What an instruction of one or two operands reads.
LEMMA OpReads ==
  ASSUME NEW dst, NEW a, NEW b
  PROVE  /\ \A op \in {"SUB", "STORE", "INDEX_ADDR"} : Reads(Op(op, dst, a, b)) = {a, b}
         /\ \A op \in {"ADDR", "LOAD", "NEG", "COPY"} : Reads(Op(op, dst, a, b)) = {a}
BY DEF Reads, Op, Instr
LEMMA InstrReads ==
  ASSUME NEW dst, NEW a, NEW b, NEW n
  PROVE  /\ Reads(Instr("MEMCPY", dst, a, b, n, <<>>)) = {a, b}
         /\ Reads(Instr("FIELD_ADDR", dst, a, b, n, <<>>)) = {a}
         /\ Reads(Instr("ALLOCA", dst, a, b, n, <<>>)) = {}
BY DEF Reads, Instr

\* The instruction of a node that computes one word from what is pending.
LEMMA ComputedStep ==
  ASSUME IInv, NEW op \in {"SUB", "INDEX_ADDR", "LOAD", "NEG", "ADDR"},
         NEW a, NEW b, Usable(a), op \in {"SUB", "INDEX_ADDR"} => Usable(b),
         NEW n \in 0 .. Len(pending), NEW m,
         Node(<<Op(op, tmp(0), a, b)>>, 1, Append(Under(n), Result(Var(tmp(0)), m))),
         UNCHANGED env
  PROVE  IInv'
<1> DEFINE i == Op(op, tmp(0), a, b)
           r == Result(Var(tmp(0)), m)
           base == Under(n)
<1>1. i.dst = tmp(0)
  BY DEF Op, Instr
<1>2. \A v \in Reads(i) : Usable(v)
  <2>1. CASE op \in {"SUB", "INDEX_ADDR"}
    BY <2>1, OpReads
  <2>2. CASE op \in {"ADDR", "LOAD", "NEG"}
    BY <2>2, OpReads
  <2> QED BY <2>1, <2>2
<1>3. "val" \in DOMAIN r /\ r.val = Var(tmp(0))
  BY DEF Result
<1>4. base \in Seq(Range(pending)) /\ \A j \in 1 .. Len(base) : Waits(base[j])
  BY UnderReady DEF IInv
<1>5. Node(<<i>>, 1, Append(base, r))
  OBVIOUS
<1> HIDE DEF i, r, base
<1> QED BY <1>1, <1>2, <1>3, <1>4, <1>5, TmpStep

\* Under(0) is everything.
LEMMA UnderNone ==
  ASSUME PendingReady
  PROVE  Under(0) = pending /\ 0 \in 0 .. Len(pending)
<1>1. pending \in Seq(Range(pending)) /\ Len(pending) \in Nat /\ Len(pending) - 0 = Len(pending)
  BY DEF PendingReady
<1>2. SubSeq(pending, 1, Len(pending)) = pending
  BY <1>1
<1> QED BY <1>1, <1>2 DEF Under

\* The nodes that compute a word: &x, a[i], loads, operators.
LEMMA ComputeSteps ==
  ASSUME IInv, AddressOf \/ Index \/ Load \/ Binop \/ Unop
  PROVE  IInv'
<1>0. PendingReady /\ Len(pending) \in Nat
  BY DEF IInv, PendingReady
<1>1. CASE AddressOf
  <2>1. PICK w \in DOMAIN env :
          /\ Node(<<Op("ADDR", tmp(0), Var(w[1]), VAL_NONE)>>, 1,
                  Append(Under(0), Result(Var(tmp(0)), <<Addr(w[1], 0)>>)))
          /\ UNCHANGED env
    BY <1>0, <1>1, UnderNone DEF AddressOf
  <2>2. Usable(Var(w[1]))
    BY DEF IInv, VariablesWritten, Usable, Var
  <2> QED BY <1>0, <2>1, <2>2, UnderNone, ComputedStep
<1>2. CASE Index
  <2>1. Len(pending) >= 2 /\ Usable(Top.val) /\ Usable(Second.val)
    BY <1>0, <1>2, TopReady DEF Index, Results, Waits
  <2> QED BY <1>0, <1>2, <2>1, ComputedStep DEF Index
<1>3. CASE Load
  <2>1. Len(pending) >= 1 /\ Usable(Top.val)
    BY <1>0, <1>3, TopReady DEF Load, Results, Waits
  <2> QED BY <1>0, <1>3, <2>1, ComputedStep DEF Load
<1>4. CASE Binop
  <2>1. Len(pending) >= 2 /\ Usable(Top.val) /\ Usable(Second.val)
    BY <1>0, <1>4, TopReady DEF Binop, Results, Waits
  <2> QED BY <1>0, <1>4, <2>1, ComputedStep DEF Binop
<1>5. CASE Unop
  <2>1. Len(pending) >= 1 /\ Usable(Top.val)
    BY <1>0, <1>5, TopReady DEF Unop, Results, Waits
  <2> QED BY <1>0, <1>5, <2>1, ComputedStep DEF Unop
<1> QED BY <1>1, <1>2, <1>3, <1>4, <1>5

\* The nodes that emit nothing: literals, names, and a result that is dropped.
LEMMA SilentSteps ==
  ASSUME IInv, Literal \/ Name \/ Drop
  PROVE  IInv'
<1>0. PendingReady /\ pending \in Seq(Range(pending)) /\ VariablesWritten
  BY DEF IInv, PendingReady
<1>1. CASE Literal \/ Name
  <2>1. PICK v, m : /\ Node(<<>>, 0, Append(pending, Result(v, m)))
                    /\ Usable(v) /\ UNCHANGED env
    <3>1. CASE Literal
      <4>1. PICK n \in Lits : Node(<<>>, 0, Append(pending, Result(Imm(n), <<Num(n)>>)))
                                /\ UNCHANGED env
        BY <3>1 DEF Literal
      <4>2. Usable(Imm(n))
        BY DEF Usable, Imm
      <4> QED BY <4>1, <4>2
    <3>2. CASE Name
      <4>1. PICK w \in DOMAIN env :
              /\ Node(<<>>, 0, Append(pending, Result(Var(w[1]),
                   <<IF w[1] \in Arrays THEN Addr(w[1], 0) ELSE env[w]>>)))
              /\ UNCHANGED env
        BY <3>2 DEF Name
      <4>2. Usable(Var(w[1]))
        BY <1>0 DEF VariablesWritten, Usable, Var
      <4> QED BY <4>1, <4>2
    <3> QED BY <1>1, <3>1, <3>2
  <2> DEFINE r == Result(v, m)
  <2>2. /\ "val" \in DOMAIN r /\ r.val = v /\ r.is = "result"
        /\ Node(<<>>, 0, Append(pending, r)) /\ pending' = Append(pending, r)
    BY <2>1 DEF Result, Node
  <2> HIDE DEF r
  <2>3. Counted' /\ CodeReady' /\ \A n : Written(n) => Written(n)'
    BY <2>2, EmptyStep
  <2>4. Usable(r.val)'
    BY <2>1, <2>2, <2>3 DEF Usable
  <2>5. PendingReady'
    BY <1>0, <2>2, <2>3, <2>4, PendingStep DEF PendingReady
  <2>6. VariablesWritten'
    BY <1>0, <2>1, <2>3, EnvStep
  <2> QED BY <2>3, <2>5, <2>6 DEF IInv
<1>2. CASE Drop
  <2>1. Node(<<>>, 0, <<>>) /\ UNCHANGED env /\ pending' = <<>>
    BY <1>2 DEF Drop, Node
  <2>2. Counted' /\ CodeReady' /\ \A n : Written(n) => Written(n)'
    BY <2>1, EmptyStep
  <2>3. PendingReady'
    BY <2>1 DEF PendingReady
  <2>4. VariablesWritten'
    BY <1>0, <2>1, <2>2, EnvStep
  <2> QED BY <2>2, <2>3, <2>4 DEF IInv
<1> QED BY <1>1, <1>2

\* An assignment keeps its value pending.
LEMMA StoreStep ==
  ASSUME IInv, Store
  PROVE  IInv'
<1> DEFINE i == Op("STORE", None, Top.val, Second.val)
           r == Second
           base == Under(2)
<1>1. /\ PendingReady /\ Len(pending) \in Nat /\ Len(pending) >= 2 /\ VariablesWritten
      /\ Waits(Top) /\ Waits(r)
  <2>1. PendingReady /\ Len(pending) \in Nat /\ VariablesWritten
    BY DEF IInv, PendingReady
  <2>2. Len(pending) >= 2
    BY DEF Store, Results
  <2> QED BY <2>1, <2>2, TopReady
<1>2. /\ Node(<<i>>, 0, Append(base, r)) /\ pending' = Append(base, r)
      /\ DOMAIN env' = DOMAIN env
  BY DEF Store, Node
<1>3. base \in Seq(Range(pending)) /\ \A j \in 1 .. Len(base) : Waits(base[j])
  BY <1>1, UnderReady
<1>4. i.dst \in Others /\ Reads(i) = {Top.val, Second.val}
  <2>1. i.dst = None
    BY DEF Op, Instr
  <2>2. Reads(i) = {Top.val, Second.val}
    BY OpReads
  <2> QED BY <2>1, <2>2 DEF Others
<1>5. \A v \in Reads(i) : Usable(v)
  BY <1>1, <1>4 DEF Waits
<1> HIDE DEF i, r, base
<1>6. 0 \in 0 .. IR_MAX_RETS + 1
  BY ExpressionsAssumption
<1>7. Counted' /\ CodeReady' /\ \A n : Written(n) => Written(n)'
  BY <1>2, <1>4, <1>5, <1>6, SingleStep
<1>8. PICK x : x = r
  OBVIOUS
<1>9. /\ "val" \in DOMAIN x /\ Usable(x.val)' /\ (x.is # "result" => x.val.kind = "var")
      /\ pending' = Append(base, x)
  BY <1>1, <1>2, <1>7, <1>8 DEF Waits, Usable
<1>10. PendingReady'
  BY <1>3, <1>7, <1>9, PendingStep
<1>11. VariablesWritten'
  BY <1>1, <1>2, <1>7, EnvStep
<1> QED BY <1>7, <1>10, <1>11 DEF IInv

\* A call has as many return slots as its procedure has outputs, IR_MAX_RETS at
\* most.
LEMMA RetsBounded ==
  ASSUME NEW p \in Procs
  PROVE  Rets(p) \in 0 .. IR_MAX_RETS + 1
<1>1. p.outs \in Nat /\ IR_MAX_RETS \in Nat
  BY ExpressionsAssumption
<1> DEFINE m == Min({p.outs, IR_MAX_RETS})
<1>2. \E x \in {p.outs, IR_MAX_RETS} : \A y \in {p.outs, IR_MAX_RETS} : x =< y
  BY <1>1
<1>3. m \in {p.outs, IR_MAX_RETS} /\ m =< IR_MAX_RETS
  BY <1>2 DEF Min
<1>4. m \in 0 .. IR_MAX_RETS + 1
  BY <1>1, <1>3
<1> QED BY <1>1, <1>4 DEF Rets

\* A call reads the results of its arguments and is a result itself, if it has a
\* return slot.
LEMMA CallReady ==
  ASSUME IInv, Call
  PROVE  IInv'
<1>1. PICK p \in Procs :
        LET args == [i \in 1 .. p.ins |-> pending[Len(pending) - p.ins + i]]
            values == [i \in 1 .. p.ins |-> Meant(args[i])]
            val == IF Rets(p) = 0 THEN VAL_NONE ELSE Var(tmp(0))
        IN  /\ Results(p.ins)
            /\ Node(<<Instr("CALL", val.name, VAL_NONE, VAL_NONE, 0,
                            [i \in 1 .. p.ins |-> args[i].val])>>,
                    Rets(p), Append(Under(p.ins), Result(val, <<Returned(values)>>)))
            /\ DOMAIN env' = DOMAIN env
  BY DEF Call
<1> DEFINE args == [i \in 1 .. p.ins |-> pending[Len(pending) - p.ins + i]]
           values == [i \in 1 .. p.ins |-> Meant(args[i])]
           val == IF Rets(p) = 0 THEN VAL_NONE ELSE Var(tmp(0))
           vals == [i \in 1 .. p.ins |-> args[i].val]
           instr == Instr("CALL", val.name, VAL_NONE, VAL_NONE, 0, vals)
           res == Result(val, <<Returned(values)>>)
<1>2. /\ PendingReady /\ Len(pending) \in Nat /\ VariablesWritten
      /\ p.ins \in Nat /\ p.ins <= Len(pending)
      /\ Rets(p) \in 0 .. IR_MAX_RETS + 1
  BY <1>1, RetsBounded, ExpressionsAssumption DEF IInv, PendingReady, Results
<1>3. Node(<<instr>>, Rets(p), Append(Under(p.ins), res))
  BY <1>1
<1>4. Under(p.ins) \in Seq(Range(pending))
      /\ \A j \in 1 .. Len(Under(p.ins)) : Waits(Under(p.ins)[j])
  BY <1>2, UnderReady
<1>5. \A v \in Reads(instr) : Usable(v)
  <2>1. Reads(instr) = Range(vals)
    BY DEF Reads, Instr
  <2>2. ASSUME NEW i \in 1 .. p.ins PROVE Usable(vals[i])
    <3>1. Len(pending) - p.ins + i \in 1 .. Len(pending)
      BY <1>2
    <3>2. vals[i] = pending[Len(pending) - p.ins + i].val
      OBVIOUS
    <3> QED BY <1>2, <3>1, <3>2 DEF PendingReady, Waits
  <2> QED BY <2>1, <2>2 DEF Range
<1>6. instr.dst = val.name /\ res.val = val /\ "val" \in DOMAIN res /\ res.is = "result"
  BY DEF Instr, Result
<1>7. \/ Rets(p) = 0 /\ val.kind = "none" /\ val.name = None
      \/ Rets(p) > 0 /\ val.kind = "var" /\ val.name = tmp(0)
  BY <1>2, ExpressionsAssumption DEF VAL_NONE, Var
<1> HIDE DEF instr, res, val
<1>8. PICK c, r : c = instr /\ r = res
  OBVIOUS
<1>9. Node(<<c>>, Rets(p), Append(Under(p.ins), r)) /\ \A v \in Reads(c) : Usable(v)
  BY <1>3, <1>5, <1>8
<1>10. c.dst \in Others \/ (Rets(p) > 0 /\ c.dst = tmp(0))
  BY <1>6, <1>7, <1>8 DEF Others
<1>11. Counted' /\ CodeReady' /\ Written(c.dst)' /\ \A n : Written(n) => Written(n)'
  BY <1>2, <1>9, <1>10, SingleStep
<1>12. r.val.kind = "var" => r.val.name = c.dst
  BY <1>6, <1>7, <1>8
<1>13. Usable(r.val)'
  BY <1>11, <1>12 DEF Usable
<1>14. pending' = Append(Under(p.ins), r) /\ "val" \in DOMAIN r /\ r.is = "result"
  BY <1>6, <1>8, <1>9 DEF Node
<1>15. PendingReady'
  BY <1>4, <1>11, <1>13, <1>14, PendingStep
<1>16. VariablesWritten'
  BY <1>1, <1>2, <1>11, EnvStep
<1> QED BY <1>11, <1>15, <1>16 DEF IInv

\* Array literals: storage, then the elements.
LEMMA OpenLiteralStep ==
  ASSUME IInv, OpenLiteral
  PROVE  IInv'
<1>1. PICK n \in Sizes :
        /\ Node(<<Instr("ALLOCA", tmp(0), VAL_NONE, VAL_NONE, n, <<>>)>>, 1,
                Append(pending, Open("literal", tmp(0), n)))
        /\ UNCHANGED env
  BY DEF OpenLiteral
<1>2. pending \in Seq(Range(pending)) /\ \A j \in 1 .. Len(pending) : Waits(pending[j])
  BY DEF IInv, PendingReady
<1> DEFINE i == Instr("ALLOCA", tmp(0), VAL_NONE, VAL_NONE, n, <<>>)
           r == Open("literal", tmp(0), n)
<1>3. i.dst = tmp(0) /\ Reads(i) = {}
  <2>1. i.dst = tmp(0)
    BY DEF Instr
  <2>2. Reads(i) = {}
    BY InstrReads
  <2> QED BY <2>1, <2>2
<1>4. "val" \in DOMAIN r /\ r.val = Var(tmp(0)) /\ Node(<<i>>, 1, Append(pending, r))
  BY <1>1 DEF Open
<1> HIDE DEF i, r
<1> QED BY <1>1, <1>2, <1>3, <1>4, TmpStep

LEMMA ElementStep ==
  ASSUME IInv, Element
  PROVE  IInv'
<1> DEFINE lit == [Second EXCEPT !.k = @ + 1, !.meant = Append(@, Meant(Top))]
           i == Instr("FIELD_ADDR", tmp(0), lit.val, VAL_NONE, Second.k, <<>>)
           store == Op("STORE", None, Var(tmp(0)), Top.val)
           res == IF lit.k = lit.n THEN [lit EXCEPT !.is = "result"] ELSE lit
<1>1. /\ PendingReady /\ Len(pending) \in Nat /\ Len(pending) >= 2 /\ VariablesWritten
      /\ Waits(Top) /\ Waits(Second) /\ Second.is = "literal"
  <2>1. PendingReady /\ Len(pending) \in Nat /\ VariablesWritten
    BY DEF IInv, PendingReady
  <2>2. Len(pending) >= 2 /\ Second.is = "literal"
    BY <2>1 DEF Element
  <2> QED BY <2>1, <2>2, TopReady
<1>2. Node(<<i, store>>, 1, Append(Under(2), res)) /\ UNCHANGED env
  BY DEF Element
<1>3. "val" \in DOMAIN res /\ res.val = Second.val /\ lit.val = Second.val
  BY <1>1 DEF Waits
<1>4. i.dst = tmp(0) /\ Reads(i) = {lit.val}
  <2>1. i.dst = tmp(0)
    BY DEF Instr
  <2> HIDE DEF lit
  <2>2. Reads(i) = {lit.val}
    BY InstrReads
  <2> QED BY <2>1, <2>2
<1>5. store.dst = None /\ Reads(store) = {Var(tmp(0)), Top.val}
  <2>1. store.dst = None
    BY DEF Op, Instr
  <2>2. Reads(store) = {Var(tmp(0)), Top.val}
    BY OpReads
  <2> QED BY <2>1, <2>2
<1>6. Second.val.kind = "var" /\ Usable(Second.val) /\ Usable(Top.val)
  BY <1>1 DEF Waits
<1> HIDE DEF i, store, res, lit
<1>7. \A v \in Reads(store) : Usable(v) \/ v.name = i.dst
  BY <1>4, <1>5, <1>6 DEF Var
<1>8. Counted' /\ CodeReady' /\ \A n : Written(n) => Written(n)'
  BY <1>2, <1>3, <1>4, <1>5, <1>6, <1>7, PairStep
<1>9. PICK r : r = res
  OBVIOUS
<1>10. r.val.kind = "var" /\ Written(r.val.name)
  BY <1>3, <1>6, <1>9 DEF Usable
<1>11. Usable(r.val)'
  BY <1>8, <1>10 DEF Usable
<1>12. pending' = Append(Under(2), r) /\ "val" \in DOMAIN r
  BY <1>2, <1>3, <1>9 DEF Node
<1>13. /\ Under(2) \in Seq(Range(pending))
       /\ \A j \in 1 .. Len(Under(2)) : Waits(Under(2)[j])
  BY <1>1, UnderReady
<1>14. PendingReady'
  BY <1>8, <1>10, <1>11, <1>12, <1>13, PendingStep
<1>15. VariablesWritten'
  BY <1>1, <1>2, <1>8, EnvStep
<1> QED BY <1>8, <1>14, <1>15 DEF IInv

\* Declarations: a new name is written before it can be read.
LEMMA OpenDeclarationStep ==
  ASSUME IInv, OpenDeclaration
  PROVE  IInv'
<1>1. PICK a \in Arrays, n \in Sizes :
        /\ Node(<<Instr("ALLOCA", a, VAL_NONE, VAL_NONE, n, <<>>)>>, 0,
                <<Open("declaration", a, n)>>)
        /\ UNCHANGED env
  BY DEF OpenDeclaration
<1> DEFINE i == Instr("ALLOCA", a, VAL_NONE, VAL_NONE, n, <<>>)
           r == Open("declaration", a, n)
<1>2. i.dst = a /\ Reads(i) = {} /\ i.dst \in Others
  <2>1. i.dst = a
    BY DEF Instr
  <2>2. Reads(i) = {}
    BY InstrReads
  <2> QED BY <2>1, <2>2 DEF Others
<1>3. /\ "val" \in DOMAIN r /\ r.val.kind = "var" /\ r.val.name = a
      /\ Node(<<i>>, 0, <<r>>) /\ <<r>> = Append(<<>>, r)
  BY <1>1 DEF Open, Var
<1> HIDE DEF i, r
<1>4. PICK c, x : c = i /\ x = r
  OBVIOUS
<1>5. 0 \in 0 .. IR_MAX_RETS + 1
  BY ExpressionsAssumption
<1>6. Counted' /\ CodeReady' /\ Written(c.dst)' /\ \A m : Written(m) => Written(m)'
  BY <1>2, <1>3, <1>4, <1>5, SingleStep
<1>7. Usable(x.val)'
  BY <1>2, <1>3, <1>4, <1>6 DEF Usable
<1>8. pending' = Append(<<>>, x) /\ <<>> \in Seq({}) /\ \A j \in 1 .. Len(<<>>) : Waits(<<>>[j])
  BY <1>3, <1>4 DEF Node
<1>9. PendingReady'
  BY <1>3, <1>4, <1>6, <1>7, <1>8, PendingStep
<1>10. VariablesWritten'
  BY <1>1, <1>6, EnvStep DEF IInv
<1> QED BY <1>6, <1>9, <1>10 DEF IInv

LEMMA DeclareStep ==
  ASSUME IInv, Declare
  PROVE  IInv'
<1> DEFINE i == Op("ADDR", tmp(0), Second.val, VAL_NONE)
           copy == Instr("MEMCPY", None, Var(tmp(0)), Top.val, Second.n, <<>>)
<1>1. /\ PendingReady /\ Len(pending) = 2 /\ Second = pending[1] /\ VariablesWritten
      /\ Waits(Top) /\ Waits(Second) /\ Second.is = "declaration"
  <2>1. PendingReady /\ VariablesWritten
    BY DEF IInv
  <2>2. Len(pending) = 2 /\ Second = pending[1] /\ Second.is = "declaration"
    BY DEF Declare, Second
  <2> QED BY <2>1, <2>2, TopReady
<1>2. Second.val.kind = "var" /\ Usable(Top.val) /\ Usable(Second.val) /\ Written(Second.val.name)
  BY <1>1 DEF Waits, Usable
<1>3. /\ Node(<<i, copy>>, 1, <<>>) /\ pending' = <<>>
      /\ \A w \in DOMAIN env' :
           w \in DOMAIN env \/ \E k \in 0 .. Second.n - 1 : w = <<Second.val.name, k>>
  BY DEF Declare, Node
<1>4. i.dst = tmp(0) /\ Reads(i) = {Second.val}
  <2>1. i.dst = tmp(0)
    BY DEF Op, Instr
  <2>2. Reads(i) = {Second.val}
    BY OpReads
  <2> QED BY <2>1, <2>2
<1>5. copy.dst = None /\ Reads(copy) = {Var(tmp(0)), Top.val}
  <2>1. copy.dst = None
    BY DEF Instr
  <2>2. Reads(copy) = {Var(tmp(0)), Top.val}
    BY InstrReads
  <2> QED BY <2>1, <2>2
<1> HIDE DEF i, copy
<1>6. \A v \in Reads(copy) : Usable(v) \/ v.name = i.dst
  BY <1>2, <1>4, <1>5 DEF Var
<1>7. Counted' /\ CodeReady' /\ \A n : Written(n) => Written(n)'
  BY <1>2, <1>3, <1>4, <1>5, <1>6, PairStep
<1>8. PendingReady'
  BY <1>3 DEF PendingReady
<1>9. PICK name : name = Second.val.name
  OBVIOUS
<1>10. Written(name)'
  BY <1>2, <1>7, <1>9
<1>11. \A w \in DOMAIN env' : w \in DOMAIN env \/ w[1] = name
  BY <1>3, <1>9
<1>12. VariablesWritten'
  BY <1>1, <1>7, <1>10, <1>11 DEF VariablesWritten, Written
<1> QED BY <1>7, <1>8, <1>12 DEF IInv

LEMMA DeclareScalarStep ==
  ASSUME IInv, DeclareScalar
  PROVE  IInv'
<1>1. PICK z \in Scalars :
        /\ Len(pending) = 1 /\ Results(1)
        /\ Node(<<Op("COPY", z, Top.val, VAL_NONE)>>, 0, <<>>)
        /\ DOMAIN env' = {<<z, 0>>} \cup DOMAIN env
  BY DEF DeclareScalar
<1> DEFINE i == Op("COPY", z, Top.val, VAL_NONE)
<1>2. PendingReady /\ VariablesWritten /\ Waits(Top)
  BY <1>1, TopReady DEF IInv
<1>3. i.dst = z /\ Reads(i) = {Top.val}
  <2>1. i.dst = z
    BY DEF Op, Instr
  <2>2. Reads(i) = {Top.val}
    BY OpReads
  <2> QED BY <2>1, <2>2
<1>4. /\ Node(<<i>>, 0, <<>>) /\ pending' = <<>>
      /\ \A w \in DOMAIN env' : w \in DOMAIN env \/ w = <<z, 0>>
  BY <1>1 DEF Node
<1> HIDE DEF i
<1>5. i.dst \in Others /\ \A v \in Reads(i) : Usable(v)
  BY <1>2, <1>3 DEF Others, Waits
<1>6. PICK c : c = i
  OBVIOUS
<1>7. 0 \in 0 .. IR_MAX_RETS + 1
  BY ExpressionsAssumption
<1>8. Counted' /\ CodeReady' /\ Written(c.dst)' /\ \A n : Written(n) => Written(n)'
  BY <1>4, <1>5, <1>6, <1>7, SingleStep
<1>9. Written(z)'
  BY <1>3, <1>6, <1>8
<1>10. PendingReady'
  BY <1>4 DEF PendingReady
<1>11. \A w \in DOMAIN env' : w \in DOMAIN env \/ w[1] = z
  BY <1>4
<1>12. VariablesWritten'
  BY <1>2, <1>8, <1>9, <1>11 DEF VariablesWritten, Written
<1> QED BY <1>8, <1>10, <1>12 DEF IInv

-----------------------------------------------------------------------------
\* The strengthened invariant of the lowering: every pending result, and every
\* variable of the text, is written by the code emitted so far (lower_expr,
\* ir.c 291-497).
THEOREM Invariance == Spec => []IInv
<1>1. Init => IInv
  <2> SUFFICES ASSUME Init PROVE IInv
    OBVIOUS
  <2>1. Counted
    <3>1. nodes = 0 /\ tmp_counter = 0 /\ MaxNodes \in Nat /\ IR_MAX_RETS + 1 \in Nat
      BY ExpressionsAssumption DEF Init
    <3>2. 0 * (IR_MAX_RETS + 1) = 0
      BY <3>1
    <3> QED BY <3>1, <3>2 DEF Counted
  <2>2. CodeReady
    BY DEF Init, CodeReady, OperandsReady
  <2>3. PendingReady
    BY DEF Init, PendingReady
  <2>4. VariablesWritten
    BY DEF Init, VariablesWritten, Written
  <2> QED BY <2>1, <2>2, <2>3, <2>4 DEF IInv
<1>2. IInv /\ [Next]_vars => IInv'
  <2> SUFFICES ASSUME IInv, [Next]_vars PROVE IInv'
    OBVIOUS
  <2>1. CASE Lower
    <3>1. CASE Literal \/ Name \/ Drop
      BY <3>1, SilentSteps
    <3>2. CASE AddressOf \/ Index \/ Load \/ Binop \/ Unop
      BY <3>2, ComputeSteps
    <3>3. CASE Store
      BY <3>3, StoreStep
    <3>4. CASE Call
      BY <3>4, CallReady
    <3>5. CASE OpenLiteral \/ Element
      BY <3>5, OpenLiteralStep, ElementStep
    <3>6. CASE OpenDeclaration \/ Declare \/ DeclareScalar
      BY <3>6, OpenDeclarationStep, DeclareStep, DeclareScalarStep
    <3> QED BY <2>1, <3>1, <3>2, <3>3, <3>4, <3>5, <3>6 DEF Lower
  <2>2. CASE UNCHANGED lowering
    BY <2>2 DEF lowering, IInv, Counted, CodeReady, OperandsReady, Temps, PendingReady, Waits,
                VariablesWritten, Usable, Written
  <2>3. CASE UNCHANGED vars
    BY <2>2, <2>3 DEF vars, lowering
  <2>4. TooManyArgs \/ Emit \/ Compute \/ Access \/ Copy \/ CallStep \/ Return
          => UNCHANGED lowering
    BY DEF TooManyArgs, Emit, Compute, Access, Copy, CallStep, Return, Assigned, Stepped, Fault
  <2> QED BY <2>1, <2>2, <2>3, <2>4 DEF Next, Halt
<1> QED BY <1>1, <1>2, PTL DEF Spec

\* No instruction reads a variable or temporary that none before it has written,
\* and a temporary is written once (ir.c 291-497, emit_dst).
THEOREM OperandsAreReady == Spec => []OperandsReady
<1>1. IInv => OperandsReady
  BY DEF IInv, CodeReady
<1> QED BY <1>1, Invariance, PTL

-----------------------------------------------------------------------------
(***************************************************************************)
(* The code of a body leaves in every variable what its expressions mean   *)
(* (ValuesKept).                                                           *)
(*                                                                         *)
(* While a body is lowered nothing runs, so ValuesKept says nothing of the *)
(* code before Emit.  The inductive invariant VInv says what the code      *)
(* emitted so far would do: there is a memory after each instruction (a    *)
(* history that starts with the parameters, and in which each memory       *)
(* follows from the one before it by its instruction), and the last one    *)
(* holds what every variable and every pending operand means.  The machine *)
(* that runs the code then goes through these memories, one by one.        *)
(***************************************************************************)

\* The first words of all the slots a body can have.
Places ==
  {<<x, 0>> : x \in DOMAIN Initial \cup Scalars \cup Arrays
                     \cup {TmpName(k) : k \in 0 .. MaxTmps}}
\* Those of the parameters and of the destinations of c.
Slots(c) ==
  {<<x, 0>> : x \in DOMAIN Initial} \cup
  {<<c[p].dst, 0>> : p \in {q \in 1 .. Len(c) : c[q].dst # None}}

-----------------------------------------------------------------------------
(* What an instruction does to the words m of the frame. *)

Loads(m, v) == IF v.kind = "imm" THEN Num(v.imm) ELSE m[<<v.name, 0>>]
Arguments(m, i) == [k \in 1 .. Len(i.args) |-> Loads(m, i.args[k])]
Computed(m, i) ==
  CASE i.op = "ADDR"       -> Addr(i.a.name, 0)
    [] i.op = "INDEX_ADDR" -> Offset(Loads(m, i.a), Loads(m, i.b).n)
    [] i.op = "SUB"        -> Minus(Loads(m, i.a), Loads(m, i.b))
    [] i.op = "NEG"        -> Negated(Loads(m, i.a))
    [] i.op = "COPY"       -> Loads(m, i.a)
    [] i.op = "LOAD"       -> m[Place(Loads(m, i.a))]
    [] i.op = "CALL"       -> Returned(Arguments(m, i))

\* The words it changes beside its destination, and to what.
Changes(m, i) ==
  CASE i.op = "STORE" -> {Place(Loads(m, i.a))}
    [] i.op = "CALL"  -> Cleared(m, Arguments(m, i))
    [] OTHER          -> {}
Changed(m, i) == IF i.op = "STORE" THEN Loads(m, i.b) ELSE Num(0)

After(m, i) ==
  [w \in Places |-> IF i.dst # None /\ w = <<i.dst, 0>> THEN Computed(m, i)
                    ELSE IF w \in Changes(m, i) THEN Changed(m, i) ELSE m[w]]

Start == [w \in Places |-> IF w[1] \in DOMAIN Initial THEN Initial[w[1]] ELSE Garbage]

\* H holds the memory before the code c and after each of its instructions, and
\* no instruction accesses a word the frame does not have.
Runs(H, c) ==
  /\ H[0] = Start
  /\ \A p \in 1 .. Len(c) :
       /\ H[p] = After(H[p - 1], c[p])
       /\ c[p].op \in {"LOAD", "STORE"} => Place(Loads(H[p - 1], c[p].a)) \in Slots(c)

-----------------------------------------------------------------------------
(* The code, the variables and the pending results of a body without arrays. *)

Computing == {"ADDR", "INDEX_ADDR", "SUB", "NEG", "COPY", "LOAD"}
\* An operand that can be loaded when c is done.
Operand(v, c) == v.kind = "imm" \/ (v.kind = "var" /\ <<v.name, 0>> \in Slots(c))
Straight(i, c) ==
  /\ i.op \in Computing \cup {"STORE", "CALL"}
  /\ i.op \in Computing => i.dst # None
  /\ i.op = "STORE" => i.dst = None
  /\ i.op = "CALL" => DOMAIN i.args = 1 .. Len(i.args)
  /\ \A v \in Reads(i) : Operand(v, c)

\* A value is a number or the address of a variable.
Sound(v, e) == IsNum(v) \/ Place(v) \in DOMAIN e
SoundEnv(e, c) ==
  /\ DOMAIN e \subseteq {<<x, 0>> : x \in DOMAIN Initial \cup Scalars} \cap Slots(c)
  /\ \A w \in DOMAIN e : Sound(e[w], e)
\* A result is a literal, a variable, a temporary or nothing at all.
Plain(r, c, e, T) ==
  /\ r.is = "result" /\ Sound(Meant(r), e)
  /\ \/ r.val = VAL_NONE
     \/ /\ Operand(r.val, c)
        /\ r.val.kind = "var" => r.val.name \in T \/ <<r.val.name, 0>> \in DOMAIN e

\* m holds what the variables and the pending operands mean.
Right(m, r) == r.val = VAL_NONE \/ Loads(m, r.val) = Meant(r)
Agrees(m, pend, e) ==
  /\ \A w \in DOMAIN e : m[w] = e[w]
  /\ \A i \in 1 .. Len(pend) : Right(m, pend[i])

\* The machine is where the history says.
Follows(H) ==
  /\ phase = "run" => /\ pc \in 1 .. Len(code) + 1 /\ DOMAIN mem = Words
                      /\ \A w \in Words : mem[w] = H[pc - 1][w]
  /\ phase = "done" => \A w \in Words : mem[w] = H[Len(code)][w]
  /\ phase # "fault"

Shaped ==
  /\ \A p \in 1 .. Len(code) : Straight(code[p], code)
  /\ SoundEnv(env, code)
  /\ \A i \in 1 .. Len(pending) : Plain(pending[i], code, env, Temps)
Simulated ==
  \E H : Runs(H, code) /\ Agrees(H[Len(code)], pending, env) /\ Follows(H)

\* A body some instruction of which reads VAL_NONE is never emitted.
Doomed == \E p \in 1 .. Len(code) : VAL_NONE \in Reads(code[p])
Excused == late \/ Aggregates \/ Doomed

VInv ==
  /\ phase \in {"run", "done", "fault"} => ~Doomed
  /\ Excused \/ (Shaped /\ Simulated)
-----------------------------------------------------------------------------
LEMMA CounterBound ==
  ASSUME Counted
  PROVE  tmp_counter \in 0 .. MaxTmps /\ tmp_counter \in Nat /\ MaxTmps \in Nat
<1> DEFINE r == IR_MAX_RETS + 1
<1>1. /\ MaxNodes \in Nat /\ nodes \in 0 .. MaxNodes /\ r \in Nat
      /\ tmp_counter \in 0 .. nodes * r /\ nodes * r \in Nat /\ MaxNodes * r \in Nat
  BY ExpressionsAssumption DEF Counted
<1> HIDE DEF r
<1>2. nodes * r <= MaxNodes * r
  <2>1. MaxNodes * r = nodes * r + (MaxNodes - nodes) * r /\ (MaxNodes - nodes) * r >= 0
        /\ (MaxNodes - nodes) * r \in Int
    BY <1>1
  <2> QED BY <1>1, <2>1
<1>3. tmp_counter \in 0 .. MaxNodes * r
  BY <1>1, <1>2
<1> QED BY <1>1, <1>3 DEF MaxTmps, r

\* Every slot is one of the places.
LEMMA SlotsInPlaces ==
  ASSUME IInv
  PROVE  Slots(code) \subseteq Places
<1>1. Temps \subseteq {TmpName(k) : k \in 0 .. MaxTmps}
  <2>1. tmp_counter \in 0 .. MaxTmps /\ tmp_counter \in Nat /\ MaxTmps \in Nat
    BY CounterBound DEF IInv
  <2> QED BY <2>1 DEF Temps
<1>2. \A p \in 1 .. Len(code) : code[p].dst \in Temps \cup Others
  BY DEF IInv, CodeReady
<1> QED BY <1>1, <1>2 DEF Slots, Places, Others

\* Without arrays, every slot is one word.
LEMMA WordsAreSlots ==
  ASSUME ~Aggregates
  PROVE  Words = Slots(code)
<1> DEFINE A == UNION {{<<code[p].dst, k>> : k \in 0 .. Max({code[p].n, 1}) - 1} :
                   p \in {p \in 1 .. Len(code) : code[p].dst # None /\ code[p].op = "ALLOCA"}}
           D == {<<code[p].dst, 0>> : p \in {q \in 1 .. Len(code) : code[q].dst # None}}
           P == {<<x, 0>> : x \in DOMAIN Initial}
<1>1. A = {}
  BY DEF Aggregates
<1>2. Words = P \cup D \cup A
  BY Zenon DEF Words
<1>3. Slots(code) = P \cup D
  BY Zenon DEF Slots
<1> HIDE DEF A, P, D
<1> QED BY <1>1, <1>2, <1>3

-----------------------------------------------------------------------------
(* One more instruction. *)

\* d is c and the instruction i.
Extends(d, c, i) ==
  /\ Len(c) \in Nat /\ Len(d) = Len(c) + 1 /\ d[Len(c) + 1] = i
  /\ \A p \in 1 .. Len(c) : d[p] = c[p]

LEMMA EmittedOne ==
  ASSUME NEW S, NEW c \in Seq(S), NEW i
  PROVE  Extends(c \o <<i>>, c, i)
<1> DEFINE U == S \cup {i}
           t == <<i>>
<1>1. c \in Seq(U) /\ t \in Seq(U) /\ Len(t) = 1 /\ t[1] = i /\ Len(c) \in Nat
  OBVIOUS
<1> HIDE DEF U, t
<1>2. /\ Len(c \o t) = Len(c) + Len(t)
      /\ \A k \in 1 .. Len(c) + Len(t) : (c \o t)[k] = IF k <= Len(c) THEN c[k] ELSE t[k - Len(c)]
  BY <1>1, ConcatProperties
<1>3. Extends(c \o t, c, i)
  BY <1>1, <1>2 DEF Extends
<1> QED BY <1>3 DEF t

LEMMA SlotsGrow ==
  ASSUME NEW c, NEW d, NEW i, Extends(d, c, i)
  PROVE  Slots(c) \subseteq Slots(d) /\ (i.dst # None => <<i.dst, 0>> \in Slots(d))
<1>1. \A p \in 1 .. Len(c) : p \in 1 .. Len(d) /\ d[p] = c[p]
  BY DEF Extends
<1>2. Len(c) + 1 \in 1 .. Len(d) /\ d[Len(c) + 1] = i
  BY DEF Extends
<1> QED BY <1>1, <1>2 DEF Slots

LEMMA StaysStraight ==
  ASSUME NEW c, NEW d, Slots(c) \subseteq Slots(d), NEW i, Straight(i, c)
  PROVE  Straight(i, d)
BY DEF Straight, Operand

LEMMA StaysSound ==
  ASSUME NEW e, NEW f, DOMAIN e \subseteq DOMAIN f, NEW v, Sound(v, e)
  PROVE  Sound(v, f)
BY DEF Sound

LEMMA StaysPlain ==
  ASSUME NEW c, NEW d, Slots(c) \subseteq Slots(d), NEW e, NEW f, DOMAIN e \subseteq DOMAIN f,
         NEW T, NEW U, T \subseteq U, NEW r, Plain(r, c, e, T)
  PROVE  Plain(r, d, f, U)
BY StaysSound DEF Plain, Operand

\* The history of the code so far and of one more instruction.
LEMMA OneMoreRuns ==
  ASSUME NEW H, NEW c, NEW d, NEW i, Runs(H, c), Extends(d, c, i),
         i.op \in {"LOAD", "STORE"} => Place(Loads(H[Len(c)], i.a)) \in Slots(c)
  PROVE  \E G : Runs(G, d) /\ G[Len(d)] = After(H[Len(c)], i)
<1> DEFINE L == Len(c)
           G == [q \in 0 .. L + 1 |-> IF q <= L THEN H[q] ELSE After(H[L], i)]
<1>1. L \in Nat /\ Len(d) = L + 1 /\ d[L + 1] = i /\ \A p \in 1 .. L : d[p] = c[p]
  BY DEF Extends
<1>2. Slots(c) \subseteq Slots(d)
  BY SlotsGrow
<1>3. G[0] = H[0] /\ G[L + 1] = After(H[L], i) /\ G[L] = H[L]
      /\ \A p \in 1 .. L : G[p] = H[p] /\ G[p - 1] = H[p - 1]
  BY <1>1
<1> HIDE DEF G
<1>4. ASSUME NEW p \in 1 .. Len(d)
      PROVE  /\ G[p] = After(G[p - 1], d[p])
             /\ d[p].op \in {"LOAD", "STORE"} => Place(Loads(G[p - 1], d[p].a)) \in Slots(d)
  <2>1. CASE p \in 1 .. L
    BY <1>1, <1>2, <1>3, <2>1 DEF Runs
  <2>2. CASE p = L + 1
    <3>1. p - 1 = L /\ d[p] = i
      BY <1>1, <2>2
    <3> QED BY <1>2, <1>3, <2>2, <3>1
  <2> QED BY <1>1, <2>1, <2>2
<1>5. Runs(G, d)
  BY <1>3, <1>4 DEF Runs
<1>6. G[Len(d)] = After(H[Len(c)], i)
  BY <1>1, <1>3
<1> QED BY <1>5, <1>6

\* An operand keeps its value when its word does.
LEMMA StaysRight ==
  ASSUME NEW c, NEW e, NEW T, NEW r, Plain(r, c, e, T), NEW M, NEW N, Right(M, r),
         r.val.kind = "var" /\ <<r.val.name, 0>> \in Slots(c)
           /\ (r.val.name \in T \/ <<r.val.name, 0>> \in DOMAIN e)
           => N[<<r.val.name, 0>>] = M[<<r.val.name, 0>>]
  PROVE  Right(N, r)
BY DEF Plain, Right, Loads, Operand

\* An instruction that keeps everything right keeps the invariant.
LEMMA EmittedStep ==
  ASSUME IInv, Shaped, NEW H, Runs(H, code), phase' = "lower",
         NEW i, code' = code \o <<i>>, Straight(i, code),
         i.op \in {"LOAD", "STORE"} => Place(Loads(H[Len(code)], i.a)) \in Slots(code),
         SoundEnv(env', code'),
         \A j \in 1 .. Len(pending') : Plain(pending'[j], code', env', Temps'),
         Agrees(After(H[Len(code)], i), pending', env')
  PROVE  Shaped' /\ Simulated'
<1>1. PICK c, d : c = code /\ d = code'
  OBVIOUS
<1>2. Extends(d, c, i)
  BY <1>1, EmittedOne DEF IInv, CodeReady
<1>3. Slots(c) \subseteq Slots(d)
  BY <1>2, SlotsGrow
<1>4. \A p \in 1 .. Len(d) : Straight(d[p], d)
  <2> TAKE p \in 1 .. Len(d)
  <2>1. CASE p \in 1 .. Len(c)
    BY <1>1, <1>2, <1>3, <2>1, StaysStraight DEF Shaped, Extends
  <2>2. CASE p = Len(c) + 1
    BY <1>1, <1>2, <1>3, <2>2, StaysStraight DEF Extends
  <2> QED BY <1>2, <2>1, <2>2 DEF Extends
<1>5. Shaped'
  BY <1>1, <1>4 DEF Shaped
<1>6. PICK G : Runs(G, d) /\ G[Len(d)] = After(H[Len(c)], i)
  <2>1. /\ Runs(H, c)
        /\ i.op \in {"LOAD", "STORE"} => Place(Loads(H[Len(c)], i.a)) \in Slots(c)
    BY <1>1
  <2> QED BY <1>2, <2>1, OneMoreRuns
<1>7. Agrees(G[Len(code')], pending', env')
  BY <1>1, <1>6
<1>8. Follows(G)'
  BY DEF Follows
<1>9. Simulated'
  BY <1>1, <1>6, <1>7, <1>8 DEF Simulated
<1> QED BY <1>5, <1>9

\* A node that emits nothing.
LEMMA SilentStep ==
  ASSUME IInv, Shaped, NEW H, Runs(H, code), phase' = "lower",
         code' = code, env' = env, Temps' = Temps,
         \A j \in 1 .. Len(pending') : Plain(pending'[j], code, env, Temps),
         Agrees(H[Len(code)], pending', env)
  PROVE  Shaped' /\ Simulated'
<1>1. Shaped'
  BY DEF Shaped
<1>2. Follows(H)'
  BY DEF Follows
<1>3. Simulated'
  BY <1>2 DEF Simulated
<1> QED BY <1>1, <1>3

-----------------------------------------------------------------------------
(* What was excused stays excused. *)

LEMMA NodeKeepsExcuse ==
  ASSUME IInv, NEW S, NEW instrs \in Seq(S), NEW temps, NEW rest, Node(instrs, temps, rest),
         late => late', Excused
  PROVE  Excused'
<1>1. code' = code \o instrs /\ code \in Seq(Range(code))
  BY DEF Node, IInv, CodeReady
<1>2. /\ Len(code) \in Nat /\ Len(code') \in Nat /\ Len(code) <= Len(code')
      /\ \A p \in 1 .. Len(code) : code'[p] = code[p]
  <2> DEFINE U == Range(code) \cup S
  <2>1. code \in Seq(U) /\ instrs \in Seq(U)
    BY <1>1
  <2> HIDE DEF U
  <2>2. /\ Len(code \o instrs) = Len(code) + Len(instrs)
        /\ \A k \in 1 .. Len(code) + Len(instrs) :
             (code \o instrs)[k] = IF k <= Len(code) THEN code[k] ELSE instrs[k - Len(code)]
    BY <2>1, ConcatProperties
  <2>3. Len(code) \in Nat /\ Len(instrs) \in Nat
    BY <2>1
  <2> QED BY <1>1, <2>2, <2>3
<1>3. CASE late
  BY <1>3 DEF Excused
<1>4. CASE Aggregates
  BY <1>2, <1>4 DEF Excused, Aggregates
<1>5. CASE Doomed
  <2>1. PICK p \in 1 .. Len(code) : VAL_NONE \in Reads(code[p])
    BY <1>5 DEF Doomed
  <2>2. PICK i : i = code[p]
    OBVIOUS
  <2>3. p \in 1 .. Len(code') /\ code'[p] = i /\ VAL_NONE \in Reads(i)
    BY <1>2, <2>1, <2>2
  <2> QED BY <2>3 DEF Doomed, Excused
<1> QED BY <1>3, <1>4, <1>5 DEF Excused

LEMMA StaysExcused ==
  ASSUME IInv, Lower, Excused
  PROVE  Excused'
<1>1. <<>> \in Seq({}) /\ (\A i : <<i>> \in Seq({i})) /\ (\A i, k : <<i, k>> \in Seq({i, k}))
  OBVIOUS
<1>2. ASSUME NEW temps, NEW rest, Node(<<>>, temps, rest), late => late'
      PROVE  Excused'
  BY <1>1, <1>2, NodeKeepsExcuse
<1>3. ASSUME NEW i, NEW temps, NEW rest, Node(<<i>>, temps, rest), late => late'
      PROVE  Excused'
  BY <1>1, <1>3, NodeKeepsExcuse
<1>4. ASSUME NEW i, NEW k, NEW temps, NEW rest, Node(<<i, k>>, temps, rest), late => late'
      PROVE  Excused'
  BY <1>1, <1>4, NodeKeepsExcuse
<1>5. CASE Literal
  BY <1>2, <1>5 DEF Literal
<1>6. CASE Name
  BY <1>2, <1>6 DEF Name
<1>7. CASE Drop
  BY <1>2, <1>7, Zenon DEF Drop
<1>8. CASE AddressOf
  BY <1>3, <1>8 DEF AddressOf
<1>9. CASE Index
  BY <1>3, <1>9, Zenon DEF Index
<1>10. CASE Load
  BY <1>3, <1>10, Zenon DEF Load
<1>11. CASE Binop
  BY <1>3, <1>11, Zenon DEF Binop
<1>12. CASE Unop
  BY <1>3, <1>12, Zenon DEF Unop
<1>13. CASE Store
  BY <1>3, <1>13, Zenon DEF Store
<1>14. CASE Call
  BY <1>3, <1>14, Zenon DEF Call
<1>15. CASE OpenLiteral
  BY <1>3, <1>15 DEF OpenLiteral
<1>16. CASE OpenDeclaration
  BY <1>3, <1>16 DEF OpenDeclaration
<1>17. CASE DeclareScalar
  BY <1>3, <1>17 DEF DeclareScalar
<1>18. CASE Element
  BY <1>4, <1>18, Zenon DEF Element
<1>19. CASE Declare
  BY <1>4, <1>19, Zenon DEF Declare
<1> QED BY <1>5, <1>6, <1>7, <1>8, <1>9, <1>10, <1>11, <1>12, <1>13, <1>14, <1>15, <1>16, <1>17, <1>18, <1>19 DEF Lower

-----------------------------------------------------------------------------
(* What is pending after a node. *)

LEMMA AppendedResult ==
  ASSUME PendingReady, NEW n \in 0 .. Len(pending), NEW r, NEW s, s = Append(Under(n), r)
  PROVE  /\ Len(s) \in Nat
         /\ \A j \in 1 .. Len(s) :
              \/ s[j] = r
              \/ j \in 1 .. Len(pending) /\ j \in 1 .. Len(Under(n))
                   /\ s[j] = pending[j] /\ Under(n)[j] = pending[j]
<1> DEFINE m == Len(pending) - n
           u == SubSeq(pending, 1, m)
<1>1. Len(pending) \in Nat /\ m \in 0 .. Len(pending) /\ pending \in Seq(Range(pending))
  BY DEF PendingReady
<1> HIDE DEF m
<1>2. /\ u \in Seq(Range(pending)) /\ Len(u) = m
      /\ \A i \in 1 .. m : u[i] = pending[i]
  <2>1. \A i \in 1 .. m : pending[i] \in Range(pending)
    BY <1>1 DEF Range
  <2>2. /\ u \in Seq(Range(pending))
        /\ Len(u) = IF 1 <= m THEN m - 1 + 1 ELSE 0
        /\ \A i \in 1 .. m - 1 + 1 : u[i] = pending[1 + i - 1]
    BY <1>1, <2>1, SubSeqProperties
  <2>3. m - 1 + 1 = m /\ \A i \in 1 .. m : 1 + i - 1 = i
    BY <1>1
  <2> QED BY <1>1, <2>2, <2>3
<1>3. Under(n) = u
  BY DEF Under, m
<1> HIDE DEF u
<1>4. /\ Len(s) = m + 1 /\ s[m + 1] = r
      /\ \A i \in 1 .. m : s[i] = u[i]
  <2>1. u \in Seq(Range(pending) \cup {r}) /\ r \in Range(pending) \cup {r}
    BY <1>2
  <2> QED BY <1>2, <1>3, <2>1, AppendProperties
<1> QED BY <1>1, <1>2, <1>3, <1>4

\* The results used by a node.
LEMMA UsedResults ==
  ASSUME PendingReady
  PROVE  /\ Len(pending) \in Nat
         /\ Len(pending) >= 1 => Len(pending) \in 1 .. Len(pending) /\ Top = pending[Len(pending)]
         /\ Len(pending) >= 2 => Len(pending) - 1 \in 1 .. Len(pending)
BY DEF PendingReady, Top, Last

\* What is not the excuse of the code with i is no excuse before, and i reads no
\* VAL_NONE.
LEMMA ReadsSomething ==
  ASSUME IInv, NEW i, code' = code \o <<i>>, ~Doomed'
  PROVE  VAL_NONE \notin Reads(i)
<1>1. PICK c, d : c = code /\ d = code'
  OBVIOUS
<1>2. Extends(d, c, i)
  BY <1>1, EmittedOne DEF IInv, CodeReady
<1>3. Len(c) + 1 \in 1 .. Len(d) /\ d[Len(c) + 1] = i
  BY <1>2 DEF Extends
<1>4. \A p \in 1 .. Len(d) : VAL_NONE \notin Reads(d[p])
  BY <1>1 DEF Doomed
<1> QED BY <1>3, <1>4

-----------------------------------------------------------------------------
(* The nodes of a body without arrays. *)

Along(H) == IInv /\ Shaped /\ Runs(H, code) /\ Agrees(H[Len(code)], pending, env)

\* A new temporary is a place nothing pending and no variable has.
LEMMA FreshPlace ==
  ASSUME IInv, Shaped
  PROVE  /\ tmp(0) \notin Temps /\ tmp(0) # None
         /\ <<tmp(0), 0>> \in Places /\ <<tmp(0), 0>> \notin DOMAIN env
         /\ \A w \in DOMAIN env : w[1] \notin Temps
<1>1. tmp_counter \in 0 .. MaxTmps /\ tmp_counter \in Nat /\ MaxTmps \in Nat
  BY CounterBound DEF IInv
<1>2. /\ tmp(0) = TmpName(tmp_counter) /\ tmp(0) \notin Temps \cup Others
      /\ Temps \cap Others = {}
  BY <1>1, FreshTmp
<1>3. tmp(0) \notin DOMAIN Initial /\ Temps \cap DOMAIN Initial = {}
  BY <1>1, <1>2, NamesAssumption DEF Temps
<1>4. \A w \in DOMAIN env : w[1] \in DOMAIN Initial \cup Scalars
  BY DEF Shaped, SoundEnv
<1> QED BY <1>1, <1>2, <1>3, <1>4 DEF Others, Places

LEMMA TempsGrow ==
  ASSUME IInv, NEW k \in Nat, tmp_counter' = tmp_counter + k
  PROVE  Temps \subseteq Temps' /\ (k > 0 => tmp(0) \in Temps')
<1>1. tmp_counter \in Nat
  BY CounterBound DEF IInv
<1>2. tmp(0) = TmpName(tmp_counter)
  BY <1>1 DEF tmp
<1> QED BY <1>1, <1>2 DEF Temps

\* The instruction of a node that computes one word, m when the memory is right.
LEMMA ComputedKept ==
  ASSUME NEW H, Along(H), ~Doomed',
         NEW op \in {"SUB", "INDEX_ADDR", "LOAD", "NEG", "ADDR"},
         NEW a, NEW b, NEW n \in 0 .. Len(pending), NEW m, Sound(m, env),
         Node(<<Op(op, tmp(0), a, b)>>, 1, Append(Under(n), Result(Var(tmp(0)), <<m>>))),
         UNCHANGED env,
         \A v \in Reads(Op(op, tmp(0), a, b)) : v = VAL_NONE \/ Operand(v, code),
         VAL_NONE \notin Reads(Op(op, tmp(0), a, b)) =>
           /\ Computed(H[Len(code)], Op(op, tmp(0), a, b)) = m
           /\ op = "LOAD" => Place(Loads(H[Len(code)], a)) \in DOMAIN env
  PROVE  Shaped' /\ Simulated'
<1> DEFINE M == H[Len(code)]
<1>1. PICK i, r, t : /\ i = Op(op, tmp(0), a, b) /\ t = tmp(0)
                     /\ r = Result(Var(t), <<m>>)
  OBVIOUS
<1>2. /\ i.op = op /\ i.dst = t /\ i.a = a
      /\ r.is = "result" /\ r.val = Var(t) /\ Meant(r) = m
  BY <1>1 DEF Op, Instr, Result, Meant
<1>3. /\ code' = code \o <<i>> /\ tmp_counter' = tmp_counter + 1 /\ phase' = "lower"
      /\ pending' = Append(Under(n), r)
  BY <1>1 DEF Node
<1>4. IInv /\ Shaped /\ PendingReady /\ SoundEnv(env, code)
  BY DEF Along, Shaped, IInv
<1>5. VAL_NONE \notin Reads(i)
  BY <1>3, <1>4, ReadsSomething
<1>6. /\ t \notin Temps /\ t # None /\ <<t, 0>> \in Places /\ <<t, 0>> \notin DOMAIN env
      /\ Temps \subseteq Temps' /\ t \in Temps'
  BY <1>1, <1>3, <1>4, FreshPlace, TempsGrow
<1>7. PICK c, d : c = code /\ d = code'
  OBVIOUS
<1>8. Extends(d, c, i) /\ Slots(c) \subseteq Slots(d) /\ <<t, 0>> \in Slots(d)
  <2>1. Extends(d, c, i)
    BY <1>3, <1>4, <1>7, EmittedOne DEF IInv, CodeReady
  <2> QED BY <1>2, <1>6, <2>1, SlotsGrow
<1>9. Straight(i, code)
  BY <1>1, <1>2, <1>5, <1>6 DEF Straight, Computing
<1>10. /\ Computed(M, i) = m
       /\ i.op \in {"LOAD", "STORE"} => Place(Loads(M, i.a)) \in Slots(code)
  BY <1>1, <1>2, <1>4, <1>5 DEF SoundEnv
<1>11. \A w \in Places : After(M, i)[w] = IF w = <<t, 0>> THEN m ELSE M[w]
  BY <1>2, <1>6, <1>10 DEF After, Changes
<1>12. SoundEnv(env', code')
  BY <1>4, <1>7, <1>8 DEF SoundEnv
<1>13. \A j \in 1 .. Len(pending') :
         \/ pending'[j] = r
         \/ j \in 1 .. Len(pending) /\ pending'[j] = pending[j]
  <2>1. PICK s : s = pending'
    OBVIOUS
  <2>2. s = Append(Under(n), r)
    BY <1>3, <2>1
  <2> QED BY <1>4, <2>1, <2>2, AppendedResult
<1>14. Plain(r, code', env', Temps')
  BY <1>2, <1>6, <1>7, <1>8 DEF Plain, Operand, Var
<1>15. \A j \in 1 .. Len(pending) : Plain(pending[j], code, env, Temps)
  BY <1>4 DEF Shaped
<1>16. \A j \in 1 .. Len(pending') : Plain(pending'[j], code', env', Temps')
  BY <1>6, <1>7, <1>8, <1>13, <1>14, <1>15, StaysPlain
<1>17. Slots(code) \subseteq Places
  BY <1>4, SlotsInPlaces
<1>18. Agrees(After(M, i), pending', env')
  <2>1. \A w \in DOMAIN env : After(M, i)[w] = env[w]
    BY <1>4, <1>6, <1>11, <1>17 DEF Along, Agrees, SoundEnv
  <2>2. Right(After(M, i), r)
    BY <1>2, <1>6, <1>11 DEF Right, Loads, Var
  <2>3. ASSUME NEW j \in 1 .. Len(pending) PROVE Right(After(M, i), pending[j])
    <3>1. PICK q : q = pending[j]
      OBVIOUS
    <3>2. Plain(q, code, env, Temps) /\ Right(M, q)
      BY <1>15, <3>1 DEF Along, Agrees
    <3>3. ASSUME q.val.kind = "var", <<q.val.name, 0>> \in Slots(code),
                 q.val.name \in Temps \/ <<q.val.name, 0>> \in DOMAIN env
          PROVE  After(M, i)[<<q.val.name, 0>>] = M[<<q.val.name, 0>>]
      BY <1>6, <1>11, <1>17, <3>3
    <3> QED BY <3>1, <3>2, <3>3, StaysRight
  <2>4. \A j \in 1 .. Len(pending') : Right(After(M, i), pending'[j])
    BY <1>13, <2>2, <2>3
  <2> QED BY <2>1, <2>4 DEF Agrees
<1> QED BY <1>3, <1>4, <1>9, <1>10, <1>12, <1>16, <1>18, EmittedStep DEF Along

\* A result that is used has a value, or the code is never emitted.
LEMMA UsedValue ==
  ASSUME NEW H, Along(H), NEW j \in 1 .. Len(pending)
  PROVE  /\ Sound(Meant(pending[j]), env)
         /\ pending[j].val # VAL_NONE =>
              /\ Operand(pending[j].val, code)
              /\ Loads(H[Len(code)], pending[j].val) = Meant(pending[j])
BY DEF Along, Shaped, Agrees, Plain, Right

LEMMA UsedOnes ==
  ASSUME NEW H, Along(H)
  PROVE  /\ PendingReady /\ Len(pending) \in Nat
         /\ Len(pending) >= 1 =>
              /\ Sound(Meant(Top), env)
              /\ Top.val # VAL_NONE =>
                   Operand(Top.val, code) /\ Loads(H[Len(code)], Top.val) = Meant(Top)
         /\ Len(pending) >= 2 =>
              /\ Sound(Meant(Second), env)
              /\ Second.val # VAL_NONE =>
                   Operand(Second.val, code) /\ Loads(H[Len(code)], Second.val) = Meant(Second)
<1>1. PendingReady
  BY DEF Along, IInv
<1>2. /\ Len(pending) \in Nat
      /\ Len(pending) >= 1 => Len(pending) \in 1 .. Len(pending) /\ Top = pending[Len(pending)]
      /\ Len(pending) >= 2 => Len(pending) - 1 \in 1 .. Len(pending)
  BY <1>1, UsedResults
<1> QED BY <1>1, <1>2, UsedValue DEF Second

\* The value of a number is a number, whatever it is.
LEMMA Numbers ==
  ASSUME NEW e
  PROVE  /\ \A n : Sound(Num(n), e)
         /\ \A v, w : Sound(Minus(v, w), e)
         /\ \A v : Sound(Negated(v), e)
         /\ \A v, k : IsNum(v) => Sound(Offset(v, k), e)
BY DEF Sound, IsNum, Num, Minus, Negated, Garbage, Offset

LEMMA ComputedValues ==
  ASSUME NEW M, NEW t, NEW a, NEW b
  PROVE  /\ Computed(M, Op("ADDR", t, a, b)) = Addr(a.name, 0)
         /\ Computed(M, Op("INDEX_ADDR", t, a, b)) = Offset(Loads(M, a), Loads(M, b).n)
         /\ Computed(M, Op("SUB", t, a, b)) = Minus(Loads(M, a), Loads(M, b))
         /\ Computed(M, Op("NEG", t, a, b)) = Negated(Loads(M, a))
         /\ Computed(M, Op("LOAD", t, a, b)) = M[Place(Loads(M, a))]
         /\ Computed(M, Op("COPY", t, a, b)) = Loads(M, a)
BY DEF Computed, Op, Instr

\* lower_lval and the operators of lower_expr.
LEMMA ComputesKept ==
  ASSUME NEW H, Along(H), ~Excused', AddressOf \/ Index \/ Load \/ Binop \/ Unop
  PROVE  Shaped' /\ Simulated'
<1>0. /\ PendingReady /\ Len(pending) \in Nat /\ ~Doomed' /\ SoundEnv(env, code)
      /\ \A w \in DOMAIN env : H[Len(code)][w] = env[w]
  BY UsedOnes DEF Excused, Along, Shaped, Agrees
<1>1. CASE AddressOf
  <2>1. PICK w \in DOMAIN env :
          /\ w[2] = 0
          /\ Node(<<Op("ADDR", tmp(0), Var(w[1]), VAL_NONE)>>, 1,
                  Append(Under(0), Result(Var(tmp(0)), <<Addr(w[1], 0)>>)))
          /\ UNCHANGED env
    BY <1>0, <1>1, UnderNone DEF AddressOf
  <2>2. w = <<w[1], 0>> /\ w \in Slots(code)
    BY <1>0, <2>1 DEF SoundEnv
  <2>3. Sound(Addr(w[1], 0), env)
    BY <2>2 DEF Sound, Addr, Place
  <2>4. Reads(Op("ADDR", tmp(0), Var(w[1]), VAL_NONE)) = {Var(w[1])} /\ Var(w[1]).name = w[1]
    BY OpReads DEF Var
  <2>5. Operand(Var(w[1]), code)
    BY <2>2 DEF Operand, Var
  <2>6. Computed(H[Len(code)], Op("ADDR", tmp(0), Var(w[1]), VAL_NONE)) = Addr(w[1], 0)
    BY <2>4, ComputedValues
  <2> QED BY <1>0, <2>1, <2>3, <2>4, <2>5, <2>6, UnderNone, ComputedKept
<1>2. CASE Index
  <2> DEFINE m == Offset(Meant(Second), Meant(Top).n)
             i == Op("INDEX_ADDR", tmp(0), Second.val, Top.val)
  <2>1. Len(pending) >= 2 /\ 2 \in 0 .. Len(pending)
    BY <1>0, <1>2 DEF Index, Results
  <2>2. Reads(i) = {Second.val, Top.val}
    BY OpReads
  <2>3. Sound(m, env)
    BY <1>2 DEF Index, Sound
  <2>4. Computed(H[Len(code)], i) = Offset(Loads(H[Len(code)], Second.val), Loads(H[Len(code)], Top.val).n)
    BY ComputedValues
  <2>5. VAL_NONE \notin Reads(i) => Computed(H[Len(code)], i) = m
    BY <1>0, <2>1, <2>2, <2>4, UsedOnes
  <2>6. \A v \in Reads(i) : v = VAL_NONE \/ Operand(v, code)
    BY <1>0, <2>1, <2>2, UsedOnes
  <2>7. Node(<<i>>, 1, Append(Under(2), Result(Var(tmp(0)), <<m>>))) /\ UNCHANGED env
    BY <1>2 DEF Index
  <2> HIDE DEF m
  <2> QED BY <1>0, <2>1, <2>3, <2>5, <2>6, <2>7, ComputedKept
<1>3. CASE Load
  <2> DEFINE m == env[Place(Meant(Top))]
             i == Op("LOAD", tmp(0), Top.val, VAL_NONE)
  <2>1. Len(pending) >= 1 /\ 1 \in 0 .. Len(pending) /\ Place(Meant(Top)) \in DOMAIN env
    BY <1>0, <1>3 DEF Load, Results, Pointing, Addressed
  <2>2. Reads(i) = {Top.val}
    BY OpReads
  <2>3. Sound(m, env)
    BY <1>0, <2>1 DEF SoundEnv
  <2>4. Computed(H[Len(code)], i) = H[Len(code)][Place(Loads(H[Len(code)], Top.val))]
    BY ComputedValues
  <2>5. VAL_NONE \notin Reads(i) =>
          Computed(H[Len(code)], i) = m /\ Place(Loads(H[Len(code)], Top.val)) \in DOMAIN env
    BY <1>0, <2>1, <2>2, <2>4, UsedOnes
  <2>6. \A v \in Reads(i) : v = VAL_NONE \/ Operand(v, code)
    BY <1>0, <2>1, <2>2, UsedOnes
  <2>7. Node(<<i>>, 1, Append(Under(1), Result(Var(tmp(0)), <<m>>))) /\ UNCHANGED env
    BY <1>3 DEF Load
  <2> HIDE DEF m
  <2> QED BY <1>0, <2>1, <2>3, <2>5, <2>6, <2>7, ComputedKept
<1>4. CASE Binop
  <2> DEFINE m == Minus(Meant(Second), Meant(Top))
             i == Op("SUB", tmp(0), Second.val, Top.val)
  <2>1. Len(pending) >= 2 /\ 2 \in 0 .. Len(pending)
    BY <1>0, <1>4 DEF Binop, Results
  <2>2. Reads(i) = {Second.val, Top.val}
    BY OpReads
  <2>3. Sound(m, env)
    BY Numbers
  <2>4. Computed(H[Len(code)], i) = Minus(Loads(H[Len(code)], Second.val), Loads(H[Len(code)], Top.val))
    BY ComputedValues
  <2>5. VAL_NONE \notin Reads(i) => Computed(H[Len(code)], i) = m
    BY <1>0, <2>1, <2>2, <2>4, UsedOnes
  <2>6. \A v \in Reads(i) : v = VAL_NONE \/ Operand(v, code)
    BY <1>0, <2>1, <2>2, UsedOnes
  <2>7. Node(<<i>>, 1, Append(Under(2), Result(Var(tmp(0)), <<m>>))) /\ UNCHANGED env
    BY <1>4 DEF Binop
  <2> HIDE DEF m
  <2> QED BY <1>0, <2>1, <2>3, <2>5, <2>6, <2>7, ComputedKept
<1>5. CASE Unop
  <2> DEFINE m == Negated(Meant(Top))
             i == Op("NEG", tmp(0), Top.val, VAL_NONE)
  <2>1. Len(pending) >= 1 /\ 1 \in 0 .. Len(pending)
    BY <1>0, <1>5 DEF Unop, Results
  <2>2. Reads(i) = {Top.val}
    BY OpReads
  <2>3. Sound(m, env)
    BY Numbers
  <2>4. Computed(H[Len(code)], i) = Negated(Loads(H[Len(code)], Top.val))
    BY ComputedValues
  <2>5. VAL_NONE \notin Reads(i) => Computed(H[Len(code)], i) = m
    BY <1>0, <2>1, <2>2, <2>4, UsedOnes
  <2>6. \A v \in Reads(i) : v = VAL_NONE \/ Operand(v, code)
    BY <1>0, <2>1, <2>2, UsedOnes
  <2>7. Node(<<i>>, 1, Append(Under(1), Result(Var(tmp(0)), <<m>>))) /\ UNCHANGED env
    BY <1>5 DEF Unop
  <2> HIDE DEF m
  <2> QED BY <1>0, <2>1, <2>3, <2>5, <2>6, <2>7, ComputedKept
<1> QED BY <1>1, <1>2, <1>3, <1>4, <1>5

\* Literals and names are their own operands, and a result may be dropped.
LEMMA SilentKept ==
  ASSUME NEW H, Along(H), Literal \/ Name \/ Drop
  PROVE  Shaped' /\ Simulated'
<1>0. /\ IInv /\ Shaped /\ Runs(H, code) /\ PendingReady /\ SoundEnv(env, code)
      /\ \A w \in DOMAIN env : H[Len(code)][w] = env[w]
      /\ \A j \in 1 .. Len(pending) :
           Plain(pending[j], code, env, Temps) /\ Right(H[Len(code)], pending[j])
      /\ code \in Seq(Range(code)) /\ tmp_counter \in Nat
  BY CounterBound DEF Along, IInv, CodeReady, Shaped, Agrees
<1>1. CASE Literal \/ Name
  <2>1. PICK r : /\ Node(<<>>, 0, Append(pending, r)) /\ UNCHANGED env
                 /\ Plain(r, code, env, Temps) /\ Right(H[Len(code)], r)
    <3>1. CASE Literal
      <4>1. PICK n \in Lits : Node(<<>>, 0, Append(pending, Result(Imm(n), <<Num(n)>>)))
                                /\ UNCHANGED env
        BY <3>1 DEF Literal
      <4> DEFINE r == Result(Imm(n), <<Num(n)>>)
      <4>2. r.is = "result" /\ r.val = Imm(n) /\ Meant(r) = Num(n)
        BY DEF Result, Meant
      <4>3. Plain(r, code, env, Temps)
        BY <4>2, Numbers DEF Plain, Operand, Imm
      <4>4. Right(H[Len(code)], r)
        BY <4>2 DEF Right, Loads, Imm
      <4> HIDE DEF r
      <4> QED BY <4>1, <4>3, <4>4 DEF r
    <3>2. CASE Name
      <4>1. PICK w \in DOMAIN env :
              /\ w[2] = 0
              /\ Node(<<>>, 0, Append(pending, Result(Var(w[1]),
                   <<IF w[1] \in Arrays THEN Addr(w[1], 0) ELSE env[w]>>)))
              /\ UNCHANGED env
        BY <3>2 DEF Name
      <4>2. w[1] \notin Arrays /\ w = <<w[1], 0>> /\ w \in Slots(code) /\ Sound(env[w], env)
        BY <1>0, <4>1, NamesAssumption DEF SoundEnv
      <4> DEFINE r == Result(Var(w[1]), <<env[w]>>)
      <4>3. r.is = "result" /\ r.val = Var(w[1]) /\ Meant(r) = env[w]
        BY DEF Result, Meant
      <4>4. Plain(r, code, env, Temps)
        BY <4>2, <4>3 DEF Plain, Operand, Var
      <4>5. Right(H[Len(code)], r)
        BY <1>0, <4>2, <4>3 DEF Right, Loads, Var
      <4>6. Node(<<>>, 0, Append(pending, r)) /\ UNCHANGED env
        BY <4>1, <4>2
      <4> HIDE DEF r
      <4> QED BY <4>4, <4>5, <4>6
    <3> QED BY <1>1, <3>1, <3>2
  <2>2. /\ phase' = "lower" /\ code' = code /\ Temps' = Temps
        /\ pending' = Append(Under(0), r)
    BY <1>0, <2>1, UnderNone DEF Node, Temps
  <2>3. PICK s : s = pending'
    OBVIOUS
  <2>4. 0 \in 0 .. Len(pending)
    BY <1>0, UnderNone
  <2>5. \A j \in 1 .. Len(s) : s[j] = r \/ (j \in 1 .. Len(pending) /\ s[j] = pending[j])
    BY <1>0, <2>2, <2>3, <2>4, AppendedResult
  <2>6. \A j \in 1 .. Len(s) : Plain(s[j], code, env, Temps) /\ Right(H[Len(code)], s[j])
    BY <1>0, <2>1, <2>5
  <2>7. Agrees(H[Len(code)], pending', env)
    BY <1>0, <2>3, <2>6 DEF Agrees
  <2> QED BY <1>0, <2>1, <2>2, <2>3, <2>6, <2>7, SilentStep
<1>2. CASE Drop
  <2>1. /\ phase' = "lower" /\ code' = code /\ Temps' = Temps /\ env' = env
        /\ pending' = <<>> /\ Len(<<>>) = 0
    BY <1>0, <1>2 DEF Drop, Node, Temps
  <2>2. \A j \in 1 .. Len(pending') : FALSE
    BY <2>1
  <2>3. Agrees(H[Len(code)], pending', env)
    BY <1>0, <2>2 DEF Agrees
  <2> QED BY <1>0, <2>1, <2>2, <2>3, SilentStep
<1> QED BY <1>1, <1>2

\* var z := e: a new word, which no pending operand names.
LEMMA DeclareScalarKept ==
  ASSUME NEW H, Along(H), ~Excused', DeclareScalar
  PROVE  Shaped' /\ Simulated'
<1>0. /\ IInv /\ Shaped /\ Runs(H, code) /\ PendingReady /\ SoundEnv(env, code) /\ ~Doomed'
      /\ \A w \in DOMAIN env : H[Len(code)][w] = env[w]
      /\ Slots(code) \subseteq Places
  BY SlotsInPlaces DEF Along, IInv, Shaped, Agrees, Excused
<1>1. PICK z \in Scalars :
        /\ Len(pending) = 1 /\ <<z, 0>> \notin DOMAIN env
        /\ Node(<<Op("COPY", z, Top.val, VAL_NONE)>>, 0, <<>>)
        /\ env' = [w \in {<<z, 0>>} \cup DOMAIN env |-> IF w = <<z, 0>> THEN Meant(Top) ELSE env[w]]
  BY DEF DeclareScalar
<1>2. PICK i, m : i = Op("COPY", z, Top.val, VAL_NONE) /\ m = Meant(Top)
  OBVIOUS
<1>3. i.op = "COPY" /\ i.dst = z /\ Reads(i) = {Top.val} /\ z # None
  <2>1. i.op = "COPY" /\ i.dst = z /\ z # None
    BY <1>2, NamesAssumption DEF Op, Instr
  <2>2. Reads(i) = {Top.val}
    BY <1>2, OpReads
  <2> QED BY <2>1, <2>2
<1>4. code' = code \o <<i>> /\ phase' = "lower" /\ pending' = <<>> /\ Len(<<>>) = 0
  BY <1>1, <1>2 DEF Node
<1>5. VAL_NONE \notin Reads(i)
  BY <1>0, <1>4, ReadsSomething
<1>6. Sound(m, env) /\ Operand(Top.val, code) /\ Computed(H[Len(code)], i) = m
  BY <1>1, <1>2, <1>3, <1>5, UsedOnes, ComputedValues
<1>7. Straight(i, code)
  BY <1>3, <1>6 DEF Straight, Computing
<1>8. PICK c, d, e : c = code /\ d = code' /\ e = env'
  OBVIOUS
<1>9. Slots(c) \subseteq Slots(d) /\ <<z, 0>> \in Slots(d)
  <2>1. Extends(d, c, i)
    BY <1>0, <1>4, <1>8, EmittedOne DEF IInv, CodeReady
  <2> QED BY <1>3, <2>1, SlotsGrow
<1>10. /\ DOMAIN e = {<<z, 0>>} \cup DOMAIN env
       /\ \A w \in DOMAIN e : e[w] = IF w = <<z, 0>> THEN m ELSE env[w]
  BY <1>1, <1>2, <1>8
<1>11. SoundEnv(e, d)
  <2>1. DOMAIN e \subseteq {<<x, 0>> : x \in DOMAIN Initial \cup Scalars} \cap Slots(d)
    BY <1>0, <1>8, <1>9, <1>10 DEF SoundEnv
  <2>2. ASSUME NEW w \in DOMAIN e PROVE Sound(e[w], e)
    <3>1. Sound(e[w], env)
      BY <1>0, <1>6, <1>10 DEF SoundEnv
    <3> QED BY <1>10, <3>1, StaysSound
  <2> QED BY <2>1, <2>2 DEF SoundEnv
<1>12. \A w \in Places : After(H[Len(code)], i)[w] = IF w = <<z, 0>> THEN m ELSE H[Len(code)][w]
  BY <1>3, <1>6 DEF After, Changes
<1>13. \A w \in DOMAIN e : After(H[Len(code)], i)[w] = e[w]
  <2>1. DOMAIN env \subseteq Places /\ <<z, 0>> \in Places
    BY <1>0 DEF SoundEnv, Places
  <2> QED BY <1>0, <1>10, <1>12, <2>1
<1>14. \A j \in 1 .. Len(pending') : FALSE
  BY <1>4
<1>15. Agrees(After(H[Len(code)], i), pending', env')
  BY <1>8, <1>13, <1>14 DEF Agrees
<1> QED BY <1>0, <1>3, <1>4, <1>7, <1>8, <1>11, <1>14, <1>15, EmittedStep

\* An assignment changes the word its address points to, and no other operand
\* that is still to be read names it.
LEMMA StoreKept ==
  ASSUME NEW H, Along(H), ~Excused', Store
  PROVE  Shaped' /\ Simulated'
<1>0. /\ IInv /\ Shaped /\ Runs(H, code) /\ PendingReady /\ SoundEnv(env, code)
      /\ ~Doomed' /\ ~late' /\ Len(pending) \in Nat
      /\ \A w \in DOMAIN env : H[Len(code)][w] = env[w]
      /\ Slots(code) \subseteq Places /\ DOMAIN env \subseteq Slots(code)
  BY SlotsInPlaces, UsedOnes DEF Along, IInv, Shaped, Agrees, Excused, SoundEnv
<1>1. /\ Len(pending) >= 2 /\ 2 \in 0 .. Len(pending) /\ Place(Meant(Top)) \in DOMAIN env
      /\ Node(<<Op("STORE", None, Top.val, Second.val)>>, 0, Append(Under(2), Second))
      /\ env' = [env EXCEPT ![Place(Meant(Top))] = Meant(Second)]
      /\ ~Overtaken(Under(2), {Place(Meant(Top))})
  <2>1. Len(pending) >= 2 /\ 2 \in 0 .. Len(pending) /\ Place(Meant(Top)) \in DOMAIN env
    BY <1>0 DEF Store, Results, Pointing, Addressed
  <2>2. ~Overtaken(Under(2), {Place(Meant(Top))})
    BY <1>0, Zenon DEF Store
  <2> QED BY <2>1, <2>2, Zenon DEF Store
<1>2. PICK i, r, a, m :
        /\ i = Op("STORE", None, Top.val, Second.val) /\ r = Second
        /\ a = Place(Meant(Top)) /\ m = Meant(Second)
  OBVIOUS
<1>3. i.op = "STORE" /\ i.dst = None /\ i.a = Top.val /\ i.b = r.val /\ Reads(i) = {Top.val, r.val}
  <2>1. i.op = "STORE" /\ i.dst = None /\ i.a = Top.val /\ i.b = r.val
    BY <1>2 DEF Op, Instr
  <2>2. Reads(i) = {Top.val, r.val}
    BY <1>2, OpReads
  <2> QED BY <2>1, <2>2
<1>4. code' = code \o <<i>> /\ phase' = "lower" /\ pending' = Append(Under(2), r) /\ Temps' = Temps
  BY <1>1, <1>2, CounterBound DEF Node, Temps, IInv, Along
<1>5. VAL_NONE \notin Reads(i)
  BY <1>0, <1>4, ReadsSomething
<1>6. /\ Operand(i.a, code) /\ Operand(i.b, code) /\ Sound(m, env) /\ r.val # VAL_NONE
      /\ Place(Loads(H[Len(code)], i.a)) = a /\ Loads(H[Len(code)], i.b) = m
  BY <1>1, <1>2, <1>3, <1>5, UsedOnes
<1>7. Straight(i, code)
  BY <1>3, <1>6 DEF Straight, Computing
<1>8. PICK c, d, e, s : c = code /\ d = code' /\ e = env' /\ s = pending'
  OBVIOUS
<1>9. Slots(c) \subseteq Slots(d)
  <2>1. Extends(d, c, i)
    BY <1>0, <1>4, <1>8, EmittedOne DEF IInv, CodeReady
  <2> QED BY <2>1, SlotsGrow
<1>10. DOMAIN e = DOMAIN env /\ \A w \in DOMAIN e : e[w] = IF w = a THEN m ELSE env[w]
  BY <1>1, <1>2, <1>8
<1>11. SoundEnv(e, d)
  <2>1. \A w \in DOMAIN e : Sound(e[w], env)
    BY <1>0, <1>6, <1>10 DEF SoundEnv
  <2>2. \A w \in DOMAIN e : Sound(e[w], e)
    BY <1>10, <2>1 DEF Sound
  <2> QED BY <1>0, <1>8, <1>9, <1>10, <2>2 DEF SoundEnv
<1>12. \A w \in Places : After(H[Len(code)], i)[w] = IF w = a THEN m ELSE H[Len(code)][w]
  BY <1>3, <1>6 DEF After, Changes, Changed
<1>13. \A w \in DOMAIN e : After(H[Len(code)], i)[w] = e[w]
  BY <1>0, <1>10, <1>12
<1>14. \A j \in 1 .. Len(s) :
         \/ s[j] = r
         \/ /\ j \in 1 .. Len(pending) /\ s[j] = pending[j]
            /\ ~(s[j].val.kind = "var" /\ <<s[j].val.name, 0>> = a)
  <2>1. \A j \in 1 .. Len(s) :
          \/ s[j] = r
          \/ j \in 1 .. Len(pending) /\ j \in 1 .. Len(Under(2))
               /\ s[j] = pending[j] /\ Under(2)[j] = pending[j]
    <3>1. PICK n : n = 2
      OBVIOUS
    <3>2. PendingReady /\ n \in 0 .. Len(pending) /\ s = Append(Under(n), r)
      BY <1>0, <1>1, <1>4, <1>8, <3>1
    <3>3. \A j \in 1 .. Len(s) :
            \/ s[j] = r
            \/ j \in 1 .. Len(pending) /\ j \in 1 .. Len(Under(n))
                 /\ s[j] = pending[j] /\ Under(n)[j] = pending[j]
      BY <3>2, AppendedResult
    <3> QED BY <3>1, <3>3
  <2> QED BY <1>1, <1>2, <2>1 DEF Overtaken
<1>15. r = pending[Len(pending) - 1] /\ Len(pending) - 1 \in 1 .. Len(pending)
  BY <1>0, <1>1, <1>2 DEF Second
<1>16. \A q : q \in {pending[j] : j \in 1 .. Len(pending)} =>
         Plain(q, code, env, Temps) /\ Right(H[Len(code)], q)
  BY DEF Along, Shaped, Agrees
<1>17. ASSUME NEW q, Plain(q, code, env, Temps), Right(H[Len(code)], q),
              ~(q.val.kind = "var" /\ <<q.val.name, 0>> = a)
       PROVE  Right(After(H[Len(code)], i), q)
  <2>1. ASSUME q.val.kind = "var", <<q.val.name, 0>> \in Slots(code)
        PROVE  After(H[Len(code)], i)[<<q.val.name, 0>>] = H[Len(code)][<<q.val.name, 0>>]
    BY <1>0, <1>12, <1>17, <2>1
  <2> QED BY <1>17, <2>1, StaysRight
<1>18. Right(After(H[Len(code)], i), r)
  <2>1. Plain(r, code, env, Temps) /\ Right(H[Len(code)], r)
    BY <1>15, <1>16
  <2>2. CASE r.val.kind = "var" /\ <<r.val.name, 0>> = a
    <3>1. a \in Places
      BY <1>0, <1>1, <1>2
    <3>2. Loads(After(H[Len(code)], i), r.val) = m
      BY <1>12, <2>2, <3>1 DEF Loads
    <3> QED BY <1>2, <3>2 DEF Right
  <2> QED BY <1>17, <2>1, <2>2
<1>19. \A j \in 1 .. Len(s) : Plain(s[j], d, e, Temps) /\ Right(After(H[Len(code)], i), s[j])
  <2> TAKE j \in 1 .. Len(s)
  <2>1. Plain(s[j], code, env, Temps) /\ Right(H[Len(code)], s[j])
    BY <1>14, <1>15, <1>16
  <2>2. Plain(s[j], d, e, Temps)
    BY <1>8, <1>9, <1>10, <2>1, StaysPlain
  <2>3. Right(After(H[Len(code)], i), s[j])
    BY <1>14, <1>17, <1>18, <2>1
  <2> QED BY <2>2, <2>3
<1>20. Agrees(After(H[Len(code)], i), pending', env')
  BY <1>8, <1>13, <1>19 DEF Agrees
<1>21. Place(Loads(H[Len(code)], i.a)) \in Slots(code)
  BY <1>0, <1>1, <1>2, <1>6
<1>22. \A j \in 1 .. Len(pending') : Plain(pending'[j], code', env', Temps')
  BY <1>4, <1>8, <1>19
<1> QED BY <1>0, <1>4, <1>7, <1>8, <1>11, <1>20, <1>21, <1>22, EmittedStep

-----------------------------------------------------------------------------
(* Calls. *)

\* A memory of the history has every place.
LEMMA HistoryPlaces ==
  ASSUME NEW H, NEW c, Len(c) \in Nat, Runs(H, c), NEW q \in 0 .. Len(c)
  PROVE  DOMAIN H[q] = Places
<1>1. CASE q = 0
  BY <1>1 DEF Runs, Start
<1>2. CASE q \in 1 .. Len(c)
  <2>1. H[q] = After(H[q - 1], c[q])
    BY <1>2 DEF Runs
  <2> QED BY <2>1 DEF After
<1> QED BY <1>1, <1>2

\* The instruction of a call of n arguments with the operands vals.
LEMMA CallArguments ==
  ASSUME NEW n \in Nat, NEW S, NEW vals \in [1 .. n -> S], NEW i, i.args = vals, NEW M
  PROVE  /\ Arguments(M, i) = [k \in 1 .. n |-> Loads(M, vals[k])]
         /\ Range(vals) = {vals[k] : k \in 1 .. n}
<1>1. DOMAIN vals = 1 .. n
  OBVIOUS
<1>2. vals \in Seq(S) /\ Len(vals) = n
  BY <1>1
<1> QED BY <1>1, <1>2 DEF Arguments, Range

LEMMA SoundReturn ==
  ASSUME NEW n \in Nat, NEW values, DOMAIN values = 1 .. n, n = 0 => values = <<>>,
         NEW e, \A k \in 1 .. n : Sound(values[k], e)
  PROVE  Sound(Returned(values), e)
<1>1. CASE values = <<>>
  BY <1>1, Numbers DEF Returned
<1>2. CASE values # <<>>
  <2>1. 1 \in 1 .. n
    BY <1>2
  <2> QED BY <1>2, <2>1 DEF Returned
<1> QED BY <1>1, <1>2

\* What a call clears: variables, the same ones in the memory and in what is meant.
LEMMA CallClears ==
  ASSUME IInv, Shaped, NEW M, DOMAIN M = Places, DOMAIN env \subseteq Places,
         NEW n \in Nat, NEW values, DOMAIN values = 1 .. n, Len(values) = n,
         \A k \in 1 .. n : Sound(values[k], env)
  PROVE  /\ \A w \in DOMAIN env : w \in Cleared(M, values) <=> w \in Cleared(env, values)
         /\ \A x \in Temps : <<x, 0>> \notin Cleared(M, values)
         /\ <<tmp(0), 0>> \notin Cleared(M, values)
<1>1. \A w \in DOMAIN env : w \in Cleared(M, values) <=> w \in Cleared(env, values)
  BY DEF Cleared
<1>2. ASSUME NEW x, x # None, <<x, 0>> \notin DOMAIN env
      PROVE  <<x, 0>> \notin Cleared(M, values)
  <2>1. ASSUME NEW k \in 1 .. n PROVE Place(values[k]) # <<x, 0>>
    BY <1>2, <2>1 DEF Sound, IsNum, Place
  <2> QED BY <2>1 DEF Cleared
<1>3. /\ tmp(0) # None /\ <<tmp(0), 0>> \notin DOMAIN env
      /\ \A w \in DOMAIN env : w[1] \notin Temps
  BY FreshPlace
<1>4. None \notin Temps
  <2>1. tmp_counter \in 0 .. MaxTmps
    BY CounterBound DEF IInv
  <2> QED BY <2>1, FreshTmp DEF Others
<1> QED BY <1>1, <1>2, <1>3, <1>4

\* A call: its instruction does to the memory what its node does to what is meant,
\* and no other operand that is still to be read names what it clears.
LEMMA CallKept ==
  ASSUME NEW H, Along(H), ~Excused', Call
  PROVE  Shaped' /\ Simulated'
<1>0. /\ IInv /\ Shaped /\ Runs(H, code) /\ PendingReady /\ SoundEnv(env, code)
      /\ ~Doomed' /\ ~late' /\ Len(pending) \in Nat /\ Len(code) \in Nat
      /\ \A w \in DOMAIN env : H[Len(code)][w] = env[w]
      /\ Slots(code) \subseteq Places /\ DOMAIN env \subseteq Slots(code)
  BY SlotsInPlaces, UsedOnes DEF Along, IInv, CodeReady, Shaped, Agrees, Excused, SoundEnv
<1>1. PICK p \in Procs :
        LET args == [i \in 1 .. p.ins |-> pending[Len(pending) - p.ins + i]]
            values == [i \in 1 .. p.ins |-> Meant(args[i])]
            changed == Cleared(env, values)
            val == IF Rets(p) = 0 THEN VAL_NONE ELSE Var(tmp(0))
        IN
        /\ Results(p.ins)
        /\ Node(<<Instr("CALL", val.name, VAL_NONE, VAL_NONE, 0,
                        [i \in 1 .. p.ins |-> args[i].val])>>,
                Rets(p), Append(Under(p.ins), Result(val, <<Returned(values)>>)))
        /\ env' = [w \in DOMAIN env |-> IF w \in changed THEN Num(0) ELSE env[w]]
        /\ late' = (late \/ Overtaken(Under(p.ins), changed))
  BY Zenon DEF Call
<1> DEFINE args == [i \in 1 .. p.ins |-> pending[Len(pending) - p.ins + i]]
<1>2. PICK n, values, val, vals, i, r :
        /\ n = p.ins /\ values = [k \in 1 .. n |-> Meant(args[k])]
        /\ val = (IF Rets(p) = 0 THEN VAL_NONE ELSE Var(tmp(0)))
        /\ vals = [k \in 1 .. n |-> args[k].val]
        /\ i = Instr("CALL", val.name, VAL_NONE, VAL_NONE, 0, vals)
        /\ r = Result(val, <<Returned(values)>>)
  OBVIOUS
<1>3. /\ Results(n) /\ Node(<<i>>, Rets(p), Append(Under(n), r))
      /\ env' = [w \in DOMAIN env |-> IF w \in Cleared(env, values) THEN Num(0) ELSE env[w]]
      /\ ~Overtaken(Under(n), Cleared(env, values))
  <2>1. ~Overtaken(Under(n), Cleared(env, values))
    BY <1>0, <1>1, <1>2, Zenon
  <2> QED BY <1>1, <1>2, <2>1, Zenon
<1>4. /\ n \in Nat /\ n \in 0 .. Len(pending) /\ Rets(p) \in Nat
      /\ \A k \in 1 .. n : Len(pending) - n + k \in 1 .. Len(pending)
  BY <1>0, <1>2, <1>3, RetsBounded, ExpressionsAssumption DEF Results
<1>5. \A k \in 1 .. n : /\ values[k] = Meant(pending[Len(pending) - n + k])
                        /\ vals[k] = pending[Len(pending) - n + k].val
  BY <1>2
<1>6. /\ DOMAIN values = 1 .. n /\ Len(values) = n /\ (n = 0 => values = <<>>)
      /\ vals \in [1 .. n -> Range(vals)]
  BY <1>2, <1>4 DEF Range
<1>7. /\ i.op = "CALL" /\ i.dst = val.name /\ i.args = vals /\ Reads(i) = Range(vals)
      /\ r.is = "result" /\ r.val = val /\ Meant(r) = Returned(values)
  BY <1>2 DEF Instr, Reads, Result, Meant
<1>8. /\ code' = code \o <<i>> /\ phase' = "lower" /\ pending' = Append(Under(n), r)
      /\ tmp_counter' = tmp_counter + Rets(p)
  BY <1>3 DEF Node
<1>9. VAL_NONE \notin Reads(i)
  BY <1>0, <1>8, ReadsSomething
<1>10. PICK M : M = H[Len(code)]
  OBVIOUS
<1>11. DOMAIN M = Places /\ DOMAIN env \subseteq Places
  BY <1>0, <1>10, HistoryPlaces
<1>12. \A k \in 1 .. n : /\ Sound(values[k], env) /\ Operand(vals[k], code)
                         /\ Loads(M, vals[k]) = values[k]
  <2> TAKE k \in 1 .. n
  <2>1. vals[k] # VAL_NONE
    BY <1>6, <1>7, <1>9 DEF Range
  <2> QED BY <1>4, <1>5, <1>10, <2>1, UsedValue
<1>13. Arguments(M, i) = values
  <2>1. Arguments(M, i) = [k \in 1 .. n |-> Loads(M, vals[k])]
    <3>1. PICK S : S = Range(vals)
      OBVIOUS
    <3>2. n \in Nat /\ vals \in [1 .. n -> S] /\ i.args = vals
      BY <1>4, <1>6, <1>7, <3>1
    <3> HIDE DEF args
    <3> QED BY <3>2, CallArguments
  <2>2. values = [k \in 1 .. n |-> values[k]]
    BY <1>2
  <2> QED BY <1>12, <2>1, <2>2
<1>14. Sound(Returned(values), env)
  BY <1>4, <1>6, <1>12, SoundReturn
<1>15. \/ Rets(p) = 0 /\ val = VAL_NONE /\ i.dst = None
       \/ Rets(p) > 0 /\ val.kind = "var" /\ val.name = tmp(0) /\ i.dst = tmp(0)
  <2>1. VAL_NONE.name = None /\ Var(tmp(0)).kind = "var" /\ Var(tmp(0)).name = tmp(0)
    BY DEF VAL_NONE, Var
  <2>2. i.dst = val.name
    BY <1>7
  <2>3. CASE Rets(p) = 0
    <3>1. val = VAL_NONE
      BY <1>2, <2>3
    <3> QED BY <2>1, <2>2, <2>3, <3>1
  <2>4. CASE Rets(p) > 0
    <3>1. val = Var(tmp(0))
      BY <1>2, <1>4, <2>4
    <3> QED BY <2>1, <2>2, <2>4, <3>1
  <2> QED BY <1>4, <2>3, <2>4
<1>16. PICK t : t = tmp(0)
  OBVIOUS
<1>17. /\ t \notin Temps /\ t # None /\ <<t, 0>> \in Places /\ <<t, 0>> \notin DOMAIN env
       /\ \A w \in DOMAIN env : w[1] \notin Temps
       /\ Temps \subseteq Temps' /\ (Rets(p) > 0 => t \in Temps')
  BY <1>0, <1>4, <1>8, <1>16, FreshPlace, TempsGrow
<1>18. PICK C : C = Cleared(M, values)
  OBVIOUS
<1>19. /\ \A w \in DOMAIN env : w \in C <=> w \in Cleared(env, values)
       /\ \A x \in Temps : <<x, 0>> \notin C
       /\ <<t, 0>> \notin C
  BY <1>0, <1>4, <1>6, <1>11, <1>12, <1>16, <1>18, CallClears
<1>20. PICK N : N = After(M, i)
  OBVIOUS
<1>21. \A w \in Places :
         N[w] = IF i.dst # None /\ w = <<i.dst, 0>> THEN Returned(values)
                ELSE IF w \in C THEN Num(0) ELSE M[w]
  BY <1>7, <1>13, <1>18, <1>20 DEF After, Computed, Changes, Changed
<1>22. PICK c, d, e, s : c = code /\ d = code' /\ e = env' /\ s = pending'
  OBVIOUS
<1>23. Slots(c) \subseteq Slots(d) /\ (i.dst # None => <<i.dst, 0>> \in Slots(d))
  <2>1. Extends(d, c, i)
    BY <1>0, <1>8, <1>22, EmittedOne DEF IInv, CodeReady
  <2> QED BY <2>1, SlotsGrow
<1>24. /\ DOMAIN e = DOMAIN env
       /\ \A w \in DOMAIN e : e[w] = IF w \in C THEN Num(0) ELSE env[w]
  BY <1>3, <1>19, <1>22
<1>25. SoundEnv(e, d)
  <2>1. \A w \in DOMAIN e : Sound(e[w], env)
    BY <1>0, <1>24, Numbers DEF SoundEnv
  <2>2. \A w \in DOMAIN e : Sound(e[w], e)
    BY <1>24, <2>1 DEF Sound
  <2> QED BY <1>0, <1>22, <1>23, <1>24, <2>2 DEF SoundEnv
<1>26. \A w \in DOMAIN e : N[w] = e[w]
  BY <1>0, <1>10, <1>11, <1>15, <1>16, <1>17, <1>21, <1>24
<1>27. \A j \in 1 .. Len(s) :
         \/ s[j] = r
         \/ /\ j \in 1 .. Len(pending) /\ s[j] = pending[j]
            /\ ~(s[j].val.kind = "var" /\ <<s[j].val.name, 0>> \in Cleared(env, values))
  <2>1. s = Append(Under(n), r)
    BY <1>8, <1>22
  <2>2. \A j \in 1 .. Len(s) :
          \/ s[j] = r
          \/ j \in 1 .. Len(pending) /\ j \in 1 .. Len(Under(n))
               /\ s[j] = pending[j] /\ Under(n)[j] = pending[j]
    BY <1>0, <1>4, <2>1, AppendedResult
  <2> QED BY <1>3, <2>2 DEF Overtaken
<1>28. Plain(r, d, e, Temps') /\ Right(N, r)
  <2>1. Sound(Meant(r), e)
    BY <1>7, <1>14, <1>24 DEF Sound
  <2>2. CASE val = VAL_NONE
    BY <1>7, <2>1, <2>2 DEF Plain, Right
  <2>3. CASE Rets(p) > 0 /\ val.kind = "var" /\ val.name = t /\ i.dst = t
    <3>1. Plain(r, d, e, Temps')
      BY <1>7, <1>17, <1>23, <2>1, <2>3 DEF Plain, Operand
    <3>2. Loads(N, val) = Returned(values)
      BY <1>17, <1>21, <2>3 DEF Loads
    <3> QED BY <1>7, <3>1, <3>2 DEF Right
  <2> QED BY <1>15, <1>16, <2>2, <2>3
<1>29. ASSUME NEW j \in 1 .. Len(pending),
              ~(pending[j].val.kind = "var" /\ <<pending[j].val.name, 0>> \in Cleared(env, values))
       PROVE  Plain(pending[j], d, e, Temps') /\ Right(N, pending[j])
  <2>1. PICK q : q = pending[j]
    OBVIOUS
  <2>2. Plain(q, code, env, Temps) /\ Right(M, q)
    BY <1>10, <2>1 DEF Along, Shaped, Agrees
  <2>3. Plain(q, d, e, Temps')
    BY <1>17, <1>22, <1>23, <1>24, <2>2, StaysPlain
  <2>4. ASSUME q.val.kind = "var", <<q.val.name, 0>> \in Slots(code),
               q.val.name \in Temps \/ <<q.val.name, 0>> \in DOMAIN env
        PROVE  N[<<q.val.name, 0>>] = M[<<q.val.name, 0>>]
    <3>1. <<q.val.name, 0>> \in Places /\ <<q.val.name, 0>> \notin C
      BY <1>0, <1>19, <1>29, <2>1, <2>4
    <3>2. i.dst # None => q.val.name # i.dst
      BY <1>15, <1>16, <1>17, <2>4
    <3> QED BY <1>21, <3>1, <3>2
  <2>5. Right(N, q)
    BY <2>2, <2>4, StaysRight
  <2> QED BY <2>1, <2>3, <2>5
<1>30. \A j \in 1 .. Len(s) : Plain(s[j], d, e, Temps') /\ Right(N, s[j])
  BY <1>27, <1>28, <1>29
<1>31. Straight(i, code)
  <2>1. \A v \in Reads(i) : Operand(v, code)
    BY <1>6, <1>7, <1>12 DEF Range
  <2>2. Len(vals) = n /\ DOMAIN vals = 1 .. n
    BY <1>4, <1>6
  <2> QED BY <1>7, <2>1, <2>2 DEF Straight, Computing
<1>32. /\ SoundEnv(env', code') /\ Agrees(After(H[Len(code)], i), pending', env')
       /\ \A j \in 1 .. Len(pending') : Plain(pending'[j], code', env', Temps')
  BY <1>10, <1>20, <1>22, <1>25, <1>26, <1>30 DEF Agrees
<1> QED BY <1>0, <1>7, <1>8, <1>31, <1>32, EmittedStep

\* Nodes of arrays: a body that has one allocates its storage first.
LEMMA ArraysExcused ==
  ASSUME IInv, Shaped, OpenLiteral \/ OpenDeclaration \/ Element \/ Declare
  PROVE  Excused'
<1>1. ASSUME NEW i, i.op = "ALLOCA", code' = code \o <<i>> PROVE Aggregates'
  <2>1. PICK c, d : c = code /\ d = code'
    OBVIOUS
  <2>2. Extends(d, c, i)
    BY <1>1, <2>1, EmittedOne DEF IInv, CodeReady
  <2>3. Len(c) + 1 \in 1 .. Len(d) /\ d[Len(c) + 1].op = "ALLOCA"
    BY <1>1, <2>2 DEF Extends
  <2> QED BY <2>1, <2>3 DEF Aggregates
<1>2. CASE OpenLiteral
  <2>1. PICK n : code' = code \o <<Instr("ALLOCA", tmp(0), VAL_NONE, VAL_NONE, n, <<>>)>>
    BY <1>2 DEF OpenLiteral, Node
  <2>2. PICK i : i = Instr("ALLOCA", tmp(0), VAL_NONE, VAL_NONE, n, <<>>)
    OBVIOUS
  <2> QED BY <1>1, <2>1, <2>2 DEF Instr, Excused
<1>3. CASE OpenDeclaration
  <2>1. PICK a, n : code' = code \o <<Instr("ALLOCA", a, VAL_NONE, VAL_NONE, n, <<>>)>>
    BY <1>3 DEF OpenDeclaration, Node
  <2>2. PICK i : i = Instr("ALLOCA", a, VAL_NONE, VAL_NONE, n, <<>>)
    OBVIOUS
  <2> QED BY <1>1, <2>1, <2>2 DEF Instr, Excused
<1>4. PendingReady /\ \A j \in 1 .. Len(pending) : pending[j].is = "result"
  BY DEF IInv, Shaped, Plain
<1>5. CASE Element
  BY <1>4, <1>5, UsedResults DEF Element, Second
<1>6. CASE Declare
  BY <1>4, <1>6 DEF Declare
<1> QED BY <1>2, <1>3, <1>5, <1>6

\* Every node keeps the invariant.
LEMMA LowerKept ==
  ASSUME IInv, VInv, Lower
  PROVE  VInv'
<1>1. phase' = "lower"
  BY DEF Lower, Literal, Name, AddressOf, Index, Load, Binop, Unop, Store, Call, OpenLiteral,
         Element, OpenDeclaration, Declare, DeclareScalar, Drop, Node
<1>2. ASSUME ~Excused' PROVE Shaped' /\ Simulated'
  <2>1. ~Excused
    BY <1>2, StaysExcused
  <2>2. PICK H : Along(H)
    BY <2>1 DEF VInv, Simulated, Along
  <2>3. ~(OpenLiteral \/ OpenDeclaration \/ Element \/ Declare)
    BY <1>2, <2>2, ArraysExcused DEF Along
  <2>4. CASE Literal \/ Name \/ Drop
    BY <2>2, <2>4, SilentKept
  <2>5. CASE AddressOf \/ Index \/ Load \/ Binop \/ Unop
    BY <1>2, <2>2, <2>5, ComputesKept
  <2>6. CASE Store
    BY <1>2, <2>2, <2>6, StoreKept
  <2>7. CASE Call
    BY <1>2, <2>2, <2>7, CallKept
  <2>8. CASE DeclareScalar
    BY <1>2, <2>2, <2>8, DeclareScalarKept
  <2> QED BY <2>3, <2>4, <2>5, <2>6, <2>7, <2>8 DEF Lower
<1> QED BY <1>1, <1>2 DEF VInv

-----------------------------------------------------------------------------
(* Code generation, and the run of the code. *)

LEMMA SameCode ==
  ASSUME UNCHANGED lowering
  PROVE  /\ code' = code /\ pending' = pending /\ env' = env /\ Words' = Words
         /\ (Excused' <=> Excused) /\ (Doomed' <=> Doomed) /\ (Shaped' <=> Shaped)
BY DEF lowering, Words, Excused, Aggregates, Doomed, Shaped, Temps

\* A machine that goes on as the history does.
LEMMA SameHistory ==
  ASSUME VInv, UNCHANGED lowering, phase' \in {"run", "done", "fault"} => ~Doomed,
         ASSUME NEW H, ~Excused, Shaped, Runs(H, code), Follows(H) PROVE Follows(H)'
  PROVE  VInv'
<1>1. CASE Excused
  BY <1>1, SameCode DEF VInv
<1>2. CASE ~Excused
  <2>1. PICK H : Runs(H, code) /\ Agrees(H[Len(code)], pending, env) /\ Follows(H)
    BY <1>2 DEF VInv, Simulated
  <2>2. Shaped
    BY <1>2 DEF VInv
  <2>3. Follows(H)'
    BY <1>2, <2>1, <2>2
  <2>4. Runs(H, code') /\ Agrees(H[Len(code')], pending', env')
    BY <2>1, SameCode
  <2>5. Simulated'
    BY <2>3, <2>4 DEF Simulated
  <2> QED BY <2>2, <2>5, SameCode DEF VInv
<1> QED BY <1>1, <1>2

LEMMA EmitKept ==
  ASSUME IInv, VInv, Emit
  PROVE  VInv'
<1>1. UNCHANGED lowering /\ phase = "lower" /\ (phase' = "abort" \/ (phase' = "run" /\ ~Doomed))
  BY DEF Emit, Doomed
<1>2. ASSUME NEW H, ~Excused, Shaped, Runs(H, code), Follows(H) PROVE Follows(H)'
  <2>1. CASE phase' = "abort"
    BY <2>1 DEF Follows
  <2>2. CASE phase' = "run"
    <3>1. /\ pc' = 1
          /\ mem' = [w \in Words |-> IF w[1] \in DOMAIN Initial THEN Initial[w[1]] ELSE Garbage]
      BY <2>2 DEF Emit
    <3>2. Words \subseteq Places /\ Words' = Words /\ code' = code /\ Len(code) \in Nat
      BY <1>1, <1>2, SameCode, WordsAreSlots, SlotsInPlaces DEF Excused, IInv, CodeReady
    <3>3. \A w \in Words : H[0][w] = mem'[w]
      BY <1>2, <3>1, <3>2 DEF Runs, Start
    <3>4. pc' \in 1 .. Len(code') + 1 /\ pc' - 1 = 0 /\ DOMAIN mem' = Words'
      BY <3>1, <3>2
    <3> QED BY <2>2, <3>2, <3>3, <3>4 DEF Follows
  <2> QED BY <1>1, <2>1, <2>2
<1> QED BY <1>1, <1>2, SameHistory

\* The instruction that runs, and the memory of the history it runs on.
LEMMA RunsOn ==
  ASSUME IInv, NEW H, ~Excused, Shaped, Runs(H, code), Follows(H),
         phase = "run", pc \in 1 .. Len(code)
  PROVE  /\ Straight(code[pc], code) /\ H[pc] = After(H[pc - 1], code[pc])
         /\ DOMAIN mem = Words /\ Words = Slots(code) /\ Words \subseteq Places
         /\ DOMAIN H[pc - 1] = Places /\ \A w \in Words : mem[w] = H[pc - 1][w]
         /\ \A v \in Reads(code[pc]) : Loaded(v) = Loads(H[pc - 1], v)
         /\ code[pc].op \in {"LOAD", "STORE"} =>
              Place(Loads(H[pc - 1], code[pc].a)) \in Words
         /\ code[pc].dst # None => <<code[pc].dst, 0>> \in Words
<1>1. Words = Slots(code) /\ Words \subseteq Places /\ Len(code) \in Nat
  BY WordsAreSlots, SlotsInPlaces DEF Excused, IInv, CodeReady
<1>2. /\ Straight(code[pc], code) /\ H[pc] = After(H[pc - 1], code[pc])
      /\ DOMAIN mem = Words /\ \A w \in Words : mem[w] = H[pc - 1][w]
      /\ code[pc].op \in {"LOAD", "STORE"} => Place(Loads(H[pc - 1], code[pc].a)) \in Words
  BY <1>1 DEF Shaped, Runs, Follows
<1>3. DOMAIN H[pc - 1] = Places
  <2>1. pc - 1 \in 0 .. Len(code)
    BY <1>1
  <2> QED BY <1>1, <2>1, HistoryPlaces
<1>4. \A v \in Reads(code[pc]) : Loaded(v) = Loads(H[pc - 1], v)
  BY <1>1, <1>2 DEF Straight, Operand, Loaded, Loads
<1>5. code[pc].dst # None => <<code[pc].dst, 0>> \in Words
  BY <1>1 DEF Slots
<1> QED BY <1>1, <1>2, <1>3, <1>4, <1>5

\* A step of the machine that leaves the next memory of the history.
LEMMA StepKept ==
  ASSUME IInv, VInv, phase = "run", pc \in 1 .. Len(code), Stepped,
         ASSUME NEW H, ~Excused, Shaped, Runs(H, code), Follows(H)
         PROVE  DOMAIN mem' = Words /\ \A w \in Words : mem'[w] = H[pc][w]
  PROVE  VInv'
<1>1. /\ UNCHANGED lowering /\ phase' = "run" /\ pc' = pc + 1 /\ ~Doomed
      /\ Words' = Words /\ code' = code /\ Len(code) \in Nat
  <2>1. UNCHANGED lowering /\ phase' = "run" /\ pc' = pc + 1
    BY DEF Stepped
  <2> QED BY <2>1, SameCode DEF VInv, IInv, CodeReady
<1>2. ASSUME NEW H, ~Excused, Shaped, Runs(H, code), Follows(H) PROVE Follows(H)'
  <2>1. DOMAIN mem' = Words /\ \A w \in Words : mem'[w] = H[pc][w]
    BY <1>2
  <2>2. pc' \in 1 .. Len(code') + 1 /\ pc' - 1 = pc
    BY <1>1
  <2> QED BY <1>1, <2>1, <2>2 DEF Follows
<1> QED BY <1>1, <1>2, SameHistory

LEMMA ComputeKept ==
  ASSUME IInv, VInv, Compute
  PROVE  VInv'
<1>1. phase = "run" /\ pc \in 1 .. Len(code) /\ Stepped
  BY DEF Compute, Running, Assigned
<1>2. ASSUME NEW H, ~Excused, Shaped, Runs(H, code), Follows(H)
      PROVE  DOMAIN mem' = Words /\ \A w \in Words : mem'[w] = H[pc][w]
  <2>1. PICK i, M : i = code[pc] /\ M = H[pc - 1]
    OBVIOUS
  <2>2. /\ Straight(i, code) /\ H[pc] = After(M, i)
        /\ DOMAIN mem = Words /\ Words \subseteq Places /\ \A w \in Words : mem[w] = M[w]
        /\ \A v \in Reads(i) : Loaded(v) = Loads(M, v)
    BY <1>1, <1>2, <2>1, RunsOn
  <2>3. i.op \in {"ADDR", "INDEX_ADDR", "SUB", "NEG", "COPY"} /\ i.dst # None
    BY <2>1, <2>2 DEF Compute, Running, Straight, Computing
  <2>4. /\ i.op \in {"INDEX_ADDR", "SUB"} => Loaded(i.a) = Loads(M, i.a) /\ Loaded(i.b) = Loads(M, i.b)
        /\ i.op \in {"NEG", "COPY"} => Loaded(i.a) = Loads(M, i.a)
    BY <2>2 DEF Reads
  <2>5. mem' = [mem EXCEPT ![<<i.dst, 0>>] = Computed(M, i)]
    <3>1. CASE i.op = "ADDR"
      BY <2>1, <3>1 DEF Compute, Assigned, Computed
    <3>2. CASE i.op = "INDEX_ADDR"
      BY <2>1, <2>4, <3>2 DEF Compute, Assigned, Computed
    <3>3. CASE i.op = "SUB"
      BY <2>1, <2>4, <3>3 DEF Compute, Assigned, Computed
    <3>4. CASE i.op = "NEG"
      BY <2>1, <2>4, <3>4 DEF Compute, Assigned, Computed
    <3>5. CASE i.op = "COPY"
      BY <2>1, <2>4, <3>5 DEF Compute, Assigned, Computed
    <3> QED BY <2>3, <3>1, <3>2, <3>3, <3>4, <3>5
  <2>6. \A w \in Places : After(M, i)[w] = IF w = <<i.dst, 0>> THEN Computed(M, i) ELSE M[w]
    BY <2>3 DEF After, Changes
  <2> QED BY <2>2, <2>5, <2>6
<1> QED BY <1>1, <1>2, StepKept

LEMMA AccessKept ==
  ASSUME IInv, VInv, Access
  PROVE  VInv'
<1> DEFINE i == code[pc]
<1>1. /\ phase = "run" /\ pc \in 1 .. Len(code) /\ i.op \in {"LOAD", "STORE"}
      /\ ~Doomed /\ i.a \in Reads(i) /\ (i.op = "STORE" => i.b \in Reads(i))
  BY DEF Access, Running, VInv, Reads
<1>2. CASE Fault
  <2>1. UNCHANGED lowering
    BY <1>2 DEF Fault
  <2>2. ASSUME ~Excused PROVE FALSE
    <3>1. PICK H : Runs(H, code) /\ Follows(H)
      BY <2>2 DEF VInv, Simulated
    <3>2. Shaped
      BY <2>2 DEF VInv
    <3>3. /\ Loaded(i.a) = Loads(H[pc - 1], i.a)
          /\ Place(Loads(H[pc - 1], i.a)) \in Words /\ DOMAIN mem = Words
      BY <1>1, <2>2, <3>1, <3>2, RunsOn
    <3>4. Place(Loaded(i.a)) \notin DOMAIN mem
      <4>1. phase' = "fault"
        BY <1>2 DEF Fault
      <4> QED BY <1>1, <4>1 DEF Access, Assigned, Stepped
    <3> QED BY <3>3, <3>4
  <2> QED BY <1>1, <2>1, <2>2, SameCode DEF VInv
<1>3. CASE ~Fault
  <2>1. \/ i.op = "LOAD" /\ mem' = [mem EXCEPT ![<<i.dst, 0>>] = mem[Place(Loaded(i.a))]]
        \/ i.op = "STORE" /\ mem' = [mem EXCEPT ![Place(Loaded(i.a))] = Loaded(i.b)]
    BY <1>1, <1>3 DEF Access, Assigned
  <2>2. Stepped
    BY <1>3 DEF Access, Assigned
  <2>3. ASSUME NEW H, ~Excused, Shaped, Runs(H, code), Follows(H)
        PROVE  DOMAIN mem' = Words /\ \A w \in Words : mem'[w] = H[pc][w]
    <3>1. PICK c, M : c = code[pc] /\ M = H[pc - 1]
      OBVIOUS
    <3>2. /\ Straight(c, code) /\ H[pc] = After(M, c)
          /\ DOMAIN mem = Words /\ Words \subseteq Places /\ \A w \in Words : mem[w] = M[w]
          /\ Loaded(c.a) = Loads(M, c.a) /\ (c.op = "STORE" => Loaded(c.b) = Loads(M, c.b))
          /\ Place(Loads(M, c.a)) \in Words
      BY <1>1, <2>3, <3>1, RunsOn
    <3>3. CASE c.op = "LOAD"
      <4>1. c.dst # None /\ Computed(M, c) = M[Place(Loads(M, c.a))]
        BY <3>2, <3>3 DEF Straight, Computing, Computed
      <4>2. \A w \in Places : After(M, c)[w] = IF w = <<c.dst, 0>> THEN Computed(M, c) ELSE M[w]
        BY <3>3, <4>1 DEF After, Changes
      <4>3. mem' = [mem EXCEPT ![<<c.dst, 0>>] = mem[Place(Loads(M, c.a))]]
        BY <2>1, <3>1, <3>2, <3>3
      <4> QED BY <3>2, <4>1, <4>2, <4>3
    <3>4. CASE c.op = "STORE"
      <4>1. c.dst = None
        BY <3>2, <3>4 DEF Straight
      <4>2. \A w \in Places :
              After(M, c)[w] = IF w = Place(Loads(M, c.a)) THEN Loads(M, c.b) ELSE M[w]
        BY <3>4, <4>1 DEF After, Changes, Changed
      <4>3. mem' = [mem EXCEPT ![Place(Loads(M, c.a))] = Loads(M, c.b)]
        BY <2>1, <3>1, <3>2, <3>4
      <4> QED BY <3>2, <4>2, <4>3
    <3> QED BY <1>1, <3>1, <3>3, <3>4
  <2> QED BY <1>1, <2>2, <2>3, StepKept
<1> QED BY <1>2, <1>3

LEMMA CallStepKept ==
  ASSUME IInv, VInv, CallStep
  PROVE  VInv'
<1>1. phase = "run" /\ pc \in 1 .. Len(code) /\ code[pc].op = "CALL" /\ Stepped
  BY DEF CallStep, Running
<1>2. ASSUME NEW H, ~Excused, Shaped, Runs(H, code), Follows(H)
      PROVE  DOMAIN mem' = Words /\ \A w \in Words : mem'[w] = H[pc][w]
  <2>1. PICK i, M : i = code[pc] /\ M = H[pc - 1]
    OBVIOUS
  <2>2. /\ H[pc] = After(M, i) /\ DOMAIN M = Places /\ Straight(i, code)
        /\ DOMAIN mem = Words /\ Words \subseteq Places /\ \A w \in Words : mem[w] = M[w]
        /\ \A v \in Reads(i) : Loaded(v) = Loads(M, v)
        /\ i.dst # None => <<i.dst, 0>> \in Words
    BY <1>1, <1>2, <2>1, RunsOn
  <2>3. PICK A : A = Arguments(M, i)
    OBVIOUS
  <2>4. [k \in 1 .. Len(i.args) |-> Loaded(i.args[k])] = A
    <3>1. \A k \in 1 .. Len(i.args) : Loaded(i.args[k]) = Loads(M, i.args[k])
      <4>1. Reads(i) = Range(i.args)
        BY <1>1, <2>1 DEF Reads
      <4>2. \A k \in 1 .. Len(i.args) : i.args[k] \in Range(i.args)
        <5>1. DOMAIN i.args = 1 .. Len(i.args)
          BY <1>1, <2>1, <2>2 DEF Straight
        <5> QED BY <5>1 DEF Range
      <4> QED BY <2>2, <4>1, <4>2
    <3> QED BY <2>3, <3>1 DEF Arguments
  <2>5. mem' = LET cleared == [w \in DOMAIN mem |-> IF w \in Cleared(mem, A) THEN Num(0) ELSE mem[w]]
               IN  IF i.dst = None THEN cleared
                   ELSE [cleared EXCEPT ![<<i.dst, 0>>] = Returned(A)]
    BY <2>1, <2>4, Zenon DEF CallStep
  <2>6. \A w \in Words : w \in Cleared(mem, A) <=> w \in Cleared(M, A)
    BY <2>2 DEF Cleared
  <2>7. DOMAIN mem' = Words
    BY <2>2, <2>5
  <2>8. \A w \in Words :
          mem'[w] = IF i.dst # None /\ w = <<i.dst, 0>> THEN Returned(A)
                    ELSE IF w \in Cleared(M, A) THEN Num(0) ELSE M[w]
    BY <2>2, <2>5, <2>6
  <2>9. \A w \in Places :
          After(M, i)[w] = IF i.dst # None /\ w = <<i.dst, 0>> THEN Returned(A)
                           ELSE IF w \in Cleared(M, A) THEN Num(0) ELSE M[w]
    BY <1>1, <2>1, <2>3 DEF After, Computed, Changes, Changed
  <2> QED BY <2>2, <2>7, <2>8, <2>9
<1> QED BY <1>1, <1>2, StepKept

\* Without arrays nothing is copied.
LEMMA CopyKept ==
  ASSUME IInv, VInv, Copy
  PROVE  VInv'
<1>1. /\ phase = "run" /\ pc \in 1 .. Len(code) /\ code[pc].op = "MEMCPY" /\ ~Doomed
      /\ UNCHANGED lowering
  BY DEF Copy, Running, Stepped, Fault, VInv
<1>2. Excused
  BY <1>1 DEF VInv, Shaped, Straight, Computing
<1> QED BY <1>1, <1>2, SameCode DEF VInv

LEMMA OtherKept ==
  ASSUME IInv, VInv, TooManyArgs \/ Return \/ UNCHANGED vars
  PROVE  VInv'
<1>1. CASE TooManyArgs
  <2>1. UNCHANGED lowering /\ phase' = "abort"
    BY <1>1 DEF TooManyArgs
  <2>2. ASSUME NEW H PROVE Follows(H)'
    BY <2>1 DEF Follows
  <2> QED BY <2>1, <2>2, SameHistory
<1>2. CASE Return
  <2>1. /\ UNCHANGED lowering /\ UNCHANGED mem /\ phase = "run" /\ phase' = "done"
        /\ pc = Len(code) + 1 /\ ~Doomed /\ Words' = Words /\ code' = code /\ Len(code) \in Nat
    BY <1>2, SameCode DEF Return, VInv, IInv, CodeReady, lowering
  <2>2. ASSUME NEW H, Follows(H) PROVE Follows(H)'
    <3>1. \A w \in Words : mem[w] = H[Len(code)][w]
      BY <2>1, <2>2 DEF Follows
    <3> QED BY <2>1, <3>1 DEF Follows
  <2> QED BY <2>1, <2>2, SameHistory
<1>3. CASE UNCHANGED vars
  <2>1. UNCHANGED lowering /\ UNCHANGED <<phase, pc, mem>>
    BY <1>3 DEF vars, lowering
  <2>2. \A H : Follows(H) => Follows(H)'
    BY <2>1, SameCode DEF Follows, lowering
  <2> QED BY <2>1, <2>2, SameHistory DEF VInv
<1> QED BY <1>1, <1>2, <1>3

-----------------------------------------------------------------------------
\* While a body is lowered, its code so far leaves in the variables and in the
\* pending operands what the expressions mean, and when it runs the machine does
\* what that code does (lower_expr and lower_lval, ir.c 291-497).
THEOREM ValuesInvariance == Spec => []VInv
<1>1. Init => VInv
  <2> SUFFICES ASSUME Init PROVE VInv
    OBVIOUS
  <2>1. /\ code = <<>> /\ pending = <<>> /\ phase = "lower" /\ Len(code) = 0 /\ Len(pending) = 0
        /\ DOMAIN env = {<<x, 0>> : x \in DOMAIN Initial}
        /\ \A x \in DOMAIN Initial : env[<<x, 0>>] = Initial[x]
    BY DEF Init
  <2>2. Shaped
    <3>1. \A x \in DOMAIN Initial : Sound(Initial[x], env)
      BY <2>1, NamesAssumption DEF Sound, Place
    <3>2. SoundEnv(env, code)
      BY <2>1, <3>1 DEF SoundEnv, Slots
    <3> QED BY <2>1, <3>2 DEF Shaped
  <2>3. Simulated
    <3> DEFINE H == [q \in {0} |-> Start]
    <3>1. H[0] = Start
      OBVIOUS
    <3> HIDE DEF H
    <3>2. Runs(H, code)
      BY <2>1, <3>1 DEF Runs
    <3>3. Agrees(H[Len(code)], pending, env)
      <4>1. \A w \in DOMAIN env : Start[w] = env[w]
        BY <2>1 DEF Start, Places
      <4> QED BY <2>1, <3>1, <4>1 DEF Agrees
    <3>4. Follows(H)
      BY <2>1 DEF Follows
    <3> QED BY <3>2, <3>3, <3>4 DEF Simulated
  <2> QED BY <2>1, <2>2, <2>3 DEF VInv
<1>2. IInv /\ VInv /\ [Next]_vars => VInv'
  BY LowerKept, EmitKept, ComputeKept, AccessKept, CallStepKept, CopyKept, OtherKept
     DEF Next, Halt
<1> QED BY <1>1, <1>2, Invariance, PTL DEF Spec

\* The code leaves in every variable what the expressions mean, and accesses
\* nothing outside the frame, unless a variable is changed between the evaluation
\* of an operand and the instruction that reads it, or the body has arrays.
THEOREM ValuesAreKept == Spec => []ValuesKept
<1>1. IInv /\ VInv => ValuesKept
  <2> SUFFICES ASSUME IInv, VInv, ~late, ~Aggregates PROVE phase # "fault" /\
                 (phase = "done" => \A w \in DOMAIN env : mem[w] = env[w])
    BY DEF ValuesKept
  <2>1. CASE Doomed
    BY <2>1 DEF VInv
  <2>2. CASE ~Doomed
    <3>1. PICK H : Agrees(H[Len(code)], pending, env) /\ Follows(H)
      BY <2>2 DEF VInv, Excused, Simulated
    <3>2. DOMAIN env \subseteq Words
      BY <2>2, WordsAreSlots DEF VInv, Excused, Shaped, SoundEnv
    <3> QED BY <3>1, <3>2 DEF Follows, Agrees
  <2> QED BY <2>1, <2>2
<1> QED BY <1>1, Invariance, ValuesInvariance, PTL
=============================================================================
