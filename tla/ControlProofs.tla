---------------------------- MODULE ControlProofs ----------------------------
(***************************************************************************)
(* That the code the lowering emits has the paths of the statements, and   *)
(* no others: its execution implements Structured.                         *)
(*                                                                         *)
(* Structured finds the ends of blocks by counting; the lowering keeps     *)
(* them on a stack.  The first part shows that Close, Else, Holder and     *)
(* EnclosingLoops say what the stack of blocks says.  The second follows   *)
(* the labels and jumps through the lowering, the third puts the paths     *)
(* together.                                                               *)
(***************************************************************************)
EXTENDS CompilerProofs

-----------------------------------------------------------------------------
(* Blocks by their opening nodes *)

\* What a node does to the stack of opening nodes.
LEMMA Turn ==
  ASSUME NEW pr, NEW S, Nested(pr, S), NEW i \in 1 .. Len(pr)
  PROVE  /\ Len(S[i]) \in Nat /\ Len(S[i + 1]) \in Nat
         /\ pr[i].k \in Openers =>
              /\ Len(S[i + 1]) = Len(S[i]) + 1 /\ S[i + 1][Len(S[i]) + 1].o = i
              /\ \A k \in 1 .. Len(S[i]) : S[i + 1][k].o = S[i][k].o
         /\ pr[i].k \in {"else", "end"} => Len(S[i]) > 0 /\ Last(S[i]) = S[i][Len(S[i])]
         /\ pr[i].k = "else" =>
              Len(S[i + 1]) = Len(S[i]) /\ \A k \in 1 .. Len(S[i]) : S[i + 1][k].o = S[i][k].o
         /\ pr[i].k = "end" =>
              Len(S[i + 1]) = Len(S[i]) - 1 /\ \A k \in 1 .. Len(S[i]) - 1 : S[i + 1][k].o = S[i][k].o
         /\ pr[i].k \notin Openers \cup {"else", "end"} => S[i + 1] = S[i]
<1>1. PICK s, t, n : s = S[i] /\ t = S[i + 1] /\ n = Len(s)
  OBVIOUS
<1>2. /\ s \in Seq(Below(i - 1)) /\ t \in Seq(Below(i)) /\ Fits(pr, s, i)
      /\ pr[i].k \in Openers => t = Append(s, [o |-> i, b |-> i])
      /\ pr[i].k = "else" => t = Append(Front(s), [o |-> Last(s).o, b |-> i])
      /\ pr[i].k = "end" => t = Front(s)
      /\ pr[i].k \notin Openers \cup {"else", "end"} => t = s
  <2>1. Stacked(pr, S, i)
    BY StackAt
  <2> QED BY <1>1, <2>1 DEF Stacked
<1>3. n \in Nat /\ Len(t) \in Nat
  BY <1>1, <1>2
<1>4. CASE pr[i].k \in Openers
  <2>1. PICK x, A : x = [o |-> i, b |-> i] /\ A = Below(i - 1) \cup {x}
    OBVIOUS
  <2>2. s \in Seq(A) /\ x \in A
    BY <1>2, <2>1
  <2>3. Len(t) = n + 1 /\ (\A k \in 1 .. n : t[k] = s[k]) /\ t[n + 1] = x
    <3>1. /\ Len(Append(s, x)) = Len(s) + 1 /\ Append(s, x)[Len(s) + 1] = x
          /\ \A k \in 1 .. Len(s) : Append(s, x)[k] = s[k]
      BY <2>2, Stacks
    <3> QED BY <1>1, <1>2, <1>4, <2>1, <3>1
  <2>4. pr[i].k \notin {"else", "end"}
    BY <1>4 DEF Openers, Loops
  <2> QED BY <1>1, <1>3, <1>4, <2>1, <2>3, <2>4
<1>5. CASE pr[i].k \in {"else", "end"}
  <2>1. pr[i].k \notin Openers
    BY <1>5 DEF Openers, Loops
  <2>2. s # <<>>
    BY <1>2, <1>5 DEF Fits
  <2>3. PICK f : f = Front(s)
    OBVIOUS
  <2>4. /\ f \in Seq(Below(i - 1)) /\ Len(f) = n - 1 /\ (\A k \in 1 .. n - 1 : f[k] = s[k])
        /\ n \in Nat \ {0} /\ Last(s) = s[n]
    <3>1. PICK A : A = Below(i - 1)
      OBVIOUS
    <3>2. s \in Seq(A)
      BY <1>2, <3>1
    <3>3. /\ Front(s) \in Seq(A) /\ Len(Front(s)) = Len(s) - 1
          /\ \A k \in 1 .. Len(s) - 1 : Front(s)[k] = s[k]
          /\ Len(s) \in Nat \ {0} /\ Last(s) = s[Len(s)]
      BY <2>2, <3>2, FrontOf
    <3> QED BY <1>1, <2>3, <3>1, <3>3
  <2>5. CASE pr[i].k = "end"
    <3>1. t = f
      BY <1>2, <2>3, <2>5
    <3>2. Len(t) = n - 1 /\ \A k \in 1 .. n - 1 : t[k].o = s[k].o
      BY <2>4, <3>1
    <3>3. n > 0
      BY <2>4
    <3> QED BY <1>1, <1>3, <2>1, <2>4, <2>5, <3>2, <3>3
  <2>6. CASE pr[i].k = "else"
    <3>1. PICK x, A : x = [o |-> Last(s).o, b |-> i] /\ A = Below(i - 1) \cup {x}
      OBVIOUS
    <3>2. f \in Seq(A) /\ x \in A
      BY <2>4, <3>1
    <3>3. Len(t) = Len(f) + 1 /\ (\A k \in 1 .. Len(f) : t[k] = f[k]) /\ t[Len(f) + 1] = x
      <4>1. /\ Len(Append(f, x)) = Len(f) + 1 /\ Append(f, x)[Len(f) + 1] = x
            /\ \A k \in 1 .. Len(f) : Append(f, x)[k] = f[k]
        BY <3>2, Stacks
      <4> QED BY <1>2, <2>3, <2>6, <3>1, <4>1
    <3>4. Len(t) = n /\ (\A k \in 1 .. n - 1 : t[k] = s[k]) /\ t[n].o = s[n].o
      <4>1. Len(f) + 1 = n /\ (\A k \in 1 .. n - 1 : k \in 1 .. Len(f))
        BY <2>4
      <4>2. t[n] = x /\ x.o = Last(s).o
        BY <3>1, <3>3, <4>1
      <4>3. \A k \in 1 .. n - 1 : t[k] = s[k]
        BY <2>4, <3>3, <4>1
      <4> QED BY <2>4, <3>3, <4>1, <4>2, <4>3
    <3>5. \A k \in 1 .. n : t[k].o = s[k].o
      <4>1. \A k \in 1 .. n : k = n \/ k \in 1 .. n - 1
        BY <2>4
      <4> QED BY <3>4, <4>1
    <3> QED BY <1>1, <1>3, <2>1, <2>4, <2>6, <3>4, <3>5
  <2> QED BY <1>5, <2>5, <2>6
<1>6. CASE pr[i].k \notin Openers \cup {"else", "end"}
  BY <1>1, <1>2, <1>3, <1>6
<1> QED BY <1>4, <1>5, <1>6

\* The blocks on the stack before node i: block k was opened at a node where k - 1
\* were open, and has been there since; any other has been closed.
Blocked(pr, S, i) ==
  /\ \A k \in 1 .. Len(S[i]) :
       LET o == S[i][k].o IN
       /\ o \in 1 .. i - 1 /\ pr[o].k \in Openers /\ Len(S[o]) = k - 1
       /\ \A j \in o + 1 .. i : k <= Len(S[j]) /\ S[j][k].o = o
  /\ \A o \in 1 .. i - 1 : pr[o].k \in Openers =>
       \/ Len(S[o]) < Len(S[i]) /\ S[i][Len(S[o]) + 1].o = o
       \/ \E m \in o + 1 .. i - 1 : pr[m].k = "end" /\ Last(S[m]).o = o

LEMMA BlockedStep ==
  ASSUME NEW pr, NEW S, Nested(pr, S), NEW i \in 1 .. Len(pr), Blocked(pr, S, i)
  PROVE  Blocked(pr, S, i + 1)
<1>1. PICK n, m : n = Len(S[i]) /\ m = Len(S[i + 1])
  OBVIOUS
<1>2. /\ n \in Nat /\ m \in Nat
      /\ pr[i].k \in Openers => m = n + 1 /\ S[i + 1][n + 1].o = i /\ \A k \in 1 .. n : S[i + 1][k].o = S[i][k].o
      /\ pr[i].k \in {"else", "end"} => n > 0 /\ Last(S[i]) = S[i][n]
      /\ pr[i].k = "else" => m = n /\ \A k \in 1 .. n : S[i + 1][k].o = S[i][k].o
      /\ pr[i].k = "end" => m = n - 1 /\ \A k \in 1 .. n - 1 : S[i + 1][k].o = S[i][k].o
      /\ pr[i].k \notin Openers \cup {"else", "end"} => S[i + 1] = S[i]
  BY <1>1, Turn
<1>3. i \in Nat \ {0} /\ (i + 1) - 1 = i
  OBVIOUS
<1>4. \A k \in 1 .. m : (k \in 1 .. n /\ S[i + 1][k].o = S[i][k].o) \/ (pr[i].k \in Openers /\ k = n + 1)
  <2>1. CASE pr[i].k \in Openers
    <3>1. \A k \in 1 .. n + 1 : k \in 1 .. n \/ k = n + 1
      BY <1>2
    <3> QED BY <1>2, <2>1, <3>1
  <2>2. CASE pr[i].k = "else"
    BY <1>2, <2>2
  <2>3. CASE pr[i].k = "end"
    <3>1. \A k \in 1 .. n - 1 : k \in 1 .. n
      BY <1>2
    <3> QED BY <1>2, <2>3, <3>1
  <2>4. CASE pr[i].k \notin Openers \cup {"else", "end"}
    BY <1>1, <1>2, <2>4
  <2> QED BY <2>1, <2>2, <2>3, <2>4
<1>5. ASSUME NEW k \in 1 .. m
      PROVE  LET o == S[i + 1][k].o IN
             /\ o \in 1 .. i /\ pr[o].k \in Openers /\ Len(S[o]) = k - 1
             /\ \A j \in o + 1 .. i + 1 : k <= Len(S[j]) /\ S[j][k].o = o
  <2>1. PICK o : o = S[i + 1][k].o
    OBVIOUS
  <2>2. ASSUME k \in 1 .. n, o = S[i][k].o
        PROVE  /\ o \in 1 .. i /\ pr[o].k \in Openers /\ Len(S[o]) = k - 1
               /\ \A j \in o + 1 .. i + 1 : k <= Len(S[j]) /\ S[j][k].o = o
    <3>1. /\ o \in 1 .. i - 1 /\ pr[o].k \in Openers /\ Len(S[o]) = k - 1
          /\ \A j \in o + 1 .. i : k <= Len(S[j]) /\ S[j][k].o = o
      BY <1>1, <2>2 DEF Blocked
    <3>2. \A j \in o + 1 .. i + 1 : j \in o + 1 .. i \/ j = i + 1
      BY <3>1
    <3>3. k <= m
      BY <1>2
    <3>4. \A j \in o + 1 .. i + 1 : k <= Len(S[j]) /\ S[j][k].o = o
      BY <1>1, <2>1, <3>1, <3>2, <3>3
    <3> QED BY <3>1, <3>4
  <2>3. ASSUME pr[i].k \in Openers, k = n + 1
        PROVE  /\ o \in 1 .. i /\ pr[o].k \in Openers /\ Len(S[o]) = k - 1
               /\ \A j \in o + 1 .. i + 1 : k <= Len(S[j]) /\ S[j][k].o = o
    <3>1. o = i /\ n = k - 1
      BY <1>2, <2>1, <2>3
    <3>2. \A j \in i + 1 .. i + 1 : j = i + 1
      OBVIOUS
    <3>3. k <= m
      BY <1>2
    <3>4. \A j \in o + 1 .. i + 1 : k <= Len(S[j]) /\ S[j][k].o = o
      BY <1>1, <2>1, <3>1, <3>2, <3>3
    <3> QED BY <1>1, <2>3, <3>1, <3>4
  <2>4. /\ o \in 1 .. i /\ pr[o].k \in Openers /\ Len(S[o]) = k - 1
        /\ \A j \in o + 1 .. i + 1 : k <= Len(S[j]) /\ S[j][k].o = o
    BY <1>4, <2>1, <2>2, <2>3
  <2> QED BY <2>1, <2>4
<1>6. ASSUME NEW o \in 1 .. i, pr[o].k \in Openers
      PROVE  \/ Len(S[o]) < m /\ S[i + 1][Len(S[o]) + 1].o = o
             \/ \E x \in o + 1 .. i : pr[x].k = "end" /\ Last(S[x]).o = o
  <2>1. PICK l : l = Len(S[o])
    OBVIOUS
  <2>2. l \in Nat
    BY <2>1, Turn
  <2>3. CASE o = i
    BY <1>1, <1>2, <1>6, <2>1, <2>3
  <2>4. CASE o # i /\ \E x \in o + 1 .. i - 1 : pr[x].k = "end" /\ Last(S[x]).o = o
    <3>1. \A x \in o + 1 .. i - 1 : x \in o + 1 .. i
      OBVIOUS
    <3> QED BY <2>4, <3>1
  <2>5. CASE o # i /\ ~\E x \in o + 1 .. i - 1 : pr[x].k = "end" /\ Last(S[x]).o = o
    <3>1. o \in 1 .. i - 1 /\ i \in o + 1 .. i
      BY <2>5
    <3>2. l < n /\ S[i][l + 1].o = o
      BY <1>1, <1>6, <2>1, <2>5, <3>1 DEF Blocked
    <3>3. l + 1 \in 1 .. n
      BY <1>2, <2>2, <3>2
    <3>4. CASE pr[i].k = "end"
      <4>1. CASE l + 1 = n
        BY <1>2, <3>1, <3>2, <3>4, <4>1
      <4>2. CASE l + 1 # n
        <5>1. l + 1 \in 1 .. n - 1 /\ l < n - 1
          BY ONLY <1>2, <2>2, <3>3, <4>2
        <5> QED BY <1>2, <2>1, <3>2, <3>4, <5>1
      <4> QED BY <4>1, <4>2
    <3>5. CASE pr[i].k \in Openers
      <4>1. l < m
        BY <1>2, <2>2, <3>2, <3>5
      <4> QED BY <1>2, <2>1, <3>2, <3>3, <3>5, <4>1
    <3>6. CASE pr[i].k \notin Openers \cup {"end"}
      <4>1. m = n /\ S[i + 1][l + 1].o = S[i][l + 1].o
        BY <1>1, <1>2, <3>3, <3>6
      <4> QED BY <2>1, <3>2, <4>1
    <3> QED BY <3>4, <3>5, <3>6
  <2> QED BY <2>3, <2>4, <2>5
<1>7. Blocked(pr, S, i + 1)
  <2>1. \A k \in 1 .. Len(S[i + 1]) :
          LET o == S[i + 1][k].o IN
          /\ o \in 1 .. (i + 1) - 1 /\ pr[o].k \in Openers /\ Len(S[o]) = k - 1
          /\ \A j \in o + 1 .. i + 1 : k <= Len(S[j]) /\ S[j][k].o = o
    BY <1>1, <1>3, <1>5
  <2>2. \A o \in 1 .. (i + 1) - 1 : pr[o].k \in Openers =>
          \/ Len(S[o]) < Len(S[i + 1]) /\ S[i + 1][Len(S[o]) + 1].o = o
          \/ \E x \in o + 1 .. (i + 1) - 1 : pr[x].k = "end" /\ Last(S[x]).o = o
    BY <1>1, <1>3, <1>6
  <2> QED BY <2>1, <2>2, Zenon DEF Blocked
<1> QED BY <1>7

LEMMA BlockedAll ==
  ASSUME NEW pr, NEW S, Nested(pr, S)
  PROVE  \A i \in 1 .. Len(pr) + 1 : Blocked(pr, S, i)
<1> DEFINE Bad == {i \in 1 .. Len(pr) + 1 : ~Blocked(pr, S, i)}
<1>1. SUFFICES ASSUME Bad # {} PROVE FALSE
  OBVIOUS
<1>2. Bad \in SUBSET Nat
  OBVIOUS
<1>3. PICK m \in Bad : \A k \in Bad : m <= k
  BY <1>1, <1>2, Least
<1>4. Len(pr) \in Nat
  BY DEF Nested
<1>5. m # 1
  <2>1. Len(S[1]) = 0
    BY DEF Nested
  <2>2. Blocked(pr, S, 1)
    BY <2>1 DEF Blocked
  <2> QED BY <2>2
<1>6. PICK i \in 1 .. Len(pr) : m = i + 1
  <2>1. m - 1 \in 1 .. Len(pr) /\ m = m - 1 + 1
    BY <1>3, <1>4, <1>5
  <2> QED BY <2>1
<1>7. Blocked(pr, S, i)
  BY <1>3, <1>4, <1>6
<1> QED BY <1>6, <1>7, BlockedStep

-----------------------------------------------------------------------------
(* Program's definitions of blocks *)

LEMMA BlockAt ==
  ASSUME NEW S, Nested(prog, S), NEW i \in 1 .. Len(prog)
  PROVE  /\ Len(prog) \in Nat /\ i \in Nat \ {0} /\ Len(S[i]) \in Nat /\ Level(i) = Len(S[i])
         /\ Blocked(prog, S, i)
         /\ Kind(i) \in {"else", "end"} => Len(S[i]) > 0 /\ Last(S[i]) = S[i][Len(S[i])]
         /\ Kind(i) = "end" => Len(S[i + 1]) = Len(S[i]) - 1
<1>1. Len(prog) \in Nat
  BY DEF Nested
<1>2. i \in Nat \ {0} /\ i \in 1 .. Len(prog) + 1
  BY <1>1
<1>3. Blocked(prog, S, i) /\ Level(i) = Len(S[i])
  BY <1>2, BlockedAll, Levels
<1>4. /\ Len(S[i]) \in Nat
      /\ prog[i].k \in {"else", "end"} => Len(S[i]) > 0 /\ Last(S[i]) = S[i][Len(S[i])]
      /\ prog[i].k = "end" => Len(S[i + 1]) = Len(S[i]) - 1
  BY Turn
<1> QED BY <1>1, <1>2, <1>3, <1>4 DEF Kind

\* An end closes the block on top.
LEMMA CloseIs ==
  ASSUME NEW S, Nested(prog, S), NEW m \in 1 .. Len(prog), Kind(m) = "end"
  PROVE  LET o == Last(S[m]).o IN o \in 1 .. m - 1 /\ Kind(o) \in Openers /\ Close(o) = m
<1>1. PICK o, n, N : o = Last(S[m]).o /\ n = Len(S[m]) /\ N = Len(prog)
  OBVIOUS
<1>2. n \in Nat \ {0} /\ o = S[m][n].o /\ N \in Nat /\ m \in Nat \ {0} /\ Blocked(prog, S, m)
  <2>1. n \in Nat /\ n > 0 /\ Last(S[m]) = S[m][n] /\ N \in Nat /\ m \in Nat \ {0} /\ Blocked(prog, S, m)
    BY <1>1, BlockAt
  <2> QED BY <1>1, <2>1
<1>3. m \in 1 .. N + 1 /\ n \in 1 .. n
  BY <1>1, <1>2
<1>4. /\ o \in 1 .. m - 1 /\ prog[o].k \in Openers /\ Len(S[o]) = n - 1
      /\ \A j \in o + 1 .. m : n <= Len(S[j])
  BY <1>1, <1>2, <1>3 DEF Blocked
<1>5. \A j \in 1 .. N : Level(j) = Len(S[j]) /\ Len(S[j]) \in Nat /\ (Kind(j) = "end" => Len(S[j + 1]) = Len(S[j]) - 1)
  BY <1>1, BlockAt
<1>6. PICK E : E = {j \in Nodes : j > o /\ Kind(j) = "end" /\ Level(j) = Level(o) + 1}
  OBVIOUS
<1>7. o \in 1 .. N /\ Level(o) + 1 = n
  <2>1. o \in 1 .. N
    BY <1>1, <1>2, <1>4
  <2>2. Level(o) = n - 1
    BY <1>4, <1>5, <2>1
  <2> QED BY <1>2, <2>1, <2>2
<1>8. m \in E
  BY <1>1, <1>3, <1>4, <1>5, <1>6, <1>7 DEF Nodes
<1>9. ASSUME NEW j \in E
      PROVE  m <= j
  <2>1. j \in 1 .. N /\ j > o /\ prog[j].k = "end" /\ Len(S[j]) = n
    <3>1. j \in 1 .. N /\ j > o /\ Kind(j) = "end" /\ Level(j) = n
      BY <1>1, <1>6, <1>7 DEF Nodes
    <3> QED BY <1>5, <3>1 DEF Kind
  <2>2. Len(S[j + 1]) = n - 1
    BY <1>5, <2>1 DEF Kind
  <2>3. SUFFICES ASSUME j < m PROVE FALSE
    BY <1>2, <2>1
  <2>4. j + 1 \in o + 1 .. m
    BY <1>4, <2>1, <2>3
  <2> QED BY <1>2, <1>4, <2>2, <2>4
<1>10. E \in SUBSET Nat
  BY <1>1, <1>2, <1>6 DEF Nodes
<1>11. Min(E) \in E /\ \A j \in E : Min(E) <= j
  BY <1>8, <1>10, MinOf
<1>12. Min(E) = m
  <2>1. PICK x : x = Min(E)
    OBVIOUS
  <2>2. x \in Nat /\ x <= m /\ m <= x
    BY <1>8, <1>9, <1>10, <1>11, <2>1
  <2> QED BY <1>2, <2>1, <2>2
<1>13. Close(o) = m
  BY <1>6, <1>12 DEF Close
<1> QED BY <1>1, <1>4, <1>13 DEF Kind

\* Every block of a whole body has an end.
LEMMA HasClose ==
  ASSUME NEW S, Nested(prog, S), S[Len(prog) + 1] = <<>>, NEW o \in 1 .. Len(prog), Kind(o) \in Openers
  PROVE  /\ Close(o) \in o + 1 .. Len(prog) /\ Kind(Close(o)) = "end" /\ Last(S[Close(o)]).o = o
         /\ Len(S[Close(o)]) = Len(S[o]) + 1
<1>1. PICK N : N = Len(prog)
  OBVIOUS
<1>2. N \in Nat /\ N + 1 \in 1 .. N + 1 /\ (N + 1) - 1 = N
  BY <1>1 DEF Nested
<1>3. Len(S[N + 1]) = 0 /\ Len(S[o]) \in Nat
  BY <1>1, Turn
<1>4. Blocked(prog, S, N + 1)
  BY <1>1, <1>2, BlockedAll
<1>5. \E m \in o + 1 .. N : prog[m].k = "end" /\ Last(S[m]).o = o
  BY <1>1, <1>2, <1>3, <1>4 DEF Blocked, Kind
<1>6. PICK m \in o + 1 .. N : Kind(m) = "end" /\ Last(S[m]).o = o
  BY <1>5 DEF Kind
<1>7. m \in 1 .. N
  BY <1>2, <1>6
<1>8. Close(o) = m
  BY <1>1, <1>6, <1>7, CloseIs
<1>9. Len(S[m]) \in Nat \ {0} /\ Last(S[m]) = S[m][Len(S[m])]
  BY <1>1, <1>6, <1>7, Turn DEF Kind
<1>10. Len(S[o]) = Len(S[m]) - 1
  <2>1. Blocked(prog, S, m) /\ Len(S[m]) \in 1 .. Len(S[m])
    BY <1>1, <1>2, <1>7, <1>9, BlockedAll
  <2> QED BY <1>6, <1>9, <2>1 DEF Blocked
<1> QED BY <1>1, <1>3, <1>6, <1>8, <1>9, <1>10

\* The blocks a node is in end behind it, but for the one it ends itself.
LEMMA CloseBehind ==
  ASSUME NEW S, Nested(prog, S), S[Len(prog) + 1] = <<>>, NEW i \in 1 .. Len(prog), NEW k \in 1 .. Len(S[i])
  PROVE  /\ Close(S[i][k].o) \in i .. Len(prog)
         /\ Close(S[i][k].o) = i => Kind(i) = "end" /\ k = Len(S[i])
<1>1. PICK N, o, m : N = Len(prog) /\ o = S[i][k].o /\ m = Close(o)
  OBVIOUS
<1>2. N \in Nat /\ i \in Nat /\ i <= N /\ Len(S[i]) \in Nat /\ Blocked(prog, S, i)
  BY <1>1, BlockAt
<1>3. /\ o \in 1 .. i - 1 /\ prog[o].k \in Openers /\ Len(S[o]) = k - 1
      /\ \A j \in o + 1 .. i : k <= Len(S[j])
  BY <1>1, <1>2 DEF Blocked
<1>4. o \in 1 .. N
  BY <1>2, <1>3
<1>5. m \in o + 1 .. N /\ Kind(m) = "end" /\ Len(S[m]) = Len(S[o]) + 1
  BY <1>1, <1>3, <1>4, HasClose DEF Kind
<1>6. Len(S[m]) = k /\ Len(S[m + 1]) = k - 1
  <2>1. m \in 1 .. N
    BY <1>4, <1>5
  <2>2. Len(S[m + 1]) = Len(S[m]) - 1
    BY <1>1, <1>5, <2>1, BlockAt
  <2> QED BY <1>2, <1>3, <1>5, <2>2
<1>7. ~(m < i)
  <2>1. SUFFICES ASSUME m < i PROVE FALSE
    OBVIOUS
  <2>2. m + 1 \in o + 1 .. i
    BY <1>2, <1>3, <1>5, <2>1
  <2> QED BY <1>2, <1>3, <1>6, <2>2
<1>8. m \in i .. N
  BY <1>2, <1>4, <1>5, <1>7
<1>9. m = i => Kind(i) = "end" /\ k = Len(S[i])
  BY <1>5, <1>6
<1> QED BY <1>1, <1>8, <1>9

\* Holder finds the node that opened the block on top.
LEMMA HolderIs ==
  ASSUME NEW S, Nested(prog, S), NEW i \in 1 .. Len(prog), S[i] # <<>>
  PROVE  /\ Last(S[i]) = S[i][Len(S[i])] /\ Len(S[i]) \in Nat \ {0}
         /\ Holder(i) = Last(S[i]).o
<1>1. PICK N, n, o : N = Len(prog) /\ n = Len(S[i]) /\ o = Last(S[i]).o
  OBVIOUS
<1>2. N \in Nat /\ i \in 1 .. N + 1 /\ n \in Nat \ {0} /\ Last(S[i]) = S[i][n]
  <2>1. N \in Nat /\ i \in 1 .. N + 1 /\ S[i] \in Seq(Below(i - 1))
    BY <1>1 DEF Nested
  <2> QED BY <1>1, <2>1, FrontOf
<1>3. /\ o \in 1 .. i - 1 /\ prog[o].k \in Openers /\ Len(S[o]) = n - 1
      /\ \A j \in o + 1 .. i : n <= Len(S[j])
  <2>1. n \in 1 .. n /\ o = S[i][n].o /\ Blocked(prog, S, i)
    BY <1>1, <1>2, BlockAt
  <2> QED BY <1>1, <1>2, <2>1 DEF Blocked
<1>4. \A j \in 1 .. N : Level(j) = Len(S[j])
  BY <1>1, BlockAt
<1>5. PICK E : E = {j \in 1 .. i - 1 : Kind(j) \in Openers /\ Level(j) = Level(i) - 1}
  OBVIOUS
<1>6. Level(i) = n /\ Level(o) = n - 1
  <2>1. o \in 1 .. N /\ i \in 1 .. N
    BY <1>1, <1>2, <1>3
  <2> QED BY <1>1, <1>3, <1>4, <2>1
<1>7. o \in E
  BY <1>3, <1>5, <1>6 DEF Kind
<1>8. ASSUME NEW j \in E
      PROVE  j <= o
  <2>1. j \in 1 .. i - 1 /\ Len(S[j]) = n - 1
    BY <1>2, <1>4, <1>5, <1>6
  <2>2. SUFFICES ASSUME j > o PROVE FALSE
    BY <1>3, <2>1
  <2>3. j \in o + 1 .. i
    BY <1>3, <2>1, <2>2
  <2> QED BY <1>2, <1>3, <2>1, <2>3
<1>9. E \in SUBSET Nat /\ \A j \in E : j <= i
  BY <1>5
<1>10. Max(E) \in E /\ \A j \in E : j <= Max(E)
  <2>1. i \in Nat
    OBVIOUS
  <2> QED BY <1>7, <1>9, <2>1, MaxOf
<1>11. Max(E) = o
  <2>1. PICK x : x = Max(E)
    OBVIOUS
  <2>2. x \in Nat /\ x <= o /\ o <= x /\ o \in Nat
    BY <1>7, <1>8, <1>9, <1>10, <2>1
  <2> QED BY <2>1, <2>2
<1> QED BY <1>1, <1>2, <1>5, <1>11 DEF Holder

\* The else nodes of an if are those its block is on top of.
LEMMA ElseIs ==
  ASSUME NEW S, Nested(prog, S), S[Len(prog) + 1] = <<>>, NEW i \in 1 .. Len(prog), Kind(i) \in Openers, NEW j
  PROVE  j \in Else(i) <=> j \in 1 .. Len(prog) /\ Kind(j) = "else" /\ Last(S[j]).o = i
<1>1. PICK N, m, l : N = Len(prog) /\ m = Close(i) /\ l = Len(S[i])
  OBVIOUS
<1>2. N \in Nat /\ l \in Nat /\ \A x \in 1 .. N : Level(x) = Len(S[x]) /\ Len(S[x]) \in Nat
  BY <1>1, BlockAt
<1>3. m \in i + 1 .. N /\ Kind(m) = "end" /\ Last(S[m]).o = i /\ Len(S[m]) = l + 1
  BY <1>1, HasClose
<1>4. m \in 1 .. N /\ Last(S[m]) = S[m][l + 1] /\ l + 1 \in 1 .. l + 1
  <2>1. m \in 1 .. N /\ l + 1 \in 1 .. l + 1
    BY <1>1, <1>2, <1>3
  <2>2. m \in 1 .. Len(prog) /\ prog[m].k \in {"else", "end"}
    BY <1>1, <1>3, <2>1 DEF Kind
  <2>3. Last(S[m]) = S[m][Len(S[m])]
    BY <2>2, Turn
  <2> QED BY <1>3, <2>1, <2>3
<1>5. \A x \in i + 1 .. m : l + 1 <= Len(S[x]) /\ S[x][l + 1].o = i
  <2>1. Blocked(prog, S, m)
    <3>1. m \in 1 .. Len(prog) + 1
      BY <1>1, <1>2, <1>4
    <3> QED BY <3>1, BlockedAll
  <2> QED BY <1>3, <1>4, <2>1 DEF Blocked
<1>6. ASSUME j \in Else(i)
      PROVE  j \in 1 .. N /\ Kind(j) = "else" /\ Last(S[j]).o = i
  <2>1. j \in i + 1 .. m /\ Kind(j) = "else" /\ Level(j) = Level(i) + 1
    BY <1>1, <1>6 DEF Else
  <2>2. j \in 1 .. N /\ Len(S[j]) = l + 1
    <3>1. j \in 1 .. N
      BY <1>2, <1>3, <2>1
    <3> QED BY <1>1, <1>2, <2>1, <3>1
  <2>3. Last(S[j]) = S[j][l + 1]
    <3>1. j \in 1 .. Len(prog) /\ prog[j].k \in {"else", "end"}
      BY <1>1, <2>1, <2>2 DEF Kind
    <3>2. Last(S[j]) = S[j][Len(S[j])]
      BY <3>1, Turn
    <3> QED BY <2>2, <3>2
  <2> QED BY <1>5, <2>1, <2>2, <2>3
<1>7. ASSUME j \in 1 .. N, Kind(j) = "else", Last(S[j]).o = i
      PROVE  j \in Else(i)
  <2>1. PICK n : n = Len(S[j])
    OBVIOUS
  <2>2. n \in Nat \ {0} /\ Last(S[j]) = S[j][n] /\ n \in 1 .. n
    <3>1. n \in Nat /\ n > 0 /\ Last(S[j]) = S[j][n]
      BY <1>1, <1>7, <2>1, Turn DEF Kind
    <3> QED BY <3>1
  <2>3. i \in 1 .. j - 1 /\ l = n - 1
    <3>1. Blocked(prog, S, j)
      BY <1>1, <1>2, <1>7, BlockedAll
    <3> QED BY <1>1, <1>7, <2>1, <2>2, <3>1 DEF Blocked
  <2>4. m \in j .. N
    <3>1. j \in 1 .. Len(prog) /\ n \in 1 .. Len(S[j]) /\ S[j][n].o = i
      BY <1>1, <1>7, <2>1, <2>2
    <3> QED BY <1>1, <3>1, CloseBehind
  <2>5. j \in i + 1 .. m
    BY <1>2, <1>7, <2>3, <2>4
  <2>6. Level(j) = Level(i) + 1
    <3>1. Level(j) = n /\ Level(i) = l
      BY <1>1, <1>2, <1>7, <2>1
    <3> QED BY <1>2, <2>2, <2>3, <3>1
  <2> QED BY <1>1, <1>7, <2>5, <2>6 DEF Else
<1> QED BY <1>1, <1>6, <1>7

\* The opening nodes of the loops of a stack.
LoopsOn(pr, s) == {s[k].o : k \in {k \in 1 .. Len(s) : pr[s[k].o].k \in Loops}}

LEMMA EnclosingIs ==
  ASSUME NEW S, Nested(prog, S), S[Len(prog) + 1] = <<>>, NEW i \in 1 .. Len(prog), Kind(i) \notin {"else", "end"}
  PROVE  EnclosingLoops(i) = LoopsOn(prog, S[i])
<1>1. PICK N, n : N = Len(prog) /\ n = Len(S[i])
  OBVIOUS
<1>2. N \in Nat /\ n \in Nat /\ i \in 1 .. N + 1 /\ Blocked(prog, S, i)
  <2>1. N \in Nat /\ n \in Nat /\ Blocked(prog, S, i)
    BY <1>1, BlockAt
  <2> QED BY <1>1, <2>1
<1>3. ASSUME NEW k \in 1 .. n, Kind(S[i][k].o) \in Loops
      PROVE  S[i][k].o \in EnclosingLoops(i)
  <2>1. Close(S[i][k].o) \in i .. N /\ Close(S[i][k].o) # i
    BY <1>1, <1>3, CloseBehind
  <2>2. S[i][k].o \in 1 .. i - 1 /\ prog[S[i][k].o].k \in Openers
    BY <1>1, <1>2 DEF Blocked
  <2>3. Close(S[i][k].o) > i
    BY <1>2, <2>1
  <2> QED BY <1>3, <2>2, <2>3 DEF EnclosingLoops, Enclosing, Kind
<1>4. ASSUME NEW o \in EnclosingLoops(i)
      PROVE  \E k \in 1 .. n : o = S[i][k].o /\ prog[o].k \in Loops
  <2>1. o \in 1 .. i - 1 /\ Kind(o) \in Openers /\ Close(o) > i /\ Kind(o) \in Loops
    BY DEF EnclosingLoops, Enclosing
  <2>2. PICK m, l : m = Close(o) /\ l = Len(S[o])
    OBVIOUS
  <2>3. o \in 1 .. N
    BY <1>1, <2>1
  <2>4. m \in o + 1 .. N /\ Kind(m) = "end" /\ Last(S[m]).o = o /\ Len(S[m]) = l + 1 /\ l \in Nat
    BY <1>1, <2>1, <2>2, <2>3, HasClose, Turn
  <2>5. m \in 1 .. N /\ Last(S[m]) = S[m][l + 1] /\ l + 1 \in 1 .. l + 1
    <3>1. m \in 1 .. N /\ l + 1 \in 1 .. l + 1
      BY <1>2, <2>3, <2>4
    <3>2. m \in 1 .. Len(prog) /\ prog[m].k \in {"else", "end"}
      BY <1>1, <2>4, <3>1 DEF Kind
    <3>3. Last(S[m]) = S[m][Len(S[m])]
      BY <3>2, Turn
    <3> QED BY <2>4, <3>1, <3>3
  <2>6. i \in o + 1 .. m
    BY <2>1, <2>2, <2>4
  <2>7. l + 1 <= n /\ S[i][l + 1].o = o
    <3>1. Blocked(prog, S, m)
      BY <1>1, <1>2, <2>5, BlockedAll
    <3>2. \A x \in o + 1 .. m : l + 1 <= Len(S[x]) /\ S[x][l + 1].o = o
      BY <2>4, <2>5, <3>1 DEF Blocked
    <3> QED BY <1>1, <2>6, <3>2
  <2>8. l + 1 \in 1 .. n
    BY <1>2, <2>4, <2>7
  <2> QED BY <2>1, <2>7, <2>8 DEF Kind
<1>5. ASSUME NEW o \in LoopsOn(prog, S[i])
      PROVE  o \in EnclosingLoops(i)
  BY <1>1, <1>3, <1>5 DEF LoopsOn, Kind
<1>6. ASSUME NEW o \in EnclosingLoops(i)
      PROVE  o \in LoopsOn(prog, S[i])
  BY <1>1, <1>4, <1>6 DEF LoopsOn
<1> QED BY <1>5, <1>6

-----------------------------------------------------------------------------
(* Labels *)

Two(pr) == {j \in Nat : pr[j].k \in Loops \cup {"if"}}
One(pr) == {j \in Nat : pr[j].k \in {"case", "arm"}}

\* The labels handed out before node i, and those it takes.
Gid(pr, i) ==
  2 * Cardinality({j \in 1 .. i - 1 : j \in Two(pr)}) + Cardinality({j \in 1 .. i - 1 : j \in One(pr)})
Takes(pr, i) == IF i \in Two(pr) THEN 2 ELSE IF i \in One(pr) THEN 1 ELSE 0

\* The label that ends the block of node o.
LastLab(pr, o) == IF o \in Two(pr) THEN Gid(pr, o) + 1 ELSE Gid(pr, o)

LEMMA GidStep ==
  ASSUME NEW pr, NEW i \in Nat \ {0}
  PROVE  Gid(pr, i) \in Nat /\ Gid(pr, i + 1) = Gid(pr, i) + Takes(pr, i)
<1> DEFINE Before(T, n) == Cardinality({j \in 1 .. n - 1 : j \in T})
<1>1. \A T : Before(T, i) \in Nat /\ Before(T, i + 1) = IF i \in T THEN Before(T, i) + 1 ELSE Before(T, i)
  BY CountOn
<1>2. \A n : Gid(pr, n) = 2 * Before(Two(pr), n) + Before(One(pr), n)
  BY DEF Gid
<1> HIDE DEF Before
<1>3. ~(i \in Two(pr) /\ i \in One(pr))
  BY DEF Two, One, Loops
<1>4. PICK a, b, c, d : /\ a = Before(Two(pr), i) /\ b = Before(One(pr), i)
                        /\ c = Before(Two(pr), i + 1) /\ d = Before(One(pr), i + 1)
  OBVIOUS
<1>5. /\ a \in Nat /\ b \in Nat
      /\ c = (IF i \in Two(pr) THEN a + 1 ELSE a) /\ d = (IF i \in One(pr) THEN b + 1 ELSE b)
  BY <1>1, <1>4
<1>6. Gid(pr, i) = 2 * a + b /\ Gid(pr, i + 1) = 2 * c + d
  BY <1>2, <1>4
<1> QED BY <1>3, <1>5, <1>6 DEF Takes

LEMMA GidGrows ==
  ASSUME NEW pr, NEW i \in Nat \ {0}, NEW j \in Nat \ {0}, i < j
  PROVE  Gid(pr, i) + Takes(pr, i) <= Gid(pr, j)
<1> DEFINE Bad == {m \in Nat : m > i /\ ~(Gid(pr, i + 1) <= Gid(pr, m))}
<1>1. \A m \in Nat \ {0} : Gid(pr, m) \in Nat /\ Takes(pr, m) \in Nat /\ Gid(pr, m + 1) = Gid(pr, m) + Takes(pr, m)
  BY GidStep DEF Takes
<1>2. Bad = {}
  <2>1. SUFFICES ASSUME Bad # {} PROVE FALSE
    OBVIOUS
  <2>2. PICK m \in Bad : \A k \in Bad : m <= k
    BY <2>1, Least
  <2>3. m # i + 1
    BY <1>1
  <2>4. PICK n \in Nat : n = m - 1 /\ n > i /\ n \notin Bad
    <3>1. m - 1 \in Nat /\ m - 1 > i /\ ~(m <= m - 1)
      BY <2>3
    <3> QED BY <2>2, <3>1
  <2>5. Gid(pr, i + 1) <= Gid(pr, n) /\ n \in Nat \ {0} /\ m = n + 1
    BY <2>4
  <2> QED BY <1>1, <2>5
<1>3. Gid(pr, i + 1) <= Gid(pr, j)
  BY <1>2
<1> QED BY <1>1, <1>3

\* No two nodes hand out one label.
LEMMA LabelsApart ==
  ASSUME NEW pr, NEW o \in Nat \ {0}, NEW p \in Nat \ {0}, pr[o].k \in Openers, pr[p].k \in Openers
  PROVE  /\ LastLab(pr, o) = LastLab(pr, p) => o = p
         /\ Gid(pr, o) = Gid(pr, p) => o = p
         /\ o \in Two(pr) => Gid(pr, o) # LastLab(pr, p)
<1>1. \A x \in {o, p} : /\ Gid(pr, x) \in Nat /\ Takes(pr, x) \in {1, 2}
                        /\ LastLab(pr, x) = Gid(pr, x) + Takes(pr, x) - 1
                        /\ x \in Two(pr) => Takes(pr, x) = 2
  <2>1. ASSUME NEW x \in {o, p}
        PROVE  x \in Two(pr) \/ x \in One(pr)
    BY DEF Two, One, Openers
  <2> QED BY <2>1, GidStep DEF Takes, LastLab
<1>2. o < p => Gid(pr, o) + Takes(pr, o) <= Gid(pr, p)
  BY GidGrows
<1>3. p < o => Gid(pr, p) + Takes(pr, p) <= Gid(pr, o)
  BY GidGrows
<1> QED BY <1>1, <1>2, <1>3

-----------------------------------------------------------------------------
(* What each node adds to the code *)

Owner(S, i) == Last(S[i]).o
\* The node around the one an end closes.
Over(S, i) == S[i][Len(S[i]) - 1].o

\* The label that ends the innermost loop of a stack.
ExitLab(pr, s) == IF LoopsOn(pr, s) = {} THEN LABEL_INVALID ELSE LastLab(pr, Max(LoopsOn(pr, s)))

HasElse(pr, S, i) == \E j \in 1 .. Len(pr) : pr[j].k = "else" /\ Owner(S, j) = i

\* Nodes control leaves by a jump, nodes it may leave by one, and where to.
Jumps(pr, S, i) ==
  \/ pr[i].k \in {"exit", "else"}
  \/ pr[i].k = "end" /\ pr[Owner(S, i)].k \in Loops \cup {"arm"}

JumpTo(pr, S, i) ==
  IF pr[i].k = "exit" THEN ExitLab(pr, S[i])
  ELSE IF pr[i].k = "else" THEN LastLab(pr, Owner(S, i))
  ELSE IF pr[Owner(S, i)].k = "arm" THEN LastLab(pr, Over(S, i))
  ELSE Gid(pr, Owner(S, i))

Branches(pr, i) == pr[i].k \in {"if", "while", "for"} \/ (pr[i].k = "arm" /\ pr[i].y # None)

BranchTo(pr, S, i) == IF pr[i].k = "if" /\ HasElse(pr, S, i) THEN Gid(pr, i) ELSE LastLab(pr, i)

\* The labels a node places, and the nodes they are placed at.
Marks(pr, S, i, lab, at) ==
  \/ pr[i].k \in Loops /\ lab = Gid(pr, i) /\ at = i
  \/ pr[i].k = "else" /\ lab = Gid(pr, Owner(S, i)) /\ at = i + 1
  \/ /\ pr[i].k = "end" /\ lab = LastLab(pr, Owner(S, i))
     /\ at = IF pr[Owner(S, i)].k \in Loops \cup {"arm"} THEN i + 1 ELSE i

Quiet(n) ==
  \/ n.k \in {"var", "let"} /\ n.y = None
  \/ n.k = "arm" /\ n.y = None
  \/ n.k = "case"

\* An instruction of node i.
Good(pr, S, x, i) ==
  /\ x.op \notin {"RET", "PARAM"}
  /\ x.op # "LABEL" => x.at = i
  /\ x.op = "JMP" => Jumps(pr, S, i) /\ x.lab = JumpTo(pr, S, i) /\ (pr[i].k = "exit" => LoopsOn(pr, S[i]) # {})
  /\ x.op \in {"JIF", "JIFN"} => Branches(pr, i) /\ x.lab = BranchTo(pr, S, i)
  /\ x.op = "LABEL" => x.at \in {i, i + 1} /\ Marks(pr, S, i, x.lab, x.at)

\* All that node i has to add is there.
Whole(pr, S, i, R) ==
  /\ ~Quiet(pr[i]) => \E x \in R : x.at = i
  /\ Jumps(pr, S, i) => \E x \in R : x.op = "JMP" /\ x.at = i
  /\ Branches(pr, i) => \E x \in R : x.op \in {"JIF", "JIFN"} /\ x.at = i
  /\ \A lab, at : Marks(pr, S, i, lab, at) => \E x \in R : x.op = "LABEL" /\ x.lab = lab /\ x.at = at

\* The instructions are in the order of their nodes, a jump the last of its node.
Rising(s) ==
  \A p, q \in 1 .. Len(s) : p < q => s[p].at <= s[q].at /\ (s[p].op = "JMP" => s[p].at < s[q].at)

\* The instructions of node i.
Part(pr, S, i, s) ==
  /\ Sequence(s) /\ Rising(s)
  /\ \A x \in Range(s) : Good(pr, S, x, i)
  /\ Whole(pr, S, i, Range(s))

\* The code before node n.
Laid(pr, S, c, n) ==
  /\ Sequence(c) /\ Rising(c)
  /\ \A x \in Range(c) : (x.op = "PARAM" /\ x.at = 0) \/ \E i \in 1 .. n - 1 : Good(pr, S, x, i)
  /\ \A i \in 1 .. n - 1 : Whole(pr, S, i, Range(c))

LEMMA RisingCat ==
  ASSUME NEW s, NEW t, Sequence(s), Sequence(t), Rising(s), Rising(t),
         \A x \in Range(s), y \in Range(t) : x.at <= y.at /\ (x.op = "JMP" => x.at < y.at)
  PROVE  Rising(s \o t)
<1>1. PICK A, B : s \in Seq(A) /\ t \in Seq(B)
  BY DEF Sequence
<1>2. PICK D, u, m, n : D = A \cup B /\ u = s \o t /\ m = Len(s) /\ n = Len(t)
  OBVIOUS
<1>3. s \in Seq(D) /\ t \in Seq(D)
  BY <1>1, <1>2
<1>4. /\ m \in Nat /\ n \in Nat /\ Len(u) = m + n
      /\ \A k \in 1 .. m : u[k] = s[k]
      /\ \A k \in 1 .. n : u[m + k] = t[k]
  BY <1>2, <1>3, Joined
<1>5. /\ \A k \in 1 .. m : u[k] \in Range(s)
      /\ \A k \in 1 .. n : u[m + k] \in Range(t)
  <2>1. DOMAIN s = 1 .. m /\ DOMAIN t = 1 .. n
    BY <1>2, <1>3
  <2> QED BY <1>4, <2>1 DEF Range
<1>6. ASSUME NEW p \in 1 .. m + n, NEW q \in 1 .. m + n, p < q
      PROVE  u[p].at <= u[q].at /\ (u[p].op = "JMP" => u[p].at < u[q].at)
  <2>1. CASE q \in 1 .. m
    <3>1. p \in 1 .. m
      BY <1>4, <1>6, <2>1
    <3> QED BY <1>2, <1>4, <1>6, <2>1, <3>1 DEF Rising
  <2>2. CASE q \notin 1 .. m
    <3>1. PICK l \in 1 .. n : q = m + l
      <4>1. q - m \in 1 .. n /\ q = m + (q - m)
        BY <1>4, <2>2
      <4> QED BY <4>1
    <3>2. CASE p \in 1 .. m
      BY <1>5, <3>1, <3>2
    <3>3. CASE p \notin 1 .. m
      <4>1. PICK k \in 1 .. n : p = m + k
        <5>1. p - m \in 1 .. n /\ p = m + (p - m)
          BY <1>4, <3>3
        <5> QED BY <5>1
      <4>2. k < l
        BY <1>4, <1>6, <3>1, <4>1
      <4> QED BY <1>2, <1>4, <3>1, <4>1, <4>2 DEF Rising
    <3> QED BY <3>2, <3>3
  <2> QED BY <2>1, <2>2
<1> QED BY <1>2, <1>4, <1>6 DEF Rising

LEMMA RisingFlat ==
  ASSUME NEW s, Sequence(s), NEW n \in Nat, \A x \in Range(s) : x.at = n /\ x.op # "JMP"
  PROVE  Rising(s)
<1>1. \A k \in 1 .. Len(s) : s[k] \in Range(s)
  <2>1. DOMAIN s = 1 .. Len(s)
    BY DEF Sequence
  <2> QED BY <2>1 DEF Range
<1> QED BY <1>1 DEF Rising

LEMMA RisingShort ==
  /\ \A x : Rising(<<x>>)
  /\ \A x, y : x.at <= y.at /\ (x.op = "JMP" => x.at < y.at) => Rising(<<x, y>>)
<1>1. ASSUME NEW x PROVE Rising(<<x>>)
  <2>1. Len(<<x>>) = 1 /\ \A p, q \in 1 .. 1 : ~(p < q)
    OBVIOUS
  <2> QED BY <2>1 DEF Rising
<1>2. ASSUME NEW x, NEW y, x.at <= y.at, x.op = "JMP" => x.at < y.at
      PROVE  Rising(<<x, y>>)
  <2>1. PICK s : s = <<x, y>>
    OBVIOUS
  <2>2. Len(s) = 2 /\ s[1] = x /\ s[2] = y
    BY <2>1
  <2>3. \A p, q \in 1 .. 2 : p < q => p = 1 /\ q = 2
    OBVIOUS
  <2>4. Rising(s)
    BY <1>2, <2>2, <2>3 DEF Rising
  <2> QED BY <2>1, <2>4
<1> QED BY <1>1, <1>2

\* Where the instructions of a node are.
LEMMA GoodAt ==
  ASSUME NEW pr, NEW S, NEW x, NEW i \in Nat \ {0}, Good(pr, S, x, i)
  PROVE  x.at \in Nat /\ i <= x.at /\ x.at <= i + 1 /\ (x.op = "JMP" => x.at = i)
<1>1. x.at \in {i, i + 1} /\ (x.op = "JMP" => x.at = i)
  BY DEF Good
<1> QED BY <1>1

LEMMA LaidAt ==
  ASSUME NEW pr, NEW S, NEW c, NEW n \in Nat \ {0}, Laid(pr, S, c, n), NEW x \in Range(c)
  PROVE  x.at \in Nat /\ x.at <= n /\ (x.op = "JMP" => x.at < n)
<1>1. CASE x.op = "PARAM" /\ x.at = 0
  BY <1>1
<1>2. CASE ~(x.op = "PARAM" /\ x.at = 0)
  <2>1. PICK i \in 1 .. n - 1 : Good(pr, S, x, i)
    BY <1>2 DEF Laid
  <2>2. i \in Nat \ {0} /\ i <= n - 1
    OBVIOUS
  <2>3. x.at \in Nat /\ i <= x.at /\ x.at <= i + 1 /\ (x.op = "JMP" => x.at = i)
    BY <2>1, <2>2, GoodAt
  <2> QED BY <2>2, <2>3
<1> QED BY <1>1, <1>2

LEMMA WholeMore ==
  ASSUME NEW pr, NEW S, NEW i, NEW R, NEW Q, Whole(pr, S, i, R), R \subseteq Q
  PROVE  Whole(pr, S, i, Q)
BY DEF Whole

\* One node more.
LEMMA LaidOn ==
  ASSUME NEW pr, NEW S, NEW c, NEW i \in Nat \ {0}, Laid(pr, S, c, i), NEW s, Part(pr, S, i, s)
  PROVE  Laid(pr, S, c \o s, i + 1)
<1>1. PICK d : d = c \o s
  OBVIOUS
<1>2. Sequence(d) /\ Range(d) = Range(c) \cup Range(s)
  BY <1>1, RangeCat DEF Laid, Part
<1>3. Rising(d)
  <2>1. ASSUME NEW x \in Range(c), NEW y \in Range(s)
        PROVE  x.at <= y.at /\ (x.op = "JMP" => x.at < y.at)
    <3>1. x.at \in Nat /\ x.at <= i /\ (x.op = "JMP" => x.at < i)
      BY LaidAt
    <3>2. y.at \in Nat /\ i <= y.at
      BY GoodAt DEF Part
    <3> QED BY <3>1, <3>2
  <2> QED BY <1>1, <2>1, RisingCat DEF Laid, Part
<1>4. (i + 1) - 1 = i /\ (\A j \in 1 .. i : j \in 1 .. i - 1 \/ j = i) /\ i \in 1 .. i
  OBVIOUS
<1>5. \A x \in Range(d) : (x.op = "PARAM" /\ x.at = 0) \/ \E j \in 1 .. i : Good(pr, S, x, j)
  <2>1. \A j \in 1 .. i - 1 : j \in 1 .. i
    OBVIOUS
  <2> QED BY <1>2, <1>4, <2>1 DEF Laid, Part
<1>6. \A j \in 1 .. i : Whole(pr, S, j, Range(d))
  <2>1. ASSUME NEW j \in 1 .. i - 1
        PROVE  Whole(pr, S, j, Range(d))
    BY <1>2, WholeMore DEF Laid
  <2>2. Whole(pr, S, i, Range(d))
    BY <1>2, WholeMore DEF Part
  <2> QED BY <1>4, <2>1, <2>2
<1> QED BY <1>1, <1>2, <1>3, <1>4, <1>5, <1>6 DEF Laid

Plain(op) == op \notin {"RET", "PARAM", "JMP", "JIF", "JIFN", "LABEL"}

\* The kinds of nodes do not overlap.
LEMMA KindsApart ==
  /\ "exit" \notin Openers \cup Declarations \cup {"else", "end", "assign"}
  /\ "else" \notin Openers \cup Declarations \cup {"end", "assign", "exit"}
  /\ "end" \notin Openers \cup Declarations \cup {"else", "assign", "exit"}
  /\ {"if", "case", "arm"} \cap (Loops \cup Declarations \cup {"else", "end", "assign", "exit"}) = {}
  /\ {"if", "case", "arm"} \subseteq Openers /\ Loops \subseteq Openers
  /\ Loops \cap (Declarations \cup {"else", "end", "assign", "exit"}) = {}
  /\ {"while", "for", "loop"} = Loops /\ {"var", "let", "string"} \cup Aggregates = Declarations
  /\ "assign" \notin Openers \cup Declarations
BY DEF Openers, Loops, Declarations, Aggregates

LEMMA PartPlain ==
  ASSUME NEW pr, NEW S, NEW i \in Nat, NEW s, Sequence(s), \A x \in Range(s) : x.at = i /\ Plain(x.op),
         pr[i].k \in Declarations \cup {"assign", "case"} \/ (pr[i].k = "arm" /\ pr[i].y = None),
         Quiet(pr[i]) \/ \E x : x \in Range(s)
  PROVE  Part(pr, S, i, s)
<1>1. \A x \in Range(s) : x.at = i /\ x.op \notin {"RET", "PARAM", "JMP", "JIF", "JIFN", "LABEL"}
  BY DEF Plain
<1>2. Rising(s)
  BY <1>1, RisingFlat
<1>3. ~Jumps(pr, S, i) /\ ~Branches(pr, i) /\ \A lab, at : ~Marks(pr, S, i, lab, at)
  <2>1. pr[i].k \notin Loops \cup {"exit", "else", "end", "if", "while", "for"}
    BY KindsApart
  <2>2. ~Jumps(pr, S, i) /\ \A lab, at : ~Marks(pr, S, i, lab, at)
    BY <2>1 DEF Jumps, Marks
  <2>3. pr[i].k = "arm" => pr[i].y = None
    BY KindsApart
  <2> QED BY <2>1, <2>2, <2>3 DEF Branches
<1>4. \A x \in Range(s) : Good(pr, S, x, i)
  BY <1>1 DEF Good
<1>5. Whole(pr, S, i, Range(s))
  BY <1>1, <1>3 DEF Whole
<1> QED BY <1>2, <1>4, <1>5 DEF Part

LEMMA PartExit ==
  ASSUME NEW pr, NEW S, NEW i \in Nat, pr[i].k = "exit", LoopsOn(pr, S[i]) # {},
         NEW x, x.op = "JMP", x.at = i, x.lab = ExitLab(pr, S[i])
  PROVE  Part(pr, S, i, <<x>>)
<1>1. PICK s : s = <<x>>
  OBVIOUS
<1>2. Sequence(s) /\ Range(s) = {x} /\ Rising(s)
  BY <1>1, RangeShort, RisingShort
<1>3. ~Branches(pr, i) /\ \A lab, at : ~Marks(pr, S, i, lab, at)
  BY KindsApart DEF Branches, Marks
<1>4. Good(pr, S, x, i)
  BY DEF Good, Jumps, JumpTo
<1>5. Whole(pr, S, i, Range(s))
  BY <1>2, <1>3 DEF Whole
<1> QED BY <1>1, <1>2, <1>4, <1>5 DEF Part

LEMMA PartIf ==
  ASSUME NEW pr, NEW S, NEW i \in Nat, pr[i].k = "if",
         NEW x, x.op = "JIFN", x.at = i, x.lab = BranchTo(pr, S, i)
  PROVE  Part(pr, S, i, <<x>>)
<1>1. PICK s : s = <<x>>
  OBVIOUS
<1>2. Sequence(s) /\ Range(s) = {x} /\ Rising(s)
  BY <1>1, RangeShort, RisingShort
<1>3. ~Jumps(pr, S, i) /\ \A lab, at : ~Marks(pr, S, i, lab, at)
  BY KindsApart DEF Jumps, Marks
<1>4. Good(pr, S, x, i)
  BY DEF Good, Branches
<1>5. Whole(pr, S, i, Range(s))
  BY <1>2, <1>3 DEF Whole
<1> QED BY <1>1, <1>2, <1>4, <1>5 DEF Part

LEMMA PartElse ==
  ASSUME NEW pr, NEW S, NEW i \in Nat, pr[i].k = "else",
         NEW x, x.op = "JMP", x.at = i, x.lab = LastLab(pr, Owner(S, i)),
         NEW y, y.op = "LABEL", y.at = i + 1, y.lab = Gid(pr, Owner(S, i))
  PROVE  Part(pr, S, i, <<x, y>>)
<1>1. PICK s : s = <<x, y>>
  OBVIOUS
<1>2. Sequence(s) /\ Range(s) = {x, y} /\ Rising(s)
  <2>1. x.at <= y.at /\ (x.op = "JMP" => x.at < y.at)
    OBVIOUS
  <2> QED BY <1>1, <2>1, RangeShort, RisingShort
<1>3. /\ ~Branches(pr, i)
      /\ \A lab, at : Marks(pr, S, i, lab, at) <=> lab = Gid(pr, Owner(S, i)) /\ at = i + 1
  BY KindsApart DEF Branches, Marks
<1>4. Good(pr, S, x, i)
  BY DEF Good, Jumps, JumpTo
<1>5. Good(pr, S, y, i)
  BY <1>3 DEF Good
<1>6. Whole(pr, S, i, Range(s))
  BY <1>2, <1>3 DEF Whole
<1> QED BY <1>1, <1>2, <1>4, <1>5, <1>6 DEF Part

\* All instructions of a loop before its body belong to its node.
LEMMA PartLoop ==
  ASSUME NEW pr, NEW S, NEW i \in Nat, pr[i].k \in Loops, NEW s, Sequence(s),
         \A x \in Range(s) : /\ x.at = i
                             /\ \/ Plain(x.op)
                                \/ x.op = "LABEL" /\ x.lab = Gid(pr, i)
                                \/ x.op \in {"JIF", "JIFN"} /\ x.lab = LastLab(pr, i) /\ pr[i].k # "loop",
         \E x \in Range(s) : x.op = "LABEL",
         pr[i].k # "loop" => \E x \in Range(s) : x.op \in {"JIF", "JIFN"}
  PROVE  Part(pr, S, i, s)
<1>1. \A x \in Range(s) : /\ x.at = i /\ x.op \notin {"RET", "PARAM", "JMP"}
                          /\ x.op = "LABEL" => x.lab = Gid(pr, i)
                          /\ x.op \in {"JIF", "JIFN"} => x.lab = LastLab(pr, i) /\ pr[i].k # "loop"
  BY DEF Plain
<1>2. Rising(s)
  BY <1>1, RisingFlat
<1>3. pr[i].k \notin {"exit", "else", "end", "if", "arm"} /\ (pr[i].k # "loop" => pr[i].k \in {"while", "for"})
  BY KindsApart
<1>4. /\ ~Jumps(pr, S, i) /\ (Branches(pr, i) <=> pr[i].k # "loop") /\ BranchTo(pr, S, i) = LastLab(pr, i)
      /\ \A lab, at : Marks(pr, S, i, lab, at) <=> lab = Gid(pr, i) /\ at = i
  <2>1. ~Jumps(pr, S, i) /\ BranchTo(pr, S, i) = LastLab(pr, i)
    BY <1>3 DEF Jumps, BranchTo
  <2>2. Branches(pr, i) <=> pr[i].k # "loop"
    BY <1>3 DEF Branches
  <2>3. \A lab, at : Marks(pr, S, i, lab, at) <=> lab = Gid(pr, i) /\ at = i
    BY <1>3 DEF Marks
  <2> QED BY <2>1, <2>2, <2>3
<1>5. ASSUME NEW x \in Range(s)
      PROVE  Good(pr, S, x, i)
  <2>1. x.op = "LABEL" => Marks(pr, S, i, x.lab, x.at)
    BY <1>1, <1>4
  <2> QED BY <1>1, <1>4, <2>1 DEF Good
<1>6. Whole(pr, S, i, Range(s))
  <2>1. \A lab, at : Marks(pr, S, i, lab, at) => \E x \in Range(s) : x.op = "LABEL" /\ x.lab = lab /\ x.at = at
    BY <1>1, <1>4
  <2>2. \E x \in Range(s) : x.at = i
    BY <1>1
  <2>3. Branches(pr, i) => \E x \in Range(s) : x.op \in {"JIF", "JIFN"} /\ x.at = i
    BY <1>1, <1>4
  <2> QED BY <1>4, <2>1, <2>2, <2>3 DEF Whole
<1> QED BY <1>2, <1>5, <1>6 DEF Part

LEMMA PartArm ==
  ASSUME NEW pr, NEW S, NEW i \in Nat, pr[i].k = "arm", pr[i].y # None,
         NEW x, Plain(x.op), x.at = i,
         NEW y, y.op = "JIFN", y.at = i, y.lab = LastLab(pr, i)
  PROVE  Part(pr, S, i, <<x, y>>)
<1>1. PICK s : s = <<x, y>>
  OBVIOUS
<1>2. x.op \notin {"RET", "PARAM", "JMP", "JIF", "JIFN", "LABEL"}
  BY DEF Plain
<1>3. Sequence(s) /\ Range(s) = {x, y} /\ Rising(s)
  <2>1. x.at <= y.at /\ (x.op = "JMP" => x.at < y.at)
    BY <1>2
  <2> QED BY <1>1, <2>1, RangeShort, RisingShort
<1>4. ~Jumps(pr, S, i) /\ BranchTo(pr, S, i) = LastLab(pr, i) /\ \A lab, at : ~Marks(pr, S, i, lab, at)
  BY KindsApart DEF Jumps, BranchTo, Marks
<1>5. Good(pr, S, x, i)
  BY <1>2 DEF Good
<1>6. Good(pr, S, y, i)
  BY <1>4 DEF Good, Branches
<1>7. Whole(pr, S, i, Range(s))
  BY <1>3, <1>4 DEF Whole
<1> QED BY <1>1, <1>3, <1>5, <1>6, <1>7 DEF Part

\* The end of a loop or an arm: on to where it says, then the label behind it.
LEMMA PartEnd ==
  ASSUME NEW pr, NEW S, NEW i \in Nat, pr[i].k = "end", pr[Owner(S, i)].k \in Loops \cup {"arm"},
         NEW s, Sequence(s), \A x \in Range(s) : x.at = i /\ Plain(x.op),
         NEW x, x.op = "JMP", x.at = i, x.lab = JumpTo(pr, S, i),
         NEW y, y.op = "LABEL", y.at = i + 1, y.lab = LastLab(pr, Owner(S, i))
  PROVE  Part(pr, S, i, s \o <<x, y>>)
<1>1. PICK t, u : t = <<x, y>> /\ u = s \o t
  OBVIOUS
<1>2. \A z \in Range(s) : z.at = i /\ z.op \notin {"RET", "PARAM", "JMP", "JIF", "JIFN", "LABEL"}
  BY DEF Plain
<1>3. Sequence(t) /\ Range(t) = {x, y} /\ Rising(t)
  <2>1. x.at <= y.at /\ (x.op = "JMP" => x.at < y.at)
    OBVIOUS
  <2> QED BY <1>1, <2>1, RangeShort, RisingShort
<1>4. Sequence(u) /\ Range(u) = Range(s) \cup {x, y}
  BY <1>1, <1>3, RangeCat
<1>5. Rising(u)
  <2>1. Rising(s)
    BY <1>2, RisingFlat
  <2>2. \A z \in Range(s), w \in Range(t) : z.at <= w.at /\ (z.op = "JMP" => z.at < w.at)
    BY <1>2, <1>3
  <2> QED BY <1>1, <1>3, <2>1, <2>2, RisingCat
<1>6. /\ Jumps(pr, S, i) /\ ~Branches(pr, i)
      /\ \A lab, at : Marks(pr, S, i, lab, at) <=> lab = LastLab(pr, Owner(S, i)) /\ at = i + 1
  BY KindsApart DEF Jumps, Branches, Marks
<1>7. \A z \in Range(s) : Good(pr, S, z, i)
  BY <1>2 DEF Good
<1>8. Good(pr, S, x, i)
  BY <1>6 DEF Good
<1>9. Good(pr, S, y, i)
  BY <1>6 DEF Good
<1>10. Whole(pr, S, i, Range(u))
  BY <1>4, <1>6 DEF Whole
<1> QED BY <1>1, <1>4, <1>5, <1>7, <1>8, <1>9, <1>10 DEF Part

LEMMA PartClose ==
  ASSUME NEW pr, NEW S, NEW i \in Nat, pr[i].k = "end", pr[Owner(S, i)].k \notin Loops \cup {"arm"},
         NEW x, x.op = "LABEL", x.at = i, x.lab = LastLab(pr, Owner(S, i))
  PROVE  Part(pr, S, i, <<x>>)
<1>1. PICK s : s = <<x>>
  OBVIOUS
<1>2. Sequence(s) /\ Range(s) = {x} /\ Rising(s)
  BY <1>1, RangeShort, RisingShort
<1>3. /\ ~Jumps(pr, S, i) /\ ~Branches(pr, i)
      /\ \A lab, at : Marks(pr, S, i, lab, at) <=> lab = LastLab(pr, Owner(S, i)) /\ at = i
  BY KindsApart DEF Jumps, Branches, Marks
<1>4. Good(pr, S, x, i)
  BY <1>3 DEF Good
<1>5. Whole(pr, S, i, Range(s))
  BY <1>2, <1>3 DEF Whole
<1> QED BY <1>1, <1>2, <1>4, <1>5 DEF Part

-----------------------------------------------------------------------------
(* The activations hold the labels of the open blocks *)

Framed(pr, S, n, ls, exit, lc) ==
  /\ lc = Gid(pr, n) /\ exit = ExitLab(pr, S[n])
  /\ Sequence(ls) /\ Len(ls) = Len(S[n])
  /\ \A k \in 1 .. Len(S[n]) :
       LET o == S[n][k].o IN
       /\ ls[k].k = pr[o].k /\ ls[k].last = LastLab(pr, o)
       /\ o \in Two(pr) => ls[k].first = Gid(pr, o)
       /\ pr[o].k \in Loops => ls[k].sv = ExitLab(pr, S[o])

LEMMA LoopsSame ==
  ASSUME NEW pr, NEW s, NEW t, Len(s) = Len(t), \A k \in 1 .. Len(s) : t[k].o = s[k].o
  PROVE  LoopsOn(pr, t) = LoopsOn(pr, s) /\ ExitLab(pr, t) = ExitLab(pr, s)
<1>1. LoopsOn(pr, t) = LoopsOn(pr, s)
  BY DEF LoopsOn
<1> QED BY <1>1 DEF ExitLab

\* What is on a stack was opened before.
LEMMA OnStack ==
  ASSUME NEW pr, NEW S, Nested(pr, S), NEW i \in 1 .. Len(pr)
  PROVE  /\ Len(pr) \in Nat /\ i \in Nat \ {0} /\ Len(S[i]) \in Nat
         /\ \A k \in 1 .. Len(S[i]) : S[i][k].o \in 1 .. i - 1 /\ pr[S[i][k].o].k \in Openers
         /\ LoopsOn(pr, S[i]) \subseteq 1 .. i - 1
         /\ \A o \in LoopsOn(pr, S[i]) : pr[o].k \in Loops
<1>1. Len(pr) \in Nat
  BY DEF Nested
<1>2. i \in 1 .. Len(pr) + 1 /\ i \in Nat \ {0}
  BY <1>1
<1>3. Blocked(pr, S, i) /\ Len(S[i]) \in Nat
  BY <1>2, BlockedAll, Turn
<1>4. \A k \in 1 .. Len(S[i]) : S[i][k].o \in 1 .. i - 1 /\ pr[S[i][k].o].k \in Openers
  BY <1>3 DEF Blocked
<1>5. \A o \in LoopsOn(pr, S[i]) : o \in 1 .. i - 1 /\ pr[o].k \in Loops
  BY <1>4 DEF LoopsOn
<1> QED BY <1>1, <1>2, <1>3, <1>4, <1>5

LEMMA LoopsOpen ==
  ASSUME NEW pr, NEW S, Nested(pr, S), NEW i \in 1 .. Len(pr), pr[i].k \in Openers
  PROVE  ExitLab(pr, S[i + 1]) = IF pr[i].k \in Loops THEN LastLab(pr, i) ELSE ExitLab(pr, S[i])
<1>1. PICK n, s, t : n = Len(S[i]) /\ s = S[i] /\ t = S[i + 1]
  OBVIOUS
<1>2. n \in Nat /\ Len(t) = n + 1 /\ t[n + 1].o = i /\ \A k \in 1 .. n : t[k].o = s[k].o
  BY <1>1, Turn
<1>3. i \in Nat \ {0} /\ LoopsOn(pr, s) \subseteq 1 .. i - 1
  BY <1>1, OnStack
<1>4. \A k \in 1 .. n + 1 : k \in 1 .. n \/ k = n + 1
  BY <1>2
<1>5. n + 1 \in 1 .. n + 1 /\ \A k \in 1 .. n : k \in 1 .. n + 1
  BY <1>2
<1>6. ASSUME NEW o \in LoopsOn(pr, t)
      PROVE  o \in LoopsOn(pr, s) \/ (o = i /\ pr[i].k \in Loops)
  <2>1. PICK k \in 1 .. n + 1 : o = t[k].o /\ pr[t[k].o].k \in Loops
    BY <1>2 DEF LoopsOn
  <2>2. k \in 1 .. n => o \in LoopsOn(pr, s)
    BY <1>1, <1>2, <2>1 DEF LoopsOn
  <2> QED BY <1>2, <1>4, <2>1, <2>2
<1>7. ASSUME NEW o \in LoopsOn(pr, s)
      PROVE  o \in LoopsOn(pr, t)
  <2>1. PICK k \in 1 .. n : o = s[k].o /\ pr[s[k].o].k \in Loops
    BY <1>1 DEF LoopsOn
  <2>2. k \in 1 .. Len(t) /\ t[k].o = o
    BY <1>2, <1>5, <2>1
  <2> QED BY <2>1, <2>2 DEF LoopsOn
<1>8. pr[i].k \in Loops => i \in LoopsOn(pr, t)
  BY <1>2, <1>5 DEF LoopsOn
<1>9. CASE pr[i].k \in Loops
  <2>1. PICK L : L = LoopsOn(pr, t)
    OBVIOUS
  <2>2. i \in L /\ \A o \in L : o \in Nat /\ o <= i
    BY <1>3, <1>6, <1>8, <1>9, <2>1
  <2>3. Max(L) \in L /\ \A o \in L : o <= Max(L)
    <3>1. L \in SUBSET Nat /\ L # {} /\ i \in Nat
      BY <1>3, <2>2
    <3> QED BY <2>2, <3>1, MaxOf
  <2>4. Max(L) = i
    <3>1. PICK m : m = Max(L)
      OBVIOUS
    <3>2. m \in Nat /\ m <= i /\ i <= m
      BY <2>2, <2>3, <3>1
    <3> QED BY <1>3, <3>1, <3>2
  <2> QED BY <1>1, <1>9, <2>1, <2>2, <2>4 DEF ExitLab
<1>10. CASE pr[i].k \notin Loops
  <2>1. LoopsOn(pr, t) = LoopsOn(pr, s)
    BY <1>6, <1>7, <1>10
  <2> QED BY <1>1, <1>10, <2>1 DEF ExitLab
<1> QED BY <1>9, <1>10

\* The stack under a block is the one before the node that opened it.
LEMMA Under ==
  ASSUME NEW pr, NEW S, Nested(pr, S), NEW i \in 1 .. Len(pr), pr[i].k \in {"else", "end"}
  PROVE  /\ Len(S[i]) \in Nat \ {0} /\ Owner(S, i) = S[i][Len(S[i])].o
         /\ Owner(S, i) \in 1 .. i - 1 /\ pr[Owner(S, i)].k \in Openers
         /\ S[Owner(S, i)] = Front(S[i])
         /\ pr[i].k = "else" => pr[Owner(S, i)].k = "if"
         /\ pr[i].k = "end" => S[i + 1] = S[Owner(S, i)]
<1>1. PICK s, x : s = S[i] /\ x = Last(S[i])
  OBVIOUS
<1>2. Stacked(pr, S, i)
  BY StackAt
<1>3. s # <<>> /\ (pr[i].k = "else" => pr[x.b].k = "if")
  BY <1>1, <1>2 DEF Stacked, Fits
<1>4. Opened(pr, S, i)
  <2>1. i \in 1 .. Len(pr) + 1
    BY DEF Nested
  <2> QED BY <2>1, OpenedAll
<1>5. /\ x.o \in 1 .. i - 1 /\ pr[x.o].k \in Openers /\ S[x.o] = Front(s)
      /\ x.b = x.o \/ (pr[x.b].k = "else" /\ pr[x.o].k = "if")
  BY <1>1, <1>3, <1>4 DEF Opened
<1>6. Len(s) \in Nat \ {0} /\ x = s[Len(s)]
  <2>1. Len(s) \in Nat /\ Len(s) > 0 /\ x = s[Len(s)]
    BY <1>1, Turn
  <2> QED BY <2>1
<1>7. pr[i].k = "end" => S[i + 1] = Front(s)
  BY <1>1, <1>2 DEF Stacked
<1> QED BY <1>1, <1>3, <1>5, <1>6, <1>7 DEF Owner

LEMMA FramedPlain ==
  ASSUME NEW pr, NEW S, Nested(pr, S), NEW i \in 1 .. Len(pr), pr[i].k \notin Openers \cup {"else", "end"},
         NEW ls, NEW exit, NEW lc, Framed(pr, S, i, ls, exit, lc)
  PROVE  Framed(pr, S, i + 1, ls, exit, lc)
<1>1. S[i + 1] = S[i]
  BY Turn
<1>2. Gid(pr, i + 1) = Gid(pr, i)
  <2>1. i \notin Two(pr) /\ i \notin One(pr)
    BY KindsApart DEF Two, One
  <2>2. i \in Nat \ {0}
    OBVIOUS
  <2>3. Gid(pr, i) \in Nat /\ Gid(pr, i + 1) = Gid(pr, i) + Takes(pr, i)
    BY <2>2, GidStep
  <2>4. Takes(pr, i) = 0
    BY <2>1 DEF Takes
  <2> QED BY <2>3, <2>4
<1> QED BY <1>1, <1>2 DEF Framed

LEMMA FramedElse ==
  ASSUME NEW pr, NEW S, Nested(pr, S), NEW i \in 1 .. Len(pr), pr[i].k = "else",
         NEW ls, NEW exit, NEW lc, Framed(pr, S, i, ls, exit, lc)
  PROVE  Framed(pr, S, i + 1, ls, exit, lc)
<1>1. PICK s, t : s = S[i] /\ t = S[i + 1]
  OBVIOUS
<1>2. Len(t) = Len(s) /\ \A k \in 1 .. Len(s) : t[k].o = s[k].o
  <2>1. Len(S[i + 1]) = Len(S[i]) /\ \A k \in 1 .. Len(S[i]) : S[i + 1][k].o = S[i][k].o
    BY Turn
  <2> QED BY <1>1, <2>1
<1>3. ExitLab(pr, t) = ExitLab(pr, s)
  BY <1>2, LoopsSame
<1>4. Gid(pr, i + 1) = Gid(pr, i)
  <2>1. i \notin Two(pr) /\ i \notin One(pr)
    BY KindsApart DEF Two, One
  <2>2. i \in Nat \ {0}
    OBVIOUS
  <2>3. Gid(pr, i) \in Nat /\ Gid(pr, i + 1) = Gid(pr, i) + Takes(pr, i)
    BY <2>2, GidStep
  <2>4. Takes(pr, i) = 0
    BY <2>1 DEF Takes
  <2> QED BY <2>3, <2>4
<1> QED BY <1>1, <1>2, <1>3, <1>4 DEF Framed

LEMMA FramedOpen ==
  ASSUME NEW pr, NEW S, Nested(pr, S), NEW i \in 1 .. Len(pr), pr[i].k \in Openers,
         NEW ls, NEW exit, NEW lc, Framed(pr, S, i, ls, exit, lc),
         NEW f, f.k = pr[i].k, f.last = LastLab(pr, i), f.sv = exit, i \in Two(pr) => f.first = Gid(pr, i)
  PROVE  Framed(pr, S, i + 1, Append(ls, f), IF pr[i].k \in Loops THEN LastLab(pr, i) ELSE exit, lc + Takes(pr, i))
<1>1. PICK s, t, n, ms : s = S[i] /\ t = S[i + 1] /\ n = Len(S[i]) /\ ms = Append(ls, f)
  OBVIOUS
<1>2. n \in Nat /\ Len(t) = n + 1 /\ t[n + 1].o = i /\ \A k \in 1 .. n : t[k].o = s[k].o
  BY <1>1, Turn
<1>3. Sequence(ls) /\ Len(ls) = n /\ lc = Gid(pr, i) /\ exit = ExitLab(pr, s)
  BY <1>1 DEF Framed
<1>4. Sequence(ms) /\ Len(ms) = n + 1 /\ (\A k \in 1 .. n : ms[k] = ls[k]) /\ ms[n + 1] = f
  <2>1. /\ Sequence(Append(ls, f)) /\ Len(Append(ls, f)) = Len(ls) + 1
        /\ \A k \in 1 .. Len(ls) : Append(ls, f)[k] = ls[k]
        /\ Append(ls, f)[Len(ls) + 1] = f
    BY <1>3, Appends
  <2> QED BY <1>1, <1>3, <2>1
<1>5. ASSUME NEW k \in 1 .. n + 1
      PROVE  LET o == t[k].o IN
             /\ ms[k].k = pr[o].k /\ ms[k].last = LastLab(pr, o)
             /\ o \in Two(pr) => ms[k].first = Gid(pr, o)
             /\ pr[o].k \in Loops => ms[k].sv = ExitLab(pr, S[o])
  <2>1. CASE k \in 1 .. n
    BY <1>1, <1>2, <1>4, <2>1 DEF Framed
  <2>2. CASE k \notin 1 .. n
    <3>1. k = n + 1
      BY <1>2, <2>2
    <3> QED BY <1>1, <1>2, <1>3, <1>4, <3>1
  <2> QED BY <2>1, <2>2
<1>6. Gid(pr, i + 1) = lc + Takes(pr, i)
  <2>1. i \in Nat \ {0}
    OBVIOUS
  <2> QED BY <1>3, <2>1, GidStep
<1>7. ExitLab(pr, t) = IF pr[i].k \in Loops THEN LastLab(pr, i) ELSE exit
  BY <1>1, <1>3, LoopsOpen
<1> QED BY <1>1, <1>2, <1>4, <1>5, <1>6, <1>7 DEF Framed

LEMMA FramedEnd ==
  ASSUME NEW pr, NEW S, Nested(pr, S), NEW i \in 1 .. Len(pr), pr[i].k = "end",
         NEW ls, NEW exit, NEW lc, Framed(pr, S, i, ls, exit, lc)
  PROVE  /\ ls # <<>> /\ Last(ls) = ls[Len(ls)] /\ Len(ls) = Len(S[i]) /\ Len(ls) \in Nat \ {0}
         /\ Last(ls).k = pr[Owner(S, i)].k /\ Last(ls).last = LastLab(pr, Owner(S, i))
         /\ Owner(S, i) \in Two(pr) => Last(ls).first = Gid(pr, Owner(S, i))
         /\ Framed(pr, S, i + 1, Front(ls), IF Last(ls).k \in Loops THEN Last(ls).sv ELSE exit, lc)
<1>1. PICK s, t, n, ms, o : s = S[i] /\ t = S[i + 1] /\ n = Len(S[i]) /\ ms = Front(ls) /\ o = Owner(S, i)
  OBVIOUS
<1>2. n \in Nat /\ Len(t) = n - 1 /\ \A k \in 1 .. n - 1 : t[k].o = s[k].o
  BY <1>1, Turn
<1>3. Sequence(ls) /\ Len(ls) = n /\ lc = Gid(pr, i) /\ exit = ExitLab(pr, s)
  BY <1>1 DEF Framed
<1>4. n \in Nat \ {0} /\ o = s[n].o /\ t = S[o] /\ o \in 1 .. i - 1
  BY <1>1, Under
<1>5. /\ ls # <<>> /\ Sequence(ms) /\ Len(ms) = n - 1 /\ (\A k \in 1 .. n - 1 : ms[k] = ls[k]) /\ Last(ls) = ls[n]
  <2>1. PICK A : ls \in Seq(A)
    BY <1>3 DEF Sequence
  <2>2. ls # <<>>
    BY <1>3, <1>4, <2>1
  <2>3. /\ Front(ls) \in Seq(A) /\ Len(Front(ls)) = Len(ls) - 1
        /\ \A k \in 1 .. Len(ls) - 1 : Front(ls)[k] = ls[k]
        /\ Last(ls) = ls[Len(ls)]
    BY <2>1, <2>2, FrontOf
  <2> QED BY <1>1, <1>3, <2>2, <2>3 DEF Sequence
<1>6. PICK f : f = Last(ls)
  OBVIOUS
<1>7. /\ f.k = pr[o].k /\ f.last = LastLab(pr, o) /\ (o \in Two(pr) => f.first = Gid(pr, o))
      /\ pr[o].k \in Loops => f.sv = ExitLab(pr, S[o])
  <2>1. n \in 1 .. n
    BY <1>4
  <2> QED BY <1>1, <1>4, <1>5, <1>6, <2>1 DEF Framed
<1>8. Gid(pr, i + 1) = lc
  <2>1. i \notin Two(pr) /\ i \notin One(pr)
    BY KindsApart DEF Two, One
  <2>2. i \in Nat \ {0}
    OBVIOUS
  <2>3. Gid(pr, i) \in Nat /\ Gid(pr, i + 1) = Gid(pr, i) + Takes(pr, i)
    BY <2>2, GidStep
  <2>4. Takes(pr, i) = 0
    BY <2>1 DEF Takes
  <2> QED BY <1>3, <2>3, <2>4
<1>9. ExitLab(pr, t) = IF f.k \in Loops THEN f.sv ELSE exit
  <2>1. CASE pr[o].k \in Loops
    BY <1>4, <1>7, <2>1
  <2>2. CASE pr[o].k \notin Loops
    <3>1. LoopsOn(pr, s) = LoopsOn(pr, t)
      <4>1. \A k \in 1 .. n : k = n \/ k \in 1 .. n - 1
        BY <1>4
      <4>2. \A k \in 1 .. n - 1 : k \in 1 .. n
        BY <1>4
      <4>3. ASSUME NEW x \in LoopsOn(pr, s) PROVE x \in LoopsOn(pr, t)
        <5>1. PICK k \in 1 .. n : x = s[k].o /\ pr[s[k].o].k \in Loops
          BY <1>1 DEF LoopsOn
        <5>2. k \in 1 .. n - 1
          BY <1>4, <2>2, <4>1, <5>1
        <5> QED BY <1>2, <5>1, <5>2 DEF LoopsOn
      <4>4. ASSUME NEW x \in LoopsOn(pr, t) PROVE x \in LoopsOn(pr, s)
        <5>1. PICK k \in 1 .. n - 1 : x = t[k].o /\ pr[t[k].o].k \in Loops
          BY <1>2 DEF LoopsOn
        <5> QED BY <1>1, <1>2, <4>2, <5>1 DEF LoopsOn
      <4> QED BY <4>3, <4>4
    <3> QED BY <1>3, <1>7, <2>2, <3>1 DEF ExitLab
  <2> QED BY <2>1, <2>2
<1>10. ASSUME NEW k \in 1 .. n - 1
       PROVE  LET q == t[k].o IN
              /\ ms[k].k = pr[q].k /\ ms[k].last = LastLab(pr, q)
              /\ q \in Two(pr) => ms[k].first = Gid(pr, q)
              /\ pr[q].k \in Loops => ms[k].sv = ExitLab(pr, S[q])
  <2>1. k \in 1 .. n
    BY <1>4
  <2> QED BY <1>1, <1>2, <1>5, <2>1 DEF Framed
<1>11. Framed(pr, S, i + 1, ms, IF f.k \in Loops THEN f.sv ELSE exit, lc)
  BY <1>1, <1>2, <1>5, <1>8, <1>9, <1>10 DEF Framed
<1> QED BY <1>1, <1>3, <1>4, <1>5, <1>6, <1>7, <1>11

-----------------------------------------------------------------------------
(* Each node is lowered to its instructions *)

\* The code and the activations at the node the lowering is at.
Built(S) == Framed(prog, S, lpos, lstack, loop_exit, label_counter) /\ Laid(prog, S, code, lpos)

LEMMA LowerDeclBuilds ==
  ASSUME NEW S, Nested(prog, S), lpos \in 1 .. Len(prog), Built(S), LowerDecl, prog' = prog
  PROVE  Built(S)'
<1>1. PICK pr, i, c, ls, n, ex, lc :
        /\ pr = prog /\ i = lpos /\ c = code /\ ls = lstack /\ n = prog[lpos]
        /\ ex = loop_exit /\ lc = label_counter
  OBVIOUS
<1>2. PICK v, y, p, s1, s2, s3, s4, s5 :
        /\ v = Val(n.x, Decl("node", i)) /\ y = Operand(Define(lscope, v), n.y) /\ p = Tmp(0)
        /\ s1 = Op("ALLOCA", v, Imm, Imm) /\ s2 = Op("STR_INIT", v, Imm, Imm) /\ s3 = Op("COPY", v, y, Imm)
        /\ s4 = Op("ADDR", p, v, Imm) /\ s5 = Op(IF n.k = "bytes" THEN "MEMCPY_ODD" ELSE "MEMCPY", Imm, p, y)
  OBVIOUS
<1>3. PICK t : t = IF n.y = None THEN <<>> ELSE IF n.k = "string" THEN <<s1, s2>>
                   ELSE IF n.k \in Aggregates THEN <<s1, s4, s5>> ELSE <<s3>>
  OBVIOUS
<1>4. n.k \in Declarations /\ code' = c \o t /\ lstack' = ls /\ lpos' = i + 1 /\ loop_exit' = ex /\ label_counter' = lc + 0
  <2>1. code' = c \o (IF n.y = None THEN <<>> ELSE Initialise(n.k, v, y))
    BY <1>1, <1>2 DEF LowerDecl, Emits
  <2>2. Initialise(n.k, v, y) = IF n.k = "string" THEN <<s1, s2>>
                                ELSE IF n.k \in Aggregates THEN <<s1, s4, s5>> ELSE <<s3>>
    BY <1>2 DEF Initialise, Aggregates
  <2>3. n.k \in Declarations /\ lstack' = ls /\ lpos' = i + 1 /\ loop_exit' = ex /\ label_counter' = lc + 0
    BY <1>1 DEF LowerDecl, Lowers, Kind, Emits
  <2> QED BY <1>3, <2>1, <2>2, <2>3
<1>5. /\ s1.at = i /\ Plain(s1.op) /\ s2.at = i /\ Plain(s2.op) /\ s3.at = i /\ Plain(s3.op)
      /\ s4.at = i /\ Plain(s4.op) /\ s5.at = i /\ Plain(s5.op)
  BY <1>1, <1>2 DEF Op, Instr, Plain
<1>6. /\ Sequence(t) /\ Range(t) \subseteq {s1, s2, s3, s4, s5}
      /\ Quiet(n) \/ \E x : x \in Range(t)
  <2>1. CASE n.y = None
    <3>1. n \in Node
      BY <1>1 DEF Nested
    <3>2. n.k \in {"var", "let"}
      <4>1. n.k = "string" => n.y = Literal
        BY <3>1, StringLiteral
      <4>2. n.k \in Aggregates => n.y \notin Unnamed
        BY <3>1, AggregateNames
      <4> QED BY <1>4, <2>1, <4>1, <4>2, OperandsAssumption DEF Declarations, Aggregates, Unnamed
    <3> QED BY <1>3, <2>1, <3>2, RangeShort DEF Quiet
  <2>2. CASE n.y # None /\ n.k = "string"
    BY <1>3, <2>2, RangeShort
  <2>3. CASE n.y # None /\ n.k \in Aggregates
    <3>1. t = <<s1, s4, s5>>
      BY <1>3, <2>3 DEF Aggregates
    <3> QED BY <3>1, RangeShort
  <2>4. CASE n.y # None /\ n.k # "string" /\ n.k \notin Aggregates
    BY <1>3, <2>4, RangeShort
  <2> QED BY <2>1, <2>2, <2>3, <2>4
<1>7. i \in Nat \ {0} /\ i \in 1 .. Len(pr) /\ Nested(pr, S) /\ lc + 0 = lc
  <2>1. lc = Gid(pr, i) /\ i \in Nat \ {0}
    BY <1>1 DEF Built, Framed
  <2> QED BY <1>1, <2>1, GidStep
<1>8. Part(pr, S, i, t)
  <2>1. \A x \in Range(t) : x.at = i /\ Plain(x.op)
    BY <1>5, <1>6
  <2> QED BY <1>1, <1>4, <1>6, <1>7, <2>1, PartPlain
<1>9. Laid(pr, S, c \o t, i + 1)
  BY <1>1, <1>7, <1>8, LaidOn DEF Built
<1>10. Framed(pr, S, i + 1, ls, ex, lc)
  <2>1. pr[i].k \notin Openers \cup {"else", "end"}
    <3>1. \A k \in Declarations : k \notin Openers \cup {"else", "end"}
      BY DEF Declarations, Openers, Loops
    <3> QED BY <1>1, <1>4, <3>1
  <2> QED BY <1>1, <1>7, <2>1, FramedPlain DEF Built
<1> QED BY <1>1, <1>4, <1>7, <1>9, <1>10 DEF Built

LEMMA LowerAssignBuilds ==
  ASSUME NEW S, Nested(prog, S), lpos \in 1 .. Len(prog), Built(S), LowerAssign, lowered' # "abort", prog' = prog
  PROVE  Built(S)'
<1>1. PICK pr, i, c, ls, n, ex, lc :
        /\ pr = prog /\ i = lpos /\ c = code /\ ls = lstack /\ n = prog[lpos]
        /\ ex = loop_exit /\ lc = label_counter
  OBVIOUS
<1>2. PICK p, x, y, s1, s2 :
        /\ p = Tmp(0) /\ x = lscope_find(lscope, n.x) /\ y = Operand(lscope, n.y)
        /\ s1 = Op("ADDR", p, x, Imm) /\ s2 = Op("STORE", Imm, p, y)
  OBVIOUS
<1>3. PICK t : t = <<s1, s2>>
  OBVIOUS
<1>4. n.k = "assign" /\ code' = c \o t /\ lstack' = ls /\ lpos' = i + 1 /\ loop_exit' = ex /\ label_counter' = lc + 0
  BY <1>1, <1>2, <1>3 DEF LowerAssign, Lowers, Kind, Emits, Abort
<1>5. /\ s1.at = i /\ Plain(s1.op) /\ s2.at = i /\ Plain(s2.op)
  BY <1>1, <1>2 DEF Op, Instr, Plain
<1>6. Sequence(t) /\ Range(t) = {s1, s2}
  BY <1>3, RangeShort
<1>7. i \in Nat \ {0} /\ i \in 1 .. Len(pr) /\ Nested(pr, S) /\ lc + 0 = lc
  <2>1. lc = Gid(pr, i) /\ i \in Nat \ {0}
    BY <1>1 DEF Built, Framed
  <2> QED BY <1>1, <2>1, GidStep
<1>8. Part(pr, S, i, t)
  <2>1. (\A z \in Range(t) : z.at = i /\ Plain(z.op)) /\ \E z : z \in Range(t)
    BY <1>5, <1>6
  <2> QED BY <1>1, <1>4, <1>6, <1>7, <2>1, PartPlain
<1>9. Laid(pr, S, c \o t, i + 1)
  BY <1>1, <1>7, <1>8, LaidOn DEF Built
<1>10. Framed(pr, S, i + 1, ls, ex, lc)
  <2>1. pr[i].k \notin Openers \cup {"else", "end"}
    <3>1. pr[i].k = "assign"
      BY <1>1, <1>4
    <3> QED BY <3>1 DEF Openers, Loops
  <2> QED BY <1>1, <1>7, <2>1, FramedPlain DEF Built
<1> QED BY <1>1, <1>4, <1>7, <1>9, <1>10 DEF Built

LEMMA LowerExitBuilds ==
  ASSUME NEW S, Nested(prog, S), lpos \in 1 .. Len(prog), Built(S), LowerExit, lowered' # "abort", prog' = prog
  PROVE  Built(S)'
<1>1. PICK pr, i, c, ls, ex, lc :
        /\ pr = prog /\ i = lpos /\ c = code /\ ls = lstack
        /\ ex = loop_exit /\ lc = label_counter
  OBVIOUS
<1>2. PICK s, t : s = Jump("JMP", Imm, ex) /\ t = <<s>>
  OBVIOUS
<1>3. /\ pr[i].k = "exit" /\ ex # LABEL_INVALID
      /\ code' = c \o t /\ lstack' = ls /\ lpos' = i + 1 /\ loop_exit' = ex /\ label_counter' = lc + 0
  BY <1>1, <1>2 DEF LowerExit, Lowers, Kind, Emits, Abort
<1>4. s.op = "JMP" /\ s.at = i /\ s.lab = ex
  BY <1>1, <1>2 DEF Jump, Instr
<1>5. i \in Nat \ {0} /\ i \in 1 .. Len(pr) /\ Nested(pr, S) /\ lc + 0 = lc /\ ex = ExitLab(pr, S[i])
  <2>1. lc = Gid(pr, i) /\ i \in Nat \ {0} /\ ex = ExitLab(pr, S[i])
    BY <1>1 DEF Built, Framed
  <2> QED BY <1>1, <2>1, GidStep
<1>6. Part(pr, S, i, t)
  <2>1. LoopsOn(pr, S[i]) # {}
    BY <1>3, <1>5 DEF ExitLab
  <2> QED BY <1>2, <1>3, <1>4, <1>5, <2>1, PartExit
<1>7. Laid(pr, S, c \o t, i + 1)
  BY <1>1, <1>5, <1>6, LaidOn DEF Built
<1>8. Framed(pr, S, i + 1, ls, ex, lc)
  <2>1. pr[i].k \notin Openers \cup {"else", "end"}
    BY <1>3, KindsApart
  <2> QED BY <1>1, <1>5, <2>1, FramedPlain DEF Built
<1> QED BY <1>1, <1>3, <1>5, <1>7, <1>8 DEF Built

LEMMA LowerIfBuilds ==
  ASSUME NEW S, Nested(prog, S), S[Len(prog) + 1] = <<>>, lpos \in 1 .. Len(prog), Built(S), LowerIf, prog' = prog
  PROVE  Built(S)'
<1>1. PICK pr, i, c, ls, ex, lc :
        /\ pr = prog /\ i = lpos /\ c = code /\ ls = lstack
        /\ ex = loop_exit /\ lc = label_counter
  OBVIOUS
<1>2. PICK y, s, t : /\ y = Operand(lscope, pr[i].y)
                     /\ s = Jump("JIFN", y, IF Else(lpos) # {} THEN lc ELSE lc + 1)
                     /\ t = <<s>>
  OBVIOUS
<1>3. PICK f : f = Frame("if", lc, lc + 1, Imm, Imm)
  OBVIOUS
<1>4. /\ pr[i].k = "if" /\ code' = c \o t /\ lstack' = Append(ls, f) /\ lpos' = i + 1
      /\ loop_exit' = ex /\ label_counter' = lc + 2
  BY <1>1, <1>2, <1>3 DEF LowerIf, Lowers, Kind, Emits
<1>5. i \in Nat \ {0} /\ i \in 1 .. Len(pr) /\ Nested(pr, S) /\ lc = Gid(pr, i)
  BY <1>1 DEF Built, Framed
<1>6. i \in Two(pr) /\ pr[i].k \in Openers /\ pr[i].k \notin Loops
  BY <1>4, <1>5, KindsApart DEF Two
<1>7. Takes(pr, i) = 2 /\ LastLab(pr, i) = lc + 1
  BY <1>5, <1>6 DEF Takes, LastLab
<1>8. Else(lpos) # {} <=> HasElse(pr, S, i)
  <2>1. \A j : j \in Else(lpos) <=> j \in 1 .. Len(prog) /\ Kind(j) = "else" /\ Last(S[j]).o = lpos
    <3>1. Kind(lpos) \in Openers
      BY <1>1, <1>6 DEF Kind
    <3> QED BY <3>1, ElseIs
  <2> QED BY <1>1, <2>1 DEF HasElse, Kind, Owner
<1>9. s.op = "JIFN" /\ s.at = i /\ s.lab = BranchTo(pr, S, i)
  <2>1. s.op = "JIFN" /\ s.at = i /\ s.lab = IF Else(lpos) # {} THEN lc ELSE lc + 1
    BY <1>1, <1>2 DEF Jump, Instr
  <2> QED BY <1>4, <1>5, <1>7, <1>8, <2>1 DEF BranchTo
<1>10. Laid(pr, S, c \o t, i + 1)
  <2>1. Part(pr, S, i, t)
    BY <1>2, <1>4, <1>5, <1>9, PartIf
  <2> QED BY <1>1, <1>5, <2>1, LaidOn DEF Built
<1>11. Framed(pr, S, i + 1, Append(ls, f), ex, lc + 2)
  <2>1. f.k = pr[i].k /\ f.last = LastLab(pr, i) /\ f.sv = ex /\ f.first = Gid(pr, i)
    BY <1>1, <1>3, <1>4, <1>5, <1>7 DEF Frame
  <2>2. Framed(pr, S, i, ls, ex, lc)
    BY <1>1 DEF Built
  <2>3. Framed(pr, S, i + 1, Append(ls, f), IF pr[i].k \in Loops THEN LastLab(pr, i) ELSE ex, lc + Takes(pr, i))
    BY <1>5, <1>6, <2>1, <2>2, FramedOpen
  <2> QED BY <1>6, <1>7, <2>3
<1> QED BY <1>1, <1>4, <1>10, <1>11 DEF Built

LEMMA LowerElseBuilds ==
  ASSUME NEW S, Nested(prog, S), lpos \in 1 .. Len(prog), Built(S), LowerElse, prog' = prog
  PROVE  Built(S)'
<1>1. PICK pr, i, c, ls, ex, lc :
        /\ pr = prog /\ i = lpos /\ c = code /\ ls = lstack
        /\ ex = loop_exit /\ lc = label_counter
  OBVIOUS
<1>2. PICK f, s1, s2, t : /\ f = Last(ls) /\ s1 = Jump("JMP", Imm, f.last) /\ s2 = Label(f.first, i + 1)
                          /\ t = <<s1, s2>>
  OBVIOUS
<1>3. /\ pr[i].k = "else" /\ code' = c \o t /\ lstack' = ls /\ lpos' = i + 1
      /\ loop_exit' = ex /\ label_counter' = lc + 0
  BY <1>1, <1>2 DEF LowerElse, Lowers, Kind, Emits
<1>4. i \in Nat \ {0} /\ i \in 1 .. Len(pr) /\ Nested(pr, S) /\ lc + 0 = lc
  <2>1. lc = Gid(pr, i) /\ i \in Nat \ {0}
    BY <1>1 DEF Built, Framed
  <2> QED BY <1>1, <2>1, GidStep
<1>5. PICK n, o : n = Len(S[i]) /\ o = Owner(S, i)
  OBVIOUS
<1>6. n \in Nat \ {0} /\ o = S[i][n].o /\ pr[o].k = "if" /\ o \in 1 .. i - 1
  BY <1>3, <1>4, <1>5, Under
<1>7. f.last = LastLab(pr, o) /\ f.first = Gid(pr, o)
  <2>1. Sequence(ls) /\ Len(ls) = n
    BY <1>1, <1>5 DEF Built, Framed
  <2>2. ls # <<>>
    <3>1. Len(<<>>) = 0
      OBVIOUS
    <3> QED BY <1>6, <2>1, <3>1
  <2>3. f = ls[n]
    BY <1>2, <2>1, <2>2, FramesPop
  <2>4. o \in Two(pr) /\ n \in 1 .. n
    BY <1>6 DEF Two
  <2> QED BY <1>1, <1>5, <1>6, <2>3, <2>4 DEF Built, Framed
<1>8. s1.op = "JMP" /\ s1.at = i /\ s1.lab = LastLab(pr, o) /\ s2.op = "LABEL" /\ s2.at = i + 1 /\ s2.lab = Gid(pr, o)
  BY <1>1, <1>2, <1>7 DEF Jump, Label, Instr
<1>9. Laid(pr, S, c \o t, i + 1)
  <2>1. Part(pr, S, i, t)
    BY <1>2, <1>3, <1>4, <1>5, <1>8, PartElse
  <2> QED BY <1>1, <1>4, <2>1, LaidOn DEF Built
<1>10. Framed(pr, S, i + 1, ls, ex, lc)
  BY <1>1, <1>3, <1>4, FramedElse DEF Built
<1> QED BY <1>1, <1>3, <1>4, <1>9, <1>10 DEF Built

LEMMA LowerCaseBuilds ==
  ASSUME NEW S, Nested(prog, S), lpos \in 1 .. Len(prog), Built(S), LowerCase, prog' = prog
  PROVE  Built(S)'
<1>1. PICK pr, i, c, ls, ex, lc :
        /\ pr = prog /\ i = lpos /\ c = code /\ ls = lstack
        /\ ex = loop_exit /\ lc = label_counter
  OBVIOUS
<1>2. PICK y, t, f : /\ y = Operand(lscope, pr[i].y) /\ t = <<>>
                     /\ f = Frame("case", LABEL_INVALID, lc, Imm, y)
  OBVIOUS
<1>3. /\ pr[i].k = "case" /\ code' = c \o t /\ lstack' = Append(ls, f) /\ lpos' = i + 1
      /\ loop_exit' = ex /\ label_counter' = lc + 1
  BY <1>1, <1>2 DEF LowerCase, Lowers, Kind, Emits
<1>4. i \in Nat \ {0} /\ i \in 1 .. Len(pr) /\ Nested(pr, S) /\ lc = Gid(pr, i)
  BY <1>1 DEF Built, Framed
<1>5. i \notin Two(pr) /\ i \in One(pr) /\ pr[i].k \in Openers /\ pr[i].k \notin Loops
  BY <1>3, <1>4, KindsApart DEF Two, One
<1>6. Takes(pr, i) = 1 /\ LastLab(pr, i) = lc
  BY <1>4, <1>5 DEF Takes, LastLab
<1>7. Laid(pr, S, c \o t, i + 1)
  <2>1. Sequence(t) /\ Range(t) = {} /\ Quiet(pr[i])
    BY <1>2, <1>3, RangeShort DEF Quiet
  <2>2. Part(pr, S, i, t)
    BY <1>3, <1>4, <2>1, PartPlain
  <2> QED BY <1>1, <1>4, <2>2, LaidOn DEF Built
<1>8. Framed(pr, S, i + 1, Append(ls, f), ex, lc + 1)
  <2>1. f.k = pr[i].k /\ f.last = LastLab(pr, i) /\ f.sv = ex
    BY <1>1, <1>2, <1>3, <1>6 DEF Frame
  <2>2. Framed(pr, S, i, ls, ex, lc)
    BY <1>1 DEF Built
  <2>3. Framed(pr, S, i + 1, Append(ls, f), IF pr[i].k \in Loops THEN LastLab(pr, i) ELSE ex, lc + Takes(pr, i))
    BY <1>4, <1>5, <2>1, <2>2, FramedOpen
  <2> QED BY <1>5, <1>6, <2>3
<1> QED BY <1>1, <1>3, <1>7, <1>8 DEF Built

LEMMA LowerArmBuilds ==
  ASSUME NEW S, Nested(prog, S), lpos \in 1 .. Len(prog), Built(S), LowerArm, prog' = prog
  PROVE  Built(S)'
<1>1. PICK pr, i, c, ls, n, ex, lc :
        /\ pr = prog /\ i = lpos /\ c = code /\ ls = lstack /\ n = prog[lpos]
        /\ ex = loop_exit /\ lc = label_counter
  OBVIOUS
<1>2. PICK p, q, s1, s2 : /\ p = Tmp(0) /\ q = Last(ls).subj
                          /\ s1 = Op("EQ", p, q, Imm) /\ s2 = Jump("JIFN", p, lc)
  OBVIOUS
<1>3. PICK t, f : /\ t = IF n.y = None THEN <<>> ELSE <<s1, s2>>
                  /\ f = Frame("arm", LABEL_INVALID, lc, Imm, Imm)
  OBVIOUS
<1>4. /\ n.k = "arm" /\ code' = c \o t /\ lstack' = Append(ls, f) /\ lpos' = i + 1
      /\ loop_exit' = ex /\ label_counter' = lc + 1
  <2>1. n.k = "arm" /\ lstack' = Append(ls, f) /\ loop_exit' = ex
    BY <1>1, <1>3 DEF LowerArm, Lowers, Kind
  <2>2. CASE n.y = None
    <3>1. Emits(<<>>, 0, 1, NoDecl, NoDecl)
      BY <1>1, <2>2 DEF LowerArm
    <3> QED BY <1>1, <1>3, <2>1, <2>2, <3>1 DEF Emits
  <2>3. CASE n.y # None
    <3>1. Emits(<<s1, s2>>, 1, 1, NoDecl, NoDecl)
      BY <1>1, <1>2, <2>3 DEF LowerArm
    <3> QED BY <1>1, <1>3, <2>1, <2>3, <3>1 DEF Emits
  <2> QED BY <2>2, <2>3
<1>5. i \in Nat \ {0} /\ i \in 1 .. Len(pr) /\ Nested(pr, S) /\ lc = Gid(pr, i)
  BY <1>1 DEF Built, Framed
<1>6. pr[i].k = "arm" /\ i \notin Two(pr) /\ i \in One(pr) /\ pr[i].k \in Openers /\ pr[i].k \notin Loops
  <2>1. pr[i].k = "arm"
    BY <1>1, <1>4
  <2> QED BY <1>5, <2>1, KindsApart DEF Two, One
<1>7. Takes(pr, i) = 1 /\ LastLab(pr, i) = lc
  BY <1>5, <1>6 DEF Takes, LastLab
<1>8. s1.at = i /\ Plain(s1.op) /\ s2.op = "JIFN" /\ s2.at = i /\ s2.lab = LastLab(pr, i)
  <2>1. s1.at = i /\ Plain(s1.op)
    BY <1>1, <1>2 DEF Op, Instr, Plain
  <2>2. s2.op = "JIFN" /\ s2.at = i /\ s2.lab = lc
    BY <1>1, <1>2 DEF Jump, Instr
  <2> QED BY <1>7, <2>1, <2>2
<1>9. Part(pr, S, i, t)
  <2>1. CASE n.y = None
    <3>1. Sequence(t) /\ Range(t) = {} /\ Quiet(pr[i])
      BY <1>1, <1>3, <1>6, <2>1, RangeShort DEF Quiet
    <3> QED BY <1>1, <1>5, <1>6, <2>1, <3>1, PartPlain
  <2>2. CASE n.y # None
    <3>1. t = <<s1, s2>> /\ pr[i].y # None
      BY <1>1, <1>3, <2>2
    <3> QED BY <1>5, <1>6, <1>8, <3>1, PartArm
  <2> QED BY <2>1, <2>2
<1>10. Laid(pr, S, c \o t, i + 1)
  BY <1>1, <1>5, <1>9, LaidOn DEF Built
<1>11. Framed(pr, S, i + 1, Append(ls, f), ex, lc + 1)
  <2>1. f.k = pr[i].k /\ f.last = LastLab(pr, i) /\ f.sv = ex
    BY <1>1, <1>3, <1>6, <1>7 DEF Frame
  <2>2. Framed(pr, S, i, ls, ex, lc)
    BY <1>1 DEF Built
  <2>3. Framed(pr, S, i + 1, Append(ls, f), IF pr[i].k \in Loops THEN LastLab(pr, i) ELSE ex, lc + Takes(pr, i))
    BY <1>5, <1>6, <2>1, <2>2, FramedOpen
  <2> QED BY <1>6, <1>7, <2>3
<1> QED BY <1>1, <1>4, <1>10, <1>11 DEF Built

\* The instructions before the body of a for: a label and a jump among others.
LEMMA ForHeadAt ==
  ASSUME NEW y, NEW top, NEW out, NEW key, NEW val
  PROVE  LET t == ForHead(y, top, out, key, val) IN
         /\ Sequence(t)
         /\ \A x \in Range(t) : /\ x.at = lpos
                                /\ \/ Plain(x.op)
                                   \/ x.op = "LABEL" /\ x.lab = top
                                   \/ x.op = "JIF" /\ x.lab = out
         /\ (\E x \in Range(t) : x.op = "LABEL") /\ \E x \in Range(t) : x.op = "JIF"
<1>1. PICK s1, s2, s3, s4, s5, s6, s7, s8, s9, s10, s11 :
        /\ s1 = Op("COPY", Tmp(0), Imm, Imm) /\ s2 = Op("FIELD_ADDR", Tmp(2), y, Imm)
        /\ s3 = Op("LOAD", Tmp(1), Tmp(2), Imm) /\ s4 = Label(top, lpos)
        /\ s5 = Op("GTE", Tmp(3), Tmp(0), Tmp(1)) /\ s6 = Jump("JIF", Tmp(3), out)
        /\ s7 = Op("COPY", key, Tmp(0), Imm) /\ s8 = Op("FIELD_ADDR", Tmp(5), y, Imm)
        /\ s9 = Op("LOAD", Tmp(4), Tmp(5), Imm) /\ s10 = Op("INDEX_ADDR", Tmp(6), Tmp(4), Tmp(0))
        /\ s11 = Op("LOAD", val, Tmp(6), Imm)
  OBVIOUS
<1>2. /\ s1.at = lpos /\ s2.at = lpos /\ s3.at = lpos /\ s5.at = lpos /\ s7.at = lpos
      /\ s8.at = lpos /\ s9.at = lpos /\ s10.at = lpos /\ s11.at = lpos
      /\ s1.op = "COPY" /\ s2.op = "FIELD_ADDR" /\ s3.op = "LOAD" /\ s5.op = "GTE" /\ s7.op = "COPY"
      /\ s8.op = "FIELD_ADDR" /\ s9.op = "LOAD" /\ s10.op = "INDEX_ADDR" /\ s11.op = "LOAD"
  BY <1>1 DEF Op, Instr
<1>3. s4.at = lpos /\ s4.op = "LABEL" /\ s4.lab = top /\ s6.at = lpos /\ s6.op = "JIF" /\ s6.lab = out
  BY <1>1 DEF Label, Jump, Instr
<1>4. PICK t, u, v, w : /\ t = ForHead(y, top, out, key, val)
                        /\ u = <<s1, s2, s3, s4, s5, s6>> /\ v = (IF key.name = None THEN <<>> ELSE <<s7>>)
                        /\ w = <<s8, s9, s10, s11>>
  OBVIOUS
<1>5. t = (u \o v) \o w
  BY <1>1, <1>4 DEF ForHead
<1>6. /\ Sequence(u) /\ Range(u) = {s1, s2, s3, s4, s5, s6}
      /\ Sequence(w) /\ Range(w) = {s8, s9, s10, s11}
  BY <1>4, RangeLonger
<1>7. Sequence(v) /\ Range(v) \subseteq {s7}
  BY <1>4, RangeShort
<1>8. Sequence(t) /\ Range(t) = Range(u) \cup Range(v) \cup Range(w)
  BY <1>5, <1>6, <1>7, RangeCat
<1>9. \A x \in Range(t) : x \in {s1, s2, s3, s5, s7, s8, s9, s10, s11} \/ x = s4 \/ x = s6
  BY <1>6, <1>7, <1>8
<1>10. \A x \in {s1, s2, s3, s5, s7, s8, s9, s10, s11} : x.at = lpos /\ Plain(x.op)
  BY <1>2 DEF Plain
<1>11. s4 \in Range(t) /\ s6 \in Range(t)
  BY <1>6, <1>8
<1> QED BY <1>3, <1>4, <1>8, <1>9, <1>10, <1>11

LEMMA LowerLoopBuilds ==
  ASSUME NEW S, Nested(prog, S), lpos \in 1 .. Len(prog), Built(S), LowerLoop, prog' = prog
  PROVE  Built(S)'
<1>1. PICK pr, i, c, ls, n, ex, lc :
        /\ pr = prog /\ i = lpos /\ c = code /\ ls = lstack /\ n = prog[lpos]
        /\ ex = loop_exit /\ lc = label_counter
  OBVIOUS
<1>2. PICK y, key, val, z :
        /\ y = Operand(lscope, n.y)
        /\ key = Val(n.key, Decl("key", lpos)) /\ val = Val(n.x, Decl("node", lpos)) /\ z = Tmp(0)
  OBVIOUS
<1>3. PICK s1, s2, fh : s1 = Label(lc, lpos) /\ s2 = Jump("JIFN", y, lc + 1) /\ fh = ForHead(y, lc, lc + 1, key, val)
  OBVIOUS
<1>4. PICK t : t = CASE n.k = "while" -> <<s1, s2>>
                     [] n.k = "loop"  -> <<s1>>
                     [] n.k = "for"   -> fh
  OBVIOUS
<1>5. PICK f : f = Frame(n.k, lc, lc + 1, z, Imm)
  OBVIOUS
<1>6. /\ n.k \in Loops /\ code' = c \o t /\ lstack' = Append(ls, f) /\ lpos' = i + 1
      /\ loop_exit' = lc + 1 /\ label_counter' = lc + 2
  <2>1. n.k \in Loops /\ lpos' = i + 1 /\ loop_exit' = lc + 1 /\ label_counter' = lc + 2
    BY <1>1 DEF LowerLoop, Lowers, Kind, Emits
  <2>2. code' = c \o (CASE n.k = "while" -> <<Label(label_counter, lpos), Jump("JIFN", Operand(lscope, n.y), label_counter + 1)>>
                        [] n.k = "loop"  -> <<Label(label_counter, lpos)>>
                        [] n.k = "for"   -> ForHead(Operand(lscope, n.y), label_counter, label_counter + 1,
                                                    Val(n.key, Decl("key", lpos)), Val(n.x, Decl("node", lpos))))
    BY <1>1, Zenon DEF LowerLoop, Emits
  <2>3. lstack' = Append(ls, Frame(n.k, label_counter, label_counter + 1, Tmp(0), Imm))
    BY <1>1, Zenon DEF LowerLoop
  <2>4. code' = c \o t
    BY <1>1, <1>2, <1>3, <1>4, <2>2, Zenon
  <2> QED BY <1>1, <1>2, <1>5, <2>1, <2>3, <2>4
<1>7. i \in Nat \ {0} /\ i \in 1 .. Len(pr) /\ Nested(pr, S) /\ lc = Gid(pr, i)
  BY <1>1 DEF Built, Framed
<1>8. pr[i].k = n.k /\ pr[i].k \in Loops /\ i \in Two(pr) /\ pr[i].k \in Openers
  BY <1>1, <1>6, <1>7, KindsApart DEF Two
<1>9. Takes(pr, i) = 2 /\ LastLab(pr, i) = lc + 1
  BY <1>7, <1>8 DEF Takes, LastLab
<1>10. s1.op = "LABEL" /\ s1.at = i /\ s1.lab = lc /\ s2.op = "JIFN" /\ s2.at = i /\ s2.lab = lc + 1
  BY <1>1, <1>3 DEF Label, Jump, Instr
<1>11. /\ Sequence(t)
       /\ \A x \in Range(t) : /\ x.at = i
                              /\ \/ Plain(x.op)
                                 \/ x.op = "LABEL" /\ x.lab = lc
                                 \/ x.op \in {"JIF", "JIFN"} /\ x.lab = lc + 1 /\ n.k # "loop"
       /\ \E x \in Range(t) : x.op = "LABEL"
       /\ n.k # "loop" => \E x \in Range(t) : x.op \in {"JIF", "JIFN"}
  <2>1. CASE n.k = "while"
    <3>1. t = <<s1, s2>>
      BY <1>4, <2>1
    <3>2. Sequence(t) /\ Range(t) = {s1, s2}
      BY <3>1, RangeShort
    <3> QED BY <1>10, <2>1, <3>2
  <2>2. CASE n.k = "loop"
    <3>1. t = <<s1>>
      BY <1>4, <2>2
    <3>2. Sequence(t) /\ Range(t) = {s1}
      BY <3>1, RangeShort
    <3> QED BY <1>10, <2>2, <3>2
  <2>3. CASE n.k = "for"
    <3>1. t = ForHead(y, lc, lc + 1, key, val)
      BY <1>3, <1>4, <2>3
    <3> QED BY <1>1, <2>3, <3>1, ForHeadAt
  <2> QED BY <1>6, <2>1, <2>2, <2>3 DEF Loops
<1>12. Part(pr, S, i, t)
  BY <1>7, <1>8, <1>9, <1>11, PartLoop
<1>13. Laid(pr, S, c \o t, i + 1)
  BY <1>1, <1>7, <1>12, LaidOn DEF Built
<1>14. Framed(pr, S, i + 1, Append(ls, f), lc + 1, lc + 2)
  <2>1. f.k = pr[i].k /\ f.last = LastLab(pr, i) /\ f.sv = ex /\ f.first = Gid(pr, i)
    BY <1>1, <1>5, <1>7, <1>8, <1>9 DEF Frame
  <2>2. Framed(pr, S, i, ls, ex, lc)
    BY <1>1 DEF Built
  <2>3. Framed(pr, S, i + 1, Append(ls, f), IF pr[i].k \in Loops THEN LastLab(pr, i) ELSE ex, lc + Takes(pr, i))
    BY <1>7, <1>8, <2>1, <2>2, FramedOpen
  <2> QED BY <1>8, <1>9, <2>3
<1> QED BY <1>1, <1>6, <1>13, <1>14 DEF Built

\* An arm has a case around it.
LEMMA CaseAround ==
  ASSUME NEW pr, NEW S, Nested(pr, S), NEW i \in 1 .. Len(pr), pr[i].k = "end", pr[Owner(S, i)].k = "arm"
  PROVE  /\ Len(S[i]) - 1 \in 1 .. Len(S[i]) /\ Over(S, i) \in 1 .. Owner(S, i) - 1
         /\ pr[Over(S, i)].k = "case" /\ S[Owner(S, i)] # <<>> /\ Over(S, i) = Last(S[Owner(S, i)]).o
<1>1. PICK s, n, o : s = S[i] /\ n = Len(S[i]) /\ o = Owner(S, i)
  OBVIOUS
<1>2. n \in Nat \ {0} /\ o = s[n].o /\ o \in 1 .. i - 1 /\ S[o] = Front(s) /\ s \in Seq(Below(i - 1)) /\ i - 1 < Len(pr)
  <2>1. Stacked(pr, S, i)
    BY StackAt
  <2>2. Len(pr) \in Nat
    BY DEF Nested
  <2> QED BY <1>1, <2>1, <2>2, Under DEF Stacked
<1>3. o \in 1 .. Len(pr) /\ pr[o].k = "arm"
  BY <1>1, <1>2
<1>4. PICK t, x : t = S[o] /\ x = Last(t)
  OBVIOUS
<1>5. t # <<>> /\ pr[x.b].k = "case"
  <2>1. Fits(pr, S[o], o)
    BY <1>3 DEF Nested
  <2> QED BY <1>3, <1>4, <2>1 DEF Fits
<1>6. x.o \in 1 .. o - 1 /\ pr[x.o].k = "case"
  <2>1. Opened(pr, S, o)
    <3>1. o \in 1 .. Len(pr) + 1
      BY <1>3 DEF Nested
    <3> QED BY <3>1, OpenedAll
  <2> QED BY <1>4, <1>5, <2>1 DEF Opened
<1>7. Len(t) = n - 1 /\ (\A k \in 1 .. n - 1 : t[k] = s[k]) /\ s # <<>>
  <2>1. s # <<>>
    <3>1. Len(<<>>) = 0
      OBVIOUS
    <3> QED BY <1>1, <1>2, <3>1
  <2>2. PICK A, u : A = Below(i - 1) /\ u = Front(s)
    OBVIOUS
  <2>3. s \in Seq(A)
    BY <1>2, <2>2
  <2>4. Len(u) = Len(s) - 1 /\ \A k \in 1 .. Len(s) - 1 : u[k] = s[k]
    BY <2>1, <2>2, <2>3, FrontOf
  <2>5. t = u /\ Len(s) = n
    BY <1>1, <1>2, <1>4, <2>2
  <2> QED BY <2>1, <2>4, <2>5
<1>8. n - 1 \in 1 .. n - 1 /\ x = t[n - 1]
  <2>1. t \in Seq(Below(o - 1))
    <3>1. o \in 1 .. Len(pr) + 1
      BY <1>3 DEF Nested
    <3> QED BY <1>4, <3>1 DEF Nested
  <2>2. Len(t) \in Nat \ {0} /\ x = t[Len(t)]
    BY <1>4, <1>5, <2>1, FrontOf
  <2> QED BY <1>2, <1>7, <2>2
<1>9. Over(S, i) = x.o
  BY <1>1, <1>7, <1>8 DEF Over
<1> QED BY <1>1, <1>2, <1>4, <1>5, <1>6, <1>8, <1>9

LEMMA LowerEndBuilds ==
  ASSUME NEW S, Nested(prog, S), lpos \in 1 .. Len(prog), Built(S), LowerEnd, prog' = prog
  PROVE  Built(S)'
<1>1. PICK pr, i, c, ls, f, ex, lc :
        /\ pr = prog /\ i = lpos /\ c = code /\ ls = lstack /\ f = Last(lstack)
        /\ ex = loop_exit /\ lc = label_counter
  OBVIOUS
<1>2. PICK t : /\ code' = c \o t
               /\ t = CASE f.k = "arm"   -> ArmClosing(f)
                        [] f.k \in Loops -> LoopClosing(f)
                        [] OTHER         -> <<Label(f.last, lpos)>>
  BY <1>1 DEF LowerEnd, Emits
<1>3. /\ pr[i].k = "end" /\ lstack' = Front(ls) /\ lpos' = i + 1
      /\ loop_exit' = (IF f.k \in Loops THEN f.sv ELSE ex) /\ label_counter' = lc + 0
  BY <1>1 DEF LowerEnd, Lowers, Kind, Emits, ExitAfter
<1>4. i \in Nat \ {0} /\ i \in 1 .. Len(pr) /\ Nested(pr, S) /\ lc + 0 = lc /\ Framed(pr, S, i, ls, ex, lc)
  <2>1. lc = Gid(pr, i) /\ i \in Nat \ {0}
    BY <1>1 DEF Built, Framed
  <2> QED BY <1>1, <2>1, GidStep DEF Built
<1>5. PICK n, o : n = Len(S[i]) /\ o = Owner(S, i)
  OBVIOUS
<1>6. /\ n = Len(ls) /\ n \in Nat \ {0} /\ f.k = pr[o].k /\ f.last = LastLab(pr, o)
      /\ o \in Two(pr) => f.first = Gid(pr, o)
      /\ Framed(pr, S, i + 1, Front(ls), IF f.k \in Loops THEN f.sv ELSE ex, lc)
  BY <1>1, <1>3, <1>4, <1>5, FramedEnd
<1>7. o \in 1 .. i - 1
  BY <1>3, <1>4, <1>5, Under
<1>8. PICK s1, s2, s3, s4, s5 :
        /\ s1 = Jump("JMP", Imm, ls[n - 1].last) /\ s2 = Label(f.last, i + 1)
        /\ s3 = Op("ADD", f.idx, f.idx, Imm) /\ s4 = Jump("JMP", Imm, f.first) /\ s5 = Label(f.last, i)
  OBVIOUS
<1>9. /\ s1.op = "JMP" /\ s1.at = i /\ s1.lab = ls[n - 1].last
      /\ s2.op = "LABEL" /\ s2.at = i + 1 /\ s2.lab = f.last
      /\ s3.at = i /\ Plain(s3.op)
      /\ s4.op = "JMP" /\ s4.at = i /\ s4.lab = f.first
      /\ s5.op = "LABEL" /\ s5.at = i /\ s5.lab = f.last
  BY <1>1, <1>8 DEF Jump, Label, Op, Instr, Plain
<1>10. Part(pr, S, i, t)
  <2>1. CASE f.k = "arm"
    <3>1. PICK u, w : u = <<>> /\ w = <<s1, s2>>
      OBVIOUS
    <3>2. t = w
      <4>1. t = ArmClosing(f)
        <5>1. f.k \notin Loops
          BY <2>1 DEF Loops
        <5> QED BY <1>2, <2>1, <5>1
      <4> QED BY <1>1, <1>6, <1>8, <3>1, <4>1 DEF ArmClosing
    <3>3. w = u \o w
      <4>1. PICK A : A = {s1, s2}
        OBVIOUS
      <4>2. w \in Seq(A)
        BY <3>1, <4>1
      <4> QED BY <3>1, <4>2
    <3>4. s1.lab = JumpTo(pr, S, i)
      <4>1. n - 1 \in 1 .. n /\ Over(S, i) = S[i][n - 1].o
        <5>1. pr[Owner(S, i)].k = "arm"
          BY <1>5, <1>6, <2>1
        <5>2. Len(S[i]) - 1 \in 1 .. Len(S[i])
          BY <1>3, <1>4, <5>1, CaseAround
        <5> QED BY <1>5, <5>2 DEF Over
      <4>2. ls[n - 1].last = LastLab(pr, Over(S, i))
        BY <1>4, <1>5, <4>1 DEF Framed
      <4> QED BY <1>3, <1>5, <1>6, <1>9, <2>1, <4>2 DEF JumpTo
    <3>5. Sequence(u) /\ Range(u) = {}
      BY <3>1, RangeShort
    <3>6. Part(pr, S, i, u \o <<s1, s2>>)
      BY <1>3, <1>4, <1>5, <1>6, <1>9, <2>1, <3>4, <3>5, PartEnd
    <3> QED BY <3>1, <3>2, <3>3, <3>6
  <2>2. CASE f.k \in Loops
    <3>1. PICK u : u = (IF f.k = "for" THEN <<s3>> ELSE <<>>)
      OBVIOUS
    <3>2. t = u \o <<s4, s2>>
      <4>1. t = LoopClosing(f)
        <5>1. f.k # "arm"
          BY <2>2 DEF Loops
        <5> QED BY <1>2, <2>2, <5>1
      <4> QED BY <1>1, <1>8, <3>1, <4>1 DEF LoopClosing
    <3>3. Sequence(u) /\ Range(u) \subseteq {s3}
      BY <3>1, RangeShort
    <3>4. s4.lab = JumpTo(pr, S, i)
      <4>1. o \in Two(pr) /\ pr[o].k # "arm"
        BY <1>6, <1>7, <2>2, KindsApart DEF Two
      <4> QED BY <1>3, <1>5, <1>6, <1>9, <4>1 DEF JumpTo
    <3>5. Part(pr, S, i, u \o <<s4, s2>>)
      BY <1>3, <1>4, <1>5, <1>6, <1>9, <2>2, <3>3, <3>4, PartEnd
    <3> QED BY <3>2, <3>5
  <2>3. CASE f.k # "arm" /\ f.k \notin Loops
    <3>1. t = <<s5>>
      BY <1>1, <1>2, <1>8, <2>3
    <3>2. Part(pr, S, i, <<s5>>)
      BY <1>3, <1>4, <1>5, <1>6, <1>9, <2>3, PartClose
    <3> QED BY <3>1, <3>2
  <2> QED BY <2>1, <2>2, <2>3
<1>11. Laid(pr, S, c \o t, i + 1)
  BY <1>1, <1>4, <1>10, LaidOn DEF Built
<1> QED BY <1>1, <1>2, <1>3, <1>4, <1>6, <1>11 DEF Built

\* The parameters are copied before the first node.
LEMMA LowerProcBuilds ==
  ASSUME NEW S, Nested(prog, S), Unbegun, LowerProc, prog' = prog
  PROVE  Built(S)'
<1>1. PICK pr, m : pr = prog /\ m = Len(Params)
  OBVIOUS
<1>2. m \in Nat
  BY <1>1, TuplesAssumption
<1>3. PICK ps : ps = [p \in 1 .. m |-> Val(Params[p], Decl("param", p))]
  OBVIOUS
<1>4. PICK t : t = [p \in 1 .. m |-> Op("PARAM", ps[p], Imm, Imm)]
  OBVIOUS
<1>5. /\ code' = <<>> \o t /\ lstack' = <<>> /\ lpos' = 1 /\ lpos = 0
      /\ loop_exit' = LABEL_INVALID /\ label_counter' = 0
  BY <1>1, <1>3, <1>4 DEF LowerProc, Unbegun
<1>6. \A p \in 1 .. m : t[p].op = "PARAM" /\ t[p].at = 0
  BY <1>4, <1>5 DEF Op, Instr
<1>7. Sequence(t) /\ Range(t) = {t[p] : p \in 1 .. m}
  <2>1. PICK E : E = {t[p] : p \in 1 .. m}
    OBVIOUS
  <2>2. t \in Seq(E) /\ DOMAIN t = 1 .. m
    BY <1>2, <1>4, <2>1
  <2> QED BY <2>2 DEF Sequence, Range
<1>8. <<>> \o t = t
  BY <1>7 DEF Sequence
<1>9. Laid(pr, S, t, 1)
  <2>1. Rising(t)
    BY <1>6, <1>7, RisingFlat
  <2>2. 1 .. 1 - 1 = {}
    OBVIOUS
  <2> QED BY <1>6, <1>7, <2>1, <2>2 DEF Laid
<1>10. Framed(pr, S, 1, <<>>, LABEL_INVALID, 0)
  <2>1. S[1] = <<>> /\ Len(<<>>) = 0 /\ 1 .. 0 = {} /\ 1 .. 1 - 1 = {}
    BY <1>1 DEF Nested
  <2>2. LoopsOn(pr, S[1]) = {}
    BY <2>1 DEF LoopsOn
  <2>3. Gid(pr, 1) = 0
    <3>1. {j \in 1 .. 1 - 1 : j \in Two(pr)} = {} /\ {j \in 1 .. 1 - 1 : j \in One(pr)} = {}
      BY <2>1
    <3>2. Cardinality({}) = 0
      BY FS_EmptySet
    <3> QED BY <3>1, <3>2 DEF Gid
  <2>4. Sequence(<<>>)
    BY RangeShort
  <2> QED BY <2>1, <2>2, <2>3, <2>4 DEF Framed, ExitLab
<1> QED BY <1>1, <1>5, <1>8, <1>9, <1>10 DEF Built

\* The code of a whole body: it ends with the return.
Done(pr, S, c) ==
  /\ Sequence(c) /\ Rising(c)
  /\ \A x \in Range(c) : \/ x.op = "PARAM" /\ x.at = 0
                         \/ x.op = "RET" /\ x.at = Len(pr) + 1
                         \/ \E i \in 1 .. Len(pr) : Good(pr, S, x, i)
  /\ \A i \in 1 .. Len(pr) : Whole(pr, S, i, Range(c))
  /\ Len(c) \in Nat \ {0} /\ c[Len(c)].op = "RET" /\ c[Len(c)].at = Len(pr) + 1

LEMMA LowerRetDone ==
  ASSUME NEW S, Nested(prog, S), Built(S), LowerRet, prog' = prog
  PROVE  Done(prog', S, code')
<1>1. PICK pr, c, n : pr = prog /\ c = code /\ n = Len(prog)
  OBVIOUS
<1>2. PICK v, s, t : /\ v = (IF Outs = <<>> THEN Imm ELSE Operand(lscope, Outs[1]))
                     /\ s = Op("RET", Imm, v, Imm) /\ t = <<s>>
  OBVIOUS
<1>3. lpos = n + 1 /\ code' = Append(c, s) /\ n \in Nat /\ prog' = pr
  <2>1. lpos = Len(prog) + 1 /\ code' = Append(code, s)
    BY <1>2, Zenon DEF LowerRet
  <2> QED BY <1>1, <2>1 DEF Nested
<1>4. s.op = "RET" /\ s.at = n + 1
  BY <1>2, <1>3 DEF Op, Instr
<1>5. Laid(pr, S, c, n + 1) /\ n + 1 \in Nat \ {0}
  BY <1>1, <1>3 DEF Built
<1>6. Sequence(t) /\ Range(t) = {s} /\ Rising(t)
  BY <1>2, RangeShort, RisingShort
<1>7. Append(c, s) = c \o t
  <2>1. PICK A : c \in Seq(A)
    BY <1>5 DEF Laid, Sequence
  <2>2. PICK D : D = A \cup {s}
    OBVIOUS
  <2>3. c \in Seq(D) /\ s \in D
    BY <2>1, <2>2
  <2> QED BY <1>2, <2>3
<1>8. PICK d : d = c \o t
  OBVIOUS
<1>9. Sequence(c) /\ Rising(c)
  BY <1>5 DEF Laid
<1>10. Sequence(d) /\ Range(d) = Range(c) \cup {s}
  BY <1>6, <1>8, <1>9, RangeCat
<1>11. Rising(d)
  <2>1. ASSUME NEW x \in Range(c), NEW y \in Range(t)
        PROVE  x.at <= y.at /\ (x.op = "JMP" => x.at < y.at)
    BY <1>4, <1>5, <1>6, LaidAt
  <2> QED BY <1>6, <1>8, <1>9, <2>1, RisingCat
<1>12. Len(d) = Len(c) + 1 /\ d[Len(c) + 1] = s /\ Len(c) \in Nat
  <2>1. Len(Append(c, s)) = Len(c) + 1 /\ Append(c, s)[Len(c) + 1] = s
    BY <1>9, Appends
  <2> QED BY <1>7, <1>8, <1>9, <2>1 DEF Sequence
<1>13. (n + 1) - 1 = n
  BY <1>3
<1>14. \A i \in 1 .. n : Whole(pr, S, i, Range(d))
  <2>1. ASSUME NEW i \in 1 .. n PROVE Whole(pr, S, i, Range(d))
    <3>1. Whole(pr, S, i, Range(c))
      BY <1>5, <1>13 DEF Laid
    <3> QED BY <1>10, <3>1, WholeMore
  <2> QED BY <2>1
<1>15. \A x \in Range(d) : \/ x.op = "PARAM" /\ x.at = 0
                           \/ x.op = "RET" /\ x.at = n + 1
                           \/ \E i \in 1 .. n : Good(pr, S, x, i)
  BY <1>4, <1>5, <1>10, <1>13 DEF Laid
<1>16. Done(pr, S, d)
  <2>1. Len(d) \in Nat \ {0} /\ d[Len(d)] = s
    BY <1>12
  <2> QED BY <1>1, <1>4, <1>10, <1>11, <1>14, <1>15, <2>1 DEF Done
<1> QED BY <1>3, <1>7, <1>8, <1>16

LEMMA NodeBuilds ==
  ASSUME NEW S, Nested(prog, S), S[Len(prog) + 1] = <<>>, Built(S), LowerNode, lowered' # "abort", prog' = prog
  PROVE  Built(S)'
<1>1. lpos \in 1 .. Len(prog) /\ ~LowerString
  BY NodeSteps
<1> QED BY <1>1, LowerDeclBuilds, LowerAssignBuilds, LowerExitBuilds, LowerIfBuilds, LowerElseBuilds,
           LowerLoopBuilds, LowerCaseBuilds, LowerArmBuilds, LowerEndBuilds DEF LowerNode

-----------------------------------------------------------------------------
(* In every state *)

\* The lowering is on its way through the blocks of S, or has been.
Through(S) ==
  /\ Nested(prog, S) /\ S[Len(prog) + 1] = <<>>
  /\ lowered = "none" /\ lpos # 0 => lpos \in 1 .. Len(prog) + 1 /\ Built(S)
  /\ lowered = "ok" => Done(prog, S, code)

ControlInv == PassesInv /\ (verdict = "ok" => \E S : Through(S))

\* The parser has closed what it opened.
LEMMA WholeBody ==
  ASSUME NInv, parsed
  PROVE  \E S : Nested(prog, S) /\ S[Len(prog) + 1] = <<>>
<1>1. PICK S : Nested(prog, S) /\ Reads(prog, S, open) /\ open = <<>>
  BY DEF NInv
<1>2. PICK n, s : n = Len(prog) + 1 /\ s = S[n]
  OBVIOUS
<1>3. n \in 1 .. Len(prog) + 1 /\ n \in Nat
  BY <1>1, <1>2 DEF Nested
<1>4. s \in Seq(Below(n - 1))
  BY <1>1, <1>2, <1>3 DEF Nested
<1>5. Len(s) = 0
  <2>1. Len(open) = Len(s)
    BY <1>1, <1>2 DEF Reads
  <2>2. Len(<<>>) = 0
    OBVIOUS
  <2> QED BY <1>1, <2>1, <2>2
<1>6. s = <<>>
  BY <1>4, <1>5
<1> QED BY <1>1, <1>2, <1>6

\* Nothing is lowered before the body is parsed and checked.
LEMMA Early ==
  ASSUME PassesInv, Parse \/ Check
  PROVE  lpos' = 0 /\ lowered' = "none" /\ emitted = "none" /\ emitted' = "none"
<1>1. verdict = "none"
  <2>1. CASE Parse
    <3>1. ~parsed
      BY <2>1 DEF Parse, ParseNext, ParseStmt, ParseOpen, ParseElse, ParseArm, ParseEnd, ParseDone, Room
    <3> QED BY <3>1 DEF PassesInv, CheckInv
  <2>2. CASE Check
    BY ONLY <2>2 DEF Check, CheckNext, EnterProc, CheckDecl, CheckAssign, CheckExit, CheckOpen, CheckElse,
                     CheckCase, CheckArm, CheckEnd, LeaveProc, At
  <2> QED BY <2>1, <2>2
<1>2. lpos = 0 /\ lowered = "none" /\ emitted = "none"
  BY <1>1 DEF PassesInv, Unbegun
<1>3. lpos' = lpos /\ lowered' = lowered /\ emitted' = emitted
  BY DEF Parse, Check, lowerVars
<1> QED BY <1>2, <1>3

LEMMA LowerThrough ==
  ASSUME PassesInv, NEW S, Through(S), Lower
  PROVE  Through(S)'
<1>1. LowerNext /\ prog' = prog
  BY DEF Lower, parseVars
<1>2. Nested(prog, S) /\ S[Len(prog) + 1] = <<>> /\ Len(prog) \in Nat
  BY DEF Through, Nested
<1>3. LowerProc \/ LowerRet \/ LowerNode
  BY <1>1 DEF LowerNext, LowerNode
<1>4. Nested(prog', S) /\ S[Len(prog') + 1] = <<>>
  BY <1>1, <1>2
<1>5. CASE LowerProc
  <2>1. Unbegun /\ lpos' = 1 /\ lowered' = "none"
    BY <1>5 DEF LowerProc, PassesInv
  <2>2. Built(S)'
    BY <1>1, <1>2, <1>5, <2>1, LowerProcBuilds
  <2>3. lpos' \in 1 .. Len(prog') + 1
    BY <1>1, <1>2, <2>1
  <2> QED BY <1>4, <2>1, <2>2, <2>3 DEF Through
<1>6. CASE LowerNode
  <2>1. lowered = "none" /\ lpos \in 1 .. Len(prog) /\ lpos # 0 /\ lowered' \in {"none", "abort"}
        /\ (lowered' = "none" => lpos' = lpos + 1)
    BY <1>2, <1>6, NodeSteps
  <2>2. Built(S)
    BY <2>1 DEF Through
  <2>3. CASE lowered' = "abort"
    BY <1>4, <2>3 DEF Through
  <2>4. CASE lowered' # "abort"
    <3>1. Built(S)'
      BY <1>1, <1>2, <1>6, <2>2, <2>4, NodeBuilds
    <3>2. lowered' # "ok" /\ lpos' \in 1 .. Len(prog') + 1
      BY <1>1, <1>2, <2>1, <2>4
    <3> QED BY <1>4, <3>1, <3>2 DEF Through
  <2> QED BY <2>3, <2>4
<1>7. CASE LowerRet
  <2>1. lpos = Len(prog) + 1 /\ lpos # 0 /\ lowered = "none" /\ lowered' = "ok"
    BY <1>2, <1>7 DEF LowerRet
  <2>2. Built(S)
    BY <2>1 DEF Through
  <2>3. Done(prog', S, code')
    BY <1>1, <1>2, <1>7, <2>2, LowerRetDone
  <2> QED BY <1>4, <2>1, <2>3 DEF Through
<1> QED BY <1>3, <1>5, <1>6, <1>7

LEMMA StillThrough ==
  ASSUME NEW S, Through(S), prog' = prog, code' = code, lowered' = lowered, lpos' = lpos,
         lstack' = lstack, loop_exit' = loop_exit, label_counter' = label_counter
  PROVE  Through(S)'
BY DEF Through, Built

\* What the code of every node is, and where it stands in the code of the body:
\* in the order of the nodes, its jumps to the labels its block was given.
THEOREM ControlInvariance == Spec => []ControlInv
<1>1. Init => ControlInv
  <2>1. Init => verdict # "ok"
    BY DEF Init, CheckInit
  <2> QED BY <2>1, InitPasses DEF ControlInv
<1>2. ControlInv /\ [Next]_vars => ControlInv'
  <2> SUFFICES ASSUME ControlInv, [Next]_vars PROVE ControlInv'
    OBVIOUS
  <2>1. PassesInv
    BY DEF ControlInv
  <2>2. CASE Parse \/ Check
    <3>1. PassesInv'
      BY <2>1, <2>2, ParsePasses, CheckPasses
    <3>2. ASSUME verdict' = "ok"
          PROVE  \E S : Through(S)'
      <4>1. lpos' = 0 /\ lowered' = "none"
        BY <2>1, <2>2, Early
      <4>2. NInv' /\ parsed'
        BY <3>1, <3>2 DEF PassesInv
      <4>3. PICK S : Nested(prog', S) /\ S[Len(prog') + 1] = <<>>
        <5>1. (NInv /\ parsed => \E S : Nested(prog, S) /\ S[Len(prog) + 1] = <<>>)'
          BY WholeBody, PTL
        <5> QED BY <4>2, <5>1
      <4> QED BY <4>1, <4>3 DEF Through
    <3> QED BY <3>1, <3>2 DEF ControlInv
  <2>3. CASE Lower
    <3>1. PassesInv' /\ verdict' = verdict
      BY <2>1, <2>3, LowerPasses DEF Lower, checkVars
    <3> QED BY <2>1, <2>3, <3>1, LowerThrough DEF ControlInv
  <2>4. CASE Emit
    <3>1. PassesInv'
      BY <2>1, <2>4, EmitPasses
    <3>2. /\ prog' = prog /\ code' = code /\ lowered' = lowered /\ lpos' = lpos /\ lstack' = lstack
          /\ loop_exit' = loop_exit /\ label_counter' = label_counter /\ verdict' = verdict
      BY <2>4 DEF Emit, parseVars, checkVars
    <3> QED BY <3>1, <3>2, StillThrough DEF ControlInv
  <2>5. CASE UNCHANGED <<parseVars, checkVars, lowerVars, emitted>>
    <3>1. PassesInv'
      BY <2>1, <2>5, StillPasses
    <3>2. /\ prog' = prog /\ code' = code /\ lowered' = lowered /\ lpos' = lpos /\ lstack' = lstack
          /\ loop_exit' = loop_exit /\ label_counter' = label_counter /\ verdict' = verdict
      BY <2>5 DEF parseVars, checkVars, lowerVars
    <3> QED BY <3>1, <3>2, StillThrough DEF ControlInv
  <2>6. Run \/ Halt \/ UNCHANGED vars => UNCHANGED <<parseVars, checkVars, lowerVars, emitted>>
    BY DEF Run, Halt, vars
  <2> QED BY <2>2, <2>3, <2>4, <2>5, <2>6 DEF Next
<1> QED BY <1>1, <1>2, PTL DEF Spec

-----------------------------------------------------------------------------
(* Where control is *)

\* Here is the first node from a on that is not silent, or the return.
LEMMA HereIs ==
  ASSUME Len(prog) \in Nat, NEW a \in 1 .. Len(prog) + 1
  PROVE  /\ Here(a) \in a .. Len(prog) + 1
         /\ Here(a) \in Nodes => ~Silent(Here(a))
         /\ \A q \in a .. Len(prog) + 1 : q < Here(a) => q \in Nodes /\ Silent(q)
<1>1. PICK n, T : n = Len(prog) /\ T = {q \in a .. n + 1 : q \in Nodes => ~Silent(q)}
  OBVIOUS
<1>2. n \in Nat /\ a \in 1 .. n + 1 /\ Nodes = 1 .. n
  BY <1>1 DEF Nodes
<1>3. T \in SUBSET Nat /\ n + 1 \in T
  BY <1>1, <1>2
<1>4. PICK h : h = Min(T)
  OBVIOUS
<1>5. h \in T /\ \A k \in T : h <= k
  BY <1>3, <1>4, MinOf
<1>6. Here(a) = h
  BY <1>1, <1>4 DEF Here
<1>7. h \in a .. n + 1 /\ (h \in Nodes => ~Silent(h))
  BY <1>1, <1>5
<1>8. ASSUME NEW q \in a .. n + 1, q < h
      PROVE  q \in Nodes /\ Silent(q)
  <2>1. q \notin T
    BY <1>2, <1>5, <1>7, <1>8
  <2> QED BY <1>1, <2>1
<1> QED BY <1>1, <1>6, <1>7, <1>8

LEMMA HereMeets ==
  ASSUME Len(prog) \in Nat, NEW a \in 1 .. Len(prog) + 1, NEW b \in a .. Here(a)
  PROVE  b \in 1 .. Len(prog) + 1 /\ Here(b) = Here(a)
<1>1. PICK n, h, g : n = Len(prog) /\ h = Here(a) /\ g = Here(b)
  OBVIOUS
<1>2. n \in Nat /\ a \in 1 .. n + 1 /\ h \in a .. n + 1 /\ b \in a .. h
  BY <1>1, HereIs
<1>3. b \in 1 .. n + 1
  BY <1>2
<1>4. /\ h \in Nodes => ~Silent(h)
      /\ \A q \in a .. n + 1 : q < h => q \in Nodes /\ Silent(q)
  BY <1>1, HereIs
<1>5. /\ g \in b .. n + 1 /\ (g \in Nodes => ~Silent(g))
      /\ \A q \in b .. n + 1 : q < g => q \in Nodes /\ Silent(q)
  BY <1>1, <1>3, HereIs
<1>6. ~(g < h)
  <2>1. g \in a .. n + 1
    BY <1>2, <1>5
  <2> QED BY <1>4, <1>5, <2>1
<1>7. ~(h < g)
  <2>1. h \in b .. n + 1
    BY <1>2
  <2> QED BY <1>4, <1>5, <2>1
<1>8. g = h
  BY <1>2, <1>5, <1>6, <1>7
<1> QED BY <1>1, <1>3, <1>8

LEMMA HereSelf ==
  ASSUME Len(prog) \in Nat, NEW a \in 1 .. Len(prog), ~Silent(a)
  PROVE  Here(a) = a
<1>1. PICK n, h : n = Len(prog) /\ h = Here(a)
  OBVIOUS
<1>2. a \in 1 .. n + 1 /\ a \in a .. n + 1 /\ n \in Nat
  BY <1>1
<1>3. h \in a .. n + 1 /\ \A q \in a .. n + 1 : q < h => q \in Nodes /\ Silent(q)
  BY <1>1, <1>2, HereIs
<1>4. ~(a < h)
  BY <1>2, <1>3
<1>5. h = a
  BY <1>2, <1>3, <1>4
<1> QED BY <1>1, <1>5

LEMMA Loud ==
  ASSUME NEW S, NEW i
  PROVE  /\ Silent(i) = Quiet(prog[i])
         /\ Jumps(prog, S, i) => ~Silent(i)
         /\ Branches(prog, i) => ~Silent(i)
         /\ Kind(i) \in Loops \cup {"if"} => ~Silent(i)
<1>1. Silent(i) = Quiet(prog[i])
  BY DEF Silent, Quiet, Kind
<1>2. Jumps(prog, S, i) => ~Quiet(prog[i])
  BY DEF Jumps, Quiet
<1>3. Branches(prog, i) => ~Quiet(prog[i])
  BY DEF Branches, Quiet
<1>4. Kind(i) \in Loops \cup {"if"} => ~Quiet(prog[i])
  BY DEF Kind, Loops, Quiet
<1> QED BY <1>1, <1>2, <1>3, <1>4

-----------------------------------------------------------------------------
(* The code of a body *)

\* A body of nested blocks and its code.
Compiles(S) == Nested(prog, S) /\ S[Len(prog) + 1] = <<>> /\ Done(prog, S, code)

LEMMA CodeFacts ==
  ASSUME NEW S, Compiles(S)
  PROVE  /\ Len(prog) \in Nat /\ Len(code) \in Nat \ {0}
         /\ \A p \in 1 .. Len(code) :
              /\ code[p].at \in 0 .. Len(prog) + 1
              /\ \/ code[p].op = "PARAM" /\ code[p].at = 0
                 \/ code[p].op = "RET" /\ code[p].at = Len(prog) + 1
                 \/ code[p].at # 0 /\ \E i \in 1 .. Len(prog) : Good(prog, S, code[p], i)
              /\ code[p].op # "RET" => p + 1 \in 1 .. Len(code)
         /\ \A p, q \in 1 .. Len(code) :
              p < q => code[p].at <= code[q].at /\ (code[p].op = "JMP" => code[p].at < code[q].at)
<1>1. PICK n, m, c : n = Len(prog) /\ m = Len(code) /\ c = code
  OBVIOUS
<1>2. n \in Nat /\ Done(prog, S, c)
  BY <1>1 DEF Compiles, Nested
<1>3. m \in Nat \ {0} /\ c[m].op = "RET" /\ Rising(c)
  BY <1>1, <1>2 DEF Done
<1>4. \A p \in 1 .. m : c[p] \in Range(c)
  <2>1. DOMAIN c = 1 .. m
    BY <1>1, <1>2 DEF Done, Sequence
  <2> QED BY <2>1 DEF Range
<1>5. ASSUME NEW p \in 1 .. m
      PROVE  /\ c[p].at \in 0 .. n + 1
             /\ \/ c[p].op = "PARAM" /\ c[p].at = 0
                \/ c[p].op = "RET" /\ c[p].at = n + 1
                \/ c[p].at # 0 /\ \E i \in 1 .. n : Good(prog, S, c[p], i)
             /\ c[p].op # "RET" => p + 1 \in 1 .. m
  <2>1. PICK x : x = c[p]
    OBVIOUS
  <2>2. x \in Range(c)
    BY <1>4, <2>1
  <2>3. \/ x.op = "PARAM" /\ x.at = 0
        \/ x.op = "RET" /\ x.at = n + 1
        \/ \E i \in 1 .. n : Good(prog, S, x, i)
    BY <1>1, <1>2, <2>2 DEF Done
  <2>4. ASSUME NEW i \in 1 .. n, Good(prog, S, x, i)
        PROVE  x.at \in 0 .. n + 1 /\ x.at # 0
    <3>1. i \in Nat \ {0}
      OBVIOUS
    <3>2. x.at \in Nat /\ i <= x.at /\ x.at <= i + 1
      BY <2>4, <3>1, GoodAt
    <3> QED BY <1>2, <3>2
  <2>5. x.op # "RET" => p + 1 \in 1 .. m
    <3>1. x.op # "RET" => p # m
      BY <1>3, <2>1
    <3> QED BY <1>3, <3>1
  <2>6. 0 \in 0 .. n + 1 /\ n + 1 \in 0 .. n + 1
    BY <1>2
  <2> QED BY <2>1, <2>3, <2>4, <2>5, <2>6
<1>6. \A p, q \in 1 .. m : p < q => c[p].at <= c[q].at /\ (c[p].op = "JMP" => c[p].at < c[q].at)
  BY <1>1, <1>3 DEF Rising
<1> QED BY <1>1, <1>2, <1>3, <1>5, <1>6

\* Wherever control may be, there is an instruction.
LEMMA CodeAt ==
  ASSUME NEW S, Compiles(S), NEW h \in 1 .. Len(prog) + 1, h \in Nodes => ~Silent(h)
  PROVE  \E p \in 1 .. Len(code) : code[p].at = h
<1>1. PICK n, m, c : n = Len(prog) /\ m = Len(code) /\ c = code
  OBVIOUS
<1>2. n \in Nat /\ Done(prog, S, c) /\ m \in Nat \ {0}
  BY <1>1 DEF Compiles, Nested, Done
<1>3. CASE h = n + 1
  <2>1. m \in 1 .. m /\ c[m].at = n + 1
    BY <1>1, <1>2 DEF Done
  <2> QED BY <1>1, <1>3, <2>1
<1>4. CASE h # n + 1
  <2>1. h \in 1 .. n /\ ~Quiet(prog[h])
    <3>1. h \in 1 .. n
      BY <1>1, <1>2, <1>4
    <3> QED BY <1>1, <3>1, Loud DEF Nodes
  <2>2. \E x \in Range(c) : x.at = h
    BY <1>1, <1>2, <2>1 DEF Done, Whole
  <2>3. DOMAIN c = 1 .. m
    BY <1>1, <1>2 DEF Done, Sequence
  <2> QED BY <1>1, <2>2, <2>3 DEF Range
<1> QED BY <1>3, <1>4

\* From one instruction to the next, control stays or goes on to the next node.
LEMMA Falls ==
  ASSUME NEW S, Compiles(S), NEW p \in 1 .. Len(code), code[p].op # "RET"
  PROVE  /\ p + 1 \in 1 .. Len(code)
         /\ code[p].at = 0 => code[p + 1].at = 0 \/ (code[p + 1].at \in 1 .. Len(prog) + 1 /\ Here(code[p + 1].at) = Here(1))
         /\ code[p].at # 0 =>
              /\ code[p + 1].at \in 1 .. Len(prog) + 1
              /\ \/ Here(code[p + 1].at) = Here(code[p].at)
                 \/ Here(code[p].at) \in Nodes /\ Here(code[p + 1].at) = Here(Here(code[p].at) + 1)
<1>1. PICK n, m, c, q : n = Len(prog) /\ m = Len(code) /\ c = code /\ q = p + 1
  OBVIOUS
<1>2. /\ n \in Nat /\ m \in Nat \ {0} /\ p \in 1 .. m /\ q \in 1 .. m
      /\ \A k \in 1 .. m : c[k].at \in 0 .. n + 1
      /\ \A k, j \in 1 .. m : k < j => c[k].at <= c[j].at
  BY <1>1, CodeFacts
<1>3. PICK a, b : a = c[p].at /\ b = c[q].at
  OBVIOUS
<1>4. a \in 0 .. n + 1 /\ b \in 0 .. n + 1 /\ a <= b
  <2>1. p < q
    BY <1>1, <1>2
  <2> QED BY <1>2, <1>3, <2>1
\* What lies ahead of p is not passed.
<1>5. ASSUME NEW h \in 1 .. n + 1, h \in Nodes => ~Silent(h), a < h
      PROVE  b <= h
  <2>1. PICK r \in 1 .. m : c[r].at = h
    BY <1>1, <1>5, CodeAt
  <2>2. ~(r < p) /\ r # p
    <3>1. r < p => c[r].at <= c[p].at
      BY <1>2
    <3>2. r < p => h <= a
      BY <1>3, <2>1, <3>1
    <3>3. r = p => h = a
      BY <1>3, <2>1
    <3> QED BY <1>4, <1>5, <3>2, <3>3
  <2>3. r = q \/ q < r
    BY <1>1, <1>2, <2>2
  <2>4. b = h \/ b <= h
    BY <1>2, <1>3, <2>1, <2>3
  <2> QED BY <1>4, <2>4
<1>6. CASE a = 0
  <2>1. 1 \in 1 .. n + 1
    BY <1>2
  <2>2. PICK h : h = Here(1)
    OBVIOUS
  <2>3. h \in 1 .. n + 1 /\ (h \in Nodes => ~Silent(h))
    BY <1>1, <1>2, <2>1, <2>2, HereIs
  <2>4. b <= h
    BY <1>5, <1>6, <2>3
  <2>5. CASE b = 0
    BY <1>1, <1>2, <1>3, <1>6, <2>5
  <2>6. CASE b # 0
    <3>1. b \in 1 .. h
      BY <1>4, <2>3, <2>4, <2>6
    <3>2. b \in 1 .. n + 1 /\ Here(b) = Here(1)
      BY <1>1, <1>2, <2>1, <2>2, <3>1, HereMeets
    <3> QED BY <1>1, <1>2, <1>3, <1>6, <3>2
  <2> QED BY <2>5, <2>6
<1>7. CASE a # 0
  <2>1. a \in 1 .. n + 1 /\ b \in 1 .. n + 1
    BY <1>2, <1>4, <1>7
  <2>2. PICK h : h = Here(a)
    OBVIOUS
  <2>3. h \in a .. n + 1
    BY <1>1, <1>2, <2>1, <2>2, HereIs
  <2>4. CASE b <= h
    <3>1. b \in a .. h
      BY <1>4, <2>3, <2>4
    <3>2. Here(b) = Here(a)
      BY <1>1, <1>2, <2>1, <2>2, <3>1, HereMeets
    <3> QED BY <1>1, <1>2, <1>3, <1>7, <2>1, <3>2
  <2>5. CASE ~(b <= h)
    <3>1. h \in 1 .. n /\ h + 1 \in 1 .. n + 1 /\ h + 1 <= b
      BY <1>2, <2>1, <2>3, <2>5
    <3>2. PICK g : g = Here(h + 1)
      OBVIOUS
    <3>3. g \in h + 1 .. n + 1 /\ (g \in Nodes => ~Silent(g))
      BY <1>1, <1>2, <3>1, <3>2, HereIs
    <3>4. g \in 1 .. n + 1 /\ a < g
      BY <1>2, <2>1, <2>3, <3>1, <3>3
    <3>5. b <= g
      BY <1>5, <3>3, <3>4
    <3>6. b \in h + 1 .. g
      BY <1>4, <3>1, <3>3, <3>5
    <3>7. Here(b) = Here(h + 1)
      BY <1>1, <1>2, <3>1, <3>2, <3>6, HereMeets
    <3>8. h \in Nodes
      BY <1>1, <3>1 DEF Nodes
    <3> QED BY <1>1, <1>2, <1>3, <1>7, <2>1, <2>2, <3>7, <3>8
  <2> QED BY <2>4, <2>5
<1> QED BY <1>6, <1>7

-----------------------------------------------------------------------------
(* The ways from a node *)

\* The nodes a label is placed at.
Targets(S, lab) == {a \in 1 .. Len(prog) + 1 : \E i \in 1 .. Len(prog) : Marks(prog, S, i, lab, a)}

LEMMA PlacedAt ==
  ASSUME NEW S, Compiles(S), NEW lab
  PROVE  /\ \A q \in Placed(lab) : q \in 1 .. Len(code) /\ code[q].at \in Targets(S, lab)
         /\ \A a \in Targets(S, lab) : \E q \in Placed(lab) : code[q].at = a
<1>1. PICK n, m, c : n = Len(prog) /\ m = Len(code) /\ c = code
  OBVIOUS
<1>2. /\ n \in Nat /\ m \in Nat \ {0} /\ Done(prog, S, c)
      /\ \A p \in 1 .. m : \/ c[p].op = "PARAM"
                           \/ c[p].op = "RET"
                           \/ c[p].at # 0 /\ \E i \in 1 .. n : Good(prog, S, c[p], i)
      /\ \A p \in 1 .. m : c[p].at \in 0 .. n + 1
  BY <1>1, CodeFacts DEF Compiles
<1>3. ASSUME NEW q \in Placed(lab)
      PROVE  q \in 1 .. m /\ c[q].at \in Targets(S, lab)
  <2>1. q \in 1 .. m /\ c[q].op = "LABEL" /\ c[q].lab = lab
    BY <1>1 DEF Placed
  <2>2. PICK i \in 1 .. n : Good(prog, S, c[q], i)
    BY <1>2, <2>1
  <2>3. Marks(prog, S, i, lab, c[q].at) /\ c[q].at # 0
    BY <1>2, <2>1, <2>2 DEF Good
  <2>4. c[q].at \in 1 .. n + 1
    <3>1. c[q].at \in 0 .. n + 1
      BY <1>2, <2>1
    <3> QED BY <1>2, <2>3, <3>1
  <2> QED BY <1>1, <2>1, <2>3, <2>4 DEF Targets
<1>4. ASSUME NEW a \in Targets(S, lab)
      PROVE  \E q \in Placed(lab) : c[q].at = a
  <2>1. PICK i \in 1 .. n : Marks(prog, S, i, lab, a)
    BY <1>1 DEF Targets
  <2>2. PICK x \in Range(c) : x.op = "LABEL" /\ x.lab = lab /\ x.at = a
    <3>1. Whole(prog, S, i, Range(c))
      BY <1>1, <1>2 DEF Done
    <3> QED BY <2>1, <3>1 DEF Whole
  <2>3. PICK q \in 1 .. m : c[q] = x
    <3>1. DOMAIN c = 1 .. m
      BY <1>1, <1>2 DEF Done, Sequence
    <3> QED BY <3>1 DEF Range
  <2>4. q \in Placed(lab)
    BY <1>1, <2>2, <2>3 DEF Placed
  <2> QED BY <2>2, <2>3, <2>4
<1> QED BY <1>1, <1>3, <1>4

\* The label that ends a block is placed at its end, or behind it.
LEMMA LastTarget ==
  ASSUME NEW S, Compiles(S), NEW o \in 1 .. Len(prog), Kind(o) \in Openers
  PROVE  Targets(S, LastLab(prog, o)) = {IF Kind(o) \in Loops \cup {"arm"} THEN Close(o) + 1 ELSE Close(o)}
<1>1. PICK pr, n, l, e, d : /\ pr = prog /\ n = Len(prog) /\ l = LastLab(prog, o) /\ e = Close(o)
                            /\ d = (IF Kind(o) \in Loops \cup {"arm"} THEN Close(o) + 1 ELSE Close(o))
  OBVIOUS
<1>2. Nested(pr, S) /\ S[n + 1] = <<>> /\ n \in Nat /\ o \in Nat \ {0} /\ pr[o].k \in Openers
  BY <1>1 DEF Compiles, Nested, Kind
<1>3. e \in o + 1 .. n /\ Kind(e) = "end" /\ Last(S[e]).o = o
  BY <1>1, <1>2, HasClose
<1>4. d \in {e, e + 1} /\ d \in 1 .. n + 1 /\ e \in 1 .. n
  BY <1>1, <1>2, <1>3
<1>5. Marks(pr, S, e, l, d)
  <2>1. pr[e].k = "end" /\ Owner(S, e) = o
    BY <1>1, <1>3 DEF Kind, Owner
  <2> QED BY <1>1, <2>1 DEF Marks, Kind
<1>6. ASSUME NEW i \in 1 .. n, NEW a, Marks(pr, S, i, l, a)
      PROVE  a = d
  <2>1. i \in Nat \ {0}
    OBVIOUS
  <2>2. CASE pr[i].k \in Loops /\ l = Gid(pr, i)
    <3>1. i \in Two(pr) /\ pr[i].k \in Openers
      BY <2>1, <2>2 DEF Two, Openers
    <3> QED BY <1>1, <1>2, <2>1, <2>2, <3>1, LabelsApart
  <2>3. CASE pr[i].k = "else" /\ l = Gid(pr, Owner(S, i))
    <3>1. PICK w : w = Owner(S, i)
      OBVIOUS
    <3>2. w \in 1 .. i - 1 /\ pr[w].k = "if" /\ pr[w].k \in Openers
      BY <1>1, <1>2, <2>3, <3>1, Under
    <3>3. w \in Nat \ {0}
      BY <2>1, <3>2
    <3>4. w \in Two(pr)
      BY <3>2, <3>3 DEF Two
    <3> QED BY <1>1, <1>2, <2>3, <3>1, <3>2, <3>3, <3>4, LabelsApart
  <2>4. CASE /\ pr[i].k = "end" /\ l = LastLab(pr, Owner(S, i))
             /\ a = IF pr[Owner(S, i)].k \in Loops \cup {"arm"} THEN i + 1 ELSE i
    <3>1. PICK w : w = Owner(S, i)
      OBVIOUS
    <3>2. w \in 1 .. i - 1 /\ pr[w].k \in Openers /\ Close(w) = i
      <4>1. Kind(i) = "end" /\ i \in 1 .. Len(prog)
        BY <1>1, <2>4 DEF Kind
      <4> QED BY <1>1, <1>2, <3>1, <4>1, CloseIs DEF Owner, Kind
    <3>3. w \in Nat \ {0}
      BY <2>1, <3>2
    <3>4. w = o
      BY <1>1, <1>2, <2>4, <3>1, <3>2, <3>3, LabelsApart
    <3> QED BY <1>1, <2>4, <3>1, <3>2, <3>4 DEF Kind
  <2> QED BY <1>6, <2>2, <2>3, <2>4 DEF Marks
<1> QED BY <1>1, <1>4, <1>5, <1>6 DEF Targets

\* The first label of a loop is placed before it.
LEMMA TopTarget ==
  ASSUME NEW S, Compiles(S), NEW o \in 1 .. Len(prog), Kind(o) \in Loops
  PROVE  Targets(S, Gid(prog, o)) = {o}
<1>1. PICK pr, n, l : pr = prog /\ n = Len(prog) /\ l = Gid(prog, o)
  OBVIOUS
<1>2. /\ Nested(pr, S) /\ n \in Nat /\ o \in Nat \ {0} /\ o \in 1 .. n /\ o \in 1 .. n + 1
      /\ pr[o].k \in Loops /\ pr[o].k \in Openers /\ o \in Two(pr)
  <2>1. Nested(pr, S) /\ n \in Nat /\ pr[o].k \in Loops
    BY <1>1 DEF Compiles, Nested, Kind
  <2> QED BY <1>1, <2>1 DEF Openers, Two
<1>3. Marks(pr, S, o, l, o)
  BY <1>1, <1>2 DEF Marks
<1>4. ASSUME NEW i \in 1 .. n, NEW a, Marks(pr, S, i, l, a)
      PROVE  a = o
  <2>1. i \in Nat \ {0}
    OBVIOUS
  <2>2. CASE pr[i].k \in Loops /\ l = Gid(pr, i) /\ a = i
    <3>1. pr[i].k \in Openers
      BY <2>2 DEF Openers
    <3> QED BY <1>1, <1>2, <2>1, <2>2, <3>1, LabelsApart
  <2>3. CASE pr[i].k = "else" /\ l = Gid(pr, Owner(S, i))
    <3>1. PICK w : w = Owner(S, i)
      OBVIOUS
    <3>2. w \in 1 .. i - 1 /\ pr[w].k = "if" /\ pr[w].k \in Openers
      BY <1>1, <1>2, <2>3, <3>1, Under
    <3>3. w \in Nat \ {0}
      BY <2>1, <3>2
    <3>4. w = o
      BY <1>1, <1>2, <2>3, <3>1, <3>2, <3>3, LabelsApart
    <3> QED BY <1>2, <3>2, <3>4, KindsApart
  <2>4. CASE pr[i].k = "end" /\ l = LastLab(pr, Owner(S, i))
    <3>1. PICK w : w = Owner(S, i)
      OBVIOUS
    <3>2. w \in 1 .. i - 1 /\ pr[w].k \in Openers
      BY <1>1, <1>2, <2>4, <3>1, Under
    <3>3. w \in Nat \ {0}
      BY <2>1, <3>2
    <3> QED BY <1>1, <1>2, <2>4, <3>1, <3>2, <3>3, LabelsApart
  <2> QED BY <1>4, <2>2, <2>3, <2>4 DEF Marks
<1> QED BY <1>1, <1>2, <1>3, <1>4 DEF Targets

\* The first label of an if with an else is placed behind it.
LEMMA ElseTarget ==
  ASSUME NEW S, Compiles(S), NEW o \in 1 .. Len(prog), Kind(o) = "if"
  PROVE  Targets(S, Gid(prog, o)) = {e + 1 : e \in Else(o)}
<1>1. PICK pr, n, l : pr = prog /\ n = Len(prog) /\ l = Gid(prog, o)
  OBVIOUS
<1>2. /\ Nested(pr, S) /\ S[n + 1] = <<>> /\ n \in Nat /\ o \in Nat \ {0} /\ o \in 1 .. n
      /\ pr[o].k = "if" /\ pr[o].k \in Openers /\ o \in Two(pr) /\ pr[o].k \notin Loops
  <2>1. Nested(pr, S) /\ S[n + 1] = <<>> /\ n \in Nat /\ pr[o].k = "if"
    BY <1>1 DEF Compiles, Nested, Kind
  <2> QED BY <1>1, <2>1, KindsApart DEF Two
<1>3. \A j : j \in Else(o) <=> j \in 1 .. n /\ pr[j].k = "else" /\ Owner(S, j) = o
  BY <1>1, <1>2, ElseIs DEF Kind, Owner
<1>4. ASSUME NEW e \in Else(o)
      PROVE  e + 1 \in 1 .. n + 1 /\ \E i \in 1 .. n : Marks(pr, S, i, l, e + 1)
  <2>1. e \in 1 .. n /\ Marks(pr, S, e, l, e + 1)
    BY <1>1, <1>3 DEF Marks
  <2> QED BY <1>2, <2>1
<1>5. ASSUME NEW i \in 1 .. n, NEW a, Marks(pr, S, i, l, a)
      PROVE  i \in Else(o) /\ a = i + 1
  <2>1. i \in Nat \ {0}
    OBVIOUS
  <2>2. CASE pr[i].k \in Loops /\ l = Gid(pr, i)
    <3>1. pr[i].k \in Openers
      BY <2>2 DEF Openers
    <3>2. i = o
      BY <1>1, <1>2, <2>1, <2>2, <3>1, LabelsApart
    <3> QED BY <1>2, <2>2, <3>2
  <2>3. CASE pr[i].k = "else" /\ l = Gid(pr, Owner(S, i)) /\ a = i + 1
    <3>1. PICK w : w = Owner(S, i)
      OBVIOUS
    <3>2. w \in 1 .. i - 1 /\ pr[w].k \in Openers
      BY <1>1, <1>2, <2>3, <3>1, Under
    <3>3. w \in Nat \ {0}
      BY <2>1, <3>2
    <3>4. w = o
      BY <1>1, <1>2, <2>3, <3>1, <3>2, <3>3, LabelsApart
    <3> QED BY <1>3, <2>3, <3>1, <3>4
  <2>4. CASE pr[i].k = "end" /\ l = LastLab(pr, Owner(S, i))
    <3>1. PICK w : w = Owner(S, i)
      OBVIOUS
    <3>2. w \in 1 .. i - 1 /\ pr[w].k \in Openers
      BY <1>1, <1>2, <2>4, <3>1, Under
    <3>3. w \in Nat \ {0}
      BY <2>1, <3>2
    <3> QED BY <1>1, <1>2, <2>4, <3>1, <3>2, <3>3, LabelsApart
  <2> QED BY <1>5, <2>2, <2>3, <2>4 DEF Marks
<1> QED BY <1>1, <1>4, <1>5 DEF Targets

\* Where the code of node n may go on: to the node behind it, or where it jumps.
Ways(S, n) ==
  (IF Jumps(prog, S, n) THEN Targets(S, JumpTo(prog, S, n)) ELSE {n + 1})
    \cup (IF Branches(prog, n) THEN Targets(S, BranchTo(prog, S, n)) ELSE {})

\* The jump of a node is its last instruction.
LEMMA JumpIsLast ==
  ASSUME NEW S, Compiles(S), NEW n \in 1 .. Len(prog), Jumps(prog, S, n)
  PROVE  \E r \in 1 .. Len(code) : /\ code[r].op = "JMP" /\ code[r].at = n /\ code[r].lab = JumpTo(prog, S, n)
                                   /\ \A p \in 1 .. Len(code) : r < p => n < code[p].at
                                   /\ prog[n].k = "exit" => LoopsOn(prog, S[n]) # {}
<1>1. PICK m, c : m = Len(code) /\ c = code
  OBVIOUS
<1>2. Done(prog, S, c) /\ m \in Nat \ {0}
  BY <1>1 DEF Compiles, Done
<1>3. PICK x \in Range(c) : x.op = "JMP" /\ x.at = n
  BY <1>2 DEF Done, Whole
<1>4. PICK r \in 1 .. m : c[r] = x
  <2>1. DOMAIN c = 1 .. m
    BY <1>1, <1>2 DEF Done, Sequence
  <2> QED BY <2>1 DEF Range
<1>5. PICK i \in 1 .. Len(prog) : Good(prog, S, x, i)
  BY <1>2, <1>3 DEF Done
<1>6. x.at = i /\ x.lab = JumpTo(prog, S, i) /\ (prog[i].k = "exit" => LoopsOn(prog, S[i]) # {})
  BY <1>3, <1>5 DEF Good
<1>7. \A p \in 1 .. m : r < p => n < c[p].at
  BY <1>1, <1>2, <1>3, <1>4 DEF Done, Rising
<1> QED BY <1>1, <1>3, <1>4, <1>6, <1>7

\* Control that goes on to the next instruction takes one of the ways.
LEMMA FallsTo ==
  ASSUME NEW S, Compiles(S), NEW p \in 1 .. Len(code), code[p].op \notin {"RET", "JMP"}, code[p].at # 0
  PROVE  LET h == Here(code[p].at) IN
         /\ p + 1 \in 1 .. Len(code) /\ code[p + 1].at \in 1 .. Len(prog) + 1
         /\ \/ Here(code[p + 1].at) = h
            \/ h \in Nodes /\ ~Jumps(prog, S, h) /\ Here(code[p + 1].at) = Here(h + 1)
<1>1. PICK m, c, q, a, b, h : /\ m = Len(code) /\ c = code /\ q = p + 1 /\ a = code[p].at
                              /\ b = code[p + 1].at /\ h = Here(code[p].at)
  OBVIOUS
<1>2. q \in 1 .. m /\ b \in 1 .. Len(prog) + 1 /\ (Here(b) = h \/ (h \in Nodes /\ Here(b) = Here(h + 1)))
  BY <1>1, Falls
<1>3. /\ Len(prog) \in Nat /\ m \in Nat /\ a \in 0 .. Len(prog) + 1 /\ a # 0
      /\ \A k, j \in 1 .. m : k < j => c[k].at <= c[j].at
  BY <1>1, CodeFacts
<1>4. ASSUME h \in Nodes, Jumps(prog, S, h)
      PROVE  Here(b) = h
  <2>1. h \in 1 .. Len(prog) /\ a \in 1 .. Len(prog) + 1
    BY <1>3, <1>4 DEF Nodes
  <2>2. PICK r \in 1 .. m : c[r].op = "JMP" /\ c[r].at = h /\ \A k \in 1 .. m : r < k => h < c[k].at
    BY <1>1, <1>4, <2>1, JumpIsLast
  <2>3. a <= h
    BY <1>1, <1>3, <2>1, HereIs
  <2>4. ~(r < p)
    <3>1. r < p => h < a
      BY <1>1, <2>2
    <3> QED BY <1>3, <2>1, <2>3, <3>1
  <2>5. r # p
    BY <1>1, <2>2
  <2>6. q <= r
    BY <1>1, <1>3, <2>4, <2>5
  <2>7. b <= h
    <3>1. q = r \/ q < r
      BY <1>2, <1>3, <2>6
    <3>2. c[r].at = h /\ c[q].at = b
      BY <1>1, <2>2
    <3>3. q < r => c[q].at <= c[r].at
      BY <1>2, <1>3
    <3> QED BY <1>2, <2>1, <3>1, <3>2, <3>3
  <2>8. a <= b
    <3>1. p < q
      BY <1>1, <1>3
    <3>2. c[p].at <= c[q].at
      BY <1>1, <1>2, <1>3, <3>1
    <3> QED BY <1>1, <3>2
  <2>9. b \in a .. h
    BY <1>2, <1>3, <2>1, <2>7, <2>8
  <2> QED BY <1>1, <1>3, <2>1, <2>9, HereMeets
<1>5. Here(b) = h \/ (h \in Nodes /\ ~Jumps(prog, S, h) /\ Here(b) = Here(h + 1))
  BY <1>2, <1>4
<1> QED BY <1>1, <1>2, <1>5

\* Every step of the code stays where it is or takes one of the ways.
LEMMA FlowIs ==
  ASSUME NEW S, Compiles(S), NEW p \in 1 .. Len(code), NEW q \in Flow(p)
  PROVE  /\ q \in 1 .. Len(code)
         /\ code[p].at = 0 => code[q].at = 0 \/ (code[q].at \in 1 .. Len(prog) + 1 /\ Here(code[q].at) = Here(1))
         /\ code[p].at # 0 =>
              /\ code[q].at \in 1 .. Len(prog) + 1
              /\ \/ Here(code[q].at) = Here(code[p].at)
                 \/ /\ Here(code[p].at) \in Nodes
                    /\ \E w \in Ways(S, Here(code[p].at)) : Here(code[q].at) = Here(w)
<1>1. PICK n, m, c, x, h : n = Len(prog) /\ m = Len(code) /\ c = code /\ x = code[p] /\ h = Here(code[p].at)
  OBVIOUS
<1>2. /\ n \in Nat /\ m \in Nat \ {0} /\ x.at \in 0 .. n + 1
      /\ \/ x.op = "PARAM" /\ x.at = 0
         \/ x.op = "RET" /\ x.at = n + 1
         \/ x.at # 0 /\ \E i \in 1 .. n : Good(prog, S, x, i)
  BY <1>1, CodeFacts
<1>3. x.op # "RET" /\ x.at = 0 => x.op = "PARAM"
  BY <1>2
<1>4. CASE q = p + 1 /\ x.op \notin {"RET", "JMP"}
  <2>1. CASE x.at = 0
    BY <1>1, <1>4, <2>1, Falls
  <2>2. CASE x.at # 0
    <3>1. /\ q \in 1 .. m /\ c[q].at \in 1 .. n + 1
          /\ \/ Here(c[q].at) = h
             \/ h \in Nodes /\ ~Jumps(prog, S, h) /\ Here(c[q].at) = Here(h + 1)
      BY <1>1, <1>4, <2>2, FallsTo
    <3>2. ASSUME h \in Nodes, ~Jumps(prog, S, h), Here(c[q].at) = Here(h + 1)
          PROVE  \E w \in Ways(S, h) : Here(c[q].at) = Here(w)
      <4>1. h + 1 \in Ways(S, h)
        BY <3>2 DEF Ways
      <4> QED BY <3>2, <4>1
    <3> QED BY <1>1, <2>2, <3>1, <3>2
  <2> QED BY <2>1, <2>2
<1>5. CASE q \in Placed(x.lab) /\ x.op \in {"JMP", "JIF", "JIFN"}
  <2>1. PICK i \in 1 .. n : Good(prog, S, x, i)
    BY <1>2, <1>5
  <2>2. x.at = i /\ x.at # 0
    BY <1>5, <2>1 DEF Good
  <2>3. Jumps(prog, S, i) \/ Branches(prog, i)
    BY <1>5, <2>1 DEF Good
  <2>4. h = i /\ h \in Nodes
    <3>1. ~Silent(i)
      BY <2>3, Loud
    <3> QED BY <1>1, <1>2, <2>2, <3>1, HereSelf DEF Nodes
  <2>5. q \in 1 .. m /\ c[q].at \in Targets(S, x.lab)
    BY <1>1, <1>5, PlacedAt
  <2>6. Targets(S, x.lab) \subseteq Ways(S, i)
    BY <1>5, <2>1 DEF Good, Ways
  <2>7. c[q].at \in 1 .. n + 1
    BY <1>1, <2>5 DEF Targets
  <2>8. c[q].at \in Ways(S, h)
    BY <2>4, <2>5, <2>6
  <2> QED BY <1>1, <2>2, <2>4, <2>5, <2>7, <2>8
<1>6. \/ q = p + 1 /\ x.op \notin {"RET", "JMP"}
      \/ q \in Placed(x.lab) /\ x.op \in {"JMP", "JIF", "JIFN"}
  BY <1>1 DEF Flow
<1> QED BY <1>4, <1>5, <1>6

\* And the code takes each of them.
LEMMA WaysTaken ==
  ASSUME NEW S, Compiles(S), NEW n \in 1 .. Len(prog), ~Silent(n), NEW w \in Ways(S, n)
  PROVE  \E p \in 1 .. Len(code) : code[p].at = n /\ \E q \in Flow(p) : Here(code[q].at) = Here(w)
<1>1. PICK m, c : m = Len(code) /\ c = code
  OBVIOUS
<1>2. /\ Len(prog) \in Nat /\ m \in Nat \ {0} /\ Done(prog, S, c) /\ n \in Nat /\ n # 0 /\ n # Len(prog) + 1
      /\ \A p \in 1 .. m : \/ c[p].op = "PARAM" /\ c[p].at = 0
                           \/ c[p].op = "RET" /\ c[p].at = Len(prog) + 1
                           \/ c[p].at # 0 /\ \E i \in 1 .. Len(prog) : Good(prog, S, c[p], i)
      /\ \A k, j \in 1 .. m : k < j => c[k].at <= c[j].at
  BY <1>1, CodeFacts DEF Compiles
<1>3. Whole(prog, S, n, Range(c)) /\ DOMAIN c = 1 .. m
  BY <1>1, <1>2 DEF Done, Sequence
<1>4. CASE Jumps(prog, S, n) /\ w \in Targets(S, JumpTo(prog, S, n))
  <2>1. PICK r \in 1 .. m : c[r].op = "JMP" /\ c[r].at = n /\ c[r].lab = JumpTo(prog, S, n)
    BY <1>1, <1>4, JumpIsLast
  <2>2. PICK q \in Placed(c[r].lab) : c[q].at = w
    BY <1>1, <1>4, <2>1, PlacedAt
  <2>3. q \in Flow(r)
    BY <1>1, <2>1, <2>2 DEF Flow
  <2> QED BY <1>1, <2>1, <2>2, <2>3
<1>5. CASE Branches(prog, n) /\ w \in Targets(S, BranchTo(prog, S, n))
  <2>1. PICK r \in 1 .. m : c[r].op \in {"JIF", "JIFN"} /\ c[r].at = n
    BY <1>3, <1>5 DEF Whole, Range
  <2>2. PICK i \in 1 .. Len(prog) : Good(prog, S, c[r], i)
    BY <1>2, <2>1
  <2>3. c[r].lab = BranchTo(prog, S, n)
    BY <2>1, <2>2 DEF Good
  <2>4. PICK q \in Placed(c[r].lab) : c[q].at = w
    BY <1>1, <1>5, <2>3, PlacedAt
  <2>5. q \in Flow(r)
    BY <1>1, <2>1, <2>4 DEF Flow
  <2> QED BY <1>1, <2>1, <2>4, <2>5
<1>6. CASE ~Jumps(prog, S, n) /\ w = n + 1
  <2>1. PICK P : P = {p \in 1 .. m : c[p].at = n}
    OBVIOUS
  <2>2. P # {} /\ P \in SUBSET Nat /\ \A p \in P : p <= m
    <3>1. \E x \in Range(c) : x.at = n
      BY <1>3, Loud DEF Whole
    <3> QED BY <1>2, <1>3, <2>1, <3>1 DEF Range
  <2>3. PICK p \in P : \A k \in P : k <= p
    BY <1>2, <2>2, Greatest
  <2>4. p \in 1 .. m /\ c[p].at = n
    BY <2>1, <2>3
  <2>5. c[p].op \notin {"RET", "JMP"}
    <3>1. c[p].op # "RET"
      BY <1>2, <2>4 DEF Good
    <3>2. ASSUME c[p].op = "JMP"
          PROVE  FALSE
      <4>1. PICK i \in 1 .. Len(prog) : Good(prog, S, c[p], i)
        BY <1>2, <2>4, <3>2
      <4> QED BY <1>6, <2>4, <3>2, <4>1 DEF Good
    <3> QED BY <3>1, <3>2
  <2>6. p + 1 \in Flow(p)
    BY <1>1, <2>5 DEF Flow
  <2>7. PICK q, b : q = p + 1 /\ b = c[q].at
    OBVIOUS
  <2>8. Here(n) = n
    BY <1>2, HereSelf
  <2>9. q \in 1 .. m /\ b \in 1 .. Len(prog) + 1 /\ (Here(b) = n \/ Here(b) = Here(n + 1))
    BY <1>1, <1>2, <2>4, <2>5, <2>7, <2>8, FallsTo
  <2>10. n < b
    <3>1. p < q
      BY <1>2, <2>4, <2>7
    <3>2. n <= b
      BY <1>2, <2>4, <2>7, <2>9, <3>1
    <3>3. b # n
      <4>1. b = n => q \in P
        BY <2>1, <2>7, <2>9
      <4> QED BY <1>2, <2>3, <2>4, <2>9, <3>1, <4>1
    <3> QED BY <1>2, <2>9, <3>2, <3>3
  <2>11. Here(b) # n
    BY <1>2, <2>9, <2>10, HereIs
  <2> QED BY <1>1, <1>6, <2>4, <2>6, <2>7, <2>9, <2>11
<1> QED BY <1>4, <1>5, <1>6 DEF Ways

-----------------------------------------------------------------------------
(* The ways are those the statements promise *)

\* Structured sees the body the compiler sees.
LEMMA CtlBody ==
  /\ Ctl!Nodes = Nodes /\ Ctl!Loops = Loops
  /\ \A i : /\ Ctl!Kind(i) = Kind(i) /\ Ctl!Close(i) = Close(i) /\ Ctl!Else(i) = Else(i)
            /\ Ctl!Holder(i) = Holder(i) /\ Ctl!EnclosingLoops(i) = EnclosingLoops(i)
            /\ Ctl!Here(i) = Here(i)
  /\ \A T : Ctl!Max(T) = Max(T)
<1>1. Ctl!Nodes = Nodes /\ Ctl!Loops = Loops /\ Ctl!Openers = Openers /\ \A i : Ctl!Kind(i) = Kind(i)
  BY DEF Ctl!Nodes, Nodes, Ctl!Loops, Loops, Ctl!Openers, Openers, Ctl!Kind, Kind
<1>2. \A T : Ctl!Cardinality(T) = Cardinality(T)
  BY DEF Ctl!Cardinality, Cardinality
<1>3. \A T : Ctl!Min(T) = Min(T) /\ Ctl!Max(T) = Max(T)
  BY DEF Ctl!Min, Min, Ctl!Max, Max
<1>4. ASSUME NEW i PROVE Ctl!Level(i) = Level(i)
  BY <1>1, <1>2 DEF Ctl!Level, Level
<1>5. ASSUME NEW i PROVE Ctl!Close(i) = Close(i)
  BY <1>1, <1>3, <1>4 DEF Ctl!Close, Close
<1>6. ASSUME NEW i PROVE Ctl!Else(i) = Else(i)
  BY <1>1, <1>4, <1>5 DEF Ctl!Else, Else
<1>7. ASSUME NEW i PROVE Ctl!Holder(i) = Holder(i)
  BY <1>1, <1>3, <1>4 DEF Ctl!Holder, Holder
<1>8. ASSUME NEW i PROVE Ctl!EnclosingLoops(i) = EnclosingLoops(i)
  <2>1. Ctl!Enclosing(i) = Enclosing(i)
    BY <1>1, <1>5 DEF Ctl!Enclosing, Enclosing
  <2> QED BY <1>1, <2>1 DEF Ctl!EnclosingLoops, EnclosingLoops
<1>9. ASSUME NEW i PROVE Ctl!Here(i) = Here(i)
  <2>1. \A j : Ctl!Silent(j) = Silent(j)
    BY <1>1 DEF Ctl!Silent, Silent
  <2> QED BY <1>1, <1>3, <2>1 DEF Ctl!Here, Here
<1> QED BY <1>1, <1>3, <1>5, <1>6, <1>7, <1>8, <1>9

LEMMA FollowIs ==
  ASSUME NEW S, Compiles(S), NEW n \in 1 .. Len(prog), ~Silent(n)
  PROVE  /\ Ctl!Follow(n) = Ways(S, n)
         /\ \A w \in Ways(S, n) : n < w \/ (w \in 1 .. n - 1 /\ Kind(w) \in Loops)
<1>1. PICK pr, N : pr = prog /\ N = Len(prog)
  OBVIOUS
<1>2. Nested(pr, S) /\ S[N + 1] = <<>> /\ N \in Nat /\ n \in 1 .. N /\ n \in Nat \ {0} /\ Kind(n) = pr[n].k
  BY <1>1 DEF Compiles, Nested, Kind
<1>3. PICK o : o = Owner(S, n)
  OBVIOUS
<1>4. /\ Ctl!Loops = Loops
      /\ \A i : /\ Ctl!Kind(i) = Kind(i) /\ Ctl!Close(i) = Close(i) /\ Ctl!Else(i) = Else(i)
                /\ Ctl!Holder(i) = Holder(i) /\ Ctl!EnclosingLoops(i) = EnclosingLoops(i)
      /\ \A T : Ctl!Max(T) = Max(T)
  BY CtlBody
<1>5. "exit" \notin Loops /\ "else" \notin Loops /\ "end" \notin Loops /\ "if" \notin Loops /\ "arm" \notin Loops
  BY DEF Loops
<1>6. CASE pr[n].k = "exit"
  <2>1. Jumps(pr, S, n) /\ ~Branches(pr, n) /\ JumpTo(pr, S, n) = ExitLab(pr, S[n])
    BY <1>6 DEF Jumps, Branches, JumpTo
  <2>2. PICK L, x : L = LoopsOn(pr, S[n]) /\ x = Max(L)
    OBVIOUS
  <2>3. L # {}
    BY <1>1, <1>2, <1>6, <2>1, <2>2, JumpIsLast
  <2>4. L \subseteq 1 .. n - 1 /\ \A j \in L : pr[j].k \in Loops
    BY <1>1, <1>2, <2>2, OnStack
  <2>5. EnclosingLoops(n) = L
    BY <1>1, <1>2, <1>6, <2>2, EnclosingIs
  <2>6. x \in L
    <3>1. L \in SUBSET Nat /\ \A j \in L : j <= n
      BY <2>4
    <3> QED BY <1>2, <2>2, <2>3, <3>1, MaxOf
  <2>7. x \in 1 .. N /\ Kind(x) \in Loops /\ Kind(x) \in Openers
    <3>1. pr[x].k \in Loops /\ x \in 1 .. n - 1
      BY <2>4, <2>6
    <3> QED BY <1>1, <1>2, <3>1 DEF Kind, Openers
  <2>8. Targets(S, LastLab(pr, x)) = {Close(x) + 1}
    <3>1. Targets(S, LastLab(prog, x)) = {IF Kind(x) \in Loops \cup {"arm"} THEN Close(x) + 1 ELSE Close(x)}
      BY <1>1, <2>7, LastTarget
    <3> QED BY <1>1, <2>7, <3>1
  <2>9. ExitLab(pr, S[n]) = LastLab(pr, x)
    BY <2>2, <2>3 DEF ExitLab
  <2>10. Ways(S, n) = {Close(x) + 1}
    BY <1>1, <2>1, <2>8, <2>9 DEF Ways
  <2>11. Ctl!Follow(n) = {Close(Max(EnclosingLoops(n))) + 1}
    BY <1>2, <1>4, <1>6 DEF Ctl!Follow
  <2>12. n < Close(x) + 1
    <3>1. PICK k \in 1 .. Len(S[n]) : x = S[n][k].o
      BY <2>2, <2>6 DEF LoopsOn
    <3>2. Close(S[n][k].o) \in n .. Len(prog)
      BY <1>1, <1>2, CloseBehind
    <3> QED BY <1>2, <3>1, <3>2
  <2> QED BY <2>2, <2>5, <2>10, <2>11, <2>12
<1>7. CASE pr[n].k = "if"
  <2>1. ~Jumps(pr, S, n) /\ Branches(pr, n)
    BY <1>7 DEF Jumps, Branches
  <2>2. Kind(n) \in Openers /\ Kind(n) = "if"
    BY <1>2, <1>7 DEF Openers
  <2>3. HasElse(pr, S, n) <=> Else(n) # {}
    <3>1. \A j : j \in Else(n) <=> j \in 1 .. N /\ pr[j].k = "else" /\ Owner(S, j) = n
      BY <1>1, <1>2, <2>2, ElseIs DEF Kind, Owner
    <3> QED BY <1>1, <3>1 DEF HasElse
  <2>4. CASE Else(n) = {}
    <3>1. BranchTo(pr, S, n) = LastLab(pr, n)
      BY <2>3, <2>4 DEF BranchTo
    <3>2. Targets(S, LastLab(pr, n)) = {Close(n)}
      <4>1. Targets(S, LastLab(prog, n)) = {IF Kind(n) \in Loops \cup {"arm"} THEN Close(n) + 1 ELSE Close(n)}
        BY <2>2, LastTarget
      <4> QED BY <1>1, <1>5, <2>2, <4>1
    <3>3. Ways(S, n) = {n + 1, Close(n)}
      BY <1>1, <2>1, <3>1, <3>2 DEF Ways
    <3>4. Ctl!Follow(n) = {n + 1, Close(n)}
      BY <1>4, <2>2, <2>4 DEF Ctl!Follow
    <3>5. n < n + 1 /\ n < Close(n)
      <4>1. Close(n) \in n + 1 .. Len(prog)
        BY <1>1, <1>2, <2>2, HasClose
      <4> QED BY <1>2, <4>1
    <3> QED BY <3>3, <3>4, <3>5
  <2>5. CASE Else(n) # {}
    <3>1. BranchTo(pr, S, n) = Gid(pr, n)
      BY <1>7, <2>3, <2>5 DEF BranchTo
    <3>2. Targets(S, Gid(pr, n)) = {e + 1 : e \in Else(n)}
      BY <1>1, <2>2, ElseTarget
    <3>3. Ways(S, n) = {n + 1} \cup {e + 1 : e \in Else(n)}
      BY <1>1, <2>1, <3>1, <3>2 DEF Ways
    <3>4. Ctl!Follow(n) = {n + 1} \cup {e + 1 : e \in Else(n)}
      BY <1>4, <2>2, <2>5 DEF Ctl!Follow
    <3>5. n < n + 1 /\ \A e \in Else(n) : n < e + 1
      BY <1>2 DEF Else
    <3> QED BY <3>3, <3>4, <3>5
  <2> QED BY <2>4, <2>5
<1>8. CASE pr[n].k = "else"
  <2>1. Jumps(pr, S, n) /\ ~Branches(pr, n) /\ JumpTo(pr, S, n) = LastLab(pr, o)
    BY <1>3, <1>8 DEF Jumps, Branches, JumpTo
  <2>2. o \in 1 .. N /\ Kind(o) = "if" /\ Kind(o) \in Openers
    <3>1. o \in 1 .. n - 1 /\ pr[o].k = "if"
      BY <1>1, <1>2, <1>3, <1>8, Under
    <3> QED BY <1>1, <1>2, <3>1 DEF Kind, Openers
  <2>3. Holder(n) = o
    <3>1. S[n] # <<>>
      BY <1>1, <1>2, <1>8 DEF Nested, Fits
    <3> QED BY <1>1, <1>2, <1>3, <3>1, HolderIs DEF Owner
  <2>4. Targets(S, LastLab(pr, o)) = {Close(o)}
    <3>1. Targets(S, LastLab(prog, o)) = {IF Kind(o) \in Loops \cup {"arm"} THEN Close(o) + 1 ELSE Close(o)}
      BY <1>1, <2>2, LastTarget
    <3> QED BY <1>1, <1>5, <2>2, <3>1
  <2>5. Ways(S, n) = {Close(o)}
    BY <1>1, <2>1, <2>4 DEF Ways
  <2>6. Ctl!Follow(n) = {Close(Holder(n))}
    BY <1>2, <1>4, <1>8 DEF Ctl!Follow
  <2>7. n < Close(o)
    <3>1. PICK k : k = Len(S[n])
      OBVIOUS
    <3>2. k \in 1 .. Len(S[n]) /\ o = S[n][k].o
      <4>1. Len(S[n]) \in Nat \ {0} /\ Owner(S, n) = S[n][Len(S[n])].o
        BY <1>1, <1>2, <1>8, Under
      <4> QED BY <1>3, <3>1, <4>1
    <3>3. Close(S[n][k].o) \in n .. Len(prog) /\ (Close(S[n][k].o) = n => Kind(n) = "end")
      BY <1>1, <1>2, <3>2, CloseBehind
    <3>4. Close(o) \in n .. Len(prog) /\ Close(o) # n
      BY <1>2, <1>8, <3>2, <3>3
    <3> QED BY <1>2, <3>4
  <2> QED BY <2>3, <2>5, <2>6, <2>7
<1>9. CASE pr[n].k \in {"while", "for"} \/ (pr[n].k = "arm" /\ pr[n].y # None)
  <2>1. ~Jumps(pr, S, n) /\ Branches(pr, n) /\ BranchTo(pr, S, n) = LastLab(pr, n)
    BY <1>9 DEF Jumps, Branches, BranchTo
  <2>2. Kind(n) \in Loops \cup {"arm"} /\ Kind(n) \in Openers
    BY <1>2, <1>9 DEF Loops, Openers
  <2>3. Targets(S, LastLab(pr, n)) = {Close(n) + 1}
    <3>1. Targets(S, LastLab(prog, n)) = {IF Kind(n) \in Loops \cup {"arm"} THEN Close(n) + 1 ELSE Close(n)}
      BY <2>2, LastTarget
    <3> QED BY <1>1, <2>2, <3>1
  <2>4. Ways(S, n) = {n + 1, Close(n) + 1}
    BY <1>1, <2>1, <2>3 DEF Ways
  <2>5. Ctl!Follow(n) = {n + 1, Close(n) + 1}
    BY <1>1, <1>2, <1>4, <1>9 DEF Ctl!Follow
  <2>6. n < n + 1 /\ n < Close(n) + 1
    <3>1. Close(n) \in n + 1 .. Len(prog)
      BY <1>1, <1>2, <2>2, HasClose
    <3> QED BY <1>2, <3>1
  <2> QED BY <2>4, <2>5, <2>6
<1>10. CASE pr[n].k = "end"
  <2>1. ~Branches(pr, n)
    BY <1>10 DEF Branches
  <2>2. o \in 1 .. N /\ o \in 1 .. n - 1 /\ Kind(o) = pr[o].k /\ Kind(o) \in Openers
    <3>1. o \in 1 .. n - 1 /\ pr[o].k \in Openers
      BY <1>1, <1>2, <1>3, <1>10, Under
    <3> QED BY <1>1, <1>2, <3>1 DEF Kind
  <2>3. Holder(n) = o
    <3>1. S[n] # <<>>
      BY <1>1, <1>2, <1>10 DEF Nested, Fits
    <3> QED BY <1>1, <1>2, <1>3, <3>1, HolderIs DEF Owner
  <2>4. Ctl!Follow(n) = IF Kind(o) \in Loops THEN {o}
                        ELSE IF Kind(o) = "arm" THEN {Close(Holder(o))}
                        ELSE {n + 1}
    BY <1>2, <1>4, <1>10, <2>3 DEF Ctl!Follow
  <2>5. CASE Kind(o) \in Loops
    <3>1. Jumps(pr, S, n) /\ JumpTo(pr, S, n) = Gid(pr, o)
      BY <1>3, <1>5, <1>10, <2>2, <2>5 DEF Jumps, JumpTo
    <3>2. Targets(S, Gid(pr, o)) = {o}
      BY <1>1, <2>2, <2>5, TopTarget
    <3>3. Ways(S, n) = {o}
      BY <1>1, <2>1, <3>1, <3>2 DEF Ways
    <3> QED BY <2>2, <2>4, <2>5, <3>3
  <2>6. CASE Kind(o) = "arm"
    <3>1. PICK v : v = Over(S, n)
      OBVIOUS
    <3>2. Jumps(pr, S, n) /\ JumpTo(pr, S, n) = LastLab(pr, v)
      BY <1>3, <1>10, <2>2, <2>6, <3>1 DEF Jumps, JumpTo
    <3>3. v \in 1 .. o - 1 /\ pr[v].k = "case" /\ S[o] # <<>> /\ v = Last(S[o]).o
      <4>1. n \in 1 .. Len(pr) /\ pr[Owner(S, n)].k = "arm"
        BY <1>1, <1>2, <1>3, <2>2, <2>6
      <4>2. /\ Over(S, n) \in 1 .. Owner(S, n) - 1 /\ pr[Over(S, n)].k = "case"
            /\ S[Owner(S, n)] # <<>> /\ Over(S, n) = Last(S[Owner(S, n)]).o
        BY <1>2, <1>10, <4>1, CaseAround
      <4> QED BY <1>3, <3>1, <4>2
    <3>4. v \in 1 .. N /\ Kind(v) = "case" /\ Kind(v) \in Openers
      BY <1>1, <1>2, <2>2, <3>3 DEF Kind, Openers
    <3>5. Holder(o) = v
      BY <1>1, <1>2, <2>2, <3>3, HolderIs
    <3>6. Targets(S, LastLab(pr, v)) = {Close(v)}
      <4>1. Targets(S, LastLab(prog, v)) = {IF Kind(v) \in Loops \cup {"arm"} THEN Close(v) + 1 ELSE Close(v)}
        BY <1>1, <3>4, LastTarget
      <4>2. "case" \notin Loops \cup {"arm"}
        BY DEF Loops
      <4> QED BY <1>1, <3>4, <4>1, <4>2
    <3>7. Ways(S, n) = {Close(v)}
      BY <1>1, <2>1, <3>2, <3>6 DEF Ways
    <3>8. Kind(o) \notin Loops
      BY <1>5, <2>6
    <3>9. n < Close(v)
      <4>1. PICK k : k = Len(S[n]) - 1
        OBVIOUS
      <4>2. k \in 1 .. Len(S[n]) /\ k # Len(S[n]) /\ v = S[n][k].o
        <5>1. n \in 1 .. Len(pr) /\ pr[Owner(S, n)].k = "arm"
          BY <1>1, <1>2, <1>3, <2>2, <2>6
        <5>2. Len(S[n]) - 1 \in 1 .. Len(S[n])
          BY <1>2, <1>10, <5>1, CaseAround
        <5>3. Len(S[n]) \in Nat
          BY <1>1, <1>2, OnStack
        <5> QED BY <3>1, <4>1, <5>2, <5>3 DEF Over
      <4>3. Close(S[n][k].o) \in n .. Len(prog) /\ (Close(S[n][k].o) = n => k = Len(S[n]))
        BY <1>1, <1>2, <4>2, CloseBehind
      <4>4. Close(v) \in n .. Len(prog) /\ Close(v) # n
        BY <4>2, <4>3
      <4> QED BY <1>2, <4>4
    <3> QED BY <2>4, <2>6, <3>5, <3>7, <3>8, <3>9
  <2>7. CASE Kind(o) \notin Loops \cup {"arm"}
    <3>1. ~Jumps(pr, S, n)
      BY <1>3, <1>10, <2>2, <2>7 DEF Jumps
    <3>2. Ways(S, n) = {n + 1}
      BY <1>1, <2>1, <3>1 DEF Ways
    <3> QED BY <1>2, <2>4, <2>7, <3>2
  <2> QED BY <2>5, <2>6, <2>7
<1>11. CASE pr[n].k \notin {"exit", "if", "else", "while", "for", "arm", "end"}
  <2>1. ~Jumps(pr, S, n) /\ ~Branches(pr, n)
    BY <1>11 DEF Jumps, Branches
  <2>2. Ways(S, n) = {n + 1}
    BY <1>1, <2>1 DEF Ways
  <2>3. Ctl!Follow(n) = {n + 1}
    BY <1>2, <1>4, <1>11 DEF Ctl!Follow
  <2> QED BY <1>2, <2>2, <2>3
<1>12. pr[n].k = "arm" => pr[n].y # None
  BY <1>1, <1>2 DEF Silent
<1> QED BY <1>6, <1>7, <1>8, <1>9, <1>10, <1>11, <1>12

LEMMA Exactly ==
  ASSUME NEW S, Compiles(S), NEW n \in Nodes, ~Silent(n)
  PROVE  FlowNodes(n) = Ctl!Successors(n)
<1>1. PICK N, m, c, W : N = Len(prog) /\ m = Len(code) /\ c = code /\ W = Ways(S, n)
  OBVIOUS
<1>2. N \in Nat /\ n \in 1 .. N /\ Nodes = 1 .. N /\ Len(prog) \in Nat /\ n \in 1 .. Len(prog)
  BY <1>1, CodeFacts DEF Nodes
<1>3. W \subseteq 1 .. N + 1
  <2>1. n + 1 \in 1 .. N + 1
    BY <1>2
  <2> QED BY <1>1, <2>1 DEF Ways, Targets
<1>4. Ctl!Successors(n) = {Here(w) : w \in W}
  <2>1. Ctl!Follow(n) = W
    BY <1>1, <1>2, FollowIs
  <2>2. \A i : Ctl!Here(i) = Here(i)
    BY CtlBody
  <2> QED BY <2>1, <2>2 DEF Ctl!Successors
<1>5. Here(n) = n
  BY <1>2, HereSelf
<1>6. ASSUME NEW w \in W
      PROVE  Here(w) # n
  <2>1. n < w \/ (w \in 1 .. n - 1 /\ Kind(w) \in Loops)
    BY <1>1, <1>2, FollowIs
  <2>2. w \in 1 .. N + 1
    BY <1>3
  <2>3. CASE n < w
    <3>1. Here(w) \in w .. N + 1
      BY <1>1, <1>2, <2>2, HereIs
    <3> QED BY <1>2, <2>2, <2>3, <3>1
  <2>4. CASE w \in 1 .. n - 1 /\ Kind(w) \in Loops
    <3>1. w \in 1 .. Len(prog) /\ ~Silent(w)
      BY <1>2, <2>4, Loud
    <3>2. Here(w) = w
      BY <1>2, <3>1, HereSelf
    <3> QED BY <1>2, <2>4, <3>2
  <2> QED BY <2>1, <2>3, <2>4
<1>7. PICK own : own = {p \in 1 .. m : c[p].at \in Nodes /\ Here(c[p].at) = n}
  OBVIOUS
<1>8. FlowNodes(n) = {Here(c[q].at) : q \in UNION {Flow(p) : p \in own}} \ {n}
  BY <1>1, <1>7 DEF FlowNodes
<1>9. ASSUME NEW h \in FlowNodes(n)
      PROVE  h \in {Here(w) : w \in W}
  <2>1. PICK p \in own : \E q \in Flow(p) : h = Here(c[q].at) /\ h # n
    BY <1>8
  <2>2. p \in 1 .. m /\ c[p].at \in 1 .. N /\ Here(c[p].at) = n
    BY <1>2, <1>7
  <2>3. c[p].at # 0
    BY <2>2
  <2>4. PICK q \in Flow(p) : h = Here(c[q].at) /\ h # n
    BY <2>1
  <2>5. \E w \in Ways(S, Here(c[p].at)) : Here(c[q].at) = Here(w)
    BY <1>1, <2>2, <2>3, <2>4, FlowIs
  <2> QED BY <1>1, <2>2, <2>4, <2>5
<1>10. ASSUME NEW w \in W
       PROVE  Here(w) \in FlowNodes(n)
  <2>1. PICK p \in 1 .. m : c[p].at = n /\ \E q \in Flow(p) : Here(c[q].at) = Here(w)
    BY <1>1, <1>2, WaysTaken
  <2>2. p \in own
    BY <1>5, <1>7, <2>1
  <2> QED BY <1>6, <1>8, <2>1, <2>2
<1> QED BY <1>4, <1>9, <1>10

LEMMA CompiledIs ==
  ASSUME ControlInv, lowered = "ok"
  PROVE  \E S : Compiles(S)
<1>1. verdict = "ok"
  BY DEF ControlInv, PassesInv, Unbegun
<1>2. PICK S : Through(S)
  BY <1>1 DEF ControlInv
<1> QED BY <1>2 DEF Through, Compiles

\* The emitted code of every accepted body has exactly the paths its statements
\* promise: each jump of lower_stmt (ir.c 503-776) leads where the statement it
\* was made for may go on, and no statement runs into another.
THEOREM PathsAreExact == Spec => []ControlExact
<1>1. ControlInv => ControlExact
  <2> SUFFICES ASSUME ControlInv, lowered = "ok", NEW n \in Nodes, ~Silent(n)
               PROVE  FlowNodes(n) = Ctl!Successors(n)
    BY DEF ControlExact, Compiled
  <2>1. PICK S : Compiles(S)
    BY CompiledIs
  <2> QED BY <2>1, Exactly
<1> QED BY <1>1, ControlInvariance, PTL

-----------------------------------------------------------------------------
(* The code implements the statements *)

\* The node control is at.
HereIn(pr, a) == Min({q \in a .. Len(pr) + 1 : q \in 1 .. Len(pr) => ~Quiet(pr[q])})
AtIn(pr, c, e, p) == IF e = "ok" /\ p \in 1 .. Len(c) /\ c[p].at # 0 THEN HereIn(pr, c[p].at) ELSE 0

LEMMA HereSays == \A a : Here(a) = HereIn(prog, a)
BY DEF Here, HereIn, Nodes, Silent, Quiet, Kind

LEMMA AtSays ==
  (IF Running /\ code[pc].at # 0 THEN Here(code[pc].at) ELSE 0) = AtIn(prog, code, emitted, pc)
BY HereSays DEF AtIn, Running

\* The first instruction is at the first node, or copies a parameter.
LEMMA FirstIs ==
  ASSUME NEW S, Compiles(S), code[1].at # 0
  PROVE  Here(code[1].at) = Here(1)
<1>1. PICK N, m, c, h, a : N = Len(prog) /\ m = Len(code) /\ c = code /\ h = Here(1) /\ a = code[1].at
  OBVIOUS
<1>2. /\ N \in Nat /\ m \in Nat \ {0} /\ \A k \in 1 .. m : c[k].at \in 0 .. N + 1
      /\ \A k, j \in 1 .. m : k < j => c[k].at <= c[j].at
  BY <1>1, CodeFacts
<1>3. 1 \in 1 .. N + 1 /\ 1 \in 1 .. m
  BY <1>2
<1>4. h \in 1 .. N + 1 /\ (h \in Nodes => ~Silent(h))
  BY <1>1, <1>2, <1>3, HereIs
<1>5. PICK r \in 1 .. m : c[r].at = h
  BY <1>1, <1>4, CodeAt
<1>6. c[1].at <= c[r].at
  <2>1. CASE r = 1
    BY <1>2, <2>1
  <2>2. CASE r # 1
    <3>1. 1 < r
      BY <1>2, <2>2
    <3> QED BY <1>2, <1>3, <3>1
  <2> QED BY <2>1, <2>2
<1>7. a \in 1 .. h
  BY <1>1, <1>2, <1>3, <1>4, <1>5, <1>6
<1> QED BY <1>1, <1>2, <1>3, <1>7, HereMeets

\* A step of the running code.
LEMMA RunSteps ==
  ASSUME ControlInv, Run, NEW a, NEW b, a = AtIn(prog, code, emitted, pc), b = AtIn(prog, code, emitted, pc')
  PROVE  \/ a = 0 /\ (b = 0 \/ b = Here(1))
         \/ a \in Nodes /\ b \in Ctl!Successors(a)
         \/ b = a
<1>1. emitted = "ok" /\ pc \in 1 .. Len(code) /\ pc' \in Flow(pc)
  BY DEF Run, Running
<1>2. PICK S : Compiles(S)
  <2>1. lowered = "ok"
    BY <1>1 DEF ControlInv, PassesInv
  <2> QED BY <2>1, CompiledIs
<1>3. PICK c, N, p, q : c = code /\ N = Len(prog) /\ p = pc /\ q = pc'
  OBVIOUS
<1>4. /\ q \in 1 .. Len(code)
      /\ code[p].at = 0 => code[q].at = 0 \/ (code[q].at \in 1 .. Len(prog) + 1 /\ Here(code[q].at) = Here(1))
      /\ code[p].at # 0 =>
           /\ code[q].at \in 1 .. Len(prog) + 1
           /\ \/ Here(code[q].at) = Here(code[p].at)
              \/ /\ Here(code[p].at) \in Nodes
                 /\ \E w \in Ways(S, Here(code[p].at)) : Here(code[q].at) = Here(w)
  BY <1>1, <1>2, <1>3, FlowIs
<1>5. /\ a = IF c[p].at # 0 THEN Here(c[p].at) ELSE 0
      /\ b = IF c[q].at # 0 THEN Here(c[q].at) ELSE 0
  BY <1>1, <1>3, <1>4, HereSays DEF AtIn
<1>6. CASE c[p].at = 0
  BY <1>3, <1>4, <1>5, <1>6
<1>7. CASE c[p].at # 0
  <2>1. c[q].at # 0 /\ a = Here(c[p].at) /\ b = Here(c[q].at)
    <3>1. c[q].at \in 1 .. N + 1 /\ N \in Nat
      BY <1>2, <1>3, <1>4, <1>7, CodeFacts
    <3>2. c[q].at # 0
      BY <3>1
    <3> QED BY <1>5, <1>7, <3>2
  <2>2. CASE b = a
    BY <2>2
  <2>3. CASE b # a
    <3>1. a \in Nodes /\ \E w \in Ways(S, a) : b = Here(w)
      BY <1>3, <1>4, <1>7, <2>1, <2>3
    <3>2. a \in 1 .. Len(prog) /\ ~Silent(a)
      <4>1. Len(prog) \in Nat /\ c[p].at \in 0 .. Len(prog) + 1
        BY <1>1, <1>2, <1>3, CodeFacts
      <4>2. c[p].at \in 1 .. Len(prog) + 1
        BY <1>7, <4>1
      <4> QED BY <2>1, <3>1, <4>1, <4>2, HereIs DEF Nodes
    <3>3. Ctl!Follow(a) = Ways(S, a)
      BY <1>2, <3>2, FollowIs
    <3>4. b \in Ctl!Successors(a)
      BY <3>1, <3>3, CtlBody DEF Ctl!Successors
    <3> QED BY <3>1, <3>4
  <2> QED BY <2>2, <2>3
<1> QED BY <1>6, <1>7

LEMMA Idle ==
  ASSUME NEW pr, NEW c, NEW e, NEW p, e # "ok"
  PROVE  AtIn(pr, c, e, p) = 0
BY DEF AtIn

LEMMA StepsIn ==
  ASSUME ControlInv, [Next]_vars, NEW a, NEW b,
         a = AtIn(prog, code, emitted, pc), b = AtIn(prog', code', emitted', pc')
  PROVE  \/ a = 0 /\ b = 0
         \/ prog' = prog /\ a = 0 /\ b = Here(1)
         \/ prog' = prog /\ a \in Nodes /\ b \in Ctl!Successors(a)
         \/ prog' = prog /\ b = a
<1>1. PassesInv
  BY DEF ControlInv
<1>2. CASE Parse \/ Check
  <2>1. emitted # "ok" /\ emitted' # "ok"
    BY <1>1, <1>2, Early
  <2> QED BY <2>1, Idle
<1>3. CASE Lower
  <2>1. lowered # "ok"
    BY <1>3, NodeSteps DEF Lower, LowerNext, LowerProc, LowerRet, LowerNode
  <2>2. emitted # "ok" /\ emitted' # "ok"
    BY <1>1, <1>3, <2>1 DEF PassesInv, Lower
  <2> QED BY <2>2, Idle
<1>4. CASE Emit
  <2>1. /\ lowered = "ok" /\ emitted = "none" /\ prog' = prog /\ code' = code
        /\ emitted' = "ok" => pc' = 1
        /\ emitted' \in {"ok", "abort"}
    BY <1>4 DEF Emit, parseVars
  <2>2. a = 0
    BY <2>1, Idle
  <2>3. CASE emitted' = "abort"
    <3>1. emitted' # "ok"
      BY <2>3
    <3> QED BY <2>2, <3>1, Idle
  <2>4. CASE emitted' = "ok"
    <3>1. PICK S : Compiles(S)
      BY <2>1, CompiledIs
    <3>2. 1 \in 1 .. Len(code)
      BY <3>1, CodeFacts
    <3>3. b = IF code[1].at # 0 THEN Here(code[1].at) ELSE 0
      BY <2>1, <2>4, <3>2, HereSays DEF AtIn
    <3> QED BY <2>1, <2>2, <3>1, <3>3, FirstIs
  <2> QED BY <2>1, <2>3, <2>4
<1>5. CASE Run
  <2>1. prog' = prog /\ code' = code /\ emitted' = emitted
    BY <1>5 DEF Run, parseVars, lowerVars
  <2>2. b = AtIn(prog, code, emitted, pc')
    BY <2>1
  <2> QED BY <1>5, <2>1, <2>2, RunSteps
<1>6. CASE Halt \/ UNCHANGED vars
  BY <1>6 DEF Halt, vars, parseVars, lowerVars
<1> QED BY <1>2, <1>3, <1>4, <1>5, <1>6 DEF Next

\* Running the emitted code is an execution of the statements (Structured): a
\* step of the code stays in a statement or moves to one that may follow it,
\* until the procedure returns.
THEOREM CodeImplements == Spec => Implements
<1>1. Init => Ctl!Init
  <2>1. Init => ~Running
    BY DEF Init, Running
  <2> QED BY <2>1 DEF Ctl!Init
<1>2. ControlInv /\ [Next]_vars
        => [Ctl!Next]_<<prog, IF Running /\ code[pc].at # 0 THEN Here(code[pc].at) ELSE 0>>
  <2> SUFFICES ASSUME ControlInv, [Next]_vars
               PROVE  [Ctl!Next]_<<prog, IF Running /\ code[pc].at # 0 THEN Here(code[pc].at) ELSE 0>>
    OBVIOUS
  <2>1. PICK a, b : a = AtIn(prog, code, emitted, pc) /\ b = AtIn(prog', code', emitted', pc')
    OBVIOUS
  <2>2. (IF Running /\ code[pc].at # 0 THEN Here(code[pc].at) ELSE 0) = a
    BY <2>1, AtSays
  <2>3. (IF Running /\ code[pc].at # 0 THEN Here(code[pc].at) ELSE 0)' = b
    <3>1. ((IF Running /\ code[pc].at # 0 THEN Here(code[pc].at) ELSE 0) = AtIn(prog, code, emitted, pc))'
      BY AtSays, PTL
    <3> QED BY <2>1, <3>1
  <2>4. \/ a = 0 /\ b = 0
        \/ prog' = prog /\ a = 0 /\ b = Here(1)
        \/ prog' = prog /\ a \in Nodes /\ b \in Ctl!Successors(a)
        \/ prog' = prog /\ b = a
    BY <2>1, StepsIn
  <2>5. CASE a = 0 /\ b = 0
    BY <2>2, <2>3, <2>5 DEF Ctl!Next, Ctl!Given
  <2>6. CASE prog' = prog /\ a = 0 /\ b = Here(1)
    BY <2>2, <2>3, <2>6, CtlBody DEF Ctl!Next, Ctl!Enter
  <2>7. CASE prog' = prog /\ a \in Nodes /\ b \in Ctl!Successors(a)
    BY <2>2, <2>3, <2>7, CtlBody DEF Ctl!Next, Ctl!Step
  <2>8. CASE prog' = prog /\ b = a
    BY <2>2, <2>3, <2>8
  <2> QED BY <2>4, <2>5, <2>6, <2>7, <2>8
<1> QED BY <1>1, <1>2, ControlInvariance, PTL DEF Spec, Implements, Ctl!Spec
=============================================================================
