---------------------------- MODULE ReadsProofs ----------------------------
(***************************************************************************)
(* That every word the emitted code reads was last written for the         *)
(* declaration it is meant to read.                                        *)
(*                                                                         *)
(* A word is good to read at a node when the node stands where the         *)
(* declaration the word was written for is visible: Covers.  The first     *)
(* part is about the blocks alone.  The second shows that every operand    *)
(* the lowering emits has a writer that covers it, the third that no path  *)
(* of the code goes round such a writer, and the fourth that nothing else  *)
(* writes its word.                                                        *)
(***************************************************************************)
EXTENDS ControlProofs

-----------------------------------------------------------------------------
(* What is visible where *)

\* The blocks of s are the outer ones of t.
Within(s, t) == Len(s) <= Len(t) /\ \A k \in 1 .. Len(s) : s[k] = t[k]

\* The blocks control has not left at node n: it has left the block of an if, a
\* case or an arm when it comes to its end, that of a loop only behind its end.
Held(pr, S, n) ==
  IF n \in 1 .. Len(pr) /\ pr[n].k = "end" /\ pr[Owner(S, n)].k \notin Loops THEN S[n + 1] ELSE S[n]

\* What node j has declared, or computed, can be read at node n.
Covers(pr, S, j, n) == j = n \/ (j < n /\ Within(S[j + 1], Held(pr, S, n)))

LEMMA WithinSelf == \A s : Len(s) \in Nat => Within(s, s)
BY DEF Within

LEMMA WithinTrans ==
  ASSUME NEW s, NEW t, NEW u, Len(s) \in Nat, Len(t) \in Nat, Len(u) \in Nat, Within(s, t), Within(t, u)
  PROVE  Within(s, u)
BY DEF Within

\* The stacks before and behind a node, block by block.
LEMMA Blockwise ==
  ASSUME NEW pr, NEW S, Nested(pr, S)
  PROVE  /\ Len(pr) \in Nat
         /\ \A i \in 1 .. Len(pr) + 1 :
              Len(S[i]) \in Nat /\ \A k \in 1 .. Len(S[i]) : S[i][k].b \in Nat /\ S[i][k].b < i
<1>1. Len(pr) \in Nat
  BY DEF Nested
<1>2. ASSUME NEW i \in 1 .. Len(pr) + 1
      PROVE  Len(S[i]) \in Nat /\ \A k \in 1 .. Len(S[i]) : S[i][k].b \in Nat /\ S[i][k].b < i
  <2>1. PICK s : s = S[i]
    OBVIOUS
  <2>2. s \in Seq(Below(i - 1))
    BY <2>1 DEF Nested
  <2>3. Len(s) \in Nat /\ \A k \in 1 .. Len(s) : s[k] \in Below(i - 1)
    BY <2>2
  <2>4. \A x \in Below(i - 1) : x.b \in 1 .. i - 1
    BY DEF Below
  <2>5. \A k \in 1 .. Len(s) : s[k].b \in 1 .. i - 1
    BY <2>3, <2>4
  <2>6. i \in Nat \ {0}
    OBVIOUS
  <2> QED BY <2>1, <2>3, <2>5, <2>6
<1> QED BY <1>1, <1>2

\* A node opens a block, begins the second part of one, ends one or leaves them.
Passed(pr, S, i) ==
  /\ pr[i].k \in Openers =>
       /\ Len(S[i + 1]) = Len(S[i]) + 1 /\ S[i + 1][Len(S[i]) + 1] = [o |-> i, b |-> i]
       /\ \A k \in 1 .. Len(S[i]) : S[i + 1][k] = S[i][k]
  /\ pr[i].k = "else" =>
       /\ Len(S[i]) > 0 /\ Len(S[i + 1]) = Len(S[i]) /\ S[i + 1][Len(S[i])].b = i
       /\ \A k \in 1 .. Len(S[i]) - 1 : S[i + 1][k] = S[i][k]
  /\ pr[i].k = "end" =>
       /\ Len(S[i]) > 0 /\ Len(S[i + 1]) = Len(S[i]) - 1
       /\ \A k \in 1 .. Len(S[i]) - 1 : S[i + 1][k] = S[i][k]
  /\ pr[i].k \notin Openers \cup {"else", "end"} => S[i + 1] = S[i]

LEMMA Passing ==
  ASSUME NEW pr, NEW S, Nested(pr, S), NEW i \in 1 .. Len(pr)
  PROVE  Passed(pr, S, i)
<1> USE DEF Passed
<1>1. PICK s, t : s = S[i] /\ t = S[i + 1]
  OBVIOUS
<1>2. /\ s \in Seq(Below(i - 1)) /\ t \in Seq(Below(i)) /\ Fits(pr, s, i)
      /\ pr[i].k \in Openers => t = Append(s, [o |-> i, b |-> i])
      /\ pr[i].k = "else" => t = Append(Front(s), [o |-> Last(s).o, b |-> i])
      /\ pr[i].k = "end" => t = Front(s)
      /\ pr[i].k \notin Openers \cup {"else", "end"} => t = s
  <2>1. Stacked(pr, S, i)
    BY StackAt
  <2> QED BY <1>1, <2>1 DEF Stacked
<1>3. CASE pr[i].k \in Openers
  <2>1. PICK x : x = [o |-> i, b |-> i]
    OBVIOUS
  <2>2. Len(t) = Len(s) + 1 /\ t[Len(s) + 1] = x /\ \A k \in 1 .. Len(s) : t[k] = s[k]
    <3>1. Sequence(s) /\ t = Append(s, x)
      BY <1>2, <1>3, <2>1 DEF Sequence
    <3> QED BY <3>1, Appends
  <2>3. pr[i].k # "else" /\ pr[i].k # "end"
    BY <1>3, KindsApart
  <2> QED BY <1>1, <1>3, <2>1, <2>2, <2>3
<1>4. CASE pr[i].k = "else"
  <2>1. s # <<>>
    BY <1>2, <1>4 DEF Fits
  <2>2. PICK x, f, B : x = [o |-> Last(s).o, b |-> i] /\ f = Front(s) /\ B = Below(i - 1)
    OBVIOUS
  <2>3. f \in Seq(B) /\ Len(f) = Len(s) - 1 /\ (\A k \in 1 .. Len(s) - 1 : f[k] = s[k]) /\ Len(s) \in Nat \ {0}
    BY <1>2, <2>1, <2>2, FrontOf
  <2>4. t = Append(f, x) /\ x.b = i
    BY <1>2, <1>4, <2>2
  <2>5. Len(t) = Len(f) + 1 /\ t[Len(f) + 1] = x /\ \A k \in 1 .. Len(f) : t[k] = f[k]
    BY <2>3, <2>4
  <2>6. pr[i].k \notin Openers /\ pr[i].k # "end"
    BY <1>4, KindsApart
  <2> QED BY <1>1, <1>4, <2>3, <2>4, <2>5, <2>6
<1>5. CASE pr[i].k = "end"
  <2>1. s # <<>>
    BY <1>2, <1>5 DEF Fits
  <2>2. PICK f, B : f = Front(s) /\ B = Below(i - 1)
    OBVIOUS
  <2>3. f \in Seq(B) /\ Len(f) = Len(s) - 1 /\ (\A k \in 1 .. Len(s) - 1 : f[k] = s[k]) /\ Len(s) \in Nat \ {0}
    BY <1>2, <2>1, <2>2, FrontOf
  <2>4. pr[i].k \notin Openers /\ pr[i].k # "else"
    BY <1>5, KindsApart
  <2>5. t = f
    BY <1>2, <1>5, <2>2
  <2>6. Len(s) > 0 /\ Len(t) = Len(s) - 1 /\ \A k \in 1 .. Len(s) - 1 : t[k] = s[k]
    BY <2>3, <2>5
  <2> QED BY ONLY <1>1, <1>5, <2>4, <2>6
<1>6. CASE pr[i].k \notin Openers \cup {"else", "end"}
  <2>1. pr[i].k \notin Openers /\ pr[i].k # "else" /\ pr[i].k # "end" /\ S[i + 1] = S[i]
    BY <1>1, <1>2, <1>6
  <2> QED BY ONLY <2>1
<1> QED BY <1>3, <1>4, <1>5, <1>6

\* What is visible behind a node, and was declared before it, is visible at it.
LEMMA Backward ==
  ASSUME NEW pr, NEW S, Nested(pr, S), NEW m \in 1 .. Len(pr), NEW j \in Nat, j < m, Within(S[j + 1], S[m + 1])
  PROVE  Within(S[j + 1], S[m])
<1>1. PICK u, s, t : u = S[j + 1] /\ s = S[m] /\ t = S[m + 1]
  OBVIOUS
<1>9. /\ pr[m].k \in Openers =>
           Len(t) = Len(s) + 1 /\ t[Len(s) + 1] = [o |-> m, b |-> m] /\ \A k \in 1 .. Len(s) : t[k] = s[k]
      /\ pr[m].k = "else" =>
           Len(s) > 0 /\ Len(t) = Len(s) /\ t[Len(s)].b = m /\ \A k \in 1 .. Len(s) - 1 : t[k] = s[k]
      /\ pr[m].k = "end" =>
           Len(s) > 0 /\ Len(t) = Len(s) - 1 /\ \A k \in 1 .. Len(s) - 1 : t[k] = s[k]
      /\ pr[m].k \notin Openers \cup {"else", "end"} => t = s
  <2>1. Passed(pr, S, m)
    BY Passing
  <2> QED BY ONLY <1>1, <2>1 DEF Passed
<1>2. /\ Len(u) \in Nat /\ Len(s) \in Nat /\ Len(t) \in Nat
      /\ \A k \in 1 .. Len(u) : u[k].b \in Nat /\ u[k].b < j + 1
  <2>1. Len(pr) \in Nat
    BY Blockwise
  <2>2. j + 1 \in 1 .. Len(pr) + 1 /\ m \in 1 .. Len(pr) + 1 /\ m + 1 \in 1 .. Len(pr) + 1
    BY <2>1
  <2> QED BY <1>1, <2>2, Blockwise
<1>3. Len(u) <= Len(t) /\ \A k \in 1 .. Len(u) : u[k] = t[k]
  BY <1>1 DEF Within
<1>4. SUFFICES Len(u) <= Len(s) /\ \A k \in 1 .. Len(u) : u[k] = s[k]
  BY <1>1 DEF Within
<1>5. CASE pr[m].k \in Openers
  <2>1. Len(t) = Len(s) + 1 /\ t[Len(s) + 1] = [o |-> m, b |-> m] /\ \A k \in 1 .. Len(s) : t[k] = s[k]
    BY <1>5, <1>9
  <2>2. t[Len(s) + 1].b = m
    BY <2>1
  <2>3. Len(u) # Len(s) + 1
    <3>1. SUFFICES ASSUME Len(u) = Len(s) + 1 PROVE FALSE
      OBVIOUS
    <3>2. Len(u) \in 1 .. Len(u)
      BY <1>2, <3>1
    <3>3. u[Len(u)].b = m /\ u[Len(u)].b < j + 1
      BY <1>2, <1>3, <2>2, <3>1, <3>2
    <3> QED BY <3>3
  <2> QED BY <1>2, <1>3, <2>1, <2>3
<1>6. CASE pr[m].k = "else"
  <2>1. Len(s) > 0 /\ Len(t) = Len(s) /\ t[Len(s)].b = m /\ \A k \in 1 .. Len(s) - 1 : t[k] = s[k]
    BY <1>6, <1>9
  <2>3. Len(u) # Len(s)
    <3>1. SUFFICES ASSUME Len(u) = Len(s) PROVE FALSE
      OBVIOUS
    <3>2. Len(u) \in 1 .. Len(u)
      BY <1>2, <2>1, <3>1
    <3>3. u[Len(u)].b = m /\ u[Len(u)].b < j + 1
      BY <1>2, <1>3, <2>1, <3>1, <3>2
    <3> QED BY <3>3
  <2> QED BY <1>2, <1>3, <2>1, <2>3, SMTT(30)
<1>7. CASE pr[m].k = "end"
  <2>1. Len(s) > 0 /\ Len(t) = Len(s) - 1 /\ \A k \in 1 .. Len(s) - 1 : t[k] = s[k]
    BY <1>7, <1>9
  <2> QED BY <1>2, <1>3, <2>1
<1>8. CASE pr[m].k \notin Openers \cup {"else", "end"}
  <2>1. t = s
    BY <1>8, <1>9
  <2> QED BY <1>3, <2>1
<1> QED BY <1>5, <1>6, <1>7, <1>8

\* What is visible at a node was visible all the way to it.
LEMMA Between ==
  ASSUME NEW pr, NEW S, Nested(pr, S), NEW n \in 1 .. Len(pr) + 1, NEW m \in 1 .. n, NEW j \in Nat, j < m,
         Within(S[j + 1], S[n])
  PROVE  Within(S[j + 1], S[m])
<1> DEFINE N == {k \in m .. n : ~Within(S[j + 1], S[k])}
<1>1. SUFFICES ASSUME N # {} PROVE FALSE
  <2>1. m \in m .. n
    OBVIOUS
  <2> QED BY <2>1
<1>2. PICK g \in N : \A k \in N : k <= g
  <2>1. N \in SUBSET Nat /\ n \in Nat /\ \A k \in N : k <= n
    OBVIOUS
  <2> HIDE DEF N
  <2> QED BY <1>1, <2>1, Greatest
<1>3. Len(pr) \in Nat
  BY Blockwise
<1>4. g # n /\ g + 1 \in m .. n /\ g \in 1 .. Len(pr) /\ j < g
  BY <1>2, <1>3
<1>5. Within(S[j + 1], S[g + 1])
  <2>1. g + 1 \notin N
    BY <1>2, <1>4
  <2> QED BY <1>4, <2>1
<1>6. Within(S[j + 1], S[g])
  BY <1>4, <1>5, Backward
<1> QED BY <1>2, <1>6

\* In a block more blocks are open than around it; behind it, those around it.
LEMMA Region ==
  ASSUME NEW S, Nested(prog, S), S[Len(prog) + 1] = <<>>, NEW o \in 1 .. Len(prog), Kind(o) \in Openers
  PROVE  /\ Close(o) \in o + 1 .. Len(prog) /\ Kind(Close(o)) = "end" /\ Owner(S, Close(o)) = o
         /\ S[Close(o) + 1] = S[o]
         /\ \A m \in o + 1 .. Close(o) : Len(S[o]) < Len(S[m]) /\ S[m][Len(S[o]) + 1].o = o
<1>1. PICK e : e = Close(o)
  OBVIOUS
<1>2. e \in o + 1 .. Len(prog) /\ Kind(e) = "end" /\ Last(S[e]).o = o /\ Len(S[e]) = Len(S[o]) + 1
  BY <1>1, HasClose
<1>3. e \in 1 .. Len(prog) /\ e \in 1 .. Len(prog) + 1 /\ o \in 1 .. Len(prog) + 1
  BY <1>2, Blockwise
<1>4. S[e] # <<>> /\ Len(S[o]) \in Nat /\ S[e][Len(S[o]) + 1] = Last(S[e])
  <2>1. Len(S[e]) \in Nat /\ Len(S[o]) \in Nat
    BY <1>3, Blockwise
  <2>2. Kind(e) = "end" => Len(S[e]) > 0 /\ Last(S[e]) = S[e][Len(S[e])]
    BY <1>3, BlockAt
  <2> QED BY <1>2, <2>1, <2>2
<1>5. S[e + 1] = S[o]
  <2>1. S[o] = Front(S[e])
    <3>1. Opened(prog, S, e)
      BY <1>3, OpenedAll
    <3> QED BY <1>2, <1>4, <3>1 DEF Opened
  <2>2. S[e + 1] = Front(S[e])
    <3>1. Stacked(prog, S, e)
      BY <1>3, StackAt
    <3> QED BY <1>2, <3>1 DEF Stacked, Kind
  <2> QED BY <2>1, <2>2
<1>6. \A m \in o + 1 .. e : Len(S[o]) + 1 <= Len(S[m]) /\ S[m][Len(S[o]) + 1].o = o
  <2>1. Blocked(prog, S, e)
    BY <1>3, BlockedAll
  <2>2. Len(S[o]) + 1 \in 1 .. Len(S[e]) /\ S[e][Len(S[o]) + 1].o = o
    BY <1>2, <1>4
  <2> QED BY <2>1, <2>2 DEF Blocked
<1>7. \A m \in o + 1 .. e : Len(S[o]) < Len(S[m]) /\ S[m][Len(S[o]) + 1].o = o
  <2>1. TAKE m \in o + 1 .. e
  <2>2. m \in 1 .. Len(prog) + 1
    BY <1>2, Blockwise
  <2>3. Len(S[m]) \in Nat
    BY <2>2, Blockwise
  <2> QED BY <1>4, <1>6, <2>3
<1> QED BY <1>1, <1>2, <1>5, <1>7 DEF Owner

\* What is held at a node is open there.
LEMMA HeldWithin ==
  ASSUME NEW pr, NEW S, Nested(pr, S), NEW n \in 1 .. Len(pr) + 1
  PROVE  /\ Len(Held(pr, S, n)) \in Nat /\ Within(Held(pr, S, n), S[n])
         /\ n \in 1 .. Len(pr) /\ pr[n].k # "end" => Held(pr, S, n) = S[n]
         /\ n \in 1 .. Len(pr) /\ pr[n].k = "end" /\ pr[Owner(S, n)].k \notin Loops => Held(pr, S, n) = S[n + 1]
         /\ Held(pr, S, n) = S[n] \/ (n \in 1 .. Len(pr) /\ Held(pr, S, n) = S[n + 1])
<1>1. Len(pr) \in Nat /\ Len(S[n]) \in Nat /\ Within(S[n], S[n])
  BY Blockwise, WithinSelf
<1>2. CASE n \in 1 .. Len(pr) /\ pr[n].k = "end" /\ pr[Owner(S, n)].k \notin Loops
  <2>1. Held(pr, S, n) = S[n + 1]
    BY <1>2 DEF Held
  <2>2. n + 1 \in 1 .. Len(pr) + 1 /\ n \in 1 .. Len(pr)
    BY <1>1, <1>2
  <2>3. Len(S[n + 1]) \in Nat
    BY <2>2, Blockwise
  <2>4. Len(S[n]) > 0 /\ Len(S[n + 1]) = Len(S[n]) - 1 /\ \A k \in 1 .. Len(S[n]) - 1 : S[n + 1][k] = S[n][k]
    <3>1. Passed(pr, S, n)
      BY <2>2, Passing
    <3> QED BY <1>2, <3>1 DEF Passed
  <2>5. Within(S[n + 1], S[n])
    BY <1>1, <2>4 DEF Within
  <2> QED BY <1>2, <2>1, <2>2, <2>3, <2>5
<1>3. CASE ~(n \in 1 .. Len(pr) /\ pr[n].k = "end" /\ pr[Owner(S, n)].k \notin Loops)
  <2>1. Held(pr, S, n) = S[n]
    BY <1>3 DEF Held
  <2> QED BY <1>1, <1>3, <2>1
<1> QED BY <1>2, <1>3

\* What a node covers, it covers from the start.
LEMMA CoversBetween ==
  ASSUME NEW pr, NEW S, Nested(pr, S), NEW n \in 1 .. Len(pr) + 1, NEW m \in 1 .. n, NEW j \in Nat, j < m,
         Covers(pr, S, j, n)
  PROVE  Covers(pr, S, j, m) /\ Within(S[j + 1], S[m])
<1>1. Len(pr) \in Nat /\ \A i \in 1 .. Len(pr) + 1 : Len(S[i]) \in Nat
  BY Blockwise
<1>2. j + 1 \in 1 .. Len(pr) + 1 /\ m \in 1 .. Len(pr) + 1
  BY <1>1
<1>3. Within(S[j + 1], Held(pr, S, n))
  BY DEF Covers
<1>4. Within(S[j + 1], S[n])
  BY <1>1, <1>2, <1>3, HeldWithin, WithinTrans
<1>5. Within(S[j + 1], S[m])
  BY <1>4, Between
<1>6. CASE m = n
  BY <1>5, <1>6
<1>7. CASE m < n
  <2>1. Held(pr, S, m) = S[m] \/ (m \in 1 .. Len(pr) /\ Held(pr, S, m) = S[m + 1])
    BY <1>2, HeldWithin
  <2>2. m + 1 \in 1 .. n /\ j < m + 1
    BY <1>7
  <2>3. Within(S[j + 1], S[m + 1])
    BY <1>4, <2>2, Between
  <2> QED BY <1>5, <2>1, <2>3 DEF Covers
<1> QED BY <1>6, <1>7

\* The end of a block does not see what stands in it, nor does what is behind it.
LEMMA SkipsBlock ==
  ASSUME NEW S, Nested(prog, S), S[Len(prog) + 1] = <<>>, NEW o \in 1 .. Len(prog), Kind(o) \in Openers,
         NEW a, a = IF Kind(o) \in Loops \cup {"arm"} THEN Close(o) + 1 ELSE Close(o),
         NEW j \in o .. Close(o) - 1
  PROVE  ~Covers(prog, S, j, a)
<1>1. PICK e : e = Close(o)
  OBVIOUS
<1>2. /\ e \in o + 1 .. Len(prog) /\ Kind(e) = "end" /\ Owner(S, e) = o /\ S[e + 1] = S[o]
      /\ \A m \in o + 1 .. e : Len(S[o]) < Len(S[m])
  BY <1>1, Region
<1>3. Len(prog) \in Nat /\ \A i \in 1 .. Len(prog) + 1 : Len(S[i]) \in Nat
  BY Blockwise
<1>0. /\ o \in Nat \ {0} /\ e \in Nat /\ o < e /\ e <= Len(prog) /\ j \in Nat /\ o <= j /\ j < e
      /\ a = IF Kind(o) \in Loops \cup {"arm"} THEN e + 1 ELSE e
  <2>1. j \in o .. e - 1 /\ o \in 1 .. Len(prog)
    BY <1>1
  <2>2. e \in o + 1 .. Len(prog)
    BY <1>2
  <2> QED BY ONLY <1>1, <1>3, <2>1, <2>2, a = IF Kind(o) \in Loops \cup {"arm"} THEN Close(o) + 1 ELSE Close(o)
<1>4. Len(S[o]) < Len(S[j + 1]) /\ Len(S[o]) \in Nat /\ Len(S[j + 1]) \in Nat
  <2>1. j + 1 \in o + 1 .. e /\ j + 1 \in 1 .. Len(prog) + 1 /\ o \in 1 .. Len(prog) + 1
    BY ONLY <1>0, <1>3
  <2> QED BY <1>2, <1>3, <2>1
<1>5. Len(Held(prog, S, a)) <= Len(S[o])
  <2>1. CASE Kind(o) \in Loops \cup {"arm"}
    <3>1. a = e + 1 /\ a \in 1 .. Len(prog) + 1
      BY ONLY <1>0, <1>3, <2>1
    <3>2. Within(Held(prog, S, a), S[a])
      BY <3>1, HeldWithin
    <3>3. Len(Held(prog, S, a)) <= Len(S[a])
      BY ONLY <3>2 DEF Within
    <3> QED BY <1>2, <3>1, <3>3
  <2>2. CASE Kind(o) \notin Loops \cup {"arm"}
    <3>1. a = e /\ a \in 1 .. Len(prog) + 1 /\ a \in 1 .. Len(prog)
      BY ONLY <1>0, <1>3, <2>2
    <3>2. prog[a].k = "end" /\ prog[Owner(S, a)].k \notin Loops
      BY <1>2, <2>2, <3>1 DEF Kind
    <3>3. Held(prog, S, a) = S[a + 1]
      BY <3>1, <3>2, HeldWithin
    <3> QED BY <1>2, <1>4, <3>1, <3>3
  <2> QED BY <2>1, <2>2
<1>6. Len(Held(prog, S, a)) \in Nat /\ j # a
  <2>1. a \in 1 .. Len(prog) + 1 /\ j # a
    BY ONLY <1>0, <1>3
  <2> QED BY <2>1, HeldWithin
<1>7. ~Within(S[j + 1], Held(prog, S, a))
  BY ONLY <1>4, <1>5, <1>6 DEF Within
<1> QED BY ONLY <1>6, <1>7 DEF Covers

\* The second part of an if does not see what stands in the first.
LEMMA SkipsThen ==
  ASSUME NEW S, Nested(prog, S), S[Len(prog) + 1] = <<>>, NEW o \in 1 .. Len(prog), Kind(o) = "if",
         NEW e \in Else(o), NEW j \in o .. e - 1
  PROVE  ~Covers(prog, S, j, e + 1)
<1>1. Kind(o) \in Openers
  BY KindsApart
<1>2. e \in 1 .. Len(prog) /\ Kind(e) = "else" /\ Last(S[e]).o = o
  BY <1>1, ElseIs
<1>3. e \in o + 1 .. Close(o) /\ Close(o) \in o + 1 .. Len(prog)
  BY <1>1, Region DEF Else
<1>4. Len(prog) \in Nat /\ \A i \in 1 .. Len(prog) + 1 : Len(S[i]) \in Nat /\ \A k \in 1 .. Len(S[i]) : S[i][k].b \in Nat /\ S[i][k].b < i
  BY Blockwise
<1>0. /\ o \in Nat \ {0} /\ e \in Nat /\ o < e /\ e <= Close(o) /\ Close(o) \in Nat /\ Close(o) <= Len(prog)
      /\ j \in Nat /\ o <= j /\ j < e
  <2>1. PICK d : d = Close(o)
    OBVIOUS
  <2>2. e \in o + 1 .. d /\ d \in o + 1 .. Len(prog) /\ o \in 1 .. Len(prog) /\ j \in o .. e - 1
    BY <1>3, <2>1
  <2>3. o \in Nat \ {0} /\ e \in Nat /\ o < e /\ e <= d /\ d \in Nat /\ d <= Len(prog) /\ j \in Nat /\ o <= j /\ j < e
    BY ONLY <1>4, <2>2
  <2> QED BY ONLY <2>1, <2>3
<1>5. e \in 1 .. Len(prog) + 1 /\ e + 1 \in 1 .. Len(prog) + 1 /\ j + 1 \in 1 .. Len(prog) + 1 /\ o \in 1 .. Len(prog) + 1
  BY ONLY <1>0, <1>4
<1>6. PICK L : L = Len(S[o]) + 1
  OBVIOUS
<1>7. L \in Nat \ {0} /\ L <= Len(S[j + 1]) /\ L = Len(S[e])
  <2>1. \A m \in o + 1 .. Close(o) : Len(S[o]) < Len(S[m])
    BY <1>1, Region
  <2>2. j + 1 \in o + 1 .. Close(o)
    BY ONLY <1>0
  <2>3. Len(S[o]) \in Nat /\ Len(S[j + 1]) \in Nat /\ Len(S[e]) \in Nat
    BY <1>4, <1>5
  <2>4. Len(S[o]) < Len(S[j + 1])
    BY <2>1, <2>2
  <2>5. Len(S[e]) = Len(S[o]) + 1
    <3>1. Len(S[e]) > 0 /\ Last(S[e]) = S[e][Len(S[e])] /\ Blocked(prog, S, e)
      BY <1>2, BlockAt
    <3>2. Len(S[e]) \in 1 .. Len(S[e])
      BY <2>3, <3>1
    <3>3. Len(S[S[e][Len(S[e])].o]) = Len(S[e]) - 1
      BY <3>1, <3>2 DEF Blocked
    <3>4. S[e][Len(S[e])].o = o
      BY <1>2, <3>1
    <3> QED BY <2>3, <3>3, <3>4
  <2>6. \A x, y, z, w : x \in Nat /\ y \in Nat /\ z \in Nat /\ x < y /\ z = x + 1 /\ w = x + 1
                         => w \in Nat \ {0} /\ w <= y /\ w = z
    OBVIOUS
  <2> QED BY <1>6, <2>3, <2>4, <2>5, <2>6
<1>8. Len(S[e + 1]) = L /\ S[e + 1][L].b = e
  <2>1. Passed(prog, S, e)
    BY <1>2, Passing
  <2> QED BY <1>2, <1>7, <2>1 DEF Passed, Kind
<1>9. SUFFICES ASSUME Covers(prog, S, j, e + 1) PROVE FALSE
  OBVIOUS
<1>10. Within(S[j + 1], Held(prog, S, e + 1))
  BY ONLY <1>0, <1>9 DEF Covers
<1>11. Within(S[j + 1], S[e + 1])
  <2>1. Within(Held(prog, S, e + 1), S[e + 1]) /\ Len(Held(prog, S, e + 1)) \in Nat
    BY <1>5, HeldWithin
  <2> QED BY <1>4, <1>5, <1>10, <2>1, WithinTrans
<1>12. L \in 1 .. Len(S[j + 1])
  BY <1>4, <1>5, <1>7
<1>13. S[j + 1][L] = S[e + 1][L]
  BY <1>11, <1>12 DEF Within
<1>14. S[j + 1][L].b < j + 1
  BY <1>4, <1>5, <1>12
<1> QED BY ONLY <1>0, <1>8, <1>13, <1>14

-----------------------------------------------------------------------------
(* No path of the code goes round a writer *)

\* From node n the label leads out of a block n is in, or begins.
Leaves(S, n, lab) ==
  \E o \in 1 .. n : Kind(o) \in Openers /\ n < Close(o) /\ lab = LastLab(prog, o)

LEMMA LeavesAround ==
  ASSUME NEW S, Nested(prog, S), S[Len(prog) + 1] = <<>>, NEW n \in 1 .. Len(prog), NEW k \in 1 .. Len(S[n]),
         Kind(n) # "end" \/ k # Len(S[n])
  PROVE  Leaves(S, n, LastLab(prog, S[n][k].o))
<1>1. PICK o : o = S[n][k].o
  OBVIOUS
<1>2. Close(o) \in n .. Len(prog) /\ Close(o) # n
  BY <1>1, CloseBehind
<1>3. o \in 1 .. n - 1 /\ Kind(o) \in Openers
  BY <1>1, OnStack DEF Kind
<1>4. PICK e : e = Close(o)
  OBVIOUS
<1>5. Len(prog) \in Nat
  BY Blockwise
<1>6. o \in 1 .. n /\ n < e
  BY <1>2, <1>3, <1>4, <1>5
<1> QED BY <1>1, <1>3, <1>4, <1>6 DEF Leaves

LEMMA JumpLabels ==
  ASSUME NEW S, Compiles(S), NEW n \in 1 .. Len(prog)
  PROVE  /\ Jumps(prog, S, n) =>
              \/ Leaves(S, n, JumpTo(prog, S, n))
              \/ Kind(n) = "end" /\ Kind(Owner(S, n)) \in Loops /\ JumpTo(prog, S, n) = Gid(prog, Owner(S, n))
         /\ Branches(prog, n) =>
              \/ Leaves(S, n, BranchTo(prog, S, n))
              \/ Kind(n) = "if" /\ BranchTo(prog, S, n) = Gid(prog, n)
<1>1. /\ Nested(prog, S) /\ S[Len(prog) + 1] = <<>> /\ Len(prog) \in Nat /\ n \in Nat \ {0} /\ Kind(n) = prog[n].k
      /\ Len(S[n]) \in Nat
  <2>1. Nested(prog, S) /\ S[Len(prog) + 1] = <<>>
    BY DEF Compiles
  <2>2. Len(prog) \in Nat /\ n \in 1 .. Len(prog) + 1
    BY <2>1, Blockwise
  <2> QED BY <2>1, <2>2, Blockwise DEF Kind
<1>2. PICK o : o = Owner(S, n)
  OBVIOUS
<1>3. CASE Kind(n) = "exit"
  <2>1. ~Branches(prog, n) /\ JumpTo(prog, S, n) = ExitLab(prog, S[n])
    BY <1>1, <1>3 DEF Branches, JumpTo
  <2>2. SUFFICES ASSUME Jumps(prog, S, n) PROVE Leaves(S, n, ExitLab(prog, S[n]))
    BY <2>1
  <2>3. PICK L, x : L = LoopsOn(prog, S[n]) /\ x = Max(L)
    OBVIOUS
  <2>4. L # {}
    <3>1. prog[n].k = "exit" => LoopsOn(prog, S[n]) # {}
      BY <2>2, JumpIsLast
    <3> QED BY <1>1, <1>3, <2>3, <3>1
  <2>5. L \subseteq 1 .. n - 1
    BY <1>1, <2>3, OnStack
  <2>6. x \in L
    <3>1. L \in SUBSET Nat /\ \A j \in L : j <= n
      BY <2>5
    <3> QED BY <1>1, <2>3, <2>4, <3>1, MaxOf
  <2>7. PICK k \in 1 .. Len(S[n]) : x = S[n][k].o
    BY <2>3, <2>6 DEF LoopsOn
  <2>8. ExitLab(prog, S[n]) = LastLab(prog, S[n][k].o)
    BY <2>3, <2>4, <2>7 DEF ExitLab
  <2> QED BY <1>1, <1>3, <2>8, LeavesAround
<1>4. CASE Kind(n) = "else"
  <2>1. ~Branches(prog, n) /\ JumpTo(prog, S, n) = LastLab(prog, o)
    BY <1>1, <1>2, <1>4 DEF Branches, JumpTo
  <2>2. Len(S[n]) \in Nat \ {0} /\ o = S[n][Len(S[n])].o
    <3>1. prog[n].k \in {"else", "end"}
      BY <1>1, <1>4
    <3> QED BY <1>1, <1>2, <3>1, Under
  <2>3. Leaves(S, n, LastLab(prog, S[n][Len(S[n])].o))
    <3>1. Len(S[n]) \in 1 .. Len(S[n])
      BY <2>2
    <3> QED BY <1>1, <1>4, <3>1, LeavesAround
  <2> QED BY <2>1, <2>2, <2>3
<1>5. CASE Kind(n) = "end"
  <2>1. ~Branches(prog, n)
    BY <1>1, <1>5 DEF Branches
  <2>2. o \in 1 .. n - 1 /\ Kind(o) = prog[o].k
    BY <1>1, <1>2, <1>5, Under DEF Kind
  <2>3. CASE Kind(o) \in Loops
    <3>1. JumpTo(prog, S, n) = Gid(prog, o)
      BY <1>1, <1>2, <1>5, <2>2, <2>3 DEF JumpTo, Loops
    <3> QED BY <1>2, <1>5, <2>1, <2>3, <3>1
  <2>4. CASE Kind(o) = "arm"
    <3>1. JumpTo(prog, S, n) = LastLab(prog, Over(S, n))
      BY <1>1, <1>2, <1>5, <2>2, <2>4 DEF JumpTo
    <3>2. Len(S[n]) - 1 \in 1 .. Len(S[n])
      BY <1>1, <1>2, <1>5, <2>2, <2>4, CaseAround
    <3>3. Len(S[n]) - 1 # Len(S[n])
      BY <1>1
    <3>4. Leaves(S, n, LastLab(prog, S[n][Len(S[n]) - 1].o))
      BY <1>1, <3>2, <3>3, LeavesAround
    <3> QED BY <2>1, <3>1, <3>4 DEF Over
  <2>5. CASE Kind(o) \notin Loops \cup {"arm"}
    <3>1. ~Jumps(prog, S, n)
      BY <1>1, <1>2, <1>5, <2>2, <2>5 DEF Jumps
    <3> QED BY <2>1, <3>1
  <2> QED BY <2>3, <2>4, <2>5
<1>6. CASE Kind(n) \notin {"exit", "else", "end"}
  <2>1. ~Jumps(prog, S, n)
    BY <1>1, <1>6 DEF Jumps
  <2>2. SUFFICES ASSUME Branches(prog, n)
                 PROVE  Leaves(S, n, BranchTo(prog, S, n)) \/ (Kind(n) = "if" /\ BranchTo(prog, S, n) = Gid(prog, n))
    BY <2>1
  <2>3. Kind(n) \in Openers
    BY <1>1, <2>2 DEF Branches, Openers, Loops
  <2>4. Leaves(S, n, LastLab(prog, n))
    <3>1. PICK e : e = Close(n)
      OBVIOUS
    <3>2. e \in n + 1 .. Len(prog)
      BY <1>1, <2>3, <3>1, Region
    <3>3. n < e /\ n \in 1 .. n
      BY <1>1, <3>2
    <3> QED BY <2>3, <3>1, <3>3 DEF Leaves
  <2> QED BY <1>1, <2>4 DEF BranchTo
<1> QED BY <1>3, <1>4, <1>5, <1>6

\* The values node j declares; node 0 stands for the input tuple.
Declares(pr, j, v) ==
  \/ j = 0 /\ \E p \in 1 .. Len(Params) : v = Val(Params[p], Decl("param", p))
  \/ j # 0 /\ pr[j].k \in Declarations \cup {"for"} /\ v = Val(pr[j].x, Decl("node", j))
  \/ j # 0 /\ pr[j].k = "for" /\ v = Val(pr[j].key, Decl("key", j))

\* Names nothing is ever stored for: code that reads one is not emitted.
Unkept(pr) ==
  Range(Outs) \cup (Range(Globals) \ Range(Params)) \cup {pr[j].x : j \in {j \in 1 .. Len(pr) : pr[j].k = "arm"}}

\* The instruction writes a word.  An ADD writes one that is written already.
Writes(x) == x.dst.name # None /\ x.op # "ADD"

Writers == Declarations \cup {"assign", "for", "arm"}

\* A value instruction p may read: it is written before, where node n sees it.
Wrote(pr, S, c, p, v, n) == \E q \in 1 .. p - 1 : Writes(c[q]) /\ c[q].dst = v /\ Covers(pr, S, c[q].at, n)

Backed(pr, S, c, p, v) == v.name = None \/ v.name \in Unkept(pr) \/ Wrote(pr, S, c, p, v, c[p].at)

\* Nodes that declare a string or an aggregate.
Broad(pr, i) == i # 0 /\ pr[i].k \in {"string"} \cup Aggregates

\* Instruction k of t, of node i: its slot is asked for as that of a string or an
\* aggregate, and as many words are written to such a slot alone.
Sized(pr, i, t, k) ==
  /\ Broad(pr, i) /\ Declares(pr, i, t[k].dst) /\ t[k].dst.name # None =>
       t[k].op = "ALLOCA" \/ \E m \in 1 .. k - 1 : t[m].dst = t[k].dst
  /\ t[k].op = "STR_INIT" =>
       Broad(pr, i) /\ Declares(pr, i, t[k].dst) /\ t[k].dst.name # None
  /\ t[k].op = "MEMCPY" =>
       /\ Broad(pr, i) /\ Declares(pr, i, t[k - 1].a) /\ t[k - 1].a.name # None
       /\ \E m \in 1 .. k - 1 : t[m].dst = t[k - 1].a

\* An instruction, in the code before it: what it writes, what it reads, the
\* address a store or copy goes to, and that a label is not behind a writer of its
\* node.
Line(pr, S, c, tc, p) ==
  /\ c[p].dst.name = None \/ Declares(pr, c[p].at, c[p].dst) \/ Temporary(c[p].dst, tc)
  /\ Writes(c[p]) => c[p].at = 0 \/ (c[p].at \in 1 .. Len(pr) /\ pr[c[p].at].k \in Writers)
  /\ Backed(pr, S, c, p, c[p].a) /\ Backed(pr, S, c, p, c[p].b)
  /\ Sized(pr, c[p].at, c, p)
  /\ c[p].op \in {"STORE", "MEMCPY"} =>
       /\ p > 1 /\ c[p - 1].op = "ADDR" /\ c[p - 1].dst = c[p].a /\ c[p - 1].at = c[p].at
       /\ c[p].dst.name = None /\ c[p].a.name # None
  /\ c[p].op = "LABEL" =>
       \A q \in 1 .. p - 1 : Writes(c[q]) /\ c[q].at = c[p].at =>
         pr[c[p].at].k \in Loops /\ c[p].lab = Gid(pr, c[p].at)

Lines(pr, S, c, tc) == \A p \in 1 .. Len(c) : Line(pr, S, c, tc, p)

\* The end of a loop is in the block the loop began.
LEMMA LoopEnd ==
  ASSUME NEW S, Nested(prog, S), NEW n \in 1 .. Len(prog), Kind(n) = "end", Kind(Owner(S, n)) \in Loops
  PROVE  LET o == Owner(S, n) IN
         o \in 1 .. n - 1 /\ Held(prog, S, n) = S[n] /\ Within(S[o], S[n]) /\ Within(S[o + 1], S[n])
<1>1. PICK o : o = Owner(S, n)
  OBVIOUS
<1>2. prog[n].k = "end" /\ prog[o].k \in Loops /\ prog[o].k # "if"
  BY <1>1 DEF Kind, Loops
<1>3. /\ Len(S[n]) \in Nat \ {0} /\ o \in 1 .. n - 1 /\ prog[o].k \in Openers /\ S[o] = Front(S[n])
  <2>1. prog[n].k \in {"else", "end"}
    BY <1>2
  <2> QED BY <1>1, <2>1, Under
<1>4. Held(prog, S, n) = S[n]
  BY <1>1, <1>2 DEF Held
<1>5. PICK s, B : s = S[n] /\ B = Below(n - 1)
  OBVIOUS
<1>6. Len(prog) \in Nat /\ n \in 1 .. Len(prog) + 1 /\ o \in 1 .. Len(prog)
  <2>1. Len(prog) \in Nat
    BY Blockwise
  <2> QED BY <1>3, <2>1
<1>7. s \in Seq(B) /\ s # <<>>
  BY <1>3, <1>5, <1>6 DEF Nested
<1>8. /\ Len(S[o]) = Len(s) - 1 /\ (\A k \in 1 .. Len(s) - 1 : S[o][k] = s[k]) /\ Last(s) \in B
      /\ Last(s) = s[Len(s)] /\ Len(s) \in Nat \ {0}
  BY <1>3, <1>5, <1>7, FrontOf
<1>9. Within(S[o], S[n])
  BY <1>5, <1>8 DEF Within
<1>10. Last(s) = [o |-> o, b |-> o]
  <2>1. Last(s).b = Last(s).o
    <3>1. Opened(prog, S, n)
      BY <1>6, OpenedAll
    <3> QED BY <1>1, <1>2, <1>5, <1>7, <3>1 DEF Opened, Owner
  <2>2. Last(s).o = o
    BY <1>1, <1>5 DEF Owner
  <2>3. \A x \in Below(n - 1) : x = [o |-> x.o, b |-> x.b]
    BY DEF Below
  <2>4. Last(s) = [o |-> Last(s).o, b |-> Last(s).b]
    BY <1>5, <1>8, <2>3
  <2> QED BY <2>1, <2>2, <2>4
<1>11. Len(S[o + 1]) = Len(S[o]) + 1 /\ S[o + 1][Len(S[o]) + 1] = [o |-> o, b |-> o] /\ \A k \in 1 .. Len(S[o]) : S[o + 1][k] = S[o][k]
  <2>1. Passed(prog, S, o)
    BY <1>6, Passing
  <2> QED BY <1>3, <2>1 DEF Passed
<1>12. Within(S[o + 1], s)
  <2>1. PICK L, u : L = Len(s) /\ u = S[o + 1]
    OBVIOUS
  <2>2. L \in Nat \ {0} /\ Len(S[o]) = L - 1 /\ L - 1 + 1 = L
    BY <1>8, <2>1
  <2>3. Len(u) = L /\ u[L] = Last(s) /\ \A k \in 1 .. L - 1 : u[k] = S[o][k]
    BY <1>10, <1>11, <2>1, <2>2
  <2>4. s[L] = Last(s) /\ \A k \in 1 .. L - 1 : S[o][k] = s[k]
    BY <1>8, <2>1
  <2>5. \A k \in 1 .. L : k = L \/ k \in 1 .. L - 1
    BY <2>2
  <2>6. \A k \in 1 .. L : u[k] = s[k]
    BY <2>3, <2>4, <2>5
  <2> QED BY <2>1, <2>2, <2>3, <2>6 DEF Within
<1> QED BY <1>1, <1>3, <1>4, <1>5, <1>9, <1>12

\* A writer of node j, in the code before one of node n; where the nodes of the
\* instructions are.
LEMMA Ordered ==
  ASSUME NEW S, Compiles(S), NEW p \in 1 .. Len(code), NEW q \in 1 .. Len(code)
  PROVE  /\ Len(prog) \in Nat /\ Len(code) \in Nat /\ p \in Nat \ {0} /\ q \in Nat \ {0}
         /\ code[p].at \in Nat /\ code[p].at <= Len(prog) + 1
         /\ p <= q => code[p].at <= code[q].at
         /\ code[p].at < code[q].at => p < q
<1>1. /\ Len(prog) \in Nat /\ Len(code) \in Nat \ {0}
      /\ code[p].at \in 0 .. Len(prog) + 1 /\ code[q].at \in 0 .. Len(prog) + 1
      /\ p < q => code[p].at <= code[q].at
      /\ q < p => code[q].at <= code[p].at
  BY CodeFacts
<1> QED BY <1>1

\* A jump out of a block goes round no writer that its target sees.
LEMMA ReachOut ==
  ASSUME NEW S, Compiles(S), NEW tc, Lines(prog, S, code, tc), NEW p \in 1 .. Len(code), NEW r \in 1 .. Len(code),
         NEW n \in 1 .. Len(prog), n = code[p].at, NEW q \in 1 .. r - 1,
         Writes(code[q]), Covers(prog, S, code[q].at, code[r].at), code[r].op = "LABEL",
         n < code[r].at,
         \A j \in n .. code[r].at - 1 : prog[j].k \in Writers => ~Covers(prog, S, j, code[r].at),
         \A o \in 1 .. Len(prog) : prog[o].k \in Loops /\ code[r].at = o => code[r].lab # Gid(prog, o)
  PROVE  q < p /\ Covers(prog, S, code[q].at, n)
<1>1. PICK j, a : j = code[q].at /\ a = code[r].at
  OBVIOUS
<1>2. r \in Nat \ {0} /\ q \in 1 .. Len(code) /\ q < r
  <2>1. Len(code) \in Nat /\ r \in Nat \ {0}
    BY Ordered
  <2> QED BY <2>1
<1>3. j \in Nat /\ a \in Nat /\ a <= Len(prog) + 1 /\ j <= a /\ Len(prog) \in Nat /\ n < a /\ n \in Nat \ {0}
  <2>1. /\ Len(prog) \in Nat /\ code[q].at \in Nat /\ code[r].at \in Nat /\ code[r].at <= Len(prog) + 1
        /\ (q <= r => code[q].at <= code[r].at) /\ q \in Nat /\ r \in Nat
    BY <1>2, Ordered
  <2> QED BY <1>1, <1>2, <2>1
<1>4. Line(prog, S, code, tc, r) /\ Line(prog, S, code, tc, q)
  BY <1>2 DEF Lines
<1>5. j = 0 \/ (j \in 1 .. Len(prog) /\ prog[j].k \in Writers)
  BY <1>1, <1>4 DEF Line
<1>6. j # a
  <2>1. SUFFICES ASSUME j = a PROVE FALSE
    OBVIOUS
  <2>2. prog[a].k \in Loops /\ code[r].lab = Gid(prog, a)
    BY <1>1, <1>4, <2>1 DEF Line
  <2>3. a \in 1 .. Len(prog)
    BY ONLY <1>3, <1>5, <2>1
  <2> QED BY <1>1, <2>2, <2>3
<1>7. j < n
  <2>1. SUFFICES ASSUME ~(j < n) PROVE FALSE
    OBVIOUS
  <2>2. j \in n .. a - 1 /\ j # 0
    BY ONLY <1>3, <1>6, <2>1
  <2> QED BY <1>1, <1>5, <2>2
<1>8. q < p
  <2>1. (code[q].at < code[p].at => q < p)
    BY <1>2, Ordered
  <2> QED BY <1>1, <1>7, <2>1
<1>9. Covers(prog, S, j, n)
  <2>1. a \in 1 .. Len(prog) + 1 /\ n \in 1 .. a
    BY ONLY <1>3
  <2>2. Nested(prog, S)
    BY DEF Compiles
  <2> QED BY <1>1, <1>3, <1>7, <2>1, <2>2, CoversBetween
<1> QED BY <1>1, <1>8, <1>9

\* Back at the head of a loop, what the head sees is what its end saw.
LEMMA ReachBack ==
  ASSUME NEW S, Compiles(S), NEW p \in 1 .. Len(code), NEW r \in 1 .. Len(code),
         NEW n \in 1 .. Len(prog), n = code[p].at, Kind(n) = "end", Kind(Owner(S, n)) \in Loops,
         code[r].at = Owner(S, n), NEW q \in 1 .. r - 1, Covers(prog, S, code[q].at, code[r].at)
  PROVE  q < p /\ Covers(prog, S, code[q].at, n)
<1>1. PICK j, o : j = code[q].at /\ o = Owner(S, n)
  OBVIOUS
<1>2. Nested(prog, S)
  BY DEF Compiles
<1>3. o \in 1 .. n - 1 /\ Held(prog, S, n) = S[n] /\ Within(S[o], S[n]) /\ Within(S[o + 1], S[n])
  BY <1>1, <1>2, LoopEnd
<1>4. r \in Nat \ {0} /\ p \in Nat /\ q \in 1 .. Len(code) /\ q < r
  <2>1. Len(code) \in Nat /\ r \in Nat \ {0} /\ p \in Nat
    BY Ordered
  <2> QED BY <2>1
<1>5. j \in Nat /\ o \in Nat \ {0} /\ j <= o /\ o < n /\ n <= Len(prog) /\ Len(prog) \in Nat /\ n \in Nat
  <2>1. Len(prog) \in Nat /\ code[q].at \in Nat /\ (q <= r => code[q].at <= code[r].at) /\ q \in Nat
    BY <1>4, Ordered
  <2> QED BY <1>1, <1>3, <1>4, <2>1
<1>6. q < p
  <2>1. code[r].at < code[p].at => r < p
    BY Ordered
  <2>2. r < p
    BY <1>1, <1>5, <2>1
  <2> QED BY <1>4, <2>2
<1>7. Covers(prog, S, j, n)
  <2>1. CASE j = o
    BY <1>3, <1>5, <2>1 DEF Covers
  <2>2. CASE j # o
    <3>1. j < o /\ Within(S[j + 1], Held(prog, S, o))
      BY <1>1, <1>5, <2>2 DEF Covers
    <3>2. o \in 1 .. Len(prog) + 1 /\ n \in 1 .. Len(prog) + 1 /\ j + 1 \in 1 .. Len(prog) + 1
      BY ONLY <1>5, <3>1
    <3>3. Len(S[j + 1]) \in Nat /\ Len(S[o]) \in Nat /\ Len(S[n]) \in Nat
      BY <1>2, <3>2, Blockwise
    <3>4. Len(Held(prog, S, o)) \in Nat /\ Within(Held(prog, S, o), S[o])
      BY <1>2, <3>2, HeldWithin
    <3>5. Within(S[j + 1], S[o])
      BY <3>1, <3>3, <3>4, WithinTrans
    <3>6. Within(S[j + 1], S[n])
      BY <1>3, <3>3, <3>5, WithinTrans
    <3> QED BY <1>3, <1>5, <3>1, <3>6 DEF Covers
  <2> QED BY <2>1, <2>2
<1> QED BY <1>1, <1>6, <1>7

\* Control that goes on to the next instruction leaves only blocks behind.
LEMMA ReachOn ==
  ASSUME NEW S, Compiles(S), NEW p \in 1 .. Len(code), p + 1 \in 1 .. Len(code), NEW q \in 1 .. p,
         Covers(prog, S, code[q].at, code[p + 1].at)
  PROVE  q = p \/ (q < p /\ Covers(prog, S, code[q].at, code[p].at))
<1>1. PICK j, n, a : j = code[q].at /\ n = code[p].at /\ a = code[p + 1].at
  OBVIOUS
<1>2. Nested(prog, S)
  BY DEF Compiles
<1>3. p \in Nat \ {0} /\ q \in 1 .. Len(code) /\ q \in Nat /\ q <= p /\ p <= p + 1
  <2>1. Len(code) \in Nat /\ p \in Nat \ {0}
    BY Ordered
  <2> QED BY <2>1
<1>4. j \in Nat /\ n \in Nat /\ a \in Nat /\ a <= Len(prog) + 1 /\ j <= n /\ n <= a /\ Len(prog) \in Nat
  <2>1. code[q].at \in Nat /\ code[p].at \in Nat /\ Len(prog) \in Nat /\ (q <= p => code[q].at <= code[p].at)
    BY <1>3, Ordered
  <2>2. p <= p + 1 => code[p].at <= code[p + 1].at
    BY Ordered
  <2>3. code[p + 1].at \in Nat /\ code[p + 1].at <= Len(prog) + 1
    BY Ordered
  <2> QED BY <1>1, <1>3, <2>1, <2>2, <2>3
<1>5. Covers(prog, S, j, n)
  <2>1. CASE j = n
    BY <2>1 DEF Covers
  <2>2. CASE j # n
    <3>1. j < n /\ a \in 1 .. Len(prog) + 1 /\ n \in 1 .. a
      BY ONLY <1>4, <2>2
    <3> QED BY <1>1, <1>2, <1>4, <3>1, CoversBetween
  <2> QED BY <2>1, <2>2
<1> QED BY <1>1, <1>3, <1>5

\* Where instruction r reads, a writer before it that covers it is one that p, from
\* which control came, is itself, or has behind it.
LEMMA Reach ==
  ASSUME NEW S, Compiles(S), NEW tc, Lines(prog, S, code, tc), NEW p \in 1 .. Len(code), NEW r \in Flow(p),
         NEW q \in 1 .. r - 1, Writes(code[q]), Covers(prog, S, code[q].at, code[r].at)
  PROVE  q = p \/ (q < p /\ Covers(prog, S, code[q].at, code[p].at))
<1>1. Nested(prog, S) /\ S[Len(prog) + 1] = <<>> /\ Len(prog) \in Nat /\ Len(code) \in Nat /\ p \in Nat
  <2>1. Len(prog) \in Nat /\ Len(code) \in Nat /\ p \in Nat
    BY Ordered
  <2> QED BY <2>1 DEF Compiles
<1>2. r \in 1 .. Len(code)
  BY FlowIs
<1>3. CASE r = p + 1
  <2>1. p + 1 \in 1 .. Len(code) /\ q \in 1 .. p /\ Covers(prog, S, code[q].at, code[p + 1].at)
    BY <1>1, <1>2, <1>3
  <2> QED BY <2>1, ReachOn
<1>4. CASE r # p + 1
  <2>1. code[p].op \in {"JMP", "JIF", "JIFN"} /\ r \in Placed(code[p].lab)
    BY <1>4 DEF Flow
  <2>2. PICK n, lab, a : n = code[p].at /\ lab = code[p].lab /\ a = code[r].at
    OBVIOUS
  <2>3. code[r].op = "LABEL" /\ code[r].lab = lab /\ a \in Targets(S, lab)
    <3>1. code[r].op = "LABEL" /\ code[r].lab = code[p].lab
      BY <2>1 DEF Placed
    <3>2. code[r].at \in Targets(S, lab)
      BY <2>1, <2>2, PlacedAt
    <3> QED BY <2>2, <3>1, <3>2
  <2>4. /\ n \in 1 .. Len(prog)
        /\ \/ Jumps(prog, S, n) /\ lab = JumpTo(prog, S, n)
           \/ Branches(prog, n) /\ lab = BranchTo(prog, S, n)
    <3>1. \/ code[p].op = "PARAM" /\ code[p].at = 0
          \/ code[p].op = "RET" /\ code[p].at = Len(prog) + 1
          \/ code[p].at # 0 /\ \E i \in 1 .. Len(prog) : Good(prog, S, code[p], i)
      BY CodeFacts
    <3>2. PICK i \in 1 .. Len(prog) : Good(prog, S, code[p], i)
      BY <2>1, <3>1
    <3>3. n = i
      BY <2>1, <2>2, <3>2 DEF Good
    <3> QED BY <2>1, <2>2, <3>2, <3>3 DEF Good
  <2>5. \/ Leaves(S, n, lab)
        \/ Kind(n) = "end" /\ Kind(Owner(S, n)) \in Loops /\ lab = Gid(prog, Owner(S, n))
        \/ Kind(n) = "if" /\ lab = Gid(prog, n)
    BY <2>4, JumpLabels
  <2>6. CASE Leaves(S, n, lab)
    <3>1. PICK o \in 1 .. n : Kind(o) \in Openers /\ n < Close(o) /\ lab = LastLab(prog, o)
      BY <2>6 DEF Leaves
    <3>2. PICK e : e = Close(o)
      OBVIOUS
    <3>3. o \in 1 .. Len(prog) /\ o \in Nat \ {0} /\ o <= n /\ n \in Nat \ {0}
      BY <1>1, <2>4
    <3>4. e \in o + 1 .. Len(prog) /\ Kind(e) = "end"
      BY <1>1, <3>1, <3>2, <3>3, Region
    <3>5. a = IF Kind(o) \in Loops \cup {"arm"} THEN e + 1 ELSE e
      <4>1. Targets(S, LastLab(prog, o)) = {IF Kind(o) \in Loops \cup {"arm"} THEN Close(o) + 1 ELSE Close(o)}
        BY <3>1, <3>3, LastTarget
      <4> QED BY <2>3, <3>1, <3>2, <4>1
    <3>6. n < a /\ e \in Nat /\ n < e /\ (a = e + 1 \/ a = e)
      <4>1. n < e
        BY <3>1, <3>2
      <4>2. e \in Nat /\ (a = e + 1 \/ a = e)
        BY ONLY <1>1, <3>3, <3>4, <3>5
      <4> QED BY ONLY <3>3, <4>1, <4>2
    <3>7. \A j \in n .. a - 1 : prog[j].k \in Writers => ~Covers(prog, S, j, a)
      <4>1. SUFFICES ASSUME NEW j \in n .. a - 1, prog[j].k \in Writers PROVE ~Covers(prog, S, j, a)
        OBVIOUS
      <4>2. j # e
        BY <3>4, <4>1 DEF Kind, Writers, Declarations
      <4>3. j \in o .. e - 1
        BY ONLY <3>3, <3>6, <4>1, <4>2
      <4>4. j \in o .. Close(o) - 1
        BY <3>2, <4>3
      <4>5. a = IF Kind(o) \in Loops \cup {"arm"} THEN Close(o) + 1 ELSE Close(o)
        BY <3>2, <3>5
      <4> QED BY <1>1, <3>1, <3>3, <4>4, <4>5, SkipsBlock
    <3>8. \A l \in 1 .. Len(prog) : prog[l].k \in Loops /\ a = l => lab # Gid(prog, l)
      <4>1. SUFFICES ASSUME NEW l \in 1 .. Len(prog), prog[l].k \in Loops PROVE LastLab(prog, o) # Gid(prog, l)
        BY <3>1
      <4>2. l \in Nat \ {0} /\ l \in Two(prog) /\ prog[l].k \in Openers /\ prog[o].k \in Openers
        BY <3>1, <4>1 DEF Two, Openers, Kind
      <4> QED BY <3>3, <4>2, LabelsApart
    <3> QED BY <2>2, <2>3, <2>4, <1>2, <3>6, <3>7, <3>8, ReachOut
  <2>7. CASE Kind(n) = "end" /\ Kind(Owner(S, n)) \in Loops /\ lab = Gid(prog, Owner(S, n))
    <3>1. Owner(S, n) \in 1 .. n - 1
      BY <1>1, <2>4, <2>7, LoopEnd
    <3>2. Owner(S, n) \in 1 .. Len(prog)
      BY <1>1, <2>4, <3>1
    <3>3. Targets(S, Gid(prog, Owner(S, n))) = {Owner(S, n)}
      BY <2>7, <3>2, TopTarget
    <3>4. code[r].at = Owner(S, n)
      BY <2>2, <2>3, <2>7, <3>3
    <3> QED BY <1>2, <2>2, <2>4, <2>7, <3>4, ReachBack
  <2>8. CASE Kind(n) = "if" /\ lab = Gid(prog, n)
    <3>1. PICK e \in Else(n) : a = e + 1
      <4>1. Targets(S, Gid(prog, n)) = {d + 1 : d \in Else(n)}
        BY <2>4, <2>8, ElseTarget
      <4> QED BY <2>3, <2>8, <4>1
    <3>2. e \in Nat /\ n < e /\ Kind(e) = "else" /\ n \in Nat \ {0}
      <4>1. e \in 1 .. Len(prog) /\ Kind(e) = "else"
        BY <1>1, <2>4, <2>8, KindsApart, ElseIs
      <4>2. e \in n + 1 .. Close(n)
        BY DEF Else
      <4>3. Close(n) \in n + 1 .. Len(prog)
        BY <1>1, <2>4, <2>8, KindsApart, Region
      <4> QED BY <1>1, <2>4, <4>1, <4>2, <4>3
    <3>3. \A j \in n .. a - 1 : prog[j].k \in Writers => ~Covers(prog, S, j, a)
      <4>1. SUFFICES ASSUME NEW j \in n .. a - 1, prog[j].k \in Writers PROVE ~Covers(prog, S, j, a)
        OBVIOUS
      <4>2. j # e
        BY <3>2, <4>1 DEF Kind, Writers, Declarations
      <4>3. j \in n .. e - 1
        BY ONLY <3>1, <3>2, <4>1, <4>2
      <4> QED BY <1>1, <2>4, <2>8, <3>1, <4>3, SkipsThen
    <3>4. \A l \in 1 .. Len(prog) : prog[l].k \in Loops /\ a = l => lab # Gid(prog, l)
      <4>1. SUFFICES ASSUME NEW l \in 1 .. Len(prog), prog[l].k \in Loops, Gid(prog, n) = Gid(prog, l) PROVE FALSE
        BY <2>8
      <4>2. l \in Nat \ {0} /\ prog[l].k \in Openers /\ prog[n].k \in Openers
        BY <2>8, <4>1 DEF Openers, Kind
      <4>3. n = l
        BY <3>2, <4>1, <4>2, LabelsApart
      <4> QED BY <2>8, <4>1, <4>3 DEF Kind, Loops
    <3>5. n < a
      BY ONLY <3>1, <3>2
    <3> QED BY <2>2, <2>3, <2>4, <1>2, <3>3, <3>4, <3>5, ReachOut
  <2> QED BY <2>5, <2>6, <2>7, <2>8
<1> QED BY <1>3, <1>4
-----------------------------------------------------------------------------
(* What the checker has bound at a node *)

\* A symbol of the procedure is visible where it is found.
Seen(S, i, e) ==
  /\ e.d[1] # "global"
  /\ e.d[1] \in {"node", "key"} => e.d[2] \in 1 .. i - 1 /\ Within(S[e.d[2] + 1], S[i])

Sees(S, c, i) ==
  /\ \A s \in 2 .. Len(c) : \A e \in 1 .. Len(c[s]) : Seen(S, i, c[s][e])
  /\ \A p \in 1 .. Len(Params) :
       \E e \in 1 .. Len(c[2]) : c[2][e] = Symbol(Params[p], "let", Decl("param", p))

LEMMA SeesMore ==
  ASSUME NEW pr, NEW S, Nested(pr, S), NEW i \in 1 .. Len(pr) + 1, NEW k \in 1 .. Len(pr) + 1, i <= k,
         Within(S[i], S[k]), NEW c, Sees(S, c, i)
  PROVE  Sees(S, c, k)
<1>1. ASSUME NEW e, Seen(S, i, e)
      PROVE  Seen(S, k, e)
  <2>1. SUFFICES ASSUME e.d[1] \in {"node", "key"}
                 PROVE  e.d[2] \in 1 .. k - 1 /\ Within(S[e.d[2] + 1], S[k])
    BY <1>1 DEF Seen
  <2>2. PICK j : j = e.d[2]
    OBVIOUS
  <2>3. j \in 1 .. i - 1 /\ Within(S[j + 1], S[i])
    BY <1>1, <2>1, <2>2 DEF Seen
  <2>4. Len(pr) \in Nat
    BY Blockwise
  <2>5. j + 1 \in 1 .. Len(pr) + 1 /\ j \in 1 .. k - 1
    BY <2>3, <2>4
  <2>6. Len(S[j + 1]) \in Nat /\ Len(S[i]) \in Nat /\ Len(S[k]) \in Nat
    BY <2>5, Blockwise
  <2>7. Within(S[j + 1], S[k])
    BY <2>3, <2>6, WithinTrans
  <2> QED BY <2>2, <2>5, <2>7
<1> QED BY <1>1 DEF Sees

LEMMA SeesDefine ==
  ASSUME NEW S, NEW i, NEW A, NEW c \in Seq(Seq(A)), Len(c) >= 2, Sees(S, c, i), NEW e \in A, Seen(S, i, e)
  PROVE  Sees(S, Define(c, e), i)
<1>1. PICK d, n, q, t : d = Define(c, e) /\ n = Len(c) /\ q = c[n] /\ t = Append(q, e)
  OBVIOUS
<1>2. n \in Nat /\ n >= 2 /\ c # <<>> /\ q \in Seq(A)
  <2>1. PICK D : D = Seq(A)
    OBVIOUS
  <2>2. c \in Seq(D) /\ n \in Nat /\ n >= 2
    BY <1>1, <2>1
  <2>3. c[n] \in D /\ c # <<>>
    BY <1>1, <2>2
  <2> QED BY <1>1, <2>1, <2>2, <2>3
<1>3. Len(d) = n /\ d[n] = t /\ \A k \in 1 .. n - 1 : d[k] = c[k]
  BY <1>1, <1>2, Defines
<1>4. Len(t) = Len(q) + 1 /\ t[Len(q) + 1] = e /\ (\A k \in 1 .. Len(q) : t[k] = q[k]) /\ Len(q) \in Nat
  BY <1>1, <1>2
<1>5. ASSUME NEW s \in 2 .. n, NEW f \in 1 .. Len(d[s])
      PROVE  Seen(S, i, d[s][f])
  <2>1. CASE s # n
    <3>1. s \in 1 .. n - 1 /\ d[s] = c[s]
      BY <1>2, <1>3, <2>1
    <3> QED BY <1>1, <1>5, <3>1 DEF Sees
  <2>2. CASE s = n
    <3>1. f \in 1 .. Len(q) \/ f = Len(q) + 1
      BY <1>3, <1>4, <1>5, <2>2
    <3>2. CASE f = Len(q) + 1
      BY <1>3, <1>4, <2>2, <3>2
    <3>3. CASE f \in 1 .. Len(q)
      <4>1. d[s][f] = c[n][f] /\ n \in 2 .. Len(c)
        BY <1>1, <1>2, <1>3, <1>4, <2>2, <3>3
      <4> QED BY <1>1, <3>3, <4>1 DEF Sees
    <3> QED BY <3>1, <3>2, <3>3
  <2> QED BY <2>1, <2>2
<1>6. ASSUME NEW p \in 1 .. Len(Params)
      PROVE  \E f \in 1 .. Len(d[2]) : d[2][f] = Symbol(Params[p], "let", Decl("param", p))
  <2>1. PICK f \in 1 .. Len(c[2]) : c[2][f] = Symbol(Params[p], "let", Decl("param", p))
    BY DEF Sees
  <2>2. CASE n = 2
    <3>0. q = c[2] /\ d[2] = t /\ f \in 1 .. Len(q)
      BY <1>1, <1>3, <2>1, <2>2
    <3>1. f \in 1 .. Len(t) /\ d[2][f] = c[2][f]
      BY ONLY <1>4, <3>0
    <3> QED BY <1>3, <2>1, <2>2, <3>1
  <2>3. CASE n # 2
    <3>1. d[2] = c[2]
      BY <1>2, <1>3, <2>3
    <3> QED BY <2>1, <3>1
  <2> QED BY <2>2, <2>3
<1> QED BY <1>1, <1>3, <1>5, <1>6 DEF Sees

LEMMA SeesPush ==
  ASSUME NEW S, NEW i, NEW c, Sequence(c), Len(c) >= 2, Sees(S, c, i),
         NEW q, \A e \in 1 .. Len(q) : Seen(S, i, q[e])
  PROVE  Sees(S, Append(c, q), i)
<1>1. PICK d, n : d = Append(c, q) /\ n = Len(c)
  OBVIOUS
<1>2. Len(d) = n + 1 /\ d[n + 1] = q /\ \A k \in 1 .. n : d[k] = c[k]
  BY <1>1, Appends
<1>3. n \in Nat /\ n >= 2
  BY <1>1 DEF Sequence
<1>4. ASSUME NEW s \in 2 .. Len(d), NEW e \in 1 .. Len(d[s])
      PROVE  Seen(S, i, d[s][e])
  <2>1. s = n + 1 \/ (s \in 2 .. n /\ s \in 1 .. n)
    BY <1>2, <1>3
  <2>2. CASE s = n + 1
    BY <1>2, <1>4, <2>2
  <2>3. CASE s \in 2 .. n /\ s \in 1 .. n
    BY <1>1, <1>2, <1>4, <2>3 DEF Sees
  <2> QED BY <2>1, <2>2, <2>3
<1>5. d[2] = c[2]
  BY <1>2, <1>3
<1> QED BY <1>1, <1>4, <1>5 DEF Sees

LEMMA SeesStart ==
  ASSUME NEW S, NEW H, H[1] = Begun
  PROVE  Sees(S, H[1].scope, 1)
<1>1. PICK m, n, a, b : /\ m = Len(Params) /\ n = Len(Outs)
                        /\ a = [p \in 1 .. m |-> Symbol(Params[p], "let", Decl("param", p))]
                        /\ b = [o \in 1 .. n |-> Symbol(Outs[o], "var", Decl("out", o))]
  OBVIOUS
<1>2. m \in Nat /\ n \in Nat
  BY <1>1, TuplesAssumption
<1>3. PICK D : D = {a[p] : p \in 1 .. m} \cup {b[o] : o \in 1 .. n}
  OBVIOUS
<1>4. a \in Seq(D) /\ Len(a) = m /\ b \in Seq(D) /\ Len(b) = n
  BY <1>1, <1>2, <1>3
<1>5. PICK q : q = ProcScope
  OBVIOUS
<1>6. Len(q) = m + n /\ (\A k \in 1 .. m : q[k] = a[k]) /\ (\A k \in 1 .. n : q[m + k] = b[k])
  <2>1. q = a \o b
    BY <1>1, <1>5 DEF ProcScope
  <2>2. a \in Seq(D) /\ b \in Seq(D)
    BY <1>4
  <2>3. /\ Len(a \o b) = Len(a) + Len(b)
        /\ \A k \in 1 .. Len(a) : (a \o b)[k] = a[k]
        /\ \A k \in 1 .. Len(b) : (a \o b)[Len(a) + k] = b[k]
    BY <2>2, Joined
  <2> QED BY <1>4, <2>1, <2>3
<1>7. (\A k \in 1 .. m : a[k].d[1] = "param") /\ (\A k \in 1 .. n : b[k].d[1] = "out")
  BY <1>1 DEF Symbol, Decl
<1>8. ASSUME NEW k \in 1 .. m + n
      PROVE  Seen(S, 1, q[k])
  <2>1. CASE k \in 1 .. m
    BY <1>6, <1>7, <2>1 DEF Seen
  <2>2. CASE k \notin 1 .. m
    <3>1. PICK j \in 1 .. n : k = m + j
      <4>1. k - m \in 1 .. n /\ k = m + (k - m)
        BY <1>2, <2>2
      <4> QED BY <4>1
    <3>2. q[k].d[1] = "out"
      BY <1>6, <1>7, <3>1
    <3> QED BY <3>2 DEF Seen
  <2> QED BY <2>1, <2>2
<1>9. PICK c : c = <<FileScope, ProcScope>>
  OBVIOUS
<1>10. Len(c) = 2 /\ c[2] = q
  BY <1>5, <1>9
<1>11. H[1].scope = c
  <2>1. PICK lp, sv : lp = FALSE /\ sv = <<>>
    OBVIOUS
  <2>2. H[1] = Walk(c, lp, sv)
    BY <1>9, <2>1 DEF Begun
  <2> QED BY <2>2, Walks
<1>12. ASSUME NEW p \in 1 .. m
       PROVE  \E e \in 1 .. Len(q) : q[e] = Symbol(Params[p], "let", Decl("param", p))
  <2>1. p \in 1 .. Len(q)
    BY <1>2, <1>6
  <2>2. q[p] = a[p]
    BY <1>6
  <2>3. a[p] = Symbol(Params[p], "let", Decl("param", p))
    BY <1>1
  <2> QED BY <2>1, <2>2, <2>3
<1>13. \A s \in 2 .. Len(c) : \A e \in 1 .. Len(c[s]) : Seen(S, 1, c[s][e])
  <2>1. \A s \in 2 .. 2 : s = 2
    OBVIOUS
  <2> QED BY <1>6, <1>8, <1>10, <2>1
<1> QED BY <1>1, <1>10, <1>11, <1>12, <1>13 DEF Sees

\* The blocks behind a node, of one that does not end any.
LEMMA WithinNext ==
  ASSUME NEW pr, NEW S, Nested(pr, S), NEW i \in 1 .. Len(pr), pr[i].k \notin {"else", "end"}
  PROVE  Within(S[i], S[i + 1])
<1>0. Passed(pr, S, i)
  BY Passing
<1>1. Len(pr) \in Nat
  BY Blockwise
<1>2. i \in 1 .. Len(pr) + 1
  BY <1>1
<1>3. Len(S[i]) \in Nat
  BY <1>2, Blockwise
<1>4. CASE pr[i].k \in Openers
  <2>1. Len(S[i + 1]) = Len(S[i]) + 1 /\ \A k \in 1 .. Len(S[i]) : S[i + 1][k] = S[i][k]
    BY <1>0, <1>4 DEF Passed
  <2> QED BY <1>3, <2>1 DEF Within
<1>5. CASE pr[i].k \notin Openers
  <2>1. S[i + 1] = S[i]
    BY <1>0, <1>5 DEF Passed
  <2> QED BY <1>3, <2>1, WithinSelf
<1> QED BY <1>4, <1>5

LEMMA SeesDecl ==
  ASSUME NEW pr, NEW S, NEW H, Nested(pr, S), NEW i \in 1 .. Len(pr),
         Moves(pr[i], H[i], H[i + 1], i), pr[i].k \in Declarations,
         Shaped(pr, S, H, i), Sees(S, H[i].scope, i)
  PROVE  Sees(S, H[i + 1].scope, i + 1)
<1>1. PICK c, e : /\ c = H[i].scope
                  /\ e = Symbol(pr[i].x, IF pr[i].k = "let" THEN "let" ELSE "var", Decl("node", i))
  OBVIOUS
<1>2. PICK A : A = Symbols(pr, i) \cup {e}
  OBVIOUS
<1>3. c \in Seq(Seq(A)) /\ Len(c) >= 2 /\ e \in A
  <2>1. c \in Seq(Seq(Symbols(pr, i))) /\ Len(c) >= 2
    BY <1>1 DEF Shaped
  <2>2. Symbols(pr, i) \subseteq A
    BY <1>2
  <2> QED BY <1>2, <2>1, <2>2, Wider
<1>4. H[i + 1].scope = Define(c, e)
  <2>1. H[i + 1] = Walk(Define(c, e), H[i].loop, H[i].saved)
    BY <1>1 DEF Moves
  <2> QED BY <2>1, Walks
<1>5. Len(pr) \in Nat
  BY Blockwise
<1>6. i \in 1 .. Len(pr) + 1 /\ i + 1 \in 1 .. Len(pr) + 1 /\ i <= i + 1 /\ i \in 1 .. (i + 1) - 1
  BY <1>5
<1>7. Within(S[i], S[i + 1])
  <2>1. pr[i].k \notin {"else", "end"}
    BY DEF Declarations
  <2> QED BY <2>1, WithinNext
<1>8. Sees(S, c, i + 1)
  <2>1. Sees(S, c, i)
    BY <1>1
  <2> QED BY <1>6, <1>7, <2>1, SeesMore
<1>9. Seen(S, i + 1, e)
  <2>1. e.d[1] = "node" /\ e.d[2] = i
    BY <1>1 DEF Symbol, Decl
  <2>2. Len(S[i + 1]) \in Nat
    BY <1>6, Blockwise
  <2>3. Within(S[i + 1], S[i + 1])
    BY <2>2, WithinSelf
  <2> QED BY <1>6, <2>1, <2>3 DEF Seen
<1> QED BY <1>3, <1>4, <1>8, <1>9, SeesDefine

\* What the entry of a block binds can be seen in it.
LEMMA SeesBound ==
  ASSUME NEW S, NEW i \in Nat \ {0}, Len(S[i + 1]) \in Nat, NEW x, NEW key,
         NEW q, q = Bind(x, "node", i) \/ q = Bind(key, "key", i) \o Bind(x, "node", i)
  PROVE  \A e \in 1 .. Len(q) : Seen(S, i + 1, q[e])
<1>1. PICK u, v : u = Symbol(x, "let", Decl("node", i)) /\ v = Symbol(key, "let", Decl("key", i))
  OBVIOUS
<1>2. Seen(S, i + 1, u) /\ Seen(S, i + 1, v)
  <2>1. u.d[1] = "node" /\ u.d[2] = i /\ v.d[1] = "key" /\ v.d[2] = i
    BY <1>1 DEF Symbol, Decl
  <2>2. Within(S[i + 1], S[i + 1])
    BY WithinSelf
  <2> QED BY <2>1, <2>2 DEF Seen
<1>3. q = <<>> \/ q = <<u>> \/ q = <<v>> \/ q = <<v, u>>
  <2>1. Bind(x, "node", i) = <<>> \/ Bind(x, "node", i) = <<u>>
    BY <1>1 DEF Bind
  <2>2. Bind(key, "key", i) = <<>> \/ Bind(key, "key", i) = <<v>>
    BY <1>1 DEF Bind
  <2> QED BY <2>1, <2>2, ShortSequences
<1>4. CASE q = <<>>
  BY <1>4
<1>5. CASE q = <<u>> \/ q = <<v>>
  <2>1. 1 .. Len(q) = {1} /\ (q[1] = u \/ q[1] = v)
    BY <1>5, ShortSequences
  <2> QED BY <1>2, <2>1
<1>6. CASE q = <<v, u>>
  <2>1. 1 .. Len(q) = {1, 2} /\ q[1] = v /\ q[2] = u
    BY <1>6, ShortSequences
  <2> QED BY <1>2, <2>1
<1> QED BY <1>3, <1>4, <1>5, <1>6

LEMMA SeesOpen ==
  ASSUME NEW pr, NEW S, NEW H, Nested(pr, S), NEW i \in 1 .. Len(pr),
         Moves(pr[i], H[i], H[i + 1], i), pr[i].k \in {"if", "arm"} \cup Loops,
         Shaped(pr, S, H, i), Sees(S, H[i].scope, i)
  PROVE  Sees(S, H[i + 1].scope, i + 1)
<1>1. PICK c, n : c = H[i].scope /\ n = pr[i]
  OBVIOUS
<1>2. PICK q : q = IF n.k = "arm" THEN Bind(n.x, "node", i)
                   ELSE Bind(n.key, "key", i) \o Bind(n.x, "node", i)
  OBVIOUS
<1>3. Sequence(c) /\ Len(c) >= 2
  BY <1>1 DEF Shaped, Sequence
<1>4. H[i + 1].scope = Append(c, q)
  <2>1. CASE n.k = "arm"
    <3>1. PICK g, lp, sv : g = Append(c, q) /\ lp = H[i].loop /\ sv = Append(H[i].saved, <<"arm", H[i].loop>>)
      OBVIOUS
    <3>2. H[i + 1] = Walk(g, lp, sv)
      BY <1>1, <1>2, <2>1, <3>1 DEF Moves
    <3>3. H[i + 1].scope = g
      BY <3>2, Walks
    <3> QED BY <3>1, <3>3
  <2>2. CASE n.k \in {"if"} \cup Loops
    <3>1. n.k # "arm"
      BY <2>2 DEF Loops
    <3>2. PICK g, lp, sv : /\ g = Append(c, q) /\ lp = (H[i].loop \/ n.k \in Loops)
                           /\ sv = Append(H[i].saved, <<n.k, H[i].loop>>)
      OBVIOUS
    <3>3. H[i + 1] = Walk(g, lp, sv)
      BY <1>1, <1>2, <2>2, <3>1, <3>2 DEF Moves
    <3>4. H[i + 1].scope = g
      BY <3>3, Walks
    <3> QED BY <3>2, <3>4
  <2> QED BY <1>1, <2>1, <2>2
<1>5. Len(pr) \in Nat
  BY Blockwise
<1>6. i \in 1 .. Len(pr) + 1 /\ i + 1 \in 1 .. Len(pr) + 1 /\ i <= i + 1 /\ i \in Nat \ {0}
  BY <1>5
<1>7. Within(S[i], S[i + 1])
  <2>1. pr[i].k \notin {"else", "end"}
    BY DEF Loops
  <2> QED BY <2>1, WithinNext
<1>8. Sees(S, c, i + 1)
  <2>1. Sees(S, c, i)
    BY <1>1
  <2> QED BY <1>6, <1>7, <2>1, SeesMore
<1>9. Len(S[i + 1]) \in Nat
  BY <1>6, Blockwise
<1>10. \A e \in 1 .. Len(q) : Seen(S, i + 1, q[e])
  <2>1. q = Bind(n.x, "node", i) \/ q = Bind(n.key, "key", i) \o Bind(n.x, "node", i)
    BY <1>2
  <2> QED BY <1>6, <1>9, <2>1, SeesBound
<1> QED BY <1>3, <1>4, <1>8, <1>10, SeesPush

LEMMA SeesCase ==
  ASSUME NEW pr, NEW S, NEW H, Nested(pr, S), NEW i \in 1 .. Len(pr),
         Moves(pr[i], H[i], H[i + 1], i), pr[i].k \in {"assign", "exit", "case"},
         Sees(S, H[i].scope, i)
  PROVE  Sees(S, H[i + 1].scope, i + 1)
<1>1. PICK c : c = H[i].scope
  OBVIOUS
<1>2. H[i + 1].scope = c
  <2>1. CASE pr[i].k \in {"assign", "exit"}
    BY <1>1, <2>1 DEF Moves
  <2>2. CASE pr[i].k = "case"
    <3>1. PICK lp, sv : lp = H[i].loop /\ sv = Append(H[i].saved, <<"case", H[i].loop>>)
      OBVIOUS
    <3>2. H[i + 1] = Walk(c, lp, sv)
      BY <1>1, <2>2, <3>1 DEF Moves
    <3> QED BY <3>2, Walks
  <2> QED BY <2>1, <2>2
<1>3. Len(pr) \in Nat
  BY Blockwise
<1>4. i \in 1 .. Len(pr) + 1 /\ i + 1 \in 1 .. Len(pr) + 1 /\ i <= i + 1
  BY <1>3
<1>5. Within(S[i], S[i + 1])
  <2>1. pr[i].k \notin {"else", "end"}
    OBVIOUS
  <2> QED BY <2>1, WithinNext
<1> QED BY <1>1, <1>2, <1>4, <1>5, SeesMore

LEMMA SeesElse ==
  ASSUME NEW pr, NEW S, NEW H, Nested(pr, S), NEW i \in 1 .. Len(pr),
         Moves(pr[i], H[i], H[i + 1], i), pr[i].k = "else",
         \A j \in 1 .. i : Shaped(pr, S, H, j) /\ Entered(pr, S, H, j) /\ Sees(S, H[j].scope, j)
  PROVE  Sees(S, H[i + 1].scope, i + 1)
<1>1. PICK o, c : o = Owner(S, i) /\ c = H[o].scope
  OBVIOUS
<1>2. o \in 1 .. i - 1 /\ pr[o].k = "if" /\ S[o] = Front(S[i]) /\ Len(S[i]) \in Nat \ {0}
  BY <1>1, Under
<1>3. Len(pr) \in Nat
  BY Blockwise
<1>4. o \in 1 .. i /\ o \in 1 .. Len(pr) + 1 /\ i + 1 \in 1 .. Len(pr) + 1 /\ o <= i + 1 /\ i \in 1 .. Len(pr) + 1
  BY <1>2, <1>3
<1>5. H[i + 1].scope = Append(c, <<>>)
  <2>1. Entered(pr, S, H, i) /\ S[i] # <<>>
    BY <1>2, <1>4
  <2>2. c = Front(H[i].scope)
    BY <1>1, <1>2, <2>1 DEF Entered, Owner
  <2>3. PICK q, lp, sv : q = Append(c, <<>>) /\ lp = H[i].loop /\ sv = H[i].saved
    OBVIOUS
  <2>4. H[i + 1] = Walk(q, lp, sv)
    BY <2>2, <2>3 DEF Moves, Push, Pop
  <2>5. H[i + 1].scope = q
    BY <2>4, Walks
  <2> QED BY <2>3, <2>5
<1>6. Within(S[o], S[i + 1])
  <2>1. PICK s, t, u : s = S[i] /\ t = S[i + 1] /\ u = S[o]
    OBVIOUS
  <2>2. Len(t) = Len(s) /\ \A k \in 1 .. Len(s) - 1 : t[k] = s[k]
    <3>1. Passed(pr, S, i)
      BY Passing
    <3> QED BY <2>1, <3>1 DEF Passed
  <2>3. s \in Seq(Below(i - 1)) /\ s # <<>> /\ Len(s) \in Nat \ {0}
    <3>1. Stacked(pr, S, i)
      BY StackAt
    <3> QED BY <1>2, <2>1, <3>1 DEF Stacked
  <2>4. PICK A : A = Below(i - 1)
    OBVIOUS
  <2>5. u = Front(s) /\ s \in Seq(A)
    BY <1>2, <2>1, <2>3, <2>4
  <2>6. Len(u) = Len(s) - 1 /\ \A k \in 1 .. Len(s) - 1 : u[k] = s[k]
    BY <2>3, <2>5, FrontOf
  <2>7. Len(u) <= Len(t) /\ \A k \in 1 .. Len(u) : u[k] = t[k]
    BY ONLY <2>2, <2>3, <2>6
  <2> QED BY <2>1, <2>7 DEF Within
<1>7. Sees(S, c, i + 1)
  <2>1. Sees(S, c, o)
    BY <1>1, <1>4
  <2> QED BY <1>4, <1>6, <2>1, SeesMore
<1>8. Sequence(c) /\ Len(c) >= 2
  <2>1. Shaped(pr, S, H, o)
    BY <1>4
  <2> QED BY <1>1, <2>1 DEF Shaped, Sequence
<1>9. PICK q : q = <<>>
  OBVIOUS
<1>10. \A e \in 1 .. Len(q) : Seen(S, i + 1, q[e])
  BY <1>9
<1>11. Sees(S, Append(c, q), i + 1)
  BY <1>7, <1>8, <1>10, SeesPush
<1> QED BY <1>5, <1>9, <1>11

LEMMA SeesEnd ==
  ASSUME NEW pr, NEW S, NEW H, Nested(pr, S), NEW i \in 1 .. Len(pr),
         Moves(pr[i], H[i], H[i + 1], i), pr[i].k = "end",
         \A j \in 1 .. i : Shaped(pr, S, H, j) /\ Entered(pr, S, H, j) /\ Sees(S, H[j].scope, j)
  PROVE  Sees(S, H[i + 1].scope, i + 1)
<1>1. PICK o : o = Owner(S, i)
  OBVIOUS
<1>2. o \in 1 .. i - 1 /\ S[i + 1] = S[o]
  BY <1>1, Under
<1>3. Len(pr) \in Nat
  BY Blockwise
<1>4. o \in 1 .. i /\ o \in 1 .. Len(pr) + 1 /\ i + 1 \in 1 .. Len(pr) + 1 /\ o <= i + 1
  BY <1>2, <1>3
<1>5. H[i + 1].scope = H[o].scope
  <2>1. \A j \in 1 .. i : Shaped(pr, S, H, j) /\ Entered(pr, S, H, j)
    OBVIOUS
  <2> QED BY <1>1, <2>1, WalkEnd DEF Owner
<1>6. Within(S[o], S[i + 1])
  <2>1. Len(S[o]) \in Nat
    BY <1>4, Blockwise
  <2> QED BY <1>2, <2>1, WithinSelf
<1>7. Sees(S, H[o].scope, o)
  BY <1>4
<1> QED BY <1>4, <1>5, <1>6, <1>7, SeesMore

\* Wherever the walk has come to.
LEMMA SeesAll ==
  ASSUME NEW pr, NEW S, NEW H, NEW bd, Nested(pr, S), Walked(pr, H, bd, Len(pr) + 1)
  PROVE  \A i \in 1 .. Len(pr) + 1 : Sees(S, H[i].scope, i)
<1> DEFINE Bad == {i \in 1 .. Len(pr) + 1 : ~Sees(S, H[i].scope, i)}
<1>0. PICK n : n = Len(pr)
  OBVIOUS
<1>1. n \in Nat /\ H[1] = Begun /\ \A i \in 1 .. n : Moves(pr[i], H[i], H[i + 1], i)
  <2>1. n \in Nat
    BY <1>0 DEF Nested
  <2>2. PICK k : k = n + 1
    OBVIOUS
  <2>3. H[1] = Begun /\ \A i \in 1 .. k - 1 : Moves(pr[i], H[i], H[i + 1], i)
    BY <1>0, <2>2 DEF Walked
  <2>4. k - 1 = n
    BY <2>1, <2>2
  <2> QED BY <2>1, <2>3, <2>4
<1>2. \A i \in 1 .. n + 1 : Shaped(pr, S, H, i) /\ Entered(pr, S, H, i)
  BY <1>0, WalkAll
<1>3. SUFFICES ASSUME Bad # {} PROVE FALSE
  OBVIOUS
<1>4. Bad \in SUBSET Nat
  OBVIOUS
<1>5. PICK m \in Bad : \A k \in Bad : m <= k
  BY <1>3, <1>4, Least
<1>6. m # 1
  BY <1>1, SeesStart
<1>7. PICK i \in 1 .. n : m = i + 1
  <2>1. m - 1 \in 1 .. n /\ m = m - 1 + 1
    BY <1>0, <1>1, <1>5, <1>6
  <2> QED BY <2>1
<1>8. \A j \in 1 .. i : Shaped(pr, S, H, j) /\ Entered(pr, S, H, j) /\ Sees(S, H[j].scope, j)
  <2> SUFFICES ASSUME NEW j \in 1 .. i
               PROVE  Shaped(pr, S, H, j) /\ Entered(pr, S, H, j) /\ Sees(S, H[j].scope, j)
    OBVIOUS
  <2>1. j \in 1 .. n + 1 /\ ~(m <= j)
    BY <1>1, <1>7
  <2>2. j \notin Bad
    BY <1>5, <2>1
  <2> QED BY <1>0, <1>2, <2>1, <2>2
<1>9. i \in 1 .. Len(pr) /\ i \in 1 .. i /\ Moves(pr[i], H[i], H[i + 1], i)
  BY <1>0, <1>1, <1>7
<1>10. pr[i] \in Node
  BY <1>9 DEF Nested
<1>11. pr[i].k \in Declarations \cup {"assign", "exit", "if", "else", "case", "arm", "end"} \cup Loops
  BY <1>10, NodeShapes
<1>12. Shaped(pr, S, H, i) /\ Sees(S, H[i].scope, i)
  BY <1>8, <1>9
<1>13. Sees(S, H[i + 1].scope, i + 1)
  <2>1. CASE pr[i].k \in Declarations
    BY <1>9, <1>12, <2>1, SeesDecl
  <2>2. CASE pr[i].k \in {"assign", "exit", "case"}
    BY <1>9, <1>12, <2>2, SeesCase
  <2>3. CASE pr[i].k \in {"if", "arm"} \cup Loops
    BY <1>9, <1>12, <2>3, SeesOpen
  <2>4. CASE pr[i].k = "else"
    BY <1>8, <1>9, <2>4, SeesElse
  <2>5. CASE pr[i].k = "end"
    BY <1>8, <1>9, <2>5, SeesEnd
  <2> QED BY <1>11, <2>1, <2>2, <2>3, <2>4, <2>5
<1> QED BY <1>5, <1>7, <1>13

-----------------------------------------------------------------------------
(* Names *)

\* What LexicalReads asks of a body.
Clean == NoShadowing /\ NoTempNames /\ AllInitialised /\ FieldsApart /\ RoomForAll

\* What is visible at a node is in one of the blocks the node is in.
LEMMA HomeIn ==
  ASSUME NEW S, Nested(prog, S), NEW i \in 1 .. Len(prog), Kind(i) \notin {"else", "end"},
         NEW j \in 1 .. i - 1, Kind(j) \notin {"else", "end"}, Within(S[j + 1], S[i])
  PROVE  Home(j) \subseteq Blocks(i)
<1>1. PICK s, t, u : s = S[j] /\ t = S[j + 1] /\ u = S[i]
  OBVIOUS
<1>2. Len(prog) \in Nat
  BY Blockwise
<1>3. j \in 1 .. Len(prog) /\ j \in 1 .. Len(prog) + 1 /\ j + 1 \in 1 .. Len(prog) + 1 /\ i \in 1 .. Len(prog) + 1
  BY <1>2
<1>4. Len(s) \in Nat /\ Len(t) \in Nat /\ Len(u) \in Nat
  BY <1>1, <1>3, Blockwise
<1>5. Blocks(j) = {s[k].b : k \in 1 .. Len(s)} /\ Blocks(i) = {u[k].b : k \in 1 .. Len(u)}
  BY <1>1, <1>3, BlocksAre
<1>6. Len(t) <= Len(u) /\ \A k \in 1 .. Len(t) : t[k] = u[k]
  BY <1>1 DEF Within
<1>7. Len(s) <= Len(t) /\ \A k \in 1 .. Len(s) : s[k] = t[k]
  <2>1. prog[j].k \notin {"else", "end"}
    BY DEF Kind
  <2>2. Within(S[j], S[j + 1])
    BY <1>3, <2>1, WithinNext
  <2> QED BY <1>1, <2>2 DEF Within
<1>8. Blocks(j) \subseteq Blocks(i)
  <2>1. \A k \in 1 .. Len(s) : k \in 1 .. Len(u) /\ s[k] = u[k]
    BY ONLY <1>4, <1>6, <1>7
  <2> QED BY <1>5, <2>1
<1>9. ASSUME Kind(j) \in {"for", "arm"}
      PROVE  j \in Blocks(i)
  <2>1. Len(t) = Len(s) + 1 /\ t[Len(s) + 1] = [o |-> j, b |-> j]
    <3>1. Passed(prog, S, j)
      BY <1>3, Passing
    <3>2. prog[j].k \in Openers
      BY <1>9 DEF Kind, Openers, Loops
    <3> QED BY <1>1, <3>1, <3>2 DEF Passed
  <2>2. Len(s) + 1 \in 1 .. Len(u) /\ u[Len(s) + 1] = t[Len(s) + 1]
    BY ONLY <1>4, <1>6, <2>1
  <2>3. u[Len(s) + 1].b = j
    BY <2>1, <2>2
  <2> QED BY <1>5, <2>2, <2>3
<1> QED BY <1>8, <1>9 DEF Home

\* So a name bound there is not bound again.
LEMMA NotAgain ==
  ASSUME NEW S, Nested(prog, S), NoShadowing, NEW i \in 1 .. Len(prog), Kind(i) \notin {"else", "end"},
         NEW j \in 1 .. i - 1, Kind(j) \notin {"else", "end"}, Within(S[j + 1], S[i]), NEW x \in Binds(j)
  PROVE  x \notin Binds(i)
<1>1. Home(j) \subseteq Blocks(i)
  BY HomeIn
<1>2. i \in Nodes /\ j \in {k \in 1 .. i - 1 : Home(k) \subseteq Blocks(i)}
  BY <1>1 DEF Nodes
<1>3. Binds(i) \cap (Outermost \cup UNION {Binds(k) : k \in {k \in 1 .. i - 1 : Home(k) \subseteq Blocks(i)}}) = {}
  BY <1>2 DEF NoShadowing
<1> QED BY <1>2, <1>3

LEMMA NotOutermost ==
  ASSUME NoShadowing, NEW i \in Nodes, NEW x \in Binds(i)
  PROVE  x \notin Outermost
BY DEF NoShadowing

\* A declaration is of an input, or of a name its node binds.
LEMMA DeclaredName ==
  ASSUME NEW j \in 0 .. Len(prog), NEW v, Declares(prog, j, v), v.name # None
  PROVE  \/ j = 0 /\ \E p \in 1 .. Len(Params) : v = Val(Params[p], Decl("param", p)) /\ v.name = Params[p]
         \/ j \in Nodes /\ Kind(j) \in Declarations \cup {"for"} /\ v.name \in Binds(j)
<1>1. CASE j = 0
  <2>1. PICK p \in 1 .. Len(Params) : v = Val(Params[p], Decl("param", p))
    BY <1>1 DEF Declares
  <2>2. v.name = Params[p]
    BY <2>1 DEF Val
  <2> QED BY <1>1, <2>1, <2>2
<1>2. CASE j # 0
  <2>0. j \in Nodes
    BY <1>2 DEF Nodes
  <2>1. CASE prog[j].k \in Declarations \cup {"for"} /\ v = Val(prog[j].x, Decl("node", j))
    <3>1. v.name = prog[j].x
      BY <2>1 DEF Val
    <3> QED BY <2>0, <2>1, <3>1 DEF Binds, Kind, Declarations
  <2>2. CASE prog[j].k = "for" /\ v = Val(prog[j].key, Decl("key", j))
    <3>1. v.name = prog[j].key
      BY <2>2 DEF Val
    <3> QED BY <2>0, <2>2, <3>1 DEF Binds, Kind, Declarations
  <2> QED BY <1>2, <2>1, <2>2 DEF Declares
<1> QED BY <1>1, <1>2

LEMMA ParamsApart ==
  ASSUME NoShadowing
  PROVE  /\ \A p, q \in 1 .. Len(Params) : Params[p] = Params[q] => p = q
         /\ Range(Params) \cap Range(Outs) = {}
<1>1. PICK m, n, E : m = Len(Params) /\ n = Len(Outs) /\ E = Range(Params) \cup Range(Outs)
  OBVIOUS
<1>2. m \in Nat /\ n \in Nat /\ Params \in Seq(E) /\ Outs \in Seq(E)
  <2>1. Params \in Seq(Range(Params)) /\ Outs \in Seq(Range(Outs))
    BY TuplesAssumption
  <2> QED BY <1>1, <2>1
<1>3. PICK u : u = Params \o Outs
  OBVIOUS
<1>4. /\ u \in Seq(E) /\ Len(u) = m + n
      /\ (\A k \in 1 .. m : u[k] = Params[k]) /\ (\A k \in 1 .. n : u[m + k] = Outs[k])
  BY <1>1, <1>2, <1>3, Joined
<1>5. \A j, k \in 1 .. m + n : u[j] = u[k] => j = k
  <2>1. IsInjective(u)
    BY <1>3 DEF NoShadowing
  <2>2. DOMAIN u = 1 .. m + n
    BY <1>2, <1>4
  <2> QED BY <2>1, <2>2 DEF IsInjective
<1>6. ASSUME NEW p \in 1 .. m, NEW q \in 1 .. m, Params[p] = Params[q]
      PROVE  p = q
  <2>1. p \in 1 .. m + n /\ q \in 1 .. m + n
    BY <1>2
  <2> QED BY <1>4, <1>5, <1>6, <2>1
<1>7. ASSUME NEW p \in 1 .. m, NEW q \in 1 .. n, Params[p] = Outs[q]
      PROVE  FALSE
  <2>1. p \in 1 .. m + n /\ m + q \in 1 .. m + n /\ p # m + q
    BY <1>2
  <2> QED BY <1>4, <1>5, <1>7, <2>1
<1>8. Range(Params) = {Params[p] : p \in 1 .. m} /\ Range(Outs) = {Outs[q] : q \in 1 .. n}
  <2>1. DOMAIN Params = 1 .. m /\ DOMAIN Outs = 1 .. n
    BY <1>1, <1>2
  <2> QED BY <2>1 DEF Range
<1> QED BY <1>1, <1>6, <1>7, <1>8

\* Two declarations of a name that can both be read at a node are one.
LEMMA OneOf ==
  ASSUME NEW S, Nested(prog, S), NoShadowing, NEW n \in 0 .. Len(prog) + 1,
         NEW j \in 0 .. Len(prog), NEW k \in 0 .. Len(prog), j <= k,
         NEW v, NEW w, Declares(prog, j, v), Declares(prog, k, w), v.name = w.name, v.name # None,
         Covers(prog, S, j, n), Covers(prog, S, k, n)
  PROVE  v.d = w.d
<1>1. CASE k = 0
  <2>0. j = 0 /\ 0 \notin Nodes
    BY <1>1 DEF Nodes
  <2>1. PICK p \in 1 .. Len(Params) : v = Val(Params[p], Decl("param", p)) /\ v.name = Params[p]
    BY <2>0, DeclaredName
  <2>2. PICK q \in 1 .. Len(Params) : w = Val(Params[q], Decl("param", q)) /\ w.name = Params[q]
    <3>1. k \notin Nodes /\ w.name # None
      BY <1>1, <2>0
    <3> QED BY <3>1, DeclaredName
  <2>3. p = q
    BY <2>1, <2>2, ParamsApart
  <2> QED BY <2>1, <2>2, <2>3
<1>2. CASE k # 0 /\ j = k
  <2>1. PICK x, y, i : x = prog[k].x /\ y = prog[k].key /\ i = k
    OBVIOUS
  <2>2. /\ v = Val(x, Decl("node", i)) \/ (Kind(k) = "for" /\ v = Val(y, Decl("key", i)))
        /\ w = Val(x, Decl("node", i)) \/ (Kind(k) = "for" /\ w = Val(y, Decl("key", i)))
    BY <1>2, <2>1 DEF Declares, Kind
  <2>3. Kind(k) = "for" /\ y # None => y # x
    <3>1. k \in Nodes
      BY <1>2 DEF Nodes
    <3> QED BY <2>1, <3>1 DEF NoShadowing
  <2>4. \A d : Val(x, d).name = x /\ Val(y, d).name = y
    BY DEF Val
  <2> QED BY <2>2, <2>3, <2>4
<1>3. CASE j < k
  <2>1. k \in Nodes /\ Kind(k) \in Declarations \cup {"for"} /\ w.name \in Binds(k) /\ k \in 1 .. Len(prog)
    <3>1. k # 0
      BY <1>3
    <3>2. w.name # None
      OBVIOUS
    <3> QED BY <3>1, <3>2, DeclaredName
  <2>2. k <= n
    BY DEF Covers
  <2>3. Len(prog) \in Nat
    BY Blockwise
  <2>4. CASE j = 0
    <3>1. PICK p \in 1 .. Len(Params) : v.name = Params[p]
      BY <2>4, DeclaredName DEF Nodes
    <3>2. v.name \in Outermost
      BY <3>1, TuplesAssumption DEF Outermost
    <3> QED BY <2>1, <3>2, NotOutermost
  <2>5. CASE j # 0
    <3>1. Kind(j) \in Declarations \cup {"for"} /\ v.name \in Binds(j)
      BY <2>5, DeclaredName
    <3>2. k \in 1 .. n /\ j \in Nat /\ j \in 1 .. k - 1
      BY <1>3, <2>1, <2>2, <2>5
    <3>6. n \in 1 .. Len(prog) + 1
      BY <2>3, <3>2
    <3>3. Within(S[j + 1], S[k])
      BY <1>3, <3>2, <3>6, CoversBetween
    <3>4. Kind(j) \notin {"else", "end"} /\ Kind(k) \notin {"else", "end"}
      BY <2>1, <3>1 DEF Declarations
    <3>5. v.name \notin Binds(k)
      BY <2>1, <3>1, <3>2, <3>3, <3>4, NotAgain
    <3> QED BY <2>1, <3>5
  <2> QED BY <2>4, <2>5
<1> QED BY <1>1, <1>2, <1>3

\* Names the compiler makes up are not in the text.
LEMMA MadeUp ==
  ASSUME NoTempNames, tmp_counter \in Nat, NEW v, Temporary(v, tmp_counter)
  PROVE  /\ v.name \notin Outermost /\ \A j \in Nodes : v.name \notin Binds(j)
         /\ \E t \in 0 .. tmp_counter - 1 : v.name = TmpName(t) /\ v.d = Decl("temp", t)
<1>1. PICK t \in 0 .. tmp_counter - 1 : v = Val(TmpName(t), Decl("temp", t))
  BY DEF Temporary
<1>2. v.name = TmpName(t) /\ v.d = Decl("temp", t)
  BY <1>1 DEF Val
<1>3. t \in 0 .. tmp_counter
  OBVIOUS
<1>4. v.name \in Temps
  BY <1>2, <1>3 DEF Temps
<1> QED BY <1>2, <1>4 DEF NoTempNames

\* An instruction with a destination is one of a node, or copies an input.
LEMMA WriterAt ==
  ASSUME NEW S, Compiles(S), NEW tc, Lines(prog, S, code, tc), NEW p \in 1 .. Len(code), code[p].dst.name # None
  PROVE  /\ code[p].at \in 0 .. Len(prog)
         /\ Declares(prog, code[p].at, code[p].dst) \/ Temporary(code[p].dst, tc)
<1>1. PICK x : x = code[p]
  OBVIOUS
<1>2. Line(prog, S, code, tc, p)
  BY DEF Lines
<1>3. Declares(prog, x.at, x.dst) \/ Temporary(x.dst, tc)
  BY <1>1, <1>2 DEF Line
<1>4. Len(prog) \in Nat
  BY CodeFacts
<1>5. CASE x.op = "ADD"
  <2>1. \/ x.op = "PARAM" /\ x.at = 0
        \/ x.op = "RET" /\ x.at = Len(prog) + 1
        \/ x.at # 0 /\ \E i \in 1 .. Len(prog) : Good(prog, S, x, i)
    BY <1>1, CodeFacts
  <2>2. PICK i \in 1 .. Len(prog) : Good(prog, S, x, i)
    BY <1>5, <2>1
  <2>3. x.at = i
    BY <1>5, <2>2 DEF Good
  <2> QED BY <1>1, <1>3, <1>4, <2>3
<1>6. CASE x.op # "ADD"
  <2>1. Writes(x)
    BY <1>1, <1>6 DEF Writes
  <2>2. x.at = 0 \/ x.at \in 1 .. Len(prog)
    BY <1>1, <1>2, <2>1 DEF Line
  <2> QED BY <1>1, <1>3, <1>4, <2>2
<1> QED BY <1>5, <1>6

\* Two values alive at a node share no word.
LEMMA OneWord ==
  ASSUME NEW S, Compiles(S), NoShadowing, NoTempNames, tmp_counter \in 0 .. MaxTmps,
         Lines(prog, S, code, tmp_counter), NEW n \in 0 .. Len(prog) + 1,
         NEW p \in 1 .. Len(code), NEW q \in 1 .. Len(code),
         code[p].dst.name = code[q].dst.name, code[p].dst.name # None,
         Covers(prog, S, code[p].at, n), Covers(prog, S, code[q].at, n)
  PROVE  code[p].dst.d = code[q].dst.d
<1>1. PICK v, w, j, k : v = code[p].dst /\ w = code[q].dst /\ j = code[p].at /\ k = code[q].at
  OBVIOUS
<1>2. /\ j \in 0 .. Len(prog) /\ (Declares(prog, j, v) \/ Temporary(v, tmp_counter))
      /\ k \in 0 .. Len(prog) /\ (Declares(prog, k, w) \/ Temporary(w, tmp_counter))
  <2>1. code[q].dst.name # None
    OBVIOUS
  <2> QED BY <1>1, <2>1, WriterAt
<1>3. v.name = w.name /\ v.name # None /\ Covers(prog, S, j, n) /\ Covers(prog, S, k, n)
  BY <1>1
<1>4. Nested(prog, S) /\ Len(prog) \in Nat /\ tmp_counter \in Nat
  BY CodeFacts DEF Compiles, MaxTmps
<1>5. \A i \in 0 .. Len(prog) : \A u : Declares(prog, i, u) /\ u.name # None =>
        u.name \in Outermost \cup UNION {Binds(m) : m \in Nodes}
  <2>1. TAKE i \in 0 .. Len(prog)
  <2>0. TAKE u
  <2>2. HAVE Declares(prog, i, u) /\ u.name # None
  <2>3. CASE \E m \in 1 .. Len(Params) : u.name = Params[m]
    BY <2>3, TuplesAssumption DEF Outermost
  <2>4. CASE i \in Nodes /\ u.name \in Binds(i)
    BY <2>4
  <2> QED BY <2>2, <2>3, <2>4, DeclaredName
<1>6. CASE Temporary(v, tmp_counter) /\ Temporary(w, tmp_counter)
  <2>1. PICK t \in 0 .. tmp_counter - 1 : v.name = TmpName(t) /\ v.d = Decl("temp", t)
    BY <1>4, <1>6, MadeUp
  <2>2. PICK u \in 0 .. tmp_counter - 1 : w.name = TmpName(u) /\ w.d = Decl("temp", u)
    BY <1>4, <1>6, MadeUp
  <2>3. t \in 0 .. MaxTmps /\ u \in 0 .. MaxTmps
    <3>1. MaxTmps \in Nat
      BY TmpNamesAssumption DEF MaxTmps
    <3> QED BY <3>1
  <2>4. t = u
    BY <1>3, <2>1, <2>2, <2>3, TmpNamesAssumption
  <2> QED BY <1>1, <2>1, <2>2, <2>4
<1>7. CASE Temporary(v, tmp_counter) /\ Declares(prog, k, w)
  <2>1. v.name \notin Outermost /\ \A m \in Nodes : v.name \notin Binds(m)
    BY <1>4, <1>7, MadeUp
  <2> QED BY <1>2, <1>3, <1>5, <1>7, <2>1
<1>8. CASE Declares(prog, j, v) /\ Temporary(w, tmp_counter)
  <2>1. w.name \notin Outermost /\ \A m \in Nodes : w.name \notin Binds(m)
    BY <1>4, <1>8, MadeUp
  <2> QED BY <1>2, <1>3, <1>5, <1>8, <2>1
<1>9. CASE Declares(prog, j, v) /\ Declares(prog, k, w)
  <2>1. CASE j <= k
    <3>1. v.d = w.d
      BY <1>2, <1>3, <1>4, <1>9, <2>1, OneOf
    <3> QED BY <1>1, <3>1
  <2>2. CASE k <= j
    <3>1. w.name = v.name /\ w.name # None
      BY <1>3
    <3>2. w.d = v.d
      BY <1>2, <1>3, <1>4, <1>9, <2>2, <3>1, OneOf
    <3> QED BY <1>1, <3>2
  <2> QED BY <1>2, <2>1, <2>2
<1> QED BY <1>2, <1>6, <1>7, <1>8, <1>9

\* Nothing is stored for a name the code is not emitted for.
LEMMA NotKept ==
  ASSUME NEW S, Compiles(S), NoShadowing, NoTempNames, FieldsApart, tmp_counter \in Nat,
         Lines(prog, S, code, tmp_counter), NEW p \in 1 .. Len(code), code[p].dst.name # None
  PROVE  code[p].dst.name \notin Unkept(prog)
<1>1. PICK v, j : v = code[p].dst /\ j = code[p].at
  OBVIOUS
<1>2. j \in 0 .. Len(prog) /\ (Declares(prog, j, v) \/ Temporary(v, tmp_counter)) /\ v.name # None
  BY <1>1, WriterAt
<1>3. SUFFICES ASSUME v.name \in Unkept(prog) PROVE FALSE
  BY <1>1
<1>4. \/ v.name \in Range(Outs)
      \/ v.name \in Range(Globals) /\ v.name \notin Range(Params)
      \/ \E i \in Nodes : Kind(i) = "arm" /\ v.name = prog[i].x
  BY <1>3 DEF Unkept, Nodes, Kind
<1>5. \A i \in Nodes : Kind(i) = "arm" /\ v.name = prog[i].x => v.name \in Binds(i)
  BY <1>2 DEF Binds, Declarations
<1>6. CASE Temporary(v, tmp_counter)
  <2>1. v.name \notin Outermost /\ \A m \in Nodes : v.name \notin Binds(m)
    BY <1>6, MadeUp
  <2> QED BY <1>4, <1>5, <2>1 DEF Outermost
<1>7. CASE Declares(prog, j, v)
  <2>1. CASE \E m \in 1 .. Len(Params) : v.name = Params[m]
    <3>1. v.name \in Range(Params)
      BY <2>1, TuplesAssumption
    <3>2. v.name \in Outermost
      BY <3>1 DEF Outermost
    <3> QED BY <1>4, <1>5, <3>1, <3>2, ParamsApart, NotOutermost
  <2>2. CASE j \in Nodes /\ Kind(j) \in Declarations \cup {"for"} /\ v.name \in Binds(j)
    <3>1. v.name \notin Outermost
      BY <2>2, NotOutermost
    <3>2. Kind(j) # "arm"
      BY <2>2 DEF Declarations
    <3>3. \A i \in Nodes : Kind(i) = "arm" => v.name \notin Binds(i)
      BY <2>2, <3>2 DEF FieldsApart
    <3> QED BY <1>4, <1>5, <3>1, <3>3 DEF Outermost
  <2> QED BY <1>2, <1>7, <2>1, <2>2, DeclaredName
<1> QED BY <1>2, <1>6, <1>7

-----------------------------------------------------------------------------
(* What the lowering takes an operand for *)

\* A value the text can mean at node i: what is visible there, or a name nothing
\* is stored for.
Text(pr, S, i, v) ==
  \/ v.name = None \/ v.name \in Unkept(pr)
  \/ \E j \in 0 .. i - 1 : Declares(pr, j, v) /\ Within(S[j + 1], S[i])

LEMMA SymbolText ==
  ASSUME NEW S, Nested(prog, S), NEW i \in 1 .. Len(prog), NEW e \in Symbols(prog, i), Seen(S, i, e)
  PROVE  Text(prog, S, i, Twin(e))
<1>0. Len(prog) \in Nat /\ i \in Nat \ {0}
  BY Blockwise
<1>1. CASE \E g \in 1 .. Len(Globals) : e = FileScope[g]
  <2>1. PICK g \in 1 .. Len(Globals) : e = FileScope[g]
    BY <1>1
  <2>2. e.d[1] = "global"
    BY <2>1 DEF FileScope, Symbol, Decl
  <2> QED BY <2>2 DEF Seen
<1>2. CASE \E p \in 1 .. Len(Params) : e = Symbol(Params[p], "let", Decl("param", p))
  <2>1. PICK p \in 1 .. Len(Params) : e = Symbol(Params[p], "let", Decl("param", p))
    BY <1>2
  <2>2. Twin(e) = Val(Params[p], Decl("param", p))
    BY <2>1 DEF Twin, Symbol
  <2>3. Declares(prog, 0, Twin(e))
    BY <2>2 DEF Declares
  <2>4. Within(S[0 + 1], S[i])
    <3>1. S[1] = <<>>
      BY DEF Nested
    <3>2. i \in 1 .. Len(prog) + 1
      BY <1>0
    <3>3. Len(S[i]) \in Nat
      BY <3>2, Blockwise
    <3>4. Len(<<>>) = 0
      OBVIOUS
    <3> QED BY <3>1, <3>3, <3>4 DEF Within
  <2>5. 0 \in 0 .. i - 1
    BY <1>0
  <2> QED BY <2>3, <2>4, <2>5 DEF Text
<1>3. CASE \E o \in 1 .. Len(Outs) : e = Symbol(Outs[o], "var", Decl("out", o))
  <2>1. PICK o \in 1 .. Len(Outs) : e.name = Outs[o]
    BY <1>3 DEF Symbol
  <2>2. Outs[o] \in Range(Outs)
    BY TuplesAssumption
  <2>3. Twin(e).name \in Unkept(prog)
    BY <2>1, <2>2 DEF Unkept, Twin, Val
  <2> QED BY <2>3 DEF Text
<1>4. CASE \E j \in {j \in 1 .. i - 1 : prog[j].k \in Declarations \cup {"for", "arm"}} :
             \E kind \in {"let", "var"} : e = Symbol(prog[j].x, kind, Decl("node", j))
  <2>1. PICK j \in 1 .. i - 1 : /\ prog[j].k \in Declarations \cup {"for", "arm"}
                                /\ \E kind \in {"let", "var"} : e = Symbol(prog[j].x, kind, Decl("node", j))
    BY <1>4
  <2>2. e.name = prog[j].x /\ e.d = Decl("node", j)
    BY <2>1 DEF Symbol
  <2>3. CASE prog[j].k = "arm"
    <3>1. j \in 1 .. Len(prog)
      BY <1>0, <2>1
    <3>2. Twin(e).name \in Unkept(prog)
      BY <2>2, <2>3, <3>1 DEF Unkept, Twin, Val
    <3> QED BY <3>2 DEF Text
  <2>4. CASE prog[j].k # "arm"
    <3>1. Twin(e) = Val(prog[j].x, Decl("node", j)) /\ j # 0
      BY <1>0, <2>2 DEF Twin
    <3>2. Declares(prog, j, Twin(e))
      BY <2>1, <2>4, <3>1 DEF Declares
    <3>3. Within(S[j + 1], S[i])
      <4>1. e.d[1] = "node" /\ e.d[2] = j
        BY <2>2 DEF Decl
      <4> QED BY <4>1 DEF Seen
    <3>4. j \in 0 .. i - 1
      BY <1>0
    <3> QED BY <3>2, <3>3, <3>4 DEF Text
  <2> QED BY <2>3, <2>4
<1>5. CASE \E j \in {j \in 1 .. i - 1 : prog[j].k = "for" /\ prog[j].key # None} :
             e = Symbol(prog[j].key, "let", Decl("key", j))
  <2>1. PICK j \in 1 .. i - 1 : prog[j].k = "for" /\ e = Symbol(prog[j].key, "let", Decl("key", j))
    BY <1>5
  <2>2. Twin(e) = Val(prog[j].key, Decl("key", j)) /\ j # 0 /\ e.d = Decl("key", j)
    BY <1>0, <2>1 DEF Twin, Symbol
  <2>3. Declares(prog, j, Twin(e))
    BY <2>1, <2>2 DEF Declares
  <2>4. Within(S[j + 1], S[i])
    <3>1. e.d[1] = "key" /\ e.d[2] = j
      BY <2>2 DEF Decl
    <3> QED BY <3>1 DEF Seen
  <2>5. j \in 0 .. i - 1
    BY <1>0
  <2> QED BY <2>3, <2>4, <2>5 DEF Text
<1> QED BY <1>1, <1>2, <1>3, <1>4, <1>5 DEF Symbols

LEMMA InChain ==
  ASSUME NEW A, NEW c \in Seq(Seq(A)), NEW s \in 1 .. Len(c), NEW e \in 1 .. Len(c[s])
  PROVE  c[s][e] \in A
<1>1. PICK D, q : D = Seq(A) /\ q = c[s]
  OBVIOUS
<1>2. c \in Seq(D)
  BY <1>1
<1>3. q \in D
  BY <1>1, <1>2
<1> QED BY <1>1, <1>3

\* In chains that look alike for a name the checker knows, lower_expr takes it for
\* what the text means by it.
LEMMA ChainText ==
  ASSUME NEW S, Nested(prog, S), NEW i \in 1 .. Len(prog), NEW c \in Seq(Seq(Symbols(prog, i))), c[1] = FileScope,
         Len(c) >= 2, NEW B, NEW l \in Seq(Seq(B)), Len(c) = Len(l) + 1, Sees(S, c, i),
         NEW y, y # None, Alike(prog, c, l, y), KnownIn(c, y)
  PROVE  Text(prog, S, i, IF Found(l, y) THEN lscope_find(l, y) ELSE Val(y, Decl("global", y)))
<1>1. PICK n : n = Len(l)
  OBVIOUS
<1>2. n \in Nat /\ Len(c) = n + 1
  <2>1. PICK D : D = Seq(B)
    OBVIOUS
  <2>2. l \in Seq(D)
    BY <2>1
  <2> QED BY <1>1, <2>2
<1>3. ASSUME NEW t \in 1 .. n, NEW e \in 1 .. Len(c[t + 1])
      PROVE  c[t + 1][e] \in Symbols(prog, i) /\ Seen(S, i, c[t + 1][e]) /\ Text(prog, S, i, Twin(c[t + 1][e]))
  <2>1. t + 1 \in 1 .. Len(c) /\ t + 1 \in 2 .. Len(c)
    BY <1>2
  <2>2. c[t + 1][e] \in Symbols(prog, i)
    BY <2>1, InChain
  <2>3. Seen(S, i, c[t + 1][e])
    BY <2>1 DEF Sees
  <2> QED BY <2>2, <2>3, SymbolText
<1>4. CASE Found(l, y)
  <2>1. PICK t, g : t = Max(Holding(l, y)) /\ g = Min(Entries(l, y))
    OBVIOUS
  <2>2. t \in Holding(l, y) /\ g \in Entries(l, y)
    BY <1>4, <2>1, FindNames
  <2>3. t \in 1 .. n /\ g \in 1 .. Len(l[t]) /\ l[t][g].name = y
    <3>1. Entries(l, y) = {h \in 1 .. Len(l[t]) : l[t][h].name = y}
      BY <2>1 DEF Entries
    <3> QED BY <1>1, <2>2, <3>1 DEF Holding
  <2>4. lscope_find(l, y) = l[t][g]
    BY <2>1 DEF lscope_find
  <2>5. PICK e \in 1 .. Len(c[t + 1]) : l[t][g] = Twin(c[t + 1][e])
    BY <1>1, <2>3 DEF Alike
  <2>6. Text(prog, S, i, l[t][g])
    BY <1>3, <2>3, <2>5
  <2> QED BY <1>4, <2>4, <2>6
<1>5. CASE ~Found(l, y)
  <2>1. PICK v : v = Val(y, Decl("global", y))
    OBVIOUS
  <2>2. v.name = y
    BY <2>1 DEF Val
  <2>3. \A t \in 1 .. n : \A f \in 1 .. Len(l[t]) : l[t][f].name # y
    BY <1>1, <1>5 DEF Found, Holding
  <2>4. ASSUME NEW t \in 1 .. n, NEW e \in 1 .. Len(c[t + 1]), c[t + 1][e].name = y
        PROVE  c[t + 1][e].d[1] = "node" /\ prog[c[t + 1][e].d[2]].k = "arm"
    <3>1. SUFFICES ASSUME NEW f \in 1 .. Len(l[t]), l[t][f] = Twin(c[t + 1][e])
                   PROVE  FALSE
      BY <1>1, <2>4 DEF Alike
    <3>2. l[t][f].name = y
      BY <2>4, <3>1 DEF Twin, Val
    <3> QED BY <2>3, <3>2
  <2>5. PICK s \in 1 .. Len(c) : \E e \in 1 .. Len(c[s]) : c[s][e].name = y
    BY DEF KnownIn, Holding
  <2>6. PICK e \in 1 .. Len(c[s]) : c[s][e].name = y
    BY <2>5
  <2>7. y \in Unkept(prog)
    <3>1. CASE s = 1
      <4>1. e \in 1 .. Len(Globals) /\ c[s][e].name = Globals[e]
        <5>1. Len(Globals) \in Nat
          BY GlobalsAssumption
        <5>2. Len(FileScope) = Len(Globals)
          BY <5>1 DEF FileScope
        <5>3. e \in 1 .. Len(Globals)
          BY <3>1, <5>2
        <5>4. c[s][e] = Symbol(Globals[e], "var", Decl("global", Globals[e]))
          BY <3>1, <5>3 DEF FileScope
        <5> QED BY <5>3, <5>4 DEF Symbol
      <4>2. y \in Range(Globals)
        BY <2>6, <4>1, GlobalsAssumption
      <4>3. y \notin Range(Params)
        <5>1. SUFFICES ASSUME y \in Range(Params) PROVE FALSE
          OBVIOUS
        <5>2. PICK q \in 1 .. Len(Params) : y = Params[q]
          <6>1. DOMAIN Params = 1 .. Len(Params)
            BY TuplesAssumption
          <6> QED BY <5>1, <6>1 DEF Range
        <5>3. PICK x : x = Symbol(y, "let", Decl("param", q))
          OBVIOUS
        <5>4. x.name = y /\ x.d[1] = "param"
          BY <5>3 DEF Symbol, Decl
        <5>5. \E f \in 1 .. Len(c[2]) : c[2][f] = x
          BY <5>2, <5>3 DEF Sees
        <5>6. 1 \in 1 .. n /\ 2 = 1 + 1
          BY <1>2
        <5>7. PICK f \in 1 .. Len(c[1 + 1]) : c[1 + 1][f] = x
          BY <5>5, <5>6
        <5> QED BY <2>4, <5>4, <5>6, <5>7
      <4> QED BY <4>2, <4>3 DEF Unkept
    <3>2. CASE s # 1
      <4>1. PICK t \in 1 .. n : s = t + 1
        <5>1. s - 1 \in 1 .. n /\ s = s - 1 + 1
          BY <1>2, <3>2
        <5> QED BY <5>1
      <4>2. c[s][e].d[1] = "node" /\ prog[c[s][e].d[2]].k = "arm"
        BY <2>4, <2>6, <4>1
      <4>3. c[s][e] \in Symbols(prog, i) /\ Text(prog, S, i, Twin(c[s][e]))
        BY <1>3, <4>1
      <4>4. PICK j \in 1 .. i - 1 : c[s][e].name = prog[j].x /\ c[s][e].d = Decl("node", j)
        <5>1. PICK w \in Symbols(prog, i) : w = c[s][e]
          BY <4>3
        <5>2. w.d[1] = "node"
          BY <4>2, <5>1
        <5>3. \A g \in 1 .. Len(Globals) : FileScope[g].d[1] = "global"
          BY DEF FileScope, Symbol, Decl
        <5>4. \A x, k : /\ Symbol(x, "let", Decl("param", k)).d[1] = "param"
                        /\ Symbol(x, "var", Decl("out", k)).d[1] = "out"
                        /\ Symbol(x, "let", Decl("key", k)).d[1] = "key"
          BY DEF Symbol, Decl
        <5>5. \E j \in {j \in 1 .. i - 1 : prog[j].k \in Declarations \cup {"for", "arm"}} :
                \E kind \in {"let", "var"} : w = Symbol(prog[j].x, kind, Decl("node", j))
          <6>1. ~\E g \in 1 .. Len(Globals) : w = FileScope[g]
            BY <5>2, <5>3
          <6>2. ~\E p \in 1 .. Len(Params) : w = Symbol(Params[p], "let", Decl("param", p))
            BY <5>2, <5>4
          <6>3. ~\E o \in 1 .. Len(Outs) : w = Symbol(Outs[o], "var", Decl("out", o))
            BY <5>2, <5>4
          <6>4. ~\E j \in {j \in 1 .. i - 1 : prog[j].k = "for" /\ prog[j].key # None} :
                   w = Symbol(prog[j].key, "let", Decl("key", j))
            BY <5>2, <5>4
          <6> QED BY ONLY w \in Symbols(prog, i), <6>1, <6>2, <6>3, <6>4 DEF Symbols
        <5> QED BY <5>1, <5>5 DEF Symbol
      <4>5. c[s][e].d[2] = j /\ j \in 1 .. Len(prog)
        <5>1. Len(prog) \in Nat
          BY Blockwise
        <5>2. c[s][e].d[2] = j
          BY <4>4 DEF Decl
        <5> QED BY <5>1, <5>2
      <4> QED BY <2>6, <4>2, <4>4, <4>5 DEF Unkept
    <3> QED BY <3>1, <3>2
  <2> QED BY <1>5, <2>1, <2>2, <2>7 DEF Text
<1> QED BY <1>4, <1>5

LEMMA NodeText ==
  ASSUME NEW S, NEW H, Ready(S, H), Sees(S, H[lpos].scope, lpos), NoTempNames,
         NEW y, ChecksIn(H[lpos].scope, y)
  PROVE  /\ Text(prog, S, lpos, Operand(lscope, y))
         /\ y \notin Unnamed /\ Found(lscope, y) => Text(prog, S, lpos, lscope_find(lscope, y))
         /\ \A v : v.name # y => Text(prog, S, lpos, Operand(Define(lscope, v), y))
<1>1. PICK c, i, l : c = H[lpos].scope /\ i = lpos /\ l = lscope
  OBVIOUS
<1>2. c \in Seq(Seq(Symbols(prog, i))) /\ c[1] = FileScope /\ Len(c) >= 2
  BY <1>1 DEF Ready, Shaped
<1>3. PICK B : l \in Seq(Seq(B)) /\ Len(c) = Len(l) + 1
  BY <1>1 DEF Ready, Following, Simulates
<1>4. l # <<>> /\ i \in 1 .. Len(prog) /\ Nested(prog, S) /\ Sees(S, c, i)
  BY <1>1, Readies DEF Ready
<1>5. CASE y \in Unnamed
  <2>1. \A m : Operand(m, y) = Imm
    BY <1>5 DEF Operand
  <2>2. Text(prog, S, i, Imm)
    BY DEF Text, Imm, Val
  <2> QED BY <1>1, <1>5, <2>1, <2>2
<1>6. CASE y \notin Unnamed
  <2>1. KnownIn(c, y) /\ y # None
    BY <1>1, <1>6 DEF ChecksIn, Unnamed
  <2>2. Alike(prog, c, l, y)
    BY <1>1, <2>1, NodeAlike
  <2>3. \A m : Operand(m, y) = IF Found(m, y) THEN lscope_find(m, y) ELSE Val(y, Decl("global", y))
    BY <1>6 DEF Operand
  <2>4. Text(prog, S, i, IF Found(l, y) THEN lscope_find(l, y) ELSE Val(y, Decl("global", y)))
    BY <1>2, <1>3, <1>4, <2>1, <2>2, ChainText
  <2>5. ASSUME NEW v, v.name # y
        PROVE  Text(prog, S, i, Operand(Define(l, v), y))
    <3>1. PICK D, m : D = B \cup {v} /\ m = Define(l, v)
      OBVIOUS
    <3>2. l \in Seq(Seq(D)) /\ v \in D
      BY <1>3, <3>1, Wider
    <3>3. m \in Seq(Seq(D)) /\ Len(m) = Len(l)
      BY <1>4, <3>1, <3>2, Defines
    <3>4. Alike(prog, c, m, y)
      BY <1>3, <1>4, <2>2, <2>5, <3>1, AlikeDefine
    <3>5. Len(c) = Len(m) + 1
      BY <1>3, <3>3
    <3>6. Text(prog, S, i, IF Found(m, y) THEN lscope_find(m, y) ELSE Val(y, Decl("global", y)))
      BY <1>2, <1>4, <2>1, <3>3, <3>4, <3>5, ChainText
    <3> QED BY <2>3, <3>1, <3>6
  <2>6. Text(prog, S, i, Operand(l, y)) /\ (Found(l, y) => Text(prog, S, i, lscope_find(l, y)))
    <3>1. CASE Found(l, y)
      BY <2>3, <2>4, <3>1
    <3>2. CASE ~Found(l, y)
      BY <2>3, <2>4, <3>2
    <3> QED BY <3>1, <3>2
  <2> QED BY <1>1, <2>5, <2>6
<1> QED BY <1>5, <1>6

\* A declaration that shadows nothing does not read its own name.
LEMMA NotItself ==
  ASSUME NEW S, Nested(prog, S), NoShadowing, NEW i \in 1 .. Len(prog), Kind(i) \in Declarations,
         NEW c \in Seq(Seq(Symbols(prog, i))), c[1] = FileScope, Sees(S, c, i),
         NEW y, y # None, KnownIn(c, y)
  PROVE  prog[i].x # y
<1>1. SUFFICES ASSUME prog[i].x = y PROVE FALSE
  OBVIOUS
<1>2. i \in Nodes /\ y \in Binds(i) /\ Kind(i) \notin {"else", "end"} /\ Len(prog) \in Nat
  <2>1. Len(prog) \in Nat
    BY Blockwise
  <2> QED BY <1>1, <2>1 DEF Nodes, Binds, Declarations
<1>3. PICK s \in 1 .. Len(c) : \E e \in 1 .. Len(c[s]) : c[s][e].name = y
  BY DEF KnownIn, Holding
<1>4. PICK e \in 1 .. Len(c[s]) : c[s][e].name = y
  BY <1>3
<1>5. PICK w \in Symbols(prog, i) : w = c[s][e]
  <2>1. c[s][e] \in Symbols(prog, i)
    BY InChain
  <2> QED BY <2>1
<1>6. w.name = y /\ y \notin Outermost
  BY <1>2, <1>4, <1>5, NotOutermost
<1>7. ~\E g \in 1 .. Len(Globals) : w = FileScope[g]
  <2>1. SUFFICES ASSUME NEW g \in 1 .. Len(Globals), w = FileScope[g] PROVE FALSE
    OBVIOUS
  <2>2. w.name = Globals[g]
    BY <2>1 DEF FileScope, Symbol
  <2>3. Globals[g] \in Range(Globals)
    BY GlobalsAssumption
  <2> QED BY <1>6, <2>2, <2>3 DEF Outermost
<1>8. ~\E p \in 1 .. Len(Params) : w = Symbol(Params[p], "let", Decl("param", p))
  <2>1. SUFFICES ASSUME NEW p \in 1 .. Len(Params), w = Symbol(Params[p], "let", Decl("param", p)) PROVE FALSE
    OBVIOUS
  <2>2. Params[p] \in Range(Params)
    BY TuplesAssumption
  <2>3. w.name = Params[p]
    BY <2>1 DEF Symbol
  <2> QED BY <1>6, <2>2, <2>3 DEF Outermost
<1>9. ~\E o \in 1 .. Len(Outs) : w = Symbol(Outs[o], "var", Decl("out", o))
  <2>1. SUFFICES ASSUME NEW o \in 1 .. Len(Outs), w = Symbol(Outs[o], "var", Decl("out", o)) PROVE FALSE
    OBVIOUS
  <2>2. Outs[o] \in Range(Outs)
    BY TuplesAssumption
  <2>3. w.name = Outs[o]
    BY <2>1 DEF Symbol
  <2> QED BY <1>6, <2>2, <2>3 DEF Outermost
<1>10. PICK j \in 1 .. i - 1 : /\ w.d[1] \in {"node", "key"} /\ w.d[2] = j /\ y \in Binds(j)
                               /\ Kind(j) \notin {"else", "end"}
  <2>1. CASE \E j \in {j \in 1 .. i - 1 : prog[j].k \in Declarations \cup {"for", "arm"}} :
               \E kind \in {"let", "var"} : w = Symbol(prog[j].x, kind, Decl("node", j))
    <3>1. PICK j \in 1 .. i - 1 : /\ prog[j].k \in Declarations \cup {"for", "arm"}
                                  /\ w.name = prog[j].x /\ w.d = Decl("node", j)
      BY <2>1 DEF Symbol
    <3>2. w.d[1] = "node" /\ w.d[2] = j
      BY <3>1 DEF Decl
    <3>3. y \in Binds(j) /\ Kind(j) \notin {"else", "end"}
      BY <1>6, <3>1 DEF Binds, Kind, Declarations
    <3> QED BY <3>2, <3>3
  <2>2. CASE \E j \in {j \in 1 .. i - 1 : prog[j].k = "for" /\ prog[j].key # None} :
               w = Symbol(prog[j].key, "let", Decl("key", j))
    <3>1. PICK j \in 1 .. i - 1 : /\ prog[j].k = "for" /\ w.name = prog[j].key /\ w.d = Decl("key", j)
      BY <2>2 DEF Symbol
    <3>2. w.d[1] = "key" /\ w.d[2] = j
      BY <3>1 DEF Decl
    <3>3. y \in Binds(j) /\ Kind(j) \notin {"else", "end"}
      BY <1>6, <3>1 DEF Binds, Kind, Declarations
    <3> QED BY <3>2, <3>3
  <2> QED BY ONLY w \in Symbols(prog, i), <1>7, <1>8, <1>9, <2>1, <2>2 DEF Symbols
<1>11. s # 1
  <2>1. SUFFICES ASSUME s = 1 PROVE FALSE
    OBVIOUS
  <2>2. Len(Globals) \in Nat
    BY GlobalsAssumption
  <2>3. Len(FileScope) = Len(Globals)
    BY <2>2 DEF FileScope
  <2> QED BY <1>5, <1>7, <2>1, <2>3
<1>12. Within(S[j + 1], S[i])
  <2>1. s \in 2 .. Len(c)
    BY <1>11
  <2>2. Seen(S, i, w)
    BY <1>5, <2>1 DEF Sees
  <2> QED BY <1>10, <2>2 DEF Seen
<1> QED BY <1>2, <1>10, <1>12, NotAgain

-----------------------------------------------------------------------------
(* The lines a node adds to the code *)

\* What instruction k of the instructions t of node i may read, behind the code c.
Supplied(pr, S, c, i, t, k, v) ==
  \/ v.name = None \/ v.name \in Unkept(pr)
  \/ \E q \in 1 .. Len(c) : Writes(c[q]) /\ c[q].dst = v /\ Covers(pr, S, c[q].at, i)
  \/ \E m \in 1 .. k - 1 : Writes(t[m]) /\ t[m].dst = v

Fresh(pr, S, c, i, tc, t, k) ==
  /\ t[k].dst.name = None \/ Declares(pr, i, t[k].dst) \/ Temporary(t[k].dst, tc)
  /\ t[k].op # "LABEL" => t[k].at = i
  /\ Writes(t[k]) => t[k].op # "LABEL" /\ i \in 1 .. Len(pr) /\ pr[i].k \in Writers
  /\ Supplied(pr, S, c, i, t, k, t[k].a) /\ Supplied(pr, S, c, i, t, k, t[k].b)
  /\ Sized(pr, i, t, k)
  /\ t[k].op \in {"STORE", "MEMCPY"} =>
       /\ k > 1 /\ t[k - 1].op = "ADDR" /\ t[k - 1].dst = t[k].a /\ t[k - 1].at = t[k].at
       /\ t[k].dst.name = None /\ t[k].a.name # None
  /\ t[k].op = "LABEL" =>
       /\ t[k].dst.name = None /\ t[k].a.name = None /\ t[k].b.name = None
       /\ \/ t[k].at = i + 1
          \/ t[k].at = i /\ (pr[i].k \in Writers => pr[i].k \in Loops /\ t[k].lab = Gid(pr, i))

LEMMA Cat ==
  ASSUME NEW s, NEW t, Sequence(s), Sequence(t)
  PROVE  /\ Sequence(s \o t) /\ Len(s) \in Nat /\ Len(t) \in Nat /\ Len(s \o t) = Len(s) + Len(t)
         /\ \A k \in 1 .. Len(s) : (s \o t)[k] = s[k]
         /\ \A k \in 1 .. Len(t) : (s \o t)[Len(s) + k] = t[k]
<1>1. PICK A, B : s \in Seq(A) /\ t \in Seq(B)
  BY DEF Sequence
<1>2. PICK D : D = A \cup B
  OBVIOUS
<1>3. s \in Seq(D) /\ t \in Seq(D)
  BY <1>1, <1>2
<1>4. Len(s) \in Nat /\ Len(t) \in Nat
  BY <1>1
<1>5. /\ (s \o t) \in Seq(D) /\ Len(s \o t) = Len(s) + Len(t)
      /\ \A k \in 1 .. Len(s) : (s \o t)[k] = s[k]
      /\ \A k \in 1 .. Len(t) : (s \o t)[Len(s) + k] = t[k]
  BY <1>3, Joined
<1> QED BY <1>4, <1>5 DEF Sequence

LEMMA WroteMore ==
  ASSUME NEW pr, NEW S, NEW c, NEW d, NEW p \in Nat, \A q \in 1 .. p : d[q] = c[q], NEW v
  PROVE  Backed(pr, S, c, p, v) => Backed(pr, S, d, p, v)
<1>1. CASE p = 0
  BY <1>1 DEF Backed, Wrote
<1>2. CASE p # 0
  <2>1. p \in 1 .. p /\ \A q \in 1 .. p - 1 : q \in 1 .. p
    BY <1>2
  <2>2. d[p] = c[p] /\ \A q \in 1 .. p - 1 : d[q] = c[q]
    BY <2>1
  <2> QED BY <2>2 DEF Backed, Wrote
<1> QED BY <1>1, <1>2

\* Behind other instructions it is the same.
LEMMA SizedOn ==
  ASSUME NEW pr, NEW i, NEW t, NEW k, Sized(pr, i, t, k), NEW d, NEW p, d[p] = t[k],
         t[k].op = "MEMCPY" => d[p - 1] = t[k - 1],
         \A m \in 1 .. k - 1 : \E n \in 1 .. p - 1 : d[n] = t[m]
  PROVE  Sized(pr, i, d, p)
<1>1. ASSUME NEW v, \E m \in 1 .. k - 1 : t[m].dst = v
      PROVE  \E n \in 1 .. p - 1 : d[n].dst = v
  <2>1. PICK m \in 1 .. k - 1 : t[m].dst = v
    BY <1>1
  <2>2. PICK n \in 1 .. p - 1 : d[n] = t[m]
    OBVIOUS
  <2> QED BY <2>1, <2>2
<1>2. Broad(pr, i) /\ Declares(pr, i, d[p].dst) /\ d[p].dst.name # None =>
        d[p].op = "ALLOCA" \/ \E n \in 1 .. p - 1 : d[n].dst = d[p].dst
  BY <1>1 DEF Sized
<1>3. d[p].op = "STR_INIT" => Broad(pr, i) /\ Declares(pr, i, d[p].dst) /\ d[p].dst.name # None
  BY DEF Sized
<1>4. d[p].op = "MEMCPY" =>
        /\ Broad(pr, i) /\ Declares(pr, i, d[p - 1].a) /\ d[p - 1].a.name # None
        /\ \E n \in 1 .. p - 1 : d[n].dst = d[p - 1].a
  BY <1>1 DEF Sized
<1> QED BY <1>2, <1>3, <1>4 DEF Sized

\* The lines of the code before it stay good.
LEMMA LineStays ==
  ASSUME NEW pr, NEW S, NEW c, NEW d, NEW tc \in Nat, NEW td \in Nat, tc <= td,
         NEW p \in Nat \ {0}, \A q \in 1 .. p : d[q] = c[q], Line(pr, S, c, tc, p)
  PROVE  Line(pr, S, d, td, p)
<1>1. p \in 1 .. p /\ (\A q \in 1 .. p - 1 : q \in 1 .. p) /\ (p > 1 => p - 1 \in 1 .. p)
  OBVIOUS
<1>2. d[p] = c[p] /\ (\A q \in 1 .. p - 1 : d[q] = c[q]) /\ (p > 1 => d[p - 1] = c[p - 1])
  BY <1>1
<1>3. c[p].dst.name = None \/ Declares(pr, c[p].at, c[p].dst) \/ Temporary(c[p].dst, td)
  <2>1. Temporary(c[p].dst, tc) => Temporary(c[p].dst, td)
    <3>1. \A t \in 0 .. tc - 1 : t \in 0 .. td - 1
      OBVIOUS
    <3> QED BY <3>1 DEF Temporary
  <2> QED BY <2>1 DEF Line
<1>4. Backed(pr, S, d, p, c[p].a) /\ Backed(pr, S, d, p, c[p].b)
  <2>1. Backed(pr, S, c, p, c[p].a) /\ Backed(pr, S, c, p, c[p].b)
    BY DEF Line
  <2>2. p \in Nat
    OBVIOUS
  <2> QED BY <2>1, <2>2, WroteMore
<1>5. /\ Writes(c[p]) => c[p].at = 0 \/ (c[p].at \in 1 .. Len(pr) /\ pr[c[p].at].k \in Writers)
      /\ c[p].op \in {"STORE", "MEMCPY"} =>
           /\ p > 1 /\ c[p - 1].op = "ADDR" /\ c[p - 1].dst = c[p].a /\ c[p - 1].at = c[p].at
           /\ c[p].dst.name = None /\ c[p].a.name # None
      /\ c[p].op = "LABEL" =>
           \A q \in 1 .. p - 1 : Writes(c[q]) /\ c[q].at = c[p].at =>
             pr[c[p].at].k \in Loops /\ c[p].lab = Gid(pr, c[p].at)
  BY DEF Line
<1>6. Sized(pr, c[p].at, d, p)
  <2>1. Sized(pr, c[p].at, c, p) /\ (c[p].op = "MEMCPY" => d[p - 1] = c[p - 1])
    BY <1>2, <1>5 DEF Line
  <2> QED BY <1>2, <2>1, SizedOn
<1> QED BY <1>2, <1>3, <1>4, <1>5, <1>6 DEF Line

\* The lines of node i are good behind those before it.
LEMMA LinesOn ==
  ASSUME NEW pr, NEW S, NEW c, Sequence(c), NEW t, Sequence(t), NEW i \in Nat \ {0},
         NEW tc \in Nat, NEW td \in Nat, tc <= td, Lines(pr, S, c, tc),
         \A q \in 1 .. Len(c) : c[q].at \in Nat /\ c[q].at <= i,
         \A k \in 1 .. Len(t) : Fresh(pr, S, c, i, td, t, k)
  PROVE  Lines(pr, S, c \o t, td)
<1>1. PICK d : d = c \o t
  OBVIOUS
<1>2. /\ Sequence(d) /\ Len(c) \in Nat /\ Len(t) \in Nat /\ Len(d) = Len(c) + Len(t)
      /\ \A k \in 1 .. Len(c) : d[k] = c[k]
      /\ \A k \in 1 .. Len(t) : d[Len(c) + k] = t[k]
  BY <1>1, Cat
<1>3. PICK m : m = Len(c)
  OBVIOUS
<1>4. ASSUME NEW p \in 1 .. m
      PROVE  Line(pr, S, d, td, p)
  <2>1. p \in Nat \ {0} /\ \A q \in 1 .. p : q \in 1 .. Len(c)
    BY <1>2, <1>3
  <2>2. (\A q \in 1 .. p : d[q] = c[q]) /\ Line(pr, S, c, tc, p)
    BY <1>2, <1>3, <2>1 DEF Lines
  <2> QED BY <2>1, <2>2, LineStays
<1>5. ASSUME NEW k \in 1 .. Len(t)
      PROVE  Line(pr, S, d, td, m + k)
  <2>1. PICK p : p = m + k
    OBVIOUS
  <2>2. /\ p \in Nat /\ d[p] = t[k] /\ m \in Nat /\ k \in Nat \ {0} /\ p > m
        /\ \A q \in 1 .. m : q \in 1 .. p - 1 /\ d[q] = c[q]
    <3>1. m \in Nat /\ k \in Nat \ {0} /\ d[m + k] = t[k] /\ \A q \in 1 .. m : d[q] = c[q]
      <4>1. k \in Nat \ {0}
        BY <1>2
      <4>2. d[m + k] = t[k]
        BY <1>2, <1>3
      <4> QED BY <1>2, <1>3, <4>1, <4>2
    <3>2. p \in Nat /\ p > m /\ \A q \in 1 .. m : q \in 1 .. p - 1
      BY ONLY <2>1, <3>1
    <3> QED BY <2>1, <3>1, <3>2
  <2>3. ASSUME NEW n \in 1 .. k - 1
        PROVE  m + n \in 1 .. p - 1 /\ d[m + n] = t[n] /\ n \in 1 .. Len(t)
    <3>1. m \in Nat /\ Len(t) \in Nat /\ k \in 1 .. Len(t)
      BY <1>2, <1>3
    <3>2. m + n \in 1 .. p - 1 /\ n \in 1 .. Len(t)
      BY ONLY <2>1, <2>3, <3>1
    <3> QED BY <1>2, <1>3, <3>2
  <2>4. Fresh(pr, S, c, i, td, t, k)
    OBVIOUS
  <2>5. ASSUME NEW v, Supplied(pr, S, c, i, t, k, v), d[p].at = i
        PROVE  Backed(pr, S, d, p, v)
    <3>1. CASE v.name = None \/ v.name \in Unkept(pr)
      BY <3>1 DEF Backed
    <3>2. CASE \E q \in 1 .. Len(c) : Writes(c[q]) /\ c[q].dst = v /\ Covers(pr, S, c[q].at, i)
      <4>1. PICK q \in 1 .. m : Writes(c[q]) /\ c[q].dst = v /\ Covers(pr, S, c[q].at, i)
        BY <1>3, <3>2
      <4>2. q \in 1 .. p - 1 /\ d[q] = c[q]
        BY <2>2, <4>1
      <4> QED BY <2>5, <4>1, <4>2 DEF Backed, Wrote
    <3>3. CASE \E n \in 1 .. k - 1 : Writes(t[n]) /\ t[n].dst = v
      <4>1. PICK n \in 1 .. k - 1 : Writes(t[n]) /\ t[n].dst = v
        BY <3>3
      <4>2. m + n \in 1 .. p - 1 /\ d[m + n] = t[n] /\ n \in 1 .. Len(t)
        BY <2>3, <4>1
      <4>3. t[n].at = i
        <5>1. Fresh(pr, S, c, i, td, t, n)
          BY <4>2
        <5> QED BY <4>1, <5>1 DEF Fresh
      <4>4. Covers(pr, S, d[m + n].at, d[p].at)
        BY <2>5, <4>2, <4>3 DEF Covers
      <4> QED BY <4>1, <4>2, <4>4 DEF Backed, Wrote
    <3> QED BY <2>5, <3>1, <3>2, <3>3 DEF Supplied
  <2>6. Backed(pr, S, d, p, d[p].a) /\ Backed(pr, S, d, p, d[p].b)
    <3>1. CASE t[k].op # "LABEL"
      BY <2>2, <2>4, <2>5, <3>1 DEF Fresh
    <3>2. CASE t[k].op = "LABEL"
      BY <2>2, <2>4, <3>2 DEF Fresh, Backed
    <3> QED BY <3>1, <3>2
  <2>7. d[p].dst.name = None \/ Declares(pr, d[p].at, d[p].dst) \/ Temporary(d[p].dst, td)
    BY <2>2, <2>4 DEF Fresh
  <2>8. Writes(d[p]) => d[p].at = 0 \/ (d[p].at \in 1 .. Len(pr) /\ pr[d[p].at].k \in Writers)
    BY <2>2, <2>4 DEF Fresh
  <2>9. d[p].op \in {"STORE", "MEMCPY"} =>
          /\ p > 1 /\ d[p - 1].op = "ADDR" /\ d[p - 1].dst = d[p].a /\ d[p - 1].at = d[p].at
          /\ d[p].dst.name = None /\ d[p].a.name # None
    <3>1. SUFFICES ASSUME d[p].op \in {"STORE", "MEMCPY"} PROVE d[p].op \in {"STORE", "MEMCPY"} =>
          /\ p > 1 /\ d[p - 1].op = "ADDR" /\ d[p - 1].dst = d[p].a /\ d[p - 1].at = d[p].at
          /\ d[p].dst.name = None /\ d[p].a.name # None
      OBVIOUS
    <3>2. /\ k > 1 /\ t[k - 1].op = "ADDR" /\ t[k - 1].dst = t[k].a /\ t[k - 1].at = t[k].at
          /\ t[k].dst.name = None /\ t[k].a.name # None
      BY <2>2, <2>4, <3>1 DEF Fresh
    <3>3. k - 1 \in 1 .. k - 1 /\ m + (k - 1) = p - 1 /\ p > 1
      <4>1. k > 1 /\ k \in Nat /\ m \in Nat /\ p = m + k
        BY <2>1, <2>2, <3>2
      <4> QED BY ONLY <4>1
    <3>4. d[p - 1] = t[k - 1]
      BY <2>3, <3>3
    <3> QED BY <2>2, <3>2, <3>3, <3>4
  <2>10. d[p].op = "LABEL" =>
          \A q \in 1 .. p - 1 : Writes(d[q]) /\ d[q].at = d[p].at =>
            pr[d[p].at].k \in Loops /\ d[p].lab = Gid(pr, d[p].at)
    <3>1. SUFFICES ASSUME d[p].op = "LABEL", NEW q \in 1 .. p - 1, Writes(d[q]), d[q].at = d[p].at
                   PROVE  pr[d[p].at].k \in Loops /\ d[p].lab = Gid(pr, d[p].at)
      OBVIOUS
    <3>2. t[k].at = i + 1 \/ (t[k].at = i /\ (pr[i].k \in Writers => pr[i].k \in Loops /\ t[k].lab = Gid(pr, i)))
      BY <2>2, <2>4, <3>1 DEF Fresh
    <3>3. d[q].at \in Nat /\ d[q].at <= i /\ (d[q].at = i => pr[i].k \in Writers)
      <4>1. CASE q \in 1 .. m
        <5>1. d[q] = c[q] /\ q \in 1 .. Len(c) /\ c[q].at \in Nat /\ c[q].at <= i
          BY <1>2, <1>3, <4>1
        <5>2. Line(pr, S, c, tc, q)
          BY <5>1 DEF Lines
        <5> QED BY <3>1, <5>1, <5>2 DEF Line
      <4>2. CASE q \notin 1 .. m
        <5>1. PICK n : n = q - m
          OBVIOUS
        <5>2. n \in 1 .. k - 1 /\ q = m + n
          BY <2>1, <2>2, <4>2, <5>1
        <5>3. d[q] = t[n] /\ n \in 1 .. Len(t)
          BY <2>3, <5>2
        <5>4. Fresh(pr, S, c, i, td, t, n)
          BY <5>3
        <5> QED BY <3>1, <5>3, <5>4 DEF Fresh
      <4> QED BY <4>1, <4>2
    <3>4. d[p].at = i
      <4>1. d[q].at # i + 1
        BY <3>3
      <4> QED BY <2>2, <3>1, <3>2, <4>1
    <3> QED BY <2>2, <3>1, <3>2, <3>3, <3>4
  <2>11. Sized(pr, d[p].at, d, p)
    <3>1. CASE t[k].op = "LABEL"
      <4>1. d[p].op = "LABEL" /\ d[p].dst.name = None
        BY <2>2, <2>4, <3>1 DEF Fresh
      <4> QED BY <4>1 DEF Sized
    <3>2. CASE t[k].op # "LABEL"
      <4>1. d[p].at = i /\ Sized(pr, i, t, k)
        BY <2>2, <2>4, <3>2 DEF Fresh
      <4>2. ASSUME t[k].op = "MEMCPY" PROVE d[p - 1] = t[k - 1]
        <5>1. k > 1 /\ k \in Nat /\ m \in Nat /\ p = m + k
          BY <2>1, <2>2, <2>4, <4>2 DEF Fresh
        <5>2. k - 1 \in 1 .. k - 1 /\ m + (k - 1) = p - 1
          BY ONLY <5>1
        <5>3. d[m + (k - 1)] = t[k - 1]
          BY <2>3, <5>2
        <5> QED BY <5>2, <5>3
      <4>3. \A n \in 1 .. k - 1 : \E q \in 1 .. p - 1 : d[q] = t[n]
        BY <2>3
      <4> QED BY <2>2, <4>1, <4>2, <4>3, SizedOn
    <3> QED BY <3>1, <3>2
  <2>12. Line(pr, S, d, td, p)
    BY <2>6, <2>7, <2>8, <2>9, <2>10, <2>11 DEF Line
  <2> QED BY <2>1, <2>12
<1>6. ASSUME NEW p \in 1 .. Len(d)
      PROVE  p \in 1 .. m \/ \E k \in 1 .. Len(t) : p = m + k
  <2>1. CASE p <= m
    BY <1>2, <1>3, <2>1
  <2>2. CASE p > m
    <3>1. p - m \in 1 .. Len(t) /\ p = m + (p - m)
      BY <1>2, <1>3, <2>2
    <3> QED BY <3>1
  <2> QED BY <1>2, <1>3, <2>1, <2>2
<1>7. Lines(pr, S, d, td)
  BY <1>4, <1>5, <1>6 DEF Lines
<1> QED BY <1>1, <1>7

\* The code writes v for node j.
StoredAt(c, v, j) == \E q \in 1 .. Len(c) : Writes(c[q]) /\ c[q].dst = v /\ c[q].at = j

\* What the text declares before node n is written where it is declared.
Settled(pr, c, n) ==
  \A j \in 0 .. n - 1 : \A v : Declares(pr, j, v) /\ v.name # None => StoredAt(c, v, j)

\* What the activation of node o remembers: the index of a for, the subject of
\* a case.
Remembers(pr, S, c, o, f, tc) ==
  /\ pr[o].k = "for" => Temporary(f.idx, tc) /\ StoredAt(c, f.idx, o)
  /\ pr[o].k = "case" => Text(pr, S, o, f.subj)

Kept(pr, S, c, n, ls, tc) == \A k \in 1 .. Len(S[n]) : Remembers(pr, S, c, S[n][k].o, ls[k], tc)

\* The code before node n.
Lined(pr, S, c, tc, n, ls) ==
  /\ tc \in Nat /\ tc <= 7 * (n - 1)
  /\ Lines(pr, S, c, tc) /\ Settled(pr, c, n) /\ Kept(pr, S, c, n, ls, tc)

LEMMA StoredMore ==
  ASSUME NEW c, Sequence(c), NEW t, Sequence(t), NEW j
  PROVE  /\ \A v : StoredAt(c, v, j) => StoredAt(c \o t, v, j)
         /\ \A k \in 1 .. Len(t) : Writes(t[k]) /\ t[k].at = j => StoredAt(c \o t, t[k].dst, j)
<1>1. PICK d : d = c \o t
  OBVIOUS
<1>2. /\ Len(c) \in Nat /\ Len(t) \in Nat /\ Len(d) = Len(c) + Len(t)
      /\ \A k \in 1 .. Len(c) : d[k] = c[k]
      /\ \A k \in 1 .. Len(t) : d[Len(c) + k] = t[k]
  BY <1>1, Cat
<1>3. ASSUME NEW v, NEW q \in 1 .. Len(c), Writes(c[q]), c[q].dst = v, c[q].at = j
      PROVE  StoredAt(d, v, j)
  <2>1. q \in 1 .. Len(d) /\ d[q] = c[q]
    BY <1>2
  <2> QED BY <1>3, <2>1 DEF StoredAt
<1>4. ASSUME NEW k \in 1 .. Len(t), Writes(t[k]), t[k].at = j
      PROVE  StoredAt(d, t[k].dst, j)
  <2>1. PICK q : q = Len(c) + k
    OBVIOUS
  <2>2. q \in 1 .. Len(d)
    BY <1>2, <2>1
  <2>3. d[q] = t[k]
    BY <1>2, <2>1
  <2> QED BY <1>4, <2>2, <2>3 DEF StoredAt
<1>5. \A v : StoredAt(c, v, j) => StoredAt(d, v, j)
  <2>1. SUFFICES ASSUME NEW v, StoredAt(c, v, j)
                 PROVE  StoredAt(d, v, j)
    OBVIOUS
  <2>2. PICK q \in 1 .. Len(c) : Writes(c[q]) /\ c[q].dst = v /\ c[q].at = j
    BY <2>1 DEF StoredAt
  <2> QED BY <1>3, <2>2
<1> QED BY <1>1, <1>4, <1>5

\* An activation remembers what it did when more code follows.
LEMMA KeptStays ==
  ASSUME NEW pr, NEW S, NEW c, Sequence(c), NEW t, Sequence(t), NEW i, NEW n, NEW tc \in Nat, NEW td \in Nat, tc <= td,
         NEW ls, Kept(pr, S, c, i, ls, tc), NEW ms,
         \A k \in 1 .. Len(S[n]) :
           \/ k \in 1 .. Len(S[i]) /\ S[n][k].o = S[i][k].o /\ ms[k] = ls[k]
           \/ Remembers(pr, S, c \o t, S[n][k].o, ms[k], td)
  PROVE  Kept(pr, S, c \o t, n, ms, td)
<1>1. PICK d : d = c \o t
  OBVIOUS
<1>2. SUFFICES ASSUME NEW k \in 1 .. Len(S[n]), NEW o, o = S[n][k].o
               PROVE  Remembers(pr, S, d, o, ms[k], td)
  BY <1>1 DEF Kept
<1>3. CASE k \in 1 .. Len(S[i]) /\ S[n][k].o = S[i][k].o /\ ms[k] = ls[k]
  <2>1. Remembers(pr, S, c, o, ls[k], tc)
    BY <1>2, <1>3 DEF Kept
  <2>2. StoredAt(c, ls[k].idx, o) => StoredAt(d, ls[k].idx, o)
    BY <1>1, StoredMore
  <2>3. Temporary(ls[k].idx, tc) => Temporary(ls[k].idx, td)
    <3>1. \A x \in 0 .. tc - 1 : x \in 0 .. td - 1
      OBVIOUS
    <3> QED BY <3>1 DEF Temporary
  <2> QED BY <1>3, <2>1, <2>2, <2>3 DEF Remembers
<1>4. CASE Remembers(pr, S, d, S[n][k].o, ms[k], td)
  BY <1>2, <1>4
<1> QED BY <1>1, <1>3, <1>4

\* One node more.
LEMMA LinedOn ==
  ASSUME NEW pr, NEW S, NEW i \in Nat \ {0}, NEW c, Sequence(c), NEW t, Sequence(t),
         NEW tc, NEW ls, Lined(pr, S, c, tc, i, ls), NEW td \in Nat, tc <= td, td <= tc + 7,
         \A q \in 1 .. Len(c) : c[q].at \in Nat /\ c[q].at <= i,
         \A k \in 1 .. Len(t) : Fresh(pr, S, c, i, td, t, k),
         \A v : Declares(pr, i, v) /\ v.name # None => \E k \in 1 .. Len(t) : Writes(t[k]) /\ t[k].dst = v,
         NEW ms, Kept(pr, S, c \o t, i + 1, ms, td)
  PROVE  Lined(pr, S, c \o t, td, i + 1, ms)
<1>1. tc \in Nat /\ tc <= 7 * (i - 1) /\ Lines(pr, S, c, tc) /\ Settled(pr, c, i)
  BY DEF Lined
<1>2. Lines(pr, S, c \o t, td)
  BY <1>1, LinesOn
<1>3. Settled(pr, c \o t, i + 1)
  <2>1. SUFFICES ASSUME NEW j \in 0 .. i, NEW v, Declares(pr, j, v), v.name # None
                 PROVE  StoredAt(c \o t, v, j)
    <3>1. (i + 1) - 1 = i
      OBVIOUS
    <3> QED BY <3>1 DEF Settled
  <2>2. CASE j = i
    <3>1. PICK k \in 1 .. Len(t) : Writes(t[k]) /\ t[k].dst = v
      BY <2>1, <2>2
    <3>2. t[k].at = i
      <4>1. Fresh(pr, S, c, i, td, t, k)
        OBVIOUS
      <4> QED BY <3>1, <4>1 DEF Fresh
    <3> QED BY <2>2, <3>1, <3>2, StoredMore
  <2>3. CASE j # i
    <3>1. j \in 0 .. i - 1
      BY <2>3
    <3>2. StoredAt(c, v, j)
      BY <1>1, <2>1, <3>1 DEF Settled
    <3> QED BY <3>2, StoredMore
  <2> QED BY <2>2, <2>3
<1>4. td <= 7 * ((i + 1) - 1)
  BY <1>1
<1> QED BY <1>2, <1>3, <1>4 DEF Lined

\* What the text can mean at a node is there to be read.
LEMMA TextSupplied ==
  ASSUME NEW S, Nested(prog, S), NEW i \in 1 .. Len(prog), prog[i].k # "end", NEW c, Settled(prog, c, i),
         NEW v, Text(prog, S, i, v), NEW t, NEW k
  PROVE  Supplied(prog, S, c, i, t, k, v)
<1>1. Held(prog, S, i) = S[i]
  BY HeldWithin DEF Kind
<1>2. CASE v.name = None \/ v.name \in Unkept(prog)
  BY <1>2 DEF Supplied
<1>3. CASE v.name # None /\ \E j \in 0 .. i - 1 : Declares(prog, j, v) /\ Within(S[j + 1], S[i])
  <2>1. PICK j \in 0 .. i - 1 : Declares(prog, j, v) /\ Within(S[j + 1], S[i])
    BY <1>3
  <2>2. StoredAt(c, v, j)
    BY <1>3, <2>1 DEF Settled
  <2>3. Covers(prog, S, j, i)
    <3>1. j < i
      OBVIOUS
    <3> QED BY <1>1, <2>1, <3>1 DEF Covers
  <2> QED BY <2>2, <2>3 DEF StoredAt, Supplied
<1> QED BY <1>2, <1>3 DEF Text

\* The activations behind a node that opens and ends no block, that opens one,
\* that ends one.
LEMMA KeptFlat ==
  ASSUME NEW pr, NEW S, Nested(pr, S), NEW i \in 1 .. Len(pr), pr[i].k \notin Openers \cup {"end"},
         NEW c, Sequence(c), NEW t, Sequence(t), NEW tc \in Nat, NEW td \in Nat, tc <= td,
         NEW ls, Kept(pr, S, c, i, ls, tc)
  PROVE  Kept(pr, S, c \o t, i + 1, ls, td)
<1>1. Len(S[i]) \in Nat /\ Len(S[i + 1]) = Len(S[i]) /\ \A k \in 1 .. Len(S[i]) : S[i + 1][k].o = S[i][k].o
  BY Turn
<1>2. \A k \in 1 .. Len(S[i + 1]) : k \in 1 .. Len(S[i]) /\ S[i + 1][k].o = S[i][k].o /\ ls[k] = ls[k]
  BY <1>1
<1> QED BY <1>2, KeptStays

LEMMA KeptPush ==
  ASSUME NEW pr, NEW S, Nested(pr, S), NEW i \in 1 .. Len(pr), pr[i].k \in Openers,
         NEW c, Sequence(c), NEW t, Sequence(t), NEW tc \in Nat, NEW td \in Nat, tc <= td,
         NEW ls, Kept(pr, S, c, i, ls, tc), Sequence(ls), Len(ls) = Len(S[i]),
         NEW f, Remembers(pr, S, c \o t, i, f, td)
  PROVE  Kept(pr, S, c \o t, i + 1, Append(ls, f), td)
<1>1. /\ Len(S[i]) \in Nat /\ Len(S[i + 1]) = Len(S[i]) + 1 /\ S[i + 1][Len(S[i]) + 1].o = i
      /\ \A k \in 1 .. Len(S[i]) : S[i + 1][k].o = S[i][k].o
  BY Turn
<1>2. PICK ms : ms = Append(ls, f)
  OBVIOUS
<1>3. (\A k \in 1 .. Len(ls) : ms[k] = ls[k]) /\ ms[Len(ls) + 1] = f
  BY <1>2, Appends
<1>4. PICK m : m = Len(S[i]) + 1
  OBVIOUS
<1>5. \A k \in 1 .. Len(S[i + 1]) : k \in 1 .. Len(S[i]) \/ k = m
  BY <1>1, <1>4
<1>6. \A k \in 1 .. Len(S[i]) : S[i + 1][k].o = S[i][k].o /\ ms[k] = ls[k]
  BY <1>1, <1>3
<1>7. S[i + 1][m].o = i /\ ms[m] = f
  BY <1>1, <1>3, <1>4
<1>8. \A k \in 1 .. Len(S[i + 1]) :
        \/ k \in 1 .. Len(S[i]) /\ S[i + 1][k].o = S[i][k].o /\ ms[k] = ls[k]
        \/ Remembers(pr, S, c \o t, S[i + 1][k].o, ms[k], td)
  <2> TAKE k \in 1 .. Len(S[i + 1])
  <2>2. CASE k \in 1 .. Len(S[i])
    BY <1>6, <2>2
  <2>3. CASE k = m
    BY <1>7, <2>3
  <2> QED BY <1>5, <2>2, <2>3
<1>9. Kept(pr, S, c \o t, i + 1, ms, td)
  BY <1>8, KeptStays
<1> QED BY <1>2, <1>9

LEMMA KeptPop ==
  ASSUME NEW pr, NEW S, Nested(pr, S), NEW i \in 1 .. Len(pr), pr[i].k = "end",
         NEW c, Sequence(c), NEW t, Sequence(t), NEW tc \in Nat, NEW td \in Nat, tc <= td,
         NEW ls, Kept(pr, S, c, i, ls, tc), Sequence(ls), Len(ls) = Len(S[i])
  PROVE  Kept(pr, S, c \o t, i + 1, Front(ls), td)
<1>1. /\ Len(S[i]) \in Nat /\ Len(S[i]) > 0 /\ Len(S[i + 1]) = Len(S[i]) - 1
      /\ \A k \in 1 .. Len(S[i]) - 1 : S[i + 1][k].o = S[i][k].o
  BY Turn
<1>2. PICK A : ls \in Seq(A)
  BY DEF Sequence
<1>3. \A k \in 1 .. Len(ls) - 1 : Front(ls)[k] = ls[k]
  <2>1. ls # <<>>
    BY <1>1, <1>2
  <2> QED BY <1>2, <2>1, FrontOf
<1>4. PICK ms : ms = Front(ls)
  OBVIOUS
<1>5. \A k \in 1 .. Len(S[i + 1]) : k \in 1 .. Len(S[i]) /\ S[i + 1][k].o = S[i][k].o /\ ms[k] = ls[k]
  BY <1>1, <1>3, <1>4
<1>6. Kept(pr, S, c \o t, i + 1, ms, td)
  BY <1>5, KeptStays
<1> QED BY <1>4, <1>6

\* The lowering at a node of a body that keeps its names apart.
Lining(S, H) ==
  /\ Ready(S, H) /\ Built(S) /\ Sees(S, H[lpos].scope, lpos)
  /\ \E b : Accepts(prog[lpos], H[lpos], lpos, b)
  /\ Clean /\ Len(prog) <= MaxLen
  /\ Lined(prog, S, code, tmp_counter, lpos, lstack)

LEMMA Linings ==
  ASSUME NEW S, NEW H, Lining(S, H)
  PROVE  /\ Nested(prog, S) /\ lpos \in 1 .. Len(prog) /\ lpos \in Nat \ {0} /\ prog[lpos] \in Node
         /\ Sequence(code) /\ Sequence(lstack) /\ Len(lstack) = Len(S[lpos])
         /\ \A q \in 1 .. Len(code) : code[q].at \in Nat /\ code[q].at <= lpos
         /\ tmp_counter \in Nat /\ Settled(prog, code, lpos)
         /\ Kept(prog, S, code, lpos, lstack, tmp_counter)
<1>1. Nested(prog, S) /\ lpos \in 1 .. Len(prog) /\ prog \in Seq(Node)
  BY DEF Lining, Ready, Nested
<1>2. lpos \in Nat \ {0} /\ prog[lpos] \in Node
  BY <1>1
<1>3. Laid(prog, S, code, lpos) /\ Framed(prog, S, lpos, lstack, loop_exit, label_counter)
  BY DEF Lining, Built
<1>4. Sequence(code) /\ Sequence(lstack) /\ Len(lstack) = Len(S[lpos])
  BY <1>3 DEF Laid, Framed
<1>5. ASSUME NEW q \in 1 .. Len(code)
      PROVE  code[q].at \in Nat /\ code[q].at <= lpos
  <2>1. code[q] \in Range(code)
    BY <1>4 DEF Range, Sequence
  <2> QED BY <1>2, <1>3, <2>1, LaidAt
<1> QED BY <1>1, <1>2, <1>4, <1>5 DEF Lining, Lined

\* Temporaries have names, and are the procedure's.
LEMMA TmpNamed ==
  ASSUME NEW S, NEW H, Lining(S, H), NEW k \in 0 .. 6
  PROVE  Tmp(k).name # None /\ \A n \in k + 1 .. 7 : Temporary(Tmp(k), tmp_counter + n)
<1>1. PICK tc, i, L, M : tc = tmp_counter /\ i = lpos /\ L = Len(prog) /\ M = MaxLen
  OBVIOUS
<1>2. tc \in Nat /\ tc <= 7 * (i - 1) /\ i \in 1 .. L /\ L <= M /\ M \in Nat
  BY <1>1, Linings, TmpNamesAssumption DEF Lining, Lined
<1>3. tc + k \in 0 .. 7 * M
  <2>1. tc + k <= 7 * (i - 1) + 6 /\ i <= M
    <3>1. i \in Nat /\ L \in Nat /\ i <= L
      <4>1. L \in Nat
        BY <1>1, Linings, Blockwise
      <4> QED BY ONLY <1>2, <4>1
    <3> QED BY ONLY <1>2, <3>1, k \in 0 .. 6
  <2>2. 7 * (i - 1) + 6 <= 7 * M
    BY ONLY <1>2, <2>1
  <2>3. tc + k \in Nat /\ 7 * M \in Nat /\ 7 * (i - 1) + 6 \in Nat
    BY ONLY <1>2, k \in 0 .. 6
  <2> QED BY ONLY <2>1, <2>2, <2>3
<1>4. TmpName(tc + k) # None
  BY <1>1, <1>3, TmpNamesAssumption DEF MaxTmps
<1>5. Tmp(k) = Val(TmpName(tc + k), Decl("temp", tc + k))
  BY <1>1 DEF Tmp
<1>6. \A n \in k + 1 .. 7 : tc + k \in 0 .. (tc + n) - 1
  BY ONLY <1>2, k \in 0 .. 6
<1>7. Val(TmpName(tc + k), Decl("temp", tc + k)).name = TmpName(tc + k)
  BY DEF Val
<1> QED BY <1>1, <1>4, <1>5, <1>6, <1>7 DEF Temporary

\* Instructions of a node: one that computes or jumps, and a label.
LEMMA FreshPlain ==
  ASSUME NEW pr, NEW S, NEW c, NEW i \in 1 .. Len(pr), NEW tc, NEW t, NEW k,
         t[k].at = i, t[k].op \notin {"LABEL", "STORE", "MEMCPY", "STR_INIT"},
         \/ t[k].dst.name = None
         \/ /\ Broad(pr, i) => t[k].op = "ALLOCA"
            /\ Declares(pr, i, t[k].dst) \/ Temporary(t[k].dst, tc)
            /\ pr[i].k \in Writers \/ t[k].op = "ADD",
         Supplied(pr, S, c, i, t, k, t[k].a), Supplied(pr, S, c, i, t, k, t[k].b)
  PROVE  Fresh(pr, S, c, i, tc, t, k)
<1>1. Sized(pr, i, t, k)
  BY DEF Sized
<1> QED BY <1>1 DEF Fresh, Writes

\* Only declarations are of strings and aggregates.
LEMMA Narrow ==
  ASSUME NEW pr, NEW i, pr[i].k \notin {"string"} \cup Aggregates
  PROVE  ~Broad(pr, i)
BY DEF Broad

LEMMA FreshLabel ==
  ASSUME NEW pr, NEW S, NEW c, NEW i, NEW tc, NEW t, NEW k,
         t[k].op = "LABEL", t[k].dst = Imm, t[k].a = Imm, t[k].b = Imm,
         \/ t[k].at = i + 1
         \/ t[k].at = i /\ (pr[i].k \in Writers => pr[i].k \in Loops /\ t[k].lab = Gid(pr, i))
  PROVE  Fresh(pr, S, c, i, tc, t, k)
<1>1. Sized(pr, i, t, k)
  BY DEF Sized, Imm, Val
<1> QED BY <1>1 DEF Fresh, Writes, Supplied, Imm, Val

LEMMA ImmSupplied ==
  ASSUME NEW pr, NEW S, NEW c, NEW i, NEW t, NEW k
  PROVE  Supplied(pr, S, c, i, t, k, Imm) /\ Imm.name = None
BY DEF Supplied, Imm, Val

\* The fields of an instruction.
LEMMA Fields ==
  /\ \A op, dst, a, b : LET x == Op(op, dst, a, b) IN
       x.op = op /\ x.dst = dst /\ x.a = a /\ x.b = b /\ x.at = lpos
  /\ \A op, a, lab : LET x == Jump(op, a, lab) IN
       x.op = op /\ x.dst = Imm /\ x.a = a /\ x.b = Imm /\ x.lab = lab /\ x.at = lpos
  /\ \A lab, at : LET x == Label(lab, at) IN
       x.op = "LABEL" /\ x.dst = Imm /\ x.a = Imm /\ x.b = Imm /\ x.lab = lab /\ x.at = at
BY DEF Op, Jump, Label, Instr

LEMMA NodeOn ==
  ASSUME NEW S, NEW H, Lining(S, H), NEW t, Sequence(t), NEW n \in 0 .. 7,
         \A k \in 1 .. Len(t) : Fresh(prog, S, code, lpos, tmp_counter + n, t, k),
         \A v : Declares(prog, lpos, v) /\ v.name # None => \E k \in 1 .. Len(t) : Writes(t[k]) /\ t[k].dst = v,
         NEW ms, Kept(prog, S, code \o t, lpos + 1, ms, tmp_counter + n)
  PROVE  Lined(prog, S, code \o t, tmp_counter + n, lpos + 1, ms)
<1>1. PICK td : td = tmp_counter + n
  OBVIOUS
<1>2. tmp_counter \in Nat
  BY Linings
<1>3. td \in Nat /\ tmp_counter <= td /\ td <= tmp_counter + 7
  BY ONLY <1>1, <1>2, n \in 0 .. 7
<1>4. lpos \in Nat \ {0} /\ Sequence(code) /\ \A q \in 1 .. Len(code) : code[q].at \in Nat /\ code[q].at <= lpos
  BY Linings
<1>5. Lined(prog, S, code, tmp_counter, lpos, lstack)
  BY DEF Lining
<1>6. \A k \in 1 .. Len(t) : Fresh(prog, S, code, lpos, td, t, k)
  BY <1>1
<1>7. Kept(prog, S, code \o t, lpos + 1, ms, td)
  BY <1>1
<1>8. Lined(prog, S, code \o t, td, lpos + 1, ms)
  BY <1>3, <1>4, <1>5, <1>6, <1>7, LinedOn
<1> QED BY <1>1, <1>8

\* The activations of a node that leaves them alone.
LEMMA NodeFlat ==
  ASSUME NEW S, NEW H, Lining(S, H), NEW t, Sequence(t), NEW n \in 0 .. 7, prog[lpos].k \notin Openers \cup {"end"}
  PROVE  Kept(prog, S, code \o t, lpos + 1, lstack, tmp_counter + n)
<1>1. PICK td : td = tmp_counter + n
  OBVIOUS
<1>2. tmp_counter \in Nat /\ lpos \in 1 .. Len(prog) /\ Nested(prog, S) /\ Sequence(code)
  BY Linings
<1>3. td \in Nat /\ tmp_counter <= td
  BY ONLY <1>1, <1>2, n \in 0 .. 7
<1>4. Kept(prog, S, code, lpos, lstack, tmp_counter)
  BY Linings
<1>5. Kept(prog, S, code \o t, lpos + 1, lstack, td)
  BY <1>2, <1>3, <1>4, KeptFlat
<1> QED BY <1>1, <1>5

LEMMA NodePush ==
  ASSUME NEW S, NEW H, Lining(S, H), NEW t, Sequence(t), NEW n \in 0 .. 7, prog[lpos].k \in Openers,
         NEW f, Remembers(prog, S, code \o t, lpos, f, tmp_counter + n)
  PROVE  Kept(prog, S, code \o t, lpos + 1, Append(lstack, f), tmp_counter + n)
<1>1. PICK td : td = tmp_counter + n
  OBVIOUS
<1>2. /\ tmp_counter \in Nat /\ lpos \in 1 .. Len(prog) /\ Nested(prog, S) /\ Sequence(code)
      /\ Sequence(lstack) /\ Len(lstack) = Len(S[lpos])
  BY Linings
<1>3. td \in Nat /\ tmp_counter <= td
  BY ONLY <1>1, <1>2, n \in 0 .. 7
<1>4. Kept(prog, S, code, lpos, lstack, tmp_counter)
  BY Linings
<1>5. Remembers(prog, S, code \o t, lpos, f, td)
  BY <1>1
<1>6. Kept(prog, S, code \o t, lpos + 1, Append(lstack, f), td)
  BY <1>2, <1>3, <1>4, <1>5, KeptPush
<1> QED BY <1>1, <1>6

LEMMA NodePop ==
  ASSUME NEW S, NEW H, Lining(S, H), NEW t, Sequence(t), prog[lpos].k = "end"
  PROVE  Kept(prog, S, code \o t, lpos + 1, Front(lstack), tmp_counter + 0)
<1>1. PICK td : td = tmp_counter + 0
  OBVIOUS
<1>2. /\ tmp_counter \in Nat /\ lpos \in 1 .. Len(prog) /\ Nested(prog, S) /\ Sequence(code)
      /\ Sequence(lstack) /\ Len(lstack) = Len(S[lpos])
  BY Linings
<1>3. td \in Nat /\ tmp_counter <= td
  BY ONLY <1>1, <1>2
<1>4. Kept(prog, S, code, lpos, lstack, tmp_counter)
  BY Linings
<1>5. Kept(prog, S, code \o t, lpos + 1, Front(lstack), td)
  BY <1>2, <1>3, <1>4, KeptPop
<1> QED BY <1>1, <1>5

\* The operands of the node, as it reads them.
LEMMA NodeSupplied ==
  ASSUME NEW S, NEW H, Lining(S, H), prog[lpos].k # "end", NEW y, ChecksIn(H[lpos].scope, y), NEW t, NEW k
  PROVE  /\ Supplied(prog, S, code, lpos, t, k, Operand(lscope, y))
         /\ y \notin Unnamed /\ Found(lscope, y) => Supplied(prog, S, code, lpos, t, k, lscope_find(lscope, y))
         /\ \A v : v.name # y => Supplied(prog, S, code, lpos, t, k, Operand(Define(lscope, v), y))
<1>1. Ready(S, H) /\ Sees(S, H[lpos].scope, lpos) /\ NoTempNames
  BY DEF Lining, Clean
<1>2. /\ Text(prog, S, lpos, Operand(lscope, y))
      /\ y \notin Unnamed /\ Found(lscope, y) => Text(prog, S, lpos, lscope_find(lscope, y))
      /\ \A v : v.name # y => Text(prog, S, lpos, Operand(Define(lscope, v), y))
  BY <1>1, NodeText
<1>3. Nested(prog, S) /\ lpos \in 1 .. Len(prog) /\ Settled(prog, code, lpos)
  BY Linings
<1>4. \A v : Text(prog, S, lpos, v) => Supplied(prog, S, code, lpos, t, k, v)
  BY <1>3, TextSupplied
<1> QED BY <1>2, <1>4

\* Only declarations and a for declare.
LEMMA DeclaresOne ==
  ASSUME NEW pr, NEW i \in Nat \ {0}, NEW v, Declares(pr, i, v)
  PROVE  /\ pr[i].k \in Declarations \cup {"for"}
         /\ pr[i].k \in Declarations => v = Val(pr[i].x, Decl("node", i))
         /\ v \in {Val(pr[i].x, Decl("node", i)), Val(pr[i].key, Decl("key", i))}
BY DEF Declares, Declarations

LEMMA LowerExitLines ==
  ASSUME NEW S, NEW H, Lining(S, H), LowerExit, lowered' # "abort"
  PROVE  Lined(prog, S, code', tmp_counter', lpos + 1, lstack')
<1>1. PICK t, x : x = Jump("JMP", Imm, loop_exit) /\ t = <<x>>
  OBVIOUS
<1>2. prog[lpos].k = "exit" /\ code' = code \o t /\ tmp_counter' = tmp_counter + 0 /\ lstack' = lstack
  BY <1>1, Zenon DEF LowerExit, Lowers, Kind, Emits, Abort
<1>3. Sequence(t) /\ t[1] = x /\ 1 .. Len(t) = {1}
  BY <1>1, RangeShort, ShortSequences
<1>4. lpos \in 1 .. Len(prog) /\ lpos \in Nat \ {0}
  BY Linings
<1>5. x.op = "JMP" /\ x.dst = Imm /\ x.a = Imm /\ x.b = Imm /\ x.at = lpos
  BY <1>1, Fields
<1>6. ASSUME NEW k \in 1 .. Len(t)
      PROVE  Fresh(prog, S, code, lpos, tmp_counter + 0, t, k)
  <2>1. t[k] = x
    BY <1>3
  <2> QED BY <1>4, <1>5, <2>1, ImmSupplied, FreshPlain
<1>7. prog[lpos].k \notin Openers \cup {"end"} \cup Declarations \cup {"for"}
  BY <1>2, KindsApart DEF Loops, Openers
<1>8. Kept(prog, S, code \o t, lpos + 1, lstack, tmp_counter + 0)
  <2>1. 0 \in 0 .. 7
    OBVIOUS
  <2> QED BY <1>3, <1>7, <2>1, NodeFlat
<1>9. \A v : ~Declares(prog, lpos, v)
  BY <1>4, <1>7, DeclaresOne
<1>10. Lined(prog, S, code \o t, tmp_counter + 0, lpos + 1, lstack)
  <2>1. 0 \in 0 .. 7
    OBVIOUS
  <2> QED BY <1>3, <1>6, <1>8, <1>9, <2>1, NodeOn
<1> QED BY <1>2, <1>10

LEMMA NodeChecks ==
  ASSUME NEW S, NEW H, Lining(S, H)
  PROVE  /\ prog[lpos].k \in Declarations \cup {"assign", "if", "case"} \cup Loops => ChecksIn(H[lpos].scope, prog[lpos].y)
         /\ prog[lpos].k = "assign" => ChecksIn(H[lpos].scope, prog[lpos].x)
<1>1. PICK n, h, i, b : n = prog[lpos] /\ h = H[lpos] /\ i = lpos /\ Accepts(n, h, i, b)
  BY DEF Lining
<1>2. /\ n.k \in Declarations => ChecksIn(h.scope, n.y)
      /\ n.k = "assign" => ChecksIn(h.scope, n.x) /\ ChecksIn(h.scope, n.y)
      /\ n.k \in {"if"} \cup Loops => ChecksIn(h.scope, n.y)
      /\ n.k = "case" => ChecksIn(h.scope, n.y)
  BY <1>1 DEF Accepts
<1> QED BY <1>1, <1>2

LEMMA LowerIfLines ==
  ASSUME NEW S, NEW H, Lining(S, H), LowerIf
  PROVE  Lined(prog, S, code', tmp_counter', lpos + 1, lstack')
<1>1. PICK y, lab, x, t : y = Operand(lscope, prog[lpos].y) /\ lab = (IF Else(lpos) # {} THEN label_counter ELSE label_counter + 1)
                            /\ x = Jump("JIFN", y, lab) /\ t = <<x>>
  OBVIOUS
<1>2. PICK f : f = Frame("if", label_counter, label_counter + 1, Imm, Imm)
  OBVIOUS
<1>3. prog[lpos].k = "if" /\ code' = code \o t /\ tmp_counter' = tmp_counter + 0 /\ lstack' = Append(lstack, f)
  BY <1>1, <1>2, Zenon DEF LowerIf, Lowers, Kind, Emits
<1>4. Sequence(t) /\ t[1] = x /\ 1 .. Len(t) = {1}
  BY <1>1, RangeShort, ShortSequences
<1>5. lpos \in 1 .. Len(prog) /\ lpos \in Nat \ {0}
  BY Linings
<1>6. x.op = "JIFN" /\ x.dst = Imm /\ x.a = y /\ x.b = Imm /\ x.at = lpos
  BY <1>1, Fields
<1>7. ASSUME NEW k \in 1 .. Len(t)
      PROVE  Fresh(prog, S, code, lpos, tmp_counter + 0, t, k)
  <2>1. t[k] = x
    BY <1>4
  <2>2. Supplied(prog, S, code, lpos, t, k, y)
    <3>1. ChecksIn(H[lpos].scope, prog[lpos].y)
      BY <1>3, NodeChecks
    <3> QED BY <1>1, <1>3, <3>1, NodeSupplied
  <2> QED BY <1>5, <1>6, <2>1, <2>2, ImmSupplied, FreshPlain
<1>8. prog[lpos].k \in Openers /\ prog[lpos].k \notin Declarations \cup {"for"}
  BY <1>3, KindsApart DEF Loops, Openers
<1>9. Remembers(prog, S, code \o t, lpos, f, tmp_counter + 0)
  BY <1>3 DEF Remembers
<1>10. 0 \in 0 .. 7
  OBVIOUS
<1>11. Kept(prog, S, code \o t, lpos + 1, Append(lstack, f), tmp_counter + 0)
  BY <1>4, <1>8, <1>9, <1>10, NodePush
<1>12. \A v : ~Declares(prog, lpos, v)
  BY <1>5, <1>8, DeclaresOne
<1>13. Lined(prog, S, code \o t, tmp_counter + 0, lpos + 1, Append(lstack, f))
  BY <1>4, <1>7, <1>10, <1>11, <1>12, NodeOn
<1> QED BY <1>3, <1>13

LEMMA LowerElseLines ==
  ASSUME NEW S, NEW H, Lining(S, H), LowerElse
  PROVE  Lined(prog, S, code', tmp_counter', lpos + 1, lstack')
<1>1. PICK x, z, t : x = Jump("JMP", Imm, Last(lstack).last) /\ z = Label(Last(lstack).first, lpos + 1) /\ t = <<x, z>>
  OBVIOUS
<1>2. prog[lpos].k = "else" /\ code' = code \o t /\ tmp_counter' = tmp_counter + 0 /\ lstack' = lstack
  BY <1>1, Zenon DEF LowerElse, Lowers, Kind, Emits
<1>3. Sequence(t) /\ t[1] = x /\ t[2] = z /\ 1 .. Len(t) = {1, 2}
  BY <1>1, RangeShort, ShortSequences
<1>4. lpos \in 1 .. Len(prog) /\ lpos \in Nat \ {0}
  BY Linings
<1>5. x.op = "JMP" /\ x.dst = Imm /\ x.a = Imm /\ x.b = Imm /\ x.at = lpos
  BY <1>1, Fields
<1>6. z.op = "LABEL" /\ z.dst = Imm /\ z.a = Imm /\ z.b = Imm /\ z.at = lpos + 1
  BY <1>1, Fields
<1>7. ASSUME NEW k \in 1 .. Len(t)
      PROVE  Fresh(prog, S, code, lpos, tmp_counter + 0, t, k)
  <2>1. CASE t[k] = x
    BY <1>4, <1>5, <2>1, ImmSupplied, FreshPlain
  <2>2. CASE t[k] = z
    BY <1>6, <2>2, FreshLabel
  <2> QED BY <1>3, <2>1, <2>2
<1>8. prog[lpos].k \notin Openers \cup {"end"} \cup Declarations \cup {"for"}
  BY <1>2, KindsApart DEF Loops, Openers
<1>9. 0 \in 0 .. 7
  OBVIOUS
<1>10. Kept(prog, S, code \o t, lpos + 1, lstack, tmp_counter + 0)
  BY <1>3, <1>8, <1>9, NodeFlat
<1>11. \A v : ~Declares(prog, lpos, v)
  BY <1>4, <1>8, DeclaresOne
<1>12. Lined(prog, S, code \o t, tmp_counter + 0, lpos + 1, lstack)
  BY <1>3, <1>7, <1>9, <1>10, <1>11, NodeOn
<1> QED BY <1>2, <1>12

LEMMA LowerCaseLines ==
  ASSUME NEW S, NEW H, Lining(S, H), LowerCase
  PROVE  Lined(prog, S, code', tmp_counter', lpos + 1, lstack')
<1>1. PICK y, f, t : y = Operand(lscope, prog[lpos].y) /\ f = Frame("case", LABEL_INVALID, label_counter, Imm, y) /\ t = <<>>
  OBVIOUS
<1>2. prog[lpos].k = "case" /\ code' = code \o t /\ tmp_counter' = tmp_counter + 0 /\ lstack' = Append(lstack, f)
  BY <1>1, Zenon DEF LowerCase, Lowers, Kind, Emits
<1>3. Sequence(t) /\ \A k \in 1 .. Len(t) : FALSE
  BY <1>1, RangeShort
<1>4. lpos \in 1 .. Len(prog) /\ lpos \in Nat \ {0}
  BY Linings
<1>5. prog[lpos].k \in Openers /\ prog[lpos].k \notin Declarations \cup {"for"}
  BY <1>2, KindsApart DEF Loops, Openers
<1>6. Remembers(prog, S, code \o t, lpos, f, tmp_counter + 0)
  <2>1. f.subj = y
    BY <1>1 DEF Frame
  <2>2. ChecksIn(H[lpos].scope, prog[lpos].y)
    BY <1>2, NodeChecks
  <2>3. Text(prog, S, lpos, y)
    <3>1. Ready(S, H) /\ Sees(S, H[lpos].scope, lpos) /\ NoTempNames
      BY DEF Lining, Clean
    <3> QED BY <1>1, <2>2, <3>1, NodeText
  <2> QED BY <1>2, <2>1, <2>3 DEF Remembers
<1>7. 0 \in 0 .. 7
  OBVIOUS
<1>8. Kept(prog, S, code \o t, lpos + 1, Append(lstack, f), tmp_counter + 0)
  BY <1>3, <1>5, <1>6, <1>7, NodePush
<1>9. \A v : ~Declares(prog, lpos, v)
  BY <1>4, <1>5, DeclaresOne
<1>10. Lined(prog, S, code \o t, tmp_counter + 0, lpos + 1, Append(lstack, f))
  BY <1>3, <1>7, <1>8, <1>9, NodeOn
<1> QED BY <1>2, <1>10

LEMMA LowerAssignLines ==
  ASSUME NEW S, NEW H, Lining(S, H), LowerAssign, lowered' # "abort"
  PROVE  Lined(prog, S, code', tmp_counter', lpos + 1, lstack')
<1>1. PICK n, v, y, w, x, z, t : /\ n = prog[lpos] /\ v = lscope_find(lscope, n.x) /\ y = Operand(lscope, n.y)
                                 /\ w = Tmp(0) /\ x = Op("ADDR", w, v, Imm) /\ z = Op("STORE", Imm, w, y) /\ t = <<x, z>>
  OBVIOUS
<1>2. /\ n.k = "assign" /\ Found(lscope, n.x)
      /\ code' = code \o t /\ tmp_counter' = tmp_counter + 1 /\ lstack' = lstack
  BY <1>1, Zenon DEF LowerAssign, Lowers, Kind, Emits, Abort
<1>3. Sequence(t) /\ t[1] = x /\ t[2] = z /\ 1 .. Len(t) = {1, 2}
  BY <1>1, RangeShort, ShortSequences
<1>4. lpos \in 1 .. Len(prog) /\ lpos \in Nat \ {0} /\ n \in Node
  BY <1>1, Linings
<1>5. x.op = "ADDR" /\ x.dst = w /\ x.a = v /\ x.b = Imm /\ x.at = lpos
  BY <1>1, Fields
<1>6. z.op = "STORE" /\ z.dst = Imm /\ z.a = w /\ z.b = y /\ z.at = lpos
  BY <1>1, Fields
<1>7. w.name # None /\ Temporary(w, tmp_counter + 1)
  <2>1. 0 \in 0 .. 6 /\ 1 \in 0 + 1 .. 7
    OBVIOUS
  <2>2. Tmp(0).name # None /\ \A m \in 0 + 1 .. 7 : Temporary(Tmp(0), tmp_counter + m)
    BY <2>1, TmpNamed
  <2> QED BY <1>1, <2>1, <2>2
<1>8. ASSUME NEW k \in 1 .. Len(t)
      PROVE  Supplied(prog, S, code, lpos, t, k, v) /\ Supplied(prog, S, code, lpos, t, k, y)
  <2>1. ChecksIn(H[lpos].scope, n.x) /\ ChecksIn(H[lpos].scope, n.y)
    BY <1>1, <1>2, NodeChecks
  <2>2. n.x \notin Unnamed
    BY <1>2, <1>4, AssignNames
  <2>3. prog[lpos].k # "end"
    BY <1>1, <1>2
  <2> QED BY <1>1, <1>2, <2>1, <2>2, <2>3, NodeSupplied
<1>9. prog[lpos].k \in Writers /\ ~Broad(prog, lpos)
  BY <1>1, <1>2, Narrow DEF Writers, Aggregates
<1>10. Fresh(prog, S, code, lpos, tmp_counter + 1, t, 1)
  <2>1. 1 \in 1 .. Len(t)
    BY <1>3
  <2> QED BY <1>3, <1>4, <1>5, <1>7, <1>8, <1>9, <2>1, ImmSupplied, FreshPlain
<1>11. Fresh(prog, S, code, lpos, tmp_counter + 1, t, 2)
  <2>1. 2 \in 1 .. Len(t) /\ 2 > 1 /\ 2 - 1 = 1
    BY <1>3
  <2>2. Supplied(prog, S, code, lpos, t, 2, w)
    <3>1. 1 \in 1 .. 2 - 1 /\ Writes(t[1]) /\ t[1].dst = w
      BY <1>3, <1>5, <1>7 DEF Writes
    <3> QED BY <3>1 DEF Supplied
  <2>3. Supplied(prog, S, code, lpos, t, 2, y)
    BY <1>8, <2>1
  <2>4. Imm.name = None
    BY DEF Imm, Val
  <2>5. Sized(prog, lpos, t, 2)
    BY <1>3, <1>6, <2>4 DEF Sized
  <2> QED BY <1>3, <1>5, <1>6, <1>7, <2>1, <2>2, <2>3, <2>4, <2>5 DEF Fresh, Writes
<1>12. \A k \in 1 .. Len(t) : Fresh(prog, S, code, lpos, tmp_counter + 1, t, k)
  BY <1>3, <1>10, <1>11
<1>13. prog[lpos].k \notin Openers \cup {"end"} \cup Declarations \cup {"for"}
  BY <1>1, <1>2, KindsApart DEF Loops, Openers
<1>14. 1 \in 0 .. 7
  OBVIOUS
<1>15. Kept(prog, S, code \o t, lpos + 1, lstack, tmp_counter + 1)
  BY <1>3, <1>13, <1>14, NodeFlat
<1>16. \A u : ~Declares(prog, lpos, u)
  BY <1>4, <1>13, DeclaresOne
<1>17. Lined(prog, S, code \o t, tmp_counter + 1, lpos + 1, lstack)
  BY <1>3, <1>12, <1>14, <1>15, <1>16, NodeOn
<1> QED BY <1>2, <1>17

\* What is declared has a name.
LEMMA DeclNames ==
  ASSUME NEW n \in Node, n.k \in Declarations
  PROVE  n.x \notin Unnamed
<1>1. n \in Stmts
  <2>1. n \notin Opens
    BY NodeKinds DEF Openers, Loops, Declarations
  <2>2. n \notin Arms /\ n \notin {Mark("else"), Mark("end")}
    BY NodeKinds DEF Declarations
  <2> QED BY <2>1, <2>2 DEF Node
<1> QED BY <1>1, NodesAssumption

LEMMA LowerDeclLines ==
  ASSUME NEW S, NEW H, Lining(S, H), LowerDecl
  PROVE  Lined(prog, S, code', tmp_counter', lpos + 1, lstack')
<1>1. PICK n, v, y, p : /\ n = prog[lpos] /\ v = Val(n.x, Decl("node", lpos)) /\ y = Operand(Define(lscope, v), n.y)
                        /\ p = Tmp(0)
  OBVIOUS
<1>2. PICK a, s, x, q, r : /\ a = Op("ALLOCA", v, Imm, Imm) /\ s = Op("STR_INIT", v, Imm, Imm) /\ x = Op("COPY", v, y, Imm)
                           /\ q = Op("ADDR", p, v, Imm)
                           /\ r = Op(IF n.k = "bytes" THEN "MEMCPY_ODD" ELSE "MEMCPY", Imm, p, y)
  OBVIOUS
<1>3. PICK t : t = IF n.y = None THEN <<>> ELSE IF n.k = "string" THEN <<a, s>>
                   ELSE IF n.k \in Aggregates THEN <<a, q, r>> ELSE <<x>>
  OBVIOUS
<1>4. PICK m : m = IF \/ n.k \in Aggregates
                      \/ n.k = "string" /\ \A j \in 1 .. lpos - 1 : Kind(j) = "string" => prog[j].y # n.y
                   THEN 1 ELSE 0
  OBVIOUS
<1>5. n.k \in Declarations /\ code' = code \o t /\ tmp_counter' = tmp_counter + m /\ lstack' = lstack
  <2>1. code' = code \o (IF n.y = None THEN <<>> ELSE Initialise(n.k, v, y))
    BY <1>1 DEF LowerDecl, Emits
  <2>2. Initialise(n.k, v, y) = IF n.k = "string" THEN <<a, s>>
                                ELSE IF n.k \in Aggregates THEN <<a, q, r>> ELSE <<x>>
    BY <1>1, <1>2 DEF Initialise, Aggregates
  <2>3. n.k \in Declarations /\ lstack' = lstack
    BY <1>1 DEF LowerDecl, Lowers, Kind
  <2>4. tmp_counter' = tmp_counter + m
    BY <1>1, <1>4, Zenon DEF LowerDecl, Emits
  <2> QED BY <1>3, <2>1, <2>2, <2>3, <2>4
<1>6. m \in 0 .. 7
  BY <1>4
<1>7. lpos \in 1 .. Len(prog) /\ lpos \in Nat \ {0} /\ Nested(prog, S) /\ n \in Node
  BY <1>1, Linings
<1>8. n.y # None
  <2>1. lpos \in Nodes /\ AllInitialised
    BY <1>7 DEF Nodes, Lining, Clean
  <2>2. n.k \in {"var", "let"} => n.y # None
    BY <1>1, <2>1 DEF AllInitialised, Kind
  <2>3. n.k = "string" => n.y = Literal
    BY <1>7, StringLiteral
  <2>4. n.k \in Aggregates => n.y \notin Unnamed
    BY <1>7, AggregateNames
  <2> QED BY <1>5, <2>2, <2>3, <2>4, OperandsAssumption DEF Declarations, Aggregates, Unnamed
<1>9. Declares(prog, lpos, v) /\ prog[lpos].k \in Writers /\ v.name # None
  <2>1. v.name = n.x /\ None \in Unnamed
    BY <1>1 DEF Val, Unnamed
  <2>2. n.x \notin Unnamed
    BY <1>5, <1>7, DeclNames
  <2> QED BY <1>1, <1>5, <1>7, <2>1, <2>2 DEF Declares, Writers
<1>10. Imm.name = None /\ \A k : Supplied(prog, S, code, lpos, t, k, Imm)
  BY ImmSupplied
<1>11. ASSUME n.k # "string", NEW k
       PROVE  Supplied(prog, S, code, lpos, t, k, y)
  <2>1. ChecksIn(H[lpos].scope, n.y)
    BY <1>1, <1>5, NodeChecks
  <2>2. CASE n.y \in Unnamed
    <3>1. y = Imm
      BY <1>1, <2>2 DEF Operand
    <3> QED BY <3>1, ImmSupplied
  <2>3. CASE n.y \notin Unnamed
    <3>1. PICK c, i : c = H[lpos].scope /\ i = lpos
      OBVIOUS
    <3>2. KnownIn(c, n.y) /\ n.y # None
      BY <2>1, <2>3, <3>1 DEF ChecksIn, Unnamed
    <3>3. c \in Seq(Seq(Symbols(prog, i))) /\ c[1] = FileScope /\ Sees(S, c, i)
      BY <3>1 DEF Lining, Ready, Shaped
    <3>4. i \in 1 .. Len(prog) /\ Kind(i) \in Declarations /\ NoShadowing
      BY <1>1, <1>5, <1>7, <3>1 DEF Kind, Lining, Clean
    <3>5. prog[i].x # n.y
      BY <1>7, <3>2, <3>3, <3>4, NotItself
    <3>6. v.name # n.y
      BY <1>1, <3>1, <3>5 DEF Val
    <3>7. prog[lpos].k # "end"
      BY <1>1, <1>5, KindsApart
    <3> QED BY <1>1, <2>1, <3>6, <3>7, NodeSupplied
  <2> QED BY <2>2, <2>3
<1>12. a.op = "ALLOCA" /\ a.dst = v /\ a.a = Imm /\ a.b = Imm /\ a.at = lpos
  BY <1>2, Fields
<1>13. ASSUME n.k = "string"
       PROVE  /\ Sequence(t) /\ \A k \in 1 .. Len(t) : Fresh(prog, S, code, lpos, tmp_counter + m, t, k)
              /\ 1 \in 1 .. Len(t) /\ t[1].dst = v /\ t[1].op # "ADD"
  <2>1. t = <<a, s>>
    BY <1>3, <1>8, <1>13
  <2>2. Sequence(t) /\ t[1] = a /\ t[2] = s /\ 1 .. Len(t) = {1, 2}
    BY <2>1, RangeShort, ShortSequences
  <2>3. s.op = "STR_INIT" /\ s.dst = v /\ s.a = Imm /\ s.b = Imm /\ s.at = lpos
    BY <1>2, Fields
  <2>4. Fresh(prog, S, code, lpos, tmp_counter + m, t, 1)
    BY <1>7, <1>9, <1>10, <1>12, <2>2, FreshPlain
  <2>5. Fresh(prog, S, code, lpos, tmp_counter + m, t, 2)
    <3>1. Broad(prog, lpos)
      BY <1>1, <1>7, <1>13 DEF Broad
    <3>2. 1 \in 1 .. 2 - 1 /\ t[1].dst = t[2].dst
      BY <1>12, <2>2, <2>3
    <3>3. Sized(prog, lpos, t, 2)
      BY <1>9, <2>2, <2>3, <3>1, <3>2 DEF Sized
    <3> QED BY <1>7, <1>9, <1>10, <2>2, <2>3, <3>3 DEF Fresh, Writes
  <2>6. \A k \in 1 .. Len(t) : Fresh(prog, S, code, lpos, tmp_counter + m, t, k)
    BY <2>2, <2>4, <2>5
  <2>7. 1 \in 1 .. Len(t) /\ t[1].dst = v /\ t[1].op # "ADD"
    BY <1>12, <2>2
  <2> QED BY <2>2, <2>6, <2>7
<1>14. ASSUME n.k \in Aggregates
       PROVE  /\ Sequence(t) /\ \A k \in 1 .. Len(t) : Fresh(prog, S, code, lpos, tmp_counter + m, t, k)
              /\ 1 \in 1 .. Len(t) /\ t[1].dst = v /\ t[1].op # "ADD"
  <2>0. n.k # "string" /\ m = 1
    BY <1>4, <1>14 DEF Aggregates
  <2>1. t = <<a, q, r>>
    BY <1>3, <1>8, <1>14, <2>0
  <2>2. Sequence(t) /\ t[1] = a /\ t[2] = q /\ t[3] = r /\ 1 .. Len(t) = {1, 2, 3}
    <3>1. Sequence(t)
      BY <2>1, RangeShort
    <3>2. t[1] = a /\ t[2] = q /\ t[3] = r /\ Len(t) = 3
      BY <2>1
    <3> QED BY <3>1, <3>2
  <2>3. q.op = "ADDR" /\ q.dst = p /\ q.a = v /\ q.b = Imm /\ q.at = lpos
    BY <1>2, Fields
  <2>4. r.op \in {"MEMCPY", "MEMCPY_ODD"} /\ r.dst = Imm /\ r.a = p /\ r.b = y /\ r.at = lpos
    BY <1>2, Fields
  <2>5. p.name # None /\ Temporary(p, tmp_counter + m)
    <3>1. 0 \in 0 .. 6 /\ 1 \in 0 + 1 .. 7
      OBVIOUS
    <3>2. Tmp(0).name # None /\ \A k \in 0 + 1 .. 7 : Temporary(Tmp(0), tmp_counter + k)
      BY <3>1, TmpNamed
    <3> QED BY <1>1, <2>0, <3>1, <3>2
  <2>6. Broad(prog, lpos)
    BY <1>1, <1>7, <1>14 DEF Broad
  <2>7. ~Declares(prog, lpos, p)
    <3>1. p.d = Decl("temp", tmp_counter + 0)
      BY <1>1 DEF Tmp, Val
    <3>2. v.d = Decl("node", lpos)
      BY <1>1 DEF Val
    <3>3. p # v
      BY <3>1, <3>2 DEF Decl
    <3> QED BY <1>1, <1>5, <1>7, <3>3, DeclaresOne
  <2>8. Fresh(prog, S, code, lpos, tmp_counter + m, t, 1)
    BY <1>7, <1>9, <1>10, <1>12, <2>2, FreshPlain
  <2>9. Fresh(prog, S, code, lpos, tmp_counter + m, t, 2)
    <3>1. Sized(prog, lpos, t, 2)
      BY <2>2, <2>3, <2>7 DEF Sized
    <3>2. Supplied(prog, S, code, lpos, t, 2, v)
      <4>1. 1 \in 1 .. 2 - 1 /\ Writes(t[1]) /\ t[1].dst = v
        BY <1>9, <1>12, <2>2 DEF Writes
      <4> QED BY <4>1 DEF Supplied
    <3> QED BY <1>7, <1>9, <1>10, <2>2, <2>3, <2>5, <3>1, <3>2 DEF Fresh, Writes
  <2>10. Fresh(prog, S, code, lpos, tmp_counter + m, t, 3)
    <3>1. 3 - 1 = 2 /\ 1 \in 1 .. 3 - 1 /\ 2 \in 1 .. 3 - 1 /\ 3 > 1
      OBVIOUS
    <3>2. t[3 - 1] = q /\ t[1].dst = q.a
      BY <1>12, <2>2, <2>3, <3>1
    <3>3. Sized(prog, lpos, t, 3)
      BY <1>9, <1>10, <2>2, <2>3, <2>4, <2>6, <3>1, <3>2 DEF Sized
    <3>4. Supplied(prog, S, code, lpos, t, 3, p)
      <4>1. Writes(t[2]) /\ t[2].dst = p
        BY <2>2, <2>3, <2>5 DEF Writes
      <4> QED BY <3>1, <4>1 DEF Supplied
    <3>5. Supplied(prog, S, code, lpos, t, 3, y)
      BY <1>11, <2>0
    <3> QED BY <1>10, <2>2, <2>3, <2>4, <2>5, <3>1, <3>2, <3>3, <3>4, <3>5 DEF Fresh, Writes
  <2>11. \A k \in 1 .. Len(t) : Fresh(prog, S, code, lpos, tmp_counter + m, t, k)
    BY <2>2, <2>8, <2>9, <2>10
  <2>12. 1 \in 1 .. Len(t) /\ t[1].dst = v /\ t[1].op # "ADD"
    BY <1>12, <2>2
  <2> QED BY <2>2, <2>11, <2>12
<1>15. ASSUME n.k \notin {"string"} \cup Aggregates
       PROVE  /\ Sequence(t) /\ \A k \in 1 .. Len(t) : Fresh(prog, S, code, lpos, tmp_counter + m, t, k)
              /\ 1 \in 1 .. Len(t) /\ t[1].dst = v /\ t[1].op # "ADD"
  <2>1. t = <<x>>
    BY <1>3, <1>8, <1>15
  <2>2. Sequence(t) /\ t[1] = x /\ 1 .. Len(t) = {1}
    BY <2>1, RangeShort, ShortSequences
  <2>3. x.op = "COPY" /\ x.dst = v /\ x.a = y /\ x.b = Imm /\ x.at = lpos
    BY <1>2, Fields
  <2>4. Supplied(prog, S, code, lpos, t, 1, y) /\ ~Broad(prog, lpos)
    BY <1>1, <1>11, <1>15, Narrow
  <2>5. ASSUME NEW k \in 1 .. Len(t)
        PROVE  Fresh(prog, S, code, lpos, tmp_counter + m, t, k)
    <3>1. k = 1 /\ t[k] = x
      BY <2>2
    <3> QED BY <1>7, <1>9, <2>3, <2>4, <3>1, ImmSupplied, FreshPlain
  <2>6. 1 \in 1 .. Len(t) /\ t[1].dst = v /\ t[1].op # "ADD"
    BY <2>2, <2>3
  <2> QED BY <2>2, <2>5, <2>6
<1>16. /\ Sequence(t) /\ \A k \in 1 .. Len(t) : Fresh(prog, S, code, lpos, tmp_counter + m, t, k)
       /\ 1 \in 1 .. Len(t) /\ t[1].dst = v /\ t[1].op # "ADD"
  BY <1>13, <1>14, <1>15
<1>17. prog[lpos].k \notin Openers \cup {"end"}
  BY <1>1, <1>5, KindsApart DEF Loops, Openers, Declarations
<1>18. Kept(prog, S, code \o t, lpos + 1, lstack, tmp_counter + m)
  BY <1>6, <1>16, <1>17, NodeFlat
<1>19. ASSUME NEW u, Declares(prog, lpos, u), u.name # None
       PROVE  \E k \in 1 .. Len(t) : Writes(t[k]) /\ t[k].dst = u
  <2>1. u = v
    BY <1>1, <1>5, <1>7, <1>19, DeclaresOne
  <2> QED BY <1>16, <1>19, <2>1 DEF Writes
<1>20. Lined(prog, S, code \o t, tmp_counter + m, lpos + 1, lstack)
  BY <1>6, <1>16, <1>18, <1>19, NodeOn
<1> QED BY <1>5, <1>20

\* An arm reads what its case has, which is still visible.
LEMMA SubjectSupplied ==
  ASSUME NEW S, NEW H, Lining(S, H), prog[lpos].k = "arm", NEW t, NEW k
  PROVE  Supplied(prog, S, code, lpos, t, k, Last(lstack).subj)
<1>1. PICK i, s, B : i = lpos /\ s = S[i] /\ B = Below(i - 1)
  OBVIOUS
<1>2. /\ Nested(prog, S) /\ i \in 1 .. Len(prog) /\ i \in Nat \ {0} /\ Sequence(lstack) /\ Len(lstack) = Len(s)
      /\ Settled(prog, code, i) /\ Kept(prog, S, code, i, lstack, tmp_counter)
  BY <1>1, Linings
<1>3. Len(prog) \in Nat /\ i \in 1 .. Len(prog) + 1 /\ s \in Seq(B) /\ Fits(prog, s, i)
  <2>1. Len(prog) \in Nat
    BY <1>2, Blockwise
  <2>2. i \in 1 .. Len(prog) + 1
    BY <1>2, <2>1
  <2> QED BY <1>1, <1>2, <2>1, <2>2 DEF Nested
<1>4. s # <<>> /\ prog[Last(s).b].k = "case"
  BY <1>1, <1>3 DEF Fits
<1>5. PICK L : L = Len(s)
  OBVIOUS
<1>6. L \in Nat \ {0} /\ L \in 1 .. L /\ Last(s) = s[L] /\ Last(lstack) = lstack[L]
  <2>1. Len(s) \in Nat \ {0} /\ Last(s) = s[Len(s)]
    BY <1>3, <1>4, FrontOf
  <2> QED BY <1>2, <1>5, <2>1 DEF Last
<1>7. PICK o : o = s[L].o
  OBVIOUS
<1>8. o \in 1 .. i - 1 /\ prog[o].k = "case" /\ S[o] = Front(s)
  <2>1. Opened(prog, S, i)
    BY <1>2, <1>3, OpenedAll
  <2>2. Last(s).b = o \/ prog[Last(s).b].k = "else"
    BY <1>1, <1>4, <1>6, <1>7, <2>1 DEF Opened
  <2> QED BY <1>1, <1>4, <1>6, <1>7, <2>1, <2>2 DEF Opened
<1>9. Text(prog, S, o, lstack[L].subj)
  <2>1. Remembers(prog, S, code, o, lstack[L], tmp_counter)
    BY <1>1, <1>2, <1>5, <1>6, <1>7 DEF Kept
  <2> QED BY <1>8, <2>1 DEF Remembers
<1>10. \A v : Text(prog, S, o, v) => Text(prog, S, i, v)
  <2>1. SUFFICES ASSUME NEW v, Text(prog, S, o, v), NEW j \in 0 .. o - 1, Declares(prog, j, v), Within(S[j + 1], S[o])
                 PROVE  Text(prog, S, i, v)
    BY DEF Text
  <2>2. j \in 0 .. i - 1 /\ j + 1 \in 1 .. Len(prog) + 1 /\ o \in 1 .. Len(prog) + 1
    <3>1. Len(prog) \in Nat /\ i \in 1 .. Len(prog) /\ o \in 1 .. i - 1 /\ j \in 0 .. o - 1
      BY <1>2, <1>3, <1>8
    <3> QED BY ONLY <3>1
  <2>3. Len(S[j + 1]) \in Nat /\ Len(S[o]) \in Nat /\ Len(s) \in Nat
    BY <1>1, <1>2, <1>3, <2>2, Blockwise
  <2>4. Within(S[o], s)
    <3>1. Len(Front(s)) = Len(s) - 1 /\ \A m \in 1 .. Len(s) - 1 : Front(s)[m] = s[m]
      BY <1>3, <1>4, FrontOf
    <3> QED BY <1>8, <2>3, <3>1 DEF Within
  <2>5. Within(S[j + 1], s)
    BY <2>1, <2>3, <2>4, WithinTrans
  <2> QED BY <1>1, <2>1, <2>2, <2>5 DEF Text
<1>11. prog[i].k # "end"
  BY <1>1
<1> QED BY <1>1, <1>2, <1>6, <1>9, <1>10, <1>11, TextSupplied

LEMMA LowerArmLines ==
  ASSUME NEW S, NEW H, Lining(S, H), LowerArm
  PROVE  Lined(prog, S, code', tmp_counter', lpos + 1, lstack')
<1>1. PICK n, w, x, z, f : /\ n = prog[lpos] /\ w = Tmp(0) /\ x = Op("EQ", w, Last(lstack).subj, Imm)
                           /\ z = Jump("JIFN", w, label_counter)
                           /\ f = Frame("arm", LABEL_INVALID, label_counter, Imm, Imm)
  OBVIOUS
<1>2. PICK t, m : t = (IF n.y = None THEN <<>> ELSE <<x, z>>) /\ m = IF n.y = None THEN 0 ELSE 1
  OBVIOUS
<1>3. n.k = "arm" /\ code' = code \o t /\ tmp_counter' = tmp_counter + m /\ lstack' = Append(lstack, f)
  <2>1. CASE n.y = None
    BY <1>1, <1>2, <2>1, Zenon DEF LowerArm, Lowers, Kind, Emits
  <2>2. CASE n.y # None
    BY <1>1, <1>2, <2>2, Zenon DEF LowerArm, Lowers, Kind, Emits
  <2> QED BY <2>1, <2>2
<1>4. m \in 0 .. 7
  BY <1>2
<1>5. lpos \in 1 .. Len(prog) /\ lpos \in Nat \ {0}
  BY Linings
<1>6. ASSUME n.y = None
      PROVE  Sequence(t) /\ \A k \in 1 .. Len(t) : Fresh(prog, S, code, lpos, tmp_counter + m, t, k)
  BY <1>2, <1>6, RangeShort
<1>7. ASSUME n.y # None
      PROVE  Sequence(t) /\ \A k \in 1 .. Len(t) : Fresh(prog, S, code, lpos, tmp_counter + m, t, k)
  <2>1. t = <<x, z>> /\ m = 1
    BY <1>2, <1>7
  <2>2. Sequence(t) /\ t[1] = x /\ t[2] = z /\ 1 .. Len(t) = {1, 2}
    BY <2>1, RangeShort, ShortSequences
  <2>3. x.op = "EQ" /\ x.dst = w /\ x.a = Last(lstack).subj /\ x.b = Imm /\ x.at = lpos
    BY <1>1, Fields
  <2>4. z.op = "JIFN" /\ z.dst = Imm /\ z.a = w /\ z.b = Imm /\ z.at = lpos
    BY <1>1, Fields
  <2>5. w.name # None /\ Temporary(w, tmp_counter + 1)
    <3>1. 0 \in 0 .. 6 /\ 1 \in 0 + 1 .. 7
      OBVIOUS
    <3>2. Tmp(0).name # None /\ \A k \in 0 + 1 .. 7 : Temporary(Tmp(0), tmp_counter + k)
      BY <3>1, TmpNamed
    <3> QED BY <1>1, <3>1, <3>2
  <2>6. prog[lpos].k \in Writers /\ ~Broad(prog, lpos)
    BY <1>1, <1>3, Narrow DEF Writers, Aggregates
  <2>7. Fresh(prog, S, code, lpos, tmp_counter + 1, t, 1)
    <3>1. Supplied(prog, S, code, lpos, t, 1, Last(lstack).subj)
      BY <1>1, <1>3, SubjectSupplied
    <3> QED BY <1>5, <2>2, <2>3, <2>5, <2>6, <3>1, ImmSupplied, FreshPlain
  <2>8. Fresh(prog, S, code, lpos, tmp_counter + 1, t, 2)
    <3>1. 1 \in 1 .. 2 - 1 /\ Writes(t[1]) /\ t[1].dst = w
      BY <2>2, <2>3, <2>5 DEF Writes
    <3>2. Supplied(prog, S, code, lpos, t, 2, w)
      BY <3>1 DEF Supplied
    <3> QED BY <1>5, <2>2, <2>4, <3>2, ImmSupplied, FreshPlain
  <2> QED BY <2>1, <2>2, <2>7, <2>8
<1>8. Sequence(t) /\ \A k \in 1 .. Len(t) : Fresh(prog, S, code, lpos, tmp_counter + m, t, k)
  BY <1>6, <1>7
<1>9. prog[lpos].k \in Openers /\ prog[lpos].k \notin Declarations \cup {"for"}
  BY <1>1, <1>3, KindsApart DEF Loops, Openers
<1>10. Remembers(prog, S, code \o t, lpos, f, tmp_counter + m)
  BY <1>1, <1>3 DEF Remembers
<1>11. Kept(prog, S, code \o t, lpos + 1, Append(lstack, f), tmp_counter + m)
  BY <1>4, <1>8, <1>9, <1>10, NodePush
<1>12. \A v : ~Declares(prog, lpos, v)
  BY <1>5, <1>9, DeclaresOne
<1>13. Lined(prog, S, code \o t, tmp_counter + m, lpos + 1, Append(lstack, f))
  BY <1>4, <1>8, <1>11, <1>12, NodeOn
<1> QED BY <1>3, <1>13

\* The instructions before the body of a for, in order.
LEMMA ForHeadIs ==
  ASSUME NEW y, NEW top, NEW out, NEW key, NEW val, NEW t, t = ForHead(y, top, out, key, val)
  PROVE  \E r \in {6, 7} :
           /\ Sequence(t) /\ Len(t) = r + 4
           /\ t[1] = Op("COPY", Tmp(0), Imm, Imm) /\ t[2] = Op("FIELD_ADDR", Tmp(2), y, Imm)
           /\ t[3] = Op("LOAD", Tmp(1), Tmp(2), Imm) /\ t[4] = Label(top, lpos)
           /\ t[5] = Op("GTE", Tmp(3), Tmp(0), Tmp(1)) /\ t[6] = Jump("JIF", Tmp(3), out)
           /\ r = 6 <=> key.name = None
           /\ r = 7 => t[7] = Op("COPY", key, Tmp(0), Imm)
           /\ t[r + 1] = Op("FIELD_ADDR", Tmp(5), y, Imm) /\ t[r + 2] = Op("LOAD", Tmp(4), Tmp(5), Imm)
           /\ t[r + 3] = Op("INDEX_ADDR", Tmp(6), Tmp(4), Tmp(0)) /\ t[r + 4] = Op("LOAD", val, Tmp(6), Imm)
<1>1. PICK a1, a2, a3, a4, a5, a6, k1, b1, b2, b3, b4 :
        /\ a1 = Op("COPY", Tmp(0), Imm, Imm) /\ a2 = Op("FIELD_ADDR", Tmp(2), y, Imm)
        /\ a3 = Op("LOAD", Tmp(1), Tmp(2), Imm) /\ a4 = Label(top, lpos)
        /\ a5 = Op("GTE", Tmp(3), Tmp(0), Tmp(1)) /\ a6 = Jump("JIF", Tmp(3), out)
        /\ k1 = Op("COPY", key, Tmp(0), Imm)
        /\ b1 = Op("FIELD_ADDR", Tmp(5), y, Imm) /\ b2 = Op("LOAD", Tmp(4), Tmp(5), Imm)
        /\ b3 = Op("INDEX_ADDR", Tmp(6), Tmp(4), Tmp(0)) /\ b4 = Op("LOAD", val, Tmp(6), Imm)
  OBVIOUS
<1>2. PICK A, K, B : A = <<a1, a2, a3, a4, a5, a6>> /\ K = (IF key.name = None THEN <<>> ELSE <<k1>>)
                     /\ B = <<b1, b2, b3, b4>>
  OBVIOUS
<1>3. t = (A \o K) \o B
  BY <1>1, <1>2, Zenon DEF ForHead
<1>4. Sequence(A) /\ Sequence(K) /\ Sequence(B)
  BY <1>2, RangeShort, RangeLonger
<1>5. PICK d : d = A \o K
  OBVIOUS
<1>6. PICK r : r = Len(K) + 6
  OBVIOUS
<1>7. /\ Len(K) \in {0, 1} /\ r \in {6, 7} /\ (r = 6 <=> key.name = None) /\ (r = 7 => K[1] = k1 /\ Len(K) = 1)
  BY <1>2, <1>6
<1>8. Len(A) = 6 /\ A[1] = a1 /\ A[2] = a2 /\ A[3] = a3 /\ A[4] = a4 /\ A[5] = a5 /\ A[6] = a6
  BY <1>2
<1>9. Len(B) = 4 /\ B[1] = b1 /\ B[2] = b2 /\ B[3] = b3 /\ B[4] = b4
  BY <1>2
<1>10. /\ Sequence(d) /\ Len(d) = r
       /\ \A k \in 1 .. 6 : d[k] = A[k]
       /\ \A k \in 1 .. Len(K) : d[6 + k] = K[k]
  <2>1. /\ Sequence(d) /\ Len(d) = Len(A) + Len(K)
        /\ \A k \in 1 .. Len(A) : d[k] = A[k]
        /\ \A k \in 1 .. Len(K) : d[Len(A) + k] = K[k]
    BY <1>4, <1>5, Cat
  <2> QED BY <1>6, <1>7, <1>8, <2>1
<1>11. /\ Sequence(t) /\ Len(t) = r + 4
       /\ \A k \in 1 .. r : t[k] = d[k]
       /\ \A k \in 1 .. 4 : t[r + k] = B[k]
  <2>1. /\ Sequence(t) /\ Len(t) = Len(d) + Len(B)
        /\ \A k \in 1 .. Len(d) : t[k] = d[k]
        /\ \A k \in 1 .. Len(B) : t[Len(d) + k] = B[k]
    <3>1. t = d \o B
      BY <1>3, <1>5
    <3>2. Sequence(d) /\ Sequence(B)
      BY <1>4, <1>10
    <3>3. PICK u : u = d \o B
      OBVIOUS
    <3>4. /\ Sequence(u) /\ Len(u) = Len(d) + Len(B)
          /\ \A k \in 1 .. Len(d) : u[k] = d[k]
          /\ \A k \in 1 .. Len(B) : u[Len(d) + k] = B[k]
      BY ONLY <3>2, <3>3, Cat
    <3>5. t = u
      BY ONLY <3>1, <3>3
    <3> QED BY ONLY <3>4, <3>5
  <2> QED BY <1>9, <1>10, <2>1
<1>12. t[1] = a1 /\ t[2] = a2 /\ t[3] = a3 /\ t[4] = a4 /\ t[5] = a5 /\ t[6] = a6
  <2>1. \A k \in 1 .. 6 : k \in 1 .. r /\ t[k] = A[k]
    BY <1>7, <1>10, <1>11
  <2> QED BY <1>8, <2>1
<1>13. t[r + 1] = b1 /\ t[r + 2] = b2 /\ t[r + 3] = b3 /\ t[r + 4] = b4
  BY <1>9, <1>11
<1>14. r = 7 => t[7] = k1
  <2>1. SUFFICES ASSUME r = 7 PROVE t[7] = k1
    OBVIOUS
  <2>2. K[1] = k1 /\ Len(K) = 1
    BY <1>7, <2>1
  <2>3. d[6 + 1] = K[1]
    BY <1>10, <2>2
  <2> QED BY <1>11, <2>1, <2>2, <2>3
<1> QED BY <1>1, <1>7, <1>11, <1>12, <1>13, <1>14

\* What an earlier instruction of the node computes can be read.
LEMMA OwnSupplied ==
  ASSUME NEW pr, NEW S, NEW c, NEW i, NEW t, NEW k, NEW m \in 1 .. k - 1,
         t[m].op # "ADD"
  PROVE  Supplied(pr, S, c, i, t, k, t[m].dst)
BY DEF Supplied, Writes

\* An instruction in the head of a for.
LEMMA OpFresh ==
  ASSUME NEW S, NEW H, Lining(S, H), prog[lpos].k = "for", NEW t, NEW k, NEW tc, NEW op, NEW dst, NEW a, NEW b,
         t[k] = Op(op, dst, a, b), op \notin {"LABEL", "STORE", "MEMCPY", "STR_INIT"},
         dst.name = None \/ Declares(prog, lpos, dst) \/ Temporary(dst, tc),
         Supplied(prog, S, code, lpos, t, k, a), Supplied(prog, S, code, lpos, t, k, b)
  PROVE  Fresh(prog, S, code, lpos, tc, t, k)
<1>1. lpos \in 1 .. Len(prog)
  BY Linings
<1>2. t[k].op = op /\ t[k].dst = dst /\ t[k].a = a /\ t[k].b = b /\ t[k].at = lpos
  BY Fields
<1>3. prog[lpos].k \in Writers /\ ~Broad(prog, lpos)
  BY Narrow DEF Writers, Aggregates
<1> QED BY <1>1, <1>2, <1>3, FreshPlain

\* The head of a for: each instruction reads what is there.
LEMMA ForFresh ==
  ASSUME NEW S, NEW H, Lining(S, H), prog[lpos].k = "for",
         NEW y, \A t, k : Supplied(prog, S, code, lpos, t, k, y),
         NEW key, Declares(prog, lpos, key), NEW val, Declares(prog, lpos, val), NEW out,
         NEW t, t = ForHead(y, label_counter, out, key, val)
  PROVE  /\ Sequence(t) /\ \A k \in 1 .. Len(t) : Fresh(prog, S, code, lpos, tmp_counter + 7, t, k)
         /\ \E k \in 1 .. Len(t) : t[k].dst = Tmp(0) /\ t[k].op # "ADD" /\ t[k].at = lpos
         /\ \E k \in 1 .. Len(t) : t[k].dst = val /\ t[k].op # "ADD"
         /\ key.name # None => \E k \in 1 .. Len(t) : t[k].dst = key /\ t[k].op # "ADD"
<1>1. PICK r \in {6, 7} :
        /\ Sequence(t) /\ Len(t) = r + 4
        /\ t[1] = Op("COPY", Tmp(0), Imm, Imm) /\ t[2] = Op("FIELD_ADDR", Tmp(2), y, Imm)
        /\ t[3] = Op("LOAD", Tmp(1), Tmp(2), Imm) /\ t[4] = Label(label_counter, lpos)
        /\ t[5] = Op("GTE", Tmp(3), Tmp(0), Tmp(1)) /\ t[6] = Jump("JIF", Tmp(3), out)
        /\ r = 6 <=> key.name = None
        /\ r = 7 => t[7] = Op("COPY", key, Tmp(0), Imm)
        /\ t[r + 1] = Op("FIELD_ADDR", Tmp(5), y, Imm) /\ t[r + 2] = Op("LOAD", Tmp(4), Tmp(5), Imm)
        /\ t[r + 3] = Op("INDEX_ADDR", Tmp(6), Tmp(4), Tmp(0)) /\ t[r + 4] = Op("LOAD", val, Tmp(6), Imm)
  BY ForHeadIs
<1>2. PICK td : td = tmp_counter + 7
  OBVIOUS
<1>3. lpos \in 1 .. Len(prog) /\ prog[lpos].k \in Writers /\ prog[lpos].k \in Loops
  BY Linings DEF Writers, Loops
<1>4. ASSUME NEW m \in 0 .. 6
      PROVE  Temporary(Tmp(m), td)
  <2>1. 7 \in m + 1 .. 7
    OBVIOUS
  <2> QED BY <1>2, <2>1, TmpNamed
<1>5. \A k : Supplied(prog, S, code, lpos, t, k, Imm) /\ Supplied(prog, S, code, lpos, t, k, y)
  BY ImmSupplied
<1>6. /\ t[1].dst = Tmp(0) /\ t[1].op = "COPY" /\ t[1].at = lpos
      /\ t[2].dst = Tmp(2) /\ t[2].op = "FIELD_ADDR"
      /\ t[3].dst = Tmp(1) /\ t[3].op = "LOAD"
      /\ t[5].dst = Tmp(3) /\ t[5].op = "GTE"
      /\ r = 7 => t[7].dst = key /\ t[7].op = "COPY"
      /\ t[r + 1].dst = Tmp(5) /\ t[r + 1].op = "FIELD_ADDR"
      /\ t[r + 2].dst = Tmp(4) /\ t[r + 2].op = "LOAD"
      /\ t[r + 3].dst = Tmp(6) /\ t[r + 3].op = "INDEX_ADDR"
      /\ t[r + 4].dst = val /\ t[r + 4].op = "LOAD"
  BY <1>1, Fields
<1>7. Fresh(prog, S, code, lpos, td, t, 1)
  <2>1. Temporary(Tmp(0), td)
    BY <1>4
  <2> QED BY <1>1, <1>3, <1>5, <2>1, OpFresh, SMTT(30)
<1>8. Fresh(prog, S, code, lpos, td, t, 2)
  <2>1. Temporary(Tmp(2), td)
    BY <1>4
  <2> QED BY <1>1, <1>3, <1>5, <2>1, OpFresh, SMTT(30)
<1>9. Fresh(prog, S, code, lpos, td, t, 3)
  <2>1. Temporary(Tmp(1), td)
    BY <1>4
  <2>2. 2 \in 1 .. 3 - 1
    OBVIOUS
  <2>3. Supplied(prog, S, code, lpos, t, 3, Tmp(2))
    <3>1. Supplied(prog, S, code, lpos, t, 3, t[2].dst)
      BY <1>6, <2>2, OwnSupplied
    <3> QED BY <1>6, <3>1
  <2> QED BY <1>1, <1>3, <1>5, <2>1, <2>3, OpFresh
<1>10. Fresh(prog, S, code, lpos, td, t, 4)
  <2>1. label_counter = Gid(prog, lpos)
    BY DEF Lining, Built, Framed
  <2>2. t[4].op = "LABEL" /\ t[4].dst = Imm /\ t[4].a = Imm /\ t[4].b = Imm /\ t[4].lab = label_counter /\ t[4].at = lpos
    BY <1>1, Fields
  <2> QED BY <1>3, <2>1, <2>2, FreshLabel
<1>11. Fresh(prog, S, code, lpos, td, t, 5)
  <2>1. Temporary(Tmp(3), td)
    BY <1>4
  <2>2. 1 \in 1 .. 5 - 1 /\ 3 \in 1 .. 5 - 1
    OBVIOUS
  <2>3. Supplied(prog, S, code, lpos, t, 5, Tmp(0)) /\ Supplied(prog, S, code, lpos, t, 5, Tmp(1))
    <3>1. Supplied(prog, S, code, lpos, t, 5, t[1].dst) /\ Supplied(prog, S, code, lpos, t, 5, t[3].dst)
      BY <1>6, <2>2, OwnSupplied
    <3> QED BY <1>6, <3>1
  <2> QED BY <1>1, <1>3, <2>1, <2>3, OpFresh, SMTT(30)
<1>12. Fresh(prog, S, code, lpos, td, t, 6)
  <2>1. t[6].op = "JIF" /\ t[6].dst = Imm /\ t[6].a = Tmp(3) /\ t[6].b = Imm /\ t[6].at = lpos
    BY <1>1, Fields
  <2>2. 5 \in 1 .. 6 - 1
    OBVIOUS
  <2>3. Supplied(prog, S, code, lpos, t, 6, Tmp(3))
    <3>1. Supplied(prog, S, code, lpos, t, 6, t[5].dst)
      BY <1>6, <2>2, OwnSupplied
    <3> QED BY <1>6, <3>1
  <2> QED BY <1>3, <1>5, <2>1, <2>3, ImmSupplied, FreshPlain
<1>13. r = 7 => Fresh(prog, S, code, lpos, td, t, 7)
  <2>1. 1 \in 1 .. 7 - 1
    OBVIOUS
  <2>2. Supplied(prog, S, code, lpos, t, 7, Tmp(0))
    <3>1. Supplied(prog, S, code, lpos, t, 7, t[1].dst)
      BY <1>6, <2>1, OwnSupplied
    <3> QED BY <1>6, <3>1
  <2> QED BY <1>1, <1>3, <1>5, <2>2, OpFresh
<1>14. Fresh(prog, S, code, lpos, td, t, r + 1)
  <2>1. Temporary(Tmp(5), td)
    BY <1>4
  <2> QED BY <1>1, <1>3, <1>5, <2>1, OpFresh
<1>15. Fresh(prog, S, code, lpos, td, t, r + 2)
  <2>1. Temporary(Tmp(4), td)
    BY <1>4
  <2>2. r + 1 \in 1 .. (r + 2) - 1
    OBVIOUS
  <2>3. Supplied(prog, S, code, lpos, t, r + 2, Tmp(5))
    <3>1. Supplied(prog, S, code, lpos, t, r + 2, t[r + 1].dst)
      BY <1>6, <2>2, OwnSupplied
    <3> QED BY <1>6, <3>1
  <2> QED BY <1>1, <1>3, <1>5, <2>1, <2>3, OpFresh
<1>16. Fresh(prog, S, code, lpos, td, t, r + 3)
  <2>1. Temporary(Tmp(6), td)
    BY <1>4
  <2>2. r + 2 \in 1 .. (r + 3) - 1 /\ 1 \in 1 .. (r + 3) - 1
    OBVIOUS
  <2>3. Supplied(prog, S, code, lpos, t, r + 3, Tmp(4))
    <3>1. Supplied(prog, S, code, lpos, t, r + 3, t[r + 2].dst)
      BY <1>6, <2>2, OwnSupplied
    <3> QED BY <1>6, <3>1
  <2>4. Supplied(prog, S, code, lpos, t, r + 3, Tmp(0))
    <3>1. Supplied(prog, S, code, lpos, t, r + 3, t[1].dst)
      BY <1>6, <2>2, OwnSupplied
    <3> QED BY <1>6, <3>1
  <2> QED BY <1>1, <1>3, <2>1, <2>3, <2>4, OpFresh
<1>17. Fresh(prog, S, code, lpos, td, t, r + 4)
  <2>1. r + 3 \in 1 .. (r + 4) - 1
    OBVIOUS
  <2>2. Supplied(prog, S, code, lpos, t, r + 4, Tmp(6))
    <3>1. Supplied(prog, S, code, lpos, t, r + 4, t[r + 3].dst)
      BY <1>6, <2>1, OwnSupplied
    <3> QED BY <1>6, <3>1
  <2>3. PICK k : k = r + 4
    OBVIOUS
  <2>4. t[k] = Op("LOAD", val, Tmp(6), Imm) /\ Supplied(prog, S, code, lpos, t, k, Tmp(6))
    BY <1>1, <2>2, <2>3
  <2>5. Fresh(prog, S, code, lpos, td, t, k)
    BY <1>3, <1>5, <2>4, OpFresh
  <2> QED BY <2>3, <2>5
<1>18. ASSUME NEW k \in 1 .. Len(t)
       PROVE  Fresh(prog, S, code, lpos, td, t, k)
  <2>1. k \in {1, 2, 3, 4, 5, 6} \/ (r = 7 /\ k = 7) \/ k = r + 1 \/ k = r + 2 \/ k = r + 3 \/ k = r + 4
    <3>1. Len(t) = r + 4 /\ r \in {6, 7} /\ k \in 1 .. Len(t)
      BY <1>1
    <3> QED BY ONLY <3>1
  <2> QED BY <1>7, <1>8, <1>9, <1>10, <1>11, <1>12, <1>13, <1>14, <1>15, <1>16, <1>17, <2>1
<1>19. 1 \in 1 .. Len(t) /\ r + 4 \in 1 .. Len(t) /\ (r = 7 => 7 \in 1 .. Len(t))
  <2>1. Len(t) = r + 4 /\ r \in {6, 7}
    BY <1>1
  <2> QED BY ONLY <2>1
<1>20. \E k \in 1 .. Len(t) : t[k].dst = Tmp(0) /\ t[k].op # "ADD" /\ t[k].at = lpos
  BY <1>6, <1>19
<1>21. \E k \in 1 .. Len(t) : t[k].dst = val /\ t[k].op # "ADD"
  <2>1. t[r + 4].dst = val /\ t[r + 4].op # "ADD"
    BY <1>6
  <2> QED BY <1>19, <2>1
<1>22. key.name # None => \E k \in 1 .. Len(t) : t[k].dst = key /\ t[k].op # "ADD"
  <2>1. SUFFICES ASSUME key.name # None PROVE \E k \in 1 .. Len(t) : t[k].dst = key /\ t[k].op # "ADD"
    OBVIOUS
  <2>2. r = 7
    BY <1>1, <2>1
  <2>3. 7 \in 1 .. Len(t) /\ t[7].dst = key /\ t[7].op # "ADD"
    BY <1>6, <1>19, <2>2
  <2> QED BY <2>3
<1> QED BY <1>1, <1>2, <1>18, <1>20, <1>21, <1>22

LEMMA LowerLoopLines ==
  ASSUME NEW S, NEW H, Lining(S, H), LowerLoop
  PROVE  Lined(prog, S, code', tmp_counter', lpos + 1, lstack')
<1>1. PICK n, y, out, key, val : /\ n = prog[lpos] /\ y = Operand(lscope, n.y) /\ out = label_counter + 1
                                 /\ key = Val(n.key, Decl("key", lpos)) /\ val = Val(n.x, Decl("node", lpos))
  OBVIOUS
<1>2. PICK z, x, f : /\ z = Label(label_counter, lpos) /\ x = Jump("JIFN", y, out)
                     /\ f = Frame(n.k, label_counter, out, Tmp(0), Imm)
  OBVIOUS
<1>3. PICK t, m : /\ t = CASE n.k = "while" -> <<z, x>> [] n.k = "loop" -> <<z>>
                           [] n.k = "for" -> ForHead(y, label_counter, out, key, val)
                  /\ m = IF n.k = "for" THEN 7 ELSE 0
  OBVIOUS
<1>4. n.k \in Loops /\ code' = code \o t /\ tmp_counter' = tmp_counter + m /\ lstack' = Append(lstack, f)
  BY <1>1, <1>2, <1>3, Zenon DEF LowerLoop, Lowers, Kind, Emits
<1>5. lpos \in 1 .. Len(prog) /\ lpos \in Nat \ {0} /\ Sequence(code) /\ m \in 0 .. 7
  BY <1>3, Linings
<1>6. n.k \in {"while", "loop", "for"} /\ n.k # "end" /\ n.k \in Openers /\ n.k \notin Declarations
  BY <1>4 DEF Loops, Openers, Declarations
<1>7. \A u, k : Supplied(prog, S, code, lpos, u, k, y)
  <2>1. ChecksIn(H[lpos].scope, n.y)
    BY <1>1, <1>4, NodeChecks
  <2> QED BY <1>1, <1>6, <2>1, NodeSupplied
<1>8. z.op = "LABEL" /\ z.dst = Imm /\ z.a = Imm /\ z.b = Imm /\ z.at = lpos
  BY <1>2, Fields
<1>9. x.op = "JIFN" /\ x.dst = Imm /\ x.a = y /\ x.b = Imm /\ x.at = lpos
  BY <1>2, Fields
<1>10. ASSUME NEW k, n.k # "for", t[k] = z \/ t[k] = x
       PROVE  Fresh(prog, S, code, lpos, tmp_counter + m, t, k)
  <2>1. CASE t[k] = z
    <3>1. prog[lpos].k \notin Writers
      BY <1>1, <1>6, <1>10 DEF Writers
    <3> QED BY <1>8, <2>1, <3>1, FreshLabel
  <2>2. CASE t[k] = x
    BY <1>5, <1>7, <1>9, <2>2, ImmSupplied, FreshPlain
  <2> QED BY <1>10, <2>1, <2>2
<1>11. ASSUME n.k = "while"
       PROVE  Sequence(t) /\ \A k \in 1 .. Len(t) : Fresh(prog, S, code, lpos, tmp_counter + m, t, k)
  <2>1. t = <<z, x>>
    BY <1>3, <1>11
  <2>2. Sequence(t) /\ \A k \in 1 .. Len(t) : t[k] = z \/ t[k] = x
    BY <2>1, RangeShort, ShortSequences
  <2> QED BY <1>10, <1>11, <2>2
<1>12. ASSUME n.k = "loop"
       PROVE  Sequence(t) /\ \A k \in 1 .. Len(t) : Fresh(prog, S, code, lpos, tmp_counter + m, t, k)
  <2>1. t = <<z>>
    BY <1>3, <1>12
  <2>2. Sequence(t) /\ \A k \in 1 .. Len(t) : t[k] = z
    BY <2>1, RangeShort, ShortSequences
  <2> QED BY <1>10, <1>12, <2>2
<1>13. ASSUME n.k = "for"
       PROVE  /\ Sequence(t) /\ \A k \in 1 .. Len(t) : Fresh(prog, S, code, lpos, tmp_counter + m, t, k)
              /\ \E k \in 1 .. Len(t) : t[k].dst = Tmp(0) /\ t[k].op # "ADD" /\ t[k].at = lpos
              /\ \E k \in 1 .. Len(t) : t[k].dst = val /\ t[k].op # "ADD"
              /\ key.name # None => \E k \in 1 .. Len(t) : t[k].dst = key /\ t[k].op # "ADD"
  <2>1. t = ForHead(y, label_counter, out, key, val) /\ m = 7
    BY <1>3, <1>13
  <2>2. Declares(prog, lpos, key) /\ Declares(prog, lpos, val)
    BY <1>1, <1>5, <1>13 DEF Declares
  <2>3. prog[lpos].k = "for"
    BY <1>1, <1>13
  <2> QED BY <1>7, <2>1, <2>2, <2>3, ForFresh, SMTT(30)
<1>14. Sequence(t) /\ \A k \in 1 .. Len(t) : Fresh(prog, S, code, lpos, tmp_counter + m, t, k)
  BY <1>6, <1>11, <1>12, <1>13
<1>15. Remembers(prog, S, code \o t, lpos, f, tmp_counter + m)
  <2>1. n.k = "for" => Temporary(f.idx, tmp_counter + m) /\ StoredAt(code \o t, f.idx, lpos)
    <3>1. SUFFICES ASSUME n.k = "for"
                   PROVE  Temporary(f.idx, tmp_counter + m) /\ StoredAt(code \o t, f.idx, lpos)
      OBVIOUS
    <3>2. f.idx = Tmp(0) /\ m = 7
      BY <1>2, <1>3, <3>1 DEF Frame
    <3>3. 0 \in 0 .. 6 /\ 7 \in 0 + 1 .. 7
      OBVIOUS
    <3>4. Tmp(0).name # None /\ Temporary(Tmp(0), tmp_counter + 7)
      BY <3>3, TmpNamed
    <3>5. PICK k \in 1 .. Len(t) : t[k].dst = Tmp(0) /\ t[k].op # "ADD" /\ t[k].at = lpos
      BY <1>13, <3>1
    <3>6. Writes(t[k])
      BY <3>4, <3>5 DEF Writes
    <3>7. StoredAt(code \o t, t[k].dst, lpos)
      BY <1>5, <1>14, <3>5, <3>6, StoredMore
    <3> QED BY <3>2, <3>4, <3>5, <3>7
  <2>2. prog[lpos].k # "case"
    BY <1>1, <1>6
  <2> QED BY <1>1, <2>1, <2>2 DEF Remembers
<1>16. Kept(prog, S, code \o t, lpos + 1, Append(lstack, f), tmp_counter + m)
  BY <1>1, <1>5, <1>6, <1>14, <1>15, NodePush
<1>17. ASSUME NEW u, Declares(prog, lpos, u), u.name # None
       PROVE  \E k \in 1 .. Len(t) : Writes(t[k]) /\ t[k].dst = u
  <2>1. n.k = "for" /\ u \in {val, key}
    <3>1. /\ prog[lpos].k \in Declarations \cup {"for"}
          /\ u \in {Val(prog[lpos].x, Decl("node", lpos)), Val(prog[lpos].key, Decl("key", lpos))}
      BY <1>5, <1>17, DeclaresOne
    <3> QED BY <1>1, <1>6, <3>1
  <2>2. \E k \in 1 .. Len(t) : t[k].dst = u /\ t[k].op # "ADD"
    BY <1>13, <1>17, <2>1
  <2> QED BY <1>17, <2>2 DEF Writes
<1>18. Lined(prog, S, code \o t, tmp_counter + m, lpos + 1, Append(lstack, f))
  BY <1>5, <1>14, <1>16, <1>17, NodeOn
<1> QED BY <1>4, <1>18

\* The index of a for is still there at its end.
LEMMA IndexSupplied ==
  ASSUME NEW S, NEW H, Lining(S, H), prog[lpos].k = "end", Last(lstack).k = "for", NEW t, NEW k
  PROVE  /\ Supplied(prog, S, code, lpos, t, k, Last(lstack).idx)
         /\ Temporary(Last(lstack).idx, tmp_counter)
<1>1. PICK i, s, o : i = lpos /\ s = S[i] /\ o = Owner(S, i)
  OBVIOUS
<1>2. /\ Nested(prog, S) /\ i \in 1 .. Len(prog) /\ i \in Nat \ {0} /\ Len(lstack) = Len(s)
      /\ Kept(prog, S, code, i, lstack, tmp_counter)
  BY <1>1, Linings
<1>3. Framed(prog, S, i, lstack, loop_exit, label_counter)
  BY <1>1 DEF Lining, Built
<1>4. Last(lstack) = lstack[Len(lstack)] /\ Len(lstack) \in Nat \ {0} /\ Last(lstack).k = prog[o].k
  BY <1>1, <1>2, <1>3, FramedEnd
<1>5. PICK L : L = Len(s)
  OBVIOUS
<1>6. L \in 1 .. L /\ o = s[L].o
  <2>1. Owner(S, i) = S[i][Len(S[i])].o
    BY <1>1, <1>2, Under
  <2> QED BY <1>1, <1>2, <1>4, <1>5, <2>1
<1>7. prog[o].k = "for"
  BY <1>4
<1>8. Remembers(prog, S, code, o, lstack[L], tmp_counter)
  BY <1>1, <1>2, <1>5, <1>6 DEF Kept
<1>9. Temporary(lstack[L].idx, tmp_counter) /\ StoredAt(code, lstack[L].idx, o)
  BY <1>7, <1>8 DEF Remembers
<1>10. Covers(prog, S, o, i)
  <2>1. Kind(i) = "end" /\ Kind(Owner(S, i)) \in Loops
    BY <1>1, <1>7 DEF Kind, Loops
  <2>2. o \in 1 .. i - 1 /\ Held(prog, S, i) = S[i] /\ Within(S[o + 1], S[i])
    BY <1>1, <1>2, <2>1, LoopEnd
  <2>3. o < i
    BY <1>2, <2>2
  <2> QED BY <2>2, <2>3 DEF Covers
<1>11. Last(lstack) = lstack[L]
  BY <1>2, <1>4, <1>5
<1> QED BY <1>1, <1>9, <1>10, <1>11 DEF Supplied, StoredAt

LEMMA LowerEndLines ==
  ASSUME NEW S, NEW H, Lining(S, H), LowerEnd
  PROVE  Lined(prog, S, code', tmp_counter', lpos + 1, lstack')
<1>1. PICK f : f = Last(lstack)
  OBVIOUS
<1>2. PICK t : t = CASE f.k = "arm"   -> ArmClosing(f)
                     [] f.k \in Loops -> LoopClosing(f)
                     [] OTHER         -> <<Label(f.last, lpos)>>
  OBVIOUS
<1>3. prog[lpos].k = "end" /\ code' = code \o t /\ tmp_counter' = tmp_counter + 0 /\ lstack' = Front(lstack)
  BY <1>1, <1>2, Zenon DEF LowerEnd, Lowers, Kind, Emits
<1>4. lpos \in 1 .. Len(prog) /\ lpos \in Nat \ {0} /\ tmp_counter + 0 = tmp_counter
  BY Linings
<1>5. ASSUME NEW x, NEW u, NEW k, u[k] = x, x.op = "JMP", x.dst = Imm, x.a = Imm, x.b = Imm, x.at = lpos
      PROVE  Fresh(prog, S, code, lpos, tmp_counter + 0, u, k)
  BY <1>4, <1>5, ImmSupplied, FreshPlain
<1>6. ASSUME NEW z, NEW u, NEW k, u[k] = z, z.op = "LABEL", z.dst = Imm, z.a = Imm, z.b = Imm, z.at \in {lpos, lpos + 1}
      PROVE  Fresh(prog, S, code, lpos, tmp_counter + 0, u, k)
  <2>1. prog[lpos].k \notin Writers
    BY <1>3 DEF Writers, Declarations
  <2> QED BY <1>6, <2>1, FreshLabel
<1>7. \A lab : \A u, k : u[k] = Jump("JMP", Imm, lab) => Fresh(prog, S, code, lpos, tmp_counter + 0, u, k)
  BY <1>5, Fields
<1>8. \A lab, at : at \in {lpos, lpos + 1} =>
        \A u, k : u[k] = Label(lab, at) => Fresh(prog, S, code, lpos, tmp_counter + 0, u, k)
  BY <1>6, Fields
<1>9. ASSUME f.k = "arm"
      PROVE  Sequence(t) /\ \A k \in 1 .. Len(t) : Fresh(prog, S, code, lpos, tmp_counter + 0, t, k)
  <2>1. PICK x, z : x = Jump("JMP", Imm, lstack[Len(lstack) - 1].last) /\ z = Label(f.last, lpos + 1)
    OBVIOUS
  <2>2. t = <<x, z>>
    BY <1>2, <1>9, <2>1 DEF ArmClosing, Loops
  <2>3. Sequence(t) /\ \A k \in 1 .. Len(t) : t[k] = x \/ t[k] = z
    BY <2>2, RangeShort, ShortSequences
  <2> QED BY <1>7, <1>8, <2>1, <2>3
<1>10. ASSUME f.k \in Loops, f.k # "for"
       PROVE  Sequence(t) /\ \A k \in 1 .. Len(t) : Fresh(prog, S, code, lpos, tmp_counter + 0, t, k)
  <2>1. PICK x, z : x = Jump("JMP", Imm, f.first) /\ z = Label(f.last, lpos + 1)
    OBVIOUS
  <2>2. t = LoopClosing(f)
    BY <1>2, <1>10 DEF Loops
  <2>3. t = <<x, z>>
    <3>1. PICK q : q = <<x, z>>
      OBVIOUS
    <3>2. t = <<>> \o q
      BY <1>10, <2>1, <2>2, <3>1 DEF LoopClosing
    <3>3. PICK A : q \in Seq(A)
      <4>1. Sequence(q)
        BY <3>1, RangeShort
      <4> QED BY <4>1 DEF Sequence
    <3>4. <<>> \o q = q
      BY <3>3
    <3> QED BY <3>1, <3>2, <3>4
  <2>4. Sequence(t) /\ \A k \in 1 .. Len(t) : t[k] = x \/ t[k] = z
    BY <2>3, RangeShort, ShortSequences
  <2> QED BY <1>7, <1>8, <2>1, <2>4
<1>11. ASSUME f.k = "for"
       PROVE  Sequence(t) /\ \A k \in 1 .. Len(t) : Fresh(prog, S, code, lpos, tmp_counter + 0, t, k)
  <2>1. PICK w, x, z : w = Op("ADD", f.idx, f.idx, Imm) /\ x = Jump("JMP", Imm, f.first) /\ z = Label(f.last, lpos + 1)
    OBVIOUS
  <2>2. t = <<w>> \o <<x, z>>
    BY <1>2, <1>11, <2>1 DEF LoopClosing, Loops
  <2>3. Sequence(t) /\ \A k \in 1 .. Len(t) : t[k] = w \/ t[k] = x \/ t[k] = z
    <3>1. PICK p, q : p = <<w>> /\ q = <<x, z>>
      OBVIOUS
    <3>2. /\ Sequence(p) /\ Sequence(q) /\ p[1] = w /\ 1 .. Len(p) = {1} /\ q[1] = x /\ q[2] = z /\ 1 .. Len(q) = {1, 2}
          /\ Len(p) = 1 /\ Len(q) = 2
      BY <3>1, RangeShort, ShortSequences
    <3>3. /\ Sequence(t) /\ Len(t) = Len(p) + Len(q)
          /\ \A k \in 1 .. Len(p) : t[k] = p[k]
          /\ \A k \in 1 .. Len(q) : t[Len(p) + k] = q[k]
      <4>1. PICK u : u = p \o q
        OBVIOUS
      <4>4. Sequence(p) /\ Sequence(q)
        BY <3>2
      <4>2. /\ Sequence(u) /\ Len(u) = Len(p) + Len(q)
            /\ \A k \in 1 .. Len(p) : u[k] = p[k]
            /\ \A k \in 1 .. Len(q) : u[Len(p) + k] = q[k]
        BY ONLY <4>1, <4>4, Cat
      <4>3. t = u
        BY <2>2, <3>1, <4>1
      <4> QED BY ONLY <4>2, <4>3
    <3>4. Len(t) = 3 /\ t[1] = w /\ t[1 + 1] = x /\ t[1 + 2] = z
      BY <3>2, <3>3
    <3>5. \A k \in 1 .. 3 : k = 1 \/ k = 1 + 1 \/ k = 1 + 2
      OBVIOUS
    <3> QED BY <3>3, <3>4, <3>5
  <2>4. w.op = "ADD" /\ w.dst = f.idx /\ w.a = f.idx /\ w.b = Imm /\ w.at = lpos
    BY <2>1, Fields
  <2>5. ASSUME NEW k, t[k] = w
        PROVE  Fresh(prog, S, code, lpos, tmp_counter + 0, t, k)
    <3>1. Supplied(prog, S, code, lpos, t, k, f.idx) /\ Temporary(f.idx, tmp_counter + 0)
      BY <1>1, <1>3, <1>4, <1>11, IndexSupplied
    <3>2. ~Broad(prog, lpos)
      BY <1>3, Narrow DEF Aggregates
    <3> QED BY <1>4, <2>4, <2>5, <3>1, <3>2, ImmSupplied, FreshPlain
  <2> QED BY <1>7, <1>8, <2>1, <2>3, <2>5
<1>12. ASSUME f.k \notin Loops \cup {"arm"}
       PROVE  Sequence(t) /\ \A k \in 1 .. Len(t) : Fresh(prog, S, code, lpos, tmp_counter + 0, t, k)
  <2>1. PICK z : z = Label(f.last, lpos)
    OBVIOUS
  <2>2. t = <<z>>
    BY <1>2, <1>12, <2>1
  <2>3. Sequence(t) /\ \A k \in 1 .. Len(t) : t[k] = z
    BY <2>2, RangeShort, ShortSequences
  <2> QED BY <1>8, <2>1, <2>3
<1>13. Sequence(t) /\ \A k \in 1 .. Len(t) : Fresh(prog, S, code, lpos, tmp_counter + 0, t, k)
  BY <1>9, <1>10, <1>11, <1>12
<1>14. Kept(prog, S, code \o t, lpos + 1, Front(lstack), tmp_counter + 0)
  BY <1>3, <1>13, NodePop
<1>15. \A v : ~Declares(prog, lpos, v)
  <2>1. prog[lpos].k \notin Declarations \cup {"for"}
    BY <1>3 DEF Declarations
  <2> QED BY <1>4, <2>1, DeclaresOne
<1>16. Lined(prog, S, code \o t, tmp_counter + 0, lpos + 1, Front(lstack))
  <2>1. 0 \in 0 .. 7
    OBVIOUS
  <2> QED BY <1>13, <1>14, <1>15, <2>1, NodeOn
<1> QED BY <1>3, <1>16

LEMMA NodeLines ==
  ASSUME NEW S, NEW H, Lining(S, H), LowerNode, lowered' # "abort"
  PROVE  Lined(prog, S, code', tmp_counter', lpos + 1, lstack')
<1>1. ~LowerString
  BY NodeSteps
<1> QED BY <1>1, LowerDeclLines, LowerAssignLines, LowerExitLines, LowerIfLines, LowerElseLines, LowerLoopLines,
           LowerCaseLines, LowerArmLines, LowerEndLines DEF LowerNode

\* The inputs are copied before the first node.
LEMMA LowerProcLines ==
  ASSUME NEW S, S[1] = <<>>, Unbegun, lpos = 0, LowerProc
  PROVE  Lined(prog, S, code', tmp_counter', 1, lstack')
<1>1. PICK f : f = [p \in 1 .. Len(Params) |-> Op("PARAM", Val(Params[p], Decl("param", p)), Imm, Imm)]
  OBVIOUS
<1>2. code' = code \o f /\ tmp_counter' = tmp_counter
  <2>1. code' = code \o [p \in 1 .. Len(Params) |->
                           Op("PARAM", [q \in 1 .. Len(Params) |-> Val(Params[q], Decl("param", q))][p], Imm, Imm)]
    BY Zenon DEF LowerProc
  <2>2. f = [p \in 1 .. Len(Params) |->
               Op("PARAM", [q \in 1 .. Len(Params) |-> Val(Params[q], Decl("param", q))][p], Imm, Imm)]
    BY <1>1
  <2> QED BY <2>1, <2>2 DEF LowerProc
<1>3. code = <<>> /\ tmp_counter = 0
  BY DEF Unbegun
<1>4. PICK c : c = code'
  OBVIOUS
<1>5. Len(Params) \in Nat
  BY TuplesAssumption
<1>6. Len(c) = Len(Params) /\ \A p \in 1 .. Len(Params) : c[p] = Op("PARAM", Val(Params[p], Decl("param", p)), Imm, Imm)
  <2>1. PICK A : A = {f[p] : p \in 1 .. Len(Params)}
    OBVIOUS
  <2>2. f \in Seq(A) /\ Len(f) = Len(Params)
    BY <1>1, <1>5, <2>1
  <2>3. c = <<>> \o f
    BY <1>2, <1>3, <1>4
  <2>4. c = f
    BY <2>2, <2>3
  <2> QED BY <1>1, <2>2, <2>4
<1>7. ASSUME NEW p \in 1 .. Len(c)
      PROVE  /\ c[p].op = "PARAM" /\ c[p].dst = Val(Params[p], Decl("param", p)) /\ c[p].a = Imm /\ c[p].b = Imm /\ c[p].at = 0
             /\ p \in 1 .. Len(Params)
  BY <1>6, Fields
<1>8. Lines(prog, S, c, 0)
  <2>1. SUFFICES ASSUME NEW p \in 1 .. Len(c)
                 PROVE  Line(prog, S, c, 0, p)
    BY DEF Lines
  <2>2. /\ c[p].op = "PARAM" /\ c[p].dst = Val(Params[p], Decl("param", p)) /\ c[p].a = Imm /\ c[p].b = Imm /\ c[p].at = 0
        /\ p \in 1 .. Len(Params)
    BY <1>7
  <2>3. Declares(prog, c[p].at, c[p].dst)
    BY <2>2 DEF Declares
  <2>4. Backed(prog, S, c, p, Imm)
    BY DEF Backed, Imm, Val
  <2>5. Sized(prog, c[p].at, c, p)
    BY <2>2 DEF Sized, Broad
  <2> QED BY <2>2, <2>3, <2>4, <2>5 DEF Line
<1>9. Settled(prog, c, 1)
  <2>1. SUFFICES ASSUME NEW j \in 0 .. 1 - 1, NEW v, Declares(prog, j, v), v.name # None
                 PROVE  StoredAt(c, v, j)
    BY DEF Settled
  <2>2. j = 0
    OBVIOUS
  <2>3. PICK p \in 1 .. Len(Params) : v = Val(Params[p], Decl("param", p))
    BY <2>1, <2>2 DEF Declares
  <2>4. p \in 1 .. Len(c)
    BY <1>6
  <2>5. c[p].dst = v /\ c[p].op # "ADD" /\ c[p].at = j
    BY <1>7, <2>2, <2>3, <2>4
  <2> QED BY <2>1, <2>4, <2>5 DEF StoredAt, Writes
<1>10. Kept(prog, S, c, 1, lstack', 0)
  <2>1. 1 .. Len(S[1]) = {}
    OBVIOUS
  <2> QED BY <2>1 DEF Kept
<1>11. 0 <= 7 * (1 - 1)
  OBVIOUS
<1> QED BY <1>2, <1>3, <1>4, <1>8, <1>9, <1>10, <1>11 DEF Lined

\* lower_proc reads an output, which is not kept.
LEMMA LowerRetLines ==
  ASSUME NEW S, Sequence(code), NEW n \in Nat \ {0}, n = Len(prog) + 1, Lined(prog, S, code, tmp_counter, n, lstack),
         \A q \in 1 .. Len(code) : code[q].at \in Nat /\ code[q].at <= n,
         NEW B, lscope \in Seq(Seq(B)), LowerRet
  PROVE  Lines(prog, S, code', tmp_counter')
<1>1. PICK v, x, t : /\ v = (IF Outs = <<>> THEN Imm ELSE Operand(lscope, Outs[1]))
                     /\ x = Op("RET", Imm, v, Imm) /\ t = <<x>>
  OBVIOUS
<1>2. code' = Append(code, x) /\ tmp_counter' = tmp_counter /\ lpos = n
  BY <1>1, Zenon DEF LowerRet
<1>3. Append(code, x) = code \o t
  <2>1. PICK A : code \in Seq(A)
    BY DEF Sequence
  <2>2. code \in Seq(A \cup {x}) /\ x \in A \cup {x}
    BY <2>1
  <2> QED BY <1>1, <2>2
<1>4. Sequence(t) /\ t[1] = x /\ 1 .. Len(t) = {1}
  BY <1>1, RangeShort, ShortSequences
<1>5. x.op = "RET" /\ x.dst = Imm /\ x.a = v /\ x.b = Imm /\ x.at = n
  BY <1>1, <1>2, Fields
<1>6. v.name = None \/ v.name \in Unkept(prog)
  <2>1. CASE Outs = <<>>
    BY <1>1, <2>1, ImmSupplied
  <2>2. CASE Outs # <<>>
    <3>1. Outs[1] \in Range(Outs)
      BY <2>2, TuplesAssumption DEF Range
    <3>2. v.name = None \/ v.name = Outs[1]
      BY <1>1, <2>2, OperandNames
    <3> QED BY <3>1, <3>2 DEF Unkept
  <2> QED BY <2>1, <2>2
<1>7. ASSUME NEW k \in 1 .. Len(t)
      PROVE  Fresh(prog, S, code, n, tmp_counter, t, k)
  <2>1. t[k] = x
    BY <1>4
  <2>2. Supplied(prog, S, code, n, t, k, v) /\ Supplied(prog, S, code, n, t, k, Imm) /\ Imm.name = None
    BY <1>6, ImmSupplied DEF Supplied
  <2>3. Sized(prog, n, t, k)
    BY <1>5, <2>1, <2>2 DEF Sized
  <2> QED BY <1>5, <2>1, <2>2, <2>3 DEF Fresh, Writes
<1>8. tmp_counter \in Nat /\ tmp_counter <= tmp_counter /\ Lines(prog, S, code, tmp_counter)
  BY DEF Lined
<1>9. Lines(prog, S, code \o t, tmp_counter)
  BY <1>4, <1>7, <1>8, LinesOn
<1> QED BY <1>2, <1>3, <1>9

-----------------------------------------------------------------------------
(* In every state *)

\* The code of a body that keeps its names apart, as far as it goes.
Backs(S) ==
  /\ Through(S)
  /\ lowered = "none" /\ lpos # 0 => Lined(prog, S, code, tmp_counter, lpos, lstack)
  /\ lowered = "ok" => tmp_counter \in 0 .. MaxTmps /\ Lines(prog, S, code, tmp_counter)

\* The frame of the running code: every word that can be read was last written
\* for its declaration, and a store or copy finds the address taken before it.
Live(S) ==
  /\ \A q \in 1 .. pc - 1 :
       Writes(code[q]) /\ Covers(prog, S, code[q].at, code[pc].at) => mem[code[q].dst.name].d = code[q].dst.d
  /\ code[pc].op \in {"STORE", "MEMCPY"} => mem[code[pc].a.name].to = code[pc - 1].a

ReadsInv ==
  /\ ControlInv
  /\ Len(prog) + Len(open) <= MaxLen
  /\ emitted = "ok" => lowered = "ok" /\ pc \in 1 .. Len(code) /\ Unslotted = {} /\ DOMAIN mem = Slotted
  /\ verdict = "ok" /\ Clean => \E S : Backs(S) /\ (emitted = "ok" => Live(S))

\* What the names of a body do not promise they do not promise later: the
\* lowering only takes more temporaries.
LEMMA CleanBefore ==
  ASSUME prog' = prog, Clean',
         \/ tmp_counter' = tmp_counter
         \/ tmp_counter \in Nat /\ tmp_counter' \in Nat /\ tmp_counter <= tmp_counter'
  PROVE  Clean
<1>1. Nodes' = Nodes /\ \A i : Kind(i)' = Kind(i)
  BY DEF Nodes, Kind
<1>2. ASSUME NEW i PROVE Binds(i)' = Binds(i)
  BY DEF Binds, Kind
<1>3. ASSUME NEW i PROVE Level(i)' = Level(i)
  <2>1. /\ {j \in 1 .. i - 1 : Kind(j) \in Openers}' = {j \in 1 .. i - 1 : Kind(j) \in Openers}
        /\ {j \in 1 .. i - 1 : Kind(j) = "end"}' = {j \in 1 .. i - 1 : Kind(j) = "end"}
    BY <1>1
  <2> QED BY <2>1 DEF Level
<1>4. ASSUME NEW i PROVE Depth(i)' = Depth(i)
  <2>1. Level(i)' = Level(i) /\ Kind(i)' = Kind(i)
    BY <1>1, <1>3
  <2> QED BY <2>1 DEF Depth
<1>5. ASSUME NEW i PROVE Blocks(i)' = Blocks(i)
  BY <1>1, <1>3, <1>4 DEF Blocks
<1>6. ASSUME NEW i PROVE Home(i)' = Home(i)
  BY <1>1, <1>5 DEF Home
<1>7. NoShadowing
  <2>1. NoShadowing' = NoShadowing
    BY <1>1, <1>2, <1>5, <1>6 DEF NoShadowing, Outermost
  <2> QED BY <2>1 DEF Clean
<1>8. AllInitialised /\ FieldsApart /\ RoomForAll
  <2>1. AllInitialised' = AllInitialised
    BY <1>1 DEF AllInitialised
  <2>2. FieldsApart' = FieldsApart
    BY <1>1, <1>2 DEF FieldsApart
  <2>3. RoomForAll' = RoomForAll
    BY <1>1, <1>2 DEF RoomForAll, Words, Wide
  <2> QED BY <2>1, <2>2, <2>3 DEF Clean
<1>9. NoTempNames
  <2>1. Temps \subseteq Temps'
    <3>1. 0 .. tmp_counter \subseteq 0 .. tmp_counter'
      <4>1. CASE tmp_counter' = tmp_counter
        BY <4>1
      <4>2. CASE tmp_counter \in Nat /\ tmp_counter' \in Nat /\ tmp_counter <= tmp_counter'
        BY <4>2
      <4> QED BY <4>1, <4>2
    <3> QED BY <3>1 DEF Temps
  <2>2. (UNION {Binds(i) : i \in Nodes})' = UNION {Binds(i) : i \in Nodes}
    BY <1>1, <1>2
  <2>3. NoTempNames'
    BY DEF Clean
  <2> QED BY <2>1, <2>2, <2>3 DEF NoTempNames, Outermost
<1> QED BY <1>7, <1>8, <1>9 DEF Clean

\* The parser leaves room for the ends of the blocks it opens.
LEMMA RoomLeft ==
  ASSUME NInv, Parse, Len(prog) + Len(open) <= MaxLen
  PROVE  Len(prog') + Len(open') <= MaxLen
<1>1. PICK pr, op, M : pr = prog /\ op = open /\ M = MaxLen
  OBVIOUS
<1>2. PICK S : Nested(prog, S) /\ Reads(prog, S, open)
  BY DEF NInv
<1>3. pr \in Seq(Node) /\ op \in Seq(Openers \cup {"else"}) /\ M \in Nat
  BY <1>1, <1>2, TmpNamesAssumption DEF Nested, Reads
<1>4. /\ Sequence(pr) /\ Sequence(op) /\ Len(pr) \in Nat /\ Len(op) \in Nat
  BY <1>3 DEF Sequence
<1>5. /\ \A n : Len(Append(pr, n)) = Len(pr) + 1
      /\ \A n : Len(Append(op, n)) = Len(op) + 1
  BY <1>4, Appends
<1>6. op # <<>> => Front(op) \in Seq(Openers \cup {"else"}) /\ Len(Front(op)) = Len(op) - 1
  BY <1>3, FrontOf
<1>7. op # <<>> => Len(Append(Front(op), "else")) = Len(op)
  <2>1. SUFFICES ASSUME op # <<>> PROVE Len(Append(Front(op), "else")) = Len(op)
    OBVIOUS
  <2>2. PICK f : f = Front(op)
    OBVIOUS
  <2>3. Sequence(f) /\ Len(f) = Len(op) - 1
    BY <1>6, <2>1, <2>2 DEF Sequence
  <2>4. Len(Append(f, "else")) = Len(f) + 1
    BY <2>3, Appends
  <2> QED BY ONLY <1>4, <2>2, <2>3, <2>4
<1>8. Len(pr) + Len(op) <= M
  BY <1>1
<1>9. \/ prog' = pr /\ open' = op
      \/ \E n : prog' = Append(pr, n) /\ open' = op /\ Len(pr) + Len(op) + 1 <= M
      \/ \E n, k : prog' = Append(pr, n) /\ open' = Append(op, k) /\ Len(pr) + Len(op) + 2 <= M
      \/ \E n : prog' = Append(pr, n) /\ open' = Append(Front(op), "else") /\ Len(pr) + Len(op) + 1 <= M /\ op # <<>>
      \/ \E n : prog' = Append(pr, n) /\ open' = Front(op) /\ op # <<>>
  <2>1. CASE ParseStmt
    BY <1>1, <2>1 DEF ParseStmt, Room
  <2>2. CASE ParseOpen
    BY <1>1, <2>2 DEF ParseOpen, Room
  <2>3. CASE ParseElse
    BY <1>1, <2>3 DEF ParseElse, Room, Reading
  <2>4. CASE ParseArm
    BY <1>1, <2>4 DEF ParseArm, Room
  <2>5. CASE ParseEnd
    BY <1>1, <2>5 DEF ParseEnd
  <2>6. CASE ParseDone
    BY <1>1, <2>6 DEF ParseDone
  <2> QED BY <2>1, <2>2, <2>3, <2>4, <2>5, <2>6 DEF Parse, ParseNext
<1>10. \/ Len(prog') = Len(pr) /\ Len(open') = Len(op)
       \/ Len(prog') = Len(pr) + 1 /\ Len(open') = Len(op) /\ Len(pr) + Len(op) + 1 <= M
       \/ Len(prog') = Len(pr) + 1 /\ Len(open') = Len(op) + 1 /\ Len(pr) + Len(op) + 2 <= M
       \/ Len(prog') = Len(pr) + 1 /\ Len(open') = Len(op) - 1
  BY <1>5, <1>6, <1>7, <1>9
<1> QED BY ONLY <1>1, <1>3, <1>4, <1>8, <1>10

\* Where the instructions laid before a node are.
LEMMA LaidBefore ==
  ASSUME NEW S, NEW n \in Nat \ {0}, Laid(prog, S, code, n)
  PROVE  Sequence(code) /\ \A q \in 1 .. Len(code) : code[q].at \in Nat /\ code[q].at <= n
<1>1. Sequence(code)
  BY DEF Laid
<1>2. ASSUME NEW q \in 1 .. Len(code)
      PROVE  code[q].at \in Nat /\ code[q].at <= n
  <2>1. code[q] \in Range(code)
    BY <1>1 DEF Range, Sequence
  <2> QED BY <2>1, LaidAt
<1> QED BY <1>1, <1>2

LEMMA LowerBacks ==
  ASSUME ControlInv, Len(prog) <= MaxLen, Clean => \E S : Backs(S), Lower, Clean'
  PROVE  \E S : Backs(S)'
<1>1. PassesInv /\ verdict = "ok" /\ LowerNext /\ prog' = prog
  BY DEF Lower, ControlInv, parseVars
<1>2. PICK T, H : Along(T, H)
  BY <1>1 DEF PassesInv
<1>3. LowerProc \/ LowerNode \/ LowerRet
  BY <1>1 DEF LowerNext, LowerNode
<1>4. lowered = "none"
  BY <1>3, NodeSteps DEF LowerProc, LowerRet
<1>5. PICK n : n = Len(prog)
  OBVIOUS
<1>6. n \in Nat /\ Walked(prog, H, bound, n + 1) /\ MaxLen \in Nat /\ n <= MaxLen
  BY <1>2, <1>5, TmpNamesAssumption DEF Along, Nested
<1>7. CASE LowerProc
  <2>1. lpos = 0 /\ Unbegun /\ lpos' = 1 /\ lowered' = "none"
    BY <1>1, <1>4, <1>7 DEF LowerProc, PassesInv
  <2>2. tmp_counter = 0 /\ tmp_counter' = tmp_counter
    BY <1>7, <2>1, Zenon DEF LowerProc, Unbegun
  <2>3. Clean
    <3>1. tmp_counter \in Nat /\ tmp_counter' \in Nat /\ tmp_counter <= tmp_counter'
      BY <2>2
    <3> QED BY <1>1, <3>1, CleanBefore
  <2>4. PICK S : Backs(S)
    BY <2>3
  <2>5. Through(S) /\ S[1] = <<>>
    BY <2>4 DEF Backs, Through, Nested
  <2>6. Through(S)'
    BY <1>1, <2>5, LowerThrough
  <2>7. Lined(prog', S, code', tmp_counter', lpos', lstack')
    <3>1. Lined(prog, S, code', tmp_counter', 1, lstack')
      BY <1>7, <2>1, <2>5, LowerProcLines
    <3> QED BY <1>1, <2>1, <3>1
  <2>8. Backs(S)'
    BY <2>1, <2>6, <2>7 DEF Backs
  <2> QED BY <2>8
<1>8. CASE LowerNode
  <2>1. lpos \in 1 .. Len(prog) /\ lpos # 0
    BY <1>8, NodeSteps
  <2>2. CASE lowered' = "abort"
    <3>1. PICK S : Through(S)
      BY <1>1 DEF ControlInv
    <3>2. Through(S)'
      BY <1>1, <3>1, LowerThrough
    <3>3. Backs(S)'
      BY <2>2, <3>2 DEF Backs
    <3> QED BY <3>3
  <2>3. CASE lowered' # "abort"
    <3>1. Following(H) /\ tmp_counter \in Nat
      BY <1>2, <1>4, <2>1 DEF Along, Following
    <3>2. Clean
      BY <1>1, <1>8, <2>3, <3>1, NodeAppends, CleanBefore
    <3>3. PICK S : Backs(S)
      BY <3>2
    <3>4. Through(S) /\ Nested(prog, S) /\ Built(S) /\ Lined(prog, S, code, tmp_counter, lpos, lstack)
      BY <1>4, <2>1, <3>3 DEF Backs, Through
    <3>5. PICK i : i = lpos
      OBVIOUS
    <3>6. i \in 1 .. n + 1 /\ i \in 1 .. n + 1 - 1 /\ i \in 1 .. Len(prog) + 1
      BY <1>5, <1>6, <2>1, <3>5
    <3>7. Shaped(prog, S, H, i) /\ Entered(prog, S, H, i)
      BY <1>6, <3>4, <3>6, WalkAll
    <3>8. Accepts(prog[i], H[i], i, bound[i]) /\ Moves(prog[i], H[i], H[i + 1], i)
      BY <1>6, <3>6 DEF Walked
    <3>9. Ready(S, H)
      BY <2>1, <3>1, <3>4, <3>5, <3>7, <3>8 DEF Ready
    <3>10. Sees(S, H[i].scope, i)
      BY <1>5, <1>6, <3>4, <3>6, SeesAll
    <3>11. Lining(S, H)
      BY <3>2, <3>4, <3>5, <3>8, <3>9, <3>10 DEF Lining
    <3>12. Lined(prog, S, code', tmp_counter', lpos + 1, lstack')
      BY <1>8, <2>3, <3>11, NodeLines
    <3>13. lowered' = "none" /\ lpos' = lpos + 1
      BY <1>8, <2>3, NodeSteps
    <3>14. Through(S)'
      BY <1>1, <3>4, LowerThrough
    <3>15. Backs(S)'
      BY <1>1, <3>12, <3>13, <3>14 DEF Backs
    <3> QED BY <3>15
  <2> QED BY <2>2, <2>3
<1>9. CASE LowerRet
  <2>1. lpos = n + 1 /\ lpos # 0 /\ lowered' = "ok"
    BY <1>5, <1>6, <1>9 DEF LowerRet
  <2>2. Following(H) /\ tmp_counter \in Nat
    BY <1>2, <1>4, <2>1 DEF Along, Following
  <2>3. tmp_counter' = tmp_counter
    BY <1>9, Zenon DEF LowerRet
  <2>4. Clean
    <3>1. tmp_counter' \in Nat /\ tmp_counter <= tmp_counter'
      BY <2>2, <2>3
    <3> QED BY <1>1, <2>2, <3>1, CleanBefore
  <2>5. PICK S : Backs(S)
    BY <2>4
  <2>6. Through(S) /\ Built(S) /\ Lined(prog, S, code, tmp_counter, n + 1, lstack)
    BY <1>4, <2>1, <2>5 DEF Backs, Through
  <2>7. Through(S)'
    BY <1>1, <2>6, LowerThrough
  <2>8. n + 1 \in Nat \ {0}
    BY <1>6
  <2>9. Sequence(code) /\ \A q \in 1 .. Len(code) : code[q].at \in Nat /\ code[q].at <= n + 1
    BY <2>1, <2>6, <2>8, LaidBefore DEF Built
  <2>10. PICK l : l = lscope
    OBVIOUS
  <2>11. PICK B : l \in Seq(Seq(B))
    BY <2>2, <2>10 DEF Following, Simulates
  <2>12. Lines(prog, S, code', tmp_counter')
    BY <1>5, <1>9, <2>6, <2>8, <2>9, <2>10, <2>11, LowerRetLines
  <2>13. tmp_counter' \in 0 .. MaxTmps
    <3>1. tmp_counter \in Nat /\ tmp_counter <= 7 * ((n + 1) - 1)
      BY <2>6 DEF Lined
    <3> QED BY ONLY <1>6, <2>3, <3>1 DEF MaxTmps
  <2>14. Backs(S)'
    <3>1. MaxTmps' = MaxTmps
      BY DEF MaxTmps
    <3> QED BY <1>1, <2>1, <2>7, <2>12, <2>13 DEF Backs
  <2> QED BY <2>14
<1> QED BY <1>3, <1>7, <1>8, <1>9

\* The frame after an instruction: the word it writes, and the others.
LEMMA WrittenIs ==
  ASSUME NEW p, NEW x, x = code[p], NEW W, W = Written(p), NEW v, v = mem[x.a.name].to,
         x.op \in {"STORE", "MEMCPY"} => x.dst.name = None
  PROVE  /\ DOMAIN W = DOMAIN mem
         /\ x.op \in {"STORE", "MEMCPY"} =>
              /\ \A n \in DOMAIN mem : n # v.name => W[n] = mem[n]
              /\ v.name \in DOMAIN mem => W[v.name].d = v.d
         /\ x.op \notin {"STORE", "MEMCPY"} =>
              /\ \A n \in DOMAIN mem : n # x.dst.name => W[n] = mem[n]
              /\ x.dst.name # None /\ x.dst.name \in DOMAIN mem => W[x.dst.name].d = x.dst.d
         /\ x.op = "ADDR" /\ x.dst.name \in DOMAIN mem => W[x.dst.name].to = x.a
<1>1. CASE x.op \in {"STORE", "MEMCPY"}
  <2>1. W = [mem EXCEPT ![v.name] = Word(v.d, Imm)]
    BY <1>1 DEF Written
  <2> QED BY <1>1, <2>1, SMTT(30) DEF Word
<1>2. CASE x.op = "ADDR"
  <2>1. W = [mem EXCEPT ![x.dst.name] = Word(x.dst.d, x.a)]
    BY <1>2 DEF Written
  <2> QED BY <1>2, <2>1 DEF Word
<1>3. CASE x.op \notin {"STORE", "MEMCPY", "ADDR"} /\ x.dst.name # None
  <2>1. W = [mem EXCEPT ![x.dst.name] = Word(x.dst.d, Imm)]
    BY <1>3 DEF Written
  <2> QED BY <1>3, <2>1, SMTT(30) DEF Word
<1>4. CASE x.op \notin {"STORE", "MEMCPY", "ADDR"} /\ x.dst.name = None
  <2>1. W = mem
    BY <1>4 DEF Written
  <2>2. x.op \notin {"STORE", "MEMCPY"} /\ x.op # "ADDR" /\ x.dst.name = None
    BY <1>4
  <2> QED BY ONLY <2>1, <2>2
<1> QED BY <1>1, <1>2, <1>3, <1>4

\* What the running code stands on.
Runs(S) ==
  /\ Compiles(S) /\ Clean /\ tmp_counter \in 0 .. MaxTmps /\ Lines(prog, S, code, tmp_counter)
  /\ pc \in 1 .. Len(code) /\ DOMAIN mem = Slotted

\* The words of a node are a number.
LEMMA WordsCount ==
  ASSUME NEW S, Compiles(S), NEW i \in Nodes
  PROVE  Words(i) \in Nat
<1>1. CASE ~Wide(i)
  BY <1>1 DEF Words
<1>2. CASE Wide(i)
  <2>1. PICK n : n = prog[i]
    OBVIOUS
  <2>2. n \in Node
    <3>1. prog \in Seq(Node)
      BY DEF Compiles, Nested
    <3> QED BY <2>1, <3>1 DEF Nodes
  <2>3. n.k \in {"string", "record", "bytes"}
    BY <1>2, <2>1 DEF Wide, Kind, Aggregates
  <2>4. n \notin Opens
    BY <2>3, NodeKinds DEF Openers, Loops
  <2>5. n \notin Arms /\ n \notin {Mark("else"), Mark("end")}
    BY <2>3, NodeKinds
  <2>6. n \in Stmts
    BY <2>2, <2>4, <2>5 DEF Node
  <2> QED BY <1>2, <2>1, <2>6, WidthAssumption DEF Words
<1> QED BY <1>1, <1>2

\* In a body with room for all names, the slot of a name has room for each string
\* or aggregate of the name.
LEMMA Reserved ==
  ASSUME NEW S, Runs(S), NEW p \in 1 .. Len(code), code[p].op \in {"STR_INIT", "MEMCPY"}, Broad(prog, code[p].at),
         NEW v, Declares(prog, code[p].at, v), v.name # None, NEW q \in 1 .. p, code[q].dst.name = v.name
  PROVE  Words(code[p].at) <= SlotWords(v.name)
<1>1. PICK n, j, N : n = v.name /\ j = code[p].at /\ N = {m \in 1 .. Len(code) : code[m].dst.name = n}
  OBVIOUS
<1>2. /\ Compiles(S) /\ NoShadowing /\ NoTempNames /\ RoomForAll /\ tmp_counter \in Nat
      /\ Lines(prog, S, code, tmp_counter)
  BY DEF Runs, Clean
<1>3. Len(code) \in Nat /\ Len(prog) \in Nat /\ p \in Nat /\ j \in Nat /\ j <= Len(prog) + 1
  BY <1>1, <1>2, Ordered
<1>4. q \in Nat /\ q <= p /\ q \in N
  BY <1>1, <1>3
<1>5. PICK s : s = Slotting(n)
  OBVIOUS
<1>6. s \in N /\ \A m \in N : s <= m
  <2>1. N \in SUBSET Nat /\ N # {}
    BY <1>1, <1>3, <1>4
  <2>2. PICK m \in N : \A k \in N : m <= k
    BY <2>1, Least
  <2>3. Min(N) \in N /\ \A m1 \in N : Min(N) <= m1
    BY <2>2 DEF Min
  <2>4. s = Min(N)
    BY <1>1, <1>5 DEF Slotting
  <2> QED BY <2>3, <2>4
<1>7. s \in 1 .. Len(code) /\ s \in Nat /\ code[s].dst.name = n /\ n # None
  BY <1>1, <1>3, <1>6
<1>8. PICK i, u : i = code[s].at /\ u = code[s].dst
  OBVIOUS
<1>9. i \in Nat /\ i <= j
  <2>1. s <= p
    BY <1>3, <1>4, <1>6, <1>7
  <2>2. code[s].at \in Nat /\ (s <= p => code[s].at <= code[p].at)
    BY <1>2, <1>7, Ordered
  <2> QED BY <1>1, <1>8, <2>1, <2>2
<1>10. i \in 0 .. Len(prog) /\ (Declares(prog, i, u) \/ Temporary(u, tmp_counter))
  BY <1>2, <1>7, <1>8, WriterAt
<1>11. j # 0 /\ prog[j].k \in {"string"} \cup Aggregates
  BY <1>1 DEF Broad
<1>12. j \in Nodes /\ n \in Binds(j)
  <2>1. j \in 0 .. Len(prog)
    <3>1. PICK x : x = code[p]
      OBVIOUS
    <3>2. \/ x.op = "PARAM" /\ x.at = 0
          \/ x.op = "RET" /\ x.at = Len(prog) + 1
          \/ x.at # 0 /\ \E k \in 1 .. Len(prog) : Good(prog, S, x, k)
      BY <1>2, <3>1, CodeFacts
    <3>3. x.op \in {"STR_INIT", "MEMCPY"}
      BY <3>1
    <3>4. PICK k \in 1 .. Len(prog) : Good(prog, S, x, k)
      BY <3>2, <3>3
    <3>5. x.at = k
      BY <3>3, <3>4 DEF Good
    <3> QED BY <1>1, <1>3, <3>1, <3>5
  <2>2. Declares(prog, j, v) /\ v.name # None
    BY <1>1
  <2> QED BY <1>1, <1>11, <2>1, <2>2, DeclaredName
<1>13. Declares(prog, i, u)
  <2>1. SUFFICES ASSUME Temporary(u, tmp_counter) PROVE FALSE
    BY <1>10
  <2>2. u.name \notin Binds(j)
    BY <1>2, <1>12, <2>1, MadeUp
  <2> QED BY <1>7, <1>8, <1>12, <2>2
<1>14. i \in Nodes /\ Words(j) <= Words(i)
  <2>1. u.name = n /\ u.name # None
    BY <1>7, <1>8
  <2>2. CASE i = j
    <3>1. Words(j) \in Nat
      BY <1>2, <1>12, WordsCount
    <3> QED BY <1>12, <2>2, <3>1
  <2>3. CASE i # j
    <3>1. i # 0
      <4>1. SUFFICES ASSUME i = 0 PROVE FALSE
        OBVIOUS
      <4>2. i \notin Nodes
        BY <4>1 DEF Nodes
      <4>3. PICK m \in 1 .. Len(Params) : u.name = Params[m]
        BY <1>10, <1>13, <2>1, <4>2, DeclaredName
      <4>4. n \in Outermost
        BY <2>1, <4>3, TuplesAssumption DEF Outermost
      <4> QED BY <1>2, <1>12, <4>4, NotOutermost
    <3>2. i \in Nodes /\ n \in Binds(i)
      BY <1>10, <1>13, <2>1, <3>1, DeclaredName
    <3>3. i < j
      BY <1>3, <1>9, <2>3
    <3> QED BY <1>2, <1>12, <3>2, <3>3 DEF RoomForAll
  <2> QED BY <2>2, <2>3
<1>15. Sized(prog, i, code, s)
  <2>1. Line(prog, S, code, tmp_counter, s)
    BY <1>2, <1>7 DEF Lines
  <2> QED BY <1>8, <2>1 DEF Line
<1>16. ~ \E m \in 1 .. s - 1 : code[m].dst = code[s].dst
  <2>1. SUFFICES ASSUME NEW m \in 1 .. s - 1, code[m].dst = code[s].dst PROVE FALSE
    OBVIOUS
  <2>2. m \in 1 .. Len(code) /\ m < s /\ m \in Nat
    BY <1>3, <1>7
  <2>3. m \in N
    BY <1>1, <1>7, <2>1, <2>2
  <2> QED BY <1>6, <1>7, <2>2, <2>3
<1>17. Words(i) = SlotWords(n)
  <2>1. i # 0 /\ (Wide(i) <=> Broad(prog, i))
    BY <1>14 DEF Nodes, Wide, Kind, Broad
  <2>2. CASE Wide(i)
    <3>1. code[s].op = "ALLOCA"
      BY <1>7, <1>8, <1>13, <1>15, <1>16, <2>1, <2>2 DEF Sized
    <3> QED BY <1>5, <1>8, <3>1 DEF SlotWords
  <2>3. CASE ~Wide(i)
    BY <1>5, <1>8, <2>3 DEF SlotWords, Words
  <2> QED BY <2>2, <2>3
<1> QED BY <1>1, <1>14, <1>17

\* So nothing is written beyond the words of a name.
LEMMA NoOverrun ==
  ASSUME NEW S, Runs(S), Live(S)
  PROVE  Overrun(pc) = {}
<1>1. PICK p : p = pc
  OBVIOUS
<1>2. Compiles(S) /\ Lines(prog, S, code, tmp_counter) /\ p \in 1 .. Len(code) /\ p \in Nat /\ Len(code) \in Nat
  <2>1. Compiles(S) /\ Lines(prog, S, code, tmp_counter) /\ p \in 1 .. Len(code)
    BY <1>1 DEF Runs
  <2> QED BY <2>1, CodeFacts
<1>3. Line(prog, S, code, tmp_counter, p)
  BY <1>2 DEF Lines
<1>4. Sized(prog, code[p].at, code, p)
  BY <1>3 DEF Line
<1>5. CASE code[p].op = "STR_INIT"
  <2>1. PICK v : v = code[p].dst
    OBVIOUS
  <2>2. Broad(prog, code[p].at) /\ Declares(prog, code[p].at, v) /\ v.name # None
    BY <1>4, <1>5, <2>1 DEF Sized
  <2>3. p \in 1 .. p /\ code[p].dst.name = v.name
    BY <1>2, <2>1
  <2>4. Words(code[p].at) <= SlotWords(v.name)
    BY <1>2, <1>5, <2>2, <2>3, Reserved
  <2>5. Behind(v.name, Words(code[p].at)) = {}
    BY <2>4 DEF Behind
  <2> QED BY <1>1, <1>5, <2>1, <2>5 DEF Overrun
<1>6. CASE code[p].op = "MEMCPY"
  <2>1. PICK v : v = code[p - 1].a
    OBVIOUS
  <2>2. /\ Broad(prog, code[p].at) /\ Declares(prog, code[p].at, v) /\ v.name # None
        /\ \E m \in 1 .. p - 1 : code[m].dst = v
    BY <1>4, <1>6, <2>1 DEF Sized
  <2>3. PICK m \in 1 .. p : code[m].dst.name = v.name
    <3>1. PICK m \in 1 .. p - 1 : code[m].dst = v
      BY <2>2
    <3>2. m \in 1 .. p
      BY <1>2
    <3> QED BY <3>1, <3>2
  <2>4. Words(code[p].at) <= SlotWords(v.name)
    BY <1>2, <1>6, <2>2, <2>3, Reserved
  <2>5. mem[code[p].a.name].to = v
    BY <1>1, <1>6, <2>1 DEF Live
  <2>6. Behind(v.name, Words(code[p].at)) = {}
    BY <2>4 DEF Behind
  <2> QED BY <1>1, <1>6, <2>5, <2>6 DEF Overrun
<1>7. CASE code[p].op \notin {"STR_INIT", "MEMCPY"}
  BY <1>1, <1>7 DEF Overrun
<1> QED BY <1>5, <1>6, <1>7

\* A step of the code leaves every word that can be read as it is, or writes it for
\* the declaration it was written for.
LEMMA StepKeeps ==
  ASSUME NEW S, Runs(S), Live(S), NEW r \in Flow(pc), NEW q \in 1 .. r - 1,
         Writes(code[q]), Covers(prog, S, code[q].at, code[r].at)
  PROVE  Written(pc)[code[q].dst.name].d = code[q].dst.d
<1>1. PICK p, x, n, d, W, v : /\ p = pc /\ x = code[p] /\ n = code[q].dst.name /\ d = code[q].dst.d
                              /\ W = Written(p) /\ v = mem[x.a.name].to
  OBVIOUS
<1>2. /\ Compiles(S) /\ NoShadowing /\ NoTempNames /\ FieldsApart /\ tmp_counter \in 0 .. MaxTmps
      /\ Lines(prog, S, code, tmp_counter) /\ p \in 1 .. Len(code) /\ DOMAIN mem = Slotted
  BY <1>1 DEF Runs, Clean
<1>3. Len(prog) \in Nat /\ Len(code) \in Nat /\ p \in Nat /\ tmp_counter \in Nat
  BY <1>2, CodeFacts
<1>4. r \in 1 .. Len(code) /\ r \in Nat
  <2>1. r \in 1 .. Len(code)
    BY <1>1, <1>2, FlowIs
  <2> QED BY <2>1
<1>5. q \in 1 .. Len(code)
  BY <1>3, <1>4
<1>6. n # None /\ n \in Slotted
  BY <1>1, <1>5 DEF Writes, Slotted
<1>7. x.at \in 0 .. Len(prog) + 1
  BY <1>1, <1>2, CodeFacts
<1>8. Line(prog, S, code, tmp_counter, p)
  BY <1>2 DEF Lines
<1>9. /\ x.op \in {"STORE", "MEMCPY"} =>
           /\ n # v.name => W[n] = mem[n]
           /\ n = v.name => W[n].d = v.d
      /\ x.op \notin {"STORE", "MEMCPY"} =>
           /\ n # x.dst.name => W[n] = mem[n]
           /\ n = x.dst.name => W[n].d = x.dst.d
  <2>1. x.op \in {"STORE", "MEMCPY"} => x.dst.name = None
    BY <1>1, <1>8 DEF Line
  <2> QED BY <1>1, <1>2, <1>6, <2>1, WrittenIs, SMTT(30)
<1>10. q = p \/ (q < p /\ Covers(prog, S, code[q].at, x.at))
  BY <1>1, <1>2, Reach
<1>11. CASE q = p
  <2>1. x.op \notin {"STORE", "MEMCPY"}
    BY <1>1, <1>6, <1>8, <1>11 DEF Line
  <2> QED BY <1>1, <1>9, <1>11, <2>1
<1>12. CASE q < p /\ Covers(prog, S, code[q].at, x.at)
  <2>1. mem[n].d = d
    <3>1. q \in 1 .. pc - 1
      BY <1>1, <1>3, <1>12
    <3> QED BY <1>1, <1>12, <3>1 DEF Live
  <2>2. ASSUME x.op \notin {"STORE", "MEMCPY"}, n = x.dst.name
        PROVE  x.dst.d = d
    <3>1. Covers(prog, S, x.at, x.at)
      BY DEF Covers
    <3>2. /\ code[p].dst.name = code[q].dst.name /\ code[p].dst.name # None
          /\ Covers(prog, S, code[p].at, x.at) /\ Covers(prog, S, code[q].at, x.at)
      BY <1>1, <1>6, <1>12, <2>2, <3>1
    <3>3. code[p].dst.d = code[q].dst.d
      BY ONLY <1>2, <1>5, <1>7, <3>2, OneWord
    <3> QED BY <1>1, <3>3
  <2>3. ASSUME x.op \in {"STORE", "MEMCPY"}, n = v.name
        PROVE  v.d = d
    <3>1. p > 1 /\ code[p - 1].op = "ADDR" /\ code[p - 1].at = x.at
      BY <1>1, <1>8, <2>3 DEF Line
    <3>2. v = code[p - 1].a
      BY <1>1, <2>3 DEF Live
    <3>3. p - 1 \in 1 .. Len(code)
      BY <1>2, <1>3, <3>1
    <3>4. Backed(prog, S, code, p - 1, v)
      <4>1. Line(prog, S, code, tmp_counter, p - 1)
        BY <1>2, <3>3 DEF Lines
      <4> QED BY <3>2, <4>1 DEF Line
    <3>5. n \notin Unkept(prog)
      BY <1>1, <1>2, <1>3, <1>5, <1>6, NotKept
    <3>6. PICK k \in 1 .. p - 1 - 1 : Writes(code[k]) /\ code[k].dst = v /\ Covers(prog, S, code[k].at, x.at)
      BY <1>6, <2>3, <3>1, <3>4, <3>5 DEF Backed, Wrote
    <3>7. k \in 1 .. Len(code)
      BY <1>2, <1>3, <3>6
    <3>8. /\ code[k].dst.name = code[q].dst.name /\ code[k].dst.name # None
          /\ Covers(prog, S, code[k].at, x.at) /\ Covers(prog, S, code[q].at, x.at)
      BY <1>1, <1>6, <1>12, <2>3, <3>6
    <3>9. code[k].dst.d = code[q].dst.d
      BY ONLY <1>2, <1>5, <1>7, <3>7, <3>8, OneWord
    <3> QED BY <1>1, <3>6, <3>9
  <2> QED BY <1>1, <1>9, <2>1, <2>2, <2>3
<1> QED BY <1>1, <1>10, <1>11, <1>12

\* Before the first instruction nothing is written, and nothing read.
LEMMA LiveStarts ==
  ASSUME NEW S, Compiles(S), NEW tc, Lines(prog, S, code, tc), prog' = prog, code' = code, pc' = 1
  PROVE  Live(S)'
<1>1. 1 \in 1 .. Len(code)
  BY CodeFacts
<1>2. code[1].op \notin {"STORE", "MEMCPY"}
  <2>1. Line(prog, S, code, tc, 1)
    BY <1>1 DEF Lines
  <2> QED BY <2>1 DEF Line
<1>3. 1 .. pc' - 1 = {}
  OBVIOUS
<1> QED BY <1>2, <1>3 DEF Live

LEMMA LiveStays ==
  ASSUME NEW S, Runs(S), Live(S), NEW r \in Flow(pc), prog' = prog, code' = code, pc' = r,
         NEW W, W = Written(pc), mem' = [n \in DOMAIN W |-> IF n \in Overrun(pc) THEN Unwritten ELSE W[n]]
  PROVE  Live(S)'
<1>0. \A n \in Slotted : mem'[n] = W[n]
  <2>1. Overrun(pc) = {}
    BY NoOverrun
  <2>2. DOMAIN W = DOMAIN mem /\ DOMAIN mem = Slotted
    <3>1. DOMAIN W = DOMAIN mem
      BY DEF Written
    <3> QED BY <3>1 DEF Runs
  <2> QED BY <2>1, <2>2
<1>1. ASSUME NEW q \in 1 .. r - 1, Writes(code[q]), Covers(prog, S, code[q].at, code[r].at)
      PROVE  mem'[code[q].dst.name].d = code[q].dst.d
  <2>1. W[code[q].dst.name].d = code[q].dst.d
    BY <1>1, StepKeeps
  <2>2. q \in 1 .. Len(code)
    <3>1. Compiles(S) /\ pc \in 1 .. Len(code)
      BY DEF Runs
    <3>2. r \in 1 .. Len(code) /\ Len(code) \in Nat
      BY <3>1, FlowIs, CodeFacts
    <3> QED BY <3>2
  <2>3. code[q].dst.name \in Slotted
    BY <1>1, <2>2 DEF Writes, Slotted
  <2> QED BY <1>0, <2>1, <2>3
<1>2. ASSUME code[r].op \in {"STORE", "MEMCPY"}
      PROVE  mem'[code[r].a.name].to = code[r - 1].a
  <2>1. PICK p, x : p = pc /\ x = code[p]
    OBVIOUS
  <2>2. /\ Compiles(S) /\ Lines(prog, S, code, tmp_counter) /\ p \in 1 .. Len(code) /\ DOMAIN mem = Slotted
    BY <2>1 DEF Runs
  <2>3. p \in Nat /\ r \in 1 .. Len(code)
    <3>1. Len(code) \in Nat
      BY <2>2, CodeFacts
    <3>2. r \in 1 .. Len(code)
      BY <2>1, <2>2, FlowIs
    <3> QED BY <2>2, <3>1, <3>2
  <2>4. r = p + 1
    BY <1>2, <2>1 DEF Flow, Placed
  <2>5. code[r - 1].op = "ADDR" /\ code[r - 1].dst = code[r].a /\ code[r].a.name # None
    <3>1. Line(prog, S, code, tmp_counter, r)
      BY <2>2, <2>3 DEF Lines
    <3> QED BY <1>2, <3>1 DEF Line
  <2>6. r - 1 = p
    BY <2>3, <2>4
  <2>7. x.op = "ADDR" /\ x.dst.name = code[r].a.name /\ x.dst.name # None
    BY <2>1, <2>5, <2>6
  <2>8. x.dst.name \in DOMAIN mem
    BY <2>1, <2>2, <2>7 DEF Slotted
  <2>9. W[x.dst.name].to = x.a
    BY <2>1, <2>7, <2>8, WrittenIs
  <2>10. mem'[x.dst.name] = W[x.dst.name]
    BY <1>0, <2>2, <2>8
  <2> QED BY <2>1, <2>6, <2>7, <2>9, <2>10
<1> QED BY <1>1, <1>2 DEF Live

\* A step that leaves the code leaves what it was shown to be.
LEMMA StillBacks ==
  ASSUME NEW S, Backs(S), prog' = prog, code' = code, lowered' = lowered, lpos' = lpos, lstack' = lstack,
         loop_exit' = loop_exit, label_counter' = label_counter, tmp_counter' = tmp_counter
  PROVE  Backs(S)'
<1>1. Through(S)'
  BY StillThrough DEF Backs
<1>2. MaxTmps' = MaxTmps
  BY DEF MaxTmps
<1> QED BY <1>1, <1>2 DEF Backs


\* Once the code is complete, running changes nothing that was shown of it.
LEMMA StillReads ==
  ASSUME ControlInv, verdict = "ok" /\ Clean => \E S : Backs(S) /\ (emitted = "ok" => Live(S)),
         lowered = "ok", prog' = prog, tmp_counter' = tmp_counter, Clean'
  PROVE  /\ Clean
         /\ \E S : /\ Backs(S) /\ (emitted = "ok" => Live(S))
                   /\ Compiles(S) /\ Lines(prog, S, code, tmp_counter) /\ tmp_counter \in 0 .. MaxTmps
<1>1. Clean
  BY CleanBefore
<1>2. verdict = "ok"
  BY DEF ControlInv, PassesInv, Unbegun
<1>3. PICK S : Backs(S) /\ (emitted = "ok" => Live(S))
  BY <1>1, <1>2
<1>4. Compiles(S) /\ Lines(prog, S, code, tmp_counter) /\ tmp_counter \in 0 .. MaxTmps
  BY <1>3 DEF Backs, Through, Compiles
<1> QED BY <1>1, <1>3, <1>4

LEMMA InitReads == Init => ReadsInv
<1> SUFFICES ASSUME Init PROVE ReadsInv
  OBVIOUS
<1>1. verdict # "ok" /\ emitted # "ok"
  BY DEF Init, CheckInit
<1>2. ControlInv
  BY <1>1, InitPasses DEF ControlInv
<1>3. Len(prog) + Len(open) <= MaxLen
  <2>1. prog = <<>> /\ open = <<>> /\ MaxLen \in Nat
    BY TmpNamesAssumption DEF Init, ParseInit
  <2> QED BY ONLY <2>1
<1> QED BY <1>1, <1>2, <1>3 DEF ReadsInv

LEMMA ParseReads ==
  ASSUME ReadsInv, ControlInv', Parse \/ Check
  PROVE  ReadsInv'
<1>1. PassesInv
  BY DEF ReadsInv, ControlInv
<1>2. lpos' = 0 /\ lowered' = "none" /\ emitted' = "none"
  BY <1>1, Early
<1>3. Len(prog') + Len(open') <= MaxLen
  <2>1. CASE Parse
    BY <1>1, <2>1, RoomLeft DEF ReadsInv, PassesInv
  <2>2. CASE Check
    <3>1. prog' = prog /\ open' = open
      BY <2>2 DEF Check, parseVars
    <3> QED BY <3>1 DEF ReadsInv
  <2> QED BY <2>1, <2>2
<1>4. ASSUME verdict' = "ok"
      PROVE  \E S : Backs(S)' /\ (emitted' = "ok" => Live(S)')
  <2>1. PICK S : Through(S)'
    BY <1>4 DEF ControlInv
  <2>2. Backs(S)'
    BY <1>2, <2>1 DEF Backs
  <2> QED BY <1>2, <2>2
<1> QED BY <1>2, <1>3, <1>4 DEF ReadsInv

LEMMA LowerReads ==
  ASSUME ReadsInv, ControlInv', Lower
  PROVE  ReadsInv'
<1>1. verdict = "ok" /\ prog' = prog /\ open' = open /\ emitted' = emitted /\ LowerNext
  BY DEF Lower, parseVars
<1>2. emitted = "none"
  <2>1. lowered # "ok"
    BY <1>1, NodeSteps DEF LowerNext, LowerProc, LowerRet, LowerNode
  <2> QED BY <2>1 DEF ReadsInv, ControlInv, PassesInv
<1>3. Len(prog) <= MaxLen
  <2>1. PICK pr, op, M : pr = prog /\ op = open /\ M = MaxLen
    OBVIOUS
  <2>2. PICK T : Nested(prog, T) /\ Reads(prog, T, open)
    BY DEF ReadsInv, ControlInv, PassesInv, NInv
  <2>3. pr \in Seq(Node) /\ op \in Seq(Openers \cup {"else"})
    BY <2>1, <2>2 DEF Nested, Reads
  <2>4. Len(pr) \in Nat /\ Len(op) \in Nat /\ M \in Nat /\ Len(pr) + Len(op) <= M
    BY <2>1, <2>3, TmpNamesAssumption DEF ReadsInv
  <2> QED BY ONLY <2>1, <2>4
<1>4. ASSUME Clean'
      PROVE  \E S : Backs(S)'
  <2>1. ControlInv /\ (Clean => \E S : Backs(S))
    BY <1>1 DEF ReadsInv
  <2> QED BY <1>3, <1>4, <2>1, LowerBacks
<1>5. Len(prog') + Len(open') <= MaxLen
  BY <1>1 DEF ReadsInv
<1> QED BY <1>1, <1>2, <1>4, <1>5 DEF ReadsInv

LEMMA EmitReads ==
  ASSUME ReadsInv, ControlInv', Emit
  PROVE  ReadsInv'
<1>1. /\ lowered = "ok" /\ prog' = prog /\ open' = open /\ code' = code /\ lowered' = lowered /\ lpos' = lpos
      /\ lstack' = lstack /\ loop_exit' = loop_exit /\ label_counter' = label_counter /\ tmp_counter' = tmp_counter
      /\ emitted = "none" /\ emitted' \in {"ok", "abort"}
  BY DEF Emit, parseVars
<1>2. emitted' = "ok" => pc' = 1 /\ mem' = [n \in Slotted |-> Unwritten] /\ Unslotted = {}
  BY DEF Emit
<1>3. ControlInv /\ (verdict = "ok" /\ Clean => \E S : Backs(S) /\ (emitted = "ok" => Live(S)))
  BY DEF ReadsInv
<1>4. Len(prog') + Len(open') <= MaxLen
  BY <1>1 DEF ReadsInv
<1>5. ASSUME emitted' = "ok"
      PROVE  pc' \in 1 .. Len(code') /\ Unslotted' = {} /\ DOMAIN mem' = Slotted'
  <2>1. PICK S : Compiles(S)
    BY <1>1, <1>3, CompiledIs
  <2>2. 1 \in 1 .. Len(code)
    BY <2>1, CodeFacts
  <2>3. Slotted' = Slotted
    BY <1>1 DEF Slotted
  <2>4. Unslotted' = Unslotted
    BY <1>1, <2>3 DEF Unslotted, Operands
  <2> QED BY <1>1, <1>2, <1>5, <2>2, <2>3, <2>4
<1>6. ASSUME Clean'
      PROVE  \E S : Backs(S)' /\ (emitted' = "ok" => Live(S)')
  <2>1. PICK S : Backs(S) /\ Compiles(S) /\ Lines(prog, S, code, tmp_counter)
    BY <1>1, <1>3, <1>6, StillReads
  <2>2. Backs(S)'
    BY <1>1, <2>1, StillBacks
  <2>3. emitted' = "ok" => Live(S)'
    BY <1>1, <1>2, <2>1, LiveStarts
  <2> QED BY <2>2, <2>3
<1> QED BY <1>1, <1>4, <1>5, <1>6 DEF ReadsInv

LEMMA RunReads ==
  ASSUME ReadsInv, ControlInv', Run
  PROVE  ReadsInv'
<1>1. /\ prog' = prog /\ open' = open /\ code' = code /\ lowered' = lowered /\ lpos' = lpos
      /\ lstack' = lstack /\ loop_exit' = loop_exit /\ label_counter' = label_counter /\ tmp_counter' = tmp_counter
      /\ emitted' = emitted /\ emitted = "ok" /\ pc' \in Flow(pc)
  BY DEF Run, Running, parseVars, lowerVars
<1>0. PICK W : W = Written(pc) /\ mem' = [n \in DOMAIN W |-> IF n \in Overrun(pc) THEN Unwritten ELSE W[n]]
  BY DEF Run
<1>2. /\ ControlInv /\ (verdict = "ok" /\ Clean => \E S : Backs(S) /\ (emitted = "ok" => Live(S)))
      /\ lowered = "ok" /\ pc \in 1 .. Len(code) /\ Unslotted = {} /\ DOMAIN mem = Slotted
  BY <1>1 DEF ReadsInv
<1>3. Len(prog') + Len(open') <= MaxLen
  BY <1>1 DEF ReadsInv
<1>4. pc' \in 1 .. Len(code') /\ Unslotted' = {} /\ DOMAIN mem' = Slotted'
  <2>1. PICK S : Compiles(S)
    BY <1>2, CompiledIs
  <2>2. pc' \in 1 .. Len(code)
    BY <1>1, <1>2, <2>1, FlowIs
  <2>3. Slotted' = Slotted
    BY <1>1 DEF Slotted
  <2>4. Unslotted' = Unslotted
    BY <1>1, <2>3 DEF Unslotted, Operands
  <2>5. DOMAIN mem' = DOMAIN mem
    <3>1. DOMAIN W = DOMAIN mem
      BY <1>0 DEF Written
    <3> QED BY <1>0, <3>1
  <2> QED BY <1>1, <1>2, <2>2, <2>3, <2>4, <2>5
<1>5. ASSUME Clean'
      PROVE  \E S : Backs(S)' /\ Live(S)'
  <2>1. Clean
    BY <1>1, <1>2, <1>5, StillReads
  <2>2. PICK S : /\ Backs(S) /\ Live(S) /\ Compiles(S) /\ Lines(prog, S, code, tmp_counter)
                 /\ tmp_counter \in 0 .. MaxTmps
    BY <1>1, <1>2, <1>5, StillReads
  <2>3. Runs(S)
    BY <1>2, <2>1, <2>2 DEF Runs
  <2>4. Live(S)'
    BY <1>0, <1>1, <2>2, <2>3, LiveStays
  <2>5. Backs(S)'
    BY <1>1, <2>2, StillBacks
  <2> QED BY <2>4, <2>5
<1> QED BY <1>1, <1>2, <1>3, <1>4, <1>5 DEF ReadsInv

\* While the code of a body that keeps its names and their sizes apart runs, every
\* word that can be read holds what was last written for its declaration, and an
\* address that is stored or copied through is the one just taken: strings and
\* aggregates of any size are written within the slots that alloc_slots gave their
\* names (ir_codegen.c 98).
THEOREM ReadsInvariance == Spec => []ReadsInv
<1>1. ControlInv /\ ControlInv' /\ ReadsInv /\ [Next]_vars => ReadsInv'
  <2> SUFFICES ASSUME ControlInv', ReadsInv, [Next]_vars PROVE ReadsInv'
    OBVIOUS
  <2>1. CASE Halt \/ UNCHANGED vars
    <3>1. UNCHANGED vars
      BY <2>1 DEF Halt
    <3>2. /\ prog' = prog /\ open' = open /\ code' = code /\ lowered' = lowered /\ lpos' = lpos
          /\ lstack' = lstack /\ loop_exit' = loop_exit /\ label_counter' = label_counter /\ tmp_counter' = tmp_counter
          /\ verdict' = verdict /\ emitted' = emitted /\ pc' = pc /\ mem' = mem
      BY <3>1 DEF vars, parseVars, checkVars, lowerVars
    <3>3. Len(prog') + Len(open') <= MaxLen
      BY <3>2 DEF ReadsInv
    <3>4. Slotted' = Slotted /\ Unslotted' = Unslotted
      BY <3>2 DEF Slotted, Unslotted, Operands
    <3>5. emitted' = "ok" =>
            lowered' = "ok" /\ pc' \in 1 .. Len(code') /\ Unslotted' = {} /\ DOMAIN mem' = Slotted'
      BY <3>2, <3>4 DEF ReadsInv
    <3>6. ASSUME verdict' = "ok", Clean'
          PROVE  \E S : Backs(S)' /\ (emitted' = "ok" => Live(S)')
      <4>1. PICK S : Backs(S) /\ (emitted = "ok" => Live(S))
        BY <3>2, <3>6, CleanBefore DEF ReadsInv
      <4>2. Backs(S)'
        BY <3>2, <4>1, StillBacks
      <4>3. Live(S) => Live(S)'
        BY <3>2 DEF Live
      <4> QED BY <3>2, <4>1, <4>2, <4>3
    <3> QED BY <3>3, <3>5, <3>6 DEF ReadsInv
  <2> QED BY <2>1, ParseReads, LowerReads, EmitReads, RunReads DEF Next
<1> QED BY <1>1, InitReads, ControlInvariance, PTL DEF Spec

LEMMA ReadsLexically == ReadsInv => LexicalReads
<1> SUFFICES ASSUME ReadsInv, Running, Clean, NEW v \in Operands(pc), v.name # None, code[pc].op # "ADDR"
             PROVE  mem[v.name].d = v.d
  BY DEF LexicalReads, Clean
<1>1. /\ ControlInv /\ (verdict = "ok" /\ Clean => \E S : Backs(S) /\ (emitted = "ok" => Live(S)))
      /\ lowered = "ok" /\ pc \in 1 .. Len(code) /\ Unslotted = {} /\ emitted = "ok"
  BY DEF ReadsInv, Running
<1>2. verdict = "ok"
  BY <1>1 DEF ControlInv, PassesInv, Unbegun
<1>3. PICK S : Backs(S) /\ Live(S)
  BY <1>1, <1>2
<1>4. Compiles(S) /\ Lines(prog, S, code, tmp_counter) /\ tmp_counter \in Nat
  BY <1>1, <1>3 DEF Backs, Through, Compiles
<1>5. Backed(prog, S, code, pc, v)
  <2>1. Line(prog, S, code, tmp_counter, pc)
    BY <1>1, <1>4 DEF Lines
  <2> QED BY <2>1 DEF Line, Operands
<1>6. v.name \notin Unkept(prog)
  <2>1. v.name \in Slotted
    BY <1>1 DEF Unslotted
  <2>2. PICK q \in 1 .. Len(code) : code[q].dst.name = v.name
    BY <2>1 DEF Slotted
  <2> QED BY <1>4, <2>2, NotKept DEF Clean
<1>7. PICK q \in 1 .. pc - 1 : Writes(code[q]) /\ code[q].dst = v /\ Covers(prog, S, code[q].at, code[pc].at)
  BY <1>5, <1>6 DEF Backed, Wrote
<1> QED BY <1>3, <1>7 DEF Live

\* Every value the emitted code reads is of the declaration that is meant, whatever
\* path brought control there (ir_codegen.c alloc_slots keys the frame by names
\* alone, and sizes a slot by the first request): in a body without shadowing, t<k>
\* names, uninitialised variables, fields of a variant named as a variable, and
\* variables under a name an earlier block gave to a smaller one.
THEOREM ReadsAreLexical == Spec => []LexicalReads
BY ReadsInvariance, ReadsLexically, PTL

=============================================================================
