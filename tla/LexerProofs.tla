----------------------------- MODULE LexerProofs -----------------------------
(***************************************************************************)
(* Proofs about Lexer: every token and every error is given at its line    *)
(* and column, the tokens given are those of the text, and sniff_is_proc   *)
(* answers as they would.                                                  *)
(*                                                                         *)
(* Places.  LInv says that line and bol are those of the cursor, as long   *)
(* as no escaped newline has been consumed, and that whatever was placed   *)
(* by Here (start, the lookahead, the tokens delivered) still has the      *)
(* place it was given.  Each step consumes characters of which none is a   *)
(* newline, or one newline that it counts, or an escaped one.              *)
(*                                                                         *)
(* Tokens.  WInv says that the tokens given, followed by what the text     *)
(* stands for from one place on, are the tokens of the text (Owed).  The   *)
(* place is the cursor between tokens; inside a token or a comment it is   *)
(* where that began, and WInv says what of it has been read (RunTo,        *)
(* StringTo, InsideComment).  What remains is about the text alone: where  *)
(* a piece of each kind ends, and that no longer piece means anything      *)
(* (WordEnds, IntEnds, StringCloses and the like).                         *)
(*                                                                         *)
(* Parentheses.  Where a text has no comments and no strings, its          *)
(* parentheses are tokens and nothing else has their spelling (Chain), so  *)
(* that sniff_is_proc may count characters.                                *)
(***************************************************************************)
EXTENDS Lexer, TLAPS, FiniteSetTheorems, SequenceTheorems, WellFoundedInduction

text == input.chars

\* A record has the line and the column of the character it begins with.
Placed(s, t) ==
  /\ t.first \in Nat
  /\ (\A j \in 1 .. t.first - 2 : Pair(s, j) # <<"\\", "\n">>)
       => t.line = Line(s, t.first) /\ t.col = Column(s, t.first)

\* The counters of a cursor that has consumed n characters.
Counted(s, n, l, b) ==
  (\A j \in 1 .. n - 1 : Pair(s, j) # <<"\\", "\n">>)
    => l = Line(s, n + 1) /\ b = Max({0} \cup Newlines(s, n + 1))

Sequence(s) == \E S : s \in Seq(S)
AllPlaced(s, toks) == Sequence(toks) /\ \A i \in 1 .. Len(toks) : Placed(s, toks[i])

LTypes == text \in Seq(Characters) /\ cur \in Nat /\ line \in Nat /\ bol \in Nat
Inside == /\ at # "overrun" => cur <= Len(text)
          /\ at = "overrun" => cur = Len(text) + 1 /\ text # <<>> /\ text[Len(text)] = "\\"
Cursor == at # "overrun" => Counted(text, cur, line, bol)
LInv ==
  /\ LTypes
  /\ Inside
  /\ Cursor
  /\ Placed(text, start)
  /\ AllPlaced(text, read)
  /\ AllPlaced(text, peek)
-----------------------------------------------------------------------------
(* The newlines before a character *)

\* The newlines before a character are finitely many.
LEMMA NewlinesFinite ==
  ASSUME NEW s, NEW n \in Nat
  PROVE  Newlines(s, n) \subseteq 1 .. n /\ IsFiniteSet(Newlines(s, n))
         /\ Cardinality(Newlines(s, n)) \in Nat
<1>1. Newlines(s, n) \subseteq 1 .. n
  BY DEF Newlines
<1>2. IsFiniteSet(1 .. n)
  BY FS_Interval
<1>3. IsFiniteSet(Newlines(s, n))
  BY <1>1, <1>2, FS_Subset
<1> QED BY <1>1, <1>3, FS_CardinalityType

\* The lines and columns at the beginning of a text.
LEMMA FirstPlace ==
  ASSUME NEW s
  PROVE  Newlines(s, 1) = {} /\ Line(s, 1) = 1 /\ Max({0} \cup Newlines(s, 1)) = 0
<1>1. Newlines(s, 1) = {}
  BY DEF Newlines
<1>2. Cardinality(Newlines(s, 1)) = 0
  BY <1>1, FS_EmptySet
<1>3. {0} \cup Newlines(s, 1) = {0}
  BY <1>1
<1>4. Max({0}) = 0
  BY DEF Max
<1> QED BY <1>1, <1>2, <1>3, <1>4 DEF Line

\* A character that is no newline changes neither line nor line start.
LEMMA SameNewlines ==
  ASSUME NEW s, NEW n \in Nat, s[n] # "\n"
  PROVE  Newlines(s, n + 1) = Newlines(s, n)
BY DEF Newlines

\* A newline begins the next line.
LEMMA NextNewline ==
  ASSUME NEW s, NEW n \in Nat \ {0}, s[n] = "\n"
  PROVE  /\ Line(s, n + 1) = Line(s, n) + 1
         /\ Max({0} \cup Newlines(s, n + 1)) = n
<1> DEFINE N == Newlines(s, n)
           M == {0} \cup Newlines(s, n + 1)
<1>1. IsFiniteSet(N) /\ Cardinality(N) \in Nat
  BY NewlinesFinite
<1>2. n \notin N
  BY DEF Newlines
<1>3. Newlines(s, n + 1) = N \cup {n}
  BY DEF Newlines
<1>4. Cardinality(N \cup {n}) = Cardinality(N) + 1
  BY <1>1, <1>2, FS_AddElement
<1>5. n \in M /\ (\A x \in M : n >= x /\ x \in Nat)
  BY <1>3 DEF Newlines
<1>6. \A x \in M : (\A y \in M : x >= y) => x = n
  BY <1>5
<1>7. Max(M) \in M /\ (\A y \in M : Max(M) >= y)
  BY <1>5 DEF Max
<1>8. Max(M) = n
  BY <1>6, <1>7
<1>9. Line(s, n + 1) = Line(s, n) + 1
  <2>1. Cardinality(Newlines(s, n + 1)) = Cardinality(Newlines(s, n)) + 1
    BY <1>3, <1>4
  <2>2. Cardinality(Newlines(s, n)) \in Nat
    BY <1>1
  <2> HIDE DEF N, M
  <2> QED BY <2>1, <2>2 DEF Line
<1> QED BY <1>8, <1>9

-----------------------------------------------------------------------------
(* Consuming characters *)

\* The counters stay true over characters none of which is a newline.
LEMMA CountedQuiet ==
  ASSUME NEW s, NEW c \in Nat, NEW n \in Nat, NEW l, NEW b,
         Counted(s, c, l, b), \A k \in 1 .. n : s[c + k] # "\n"
  PROVE  Counted(s, c + n, l, b)
<1>1. Newlines(s, c + n + 1) = Newlines(s, c + 1)
  <2>1. ASSUME NEW j \in Newlines(s, c + n + 1)
        PROVE  j \in Newlines(s, c + 1)
    <3>1. j \in 1 .. c + n /\ s[j] = "\n"
      BY <2>1 DEF Newlines
    <3>2. CASE j > c
      <4>1. PICK k : k = j - c
        OBVIOUS
      <4>2. k \in 1 .. n /\ c + k = j
        BY <3>1, <3>2, <4>1
      <4> QED BY <3>1, <4>2
    <3>3. CASE j <= c
      BY <3>1, <3>3 DEF Newlines
    <3> QED BY <3>1, <3>2, <3>3
  <2>2. Newlines(s, c + 1) \subseteq Newlines(s, c + n + 1)
    BY DEF Newlines
  <2> QED BY <2>1, <2>2
<1>2. (\A j \in 1 .. c + n - 1 : Pair(s, j) # <<"\\", "\n">>)
        => \A j \in 1 .. c - 1 : Pair(s, j) # <<"\\", "\n">>
  OBVIOUS
<1> QED BY <1>1, <1>2 DEF Counted, Line

\* A newline that is counted keeps them true.
LEMMA CountedNewline ==
  ASSUME NEW s, NEW c \in Nat, NEW l, NEW b,
         Counted(s, c, l, b), s[c + 1] = "\n"
  PROVE  Counted(s, c + 1, l + 1, c + 1)
<1>1. Line(s, c + 2) = Line(s, c + 1) + 1 /\ Max({0} \cup Newlines(s, c + 2)) = c + 1
  <2>1. PICK n \in Nat \ {0} : n = c + 1
    OBVIOUS
  <2>2. n + 1 = c + 2 /\ s[n] = "\n"
    BY <2>1
  <2>3. Line(s, n + 1) = Line(s, n) + 1 /\ Max({0} \cup Newlines(s, n + 1)) = n
    BY <2>2, NextNewline
  <2> QED BY <2>1, <2>2, <2>3
<1>2. (\A j \in 1 .. c + 1 - 1 : Pair(s, j) # <<"\\", "\n">>)
        => \A j \in 1 .. c - 1 : Pair(s, j) # <<"\\", "\n">>
  OBVIOUS
<1>3. c + 1 + 1 = c + 2
  OBVIOUS
<1> QED BY <1>1, <1>2, <1>3 DEF Counted

\* Behind an escaped newline nothing is said of them.
LEMMA CountedEscape ==
  ASSUME NEW s, NEW c \in Nat, NEW l, NEW b, Len(s) \in Nat, c + 2 <= Len(s),
         s[c + 1] = "\\", s[c + 2] = "\n"
  PROVE  Counted(s, c + 2, l, b)
<1>1. PICK k : k = c + 1
  OBVIOUS
<1>2. Pair(s, k) = <<s[k], s[k + 1]>> /\ k + 1 = c + 2
  BY <1>1 DEF Pair
<1>3. Pair(s, k) = <<"\\", "\n">>
  BY <1>1, <1>2
<1>4. k \in 1 .. c + 2 - 1
  BY <1>1
<1> QED BY <1>3, <1>4 DEF Counted

\* Characters of the text, and no others, are not the zero.
LEMMA CharacterHere ==
  ASSUME LTypes, NEW n \in Nat \ {0}
  PROVE  /\ Ch(n) # NUL <=> cur + n <= Len(text)
         /\ Ch(n) # NUL => Ch(n) = text[cur + n]
<1>1. NUL \notin Characters
  BY DEF NUL, Characters, WordChars, Alnum, Letters, Digits, Spaces
<1>2. Len(text) \in Nat /\ \A i \in 1 .. Len(text) : text[i] \in Characters
  BY DEF LTypes
<1>3. cur + n \in Nat /\ cur + n >= 1
  BY DEF LTypes
<1> QED BY <1>1, <1>2, <1>3 DEF Ch, text

\* Consuming characters of the text that are no newlines keeps the invariant.
LEMMA Quiet ==
  ASSUME LTypes, Inside, Cursor, NEW n \in Nat, at # "overrun", at' # "overrun",
         input' = input, cur' = cur + n, line' = line, bol' = bol,
         \A k \in 1 .. n : Ch(k) \notin {NUL, "\n"}
  PROVE  LTypes' /\ Inside' /\ Cursor'
<1>1. text' = text
  BY DEF text
<1>2. \A k \in 1 .. n : cur + k <= Len(text) /\ text[cur + k] # "\n"
  <2> SUFFICES ASSUME NEW k \in 1 .. n
               PROVE  cur + k <= Len(text) /\ text[cur + k] # "\n"
    OBVIOUS
  <2>1. k \in Nat \ {0} /\ Ch(k) # NUL /\ Ch(k) # "\n"
    OBVIOUS
  <2> QED BY <2>1, CharacterHere
<1>3. LTypes'
  BY <1>1 DEF LTypes
<1>4. cur + n <= Len(text)
  <2>1. CASE n = 0
    BY <2>1 DEF LTypes, Inside
  <2>2. CASE n # 0
    <3>1. n \in 1 .. n
      BY <2>2
    <3> QED BY <1>2, <3>1
  <2> QED BY <2>1, <2>2
<1>5. Counted(text, cur, line, bol)
  BY DEF Cursor
<1>6. Counted(text, cur + n, line, bol)
  BY <1>2, <1>5, CountedQuiet DEF LTypes
<1> QED BY <1>1, <1>3, <1>4, <1>6 DEF Inside, Cursor

\* So does consuming one character and counting it.
LEMMA Counts ==
  ASSUME LTypes, Inside, Cursor, at # "overrun", at' # "overrun",
         input' = input, AdvanceLine, Ch(1) # NUL
  PROVE  LTypes' /\ Inside' /\ Cursor'
<1>1. PICK n \in Nat \ {0} : n = 1
  OBVIOUS
<1>2. Ch(1) = Ch(n)
  BY <1>1
<1>3. cur + 1 <= Len(text) /\ Ch(1) = text[cur + 1]
  BY <1>1, <1>2, CharacterHere
<1>4. cur' = cur + 1
  BY DEF AdvanceLine, Advance
<1>5. CASE Ch(1) = "\n"
  <2>1. line' = line + 1 /\ bol' = cur + 1
    BY <1>5 DEF AdvanceLine
  <2>2. Counted(text, cur + 1, line + 1, cur + 1)
    BY <1>3, <1>5, CountedNewline DEF LTypes, Cursor
  <2> QED BY <1>3, <1>4, <2>1, <2>2 DEF LTypes, Inside, Cursor, text
<1>6. CASE Ch(1) # "\n"
  <2>1. line' = line /\ bol' = bol
    BY <1>6 DEF AdvanceLine, SameLine
  <2>2. \A k \in 1 .. n : Ch(k) \notin {NUL, "\n"}
    BY <1>1, <1>6
  <2>3. cur' = cur + n
    BY <1>1, <1>4
  <2> QED BY <2>1, <2>2, <2>3, Quiet
<1> QED BY <1>5, <1>6

-----------------------------------------------------------------------------
(* Places given to tokens *)

\* Here is the place of the cursor.
LEMMA HerePlaced ==
  ASSUME LTypes, Cursor, at # "overrun"
  PROVE  Placed(text, Here)
<1>1. Here.first = cur + 1 /\ Here.line = line /\ Here.col = cur - bol + 1
  BY DEF Here
<1>2. Counted(text, cur, line, bol) /\ cur \in Nat /\ bol \in Nat
  BY DEF Cursor, LTypes
<1>3. cur + 1 \in Nat /\ cur + 1 - 2 = cur - 1 /\ cur - bol + 1 = cur + 1 - bol
  BY <1>2
<1> HIDE DEF Here
<1> QED BY <1>1, <1>2, <1>3 DEF Placed, Counted, Column

\* A token appended to a sequence.
LEMMA PlacedAppend ==
  ASSUME NEW s, NEW toks, NEW tok, AllPlaced(s, toks), Placed(s, tok)
  PROVE  AllPlaced(s, Append(toks, tok))
<1>1. PICK S : toks \in Seq(S)
  BY DEF AllPlaced, Sequence
<1>2. PICK T : T = S \cup {tok}
  OBVIOUS
<1>3. toks \in Seq(T) /\ tok \in T
  BY <1>1, <1>2
<1>4. /\ Append(toks, tok) \in Seq(T)
      /\ Len(toks) \in Nat
      /\ Len(Append(toks, tok)) = Len(toks) + 1
      /\ \A i \in 1 .. Len(toks) : Append(toks, tok)[i] = toks[i]
      /\ Append(toks, tok)[Len(toks) + 1] = tok
  BY <1>3
<1>5. \A i \in 1 .. Len(toks) + 1 : i \in 1 .. Len(toks) \/ i = Len(toks) + 1
  BY <1>4
<1> QED BY <1>4, <1>5 DEF AllPlaced, Sequence

\* The lookahead appended to the tokens.
LEMMA PlacedConcat ==
  ASSUME NEW s, NEW a, NEW b, AllPlaced(s, a), AllPlaced(s, b)
  PROVE  AllPlaced(s, a \o b)
<1>1. PICK A : a \in Seq(A)
  BY DEF AllPlaced, Sequence
<1>2. PICK B : b \in Seq(B)
  BY DEF AllPlaced, Sequence
<1>3. PICK S : S = A \cup B
  OBVIOUS
<1>4. a \in Seq(S) /\ b \in Seq(S)
  BY <1>1, <1>2, <1>3
<1>5. /\ a \o b \in Seq(S)
      /\ Len(a) \in Nat /\ Len(b) \in Nat
      /\ Len(a \o b) = Len(a) + Len(b)
      /\ \A i \in 1 .. Len(a) + Len(b) : (a \o b)[i] = IF i <= Len(a) THEN a[i] ELSE b[i - Len(a)]
  BY <1>4
<1>6. ASSUME NEW i \in 1 .. Len(a) + Len(b)
      PROVE  Placed(s, (a \o b)[i])
  <2>1. CASE i <= Len(a)
    BY <1>5, <2>1 DEF AllPlaced
  <2>2. CASE i > Len(a)
    <3>1. i - Len(a) \in 1 .. Len(b)
      BY <1>5, <2>2
    <3>2. (a \o b)[i] = b[i - Len(a)]
      BY <1>5, <2>2
    <3> QED BY <3>1, <3>2 DEF AllPlaced
  <2> QED BY <1>5, <2>1, <2>2
<1> QED BY <1>5, <1>6 DEF AllPlaced, Sequence

\* The empty sequence and one token.
LEMMA PlacedShort ==
  ASSUME NEW s, NEW tok
  PROVE  AllPlaced(s, <<>>) /\ (Placed(s, tok) => AllPlaced(s, <<tok>>))
<1>1. PICK T : T = {tok}
  OBVIOUS
<1>2. <<>> \in Seq(T) /\ Len(<<>>) = 0 /\ <<tok>> \in Seq(T) /\ Len(<<tok>>) = 1 /\ <<tok>>[1] = tok
  BY <1>1
<1>3. \A i \in 1 .. 1 : i = 1
  OBVIOUS
<1> QED BY <1>2, <1>3 DEF AllPlaced, Sequence

\* What a step that keeps the tokens keeps of the invariant.
LEMMA KeepsTokens ==
  ASSUME LInv, input' = input, read' = read, peek' = peek, start' \in {start, Here}, at # "overrun"
  PROVE  Placed(text, start)' /\ AllPlaced(text, read)' /\ AllPlaced(text, peek)'
<1>1. Placed(text, Here) /\ Placed(text, start)
  BY HerePlaced DEF LInv
<1>2. Placed(text, start')
  BY <1>1
<1> HIDE DEF Here
<1> QED BY <1>2 DEF LInv, Placed, AllPlaced, Sequence, text

\* What a return to lex_next or lex_peek keeps of it.
LEMMA Returns ==
  ASSUME LInv, NEW n, NEW from \in {start, Here}, NEW lexeme, Return(n, from, lexeme), at # "overrun"
  PROVE  Placed(text, start)' /\ AllPlaced(text, read)' /\ AllPlaced(text, peek)'
<1>1. Placed(text, Here) /\ Placed(text, start)
  BY HerePlaced DEF LInv
<1>2. Placed(text, from)
  BY <1>1
<1>3. PICK tok : tok = [lexeme |-> lexeme, first |-> from.first, line |-> from.line, col |-> from.col]
  OBVIOUS
<1>4. Placed(text, tok)
  BY <1>2, <1>3 DEF Placed
<1> HIDE DEF Here
<1>5. text' = text /\ start' = from
  BY DEF Return, text
<1>6. \/ read' = Append(read, tok) /\ peek' = peek
      \/ read' = read /\ peek' = <<tok>>
  BY <1>3 DEF Return
<1>7. AllPlaced(text, read) /\ AllPlaced(text, peek)
  BY DEF LInv
<1>8. AllPlaced(text, read') /\ AllPlaced(text, peek')
  BY <1>4, <1>6, <1>7, PlacedAppend, PlacedShort
<1> QED BY <1>2, <1>5, <1>8 DEF Placed, AllPlaced, Sequence

-----------------------------------------------------------------------------
(* The operators *)

OperatorChars == {":", "-", "=", "<", ">", "!", "(", ")", "*", "."}

\* An operator has one to three characters, all of them printed ones.
LEMMA OperatorShape ==
  ASSUME NEW s \in Operators
  PROVE  /\ Len(s) \in 1 .. 3 /\ DOMAIN s = 1 .. Len(s)
         /\ \A i \in 1 .. Len(s) : s[i] \in OperatorChars
<1>1. CASE s \in Singles
  <2>1. PICK c \in OperatorChars : s = <<c>>
    BY <1>1 DEF Singles, OperatorChars
  <2>2. Len(s) = 1 /\ DOMAIN s = 1 .. 1 /\ s[1] = c
    BY <2>1
  <2>3. \A i \in 1 .. 1 : i = 1
    OBVIOUS
  <2> QED BY <2>2, <2>3
<1>2. CASE s \in Doubles
  <2>1. \E c, d \in OperatorChars : s = <<c, d>>
    BY <1>2 DEF Doubles, OperatorChars
  <2>2. PICK c \in OperatorChars, d \in OperatorChars : s = <<c, d>>
    BY <2>1
  <2>3. Len(s) = 2 /\ DOMAIN s = 1 .. 2 /\ s[1] = c /\ s[2] = d
    BY <2>2
  <2>4. \A i \in 1 .. 2 : i = 1 \/ i = 2
    OBVIOUS
  <2> QED BY <2>3, <2>4
<1>3. CASE s \in Triples
  <2>1. s = <<">", ">", ">">>
    BY <1>3 DEF Triples
  <2>2. Len(s) = 3 /\ DOMAIN s = 1 .. 3 /\ s[1] = ">" /\ s[2] = ">" /\ s[3] = ">"
    BY <2>1
  <2>3. \A i \in 1 .. 3 : i = 1 \/ i = 2 \/ i = 3
    OBVIOUS
  <2> QED BY <2>2, <2>3 DEF OperatorChars
<1> QED BY <1>1, <1>2, <1>3 DEF Operators

\* The operator at the cursor is the longest there, and its characters are there.
LEMMA OperatorThere ==
  ASSUME OperatorHere # {}
  PROVE  /\ Len(Operator) \in Nat
         /\ \A k \in 1 .. Len(Operator) : Ch(k) \notin {NUL, "\n"}
         /\ Operator \in OperatorHere /\ \A r \in OperatorHere : Len(r) <= Len(Operator)
<1>1. \A s \in OperatorHere : s \in Operators /\ Len(s) \in 1 .. 3
  BY OperatorShape DEF OperatorHere
<1>2. \E s \in OperatorHere : \A r \in OperatorHere : Len(r) <= Len(s)
  <2>1. CASE \E s \in OperatorHere : Len(s) = 3
    BY <1>1, <2>1, SMTT(30)
  <2>2. CASE (\A s \in OperatorHere : Len(s) # 3) /\ \E s \in OperatorHere : Len(s) = 2
    <3>1. PICK s \in OperatorHere : Len(s) = 2
      BY <2>2
    <3>2. ASSUME NEW r \in OperatorHere
          PROVE  Len(r) <= 2
      <4>1. Len(r) \in 1 .. 3
        BY <1>1
      <4>2. Len(r) # 3
        BY <2>2
      <4> QED BY <4>1, <4>2
    <3> QED BY <3>1, <3>2
  <2>3. CASE \A s \in OperatorHere : Len(s) # 3 /\ Len(s) # 2
    <3>1. \A r \in OperatorHere : Len(r) = 1
      BY <1>1, <2>3
    <3> QED BY <3>1
  <2> QED BY <2>1, <2>2, <2>3
<1>3. Operator \in OperatorHere /\ \A r \in OperatorHere : Len(r) <= Len(Operator)
  BY <1>2 DEF Operator
<1>4. PICK s : s = Operator
  OBVIOUS
<1>5. s \in Operators /\ \A i \in DOMAIN s : Ch(i) = s[i]
  BY <1>3, <1>4 DEF OperatorHere
<1>6. Len(s) \in 1 .. 3 /\ \A i \in 1 .. Len(s) : Ch(i) \in OperatorChars
  BY <1>5, OperatorShape
<1>7. NUL \notin OperatorChars /\ "\n" \notin OperatorChars
  BY DEF OperatorChars, NUL
<1> QED BY <1>3, <1>4, <1>6, <1>7

-----------------------------------------------------------------------------
(* The steps of the lexer *)

\* Before the first call nothing is consumed.
LEMMA InitLInv == Init => LInv
<1> SUFFICES ASSUME Init PROVE LInv
  OBVIOUS
<1>1. text \in Seq(Characters) /\ cur = 0 /\ line = 1 /\ bol = 0 /\ at = "idle"
  BY InputsAssumption DEF Init, text
<1>2. LTypes
  BY <1>1 DEF LTypes
<1>3. Inside
  BY <1>1 DEF Inside
<1>4. Cursor
  <2>1. 0 + 1 = 1
    OBVIOUS
  <2>2. Counted(text, 0, 1, 0)
    BY <2>1, FirstPlace DEF Counted
  <2> QED BY <1>1, <2>2 DEF Cursor
<1>5. start = Here /\ read = <<>> /\ peek = <<>>
  BY DEF Init
<1>6. Placed(text, Here)
  BY <1>1, <1>2, <1>4, HerePlaced
<1>7. AllPlaced(text, <<>>)
  BY PlacedShort
<1> HIDE DEF Here
<1> QED BY <1>2, <1>3, <1>4, <1>5, <1>6, <1>7 DEF LInv

\* Asking for a token changes the buffer alone.
LEMMA AskStep ==
  ASSUME LInv, lex_next \/ lex_peek
  PROVE  LInv'
<1>1. text' = text /\ cur' = cur /\ line' = line /\ bol' = bol /\ start' = start
      /\ at' # "overrun" /\ at # "overrun"
  BY DEF lex_next, lex_peek, text
<1>2. LTypes' /\ Inside' /\ Cursor' /\ Placed(text, start)'
  BY <1>1 DEF LInv, LTypes, Inside, Cursor, Placed
<1>3. \/ read' = read /\ peek' = peek
      \/ read' = read \o peek /\ peek' = <<>>
  BY DEF lex_next, lex_peek
<1>4. AllPlaced(text, read') /\ AllPlaced(text, peek')
  BY <1>3, PlacedConcat, PlacedShort DEF LInv
<1> QED BY <1>1, <1>2, <1>4 DEF LInv, AllPlaced, Sequence, Placed

\* The conjuncts of the invariant, of which a step shows two groups.
LEMMA Both ==
  ASSUME LTypes' /\ Inside' /\ Cursor',
         Placed(text, start)' /\ AllPlaced(text, read)' /\ AllPlaced(text, peek)'
  PROVE  LInv'
BY DEF LInv

\* Blanks: newlines are counted.
LEMMA BlankStep ==
  ASSUME LInv, Blank
  PROVE  LInv'
<1>1. at = "blank" /\ at' = "blank" /\ AdvanceLine /\ Ch(1) \in Spaces /\ input' = input
      /\ read' = read /\ peek' = peek /\ start' = start
  BY DEF Blank, SameToken, Outside
<1>2. Ch(1) # NUL
  BY <1>1 DEF Spaces, NUL
<1>3. LTypes' /\ Inside' /\ Cursor'
  BY <1>1, <1>2, Counts DEF LInv
<1> QED BY <1>1, <1>3, KeepsTokens, Both

\* Two characters that are there, and neither of which is a newline.
LEMMA QuietTwo ==
  ASSUME LInv, at # "overrun", at' # "overrun", input' = input, cur' = cur + 2, line' = line, bol' = bol,
         Ch(1) \notin {NUL, "\n"}, Ch(2) \notin {NUL, "\n"}
  PROVE  LTypes' /\ Inside' /\ Cursor'
<1>1. PICK n \in Nat : n = 2
  OBVIOUS
<1>2. \A k \in 1 .. n : k = 1 \/ k = 2
  BY <1>1
<1>3. \A k \in 1 .. n : Ch(k) \notin {NUL, "\n"}
  BY <1>2
<1>4. cur' = cur + n
  BY <1>1
<1> QED BY <1>3, <1>4, Quiet DEF LInv

\* One such character, or none.
LEMMA QuietOne ==
  ASSUME LInv, at # "overrun", at' # "overrun", input' = input, line' = line, bol' = bol,
         cur' = cur \/ cur' = cur + 0 \/ (cur' = cur + 1 /\ Ch(1) \notin {NUL, "\n"})
  PROVE  LTypes' /\ Inside' /\ Cursor'
<1>1. CASE cur' = cur + 1 /\ Ch(1) \notin {NUL, "\n"}
  <2>1. PICK n \in Nat : n = 1
    OBVIOUS
  <2>2. \A k \in 1 .. n : Ch(k) \notin {NUL, "\n"}
    <3>1. \A k \in 1 .. n : k = 1
      BY <2>1
    <3> QED BY <1>1, <3>1
  <2>3. cur' = cur + n
    BY <1>1, <2>1
  <2> QED BY <2>2, <2>3, Quiet DEF LInv
<1>2. CASE cur' = cur \/ cur' = cur + 0
  <2>1. cur' = cur
    BY <1>2 DEF LInv, LTypes
  <2> QED BY <2>1 DEF LInv, LTypes, Inside, Cursor, text
<1> QED BY <1>1, <1>2

\* A comment is opened: its place is that of the parenthesis.
LEMMA CommentStep ==
  ASSUME LInv, Comment
  PROVE  LInv'
<1>1. /\ at = "blank" /\ at' = "comment" /\ Ch(1) = "(" /\ Ch(2) = "*"
      /\ cur' = cur + 2 /\ line' = line /\ bol' = bol /\ start' = Here
      /\ input' = input /\ read' = read /\ peek' = peek
  BY DEF Comment, Opens, Advance, SameLine, Outside
<1> HIDE DEF Here
<1>2. Ch(1) \notin {NUL, "\n"} /\ Ch(2) \notin {NUL, "\n"}
  BY <1>1 DEF NUL
<1>3. LTypes' /\ Inside' /\ Cursor'
  BY <1>1, <1>2, QuietTwo
<1> QED BY <1>1, <1>3, KeepsTokens, Both

\* In a comment newlines are counted.
LEMMA InCommentStep ==
  ASSUME LInv, InComment
  PROVE  LInv'
<1>1. at = "comment" /\ input' = input /\ read' = read /\ peek' = peek /\ start' = start
  BY DEF InComment, Nest, Fail, SameToken, Outside
<1>2. CASE (Opens /\ Nest(depth + 1)) \/ (Closes /\ Nest(depth - 1))
  <2>1. cur' = cur + 2 /\ line' = line /\ bol' = bol /\ at' \in {"blank", at}
    BY <1>2 DEF Nest, Advance, SameLine
  <2>2. Ch(1) \in {"(", "*"} /\ Ch(2) \in {"*", ")"}
    BY <1>2 DEF Opens, Closes
  <2>3. Ch(1) \notin {NUL, "\n"} /\ Ch(2) \notin {NUL, "\n"}
    BY <2>2 DEF NUL
  <2>4. LTypes' /\ Inside' /\ Cursor'
    BY <1>1, <2>1, <2>3, QuietTwo
  <2> QED BY <1>1, <2>4, KeepsTokens, Both
<1>3. CASE ~at_end /\ AdvanceLine /\ UNCHANGED at
  <2>1. LTypes' /\ Inside' /\ Cursor'
    BY <1>1, <1>3, Counts DEF LInv, at_end
  <2> QED BY <1>1, <2>1, KeepsTokens, Both
<1>4. CASE at_end /\ Fail(start)
  <2>1. cur' = cur /\ line' = line /\ bol' = bol /\ at' = "error"
    BY <1>4 DEF Fail
  <2>2. LTypes' /\ Inside' /\ Cursor'
    BY <1>1, <2>1, QuietOne
  <2> QED BY <1>1, <2>2, KeepsTokens, Both
<1> QED BY <1>2, <1>3, <1>4 DEF InComment

\* A token begins, or is a whole operator.
LEMMA ScanStep ==
  ASSUME LInv, Scan
  PROVE  LInv'
<1>1. at = "blank"
  BY DEF Scan
<1> HIDE DEF Here
<1>2. ASSUME NEW n, NEW place, Begin(n, place), place # "overrun",
             \/ n = 1 /\ Ch(1) \notin {NUL, "\n"}
             \/ n = 2 /\ Ch(1) \notin {NUL, "\n"} /\ Ch(2) \notin {NUL, "\n"}
      PROVE  LInv'
  <2>1. /\ cur' = cur + n /\ line' = line /\ bol' = bol /\ at' = place /\ start' = Here
        /\ input' = input /\ read' = read /\ peek' = peek
    BY <1>2 DEF Begin, Advance, SameLine, Outside
  <2>2. LTypes' /\ Inside' /\ Cursor'
    BY <1>1, <1>2, <2>1, QuietOne, QuietTwo
  <2> QED BY <1>1, <2>1, <2>2, KeepsTokens, Both
<1>3. CASE at_end /\ Return(0, Here, End)
  <2>1. cur' = cur + 0 /\ line' = line /\ bol' = bol /\ at' = "idle" /\ input' = input
    BY <1>3 DEF Return, Advance, SameLine
  <2>2. LTypes' /\ Inside' /\ Cursor'
    BY <1>1, <2>1, QuietOne
  <2>3. Placed(text, start)' /\ AllPlaced(text, read)' /\ AllPlaced(text, peek)'
    BY <1>1, <1>3, Returns
  <2> QED BY <2>2, <2>3, Both
<1>4. CASE Ch(1) = "\"" /\ Begin(1, "string")
  BY <1>2, <1>4 DEF NUL
<1>5. CASE AtomFollows /\ Begin(1, "atom")
  BY <1>2, <1>5 DEF AtomFollows, NUL
<1>6. CASE Ch(1) \in Letters \cup {"_"} /\ Begin(1, "word")
  <2>1. Ch(1) \notin {NUL, "\n"}
    BY <1>6 DEF Letters, NUL
  <2> QED BY <1>2, <1>6, <2>1
<1>7. CASE Ch(1) \in Digits /\ IF Ch(1) = "0" /\ Ch(2) = "x" THEN Begin(2, "hex") ELSE Begin(1, "digits")
  <2>1. Ch(1) \notin {NUL, "\n"}
    BY <1>7 DEF Digits, NUL
  <2>2. CASE Ch(1) = "0" /\ Ch(2) = "x"
    BY <1>2, <1>7, <2>1, <2>2 DEF NUL
  <2>3. CASE ~(Ch(1) = "0" /\ Ch(2) = "x")
    BY <1>2, <1>7, <2>1, <2>3
  <2> QED BY <2>2, <2>3
<1>8. CASE OperatorHere # {} /\ Return(Len(Operator), Here, Lexeme("op", Operator))
  <2>1. PICK n : n = Len(Operator)
    OBVIOUS
  <2>2. PICK lexeme : lexeme = Lexeme("op", Operator)
    OBVIOUS
  <2>3. Return(n, Here, lexeme)
    BY <1>8, <2>1, <2>2
  <2>4. cur' = cur + n /\ line' = line /\ bol' = bol /\ at' = "idle" /\ input' = input
    BY <2>3 DEF Return, Advance, SameLine
  <2>5. n \in Nat /\ \A k \in 1 .. n : Ch(k) \notin {NUL, "\n"}
    BY <1>8, <2>1, OperatorThere
  <2>6. LTypes' /\ Inside' /\ Cursor'
    BY <1>1, <2>4, <2>5, Quiet DEF LInv
  <2>7. Placed(text, start)' /\ AllPlaced(text, read)' /\ AllPlaced(text, peek)'
    BY <1>1, <2>3, Returns
  <2> QED BY <2>6, <2>7, Both
<1>9. CASE Fail(Here)
  <2>1. cur' = cur /\ line' = line /\ bol' = bol /\ at' = "error" /\ start' = Here
        /\ input' = input /\ read' = read /\ peek' = peek
    BY <1>9 DEF Fail, Outside
  <2>2. LTypes' /\ Inside' /\ Cursor'
    BY <1>1, <2>1, QuietOne
  <2> QED BY <1>1, <2>1, <2>2, KeepsTokens, Both
<1> QED BY <1>3, <1>4, <1>5, <1>6, <1>7, <1>8, <1>9 DEF Scan

\* A string: an escaped newline is not counted, the others are; a backslash that
\* ends the text takes the cursor one past it.
LEMMA InStringStep ==
  ASSUME LInv, InString
  PROVE  LInv'
<1>1. at = "string" /\ input' = input
  BY DEF InString, Return, Store, Go, Fail, Outside
<1>2. CASE Ch(1) = "\"" /\ Return(1, start, Lexeme("string", data))
  <2>1. cur' = cur + 1 /\ line' = line /\ bol' = bol /\ at' = "idle"
    BY <1>2 DEF Return, Advance, SameLine
  <2>2. LTypes' /\ Inside' /\ Cursor'
    BY <1>1, <1>2, <2>1, QuietOne DEF NUL
  <2>3. Placed(text, start)' /\ AllPlaced(text, read)' /\ AllPlaced(text, peek)'
    <3>1. PICK n, lexeme : n = 1 /\ lexeme = Lexeme("string", data)
      OBVIOUS
    <3>2. Return(n, start, lexeme)
      BY <1>2, <3>1
    <3> QED BY <1>1, <3>2, Returns
  <2> QED BY <2>2, <2>3, Both
<1>3. CASE Ch(1) = "\\" /\ Ch(2) # NUL /\ SameLine /\ Store(2, Escape(Ch(2)))
  <2>1. cur' = cur + 2 /\ line' = line /\ bol' = bol /\ at' \in {"error", "string"}
        /\ start' = start /\ read' = read /\ peek' = peek
    BY <1>3 DEF Store, Advance, SameLine, Outside
  <2>2. LTypes' /\ Inside' /\ Cursor'
    <3>1. CASE Ch(2) # "\n"
      BY <1>1, <1>3, <2>1, <3>1, QuietTwo DEF NUL
    <3>2. CASE Ch(2) = "\n"
      <4>1. PICK n, k : n = 1 /\ k = 2
        OBVIOUS
      <4>2. Ch(n) # NUL /\ Ch(k) # NUL
        BY <1>3, <4>1 DEF NUL
      <4>3. cur + k <= Len(text) /\ Ch(n) = text[cur + n] /\ Ch(k) = text[cur + k]
        BY <4>1, <4>2, CharacterHere DEF LInv
      <4>4. cur + 2 <= Len(text) /\ text[cur + 1] = "\\" /\ text[cur + 2] = "\n"
        BY <1>3, <3>2, <4>1, <4>3
      <4>5. Counted(text, cur + 2, line, bol)
        BY <4>4, CountedEscape DEF LInv, LTypes
      <4> QED BY <1>1, <2>1, <4>4, <4>5 DEF LInv, LTypes, Inside, Cursor, text
    <3> QED BY <3>1, <3>2
  <2> QED BY <1>1, <2>1, <2>2, KeepsTokens, Both
<1>4. CASE Ch(1) = "\\" /\ Ch(2) = NUL /\ Go(2, "overrun")
  <2>1. cur' = cur + 2 /\ line' = line /\ bol' = bol /\ at' = "overrun"
        /\ start' = start /\ read' = read /\ peek' = peek
    BY <1>4 DEF Go, Advance, SameLine, SameToken, Outside
  <2>2. PICK n, k : n = 1 /\ k = 2
    OBVIOUS
  <2>3. Ch(n) # NUL /\ ~(Ch(k) # NUL)
    BY <1>4, <2>2 DEF NUL
  <2>4. cur + n <= Len(text) /\ Ch(n) = text[cur + n] /\ ~(cur + k <= Len(text))
    BY <2>2, <2>3, CharacterHere DEF LInv
  <2>5. cur + 2 = Len(text) + 1 /\ text[Len(text)] = "\\" /\ text # <<>>
    BY <1>4, <2>2, <2>4 DEF LInv, LTypes
  <2>6. LTypes' /\ Inside' /\ Cursor'
    BY <1>1, <2>1, <2>5 DEF LInv, LTypes, Inside, Cursor, text
  <2> QED BY <1>1, <2>1, <2>6, KeepsTokens, Both
<1>5. CASE /\ Ch(1) \notin {"\"", "\\", NUL}
           /\ IF Ch(1) = "\n" THEN line' = line + 1 /\ bol' = cur + 1 ELSE SameLine
           /\ Store(1, Ch(1))
  <2>1. AdvanceLine /\ at' \in {"error", "string"} /\ start' = start /\ read' = read /\ peek' = peek
    BY <1>5 DEF Store, AdvanceLine, Outside
  <2>2. LTypes' /\ Inside' /\ Cursor'
    BY <1>1, <1>5, <2>1, Counts DEF LInv
  <2> QED BY <1>1, <2>1, <2>2, KeepsTokens, Both
<1>6. CASE at_end /\ Fail(start)
  <2>1. cur' = cur /\ line' = line /\ bol' = bol /\ at' = "error" /\ start' = start
        /\ read' = read /\ peek' = peek
    BY <1>6 DEF Fail, Outside
  <2>2. LTypes' /\ Inside' /\ Cursor'
    BY <1>1, <2>1, QuietOne
  <2> QED BY <1>1, <2>1, <2>2, KeepsTokens, Both
<1> QED BY <1>2, <1>3, <1>4, <1>5, <1>6 DEF InString

\* Words and numbers hold no newline.
LEMMA LoopCharacters ==
  ASSUME at \in DOMAIN Loop
  PROVE  at # "overrun" /\ NUL \notin Loop[at] /\ "\n" \notin Loop[at]
<1>1. at \in {"word", "atom", "digits", "fraction", "exponent", "hex", "suffix"}
  BY DEF Loop
<1>2. Loop[at] \in {WordChars, Digits, HexDigits, Alnum}
  BY <1>1 DEF Loop
<1> QED BY <1>1, <1>2 DEF WordChars, Alnum, Letters, Digits, HexDigits, NUL

\* A run goes on.
LEMMA RunStep ==
  ASSUME LInv, Run
  PROVE  LInv'
<1>1. /\ at \in DOMAIN Loop /\ Ch(1) \in Loop[at]
      /\ cur' = cur + 1 /\ line' = line /\ bol' = bol /\ at' = at /\ start' = start
      /\ input' = input /\ read' = read /\ peek' = peek
  BY DEF Run, Go, Advance, SameLine, SameToken, Outside
<1>2. at # "overrun" /\ Ch(1) \notin {NUL, "\n"}
  BY <1>1, LoopCharacters
<1>3. LTypes' /\ Inside' /\ Cursor'
  BY <1>1, <1>2, QuietOne
<1> QED BY <1>1, <1>2, <1>3, KeepsTokens, Both

\* A run ends: another begins, or the token is returned, or refused.
LEMMA RunEndsStep ==
  ASSUME LInv, RunEnds
  PROVE  LInv'
<1>1. at # "overrun"
  BY LoopCharacters DEF RunEnds
<1>2. ASSUME NEW n, NEW place, Go(n, place), place # "overrun",
             \/ n = 1 /\ Ch(1) \notin {NUL, "\n"}
             \/ n = 2 /\ Ch(1) \notin {NUL, "\n"} /\ Ch(2) \notin {NUL, "\n"}
      PROVE  LInv'
  <2>1. /\ cur' = cur + n /\ line' = line /\ bol' = bol /\ at' = place /\ start' = start
        /\ input' = input /\ read' = read /\ peek' = peek
    BY <1>2 DEF Go, Advance, SameLine, SameToken, Outside
  <2>2. LTypes' /\ Inside' /\ Cursor'
    BY <1>1, <1>2, <2>1, QuietOne, QuietTwo
  <2> QED BY <1>1, <2>1, <2>2, KeepsTokens, Both
<1>3. ASSUME NEW lexeme, Return(0, start, lexeme)
      PROVE  LInv'
  <2>1. cur' = cur + 0 /\ line' = line /\ bol' = bol /\ at' = "idle" /\ input' = input
    BY <1>3 DEF Return, Advance, SameLine
  <2>2. LTypes' /\ Inside' /\ Cursor'
    BY <1>1, <2>1, QuietOne
  <2>3. Placed(text, start)' /\ AllPlaced(text, read)' /\ AllPlaced(text, peek)'
    <3>1. PICK n : n = 0
      OBVIOUS
    <3>2. Return(n, start, lexeme)
      BY <1>3, <3>1
    <3> QED BY <1>1, <3>2, Returns
  <2> QED BY <2>2, <2>3, Both
<1>4. CASE Fail(start)
  <2>1. cur' = cur /\ line' = line /\ bol' = bol /\ at' = "error" /\ start' = start
        /\ input' = input /\ read' = read /\ peek' = peek
    BY <1>4 DEF Fail, Outside
  <2>2. LTypes' /\ Inside' /\ Cursor'
    BY <1>1, <2>1, QuietOne
  <2> QED BY <1>1, <2>1, <2>2, KeepsTokens, Both
<1>5. CASE Fraction /\ Go(1, "fraction")
  BY <1>2, <1>5 DEF Fraction, NUL
<1>6. CASE ExponentFollows /\ Go(Sign, "exponent")
  BY <1>2, <1>6 DEF ExponentFollows, Sign, NUL
<1>7. CASE SuffixFollows /\ Go(1, "suffix")
  <2>1. Ch(1) \notin {NUL, "\n"}
    BY <1>7 DEF SuffixFollows, Letters, NUL
  <2> QED BY <1>2, <1>7, <2>1
<1> QED BY <1>3, <1>4, <1>5, <1>6, <1>7 DEF RunEnds

-----------------------------------------------------------------------------
(* The theorem of the places *)

\* Every step keeps the invariant.
LEMMA NextLInv == LInv /\ [Next]_vars => LInv'
<1> SUFFICES ASSUME LInv, [Next]_vars
             PROVE  LInv'
  OBVIOUS
<1>1. CASE lex_next \/ lex_peek
  BY <1>1, AskStep
<1>2. CASE Blank
  BY <1>2, BlankStep
<1>3. CASE Comment
  BY <1>3, CommentStep
<1>4. CASE InComment
  BY <1>4, InCommentStep
<1>5. CASE Scan
  BY <1>5, ScanStep
<1>6. CASE InString
  BY <1>6, InStringStep
<1>7. CASE Run
  BY <1>7, RunStep
<1>8. CASE RunEnds
  BY <1>8, RunEndsStep
<1>9. CASE UNCHANGED vars
  BY <1>9 DEF vars, LInv, LTypes, Inside, Cursor, Placed, AllPlaced, Sequence, text
<1> QED BY <1>1, <1>2, <1>3, <1>4, <1>5, <1>6, <1>7, <1>8, <1>9 DEF Next

\* In every state line and bol are those of the cursor, unless an escaped newline
\* was consumed, and whatever was given a place keeps it (lex.c:61, lex.c:80).
THEOREM LInvariance == Spec => []LInv
<1>1. Init => LInv
  BY InitLInv
<1>2. LInv /\ [Next]_vars => LInv'
  BY NextLInv
<1> QED BY <1>1, <1>2, PTL DEF Spec

\* The tokens given and the place of an error have the line and the column of the
\* character they begin with, for every text without an escaped newline before
\* it, however lex_next and lex_peek are mixed (lex.c:66, lex.c:151).
THEOREM TokensLocated == Spec => []Located
<1>1. LInv => Located
  <2> SUFFICES ASSUME LInv,
                      NEW t \in ToSet(Delivered) \cup (IF at = "error" THEN {start} ELSE {}),
                      ~EscapedNewline(t.first)
               PROVE  t.line = Line(text, t.first) /\ t.col = Column(text, t.first)
    BY DEF Located, text
  <2>1. AllPlaced(text, Delivered)
    BY PlacedConcat DEF LInv, Delivered
  <2>2. Sequence(Delivered) /\ \A i \in 1 .. Len(Delivered) : Placed(text, Delivered[i])
    BY <2>1 DEF AllPlaced
  <2>3. PICK S : Delivered \in Seq(S)
    BY <2>2 DEF Sequence
  <2>4. DOMAIN Delivered = 1 .. Len(Delivered)
    BY <2>3
  <2>5. \A u \in ToSet(Delivered) : Placed(text, u)
    BY <2>2, <2>4 DEF ToSet
  <2>6. Placed(text, t)
    BY <2>5 DEF LInv
  <2>7. \A j \in 1 .. t.first - 2 : Pair(text, j) # <<"\\", "\n">>
    BY DEF EscapedNewline, text
  <2> QED BY <2>6, <2>7 DEF Placed
<1> QED BY <1>1, LInvariance, PTL
-----------------------------------------------------------------------------
(* The recursive functions of Tokens *)

\* Every set of numbers that has an element has a least one.
LEMMA Least ==
  ASSUME NEW N \in SUBSET Nat, N # {}
  PROVE  \E m \in N : \A k \in N : m <= k
<1> DEFINE T == {1 .. k : k \in N}
<1>1. IsWellFoundedOn(StrictSubsetOrdering(Nat), FiniteSubsetsOf(Nat))
  BY FS_StrictSubsetOrderingWellFounded
<1>2. T \subseteq FiniteSubsetsOf(Nat) /\ T # {}
  <2> SUFFICES ASSUME NEW k \in N
               PROVE  (1 .. k) \in FiniteSubsetsOf(Nat)
    OBVIOUS
  <2>1. IsFiniteSet(1 .. k)
    BY FS_Interval
  <2> QED BY <2>1 DEF FiniteSubsetsOf
<1>3. PICK x \in T : \A y \in T : <<y, x>> \notin StrictSubsetOrdering(Nat)
  BY <1>1, <1>2, WFMin
<1>4. PICK m \in N : x = 1 .. m
  OBVIOUS
<1>5. ASSUME NEW k \in N, k < m
      PROVE  FALSE
  <2>1. (1 .. k) \in T
    OBVIOUS
  <2>2. 1 .. k \subseteq 1 .. m /\ m \in 1 .. m /\ m \notin 1 .. k
    BY <1>5
  <2>3. <<1 .. k, x>> \in StrictSubsetOrdering(Nat)
    BY <1>4, <2>2 DEF StrictSubsetOrdering
  <2> QED BY <1>3, <2>1, <2>3
<1> QED BY <1>5

\* A bounded one has a greatest one.
LEMMA Greatest ==
  ASSUME NEW N \in SUBSET Nat, N # {}, NEW n \in Nat, \A k \in N : k <= n
  PROVE  \E m \in N : \A k \in N : k <= m
<1> DEFINE D == {n - k : k \in N}
<1>1. D \in SUBSET Nat /\ D # {}
  <2>1. \A k \in N : n - k \in Nat
    OBVIOUS
  <2>2. \A d \in D : d \in Nat
    BY <2>1
  <2>3. D # {}
    OBVIOUS
  <2> QED BY <2>2, <2>3
<1>2. PICK d \in D : \A e \in D : d <= e
  BY <1>1, Least
<1>3. PICK m \in N : d = n - m
  OBVIOUS
<1>4. ASSUME NEW k \in N
      PROVE  k <= m
  <2>1. n - k \in D
    OBVIOUS
  <2> QED BY <1>2, <1>3, <2>1
<1> QED BY <1>4

\* One turn of CommentEnds, and of TokensFrom.
EndStep(s, end, j, d) ==
  IF d = 0 THEN j
  ELSE IF j > Len(s) THEN 0
  ELSE IF Pair(s, j) = Opening THEN end[j + 2][d + 1]
  ELSE IF Pair(s, j) = Closing THEN end[j + 2][d - 1]
  ELSE end[j + 1][d]

TokenAt(t, i) == [lexeme |-> t, first |-> i]
Ends(s, i) == {j \in i .. Len(s) : Meaning(SubSeq(s, i, j)) # Error}
Longest(s, i) == Max(Ends(s, i))
LongestMeaning(s, i) == Meaning(SubSeq(s, i, Longest(s, i)))
Refused(s, i) ==
  \/ Ends(s, i) = {}
  \/ LongestMeaning(s, i).kind = "int" /\ Longest(s, i) < Len(s) /\ s[Longest(s, i) + 1] \in Alnum
  \/ LongestMeaning(s, i).kind = "string" /\ Len(LongestMeaning(s, i).data) >= StringRoom - 1
FromStep(s, from, i) ==
  IF i > Len(s) THEN <<TokenAt(End, i)>>
  ELSE IF s[i] \in Spaces THEN from[i + 1]
  ELSE IF Pair(s, i) = Opening
  THEN IF CommentEnds(s)[i + 2][1] = 0 THEN <<TokenAt(Error, i)>> ELSE from[CommentEnds(s)[i + 2][1]]
  ELSE IF Refused(s, i) THEN <<TokenAt(Error, i)>>
  ELSE <<TokenAt(LongestMeaning(s, i), i)>> \o from[Longest(s, i) + 1]

\* There is a function that takes these turns down to a place.
LEMMA EndDown ==
  ASSUME NEW s, Len(s) \in Nat, NEW k \in Nat
  PROVE  \E g : \A j, d \in Nat : j >= k => g[j][d] = EndStep(s, g, j, d)
<1> DEFINE Good(n) == \E g : \A j, d \in Nat : j >= n => g[j][d] = EndStep(s, g, j, d)
           Bad == {n \in Nat : ~Good(n)}
<1>1. \A n \in Nat : n > Len(s) => Good(n)
  <2> SUFFICES ASSUME NEW n \in Nat, n > Len(s)
               PROVE  Good(n)
    OBVIOUS
  <2>1. PICK g : g = [j \in Nat |-> [d \in Nat |-> IF d = 0 THEN j ELSE 0]]
    OBVIOUS
  <2>2. \A j, d \in Nat : g[j][d] = IF d = 0 THEN j ELSE 0
    BY <2>1
  <2>3. \A j, d \in Nat : j >= n => g[j][d] = EndStep(s, g, j, d)
    BY <2>2 DEF EndStep
  <2> QED BY <2>3
<1>2. ASSUME NEW n \in Nat, Good(n + 1)
      PROVE  Good(n)
  <2>1. PICK g : \A j, d \in Nat : j >= n + 1 => g[j][d] = EndStep(s, g, j, d)
    BY <1>2
  <2>2. PICK h : h = [j \in Nat |-> [d \in Nat |-> IF j = n THEN EndStep(s, g, j, d) ELSE g[j][d]]]
    OBVIOUS
  <2>3. \A j, d \in Nat : h[j][d] = IF j = n THEN EndStep(s, g, j, d) ELSE g[j][d]
    BY <2>2
  <2>4. \A j, d \in Nat : j >= n => h[j][d] = EndStep(s, g, j, d)
    BY <2>1, <2>3
  <2>5. \A j, d \in Nat : j >= n => EndStep(s, h, j, d) = EndStep(s, g, j, d)
    <3> SUFFICES ASSUME NEW j \in Nat, NEW d \in Nat, j >= n
                 PROVE  EndStep(s, h, j, d) = EndStep(s, g, j, d)
      OBVIOUS
    <3>1. h[j + 2][d + 1] = g[j + 2][d + 1] /\ h[j + 1][d] = g[j + 1][d]
      BY <2>3
    <3>2. d # 0 => h[j + 2][d - 1] = g[j + 2][d - 1]
      BY <2>3
    <3> QED BY <3>1, <3>2 DEF EndStep
  <2>6. \A j, d \in Nat : j >= n => h[j][d] = EndStep(s, h, j, d)
    BY <2>4, <2>5
  <2> QED BY <2>6
<1> HIDE DEF Good
<1>3. CASE Bad = {}
  <2>1. Good(k)
    BY <1>3
  <2> QED BY <2>1 DEF Good
<1>4. CASE Bad # {}
  <2>1. \A n \in Bad : n <= Len(s)
    BY <1>1
  <2>2. PICK m \in Bad : \A n \in Bad : n <= m
    BY <1>4, <2>1, Greatest
  <2>3. Good(m + 1)
    BY <2>2
  <2>4. Good(m)
    BY <1>2, <2>3
  <2> QED BY <2>4
<1> QED BY <1>3, <1>4

\* So CommentEnds is one.
LEMMA EndTurns ==
  ASSUME NEW s, Len(s) \in Nat, NEW E, E = CommentEnds(s)
  PROVE  \A j, d \in Nat : E[j][d] = EndStep(s, E, j, d)
<1>1. PICK n \in Nat : n = 0
  OBVIOUS
<1>2. PICK g : \A j, d \in Nat : j >= n => g[j][d] = EndStep(s, g, j, d)
  BY EndDown
<1>3. PICK h : h = [j \in Nat |-> [d \in Nat |-> g[j][d]]]
  OBVIOUS
<1>4. \A j, d \in Nat : h[j][d] = g[j][d]
  BY <1>3
<1>5. \A j, d \in Nat : EndStep(s, h, j, d) = EndStep(s, g, j, d)
  <2> SUFFICES ASSUME NEW j \in Nat, NEW d \in Nat
               PROVE  EndStep(s, h, j, d) = EndStep(s, g, j, d)
    OBVIOUS
  <2>1. h[j + 2][d + 1] = g[j + 2][d + 1] /\ h[j + 1][d] = g[j + 1][d]
    BY <1>4
  <2>2. d # 0 => h[j + 2][d - 1] = g[j + 2][d - 1]
    BY <1>4
  <2> QED BY <2>1, <2>2 DEF EndStep
<1>6. \A j, d \in Nat : g[j][d] = EndStep(s, h, j, d)
  BY <1>1, <1>2, <1>5
<1>7. h = [j \in Nat |-> [d \in Nat |-> EndStep(s, h, j, d)]]
  BY <1>3, <1>6
<1>8. E = CHOOSE f : f = [j \in Nat |-> [d \in Nat |-> EndStep(s, f, j, d)]]
  BY DEF CommentEnds, EndStep
<1>9. E = [j \in Nat |-> [d \in Nat |-> EndStep(s, E, j, d)]]
  BY <1>7, <1>8
<1>10. \A j \in Nat : E[j] = [d \in Nat |-> EndStep(s, E, j, d)]
  BY ONLY <1>9
<1> QED BY ONLY <1>10

\* A comment ends behind the place where it is, if it ends.
LEMMA EndAhead ==
  ASSUME NEW s, Len(s) \in Nat, NEW k \in Nat, NEW E, E = CommentEnds(s)
  PROVE  \A d \in Nat : E[k][d] \in Nat /\ (E[k][d] = 0 \/ E[k][d] >= k)
<1> DEFINE Good(n) == \A d \in Nat : E[n][d] \in Nat /\ (E[n][d] = 0 \/ E[n][d] >= n)
           Bad == {n \in Nat : ~Good(n)}
<1>1. \A n, d \in Nat : E[n][d] = EndStep(s, E, n, d)
  BY EndTurns
<1>2. \A n \in Nat : n > Len(s) => Good(n)
  BY <1>1 DEF EndStep
<1>3. ASSUME NEW n \in Nat, Good(n + 1), Good(n + 2)
      PROVE  Good(n)
  <2> SUFFICES ASSUME NEW d \in Nat
               PROVE  E[n][d] \in Nat /\ (E[n][d] = 0 \/ E[n][d] >= n)
    OBVIOUS
  <2>1. E[n][d] = EndStep(s, E, n, d)
    BY <1>1
  <2>2. d = 0 \/ d - 1 \in Nat
    OBVIOUS
  <2>3. CASE d = 0
    BY <2>1, <2>3 DEF EndStep
  <2>4. CASE d # 0
    <3>1. E[n][d] \in {0, E[n + 2][d + 1], E[n + 2][d - 1], E[n + 1][d]}
      BY <2>1, <2>4 DEF EndStep
    <3>2. \A e \in {E[n + 2][d + 1], E[n + 2][d - 1], E[n + 1][d]} : e \in Nat /\ (e = 0 \/ e >= n)
      BY <1>3, <2>2, <2>4
    <3>3. PICK e : e = E[n][d]
      OBVIOUS
    <3>4. e = 0 \/ (e \in Nat /\ (e = 0 \/ e >= n))
      BY ONLY <3>1, <3>2, <3>3
    <3> QED BY ONLY <3>3, <3>4
  <2> QED BY <2>3, <2>4
<1> HIDE DEF Good
<1>4. CASE Bad = {}
  <2>1. Good(k)
    BY <1>4
  <2> QED BY <2>1 DEF Good
<1>5. CASE Bad # {}
  <2>1. \A n \in Bad : n <= Len(s)
    BY <1>2
  <2>2. PICK m \in Bad : \A n \in Bad : n <= m
    BY <1>5, <2>1, Greatest
  <2>3. Good(m + 1) /\ Good(m + 2)
    BY <2>2
  <2>4. Good(m)
    BY <1>3, <2>3
  <2> QED BY <2>4
<1> QED BY <1>4, <1>5

\* The comment that begins at i ends behind it; the longest token at i is one.
LEMMA CommentAhead ==
  ASSUME NEW s, Len(s) \in Nat, NEW i \in Nat
  PROVE  CommentEnds(s)[i + 2][1] \in Nat
         /\ (CommentEnds(s)[i + 2][1] = 0 \/ CommentEnds(s)[i + 2][1] >= i + 2)
<1>1. PICK E : E = CommentEnds(s)
  OBVIOUS
<1>2. PICK k \in Nat, d \in Nat : k = i + 2 /\ d = 1
  OBVIOUS
<1>3. E[k][d] \in Nat /\ (E[k][d] = 0 \/ E[k][d] >= k)
  BY <1>1, EndAhead
<1> QED BY <1>1, <1>2, <1>3

LEMMA LongestIn ==
  ASSUME NEW s, Len(s) \in Nat, NEW i \in Nat, Ends(s, i) # {}
  PROVE  /\ Longest(s, i) \in Ends(s, i) /\ Longest(s, i) \in i .. Len(s)
         /\ \A j \in Ends(s, i) : j <= Longest(s, i)
<1>1. PICK N : N = Ends(s, i)
  OBVIOUS
<1>2. N \in SUBSET Nat /\ N # {} /\ \A j \in N : j \in i .. Len(s)
  BY <1>1 DEF Ends
<1>3. \E m \in N : \A j \in N : j <= m
  <2>1. PICK n \in Nat : n = Len(s)
    OBVIOUS
  <2>2. \A j \in N : j <= n
    BY <1>2, <2>1
  <2> QED BY <1>2, <2>2, Greatest
<1>4. Max(N) \in N /\ \A j \in N : j <= Max(N)
  <2>1. \E m \in N : \A j \in N : m >= j
    BY <1>3
  <2> QED BY <1>2, <2>1 DEF Max
<1> QED BY <1>1, <1>2, <1>4 DEF Longest

\* There is a function that takes the turns of TokensFrom down to a place.
LEMMA FromDown ==
  ASSUME NEW s, Len(s) \in Nat, NEW k \in Nat
  PROVE  \E g : \A i \in Nat : i >= k => g[i] = FromStep(s, g, i)
<1> DEFINE Good(n) == \E g : \A i \in Nat : i >= n => g[i] = FromStep(s, g, i)
           Bad == {n \in Nat : ~Good(n)}
<1>1. \A n \in Nat : n > Len(s) => Good(n)
  <2> SUFFICES ASSUME NEW n \in Nat, n > Len(s)
               PROVE  Good(n)
    OBVIOUS
  <2>1. PICK g : g = [i \in Nat |-> <<TokenAt(End, i)>>]
    OBVIOUS
  <2>2. \A i \in Nat : i >= n => g[i] = FromStep(s, g, i)
    BY <2>1 DEF FromStep
  <2> QED BY <2>2
<1>2. ASSUME NEW n \in Nat, Good(n + 1)
      PROVE  Good(n)
  <2>1. PICK g : \A i \in Nat : i >= n + 1 => g[i] = FromStep(s, g, i)
    BY <1>2
  <2>2. PICK h : h = [i \in Nat |-> IF i = n THEN FromStep(s, g, i) ELSE g[i]]
    OBVIOUS
  <2>3. \A i \in Nat : h[i] = IF i = n THEN FromStep(s, g, i) ELSE g[i]
    BY <2>2
  <2>4. \A i \in Nat : i >= n => h[i] = FromStep(s, g, i)
    BY <2>1, <2>3
  <2>5. ASSUME NEW i \in Nat, i >= n
        PROVE  FromStep(s, h, i) = FromStep(s, g, i)
    <3>1. h[i + 1] = g[i + 1]
      BY <2>3, <2>5
    <3>2. CommentEnds(s)[i + 2][1] # 0 => h[CommentEnds(s)[i + 2][1]] = g[CommentEnds(s)[i + 2][1]]
      BY <2>3, <2>5, CommentAhead
    <3>3. i <= Len(s) /\ ~Refused(s, i) => h[Longest(s, i) + 1] = g[Longest(s, i) + 1]
      BY <2>3, <2>5, LongestIn DEF Refused
    <3> QED BY <3>1, <3>2, <3>3 DEF FromStep
  <2>6. \A i \in Nat : i >= n => h[i] = FromStep(s, h, i)
    BY <2>4, <2>5
  <2> QED BY <2>6
<1> HIDE DEF Good
<1>3. CASE Bad = {}
  <2>1. Good(k)
    BY <1>3
  <2> QED BY <2>1 DEF Good
<1>4. CASE Bad # {}
  <2>1. \A n \in Bad : n <= Len(s)
    BY <1>1
  <2>2. PICK m \in Bad : \A n \in Bad : n <= m
    BY <1>4, <2>1, Greatest
  <2>3. Good(m + 1)
    BY <2>2
  <2>4. Good(m)
    BY <1>2, <2>3
  <2> QED BY <2>4
<1> QED BY <1>3, <1>4

\* So TokensFrom is one.
LEMMA FromTurns ==
  ASSUME NEW s, Len(s) \in Nat, NEW F, F = TokensFrom(s)
  PROVE  \A i \in Nat : F[i] = FromStep(s, F, i)
<1>1. PICK n \in Nat : n = 0
  OBVIOUS
<1>2. PICK g : \A i \in Nat : i >= n => g[i] = FromStep(s, g, i)
  BY FromDown
<1>3. PICK h : h = [i \in Nat |-> g[i]]
  OBVIOUS
<1>4. \A i \in Nat : h[i] = g[i]
  BY <1>3
<1>5. ASSUME NEW i \in Nat
      PROVE  FromStep(s, h, i) = FromStep(s, g, i)
  <2>1. h[i + 1] = g[i + 1]
    BY <1>4
  <2>2. CommentEnds(s)[i + 2][1] # 0 => h[CommentEnds(s)[i + 2][1]] = g[CommentEnds(s)[i + 2][1]]
    BY <1>4, CommentAhead
  <2>3. i <= Len(s) /\ ~Refused(s, i) => h[Longest(s, i) + 1] = g[Longest(s, i) + 1]
    BY <1>4, LongestIn DEF Refused
  <2> QED BY <2>1, <2>2, <2>3 DEF FromStep
<1>6. \A i \in Nat : g[i] = FromStep(s, h, i)
  BY <1>1, <1>2, <1>5
<1>7. h = [i \in Nat |-> FromStep(s, h, i)]
  BY <1>3, <1>6
<1>8. F = CHOOSE f : f = [i \in Nat |-> FromStep(s, f, i)]
  BY DEF TokensFrom, FromStep, Refused, LongestMeaning, Longest, Ends, TokenAt
<1>9. F = [i \in Nat |-> FromStep(s, F, i)]
  BY <1>7, <1>8
<1> QED BY <1>9

-----------------------------------------------------------------------------
(* What a piece of the text means *)

\* The pieces of a text.
LEMMA Pieces ==
  ASSUME NEW S, NEW s \in Seq(S), NEW i \in 1 .. Len(s) + 1, NEW j \in i - 1 .. Len(s), NEW w, w = SubSeq(s, i, j)
  PROVE  w \in Seq(S) /\ Len(w) = j - i + 1 /\ \A k \in 1 .. Len(w) : w[k] = s[i + k - 1]
<1>1. i \in Int /\ j \in Int /\ Len(s) \in Nat
  OBVIOUS
<1>2. \A k \in i .. j : s[k] \in S
  <2>1. \A k \in i .. j : k \in 1 .. Len(s)
    BY <1>1
  <2> QED BY <2>1, ElementOfSeq
<1>3. /\ w \in Seq(S) /\ Len(w) = (IF i <= j THEN j - i + 1 ELSE 0)
      /\ \A k \in 1 .. j - i + 1 : w[k] = s[i + k - 1]
  BY <1>1, <1>2, SubSeqProperties
<1>4. Len(w) = j - i + 1
  BY <1>1, <1>3
<1> QED BY <1>3, <1>4

LEMMA Piece ==
  ASSUME NEW s \in Seq(Characters), NEW i \in 1 .. Len(s), NEW j \in i .. Len(s), NEW w, w = SubSeq(s, i, j)
  PROVE  /\ w \in Seq(Characters) /\ Len(w) = j - i + 1 /\ Len(w) \in Nat \ {0} /\ w # <<>>
         /\ Head(w) = s[i] /\ DOMAIN w = 1 .. Len(w)
         /\ \A k \in 1 .. Len(w) : w[k] = s[i + k - 1]
         /\ \A k \in i .. j : w[k - i + 1] = s[k]
<1>1. w \in Seq(Characters) /\ Len(w) = j - i + 1 /\ \A k \in 1 .. Len(w) : w[k] = s[i + k - 1]
  BY Pieces
<1>2. Len(w) \in Nat \ {0} /\ w # <<>> /\ Head(w) = s[i] /\ DOMAIN w = 1 .. Len(w)
  BY <1>1
<1>3. ASSUME NEW k \in i .. j
      PROVE  w[k - i + 1] = s[k]
  <2>1. k - i + 1 \in 1 .. Len(w) /\ i + (k - i + 1) - 1 = k
    BY <1>1
  <2> QED BY <1>1, <2>1
<1> QED BY <1>1, <1>2, <1>3

\* A piece of a piece.
LEMMA PieceOf ==
  ASSUME NEW s \in Seq(Characters), NEW i \in 1 .. Len(s), NEW j \in i .. Len(s), NEW w, w = SubSeq(s, i, j),
         NEW a \in i .. j + 1, NEW b \in a - 1 .. j
  PROVE  SubSeq(w, a - i + 1, b - i + 1) = SubSeq(s, a, b)
<1>1. w \in Seq(Characters) /\ Len(w) = j - i + 1 /\ \A k \in 1 .. Len(w) : w[k] = s[i + k - 1]
  BY Piece
<1>2. PICK u, v : u = SubSeq(w, a - i + 1, b - i + 1) /\ v = SubSeq(s, a, b)
  OBVIOUS
<1>3. a - i + 1 \in 1 .. Len(w) + 1 /\ b - i + 1 \in a - i .. Len(w)
  BY <1>1
<1>4. u \in Seq(Characters) /\ Len(u) = b - a + 1 /\ \A k \in 1 .. b - a + 1 : u[k] = w[a - i + 1 + k - 1]
  BY <1>1, <1>2, <1>3
<1>5. v \in Seq(Characters) /\ Len(v) = b - a + 1 /\ \A k \in 1 .. b - a + 1 : v[k] = s[a + k - 1]
  BY <1>2
<1>6. ASSUME NEW k \in 1 .. b - a + 1
      PROVE  u[k] = v[k]
  <2>1. PICK m : m = a - i + 1 + k - 1
    OBVIOUS
  <2>2. m \in 1 .. Len(w) /\ i + m - 1 = a + k - 1
    BY <1>1, <2>1
  <2>3. w[m] = s[a + k - 1]
    BY <1>1, <2>2
  <2> QED BY <1>4, <1>5, <2>1, <2>3
<1>7. u = v
  <2>1. Len(u) = Len(v) /\ \A k \in 1 .. Len(u) : u[k] = v[k]
    BY <1>4, <1>5, <1>6
  <2> QED BY <1>4, <1>5, <2>1, SeqEqual
<1> QED BY <1>2, <1>7

\* All characters of a sequence are in a class.
LEMMA AllOf ==
  ASSUME NEW S, NEW w \in Seq(S), NEW C
  PROVE  All(w, C) <=> \A k \in 1 .. Len(w) : w[k] \in C
<1>1. DOMAIN w = 1 .. Len(w)
  OBVIOUS
<1> QED BY <1>1 DEF All, ToSet

LEMMA AllPiece ==
  ASSUME NEW s \in Seq(Characters), NEW i \in 1 .. Len(s), NEW j \in i - 1 .. Len(s), NEW C
  PROVE  All(SubSeq(s, i, j), C) <=> \A k \in i .. j : s[k] \in C
<1>1. PICK w : w = SubSeq(s, i, j)
  OBVIOUS
<1>2. CASE j = i - 1
  <2>1. w \in Seq(Characters) /\ Len(w) = 0
    BY <1>1, <1>2, Pieces
  <2>2. All(w, C)
    <3>1. All(w, C) <=> \A k \in 1 .. Len(w) : w[k] \in C
      BY <2>1, AllOf
    <3> QED BY ONLY <2>1, <3>1
  <2> QED BY <1>1, <1>2, <2>2
<1>3. CASE j >= i
  <2>1. w \in Seq(Characters) /\ Len(w) = j - i + 1 /\ \A k \in 1 .. Len(w) : w[k] = s[i + k - 1]
    BY <1>1, <1>3, Piece
  <2>2. All(w, C) <=> \A k \in 1 .. Len(w) : w[k] \in C
    BY <2>1, AllOf
  <2>3. ASSUME \A k \in 1 .. Len(w) : w[k] \in C, NEW k \in i .. j
        PROVE  s[k] \in C
    <3>1. k - i + 1 \in 1 .. Len(w) /\ i + (k - i + 1) - 1 = k
      BY ONLY <2>1, k \in i .. j, i \in Nat, j \in Int
    <3> QED BY <2>1, <2>3, <3>1
  <2>4. ASSUME \A k \in i .. j : s[k] \in C, NEW k \in 1 .. Len(w)
        PROVE  w[k] \in C
    <3>1. i + k - 1 \in i .. j
      BY <2>1
    <3> QED BY <2>1, <2>4, <3>1
  <2> QED BY <1>1, <2>2, <2>3, <2>4
<1> QED BY <1>2, <1>3

Quote == "\""

\* The classes of characters a token can begin with have nothing in common.
LEMMA Classes ==
  /\ WordChars = Letters \cup {"_"} \cup Digits /\ (Letters \cup {"_"}) \cap Digits = {}
  /\ OperatorChars \cap WordChars = {} /\ Quote \notin OperatorChars \cup WordChars
  /\ "\\" \notin OperatorChars \cup WordChars /\ "$" \notin OperatorChars \cup WordChars
  /\ ":" \in OperatorChars /\ HexDigits \subseteq Alnum /\ Alnum \subseteq WordChars /\ Digits \subseteq HexDigits
  /\ Alnum = Letters \cup Digits
BY DEF WordChars, Alnum, Letters, Digits, HexDigits, OperatorChars, Quote

\* What the first character of a piece says of its kind.
LEMMA FirstSays ==
  ASSUME NEW w \in Seq(Characters), w # <<>>
  PROVE  /\ Word(w) => Head(w) \in Letters \cup {"_"}
         /\ Integer(w) \/ Float(w) => Head(w) \in Digits
         /\ Quoted(w) => Head(w) = Quote
         /\ w \in Operators => Head(w) \in OperatorChars
         /\ Word(Tail(w)) => w \notin Operators
<1>1. Len(w) \in Nat \ {0} /\ Head(w) = w[1] /\ Tail(w) \in Seq(Characters)
  OBVIOUS
<1>2. ASSUME Word(w)
      PROVE  Head(w) \in Letters \cup {"_"}
  <2>1. Head(w) \in WordChars /\ Head(w) \notin Digits
    <3>1. 1 \in 1 .. Len(w)
      BY <1>1
    <3>2. All(w, WordChars) /\ Head(w) \notin Digits
      BY <1>2 DEF Word
    <3>3. \A k \in 1 .. Len(w) : w[k] \in WordChars
      BY <3>2, AllOf
    <3> QED BY <1>1, <3>1, <3>2, <3>3
  <2> QED BY <2>1, Classes
<1>3. ASSUME NEW m \in 1 .. Len(w), NEW u, u = SubSeq(w, 1, m), Number(u)
      PROVE  Head(w) \in Digits
  <2>1. u \in Seq(Characters) /\ Len(u) = m /\ u[1] = w[1]
    BY <1>1, <1>3
  <2>2. 1 \in 1 .. Len(u)
    BY <2>1
  <2>3. u[1] \in Digits
    BY <1>3, <2>1, <2>2, AllOf DEF Number
  <2> QED BY <1>1, <2>1, <2>3
<1>4. ASSUME Integer(w)
      PROVE  Head(w) \in Digits
  <2>1. PICK n \in {0} \cup {Len(x) : x \in IntSuffixes} :
             /\ n <= Len(w)
             /\ LET digits == SubSeq(w, 1, Len(w) - n) IN
                \/ Number(digits)
                \/ Len(digits) >= 2 /\ digits[1] = "0" /\ digits[2] = "x" /\ All(From(digits, 3), HexDigits)
    BY <1>4 DEF Integer
  <2>2. n \in {0, 1, 2}
    BY <2>1 DEF IntSuffixes
  <2>3. PICK m, u : m = Len(w) - n /\ u = SubSeq(w, 1, m)
    OBVIOUS
  <2>4. m \in 0 .. Len(w) /\ u \in Seq(Characters) /\ Len(u) = m /\ \A k \in 1 .. Len(u) : u[k] = w[k]
    <3>1. m \in 0 .. Len(w)
      BY <1>1, <2>1, <2>2, <2>3
    <3>2. PICK i : i = 1
      OBVIOUS
    <3>3. i \in 1 .. Len(w) + 1 /\ m \in i - 1 .. Len(w) /\ m - i + 1 = m
      BY <1>1, <3>1, <3>2
    <3>4. u \in Seq(Characters) /\ Len(u) = m /\ \A k \in 1 .. Len(u) : u[k] = w[i + k - 1]
      BY <2>3, <3>2, <3>3, Pieces
    <3> QED BY <3>1, <3>2, <3>4
  <2>5. CASE Number(u)
    <3>1. m # 0
      BY <2>4, <2>5 DEF Number
    <3>2. m \in 1 .. Len(w)
      BY <1>1, <2>4, <3>1
    <3> QED BY <1>3, <2>3, <2>5, <3>2
  <2>6. CASE Len(u) >= 2 /\ u[1] = "0"
    <3>1. 1 \in 1 .. Len(u) /\ u[1] = w[1]
      BY <2>4, <2>6
    <3> QED BY <1>1, <2>6, <3>1 DEF Digits
  <2>7. Number(u) \/ (Len(u) >= 2 /\ u[1] = "0")
    BY ONLY <2>1, <2>3
  <2> QED BY <2>5, <2>6, <2>7
<1>5. ASSUME Float(w)
      PROVE  Head(w) \in Digits
  <2>1. PICK i \in 1 .. Len(w) : Number(SubSeq(w, 1, i))
    BY <1>5 DEF Float
  <2> QED BY <1>3, <2>1
<1>6. ASSUME w \in Operators
      PROVE  Head(w) \in OperatorChars
  <2>1. 1 \in 1 .. Len(w)
    BY <1>1
  <2> QED BY <1>1, <1>6, <2>1, OperatorShape
<1>7. ASSUME Word(Tail(w))
      PROVE  w \notin Operators
  <2> SUFFICES ASSUME w \in Operators PROVE FALSE
    OBVIOUS
  <2>1. PICK t : t = Tail(w)
    OBVIOUS
  <2>2. t \in Seq(Characters) /\ t # <<>> /\ All(t, WordChars) /\ Len(t) = Len(w) - 1 /\ t[1] = w[2]
    BY <1>1, <1>7, <2>1 DEF Word
  <2>3. Len(t) \in Nat \ {0} /\ 1 \in 1 .. Len(t)
    BY <2>2
  <2>4. t[1] \in WordChars
    <3>1. \A k \in 1 .. Len(t) : t[k] \in WordChars
      BY <2>2, AllOf
    <3> QED BY <2>3, <3>1
  <2>5. 2 \in 1 .. Len(w)
    BY <1>1, <2>2, <2>3
  <2>6. w[2] \in OperatorChars
    BY <2>5, OperatorShape
  <2> QED BY <2>2, <2>4, <2>6, Classes
<1>8. Quoted(w) => Head(w) = Quote
  BY DEF Quoted, Quote
<1> QED BY <1>2, <1>4, <1>5, <1>6, <1>7, <1>8

Atom(w) == Head(w) = ":" /\ Word(Tail(w))

\* So the kinds exclude one another, and each piece of a kind has its meaning.
LEMMA MeaningOf ==
  ASSUME NEW w \in Seq(Characters), w # <<>>
  PROVE  /\ Word(w) => Meaning(w) = Lexeme(WordKind(w), w)
         /\ Atom(w) => Meaning(w) = Lexeme("atom", Tail(w))
         /\ Integer(w) => Meaning(w) = Lexeme("int", w)
         /\ ~Integer(w) /\ Float(w) => Meaning(w) = Lexeme("float", w)
         /\ Quoted(w) => Meaning(w) = Lexeme("string", Content(w))
         /\ w \in Operators => Meaning(w) = Lexeme("op", w)
         /\ Meaning(w) # Error
              <=> Word(w) \/ Atom(w) \/ Integer(w) \/ Float(w) \/ Quoted(w) \/ w \in Operators
<1>1. /\ Letters \cup {"_"} = WordChars \ Digits
      /\ Quote \notin WordChars \cup OperatorChars /\ OperatorChars \cap WordChars = {}
      /\ ":" \in OperatorChars /\ Digits \subseteq WordChars
  BY Classes
<1>2. /\ Word(w) => Head(w) \in WordChars \ Digits
      /\ Integer(w) \/ Float(w) => Head(w) \in Digits
      /\ Quoted(w) => Head(w) = Quote
      /\ w \in Operators => Head(w) \in OperatorChars
      /\ Word(Tail(w)) => w \notin Operators
      /\ Atom(w) <=> Head(w) = ":" /\ Word(Tail(w))
  BY <1>1, FirstSays DEF Atom
<1>3. /\ Word(w) => ~Atom(w) /\ ~Integer(w) /\ ~Float(w) /\ ~Quoted(w) /\ w \notin Operators
      /\ Atom(w) => ~Word(w) /\ ~Integer(w) /\ ~Float(w) /\ ~Quoted(w) /\ w \notin Operators
      /\ Integer(w) \/ Float(w) => ~Word(w) /\ ~Atom(w) /\ ~Quoted(w) /\ w \notin Operators
      /\ Quoted(w) => ~Word(w) /\ ~Atom(w) /\ ~Integer(w) /\ ~Float(w) /\ w \notin Operators
      /\ w \in Operators => ~Word(w) /\ ~Atom(w) /\ ~Integer(w) /\ ~Float(w) /\ ~Quoted(w)
  BY <1>1, <1>2
<1>4. Meaning(w) =
        CASE Word(w)                    -> Lexeme(WordKind(w), w)
          [] Atom(w)                    -> Lexeme("atom", Tail(w))
          [] Integer(w)                 -> Lexeme("int", w)
          [] ~Integer(w) /\ Float(w)    -> Lexeme("float", w)
          [] Quoted(w)                  -> Lexeme("string", Content(w))
          [] w \in Operators            -> Lexeme("op", w)
          [] OTHER                      -> Error
  BY DEF Meaning, Atom
<1>5. /\ \A d : Lexeme("atom", d) # Error /\ Lexeme("int", d) # Error /\ Lexeme("float", d) # Error
      /\ \A d : Lexeme("string", d) # Error /\ Lexeme("op", d) # Error /\ Lexeme(WordKind(w), d) # Error
  <2>1. \A k, d : k # "error" => Lexeme(k, d) # Error
    <3> SUFFICES ASSUME NEW k, NEW d, Lexeme(k, d) = Error PROVE k = "error"
      OBVIOUS
    <3>1. Lexeme(k, d).kind = k /\ Error.kind = "error"
      BY DEF Lexeme, Error
    <3> QED BY <3>1
  <2>2. WordKind(w) # "error"
    BY DEF WordKind
  <2> QED BY <2>1, <2>2
<1>6. CASE Word(w)
  BY <1>3, <1>4, <1>5, <1>6
<1>7. CASE Atom(w)
  BY <1>3, <1>4, <1>5, <1>7
<1>8. CASE Integer(w)
  BY <1>3, <1>4, <1>5, <1>8
<1>9. CASE ~Integer(w) /\ Float(w)
  BY <1>3, <1>4, <1>5, <1>9
<1>10. CASE Quoted(w)
  BY <1>3, <1>4, <1>5, <1>10
<1>11. CASE w \in Operators
  BY <1>3, <1>4, <1>5, <1>11
<1>12. CASE ~(Word(w) \/ Atom(w) \/ Integer(w) \/ Float(w) \/ Quoted(w) \/ w \in Operators)
  BY <1>4, <1>12
<1> QED BY <1>6, <1>7, <1>8, <1>9, <1>10, <1>11, <1>12

-----------------------------------------------------------------------------
(* Numbers, by the places of their parts *)

AreDigits(s, i, j) == i <= j /\ \A k \in i .. j : s[k] \in Digits
AreHex(s, i, j) ==
  i + 1 <= j /\ s[i] = "0" /\ s[i + 1] = "x" /\ \A k \in i + 2 .. j : s[k] \in HexDigits
AreSuffix(s, i, j) == SubSeq(s, i, j) \in IntSuffixes
AreExponent(s, i, j) ==
  /\ i <= j /\ s[i] = "e"
  /\ i < j /\ s[i + 1] = "-" => \A k \in i + 2 .. j : s[k] \in Digits
  /\ ~(i < j /\ s[i + 1] = "-") => \A k \in i + 1 .. j : s[k] \in Digits
AreInteger(s, i, j) ==
  \E m \in i .. j : (m < j => AreSuffix(s, m + 1, j)) /\ (AreDigits(s, i, m) \/ AreHex(s, i, m))
AreFloat(s, i, j) ==
  \E a \in i .. j : \E m \in a .. j :
    /\ a < j /\ AreDigits(s, i, a)
    /\ a < m => s[a + 1] = "." /\ AreDigits(s, a + 2, m)
    /\ m < j => AreExponent(s, m + 1, j)

\* Digits.
LEMMA NumberPiece ==
  ASSUME NEW s \in Seq(Characters), NEW i \in 1 .. Len(s) + 1, NEW j \in i - 1 .. Len(s)
  PROVE  Number(SubSeq(s, i, j)) <=> AreDigits(s, i, j)
<1>1. PICK w : w = SubSeq(s, i, j)
  OBVIOUS
<1>2. w \in Seq(Characters) /\ Len(w) = j - i + 1 /\ \A k \in 1 .. Len(w) : w[k] = s[i + k - 1]
  BY <1>1, Pieces
<1>3. w # <<>> <=> i <= j
  BY <1>2
<1>4. CASE i <= j
  <2>1. i \in 1 .. Len(s)
    BY <1>4
  <2>2. All(w, Digits) <=> \A k \in i .. j : s[k] \in Digits
    BY <1>1, <2>1, AllPiece
  <2> QED BY <1>1, <1>3, <1>4, <2>2 DEF Number, AreDigits
<1>5. CASE ~(i <= j)
  BY <1>1, <1>3, <1>5 DEF Number, AreDigits
<1> QED BY <1>4, <1>5

\* Suffixes have one or two characters, none of which is an e or an x.
LEMMA SuffixShape ==
  ASSUME NEW u \in IntSuffixes
  PROVE  Len(u) \in 1 .. 2 /\ \A k \in 1 .. Len(u) : u[k] \in {"u", "i", "8"}
<1>1. CASE u = <<"u">>
  <2>1. Len(u) = 1 /\ u[1] = "u"
    BY <1>1
  <2>2. \A k \in 1 .. 1 : k = 1
    OBVIOUS
  <2> QED BY <2>1, <2>2
<1>2. CASE u = <<"i", "8">> \/ u = <<"u", "8">>
  <2>1. Len(u) = 2 /\ u[1] \in {"i", "u"} /\ u[2] = "8"
    BY <1>2
  <2>2. \A k \in 1 .. 2 : k = 1 \/ k = 2
    OBVIOUS
  <2> QED BY <2>1, <2>2
<1> QED BY <1>1, <1>2 DEF IntSuffixes

\* The lengths of suffixes.
LEMMA SuffixLengths == {Len(x) : x \in IntSuffixes} = {1, 2}
<1>1. Len(<<"u">>) = 1 /\ Len(<<"i", "8">>) = 2 /\ Len(<<"u", "8">>) = 2
  OBVIOUS
<1> QED BY <1>1 DEF IntSuffixes

\* An integer is digits, or a zero, an x and hexadecimal digits, and perhaps a suffix.
LEMMA IntegerPiece ==
  ASSUME NEW s \in Seq(Characters), NEW i \in 1 .. Len(s), NEW j \in i .. Len(s), NEW w, w = SubSeq(s, i, j)
  PROVE  Integer(w) <=> AreInteger(s, i, j)
<1>1. w \in Seq(Characters) /\ Len(w) = j - i + 1 /\ Len(w) \in Nat
  BY Piece
<1>2. ASSUME NEW n \in {0, 1, 2}, n <= Len(w), NEW m, m = j - n
      PROVE  /\ m \in i - 1 .. j /\ SubSeq(w, 1, Len(w) - n) = SubSeq(s, i, m)
             /\ From(w, Len(w) - n + 1) = SubSeq(s, m + 1, j)
  <2>1. m \in i - 1 .. j
    BY <1>1, <1>2
  <2>2. SubSeq(w, i - i + 1, m - i + 1) = SubSeq(s, i, m)
    <3>1. i \in i .. j + 1
      OBVIOUS
    <3> QED BY <2>1, <3>1, PieceOf
  <2>3. SubSeq(w, m + 1 - i + 1, j - i + 1) = SubSeq(s, m + 1, j)
    <3>1. PICK a : a = m + 1
      OBVIOUS
    <3>2. a \in i .. j + 1 /\ j \in a - 1 .. j
      BY <2>1, <3>1
    <3>3. SubSeq(w, a - i + 1, j - i + 1) = SubSeq(s, a, j)
      BY <3>2, PieceOf
    <3>4. m + 1 - i + 1 = a - i + 1 /\ m + 1 = a
      BY ONLY <2>1, <3>1, i \in 1 .. Len(s), j \in i .. Len(s), Len(s) \in Nat
    <3> QED BY ONLY <3>3, <3>4, Zenon
  <2>4. i - i + 1 = 1 /\ m - i + 1 = Len(w) - n /\ m + 1 - i + 1 = Len(w) - n + 1 /\ j - i + 1 = Len(w)
    BY <1>1, <1>2
  <2> QED BY <2>1, <2>2, <2>3, <2>4 DEF From
<1>3. ASSUME NEW m \in i - 1 .. j, NEW d, d = SubSeq(s, i, m)
      PROVE  /\ Number(d) <=> m >= i /\ AreDigits(s, i, m)
             /\ Len(d) >= 2 /\ d[1] = "0" /\ d[2] = "x" /\ All(From(d, 3), HexDigits) <=> m >= i /\ AreHex(s, i, m)
  <2>1. Number(d) <=> AreDigits(s, i, m)
    <3>1. i \in 1 .. Len(s) + 1 /\ m \in i - 1 .. Len(s)
      OBVIOUS
    <3> QED BY <1>3, <3>1, NumberPiece
  <2>2. d \in Seq(Characters) /\ Len(d) = m - i + 1 /\ \A k \in 1 .. Len(d) : d[k] = s[i + k - 1]
    <3>1. i \in 1 .. Len(s) + 1 /\ m \in i - 1 .. Len(s)
      OBVIOUS
    <3> QED BY <1>3, <3>1, Pieces
  <2>3. CASE m >= i + 1
    <3>1. Len(d) >= 2 /\ d[1] = s[i] /\ d[2] = s[i + 1]
      <4>1. 1 \in 1 .. Len(d) /\ 2 \in 1 .. Len(d) /\ i + 1 - 1 = i /\ i + 2 - 1 = i + 1
        BY <2>2, <2>3
      <4> QED BY <2>2, <2>3, <4>1
    <3>2. From(d, 3) = SubSeq(s, i + 2, m)
      <4>1. m \in i .. Len(s) /\ i + 2 \in i .. m + 1 /\ m \in (i + 2) - 1 .. m
        BY <2>3
      <4>2. SubSeq(d, i + 2 - i + 1, m - i + 1) = SubSeq(s, i + 2, m)
        BY <1>3, <4>1, PieceOf
      <4>3. i + 2 - i + 1 = 3
        OBVIOUS
      <4> QED BY <2>2, <4>2, <4>3 DEF From
    <3>3. All(From(d, 3), HexDigits) <=> \A k \in i + 2 .. m : s[k] \in HexDigits
      <4>1. CASE i + 2 <= Len(s)
        <5>1. PICK a : a = i + 2
          OBVIOUS
        <5>2. a \in 1 .. Len(s) /\ m \in a - 1 .. Len(s)
          BY <2>3, <4>1, <5>1
        <5>3. All(SubSeq(s, a, m), HexDigits) <=> \A k \in a .. m : s[k] \in HexDigits
          BY <5>2, AllPiece
        <5> QED BY ONLY <3>2, <5>1, <5>3, Zenon
      <4>2. CASE ~(i + 2 <= Len(s))
        <5>1. PICK a : a = i + 2
          OBVIOUS
        <5>2. m < a /\ a \in 1 .. Len(s) + 1 /\ m \in a - 1 .. Len(s)
          BY <2>3, <4>2, <5>1
        <5>3. From(d, 3) \in Seq(Characters) /\ Len(From(d, 3)) = 0
          <6>1. From(d, 3) = SubSeq(s, a, m)
            BY <3>2, <5>1
          <6>2. From(d, 3) \in Seq(Characters) /\ Len(From(d, 3)) = m - a + 1
            BY <5>2, <6>1, Pieces
          <6> QED BY <5>2, <6>2
        <5>4. All(From(d, 3), HexDigits)
          <6>1. All(From(d, 3), HexDigits) <=> \A k \in 1 .. Len(From(d, 3)) : From(d, 3)[k] \in HexDigits
            BY <5>3, AllOf
          <6> QED BY ONLY <5>3, <6>1
        <5> QED BY <5>1, <5>2, <5>4
      <4> QED BY <4>1, <4>2
    <3> QED BY <2>1, <2>3, <3>1, <3>3 DEF AreDigits, AreHex
  <2>4. CASE m < i + 1
    BY <2>1, <2>2, <2>4 DEF AreDigits, AreHex
  <2> QED BY <2>3, <2>4
<1>4. Integer(w) <=> \E n \in {0, 1, 2} :
        /\ n <= Len(w)
        /\ n > 0 => From(w, Len(w) - n + 1) \in IntSuffixes
        /\ LET digits == SubSeq(w, 1, Len(w) - n) IN
           \/ Number(digits)
           \/ Len(digits) >= 2 /\ digits[1] = "0" /\ digits[2] = "x" /\ All(From(digits, 3), HexDigits)
  <2>1. {0} \cup {Len(x) : x \in IntSuffixes} = {0, 1, 2}
    BY SuffixLengths
  <2> QED BY <2>1 DEF Integer
<1>5. ASSUME Integer(w)
      PROVE  AreInteger(s, i, j)
  <2>1. PICK n \in {0, 1, 2} :
        /\ n <= Len(w)
        /\ n > 0 => From(w, Len(w) - n + 1) \in IntSuffixes
        /\ LET digits == SubSeq(w, 1, Len(w) - n) IN
           \/ Number(digits)
           \/ Len(digits) >= 2 /\ digits[1] = "0" /\ digits[2] = "x" /\ All(From(digits, 3), HexDigits)
    BY <1>4, <1>5
  <2>2. PICK m : m = j - n
    OBVIOUS
  <2>3. /\ m \in i - 1 .. j /\ SubSeq(w, 1, Len(w) - n) = SubSeq(s, i, m)
        /\ From(w, Len(w) - n + 1) = SubSeq(s, m + 1, j)
    BY <1>2, <2>1, <2>2
  <2>4. PICK d : d = SubSeq(s, i, m)
    OBVIOUS
  <2>5. \/ Number(d)
        \/ Len(d) >= 2 /\ d[1] = "0" /\ d[2] = "x" /\ All(From(d, 3), HexDigits)
    BY ONLY <2>1, <2>3, <2>4
  <2>6. m >= i /\ (AreDigits(s, i, m) \/ AreHex(s, i, m))
    BY <1>3, <2>3, <2>4, <2>5
  <2>7. m < j => AreSuffix(s, m + 1, j)
    <3>1. m < j => n > 0
      BY <2>1, <2>2
    <3>2. n > 0 => SubSeq(s, m + 1, j) \in IntSuffixes
      BY ONLY <2>1, <2>3, Zenon
    <3> QED BY ONLY <3>1, <3>2, Zenon DEF AreSuffix
  <2>8. m \in i .. j
    BY <2>3, <2>6
  <2> QED BY <2>6, <2>7, <2>8 DEF AreInteger
<1>6. ASSUME AreInteger(s, i, j)
      PROVE  Integer(w)
  <2>1. PICK m \in i .. j : (m < j => AreSuffix(s, m + 1, j)) /\ (AreDigits(s, i, m) \/ AreHex(s, i, m))
    BY <1>6 DEF AreInteger
  <2>2. PICK n : n = j - m
    OBVIOUS
  <2>3. n \in {0, 1, 2} /\ n <= Len(w) /\ m = j - n
    <3>1. CASE m < j
      <4>1. PICK u : u = SubSeq(s, m + 1, j)
        OBVIOUS
      <4>2. u \in IntSuffixes
        BY <2>1, <3>1, <4>1 DEF AreSuffix
      <4>3. Len(u) = n
        <5>1. PICK a : a = m + 1
          OBVIOUS
        <5>2. a \in 1 .. Len(s) + 1 /\ j \in a - 1 .. Len(s) /\ u = SubSeq(s, a, j)
          BY <4>1, <5>1
        <5>3. Len(u) = j - a + 1
          BY <5>2, Pieces
        <5> QED BY <2>2, <5>1, <5>3
      <4>4. Len(u) \in 1 .. 2
        BY <4>2, SuffixShape
      <4>5. n \in {0, 1, 2}
        BY ONLY <4>3, <4>4
      <4> QED BY ONLY <1>1, <2>2, <4>5, m \in i .. j, i \in 1 .. Len(s), j \in i .. Len(s), Len(s) \in Nat
    <3>2. CASE m = j
      BY <1>1, <2>2, <3>2
    <3> QED BY <3>1, <3>2
  <2>4. /\ SubSeq(w, 1, Len(w) - n) = SubSeq(s, i, m)
        /\ From(w, Len(w) - n + 1) = SubSeq(s, m + 1, j)
    BY <1>2, <2>3
  <2>5. PICK d : d = SubSeq(s, i, m)
    OBVIOUS
  <2>6. \/ Number(d)
        \/ Len(d) >= 2 /\ d[1] = "0" /\ d[2] = "x" /\ All(From(d, 3), HexDigits)
    <3>1. m \in i - 1 .. j /\ m >= i
      OBVIOUS
    <3> QED BY <1>3, <2>1, <2>5, <3>1
  <2>7. n > 0 => From(w, Len(w) - n + 1) \in IntSuffixes
    <3>1. n > 0 => m < j
      BY <2>3
    <3>2. m < j => SubSeq(s, m + 1, j) \in IntSuffixes
      BY ONLY <2>1, Zenon DEF AreSuffix
    <3> QED BY ONLY <2>4, <3>1, <3>2, Zenon
  <2> QED BY <1>4, <2>3, <2>4, <2>5, <2>6, <2>7
<1> QED BY <1>5, <1>6

\* What follows the digits of a fraction is an exponent.
LEMMA ExponentPiece ==
  ASSUME NEW s \in Seq(Characters), NEW i \in 1 .. Len(s), NEW j \in i .. Len(s)
  PROVE  Exponent(SubSeq(s, i, j)) <=> AreExponent(s, i, j)
<1>1. PICK w : w = SubSeq(s, i, j)
  OBVIOUS
<1>2. /\ w \in Seq(Characters) /\ Len(w) = j - i + 1 /\ w # <<>> /\ Len(w) \in Nat
      /\ \A k \in 1 .. Len(w) : w[k] = s[i + k - 1]
  <2>1. w \in Seq(Characters) /\ Len(w) = j - i + 1 /\ \A k \in 1 .. Len(w) : w[k] = s[i + k - 1]
    BY <1>1, Piece
  <2>2. Len(w) \in Nat \ {0} /\ w # <<>>
    BY <1>1, Piece
  <2> QED BY <2>1, <2>2
<1>3. w[1] = s[i] /\ (Len(w) > 1 => w[2] = s[i + 1]) /\ (Len(w) > 1 <=> i < j)
  <2>1. 1 \in 1 .. Len(w) /\ i + 1 - 1 = i /\ (Len(w) > 1 <=> i < j)
    BY <1>2
  <2>2. Len(w) > 1 => 2 \in 1 .. Len(w) /\ i + 2 - 1 = i + 1
    BY <1>2
  <2> QED BY <1>2, <2>1, <2>2
<1>4. ASSUME NEW b \in {2, 3}, b <= Len(w) + 1
      PROVE  All(From(w, b), Digits) <=> \A k \in i + b - 1 .. j : s[k] \in Digits
  <2>1. PICK a : a = i + b - 1
    OBVIOUS
  <2>2. a \in i .. j + 1 /\ j \in a - 1 .. j /\ a - i + 1 = b /\ j - i + 1 = Len(w)
    BY <1>2, <1>4, <2>1
  <2>3. SubSeq(w, a - i + 1, j - i + 1) = SubSeq(s, a, j)
    BY <1>1, <2>2, PieceOf
  <2>4. From(w, b) = SubSeq(s, a, j)
    BY ONLY <2>2, <2>3, Zenon DEF From
  <2>5. CASE a <= Len(s)
    <3>1. a \in 1 .. Len(s) /\ j \in a - 1 .. Len(s)
      BY <2>2, <2>5
    <3>2. All(SubSeq(s, a, j), Digits) <=> \A k \in a .. j : s[k] \in Digits
      BY <3>1, AllPiece
    <3> QED BY ONLY <2>1, <2>4, <3>2, Zenon
  <2>6. CASE ~(a <= Len(s))
    <3>1. PICK u : u = SubSeq(s, a, j)
      OBVIOUS
    <3>2. a \in 1 .. Len(s) + 1 /\ j \in a - 1 .. Len(s) /\ j < a
      BY <2>2, <2>6
    <3>3. u \in Seq(Characters) /\ Len(u) = j - a + 1
      BY <3>1, <3>2, Pieces
    <3>4. Len(u) = 0
      BY <3>2, <3>3
    <3>5. All(u, Digits) <=> \A k \in 1 .. Len(u) : u[k] \in Digits
      BY <3>3, AllOf
    <3>6. All(u, Digits)
      BY ONLY <3>4, <3>5
    <3> QED BY <2>1, <2>4, <3>1, <3>2, <3>6
  <2> QED BY <2>2, <2>5, <2>6
<1>5. PICK b : b = IF Len(w) > 1 /\ w[2] = "-" THEN 3 ELSE 2
  OBVIOUS
<1>6. b \in {2, 3} /\ b <= Len(w) + 1
  BY <1>2, <1>5
<1>7. All(From(w, b), Digits) <=> \A k \in i + b - 1 .. j : s[k] \in Digits
  BY <1>4, <1>6
<1>8. Exponent(w) <=> w[1] = "e" /\ All(From(w, b), Digits)
  BY <1>2, <1>5 DEF Exponent
<1>9. CASE i < j /\ s[i + 1] = "-"
  <2>1. b = 3 /\ i + b - 1 = i + 2
    BY <1>3, <1>5, <1>9
  <2> QED BY <1>1, <1>3, <1>7, <1>8, <1>9, <2>1 DEF AreExponent
<1>10. CASE ~(i < j /\ s[i + 1] = "-")
  <2>1. b = 2 /\ i + b - 1 = i + 1
    BY <1>3, <1>5, <1>10
  <2> QED BY <1>1, <1>3, <1>7, <1>8, <1>10, <2>1 DEF AreExponent
<1> QED BY <1>9, <1>10

\* A fraction is a dot and digits.
LEMMA FractionPiece ==
  ASSUME NEW s \in Seq(Characters), NEW a \in 1 .. Len(s) + 1, NEW m \in a - 1 .. Len(s), NEW f, f = SubSeq(s, a, m)
  PROVE  (f # <<>> => Head(f) = "." /\ Number(Tail(f))) <=> (a <= m => s[a] = "." /\ AreDigits(s, a + 1, m))
<1>1. f \in Seq(Characters) /\ Len(f) = m - a + 1 /\ (f # <<>> <=> a <= m)
  <2>1. f \in Seq(Characters) /\ Len(f) = m - a + 1
    BY Pieces
  <2>2. Len(f) \in Nat /\ (f # <<>> <=> Len(f) # 0)
    BY ONLY <2>1, EmptySeq
  <2> QED BY ONLY <2>1, <2>2, a \in 1 .. Len(s) + 1, m \in a - 1 .. Len(s), Len(s) \in Nat
<1>2. CASE a <= m
  <2>1. a \in 1 .. Len(s) /\ m \in a .. Len(s)
    BY <1>2
  <2>2. Head(f) = s[a] /\ Tail(f) = SubSeq(s, a + 1, m)
    BY <2>1, HeadTailOfSubSeq
  <2>3. PICK b : b = a + 1
    OBVIOUS
  <2>4. b \in 1 .. Len(s) + 1 /\ m \in b - 1 .. Len(s)
    BY <2>1, <2>3
  <2>5. Number(SubSeq(s, b, m)) <=> AreDigits(s, b, m)
    BY <2>4, NumberPiece
  <2> QED BY ONLY <1>1, <1>2, <2>2, <2>3, <2>5, Zenon
<1>3. CASE ~(a <= m)
  BY <1>1, <1>3
<1> QED BY <1>2, <1>3

\* A number with a fraction, an exponent or both.
LEMMA FloatPiece ==
  ASSUME NEW s \in Seq(Characters), NEW i \in 1 .. Len(s), NEW j \in i .. Len(s), NEW w, w = SubSeq(s, i, j)
  PROVE  Float(w) <=> AreFloat(s, i, j)
<1>1. w \in Seq(Characters) /\ Len(w) = j - i + 1 /\ Len(w) \in Nat
  BY Piece
<1> DEFINE Parts(a, m, x, y) ==
             /\ x \in 1 .. Len(w) /\ y \in x .. Len(w)
             /\ SubSeq(w, 1, x) = SubSeq(s, i, a)
             /\ SubSeq(w, x + 1, y) = SubSeq(s, a + 1, m)
             /\ From(w, y + 1) = SubSeq(s, m + 1, j)
<1>2. ASSUME NEW a \in i .. j, NEW m \in a .. j, NEW x, NEW y, x = a - i + 1, y = m - i + 1
      PROVE  Parts(a, m, x, y)
  <2>1. x \in 1 .. Len(w) /\ y \in x .. Len(w)
    BY <1>1, <1>2
  <2>2. SubSeq(w, i - i + 1, a - i + 1) = SubSeq(s, i, a)
    <3>1. i \in i .. j + 1 /\ a \in i - 1 .. j
      OBVIOUS
    <3> QED BY <3>1, PieceOf
  <2>3. PICK b, c : b = a + 1 /\ c = m + 1
    OBVIOUS
  <2>4. SubSeq(w, b - i + 1, m - i + 1) = SubSeq(s, b, m)
    <3>1. b \in i .. j + 1 /\ m \in b - 1 .. j
      BY <2>3
    <3> QED BY <3>1, PieceOf
  <2>5. SubSeq(w, c - i + 1, j - i + 1) = SubSeq(s, c, j)
    <3>1. c \in i .. j + 1 /\ j \in c - 1 .. j
      BY <2>3
    <3> QED BY <3>1, PieceOf
  <2>6. i - i + 1 = 1 /\ b - i + 1 = x + 1 /\ c - i + 1 = y + 1 /\ j - i + 1 = Len(w)
    BY <1>1, <1>2, <2>3
  <2> QED BY ONLY <1>2, <2>1, <2>2, <2>3, <2>4, <2>5, <2>6, Zenon DEF From
<1> HIDE DEF Parts
<1>3. ASSUME NEW a \in i .. j, NEW m \in a .. j
      PROVE  /\ Number(SubSeq(s, i, a)) <=> AreDigits(s, i, a)
             /\ (SubSeq(s, a + 1, m) # <<>> => Head(SubSeq(s, a + 1, m)) = "." /\ Number(Tail(SubSeq(s, a + 1, m))))
                  <=> (a < m => s[a + 1] = "." /\ AreDigits(s, a + 2, m))
             /\ SubSeq(s, m + 1, j) = <<>> \/ Exponent(SubSeq(s, m + 1, j)) <=> (m < j => AreExponent(s, m + 1, j))
  <2>1. Number(SubSeq(s, i, a)) <=> AreDigits(s, i, a)
    <3>1. i \in 1 .. Len(s) + 1 /\ a \in i - 1 .. Len(s)
      OBVIOUS
    <3> QED BY <3>1, NumberPiece
  <2>2. PICK b, c, f, g : b = a + 1 /\ c = m + 1 /\ f = SubSeq(s, b, m) /\ g = SubSeq(s, c, j)
    OBVIOUS
  <2>3. (f # <<>> => Head(f) = "." /\ Number(Tail(f))) <=> (b <= m => s[b] = "." /\ AreDigits(s, b + 1, m))
    <3>1. b \in 1 .. Len(s) + 1 /\ m \in b - 1 .. Len(s)
      BY <2>2
    <3> QED BY <2>2, <3>1, FractionPiece
  <2>4. b + 1 = a + 2 /\ (b <= m <=> a < m)
    BY <2>2
  <2>5. g = <<>> \/ Exponent(g) <=> (m < j => AreExponent(s, c, j))
    <3>1. CASE m < j
      <4>1. c \in 1 .. Len(s) /\ j \in c .. Len(s)
        BY <2>2, <3>1
      <4>2. Exponent(g) <=> AreExponent(s, c, j)
        BY <2>2, <4>1, ExponentPiece
      <4>3. g # <<>>
        BY <2>2, <4>1, Piece
      <4> QED BY ONLY <3>1, <4>2, <4>3, Zenon
    <3>2. CASE ~(m < j)
      <4>1. c \in 1 .. Len(s) + 1 /\ j \in c - 1 .. Len(s) /\ j - c + 1 = 0
        BY <2>2, <3>2
      <4>2. g \in Seq(Characters) /\ Len(g) = j - c + 1
        BY <2>2, <4>1, Pieces
      <4>3. g = <<>>
        BY <4>1, <4>2
      <4> QED BY ONLY <3>2, <4>3, Zenon
    <3> QED BY <3>1, <3>2
  <2> QED BY ONLY <2>1, <2>2, <2>3, <2>4, <2>5, Zenon
<1>4. Float(w) <=> \E x \in 1 .. Len(w) : \E y \in x .. Len(w) :
        /\ Number(SubSeq(w, 1, x))
        /\ SubSeq(w, x + 1, y) # <<>> => Head(SubSeq(w, x + 1, y)) = "." /\ Number(Tail(SubSeq(w, x + 1, y)))
        /\ From(w, y + 1) = <<>> \/ Exponent(From(w, y + 1))
        /\ x < Len(w)
  BY Zenon DEF Float
<1>5. ASSUME Float(w)
      PROVE  AreFloat(s, i, j)
  <2>0. PICK x \in 1 .. Len(w) : \E y \in x .. Len(w) :
        /\ Number(SubSeq(w, 1, x))
        /\ SubSeq(w, x + 1, y) # <<>> => Head(SubSeq(w, x + 1, y)) = "." /\ Number(Tail(SubSeq(w, x + 1, y)))
        /\ From(w, y + 1) = <<>> \/ Exponent(From(w, y + 1))
        /\ x < Len(w)
    BY <1>4, <1>5
  <2>1. PICK y \in x .. Len(w) :
        /\ Number(SubSeq(w, 1, x))
        /\ SubSeq(w, x + 1, y) # <<>> => Head(SubSeq(w, x + 1, y)) = "." /\ Number(Tail(SubSeq(w, x + 1, y)))
        /\ From(w, y + 1) = <<>> \/ Exponent(From(w, y + 1))
        /\ x < Len(w)
    BY <2>0
  <2>2. PICK a, m : a = x + i - 1 /\ m = y + i - 1
    OBVIOUS
  <2>3. a \in i .. j /\ m \in a .. j /\ x = a - i + 1 /\ y = m - i + 1 /\ a < j
    BY ONLY <1>1, <2>1, <2>2, i \in 1 .. Len(s), j \in i .. Len(s), Len(s) \in Nat
  <2>4. /\ SubSeq(w, 1, x) = SubSeq(s, i, a)
        /\ SubSeq(w, x + 1, y) = SubSeq(s, a + 1, m)
        /\ From(w, y + 1) = SubSeq(s, m + 1, j)
    <3>1. Parts(a, m, x, y)
      BY <1>2, <2>3
    <3> QED BY ONLY <3>1, Zenon DEF Parts
  <2>5. /\ Number(SubSeq(s, i, a)) <=> AreDigits(s, i, a)
        /\ (SubSeq(s, a + 1, m) # <<>> => Head(SubSeq(s, a + 1, m)) = "." /\ Number(Tail(SubSeq(s, a + 1, m))))
             <=> (a < m => s[a + 1] = "." /\ AreDigits(s, a + 2, m))
        /\ SubSeq(s, m + 1, j) = <<>> \/ Exponent(SubSeq(s, m + 1, j)) <=> (m < j => AreExponent(s, m + 1, j))
    BY <1>3, <2>3
  <2>6. /\ AreDigits(s, i, a)
        /\ a < m => s[a + 1] = "." /\ AreDigits(s, a + 2, m)
        /\ m < j => AreExponent(s, m + 1, j)
    BY ONLY <2>1, <2>4, <2>5, Zenon
  <2> QED BY ONLY <2>3, <2>6, Zenon DEF AreFloat
<1>6. ASSUME AreFloat(s, i, j)
      PROVE  Float(w)
  <2>0. PICK a \in i .. j : \E m \in a .. j :
        /\ a < j /\ AreDigits(s, i, a)
        /\ a < m => s[a + 1] = "." /\ AreDigits(s, a + 2, m)
        /\ m < j => AreExponent(s, m + 1, j)
    BY <1>6 DEF AreFloat
  <2>1. PICK m \in a .. j :
        /\ a < j /\ AreDigits(s, i, a)
        /\ a < m => s[a + 1] = "." /\ AreDigits(s, a + 2, m)
        /\ m < j => AreExponent(s, m + 1, j)
    BY <2>0
  <2>2. PICK x, y : x = a - i + 1 /\ y = m - i + 1
    OBVIOUS
  <2>3. x < Len(w)
    BY <1>1, <2>1, <2>2
  <2>4. /\ x \in 1 .. Len(w) /\ y \in x .. Len(w)
        /\ SubSeq(w, 1, x) = SubSeq(s, i, a)
        /\ SubSeq(w, x + 1, y) = SubSeq(s, a + 1, m)
        /\ From(w, y + 1) = SubSeq(s, m + 1, j)
    <3>1. Parts(a, m, x, y)
      BY <1>2, <2>2
    <3> QED BY ONLY <3>1, Zenon DEF Parts
  <2>5. /\ Number(SubSeq(s, i, a)) <=> AreDigits(s, i, a)
        /\ (SubSeq(s, a + 1, m) # <<>> => Head(SubSeq(s, a + 1, m)) = "." /\ Number(Tail(SubSeq(s, a + 1, m))))
             <=> (a < m => s[a + 1] = "." /\ AreDigits(s, a + 2, m))
        /\ SubSeq(s, m + 1, j) = <<>> \/ Exponent(SubSeq(s, m + 1, j)) <=> (m < j => AreExponent(s, m + 1, j))
    BY <1>3
  <2>6. /\ Number(SubSeq(w, 1, x))
        /\ SubSeq(w, x + 1, y) # <<>> => Head(SubSeq(w, x + 1, y)) = "." /\ Number(Tail(SubSeq(w, x + 1, y)))
        /\ From(w, y + 1) = <<>> \/ Exponent(From(w, y + 1))
    BY ONLY <2>1, <2>4, <2>5, Zenon
  <2> QED BY ONLY <1>4, <2>3, <2>4, <2>6, Zenon
<1> QED BY <1>5, <1>6

-----------------------------------------------------------------------------
(* The longest token at a place *)

\* A token begins at i: no blank and no comment does.
Begins(s, i) == i \in 1 .. Len(s) /\ s[i] \notin Spaces /\ Pair(s, i) # Opening

\* The longest token at i, if the text is not refused there.
LEMMA TokenThere ==
  ASSUME NEW s \in Seq(Characters), NEW i, Begins(s, i), NEW j \in i .. Len(s), NEW t, t # Error,
         t = Meaning(SubSeq(s, i, j)), \A k \in j + 1 .. Len(s) : Meaning(SubSeq(s, i, k)) = Error,
         ~(t.kind = "int" /\ j < Len(s) /\ s[j + 1] \in Alnum),
         ~(t.kind = "string" /\ Len(t.data) >= StringRoom - 1)
  PROVE  TokensFrom(s)[i] = <<TokenAt(t, i)>> \o TokensFrom(s)[j + 1]
<1>1. PICK F : F = TokensFrom(s)
  OBVIOUS
<1>2. i \in Nat /\ Len(s) \in Nat /\ i <= Len(s) /\ i \in 1 .. Len(s)
  BY DEF Begins
<1>3. F[i] = FromStep(s, F, i)
  BY <1>1, <1>2, FromTurns
<1>4. j \in Ends(s, i)
  BY DEF Ends
<1>5. Longest(s, i) \in Ends(s, i) /\ Longest(s, i) \in i .. Len(s) /\ j <= Longest(s, i)
  BY <1>2, <1>4, LongestIn
<1>6. ~(Longest(s, i) > j)
  BY <1>5 DEF Ends
<1>7. Longest(s, i) = j
  BY <1>2, <1>5, <1>6
<1>8. LongestMeaning(s, i) = t
  BY <1>7 DEF LongestMeaning
<1>9. ~Refused(s, i)
  BY <1>4, <1>7, <1>8 DEF Refused
<1> QED BY <1>1, <1>2, <1>3, <1>7, <1>8, <1>9 DEF FromStep, Begins

\* And an error if it is.
LEMMA ErrorThere ==
  ASSUME NEW s \in Seq(Characters), NEW i, Begins(s, i), Refused(s, i)
  PROVE  TokensFrom(s)[i] = <<TokenAt(Error, i)>>
<1>1. PICK F : F = TokensFrom(s)
  OBVIOUS
<1>2. i \in Nat /\ Len(s) \in Nat /\ i <= Len(s)
  BY DEF Begins
<1>3. F[i] = FromStep(s, F, i)
  BY <1>1, <1>2, FromTurns
<1> QED BY <1>1, <1>2, <1>3 DEF FromStep, Begins

\* Where a token may end, by the character it begins with.
LEMMA EndsByFirst ==
  ASSUME NEW s \in Seq(Characters), NEW i \in 1 .. Len(s), NEW j \in i .. Len(s), NEW w, w = SubSeq(s, i, j)
  PROVE  /\ s[i] \in Letters \cup {"_"} =>
              (Meaning(w) # Error <=> \A k \in i .. j : s[k] \in WordChars)
         /\ s[i] = ":" /\ i < Len(s) /\ s[i + 1] \in Letters \cup {"_"} =>
              (Meaning(w) # Error <=> \A k \in i + 1 .. j : s[k] \in WordChars)
         /\ s[i] \in Digits => (Meaning(w) # Error <=> AreInteger(s, i, j) \/ AreFloat(s, i, j))
         /\ s[i] = Quote => (Meaning(w) # Error <=> Quoted(w))
         /\ s[i] \in OperatorChars /\ ~(s[i] = ":" /\ i < Len(s) /\ s[i + 1] \in Letters \cup {"_"}) =>
              (Meaning(w) # Error <=> w \in Operators)
         /\ s[i] \notin WordChars \cup OperatorChars \cup {Quote} => Meaning(w) = Error
<1>1. /\ w \in Seq(Characters) /\ w # <<>> /\ Head(w) = s[i] /\ Len(w) = j - i + 1 /\ Len(w) \in Nat \ {0}
      /\ \A k \in 1 .. Len(w) : w[k] = s[i + k - 1]
  <2>1. w \in Seq(Characters) /\ Len(w) = j - i + 1 /\ \A k \in 1 .. Len(w) : w[k] = s[i + k - 1]
    BY Piece
  <2>2. Len(w) \in Nat \ {0} /\ 1 \in 1 .. Len(w) /\ i + 1 - 1 = i
    BY ONLY <2>1, i \in 1 .. Len(s), j \in i .. Len(s), Len(s) \in Nat
  <2>3. w # <<>> /\ Head(w) = s[i]
    BY ONLY <2>1, <2>2
  <2> QED BY ONLY <2>1, <2>2, <2>3
<1>2. /\ Word(w) => Head(w) \in Letters \cup {"_"}
      /\ Integer(w) \/ Float(w) => Head(w) \in Digits
      /\ Quoted(w) => Head(w) = Quote
      /\ w \in Operators => Head(w) \in OperatorChars
      /\ Word(Tail(w)) => w \notin Operators
  BY <1>1, FirstSays
<1>3. Meaning(w) # Error
        <=> Word(w) \/ Atom(w) \/ Integer(w) \/ Float(w) \/ Quoted(w) \/ w \in Operators
  BY <1>1, MeaningOf
<1>4. /\ WordChars = Letters \cup {"_"} \cup Digits /\ (Letters \cup {"_"}) \cap Digits = {}
      /\ OperatorChars \cap WordChars = {} /\ Quote \notin OperatorChars \cup WordChars
      /\ ":" \in OperatorChars
  BY Classes
<1>5. Atom(w) <=> Head(w) = ":" /\ Word(Tail(w))
  BY DEF Atom
<1>6. ASSUME s[i] \in Letters \cup {"_"}
      PROVE  Meaning(w) # Error <=> \A k \in i .. j : s[k] \in WordChars
  <2>1. Meaning(w) # Error <=> Word(w)
    BY ONLY <1>1, <1>2, <1>3, <1>4, <1>5, <1>6
  <2>2. Word(w) <=> All(w, WordChars)
    BY ONLY <1>1, <1>4, <1>6 DEF Word
  <2>3. All(w, WordChars) <=> \A k \in i .. j : s[k] \in WordChars
    <3>1. j \in i - 1 .. Len(s)
      OBVIOUS
    <3> QED BY <3>1, AllPiece
  <2> QED BY ONLY <2>1, <2>2, <2>3, Zenon
<1>7. ASSUME s[i] = ":", i < Len(s), s[i + 1] \in Letters \cup {"_"}
      PROVE  Meaning(w) # Error <=> \A k \in i + 1 .. j : s[k] \in WordChars
  <2>1. Meaning(w) # Error <=> Atom(w) \/ w \in Operators
    BY ONLY <1>1, <1>2, <1>3, <1>4, <1>7
  <2>2. CASE j = i
    <3>1. Len(w) = 1 /\ w[1] = ":"
      <4>1. Len(w) = 1 /\ 1 \in 1 .. Len(w) /\ i + 1 - 1 = i
        BY <1>1, <2>2
      <4> QED BY <1>1, <1>7, <4>1
    <3>2. w = <<":">>
      BY ONLY <1>1, <3>1
    <3>3. w \in Operators
      BY <3>2 DEF Operators, Singles
    <3> QED BY <2>1, <2>2, <3>3
  <2>3. CASE j > i
    <3>1. PICK a : a = i + 1
      OBVIOUS
    <3>2. a \in 1 .. Len(s) /\ j \in a .. Len(s) /\ j \in a - 1 .. Len(s)
      BY <2>3, <3>1
    <3>3. Tail(w) = SubSeq(s, a, j)
      BY <3>1, HeadTailOfSubSeq
    <3>4. Tail(w) # <<>> /\ Head(Tail(w)) = s[a]
      <4>1. PICK t : t = SubSeq(s, a, j)
        OBVIOUS
      <4>2. t \in Seq(Characters) /\ Len(t) = j - a + 1 /\ \A k \in 1 .. Len(t) : t[k] = s[a + k - 1]
        BY <3>2, <4>1, Piece, SMTT(30)
      <4>3. Len(t) \in Nat \ {0} /\ 1 \in 1 .. Len(t) /\ a + 1 - 1 = a
        BY ONLY <3>2, <4>2, Len(s) \in Nat
      <4>4. t # <<>> /\ Head(t) = s[a]
        BY ONLY <4>2, <4>3
      <4> QED BY ONLY <3>3, <4>1, <4>4, Zenon
    <3>5. Word(Tail(w)) <=> All(SubSeq(s, a, j), WordChars)
      BY ONLY <1>4, <1>7, <3>1, <3>3, <3>4 DEF Word
    <3>6. All(SubSeq(s, a, j), WordChars) <=> \A k \in a .. j : s[k] \in WordChars
      BY <3>2, AllPiece
    <3>7. w \notin Operators
      <4>1. 2 \in 1 .. Len(w) /\ i + 2 - 1 = a
        BY <1>1, <2>3, <3>1
      <4>2. w[2] = s[a]
        BY <1>1, <4>1
      <4>3. w \in Operators => w[2] \in OperatorChars
        BY <4>1, OperatorShape
      <4> QED BY ONLY <1>4, <1>7, <3>1, <4>2, <4>3
    <3> QED BY ONLY <1>1, <1>5, <1>7, <2>1, <3>1, <3>5, <3>6, <3>7, Zenon
  <2> QED BY <2>2, <2>3
<1>8. ASSUME s[i] \in Digits
      PROVE  Meaning(w) # Error <=> AreInteger(s, i, j) \/ AreFloat(s, i, j)
  <2>1. Meaning(w) # Error <=> Integer(w) \/ Float(w)
    BY ONLY <1>1, <1>2, <1>3, <1>4, <1>5, <1>8
  <2> QED BY <2>1, IntegerPiece, FloatPiece
<1>9. ASSUME s[i] = Quote
      PROVE  Meaning(w) # Error <=> Quoted(w)
  BY ONLY <1>1, <1>2, <1>3, <1>4, <1>5, <1>9
<1>10. ASSUME s[i] \in OperatorChars, ~(s[i] = ":" /\ i < Len(s) /\ s[i + 1] \in Letters \cup {"_"})
       PROVE  Meaning(w) # Error <=> w \in Operators
  <2>1. Meaning(w) # Error <=> Atom(w) \/ w \in Operators
    BY ONLY <1>1, <1>2, <1>3, <1>4, <1>5, <1>10
  <2>2. ASSUME Atom(w)
        PROVE  FALSE
    <3>1. PICK t : t = Tail(w)
      OBVIOUS
    <3>2. Word(t) /\ s[i] = ":"
      BY ONLY <1>1, <1>5, <2>2, <3>1
    <3>3. t \in Seq(Characters) /\ Len(t) = Len(w) - 1 /\ \A k \in 1 .. Len(t) : t[k] = w[k + 1]
      BY <1>1, <3>1, HeadTailProperties
    <3>4. t # <<>>
      BY <3>2 DEF Word
    <3>5. Len(t) \in Nat \ {0} /\ Head(t) = t[1]
      BY <3>3, <3>4
    <3>6. Head(t) \in Letters \cup {"_"}
      BY <3>2, <3>3, <3>4, FirstSays
    <3>7. t[1] = w[2] /\ 2 \in 1 .. Len(w)
      <4>1. 1 \in 1 .. Len(t) /\ 1 + 1 = 2 /\ 2 \in 1 .. Len(w)
        BY <1>1, <3>3, <3>5
      <4> QED BY <3>3, <4>1
    <3>8. w[2] = s[i + 1] /\ i < Len(s)
      <4>1. i + 2 - 1 = i + 1 /\ i < Len(s)
        BY <1>1, <3>7
      <4> QED BY <1>1, <3>7, <4>1
    <3> QED BY ONLY <1>10, <3>2, <3>5, <3>6, <3>7, <3>8
  <2> QED BY <2>1, <2>2
<1>11. ASSUME s[i] \notin WordChars \cup OperatorChars \cup {Quote}
       PROVE  Meaning(w) = Error
  BY ONLY <1>1, <1>2, <1>3, <1>4, <1>5, <1>11
<1> QED BY <1>6, <1>7, <1>8, <1>9, <1>10, <1>11

-----------------------------------------------------------------------------
(* Strings *)

\* The numbers that are not odd.
LEMMA Parity ==
  ASSUME NEW n \in Nat
  PROVE  (n + 1) % 2 = 1 <=> ~(n % 2 = 1)
OBVIOUS

\* A character is escaped by a backslash that is not escaped itself.
LEMMA EscapedTurns ==
  ASSUME NEW S, NEW s \in Seq(S), NEW i \in 1 .. Len(s)
  PROVE  i \in Escaped(s) <=> i > 1 /\ s[i - 1] = "\\" /\ i - 1 \notin Escaped(s)
<1> DEFINE Plains(n) == {0} \cup {k \in 1 .. n - 1 : s[k] # "\\"}
<1>1. DOMAIN s = 1 .. Len(s) /\ Len(s) \in Nat
  OBVIOUS
<1>2. \A n \in 1 .. Len(s) : n \in Escaped(s) <=> (n - 1 - Max(Plains(n))) % 2 = 1
  BY <1>1 DEF Escaped
<1>3. ASSUME NEW n \in 1 .. Len(s)
      PROVE  Max(Plains(n)) \in Plains(n) /\ \A k \in Plains(n) : k <= Max(Plains(n))
  <2>1. PICK N : N = Plains(n)
    OBVIOUS
  <2>2. N \in SUBSET Nat /\ N # {} /\ n \in Nat /\ \A k \in N : k <= n
    BY <2>1
  <2>3. \E m \in N : \A k \in N : k <= m
    BY <2>2, Greatest
  <2>4. \E m \in N : \A k \in N : m >= k
    BY <2>2, <2>3
  <2>5. Max(N) \in N /\ \A k \in N : Max(N) >= k
    BY <2>4 DEF Max
  <2>6. Max(N) \in N /\ \A k \in N : k <= Max(N)
    BY <2>2, <2>5
  <2> QED BY ONLY <2>1, <2>6, Zenon
<1>4. CASE i = 1
  <2>1. Plains(i) = {0}
    BY <1>4
  <2>2. Max(Plains(i)) = 0
    BY <1>3, <2>1
  <2>3. (i - 1 - Max(Plains(i))) % 2 = 0
    BY <1>4, <2>2
  <2> QED BY <1>2, <1>4, <2>3
<1>5. CASE i > 1 /\ s[i - 1] # "\\"
  <2>1. i - 1 \in Plains(i) /\ \A k \in Plains(i) : k <= i - 1
    BY <1>5
  <2>2. Max(Plains(i)) = i - 1
    BY <1>3, <2>1
  <2>3. (i - 1 - Max(Plains(i))) % 2 = 0
    BY <2>2
  <2> QED BY <1>2, <1>5, <2>3
<1>6. CASE i > 1 /\ s[i - 1] = "\\"
  <2>1. i - 1 \in 1 .. Len(s)
    BY <1>6
  <2>2. Plains(i) = Plains(i - 1)
    <3>1. \A k \in Plains(i) : k \in Plains(i - 1)
      <4> SUFFICES ASSUME NEW k \in 1 .. i - 1, s[k] # "\\"
                   PROVE  k \in 1 .. (i - 1) - 1
        OBVIOUS
      <4>1. k # i - 1
        BY <1>6
      <4> QED BY <4>1
    <3>2. \A k \in Plains(i - 1) : k \in Plains(i)
      BY <2>1
    <3> QED BY <3>1, <3>2
  <2>3. PICK m : m = Max(Plains(i))
    OBVIOUS
  <2>4. m = Max(Plains(i - 1))
    BY <2>2, <2>3
  <2>5. m \in 0 .. i - 2
    <3>1. m \in Plains(i - 1)
      BY <1>3, <2>1, <2>4
    <3> QED BY <1>6, <3>1
  <2>6. PICK n \in Nat : n = i - 2 - m
    BY <2>5
  <2>7. (i - 1 - m) = n + 1 /\ (i - 1) - 1 - m = n
    BY <2>5, <2>6
  <2>8. (i - 1 - m) % 2 = 1 <=> ~(((i - 1) - 1 - m) % 2 = 1)
    BY <2>7, Parity
  <2>9. i \in Escaped(s) <=> (i - 1 - m) % 2 = 1
    BY <1>2, <2>3
  <2>10. i - 1 \in Escaped(s) <=> ((i - 1) - 1 - m) % 2 = 1
    BY <1>2, <2>1, <2>4
  <2> QED BY ONLY <1>6, <2>8, <2>9, <2>10, Zenon
<1> QED BY <1>4, <1>5, <1>6

\* Whether it is depends on what is before it only.
LEMMA EscapedBefore ==
  ASSUME NEW S, NEW s \in Seq(S), NEW t \in Seq(S), NEW i \in 1 .. Len(s), i \in 1 .. Len(t),
         \A k \in 1 .. i - 1 : s[k] = t[k]
  PROVE  i \in Escaped(s) <=> i \in Escaped(t)
<1>1. DOMAIN s = 1 .. Len(s) /\ DOMAIN t = 1 .. Len(t)
  OBVIOUS
<1>2. {k \in 1 .. i - 1 : s[k] # "\\"} = {k \in 1 .. i - 1 : t[k] # "\\"}
  OBVIOUS
<1> QED BY <1>1, <1>2 DEF Escaped

\* What holds at 0 and is handed on holds up to n.
LEMMA HandedOn ==
  ASSUME NEW n \in Nat, NEW B \in SUBSET (0 .. n), 0 \notin B, \A i \in 1 .. n : i \in B => i - 1 \in B
  PROVE  B = {}
<1> SUFFICES ASSUME B # {}
             PROVE  FALSE
  OBVIOUS
<1>1. B \in SUBSET Nat
  OBVIOUS
<1>2. PICK m \in B : \A k \in B : m <= k
  BY <1>1, Least
<1>3. m \in 1 .. n
  BY <1>1
<1>4. m - 1 \in B
  BY <1>3
<1> QED BY <1>2, <1>3, <1>4

\* One turn of Contents.
UptoStep(s, upto, i) ==
  IF i < 2 THEN <<>>
  ELSE IF i \in Escaped(s) THEN Append(upto[i - 1], Escape(s[i]))
  ELSE IF s[i] = "\\" THEN upto[i - 1] ELSE Append(upto[i - 1], s[i])

\* There is a function that takes these turns up to a place, and Contents is one.
LEMMA UptoUp ==
  ASSUME NEW s, Len(s) \in Nat
  PROVE  \E g : \A i \in 0 .. Len(s) : g[i] = UptoStep(s, g, i)
<1> DEFINE Good(n) == \E g : \A i \in 0 .. n : g[i] = UptoStep(s, g, i)
           Bad == {n \in 0 .. Len(s) : ~Good(n)}
<1>1. Good(0)
  <2>1. PICK g : g = [i \in {0} |-> <<>>]
    OBVIOUS
  <2>2. \A i \in 0 .. 0 : g[i] = UptoStep(s, g, i)
    BY <2>1 DEF UptoStep
  <2> QED BY <2>2
<1>2. ASSUME NEW n \in 1 .. Len(s), Good(n - 1)
      PROVE  Good(n)
  <2>1. PICK g : \A i \in 0 .. n - 1 : g[i] = UptoStep(s, g, i)
    BY <1>2
  <2>2. PICK h : h = [i \in 0 .. n |-> IF i = n THEN UptoStep(s, g, i) ELSE g[i]]
    OBVIOUS
  <2>3. \A i \in 0 .. n : h[i] = UptoStep(s, g, i)
    BY <2>1, <2>2
  <2>4. ASSUME NEW i \in 0 .. n
        PROVE  UptoStep(s, h, i) = UptoStep(s, g, i)
    <3>1. i >= 2 => h[i - 1] = g[i - 1]
      BY <2>2
    <3> QED BY <3>1 DEF UptoStep
  <2>5. \A i \in 0 .. n : h[i] = UptoStep(s, h, i)
    BY <2>3, <2>4
  <2> QED BY <2>5
<1> HIDE DEF Good
<1>3. Bad \in SUBSET (0 .. Len(s)) /\ 0 \notin Bad
  BY <1>1
<1>4. \A n \in 1 .. Len(s) : n \in Bad => n - 1 \in Bad
  BY <1>2
<1>5. Bad = {}
  BY <1>3, <1>4, HandedOn
<1>6. Good(Len(s))
  BY <1>5
<1> QED BY <1>6 DEF Good

LEMMA ContentsTurns ==
  ASSUME NEW s, Len(s) \in Nat, NEW U, U = Contents(s)
  PROVE  \A i \in 0 .. Len(s) : U[i] = UptoStep(s, U, i)
<1>1. PICK g : \A i \in 0 .. Len(s) : g[i] = UptoStep(s, g, i)
  BY UptoUp
<1>2. PICK h : h = [i \in 0 .. Len(s) |-> g[i]]
  OBVIOUS
<1>3. ASSUME NEW i \in 0 .. Len(s)
      PROVE  UptoStep(s, h, i) = UptoStep(s, g, i)
  <2>1. i >= 2 => h[i - 1] = g[i - 1]
    BY <1>2
  <2> QED BY <2>1 DEF UptoStep
<1>4. h = [i \in 0 .. Len(s) |-> UptoStep(s, h, i)]
  BY <1>1, <1>2, <1>3
<1>5. U = CHOOSE f : f = [i \in 0 .. Len(s) |-> UptoStep(s, f, i)]
  BY DEF Contents, UptoStep
<1>6. U = [i \in 0 .. Len(s) |-> UptoStep(s, U, i)]
  BY <1>4, <1>5
<1> QED BY <1>6

\* What has been read of a string is characters, and no reading takes any back.
LEMMA ContentsGrow ==
  ASSUME NEW s \in Seq(Characters), NEW U, U = Contents(s)
  PROVE  /\ \A i \in 0 .. Len(s) : U[i] \in Seq(Characters \cup {NUL})
         /\ \A k, i \in 0 .. Len(s) : k <= i => Len(U[k]) <= Len(U[i])
<1> DEFINE C == Characters \cup {NUL}
           Bad == {i \in 0 .. Len(s) : U[i] \notin Seq(C)}
<1>1. Len(s) \in Nat /\ \A i \in 0 .. Len(s) : U[i] = UptoStep(s, U, i)
  BY ContentsTurns
<1>2. ASSUME NEW i \in 1 .. Len(s)
      PROVE  s[i] \in C /\ Escape(s[i]) \in C
  <2>1. s[i] \in Characters
    BY ElementOfSeq
  <2>2. Escape(s[i]) \in {"\n", NUL, s[i]}
    BY DEF Escape
  <2>3. "\n" \in Characters
    BY DEF Characters, Spaces
  <2> QED BY <2>1, <2>2, <2>3
<1>3. ASSUME NEW i \in 1 .. Len(s), U[i - 1] \in Seq(C)
      PROVE  U[i] \in Seq(C) /\ (i # 1 => Len(U[i - 1]) <= Len(U[i]))
  <2>1. U[i] = UptoStep(s, U, i)
    BY <1>1
  <2>2. PICK u, v, c, e : u = U[i - 1] /\ v = U[i] /\ c = s[i] /\ e = Escape(s[i])
    OBVIOUS
  <2>3. (i < 2 /\ v = <<>>) \/ (i >= 2 /\ v \in {u, Append(u, c), Append(u, e)})
    BY <2>1, <2>2 DEF UptoStep
  <2>4. u \in Seq(C) /\ c \in C /\ e \in C
    BY <1>2, <1>3, <2>2
  <2> HIDE DEF C
  <2>5. v \in Seq(C) /\ (i # 1 => Len(u) <= Len(v))
    <3>1. i < 2 => i = 1
      OBVIOUS
    <3>2. \A a \in C : Append(u, a) \in Seq(C) /\ Len(Append(u, a)) = Len(u) + 1
      BY ONLY <2>4, AppendProperties
    <3>3. <<>> \in Seq(C) /\ Len(u) \in Nat
      BY <2>4
    <3>4. CASE i < 2 /\ v = <<>>
      BY ONLY <3>1, <3>3, <3>4
    <3>5. CASE v = u
      BY ONLY <2>4, <3>3, <3>5
    <3>6. CASE v = Append(u, c) \/ v = Append(u, e)
      BY ONLY <2>4, <3>2, <3>3, <3>6
    <3> QED BY ONLY <2>3, <3>4, <3>5, <3>6
  <2> QED BY <2>2, <2>5
<1>4. Bad = {}
  <2>1. U[0] = <<>>
    BY <1>1 DEF UptoStep
  <2>2. 0 \notin Bad
    <3>1. <<>> \in Seq(C)
      OBVIOUS
    <3> QED BY <2>1, <3>1
  <2>3. \A i \in 1 .. Len(s) : i \in Bad => i - 1 \in Bad
    BY <1>3, SMTT(30)
  <2>4. Bad \in SUBSET (0 .. Len(s))
    OBVIOUS
  <2> HIDE DEF Bad
  <2> QED BY <1>1, <2>2, <2>3, <2>4, HandedOn
<1>5. \A i \in 0 .. Len(s) : U[i] \in Seq(C)
  BY <1>4
<1>6. ASSUME NEW k \in 0 .. Len(s), NEW i \in 0 .. Len(s), k <= i
      PROVE  Len(U[k]) <= Len(U[i])
  <2> DEFINE Less == {n \in 0 .. Len(s) : k <= n /\ ~(Len(U[k]) <= Len(U[n]))}
  <2>1. \A n \in 0 .. Len(s) : Len(U[n]) \in Nat
    BY <1>5
  <2>2. 0 \notin Less
    <3>1. k <= 0 => k = 0
      OBVIOUS
    <3> QED BY <2>1, <3>1
  <2>3. ASSUME NEW n \in 1 .. Len(s), n \in Less
        PROVE  n - 1 \in Less
    <3>1. k # n /\ k <= n
      BY <2>1, <2>3
    <3>2. n - 1 \in 0 .. Len(s) /\ k <= n - 1
      BY <3>1
    <3>3. n # 1 => Len(U[n - 1]) <= Len(U[n])
      BY <1>3, <1>5, <3>2
    <3>4. n = 1 => k = 0 /\ Len(U[k]) = 0
      <4>1. U[0] = <<>>
        BY <1>1 DEF UptoStep
      <4> QED BY <3>2, <4>1
    <3> QED BY <2>1, <2>3, <3>2, <3>3, <3>4
  <2>4. Less \in SUBSET (0 .. Len(s))
    OBVIOUS
  <2>5. i \notin Less
    <3> HIDE DEF Less
    <3> QED BY <1>1, <2>2, <2>3, <2>4, HandedOn
  <2> QED BY <1>6, <2>5
<1> QED BY <1>5, <1>6

\* It depends on what is before it only.
LEMMA ContentsBefore ==
  ASSUME NEW s \in Seq(Characters), NEW t \in Seq(Characters), NEW m \in 0 .. Len(s), m \in 0 .. Len(t),
         \A k \in 1 .. m : s[k] = t[k]
  PROVE  \A i \in 0 .. m : Contents(s)[i] = Contents(t)[i]
<1>1. PICK U, V : U = Contents(s) /\ V = Contents(t)
  OBVIOUS
<1>2. /\ \A i \in 0 .. Len(s) : U[i] = UptoStep(s, U, i)
      /\ \A i \in 0 .. Len(t) : V[i] = UptoStep(t, V, i)
  BY <1>1, ContentsTurns
<1> DEFINE Apart == {i \in 0 .. m : U[i] # V[i]}
<1>3. 0 \notin Apart
  <2>1. U[0] = <<>> /\ V[0] = <<>>
    BY <1>2, SMTT(30) DEF UptoStep
  <2> QED BY <2>1
<1>4. ASSUME NEW i \in 1 .. m, U[i - 1] = V[i - 1]
      PROVE  U[i] = V[i]
  <2>1. U[i] = UptoStep(s, U, i) /\ V[i] = UptoStep(t, V, i)
    BY <1>2
  <2>2. i \in Escaped(s) <=> i \in Escaped(t)
    BY EscapedBefore
  <2>3. s[i] = t[i]
    OBVIOUS
  <2> QED BY ONLY <1>4, <2>1, <2>2, <2>3 DEF UptoStep
<1>5. \A i \in 1 .. m : i \in Apart => i - 1 \in Apart
  BY <1>4
<1>6. Apart \in SUBSET (0 .. m) /\ m \in Nat
  OBVIOUS
<1>7. Apart = {}
  <2> HIDE DEF Apart
  <2> QED BY <1>3, <1>5, <1>6, HandedOn
<1> QED BY <1>1, <1>7

\* A string is read from p to c, with d between the quotes so far: the quotes in
\* it are escaped, and the next character is not.
InsideString(s, p, c, d) ==
  /\ s[p] = Quote /\ p \in 1 .. Len(s) /\ c \in p .. Len(s)
  /\ \A i \in 2 .. c - p + 1 : From(s, p)[i] = Quote => i \in Escaped(From(s, p))
  /\ c - p + 2 \notin Escaped(From(s, p))
  /\ Contents(From(s, p))[c - p + 1] = d

\* The piece from p to j.
Cut(s, p, j) == SubSeq(s, p, j)

\* A piece that begins where the text does is read as the text is.
LEMMA StringPiece ==
  ASSUME NEW s \in Seq(Characters), NEW p \in 1 .. Len(s), NEW w, w = From(s, p),
         NEW j \in p .. Len(s), NEW v, v = Cut(s, p, j)
  PROVE  /\ w \in Seq(Characters) /\ v \in Seq(Characters) /\ v # <<>> /\ Head(v) = s[p]
         /\ Len(w) = Len(s) - p + 1 /\ Len(v) = j - p + 1
         /\ \A k \in 1 .. Len(w) : w[k] = s[p + k - 1]
         /\ \A k \in 1 .. Len(v) : v[k] = w[k]
         /\ \A k \in 1 .. Len(v) : k \in Escaped(v) <=> k \in Escaped(w)
         /\ \A k \in 0 .. Len(v) : Contents(v)[k] = Contents(w)[k]
<1>1. w \in Seq(Characters) /\ Len(w) = Len(s) - p + 1 /\ \A k \in 1 .. Len(w) : w[k] = s[p + k - 1]
  <2>1. Len(s) \in p .. Len(s) /\ w = SubSeq(s, p, Len(s))
    BY DEF From
  <2> QED BY <2>1, Piece
<1>2. v \in Seq(Characters) /\ Len(v) = j - p + 1 /\ \A k \in 1 .. Len(v) : v[k] = s[p + k - 1]
  BY Piece DEF Cut
<1>3. Len(v) \in Nat /\ Len(w) \in Nat /\ Len(v) <= Len(w) /\ v # <<>> /\ Head(v) = s[p]
  <2>1. Len(v) \in Nat \ {0} /\ Len(w) \in Nat /\ Len(v) <= Len(w) /\ 1 \in 1 .. Len(v) /\ p + 1 - 1 = p
    BY <1>1, <1>2
  <2>2. v[1] = s[p]
    BY ONLY <1>2, <2>1
  <2>3. v # <<>> /\ Head(v) = v[1]
    BY ONLY <1>2, <2>1
  <2> QED BY ONLY <2>1, <2>2, <2>3
<1>4. \A k \in 1 .. Len(v) : v[k] = w[k]
  BY ONLY <1>1, <1>2, <1>3
<1>5. ASSUME NEW k \in 1 .. Len(v)
      PROVE  k \in Escaped(v) <=> k \in Escaped(w)
  <2>1. k \in 1 .. Len(w) /\ \A i \in 1 .. k - 1 : v[i] = w[i]
    BY <1>3, <1>4
  <2> QED BY ONLY <1>1, <1>2, <2>1, k \in 1 .. Len(v), EscapedBefore
<1>6. \A k \in 0 .. Len(v) : Contents(v)[k] = Contents(w)[k]
  <2>1. PICK m : m = Len(v)
    OBVIOUS
  <2>2. m \in 0 .. Len(v) /\ m \in 0 .. Len(w) /\ \A k \in 1 .. m : v[k] = w[k]
    BY <1>3, <1>4, <2>1
  <2>3. \A k \in 0 .. m : Contents(v)[k] = Contents(w)[k]
    BY ONLY <1>1, <1>2, <2>2, ContentsBefore
  <2> QED BY ONLY <2>1, <2>3
<1> QED BY ONLY <1>1, <1>2, <1>3, <1>4, <1>5, <1>6

\* The second quote of w that is not escaped is at m.
SecondQuote(w, m) ==
  /\ m >= 2 /\ w[m] = Quote /\ m \notin Escaped(w)
  /\ \A i \in 2 .. m - 1 : w[i] = Quote => i \in Escaped(w)

\* A piece is a string if it ends in it.
LEMMA QuotedPiece ==
  ASSUME NEW s \in Seq(Characters), NEW p \in 1 .. Len(s), NEW w, w = From(s, p), s[p] = Quote,
         NEW j \in p .. Len(s), NEW v, v = Cut(s, p, j), NEW m, m = j - p + 1
  PROVE  Quoted(v) <=> SecondQuote(w, m)
<1>1. /\ v \in Seq(Characters) /\ Len(v) = m
      /\ \A k \in 1 .. m : v[k] = w[k] /\ (k \in Escaped(v) <=> k \in Escaped(w))
  <2>1. /\ v \in Seq(Characters) /\ Len(v) = j - p + 1
        /\ \A k \in 1 .. Len(v) : v[k] = w[k]
        /\ \A k \in 1 .. Len(v) : k \in Escaped(v) <=> k \in Escaped(w)
    <3>1. v \in Seq(Characters)
      BY StringPiece
    <3>2. Len(v) = j - p + 1
      <4>1. v = SubSeq(s, p, j)
        BY DEF Cut
      <4> QED BY ONLY <4>1, s \in Seq(Characters), p \in 1 .. Len(s), j \in p .. Len(s), Piece
    <3>3. \A k \in 1 .. Len(v) : v[k] = w[k]
      BY StringPiece
    <3>4. \A k \in 1 .. Len(v) : k \in Escaped(v) <=> k \in Escaped(w)
      BY StringPiece
    <3> QED BY ONLY <3>1, <3>2, <3>3, <3>4
  <2>2. Len(v) = m
    BY <2>1
  <2> QED BY ONLY <2>1, <2>2, Zenon
<1>2. m \in Nat \ {0}
  OBVIOUS
<1>3. Head(v) = Quote /\ Last(v) = v[m]
  <2>1. v # <<>> /\ Head(v) = s[p]
    BY StringPiece
  <2>2. Last(v) = v[m]
    BY ONLY <1>1, Zenon DEF Last
  <2> QED BY ONLY <2>1, <2>2, s[p] = Quote, Zenon
<1>4. Quoted(v) <=> /\ Len(v) >= 2 /\ Head(v) = Quote /\ Last(v) = Quote
                    /\ {i \in 2 .. Len(v) : v[i] = Quote /\ i \notin Escaped(v)} = {Len(v)}
  BY ONLY Zenon DEF Quoted, Quote
<1>5. {i \in 2 .. m : v[i] = Quote /\ i \notin Escaped(v)} = {i \in 2 .. m : w[i] = Quote /\ i \notin Escaped(w)}
  <2>1. \A i \in 2 .. m : v[i] = w[i] /\ (i \in Escaped(v) <=> i \in Escaped(w))
    BY ONLY <1>1, <1>2
  <2> QED BY ONLY <2>1
<1>6. Quoted(v) <=> m >= 2 /\ v[m] = Quote /\ {i \in 2 .. m : w[i] = Quote /\ i \notin Escaped(w)} = {m}
  BY ONLY <1>1, <1>3, <1>4, <1>5, Zenon
<1>7. v[m] = w[m]
  BY ONLY <1>1, <1>2
<1> DEFINE Ends2 == {i \in 2 .. m : w[i] = Quote /\ i \notin Escaped(w)}
<1>8. ASSUME Ends2 = {m}
      PROVE  w[m] = Quote /\ m \notin Escaped(w) /\ \A i \in 2 .. m - 1 : w[i] = Quote => i \in Escaped(w)
  <2>1. m \in Ends2
    BY ONLY <1>8
  <2>2. \A i \in 2 .. m - 1 : i \in 2 .. m /\ i # m
    BY ONLY <1>2
  <2>3. \A i \in 2 .. m - 1 : i \notin Ends2
    BY ONLY <1>8, <2>2
  <2> QED BY ONLY <2>1, <2>2, <2>3
<1>9. ASSUME m >= 2, w[m] = Quote, m \notin Escaped(w), \A i \in 2 .. m - 1 : w[i] = Quote => i \in Escaped(w)
      PROVE  Ends2 = {m}
  <2>1. \A i \in 2 .. m : i # m => i \in 2 .. m - 1
    BY ONLY <1>2
  <2>2. m \in 2 .. m
    BY ONLY <1>2, <1>9
  <2> QED BY ONLY <1>9, <2>1, <2>2
<1> QED BY ONLY <1>6, <1>7, <1>8, <1>9 DEF SecondQuote

LEMMA QuoteIs == Quote # "\\" /\ Quote # NUL /\ Quote # "\n" /\ Quote \notin Spaces
BY Zenon DEF Quote, NUL, Spaces

\* Where a string stands, counted from its quote.
Counting(s, p, c, d, w, n) ==
  /\ w \in Seq(Characters) /\ Len(w) \in Nat /\ Len(w) = Len(s) - p + 1 /\ n \in 1 .. Len(w)
  /\ \A k \in 1 .. Len(w) : w[k] = s[p + k - 1]
  /\ w[1] = s[p] /\ (c < Len(s) <=> n < Len(w)) /\ (c < Len(s) => w[n + 1] = s[c + 1])
  /\ InsideString(s, p, c, d) <=> /\ s[p] = Quote /\ n + 1 \notin Escaped(w) /\ Contents(w)[n] = d
                                  /\ \A i \in 2 .. n : w[i] = Quote => i \in Escaped(w)

LEMMA StringPlace ==
  ASSUME NEW s \in Seq(Characters), NEW p \in 1 .. Len(s), NEW c \in p .. Len(s), NEW d,
         NEW w, w = From(s, p), NEW n, n = c - p + 1
  PROVE  Counting(s, p, c, d, w, n)
<1>1. w \in Seq(Characters) /\ Len(w) = Len(s) - p + 1 /\ \A k \in 1 .. Len(w) : w[k] = s[p + k - 1]
  <2>1. Len(s) \in p .. Len(s) /\ w = SubSeq(s, p, Len(s))
    BY DEF From
  <2> QED BY <2>1, Piece
<1>2. Len(w) \in Nat /\ n \in 1 .. Len(w) /\ (c < Len(s) <=> n < Len(w)) /\ p + 1 - 1 = p
  BY <1>1
<1>3. w[1] = s[p]
  <2>1. 1 \in 1 .. Len(w)
    BY ONLY <1>2
  <2> QED BY ONLY <1>1, <1>2, <2>1
<1>4. c < Len(s) => w[n + 1] = s[c + 1]
  <2>1. c < Len(s) => n + 1 \in 1 .. Len(w) /\ p + (n + 1) - 1 = c + 1
    BY <1>2
  <2>2. ASSUME c < Len(s)
        PROVE  w[n + 1] = s[c + 1]
    <3>1. PICK k : k = n + 1
      OBVIOUS
    <3>2. k \in 1 .. Len(w) /\ p + k - 1 = c + 1
      BY ONLY <2>1, <2>2, <3>1, n \in Nat, p \in Nat, c \in Nat
    <3>3. w[k] = s[p + k - 1]
      BY ONLY <1>1, <3>2
    <3> QED BY ONLY <3>1, <3>2, <3>3
  <2> QED BY <2>2
<1>5. c - p + 2 = n + 1
  OBVIOUS
<1>6. InsideString(s, p, c, d) <=> /\ s[p] = Quote /\ n + 1 \notin Escaped(w) /\ Contents(w)[n] = d
                                   /\ \A i \in 2 .. n : w[i] = Quote => i \in Escaped(w)
  BY <1>5, Zenon DEF InsideString
<1> QED BY ONLY <1>1, <1>2, <1>3, <1>4, <1>6 DEF Counting

\* Nothing of a string is read but its quote.
LEMMA StringFirst ==
  ASSUME NEW s \in Seq(Characters), NEW p \in 1 .. Len(s), s[p] = Quote
  PROVE  InsideString(s, p, p, <<>>)
<1>1. PICK w, n : w = From(s, p) /\ n = p - p + 1
  OBVIOUS
<1>2. p \in p .. Len(s) /\ n = 1
  BY <1>1
<1>3. /\ w \in Seq(Characters) /\ Len(w) \in Nat /\ n \in 1 .. Len(w) /\ w[1] = s[p]
      /\ InsideString(s, p, p, <<>>) <=> /\ s[p] = Quote /\ n + 1 \notin Escaped(w) /\ Contents(w)[n] = <<>>
                                         /\ \A i \in 2 .. n : w[i] = Quote => i \in Escaped(w)
  <2>1. Counting(s, p, p, <<>>, w, n)
    BY <1>1, <1>2, StringPlace
  <2> QED BY ONLY <2>1 DEF Counting
<1>4. 2 \notin Escaped(w)
  <2>1. CASE 2 \in 1 .. Len(w)
    <3>1. PICK i \in 1 .. Len(w) : i = 2
      BY <2>1
    <3>2. i \in Escaped(w) <=> i > 1 /\ w[i - 1] = "\\" /\ i - 1 \notin Escaped(w)
      BY ONLY <1>3, EscapedTurns
    <3>3. i - 1 = 1 /\ Quote # "\\"
      <4>1. i - 1 = 1
        BY <3>1
      <4> QED BY <4>1, QuoteIs
    <3> QED BY ONLY <1>3, <3>1, <3>2, <3>3, s[p] = Quote
  <2>2. CASE 2 \notin 1 .. Len(w)
    <3>1. DOMAIN w = 1 .. Len(w)
      BY <1>3
    <3> QED BY ONLY <2>2, <3>1 DEF Escaped
  <2> QED BY <2>1, <2>2
<1>5. Contents(w)[1] = <<>>
  <2>1. PICK U : U = Contents(w)
    OBVIOUS
  <2>2. 1 \in 0 .. Len(w) /\ \A i \in 0 .. Len(w) : U[i] = UptoStep(w, U, i)
    BY <1>2, <1>3, <2>1, ContentsTurns
  <2> QED BY ONLY <2>1, <2>2 DEF UptoStep
<1>6. \A i \in 2 .. n : FALSE
  BY ONLY <1>2
<1>7. n + 1 = 2
  BY ONLY <1>2
<1> QED BY ONLY <1>2, <1>3, <1>4, <1>5, <1>6, <1>7, s[p] = Quote

\* Whether the character behind one is escaped.
LEMMA EscapedNext ==
  ASSUME NEW S, NEW w \in Seq(S), NEW i \in 1 .. Len(w)
  PROVE  i + 1 \in Escaped(w) <=> i < Len(w) /\ w[i] = "\\" /\ i \notin Escaped(w)
<1>1. Len(w) \in Nat /\ DOMAIN w = 1 .. Len(w)
  OBVIOUS
<1>2. PICK k : k = i + 1
  OBVIOUS
<1>3. CASE i < Len(w)
  <2>1. k \in 1 .. Len(w) /\ k - 1 = i /\ k > 1
    BY <1>1, <1>2, <1>3
  <2>2. k \in Escaped(w) <=> k > 1 /\ w[k - 1] = "\\" /\ k - 1 \notin Escaped(w)
    BY <2>1, EscapedTurns
  <2> QED BY ONLY <1>2, <1>3, <2>1, <2>2
<1>4. CASE ~(i < Len(w))
  <2>1. k \notin DOMAIN w
    BY <1>1, <1>2, <1>4
  <2>2. k \notin Escaped(w)
    BY ONLY <2>1 DEF Escaped
  <2> QED BY ONLY <1>2, <1>4, <2>2
<1> QED BY <1>3, <1>4

\* One more character is read, that is not escaped and escapes none.
LEMMA StringPlain ==
  ASSUME NEW s \in Seq(Characters), NEW p \in 1 .. Len(s), NEW c \in p .. Len(s), NEW d,
         InsideString(s, p, c, d), c < Len(s), s[c + 1] # Quote, s[c + 1] # "\\"
  PROVE  InsideString(s, p, c + 1, Append(d, s[c + 1]))
<1>1. PICK w, n : w = From(s, p) /\ n = c - p + 1
  OBVIOUS
<1>2. PICK b, m, e : b = c + 1 /\ m = b - p + 1 /\ e = Append(d, s[c + 1])
  OBVIOUS
<1>3. b \in p .. Len(s) /\ m = n + 1 /\ n \in Nat
  BY <1>1, <1>2
<1>4. /\ w \in Seq(Characters) /\ Len(w) \in Nat /\ n \in 1 .. Len(w) /\ n < Len(w)
      /\ w[n + 1] = s[c + 1] /\ s[p] = Quote /\ n + 1 \notin Escaped(w) /\ Contents(w)[n] = d
      /\ \A i \in 2 .. n : w[i] = Quote => i \in Escaped(w)
  <2>1. Counting(s, p, c, d, w, n)
    BY <1>1, StringPlace
  <2> QED BY ONLY <2>1, InsideString(s, p, c, d), c < Len(s) DEF Counting
<1>5. InsideString(s, p, b, e) <=> /\ s[p] = Quote /\ m + 1 \notin Escaped(w) /\ Contents(w)[m] = e
                                   /\ \A i \in 2 .. m : w[i] = Quote => i \in Escaped(w)
  <2>1. Counting(s, p, b, e, w, m)
    BY <1>1, <1>2, <1>3, StringPlace
  <2> QED BY ONLY <2>1 DEF Counting
<1>6. m \in 1 .. Len(w) /\ m - 1 = n /\ m >= 2 /\ w[m] = s[c + 1]
  BY ONLY <1>3, <1>4
<1>7. m + 1 \notin Escaped(w)
  BY ONLY <1>4, <1>6, EscapedNext, s[c + 1] # "\\"
<1>8. Contents(w)[m] = e
  <2>1. PICK U : U = Contents(w)
    OBVIOUS
  <2>2. U[m] = UptoStep(w, U, m)
    BY <1>4, <1>6, <2>1, ContentsTurns
  <2>3. m \notin Escaped(w) /\ U[m - 1] = d
    BY ONLY <1>3, <1>4, <1>6, <2>1
  <2> QED BY ONLY <1>2, <1>6, <2>1, <2>2, <2>3, s[c + 1] # "\\", SMTT(30) DEF UptoStep
<1>9. \A i \in 2 .. m : w[i] = Quote => i \in Escaped(w)
  <2>1. \A i \in 2 .. m : i \in 2 .. n \/ i = m
    BY ONLY <1>3
  <2> QED BY ONLY <1>4, <1>6, <2>1, s[c + 1] # Quote
<1> QED BY ONLY <1>2, <1>4, <1>5, <1>7, <1>8, <1>9

\* A backslash and the character it escapes are read.
LEMMA StringEscape ==
  ASSUME NEW s \in Seq(Characters), NEW p \in 1 .. Len(s), NEW c \in p .. Len(s), NEW d,
         InsideString(s, p, c, d), c + 1 < Len(s), s[c + 1] = "\\"
  PROVE  InsideString(s, p, c + 2, Append(d, Escape(s[c + 2])))
<1>1. PICK w, n : w = From(s, p) /\ n = c - p + 1
  OBVIOUS
<1>2. PICK b, m, e : b = c + 2 /\ m = b - p + 1 /\ e = Append(d, Escape(s[c + 2]))
  OBVIOUS
<1>3. b \in p .. Len(s) /\ m = n + 2 /\ n \in Nat /\ c < Len(s)
  BY <1>1, <1>2
<1>4. /\ w \in Seq(Characters) /\ Len(w) \in Nat /\ n \in 1 .. Len(w) /\ n < Len(w)
      /\ w[n + 1] = s[c + 1] /\ s[p] = Quote /\ n + 1 \notin Escaped(w) /\ Contents(w)[n] = d
      /\ \A i \in 2 .. n : w[i] = Quote => i \in Escaped(w)
  <2>1. Counting(s, p, c, d, w, n)
    BY <1>1, StringPlace
  <2> QED BY ONLY <1>3, <2>1, InsideString(s, p, c, d) DEF Counting
<1>5. /\ m \in 1 .. Len(w) /\ \A k \in 1 .. Len(w) : w[k] = s[p + k - 1]
      /\ InsideString(s, p, b, e) <=> /\ s[p] = Quote /\ m + 1 \notin Escaped(w) /\ Contents(w)[m] = e
                                      /\ \A i \in 2 .. m : w[i] = Quote => i \in Escaped(w)
  <2>1. Counting(s, p, b, e, w, m)
    BY <1>1, <1>2, <1>3, StringPlace
  <2> QED BY ONLY <2>1 DEF Counting
<1>6. PICK k : k = n + 1
  OBVIOUS
<1>7. m = k + 1 /\ k \in 1 .. Len(w) /\ k < Len(w) /\ k - 1 = n /\ m - 1 = k /\ k >= 2 /\ m >= 2
  BY ONLY <1>3, <1>4, <1>5, <1>6
<1>8. w[k] = "\\" /\ k \notin Escaped(w)
  BY ONLY <1>4, <1>6, s[c + 1] = "\\"
<1>9. m \in Escaped(w)
  BY ONLY <1>4, <1>7, <1>8, EscapedNext
<1>10. m + 1 \notin Escaped(w)
  BY ONLY <1>4, <1>5, <1>9, EscapedNext
<1>11. w[m] = s[c + 2]
  <2>1. p + m - 1 = c + 2
    BY <1>2
  <2> QED BY ONLY <1>5, <2>1
<1>12. Contents(w)[m] = e
  <2>1. PICK U : U = Contents(w)
    OBVIOUS
  <2>2. U[m] = UptoStep(w, U, m) /\ U[k] = UptoStep(w, U, k)
    <3>1. \A i \in 0 .. Len(w) : U[i] = UptoStep(w, U, i)
      BY ONLY <1>4, <2>1, ContentsTurns
    <3>2. m \in 0 .. Len(w) /\ k \in 0 .. Len(w)
      BY ONLY <1>4, <1>5, <1>7
    <3> QED BY ONLY <3>1, <3>2
  <2>3. U[k] = d
    BY ONLY <1>4, <1>7, <1>8, <2>1, <2>2 DEF UptoStep
  <2>4. U[m] = Append(d, Escape(w[m]))
    BY ONLY <1>7, <1>9, <2>2, <2>3 DEF UptoStep
  <2> QED BY ONLY <1>2, <1>11, <2>1, <2>4
<1>13. \A i \in 2 .. m : w[i] = Quote => i \in Escaped(w)
  <2>1. \A i \in 2 .. m : i \in 2 .. n \/ i = k \/ i = m
    BY ONLY <1>3, <1>6
  <2>2. w[k] # Quote
    BY ONLY <1>8, QuoteIs
  <2> QED BY ONLY <1>4, <1>9, <2>1, <2>2
<1> QED BY ONLY <1>2, <1>4, <1>5, <1>10, <1>12, <1>13

\* A piece from a quote means something if it is a string, and then what is in it.
LEMMA StringMeans ==
  ASSUME NEW s \in Seq(Characters), NEW p \in 1 .. Len(s), s[p] = Quote, NEW j \in p .. Len(s), NEW v, v = Cut(s, p, j)
  PROVE  /\ Meaning(v) # Error <=> Quoted(v)
         /\ Quoted(v) => Meaning(v) = Lexeme("string", Contents(From(s, p))[j - p])
<1>1. Meaning(v) # Error <=> Quoted(v)
  <2>1. v = SubSeq(s, p, j)
    BY DEF Cut
  <2> QED BY ONLY <2>1, s \in Seq(Characters), p \in 1 .. Len(s), j \in p .. Len(s), s[p] = Quote, EndsByFirst
<1>2. PICK w : w = From(s, p)
  OBVIOUS
<1>3. v \in Seq(Characters) /\ v # <<>>
  BY <1>2, StringPiece
<1>4. Len(v) = j - p + 1
  BY Piece DEF Cut
<1>5. \A k \in 0 .. Len(v) : Contents(v)[k] = Contents(w)[k]
  BY <1>2, StringPiece
<1>6. Len(v) - 1 = j - p /\ Len(v) - 1 \in 0 .. Len(v)
  BY <1>4
<1>7. Content(v) = Contents(w)[j - p]
  BY ONLY <1>5, <1>6 DEF Content
<1>8. Quoted(v) => Meaning(v) = Lexeme("string", Content(v))
  BY <1>3, MeaningOf
<1> QED BY ONLY <1>1, <1>2, <1>7, <1>8

\* The string ends at the next quote.
LEMMA StringCloses ==
  ASSUME NEW s \in Seq(Characters), NEW p, Begins(s, p), NEW c \in p .. Len(s), NEW d,
         InsideString(s, p, c, d), c < Len(s), s[c + 1] = Quote, ~(Len(d) >= StringRoom - 1)
  PROVE  TokensFrom(s)[p] = <<TokenAt(Lexeme("string", d), p)>> \o TokensFrom(s)[c + 2]
<1>1. p \in 1 .. Len(s) /\ s[p] = Quote
  BY DEF Begins, InsideString
<1>2. PICK w, n : w = From(s, p) /\ n = c - p + 1
  OBVIOUS
<1>3. /\ w \in Seq(Characters) /\ Len(w) \in Nat /\ n \in 1 .. Len(w) /\ n < Len(w)
      /\ w[n + 1] = Quote /\ n + 1 \notin Escaped(w) /\ Contents(w)[n] = d
      /\ \A i \in 2 .. n : w[i] = Quote => i \in Escaped(w)
  <2>1. Counting(s, p, c, d, w, n)
    BY <1>1, <1>2, StringPlace
  <2> QED BY ONLY <2>1, InsideString(s, p, c, d), c < Len(s), s[c + 1] = Quote DEF Counting
<1>4. PICK j, m : j = c + 1 /\ m = j - p + 1
  OBVIOUS
<1>5. j \in p .. Len(s) /\ m = n + 1 /\ m \in Nat /\ m >= 2 /\ m - 1 = n /\ j - p = n
  BY <1>1, <1>2, <1>3, <1>4
<1>6. PICK v : v = Cut(s, p, j)
  OBVIOUS
<1>7. Quoted(v)
  <2>1. Quoted(v) <=> SecondQuote(w, m)
    BY ONLY <1>1, <1>2, <1>4, <1>5, <1>6, s \in Seq(Characters), QuotedPiece
  <2> QED BY ONLY <1>3, <1>5, <2>1 DEF SecondQuote
<1>8. PICK t : t = Lexeme("string", d)
  OBVIOUS
<1>9. Meaning(v) = t /\ t # Error
  <2>1. /\ Meaning(v) # Error <=> Quoted(v)
        /\ Quoted(v) => Meaning(v) = Lexeme("string", Contents(From(s, p))[j - p])
    BY <1>1, <1>5, <1>6, StringMeans
  <2> QED BY ONLY <1>2, <1>3, <1>5, <1>7, <1>8, <2>1
<1>10. ASSUME NEW k \in j + 1 .. Len(s)
       PROVE  Meaning(SubSeq(s, p, k)) = Error
  <2>1. PICK u, l : u = Cut(s, p, k) /\ l = k - p + 1
    OBVIOUS
  <2>2. k \in p .. Len(s) /\ m \in 2 .. l - 1
    <3>1. k \in Int /\ p \in Nat /\ j \in Nat /\ Len(s) \in Nat /\ p <= j
      BY <1>1, <1>5
    <3>2. j + 1 <= k /\ k <= Len(s)
      BY <3>1
    <3> QED BY ONLY <1>4, <1>5, <2>1, <3>1, <3>2
  <2>3. Quoted(u) <=> SecondQuote(w, l)
    BY ONLY <1>1, <1>2, <2>1, <2>2, s \in Seq(Characters), QuotedPiece
  <2>4. ~Quoted(u)
    BY ONLY <1>3, <1>5, <2>2, <2>3 DEF SecondQuote
  <2>5. Meaning(u) = Error
    BY <1>1, <2>1, <2>2, <2>4, StringMeans
  <2> QED BY ONLY <2>1, <2>5 DEF Cut
<1>11. t = Meaning(SubSeq(s, p, j))
  BY ONLY <1>6, <1>9 DEF Cut
<1>12. ~(t.kind = "int" /\ j < Len(s) /\ s[j + 1] \in Alnum) /\ ~(t.kind = "string" /\ Len(t.data) >= StringRoom - 1)
  <2>1. t.kind = "string" /\ t.data = d
    BY <1>8 DEF Lexeme
  <2> QED BY <2>1
<1>13. TokensFrom(s)[p] = <<TokenAt(t, p)>> \o TokensFrom(s)[j + 1]
  BY ONLY <1>5, <1>9, <1>10, <1>11, <1>12, s \in Seq(Characters), Begins(s, p), TokenThere
<1>14. j + 1 = c + 2
  BY <1>4
<1> QED BY ONLY <1>8, <1>13, <1>14

\* The string does not end: there is no quote for it, or too much in front of it.
LEMMA StringRefused ==
  ASSUME NEW s \in Seq(Characters), NEW p, Begins(s, p), NEW c \in p .. Len(s), NEW d,
         InsideString(s, p, c, d), StringRoom \in Int,
         \/ c = Len(s) \/ (c + 1 = Len(s) /\ s[c + 1] = "\\")
         \/ Len(d) >= StringRoom - 1
  PROVE  TokensFrom(s)[p] = <<TokenAt(Error, p)>>
<1>1. p \in 1 .. Len(s) /\ s[p] = Quote /\ Len(s) \in Nat
  BY DEF Begins, InsideString
<1>2. PICK w, n : w = From(s, p) /\ n = c - p + 1
  OBVIOUS
<1>3. /\ w \in Seq(Characters) /\ Len(w) \in Nat /\ Len(w) = Len(s) - p + 1
      /\ n \in 1 .. Len(w) /\ Contents(w)[n] = d
      /\ \A k \in 1 .. Len(w) : w[k] = s[p + k - 1]
      /\ \A i \in 2 .. n : w[i] = Quote => i \in Escaped(w)
  <2>1. Counting(s, p, c, d, w, n)
    BY <1>1, <1>2, StringPlace
  <2> QED BY ONLY <2>1, InsideString(s, p, c, d) DEF Counting
<1>4. ASSUME NEW j \in p .. Len(s), Meaning(SubSeq(s, p, j)) # Error
      PROVE  /\ j > c /\ Meaning(SubSeq(s, p, j)) = Lexeme("string", Contents(w)[j - p])
             /\ s[j] = Quote
  <2>1. PICK v, m : v = Cut(s, p, j) /\ m = j - p + 1
    OBVIOUS
  <2>2. Meaning(v) # Error
    BY ONLY <1>4, <2>1 DEF Cut
  <2>3. Quoted(v) /\ Meaning(v) = Lexeme("string", Contents(w)[j - p])
    BY <1>1, <1>2, <2>1, <2>2, StringMeans
  <2>4. Quoted(v) <=> SecondQuote(w, m)
    BY ONLY <1>1, <1>2, <2>1, s \in Seq(Characters), j \in p .. Len(s), QuotedPiece
  <2>5. m \notin 2 .. n /\ m >= 2 /\ w[m] = Quote
    BY ONLY <1>3, <2>3, <2>4 DEF SecondQuote
  <2>6. m > n /\ m \in 1 .. Len(w)
    BY <1>1, <1>2, <1>3, <2>1, <2>5
  <2>7. j > c
    BY <1>1, <1>2, <2>1, <2>6
  <2>8. s[j] = Quote
    <3>1. p + m - 1 = j
      BY <1>1, <2>1
    <3> QED BY ONLY <1>3, <2>5, <2>6, <3>1
  <2> QED BY ONLY <2>1, <2>3, <2>7, <2>8 DEF Cut
<1>5. Refused(s, p)
  <2>1. CASE Ends(s, p) = {}
    BY <2>1 DEF Refused
  <2>2. CASE Ends(s, p) # {}
    <3>1. PICK j : j = Longest(s, p)
      OBVIOUS
    <3>2. j \in p .. Len(s) /\ j \in Ends(s, p)
      BY <1>1, <2>2, <3>1, LongestIn
    <3>3. Meaning(SubSeq(s, p, j)) # Error
      BY <3>2 DEF Ends
    <3>4. j > c /\ Meaning(SubSeq(s, p, j)) = Lexeme("string", Contents(w)[j - p]) /\ s[j] = Quote
      BY <1>4, <3>2, <3>3
    <3>5. ~(c = Len(s) \/ (c + 1 = Len(s) /\ s[c + 1] = "\\"))
      <4>1. c + 1 = Len(s) => j = c + 1
        BY <1>1, <3>2, <3>4
      <4> QED BY ONLY <1>1, <3>2, <3>4, <4>1, QuoteIs, c \in p .. Len(s)
    <3>6. Len(d) >= StringRoom - 1
      BY <3>5
    <3>7. Len(Contents(w)[j - p]) >= Len(d)
      <4>1. PICK k : k = j - p
        OBVIOUS
      <4>2. n \in 0 .. Len(w) /\ k \in 0 .. Len(w) /\ n <= k
        BY <1>1, <1>2, <1>3, <3>2, <3>4, <4>1
      <4>3. PICK U : U = Contents(w)
        OBVIOUS
      <4>4. U[n] \in Seq(Characters \cup {NUL}) /\ U[k] \in Seq(Characters \cup {NUL}) /\ Len(U[n]) <= Len(U[k])
        BY ONLY <1>3, <4>2, <4>3, ContentsGrow
      <4>5. Len(U[n]) \in Nat /\ Len(U[k]) \in Nat
        BY <4>4
      <4> QED BY ONLY <1>3, <4>1, <4>3, <4>4, <4>5
    <3>8. LongestMeaning(s, p).kind = "string" /\ LongestMeaning(s, p).data = Contents(w)[j - p]
      BY <3>1, <3>4 DEF LongestMeaning, Lexeme
    <3>9. Len(Contents(w)[j - p]) \in Int /\ Len(d) \in Int
      <4>1. j - p \in 0 .. Len(w) /\ n \in 0 .. Len(w)
        BY <1>1, <1>3, <3>2, <3>4
      <4>2. \A i \in 0 .. Len(w) : Len(Contents(w)[i]) \in Nat
        BY ONLY <1>3, ContentsGrow
      <4> QED BY ONLY <1>3, <4>1, <4>2
    <3>10. Len(LongestMeaning(s, p).data) >= StringRoom - 1
      BY ONLY <3>6, <3>7, <3>8, <3>9, StringRoom \in Int
    <3> QED BY <3>8, <3>10 DEF Refused
  <2> QED BY <2>1, <2>2
<1> QED BY <1>5, ErrorThere

-----------------------------------------------------------------------------
(* Words, atoms and operators *)

\* A word ends where its characters do.
LEMMA WordEnds ==
  ASSUME NEW s \in Seq(Characters), NEW p, Begins(s, p), NEW c \in p .. Len(s), NEW w, w = Cut(s, p, c),
         s[p] \in Letters \cup {"_"}, \A k \in p .. c : s[k] \in WordChars, c < Len(s) => s[c + 1] \notin WordChars
  PROVE  TokensFrom(s)[p] = <<TokenAt(Lexeme(WordKind(w), w), p)>> \o TokensFrom(s)[c + 1]
<1>1. p \in 1 .. Len(s) /\ Len(s) \in Nat
  BY ONLY s \in Seq(Characters), Begins(s, p) DEF Begins
<1>2. /\ \A k \in c + 1 .. Len(s) : Meaning(SubSeq(s, p, k)) = Error
      /\ w \in Seq(Characters) /\ w # <<>> /\ Head(w) = s[p]
  <2>1. PICK v : v = From(s, p)
    OBVIOUS
  <2>2. w \in Seq(Characters) /\ w # <<>> /\ Head(w) = s[p]
    BY ONLY <1>1, <2>1, s \in Seq(Characters), c \in p .. Len(s), w = Cut(s, p, c), StringPiece
  <2>3. ASSUME NEW k \in c + 1 .. Len(s)
        PROVE  Meaning(SubSeq(s, p, k)) = Error
    <3>1. k \in p .. Len(s) /\ c + 1 \in p .. k /\ c < Len(s)
      BY ONLY <1>1, c \in p .. Len(s), k \in c + 1 .. Len(s)
    <3>2. PICK u : u = SubSeq(s, p, k)
      OBVIOUS
    <3>3. Meaning(u) # Error <=> \A i \in p .. k : s[i] \in WordChars
      BY <1>1, <3>1, <3>2, EndsByFirst
    <3> QED BY ONLY <3>1, <3>2, <3>3, c < Len(s) => s[c + 1] \notin WordChars
  <2> QED BY ONLY <2>2, <2>3
<1>3. Word(w)
  <2>1. All(w, WordChars)
    <3>1. c \in p - 1 .. Len(s)
      BY ONLY <1>1, c \in p .. Len(s)
    <3>2. All(SubSeq(s, p, c), WordChars) <=> \A k \in p .. c : s[k] \in WordChars
      BY ONLY <1>1, <3>1, s \in Seq(Characters), AllPiece
    <3> QED BY ONLY <3>2, w = Cut(s, p, c), \A k \in p .. c : s[k] \in WordChars, Zenon DEF Cut
  <2> QED BY ONLY <1>2, <2>1, Classes, s[p] \in Letters \cup {"_"} DEF Word
<1>4. PICK t : t = Lexeme(WordKind(w), w)
  OBVIOUS
<1>5. Meaning(w) = t
  BY ONLY <1>2, <1>3, <1>4, MeaningOf
<1>6. t.kind \in {"keyword", "ident"}
  BY <1>4 DEF Lexeme, WordKind
<1>7. t # Error
  BY ONLY <1>6 DEF Error, Lexeme
<1>8. t = Meaning(SubSeq(s, p, c))
  BY ONLY <1>5, w = Cut(s, p, c) DEF Cut
<1>9. TokensFrom(s)[p] = <<TokenAt(t, p)>> \o TokensFrom(s)[c + 1]
  BY ONLY <1>2, <1>6, <1>7, <1>8, s \in Seq(Characters), Begins(s, p), c \in p .. Len(s), TokenThere
<1> QED BY ONLY <1>4, <1>9

\* So does an atom.
LEMMA AtomEnds ==
  ASSUME NEW s \in Seq(Characters), NEW p, Begins(s, p), NEW c \in p + 1 .. Len(s), NEW w, w = Cut(s, p, c),
         s[p] = ":", s[p + 1] \in Letters \cup {"_"}, \A k \in p + 1 .. c : s[k] \in WordChars,
         c < Len(s) => s[c + 1] \notin WordChars
  PROVE  TokensFrom(s)[p] = <<TokenAt(Lexeme("atom", Tail(w)), p)>> \o TokensFrom(s)[c + 1]
<1>1. p \in 1 .. Len(s) /\ Len(s) \in Nat /\ c \in p .. Len(s) /\ p < Len(s)
  BY ONLY s \in Seq(Characters), Begins(s, p), c \in p + 1 .. Len(s) DEF Begins
<1>2. PICK v : v = From(s, p)
  OBVIOUS
<1>3. w \in Seq(Characters) /\ w # <<>> /\ Head(w) = s[p]
  BY ONLY <1>1, <1>2, s \in Seq(Characters), w = Cut(s, p, c), StringPiece
<1>4. ASSUME NEW k \in c + 1 .. Len(s)
      PROVE  Meaning(SubSeq(s, p, k)) = Error
  <2>1. k \in p .. Len(s) /\ c + 1 \in p + 1 .. k /\ c < Len(s)
    BY ONLY <1>1, c \in p + 1 .. Len(s), k \in c + 1 .. Len(s)
  <2>2. PICK u : u = SubSeq(s, p, k)
    OBVIOUS
  <2>3. Meaning(u) # Error <=> \A i \in p + 1 .. k : s[i] \in WordChars
    BY <1>1, <2>1, <2>2, EndsByFirst
  <2> QED BY ONLY <2>1, <2>2, <2>3, c < Len(s) => s[c + 1] \notin WordChars
<1>5. Word(Tail(w))
  <2>1. PICK a, u : a = p + 1 /\ u = SubSeq(s, a, c)
    OBVIOUS
  <2>2. a \in 1 .. Len(s) /\ c \in a .. Len(s) /\ c \in a - 1 .. Len(s)
    BY ONLY <1>1, <2>1, c \in p + 1 .. Len(s)
  <2>3. Tail(w) = u
    BY ONLY <1>1, <2>1, <2>2, s \in Seq(Characters), w = Cut(s, p, c), HeadTailOfSubSeq DEF Cut
  <2>4. u # <<>> /\ Head(u) = s[a]
    <3>1. PICK x : x = From(s, a)
      OBVIOUS
    <3>2. u = Cut(s, a, c)
      BY ONLY <2>1 DEF Cut
    <3> QED BY ONLY <2>2, <3>1, <3>2, s \in Seq(Characters), StringPiece
  <2>5. All(u, WordChars)
    <3>1. All(SubSeq(s, a, c), WordChars) <=> \A k \in a .. c : s[k] \in WordChars
      BY ONLY <2>2, s \in Seq(Characters), AllPiece
    <3> QED BY ONLY <2>1, <3>1, \A k \in p + 1 .. c : s[k] \in WordChars, Zenon
  <2> QED BY ONLY <2>1, <2>3, <2>4, <2>5, Classes, s[p + 1] \in Letters \cup {"_"} DEF Word
<1>6. PICK t : t = Lexeme("atom", Tail(w))
  OBVIOUS
<1>7. Meaning(w) = t
  <2>1. Atom(w)
    BY ONLY <1>3, <1>5, s[p] = ":" DEF Atom
  <2> QED BY ONLY <1>3, <1>6, <2>1, MeaningOf
<1>8. t.kind = "atom"
  BY <1>6 DEF Lexeme
<1>9. t # Error
  BY ONLY <1>8 DEF Error, Lexeme
<1>10. t = Meaning(SubSeq(s, p, c))
  BY ONLY <1>7, w = Cut(s, p, c) DEF Cut
<1>11. TokensFrom(s)[p] = <<TokenAt(t, p)>> \o TokensFrom(s)[c + 1]
  BY ONLY <1>1, <1>4, <1>8, <1>9, <1>10, s \in Seq(Characters), Begins(s, p), TokenThere
<1> QED BY ONLY <1>6, <1>11

\* An atom does not begin with the colon at p.
NoAtom(s, p) == ~(s[p] = ":" /\ p < Len(s) /\ s[p + 1] \in Letters \cup {"_"})

\* An operator is the longest there.
LEMMA OperatorEnds ==
  ASSUME NEW s \in Seq(Characters), NEW p, Begins(s, p), NEW c \in p .. Len(s), NEW w, w = Cut(s, p, c),
         NoAtom(s, p), w \in Operators, \A k \in c + 1 .. Len(s) : Cut(s, p, k) \notin Operators
  PROVE  TokensFrom(s)[p] = <<TokenAt(Lexeme("op", w), p)>> \o TokensFrom(s)[c + 1]
<1>1. p \in 1 .. Len(s) /\ Len(s) \in Nat
  BY DEF Begins
<1>2. PICK v : v = From(s, p)
  OBVIOUS
<1>3. w \in Seq(Characters) /\ w # <<>> /\ Head(w) = s[p]
  BY <1>1, <1>2, StringPiece
<1>4. s[p] \in OperatorChars
  BY ONLY <1>3, w \in Operators, FirstSays
<1>5. ASSUME NEW k \in c + 1 .. Len(s)
      PROVE  Meaning(SubSeq(s, p, k)) = Error
  <2>1. k \in p .. Len(s)
    BY <1>1
  <2>2. PICK u : u = SubSeq(s, p, k)
    OBVIOUS
  <2>3. Meaning(u) # Error <=> u \in Operators
    BY <1>1, <1>4, <2>1, <2>2, EndsByFirst DEF NoAtom
  <2>4. u \notin Operators
    BY ONLY <1>5, <2>2, \A l \in c + 1 .. Len(s) : Cut(s, p, l) \notin Operators DEF Cut
  <2> QED BY ONLY <2>2, <2>3, <2>4
<1>6. PICK t : t = Lexeme("op", w)
  OBVIOUS
<1>7. Meaning(w) = t
  BY ONLY <1>3, <1>6, w \in Operators, MeaningOf
<1>8. t.kind = "op"
  BY <1>6 DEF Lexeme
<1>9. t # Error
  BY <1>8 DEF Error, Lexeme
<1>10. t = Meaning(SubSeq(s, p, c))
  BY ONLY <1>7, w = Cut(s, p, c) DEF Cut
<1>11. TokensFrom(s)[p] = <<TokenAt(t, p)>> \o TokensFrom(s)[c + 1]
  BY ONLY <1>5, <1>8, <1>9, <1>10, c \in p .. Len(s), s \in Seq(Characters), Begins(s, p), TokenThere
<1> QED BY ONLY <1>6, <1>11

\* No token begins with a character that begins none.
LEMMA NothingThere ==
  ASSUME NEW s \in Seq(Characters), NEW p, Begins(s, p), s[p] \notin WordChars, s[p] # Quote,
         NoAtom(s, p), \A k \in p .. Len(s) : Cut(s, p, k) \notin Operators
  PROVE  TokensFrom(s)[p] = <<TokenAt(Error, p)>>
<1>1. p \in 1 .. Len(s) /\ Len(s) \in Nat
  BY DEF Begins
<1>2. ASSUME NEW k \in p .. Len(s)
      PROVE  Meaning(SubSeq(s, p, k)) = Error
  <2>1. PICK u : u = SubSeq(s, p, k)
    OBVIOUS
  <2>2. u \notin Operators
    BY ONLY <1>2, <2>1, \A l \in p .. Len(s) : Cut(s, p, l) \notin Operators DEF Cut
  <2>3. CASE s[p] \in OperatorChars
    <3>1. Meaning(u) # Error <=> u \in Operators
      BY <1>1, <2>1, <2>3, EndsByFirst DEF NoAtom
    <3> QED BY ONLY <2>1, <2>2, <3>1
  <2>4. CASE s[p] \notin OperatorChars
    <3>1. s[p] \notin WordChars \cup OperatorChars \cup {Quote}
      BY <2>4
    <3> QED BY <1>1, <2>1, <3>1, EndsByFirst
  <2> QED BY <2>3, <2>4
<1>3. Refused(s, p)
  BY <1>2 DEF Refused, Ends
<1> QED BY <1>3, ErrorThere

-----------------------------------------------------------------------------
(* Where numbers end *)

\* A suffix begins with a letter and has no other character than these.
LEMMA SuffixPlaces ==
  ASSUME NEW s \in Seq(Characters), NEW a \in 1 .. Len(s), NEW k \in a .. Len(s), AreSuffix(s, a, k)
  PROVE  s[a] \in {"u", "i"} /\ \A l \in a .. k : s[l] \in {"u", "i", "8"}
<1>1. PICK u, w : u = Cut(s, a, k) /\ w = From(s, a)
  OBVIOUS
<1>2. u \in IntSuffixes
  BY ONLY <1>1, AreSuffix(s, a, k) DEF AreSuffix, Cut
<1>3. u \in Seq(Characters) /\ u # <<>> /\ Head(u) = s[a]
  BY ONLY <1>1, s \in Seq(Characters), a \in 1 .. Len(s), k \in a .. Len(s), StringPiece
<1>4. Head(u) \in {"u", "i"}
  BY ONLY <1>2 DEF IntSuffixes
<1>5. ASSUME NEW l \in a .. k
      PROVE  s[l] \in {"u", "i", "8"}
  <2>1. /\ Len(u) = k - a + 1 /\ \A i \in a .. k : u[i - a + 1] = s[i]
    <3>1. u = SubSeq(s, a, k)
      BY <1>1 DEF Cut
    <3> QED BY ONLY <3>1, s \in Seq(Characters), a \in 1 .. Len(s), k \in a .. Len(s), Piece
  <2>2. l - a + 1 \in 1 .. Len(u)
    BY <2>1
  <2>3. u[l - a + 1] \in {"u", "i", "8"}
    BY ONLY <1>2, <2>2, SuffixShape
  <2> QED BY ONLY <1>5, <2>1, <2>3
<1> QED BY ONLY <1>3, <1>4, <1>5

HexFollows(s, p) == p < Len(s) /\ s[p] = "0" /\ s[p + 1] = "x"

\* The digits from p end at d.
DigitsTo(s, p, d) ==
  /\ p \in 1 .. Len(s) /\ d \in p .. Len(s) /\ AreDigits(s, p, d) /\ ~HexFollows(s, p)
  /\ d < Len(s) => s[d + 1] \notin Digits
HexTo(s, p, d) ==
  /\ p \in 1 .. Len(s) /\ d \in p .. Len(s) /\ AreHex(s, p, d)
  /\ d < Len(s) => s[d + 1] \notin HexDigits

\* A number that goes on behind its digits has a suffix, a fraction or an exponent.
FloatBehind(s, d, k) ==
  \E m \in d .. k : /\ d < m => s[d + 1] = "." /\ AreDigits(s, d + 2, m)
                    /\ m < k => AreExponent(s, m + 1, k)

LEMMA DigitsBehind ==
  ASSUME NEW s \in Seq(Characters), NEW p, NEW d, DigitsTo(s, p, d), NEW k \in p .. Len(s)
  PROVE  /\ AreInteger(s, p, k) => k <= d \/ AreSuffix(s, d + 1, k)
         /\ AreFloat(s, p, k) => d < k /\ FloatBehind(s, d, k)
<1>1. /\ p \in Nat /\ d \in Nat /\ k \in Nat /\ Len(s) \in Nat /\ p >= 1 /\ p <= d /\ d <= Len(s) /\ p <= k /\ k <= Len(s)
      /\ \A i \in p .. d : s[i] \in Digits
      /\ d < Len(s) => s[d + 1] \notin Digits
  <2>1. p \in 1 .. Len(s) /\ d \in p .. Len(s) /\ Len(s) \in Nat
    BY ONLY s \in Seq(Characters), DigitsTo(s, p, d) DEF DigitsTo
  <2> QED BY <2>1 DEF DigitsTo, AreDigits
<1>2. ASSUME NEW m \in p .. k, AreDigits(s, p, m)
      PROVE  m <= d
  <2>1. ~(m > d)
    <3>1. m > d => d + 1 \in p .. m /\ d < Len(s)
      BY ONLY <1>1, m \in p .. k
    <3> QED BY ONLY <1>1, <1>2, <3>1 DEF AreDigits
  <2> QED BY ONLY <1>1, <2>1, m \in p .. k
<1>3. ASSUME NEW m \in p .. k, m < d
      PROVE  s[m + 1] \in Digits
  <2>1. m + 1 \in p .. d
    BY ONLY <1>1, <1>3
  <2> QED BY ONLY <1>1, <2>1
<1>4. "." \notin Digits /\ "e" \notin Digits /\ "u" \notin Digits /\ "i" \notin Digits
  BY DEF Digits
<1>5. ASSUME AreInteger(s, p, k)
      PROVE  k <= d \/ AreSuffix(s, d + 1, k)
  <2>1. PICK m \in p .. k : (m < k => AreSuffix(s, m + 1, k)) /\ (AreDigits(s, p, m) \/ AreHex(s, p, m))
    BY ONLY <1>5 DEF AreInteger
  <2>2. ~AreHex(s, p, m)
    <3>1. AreHex(s, p, m) => HexFollows(s, p)
      <4>1. p + 1 <= m => p < Len(s)
        BY ONLY <1>1, m \in p .. k
      <4> QED BY ONLY <4>1 DEF AreHex, HexFollows
    <3> QED BY ONLY <3>1, DigitsTo(s, p, d) DEF DigitsTo
  <2>3. m <= d
    BY ONLY <1>2, <2>1, <2>2
  <2>4. CASE m = k
    BY <2>3, <2>4
  <2>5. CASE m < k
    <3>1. PICK a : a = m + 1
      OBVIOUS
    <3>2. a \in 1 .. Len(s) /\ k \in a .. Len(s)
      BY ONLY <1>1, <2>5, <3>1, m \in p .. k
    <3>3. s[a] \in {"u", "i"}
      BY ONLY <2>1, <2>5, <3>1, <3>2, s \in Seq(Characters), SuffixPlaces
    <3>4. ~(m < d)
      BY ONLY <1>3, <1>4, <3>1, <3>3, m \in p .. k
    <3>5. m = d
      BY ONLY <1>1, <2>3, <3>4, m \in p .. k
    <3> QED BY ONLY <2>1, <2>5, <3>5
  <2> QED BY ONLY <1>1, <2>4, <2>5, m \in p .. k
<1>6. ASSUME AreFloat(s, p, k)
      PROVE  d < k /\ FloatBehind(s, d, k)
  <2>1. PICK a \in p .. k : \E m \in a .. k :
          /\ a < k /\ AreDigits(s, p, a)
          /\ a < m => s[a + 1] = "." /\ AreDigits(s, a + 2, m)
          /\ m < k => AreExponent(s, m + 1, k)
    BY ONLY <1>6 DEF AreFloat
  <2>2. PICK m \in a .. k :
          /\ a < k /\ AreDigits(s, p, a)
          /\ a < m => s[a + 1] = "." /\ AreDigits(s, a + 2, m)
          /\ m < k => AreExponent(s, m + 1, k)
    BY ONLY <2>1
  <2>3. a <= d
    BY ONLY <1>2, <2>2, a \in p .. k
  <2>4. ~(a < d)
    <3>1. CASE a < m
      BY ONLY <1>3, <1>4, <2>2, <3>1, a \in p .. k
    <3>2. CASE a = m
      <4>1. s[a + 1] = "e"
        BY ONLY <2>2, <3>2 DEF AreExponent
      <4> QED BY ONLY <1>3, <1>4, <4>1, a \in p .. k
    <3> QED BY ONLY <1>1, <3>1, <3>2, a \in p .. k, m \in a .. k
  <2>5. a = d
    BY ONLY <1>1, <2>3, <2>4, a \in p .. k
  <2> QED BY ONLY <2>2, <2>5, m \in a .. k DEF FloatBehind
<1> QED BY ONLY <1>5, <1>6

LEMMA HexBehind ==
  ASSUME NEW s \in Seq(Characters), NEW p, NEW d, HexTo(s, p, d), NEW k \in p .. Len(s)
  PROVE  /\ AreInteger(s, p, k) => k <= d \/ AreSuffix(s, d + 1, k)
         /\ ~AreFloat(s, p, k)
<1>1. /\ p \in Nat /\ d \in Nat /\ k \in Nat /\ Len(s) \in Nat /\ p >= 1 /\ p + 1 <= d /\ d <= Len(s) /\ p <= k /\ k <= Len(s)
      /\ s[p + 1] = "x" /\ \A i \in p + 2 .. d : s[i] \in HexDigits
      /\ d < Len(s) => s[d + 1] \notin HexDigits
  <2>1. p \in 1 .. Len(s) /\ d \in p .. Len(s) /\ Len(s) \in Nat
    BY ONLY s \in Seq(Characters), HexTo(s, p, d) DEF HexTo
  <2> QED BY <2>1 DEF HexTo, AreHex
<1>2. "x" \notin Digits /\ "u" \notin HexDigits /\ "i" \notin HexDigits
  BY DEF HexDigits, Digits
<1>3. ASSUME NEW m \in p .. k, AreDigits(s, p, m)
      PROVE  m = p
  <2>1. ~(m > p)
    <3>1. m > p => p + 1 \in p .. m
      BY ONLY <1>1, m \in p .. k
    <3> QED BY ONLY <1>1, <1>2, <1>3, <3>1 DEF AreDigits
  <2> QED BY ONLY <1>1, <2>1, m \in p .. k
<1>4. ASSUME AreInteger(s, p, k)
      PROVE  k <= d \/ AreSuffix(s, d + 1, k)
  <2>1. PICK m \in p .. k : (m < k => AreSuffix(s, m + 1, k)) /\ (AreDigits(s, p, m) \/ AreHex(s, p, m))
    BY ONLY <1>4 DEF AreInteger
  <2>2. m < k => s[m + 1] \in {"u", "i"}
    <3> SUFFICES ASSUME m < k PROVE s[m + 1] \in {"u", "i"}
      OBVIOUS
    <3>1. PICK a : a = m + 1
      OBVIOUS
    <3>2. a \in 1 .. Len(s) /\ k \in a .. Len(s)
      BY ONLY <1>1, <3>1, m < k, m \in p .. k
    <3> QED BY ONLY <2>1, <3>1, <3>2, m < k, s \in Seq(Characters), SuffixPlaces
  <2>3. CASE AreDigits(s, p, m)
    <3>1. m = p
      BY <1>3, <2>3
    <3>2. ~(m < k)
      BY ONLY <1>1, <2>2, <3>1
    <3> QED BY ONLY <1>1, <3>1, <3>2, m \in p .. k
  <2>4. CASE AreHex(s, p, m)
    <3>1. p + 1 <= m /\ \A i \in p + 2 .. m : s[i] \in HexDigits
      BY ONLY <2>4 DEF AreHex
    <3>2. ~(d < m)
      <4>1. d < m => d + 1 \in p + 2 .. m /\ d < Len(s)
        BY ONLY <1>1, m \in p .. k
      <4> QED BY ONLY <1>1, <3>1, <4>1
    <3>3. m < d => ~(m < k)
      <4>1. m < d => m + 1 \in p + 2 .. d
        BY ONLY <1>1, <3>1, m \in p .. k
      <4> QED BY ONLY <1>1, <1>2, <2>2, <4>1
    <3>4. m = k \/ m < k
      BY ONLY <1>1, m \in p .. k
    <3>5. m = d \/ m < d
      BY ONLY <1>1, <3>2, m \in p .. k
    <3>6. m = k => k <= d
      BY ONLY <1>1, <3>2, m \in p .. k
    <3> QED BY ONLY <2>1, <3>3, <3>4, <3>5, <3>6
  <2> QED BY <2>1, <2>3, <2>4
<1>5. ASSUME AreFloat(s, p, k)
      PROVE  FALSE
  <2>1. PICK a \in p .. k : \E m \in a .. k :
          /\ a < k /\ AreDigits(s, p, a)
          /\ a < m => s[a + 1] = "." /\ AreDigits(s, a + 2, m)
          /\ m < k => AreExponent(s, m + 1, k)
    BY ONLY <1>5 DEF AreFloat
  <2>2. PICK m \in a .. k :
          /\ a < k /\ AreDigits(s, p, a)
          /\ a < m => s[a + 1] = "." /\ AreDigits(s, a + 2, m)
          /\ m < k => AreExponent(s, m + 1, k)
    BY ONLY <2>1
  <2>3. a = p
    BY ONLY <1>3, <2>2, a \in p .. k
  <2>4. ~(a < m)
    BY ONLY <1>1, <2>2, <2>3
  <2>5. a = m
    BY ONLY <1>1, <2>4, a \in p .. k, m \in a .. k
  <2>6. s[a + 1] = "e"
    BY ONLY <2>2, <2>5 DEF AreExponent
  <2> QED BY ONLY <1>1, <2>3, <2>6
<1> QED BY ONLY <1>4, <1>5

\* The number that ends at c is the longest.
LEMMA NumberToken ==
  ASSUME NEW s \in Seq(Characters), NEW p, Begins(s, p), s[p] \in Digits, NEW c \in p .. Len(s),
         NEW w, w = Cut(s, p, c), NEW t,
         \/ AreInteger(s, p, c) /\ t = Lexeme("int", w) /\ (c < Len(s) => s[c + 1] \notin Alnum)
         \/ ~AreInteger(s, p, c) /\ AreFloat(s, p, c) /\ t = Lexeme("float", w),
         \A k \in c + 1 .. Len(s) : ~AreInteger(s, p, k) /\ ~AreFloat(s, p, k)
  PROVE  TokensFrom(s)[p] = <<TokenAt(t, p)>> \o TokensFrom(s)[c + 1]
<1>1. p \in 1 .. Len(s) /\ Len(s) \in Nat
  BY ONLY s \in Seq(Characters), Begins(s, p) DEF Begins
<1>2. PICK v : v = From(s, p)
  OBVIOUS
<1>3. w \in Seq(Characters) /\ w # <<>>
  BY ONLY <1>1, <1>2, c \in p .. Len(s), s \in Seq(Characters), w = Cut(s, p, c), StringPiece
<1>4. w = SubSeq(s, p, c)
  BY ONLY w = Cut(s, p, c) DEF Cut
<1>5. (Integer(w) <=> AreInteger(s, p, c)) /\ (Float(w) <=> AreFloat(s, p, c))
  BY ONLY <1>1, <1>4, c \in p .. Len(s), s \in Seq(Characters), IntegerPiece, FloatPiece
<1>6. Meaning(w) = t
  BY <1>3, <1>5, MeaningOf
<1>7. t.kind \in {"int", "float"} /\ (t.kind = "int" /\ c < Len(s) => s[c + 1] \notin Alnum)
  BY DEF Lexeme
<1>8. t # Error
  BY ONLY <1>7 DEF Error, Lexeme
<1>9. ASSUME NEW k \in c + 1 .. Len(s)
      PROVE  Meaning(SubSeq(s, p, k)) = Error
  <2>1. k \in p .. Len(s)
    BY ONLY <1>1, k \in c + 1 .. Len(s), c \in p .. Len(s)
  <2>2. PICK u : u = SubSeq(s, p, k)
    OBVIOUS
  <2>3. Meaning(u) # Error <=> AreInteger(s, p, k) \/ AreFloat(s, p, k)
    BY ONLY <1>1, <2>1, <2>2, s \in Seq(Characters), s[p] \in Digits, EndsByFirst
  <2> QED BY <2>2, <2>3
<1>10. t = Meaning(SubSeq(s, p, c))
  BY ONLY <1>4, <1>6
<1> QED BY ONLY <1>7, <1>8, <1>9, <1>10, c \in p .. Len(s), s \in Seq(Characters), Begins(s, p), TokenThere

\* Letters follow the number that are no suffix of it.
LEMMA NumberRefused ==
  ASSUME NEW s \in Seq(Characters), NEW p, Begins(s, p), s[p] \in Digits, NEW c \in p .. Len(s),
         \A k \in p .. c : s[k] \in Alnum,
         \A k \in c .. Len(s) : ~AreInteger(s, p, k), \A k \in p .. Len(s) : ~AreFloat(s, p, k)
  PROVE  TokensFrom(s)[p] = <<TokenAt(Error, p)>>
<1>1. p \in 1 .. Len(s) /\ Len(s) \in Nat
  BY ONLY s \in Seq(Characters), Begins(s, p) DEF Begins
<1>2. Refused(s, p)
  <2>1. CASE Ends(s, p) = {}
    BY <2>1 DEF Refused
  <2>2. CASE Ends(s, p) # {}
    <3>1. PICK j, w : j = Longest(s, p) /\ w = Cut(s, p, j)
      OBVIOUS
    <3>2. j \in p .. Len(s) /\ j \in Ends(s, p)
      BY ONLY <1>1, <2>2, <3>1, LongestIn
    <3>3. w = SubSeq(s, p, j) /\ Meaning(w) # Error
      BY ONLY <3>1, <3>2 DEF Ends, Cut
    <3>4. AreInteger(s, p, j)
      <4>1. Meaning(w) # Error <=> AreInteger(s, p, j) \/ AreFloat(s, p, j)
        BY ONLY <1>1, <3>2, <3>3, s \in Seq(Characters), s[p] \in Digits, EndsByFirst
      <4> QED BY <3>2, <3>3, <4>1
    <3>5. Integer(w)
      BY ONLY <1>1, <3>2, <3>3, <3>4, s \in Seq(Characters), IntegerPiece
    <3>6. LongestMeaning(s, p).kind = "int"
      <4>1. PICK v : v = From(s, p)
        OBVIOUS
      <4>2. w \in Seq(Characters) /\ w # <<>>
        BY ONLY <1>1, <3>1, <3>2, <4>1, s \in Seq(Characters), StringPiece
      <4>3. Meaning(w) = Lexeme("int", w)
        BY ONLY <3>5, <4>2, MeaningOf
      <4>4. LongestMeaning(s, p) = Meaning(w)
        BY ONLY <3>1, <3>3 DEF LongestMeaning
      <4> QED BY <4>3, <4>4 DEF Lexeme
    <3>7. j < c
      <4>1. j \notin c .. Len(s)
        BY <3>4
      <4> QED BY ONLY <1>1, <3>2, <4>1, c \in p .. Len(s)
    <3>8. j + 1 \in p .. c /\ j < Len(s)
      BY ONLY <1>1, <3>2, <3>7, c \in p .. Len(s)
    <3>9. s[j + 1] \in Alnum
      BY <3>8
    <3> QED BY ONLY <3>1, <3>6, <3>8, <3>9 DEF Refused
  <2> QED BY <2>1, <2>2
<1> QED BY ONLY <1>2, s \in Seq(Characters), Begins(s, p), ErrorThere

\* Digits that no letter and no fraction follows are an integer.
LEMMA IntEnds ==
  ASSUME NEW s \in Seq(Characters), NEW p, Begins(s, p), NEW c, NEW w, w = Cut(s, p, c),
         \/ DigitsTo(s, p, c) /\ ~(c + 1 < Len(s) /\ s[c + 1] = "." /\ s[c + 2] \in Digits)
         \/ HexTo(s, p, c),
         c < Len(s) => s[c + 1] \notin Letters
  PROVE  TokensFrom(s)[p] = <<TokenAt(Lexeme("int", w), p)>> \o TokensFrom(s)[c + 1]
<1>1. p \in 1 .. Len(s) /\ Len(s) \in Nat /\ c \in p .. Len(s)
  BY DEF DigitsTo, HexTo
<1>2. s[p] \in Digits
  <2>1. "0" \in Digits /\ p \in p .. c
    BY <1>1 DEF Digits
  <2> QED BY <1>1, <2>1 DEF DigitsTo, HexTo, AreDigits, AreHex
<1>3. c < Len(s) => s[c + 1] \notin Alnum
  BY Classes DEF DigitsTo, HexTo
<1>4. AreInteger(s, p, c)
  <2>1. c \in p .. c /\ ~(c < c) /\ (AreDigits(s, p, c) \/ AreHex(s, p, c))
    BY <1>1 DEF DigitsTo, HexTo
  <2> QED BY ONLY <2>1 DEF AreInteger
<1>5. ASSUME NEW k \in c + 1 .. Len(s)
      PROVE  ~AreInteger(s, p, k) /\ ~AreFloat(s, p, k)
  <2>1. k \in p .. Len(s) /\ k > c /\ c < Len(s) /\ c + 1 \in 1 .. Len(s) /\ k \in c + 1 .. Len(s) /\ ~(k <= c)
    BY ONLY <1>1, k \in c + 1 .. Len(s)
  <2>2. ~AreSuffix(s, c + 1, k)
    <3>1. PICK a : a = c + 1
      OBVIOUS
    <3>2. AreSuffix(s, a, k) => s[a] \in {"u", "i"}
      BY ONLY <2>1, <3>1, s \in Seq(Characters), SuffixPlaces
    <3>3. "u" \in Letters /\ "i" \in Letters
      BY DEF Letters
    <3>4. s[a] \notin Letters
      BY <2>1, <3>1
    <3> QED BY ONLY <3>1, <3>2, <3>3, <3>4
  <2>3. CASE HexTo(s, p, c)
    BY ONLY <2>1, <2>2, <2>3, s \in Seq(Characters), HexBehind
  <2>4. CASE DigitsTo(s, p, c) /\ ~(c + 1 < Len(s) /\ s[c + 1] = "." /\ s[c + 2] \in Digits)
    <3>1. ~FloatBehind(s, c, k)
      <4>1. ASSUME FloatBehind(s, c, k)
            PROVE  FALSE
        <5>1. PICK m \in c .. k : /\ c < m => s[c + 1] = "." /\ AreDigits(s, c + 2, m)
                                  /\ m < k => AreExponent(s, m + 1, k)
          BY ONLY <4>1 DEF FloatBehind
        <5>2. CASE c < m
          <6>1. c + 2 <= m /\ s[c + 2] \in Digits
            <7>1. c + 2 <= m => c + 2 \in c + 2 .. m
              BY ONLY <1>1, <2>1, m \in c .. k
            <7> QED BY ONLY <5>1, <5>2, <7>1 DEF AreDigits
          <6>2. c + 1 < Len(s)
            BY ONLY <1>1, <2>1, <6>1, m \in c .. k
          <6> QED BY ONLY <2>4, <5>1, <5>2, <6>1, <6>2
        <5>3. CASE c = m
          <6>1. s[c + 1] = "e"
            BY ONLY <2>1, <5>1, <5>3 DEF AreExponent
          <6>2. "e" \in Letters
            BY DEF Letters
          <6> QED BY <2>1, <6>1, <6>2
        <5> QED BY ONLY <1>1, <2>1, <5>2, <5>3, m \in c .. k
      <4> QED BY <4>1
    <3> QED BY ONLY <2>1, <2>2, <2>4, <3>1, s \in Seq(Characters), DigitsBehind
  <2> QED BY <2>3, <2>4
<1>6. PICK t : t = Lexeme("int", w)
  OBVIOUS
<1>7. \/ AreInteger(s, p, c) /\ t = Lexeme("int", w) /\ (c < Len(s) => s[c + 1] \notin Alnum)
      \/ ~AreInteger(s, p, c) /\ AreFloat(s, p, c) /\ t = Lexeme("float", w)
  BY ONLY <1>3, <1>4, <1>6
<1>8. TokensFrom(s)[p] = <<TokenAt(t, p)>> \o TokensFrom(s)[c + 1]
  BY ONLY <1>1, <1>2, <1>5, <1>7, s \in Seq(Characters), Begins(s, p), w = Cut(s, p, c), NumberToken
<1> QED BY ONLY <1>6, <1>8

\* Digits behind a dot behind digits.
FractionTo(s, p, a, c) ==
  /\ DigitsTo(s, p, a) /\ a < c /\ a + 1 < Len(s) /\ s[a + 1] = "." /\ s[a + 2] \in Digits
  /\ \A k \in a + 2 .. c : s[k] \in Digits
InsideFraction(s, p, c) == \E a \in p .. c : FractionTo(s, p, a, c)

\* No integer goes beyond digits that a dot or an e follows.
LEMMA NoInteger ==
  ASSUME NEW s \in Seq(Characters), NEW p, NEW a, DigitsTo(s, p, a), s[a + 1] \in {".", "e"},
         NEW k \in p .. Len(s), k > a
  PROVE  ~AreInteger(s, p, k)
<1>1. p \in Nat /\ a \in Nat /\ k \in Nat /\ Len(s) \in Nat /\ p >= 1 /\ p <= a /\ k <= Len(s)
  BY DEF DigitsTo
<1>2. AreInteger(s, p, k) => k <= a \/ AreSuffix(s, a + 1, k)
  BY DigitsBehind
<1>3. PICK b : b = a + 1
  OBVIOUS
<1>4. b \in 1 .. Len(s) /\ k \in b .. Len(s) /\ ~(k <= a)
  BY ONLY <1>1, <1>3, k > a
<1>5. AreSuffix(s, b, k) => s[b] \in {"u", "i"}
  BY ONLY <1>4, s \in Seq(Characters), SuffixPlaces
<1> QED BY ONLY <1>2, <1>3, <1>4, <1>5, s[a + 1] \in {".", "e"}

\* A fraction that no exponent follows.
LEMMA FractionEnds ==
  ASSUME NEW s \in Seq(Characters), NEW p, Begins(s, p), NEW c \in p .. Len(s), NEW w, w = Cut(s, p, c),
         InsideFraction(s, p, c), c < Len(s) => s[c + 1] \notin Digits \cup {"e"}
  PROVE  TokensFrom(s)[p] = <<TokenAt(Lexeme("float", w), p)>> \o TokensFrom(s)[c + 1]
<1>1. PICK a \in p .. c : FractionTo(s, p, a, c)
  BY DEF InsideFraction
<1>2. DigitsTo(s, p, a) /\ a < c /\ a + 1 < Len(s) /\ s[a + 1] = "." /\ s[a + 2] \in Digits
      /\ \A k \in a + 2 .. c : s[k] \in Digits
  BY ONLY <1>1 DEF FractionTo
<1>3. /\ p \in 1 .. Len(s) /\ p \in Nat /\ a \in Nat /\ c \in Nat /\ Len(s) \in Nat
      /\ p <= a /\ c <= Len(s) /\ p <= c /\ AreDigits(s, p, a) /\ c \in p .. Len(s)
  <2>1. p \in 1 .. Len(s) /\ a \in p .. Len(s) /\ AreDigits(s, p, a)
    BY ONLY <1>2 DEF DigitsTo
  <2> QED BY ONLY <2>1, s \in Seq(Characters), c \in p .. Len(s)
<1>4. a + 2 <= c
  <2>1. c # a + 1
    BY ONLY <1>2, c < Len(s) => s[c + 1] \notin Digits \cup {"e"}, <1>3
  <2> QED BY ONLY <1>2, <1>3, <2>1
<1>5. "." \notin Digits /\ "e" \notin Digits
  BY DEF Digits
<1>6. s[p] \in Digits
  BY ONLY <1>3 DEF AreDigits
<1>7. ~AreInteger(s, p, c)
  BY ONLY <1>2, <1>3, s \in Seq(Characters), NoInteger
<1>8. AreFloat(s, p, c)
  <2>1. a \in p .. c /\ c \in a .. c /\ a < c /\ ~(c < c)
    BY ONLY <1>2, <1>3
  <2>2. AreDigits(s, a + 2, c)
    BY ONLY <1>2, <1>4 DEF AreDigits
  <2> QED BY ONLY <1>2, <1>3, <2>1, <2>2 DEF AreFloat
<1>9. ASSUME NEW k \in c + 1 .. Len(s)
      PROVE  ~AreInteger(s, p, k) /\ ~AreFloat(s, p, k)
  <2>1. k \in Nat /\ k \in p .. Len(s) /\ k > c /\ k > a /\ c < Len(s) /\ k <= Len(s)
    BY ONLY <1>2, <1>3, k \in c + 1 .. Len(s)
  <2>2. s[c + 1] \notin Digits \cup {"e"}
    BY ONLY <2>1, c < Len(s) => s[c + 1] \notin Digits \cup {"e"}
  <2>3. ~AreInteger(s, p, k)
    BY ONLY <1>2, <2>1, s \in Seq(Characters), NoInteger
  <2>4. ~FloatBehind(s, a, k)
    <3>1. ASSUME FloatBehind(s, a, k)
          PROVE  FALSE
      <4>1. PICK m \in a .. k : /\ a < m => s[a + 1] = "." /\ AreDigits(s, a + 2, m)
                                /\ m < k => AreExponent(s, m + 1, k)
        BY ONLY <3>1 DEF FloatBehind
      <4>2. m < k => s[m + 1] = "e"
        BY ONLY <4>1 DEF AreExponent
      <4>3. a < m
        <5>1. a = m => m < k
          BY ONLY <2>1
        <5>2. a # m
          BY ONLY <1>2, <4>2, <5>1
        <5> QED BY ONLY <1>3, <2>1, <5>2, m \in a .. k
      <4>4. \A i \in a + 2 .. m : s[i] \in Digits
        BY ONLY <4>1, <4>3 DEF AreDigits
      <4>5. m <= c
        <5>1. m > c => c + 1 \in a + 2 .. m
          BY ONLY <1>3, <1>4, m \in a .. k, <2>1
        <5>2. ~(m > c)
          BY ONLY <2>2, <4>4, <5>1
        <5> QED BY ONLY <1>3, <2>1, <5>2, m \in a .. k
      <4>6. m < k
        BY ONLY <1>3, <2>1, <4>5, m \in a .. k
      <4>7. m # c
        BY ONLY <2>2, <4>2, <4>6
      <4>8. m + 1 \in a + 2 .. c
        BY ONLY <1>3, <2>1, <4>3, <4>5, <4>7, m \in a .. k
      <4> QED BY ONLY <1>2, <1>5, <4>2, <4>6, <4>8
    <3> QED BY <3>1
  <2>5. AreFloat(s, p, k) => FloatBehind(s, a, k)
    BY ONLY <1>2, <2>1, s \in Seq(Characters), DigitsBehind
  <2> QED BY ONLY <2>3, <2>4, <2>5
<1>10. PICK t : t = Lexeme("float", w)
  OBVIOUS
<1>11. \/ AreInteger(s, p, c) /\ t = Lexeme("int", w) /\ (c < Len(s) => s[c + 1] \notin Alnum)
       \/ ~AreInteger(s, p, c) /\ AreFloat(s, p, c) /\ t = Lexeme("float", w)
  BY ONLY <1>7, <1>8, <1>10
<1>12. TokensFrom(s)[p] = <<TokenAt(t, p)>> \o TokensFrom(s)[c + 1]
  BY ONLY <1>3, <1>6, <1>9, <1>11, s \in Seq(Characters), Begins(s, p), w = Cut(s, p, c), NumberToken
<1> QED BY ONLY <1>10, <1>12

\* An exponent behind digits or a fraction.
ExponentTo(s, p, a, m, c) ==
  /\ DigitsTo(s, p, a) /\ m < c
  /\ a < m => s[a + 1] = "." /\ AreDigits(s, a + 2, m)
  /\ AreExponent(s, m + 1, c)
  /\ c = m + 1 /\ c < Len(s) => s[c + 1] # "-"
InsideExponent(s, p, c) == \E a \in p .. c : \E m \in a .. c : ExponentTo(s, p, a, m, c)

LEMMA ExponentEnds ==
  ASSUME NEW s \in Seq(Characters), NEW p, Begins(s, p), NEW c \in p .. Len(s), NEW w, w = Cut(s, p, c),
         InsideExponent(s, p, c), c < Len(s) => s[c + 1] \notin Digits
  PROVE  TokensFrom(s)[p] = <<TokenAt(Lexeme("float", w), p)>> \o TokensFrom(s)[c + 1]
<1>1. PICK a \in p .. c : \E m \in a .. c : ExponentTo(s, p, a, m, c)
  BY DEF InsideExponent
<1>2. PICK n \in a .. c : ExponentTo(s, p, a, n, c)
  BY ONLY <1>1
<1>3. /\ DigitsTo(s, p, a) /\ n < c
      /\ a < n => s[a + 1] = "." /\ AreDigits(s, a + 2, n)
      /\ AreExponent(s, n + 1, c)
      /\ c = n + 1 /\ c < Len(s) => s[c + 1] # "-"
  BY ONLY <1>2 DEF ExponentTo
<1>4. /\ p \in 1 .. Len(s) /\ p \in Nat /\ a \in Nat /\ n \in Nat /\ c \in Nat /\ Len(s) \in Nat
      /\ p <= a /\ a <= n /\ n < c /\ a < c /\ c <= Len(s) /\ p <= c /\ AreDigits(s, p, a) /\ c \in p .. Len(s)
  <2>1. p \in 1 .. Len(s) /\ a \in p .. Len(s) /\ AreDigits(s, p, a)
    BY ONLY <1>3 DEF DigitsTo
  <2> QED BY ONLY <1>3, <2>1, s \in Seq(Characters), c \in p .. Len(s), n \in a .. c
<1>5. "." \notin Digits /\ "e" \notin Digits
  BY DEF Digits
<1>6. s[p] \in Digits
  BY ONLY <1>4 DEF AreDigits
<1>7. s[n + 1] = "e"
  BY ONLY <1>3 DEF AreExponent
<1>8. s[a + 1] \in {".", "e"}
  <2>1. a = n \/ a < n
    BY ONLY <1>4
  <2> QED BY ONLY <1>3, <1>7, <2>1
<1>9. ~AreInteger(s, p, c)
  BY ONLY <1>3, <1>4, <1>8, s \in Seq(Characters), NoInteger
<1>10. AreFloat(s, p, c)
  <2>1. a \in p .. c /\ n \in a .. c /\ a < c
    BY ONLY <1>4
  <2> QED BY ONLY <1>3, <1>4, <2>1 DEF AreFloat
<1>11. ASSUME NEW k \in c + 1 .. Len(s)
       PROVE  ~AreInteger(s, p, k) /\ ~AreFloat(s, p, k)
  <2>1. k \in Nat /\ k \in p .. Len(s) /\ k > c /\ k > a /\ c < Len(s) /\ k <= Len(s)
    BY ONLY <1>4, k \in c + 1 .. Len(s)
  <2>2. s[c + 1] \notin Digits
    BY ONLY <2>1, c < Len(s) => s[c + 1] \notin Digits
  <2>3. ~AreInteger(s, p, k)
    BY ONLY <1>3, <1>8, <2>1, s \in Seq(Characters), NoInteger
  <2>4. ~AreExponent(s, n + 1, k)
    <3>1. ASSUME AreExponent(s, n + 1, k)
          PROVE  FALSE
      <4>1. PICK b : b = n + 1
        OBVIOUS
      <4>2. /\ b < k /\ s[b + 1] = "-" => \A i \in b + 2 .. k : s[i] \in Digits
            /\ ~(b < k /\ s[b + 1] = "-") => \A i \in b + 1 .. k : s[i] \in Digits
        BY ONLY <3>1, <4>1 DEF AreExponent
      <4>3. c + 1 \in b + 1 .. k /\ b < k
        BY ONLY <1>4, <2>1, <4>1
      <4>4. s[b + 1] = "-"
        BY ONLY <2>2, <4>2, <4>3
      <4>5. c # b
        BY ONLY <1>3, <2>1, <4>1, <4>4
      <4>6. c + 1 \in b + 2 .. k
        BY ONLY <1>4, <2>1, <4>1, <4>5
      <4> QED BY ONLY <2>2, <4>2, <4>3, <4>4, <4>6
    <3> QED BY <3>1
  <2>5. ~FloatBehind(s, a, k)
    <3>1. ASSUME FloatBehind(s, a, k)
          PROVE  FALSE
      <4>1. PICK m \in a .. k : /\ a < m => s[a + 1] = "." /\ AreDigits(s, a + 2, m)
                                /\ m < k => AreExponent(s, m + 1, k)
        BY ONLY <3>1 DEF FloatBehind
      <4>2. m < k => s[m + 1] = "e"
        BY ONLY <4>1 DEF AreExponent
      <4>3. m # n
        BY ONLY <1>4, <2>1, <2>4, <4>1
      <4>4. CASE a = m
        <5>1. a < n
          BY ONLY <1>4, <4>3, <4>4
        <5>2. s[a + 1] = "e"
          BY ONLY <2>1, <4>2, <4>4
        <5> QED BY ONLY <1>3, <5>1, <5>2
      <4>5. CASE a < m
        <5>1. s[a + 1] = "." /\ \A i \in a + 2 .. m : s[i] \in Digits
          BY ONLY <4>1, <4>5 DEF AreDigits
        <5>2. a # n
          BY ONLY <1>7, <5>1
        <5>3. \A i \in a + 2 .. n : s[i] \in Digits
          BY ONLY <1>3, <1>4, <5>2 DEF AreDigits
        <5>4. ~(n < m)
          <6>1. n < m => n + 1 \in a + 2 .. m
            BY ONLY <1>4, <2>1, <5>2, m \in a .. k
          <6> QED BY ONLY <1>5, <1>7, <5>1, <6>1
        <5>5. m < n
          BY ONLY <1>4, <2>1, <4>3, <5>4, m \in a .. k
        <5>6. m + 1 \in a + 2 .. n /\ m < k
          BY ONLY <1>4, <2>1, <4>5, <5>5, m \in a .. k
        <5> QED BY ONLY <1>5, <4>2, <5>3, <5>6
      <4> QED BY ONLY <1>4, <2>1, <4>4, <4>5, m \in a .. k
    <3> QED BY <3>1
  <2>6. AreFloat(s, p, k) => FloatBehind(s, a, k)
    BY ONLY <1>3, <2>1, s \in Seq(Characters), DigitsBehind
  <2> QED BY ONLY <2>3, <2>5, <2>6
<1>12. PICK t : t = Lexeme("float", w)
  OBVIOUS
<1>13. \/ AreInteger(s, p, c) /\ t = Lexeme("int", w) /\ (c < Len(s) => s[c + 1] \notin Alnum)
       \/ ~AreInteger(s, p, c) /\ AreFloat(s, p, c) /\ t = Lexeme("float", w)
  BY ONLY <1>9, <1>10, <1>12
<1>14. TokensFrom(s)[p] = <<TokenAt(t, p)>> \o TokensFrom(s)[c + 1]
  BY ONLY <1>4, <1>6, <1>11, <1>13, s \in Seq(Characters), Begins(s, p), w = Cut(s, p, c), NumberToken, SMTT(30)
<1> QED BY ONLY <1>12, <1>14

\* Letters and digits behind an integer.
SuffixTo(s, p, m, c) ==
  /\ m < c
  /\ (DigitsTo(s, p, m) /\ s[m + 1] # "e") \/ HexTo(s, p, m)
  /\ s[m + 1] \in Letters /\ \A k \in m + 1 .. c : s[k] \in Alnum
InsideSuffix(s, p, c) == \E m \in p .. c : SuffixTo(s, p, m, c)

\* They are its suffix or an error.
LEMMA SuffixEnds ==
  ASSUME NEW s \in Seq(Characters), NEW p, Begins(s, p), NEW c \in p .. Len(s), NEW w, w = Cut(s, p, c),
         InsideSuffix(s, p, c), c < Len(s) => s[c + 1] \notin Alnum
  PROVE  /\ Integer(w) => TokensFrom(s)[p] = <<TokenAt(Lexeme("int", w), p)>> \o TokensFrom(s)[c + 1]
         /\ ~Integer(w) => TokensFrom(s)[p] = <<TokenAt(Error, p)>>
<1>1. PICK m \in p .. c : SuffixTo(s, p, m, c)
  BY DEF InsideSuffix
<1>2. /\ m < c /\ s[m + 1] \in Letters /\ \A k \in m + 1 .. c : s[k] \in Alnum
      /\ (DigitsTo(s, p, m) /\ s[m + 1] # "e") \/ HexTo(s, p, m)
  BY ONLY <1>1 DEF SuffixTo
<1>3. p \in 1 .. Len(s) /\ p \in Nat /\ m \in Nat /\ c \in Nat /\ Len(s) \in Nat /\ p <= m /\ c <= Len(s)
      /\ c \in p .. Len(s)
  <2>1. p \in 1 .. Len(s) /\ m \in p .. Len(s)
    BY ONLY <1>2 DEF DigitsTo, HexTo
  <2> QED BY ONLY <2>1, s \in Seq(Characters), c \in p .. Len(s)
<1>4. Digits \subseteq Alnum /\ HexDigits \subseteq Alnum /\ "x" \in Alnum /\ "0" \in Digits
      /\ "." \notin Letters
  BY DEF Alnum, Letters, Digits, HexDigits
<1>5. /\ \A k \in p .. m : s[k] \in Alnum
      /\ s[p] \in Digits
  <2>1. CASE DigitsTo(s, p, m)
    <3>1. p \in p .. m
      BY ONLY <1>3
    <3> QED BY ONLY <1>4, <2>1, <3>1 DEF DigitsTo, AreDigits
  <2>2. CASE HexTo(s, p, m)
    <3>1. s[p] = "0" /\ s[p + 1] = "x" /\ \A k \in p + 2 .. m : s[k] \in HexDigits
      BY ONLY <2>2 DEF HexTo, AreHex
    <3>2. \A k \in p .. m : k = p \/ k = p + 1 \/ k \in p + 2 .. m
      BY ONLY <1>3
    <3> QED BY ONLY <1>4, <3>1, <3>2
  <2> QED BY ONLY <1>2, <2>1, <2>2
<1>6. \A k \in p .. c : s[k] \in Alnum
  <2>1. \A k \in p .. c : k \in p .. m \/ k \in m + 1 .. c
    BY ONLY <1>3
  <2> QED BY ONLY <1>2, <1>5, <2>1
<1>7. ASSUME NEW k \in p .. Len(s)
      PROVE  ~AreFloat(s, p, k)
  <2>1. CASE HexTo(s, p, m)
    BY ONLY <2>1, k \in p .. Len(s), s \in Seq(Characters), HexBehind
  <2>2. CASE DigitsTo(s, p, m) /\ s[m + 1] # "e"
    <3>1. ASSUME FloatBehind(s, m, k), m < k
          PROVE  FALSE
      <4>1. PICK n \in m .. k : /\ m < n => s[m + 1] = "." /\ AreDigits(s, m + 2, n)
                                /\ n < k => AreExponent(s, n + 1, k)
        BY ONLY <3>1 DEF FloatBehind
      <4>2. n < k => s[n + 1] = "e"
        BY ONLY <4>1 DEF AreExponent
      <4>3. n # m
        BY ONLY <2>2, <3>1, <4>2
      <4>4. m < n
        BY ONLY <1>3, <4>3, n \in m .. k, k \in p .. Len(s)
      <4> QED BY ONLY <1>2, <1>4, <4>1, <4>4
    <3>2. AreFloat(s, p, k) => m < k /\ FloatBehind(s, m, k)
      BY ONLY <2>2, k \in p .. Len(s), s \in Seq(Characters), DigitsBehind
    <3> QED BY <3>1, <3>2
  <2> QED BY ONLY <1>2, <2>1, <2>2
<1>8. ASSUME NEW k \in c + 1 .. Len(s)
      PROVE  ~AreInteger(s, p, k)
  <2>1. k \in Nat /\ k \in p .. Len(s) /\ k > c /\ ~(k <= m) /\ c < Len(s) /\ k <= Len(s)
    BY ONLY <1>2, <1>3, k \in c + 1 .. Len(s)
  <2>2. AreInteger(s, p, k) => k <= m \/ AreSuffix(s, m + 1, k)
    BY ONLY <1>2, <2>1, s \in Seq(Characters), DigitsBehind, HexBehind
  <2>3. ~AreSuffix(s, m + 1, k)
    <3>1. PICK b : b = m + 1
      OBVIOUS
    <3>2. b \in 1 .. Len(s) /\ k \in b .. Len(s) /\ c + 1 \in b .. k
      BY ONLY <1>2, <1>3, <2>1, <3>1
    <3>3. AreSuffix(s, b, k) => s[c + 1] \in {"u", "i", "8"}
      BY ONLY <3>2, s \in Seq(Characters), SuffixPlaces
    <3>4. {"u", "i", "8"} \subseteq Alnum
      BY DEF Alnum, Letters, Digits
    <3> QED BY ONLY <2>1, <3>1, <3>3, <3>4, c < Len(s) => s[c + 1] \notin Alnum
  <2> QED BY ONLY <2>1, <2>2, <2>3
<1>9. Integer(w) <=> AreInteger(s, p, c)
  <2>1. w = SubSeq(s, p, c)
    BY ONLY w = Cut(s, p, c) DEF Cut
  <2> QED BY ONLY <1>3, <2>1, s \in Seq(Characters), IntegerPiece
<1>10. ASSUME Integer(w)
       PROVE  TokensFrom(s)[p] = <<TokenAt(Lexeme("int", w), p)>> \o TokensFrom(s)[c + 1]
  <2>1. PICK t : t = Lexeme("int", w)
    OBVIOUS
  <2>2. \/ AreInteger(s, p, c) /\ t = Lexeme("int", w) /\ (c < Len(s) => s[c + 1] \notin Alnum)
        \/ ~AreInteger(s, p, c) /\ AreFloat(s, p, c) /\ t = Lexeme("float", w)
    BY ONLY <1>9, <1>10, <2>1, c < Len(s) => s[c + 1] \notin Alnum
  <2>3. \A k \in c + 1 .. Len(s) : ~AreInteger(s, p, k) /\ ~AreFloat(s, p, k)
    <3>1. \A k \in c + 1 .. Len(s) : k \in p .. Len(s)
      BY ONLY <1>3
    <3> QED BY ONLY <1>7, <1>8, <3>1
  <2>4. s[p] \in Digits /\ c \in p .. Len(s)
    BY ONLY <1>3, <1>5
  <2>5. TokensFrom(s)[p] = <<TokenAt(t, p)>> \o TokensFrom(s)[c + 1]
    BY ONLY <2>2, <2>3, <2>4, s \in Seq(Characters), Begins(s, p), w = Cut(s, p, c), NumberToken
  <2> QED BY ONLY <2>1, <2>5
<1>11. ASSUME ~Integer(w)
       PROVE  TokensFrom(s)[p] = <<TokenAt(Error, p)>>
  <2>1. \A k \in c .. Len(s) : ~AreInteger(s, p, k)
    <3>1. \A k \in c .. Len(s) : k = c \/ k \in c + 1 .. Len(s)
      BY ONLY <1>3
    <3> QED BY ONLY <1>8, <1>9, <1>11, <3>1
  <2> QED BY ONLY <1>3, <1>5, <1>6, <1>7, <2>1, s \in Seq(Characters), Begins(s, p), NumberRefused
<1> QED BY <1>10, <1>11

-----------------------------------------------------------------------------
(* Blanks and comments *)

\* The text is inside the comment that begins at p, d deep.
InsideComment(s, p, c, d) ==
  /\ p \in 1 .. Len(s) /\ Pair(s, p) = Opening /\ c \in Nat /\ d \in Nat \ {0}
  /\ CommentEnds(s)[p + 2][1] = CommentEnds(s)[c + 1][d]

\* What follows a blank is what follows behind it, and the text ends at its end.
LEMMA BlankAway ==
  ASSUME NEW s \in Seq(Characters), NEW c \in Nat
  PROVE  /\ c < Len(s) /\ s[c + 1] \in Spaces => TokensFrom(s)[c + 1] = TokensFrom(s)[c + 2]
         /\ c >= Len(s) => TokensFrom(s)[c + 1] = <<TokenAt(End, c + 1)>>
<1>1. PICK F, i : F = TokensFrom(s) /\ i = c + 1
  OBVIOUS
<1>2. i \in Nat /\ Len(s) \in Nat /\ i + 1 = c + 2 /\ (c < Len(s) <=> ~(i > Len(s)))
  BY <1>1
<1>3. F[i] = FromStep(s, F, i)
  BY <1>1, <1>2, FromTurns
<1>4. c >= Len(s) <=> ~(c < Len(s))
  BY <1>2
<1> QED BY ONLY <1>1, <1>2, <1>3, <1>4 DEF FromStep

\* One turn inside a comment.
LEMMA CommentTurn ==
  ASSUME NEW s \in Seq(Characters), NEW p, NEW c, NEW d, InsideComment(s, p, c, d), c < Len(s)
  PROVE  /\ Pair(s, c + 1) = Opening => InsideComment(s, p, c + 2, d + 1)
         /\ Pair(s, c + 1) = Closing /\ d # 1 => InsideComment(s, p, c + 2, d - 1)
         /\ Pair(s, c + 1) = Closing /\ d = 1 => CommentEnds(s)[p + 2][1] = c + 3
         /\ Pair(s, c + 1) \notin {Opening, Closing} => InsideComment(s, p, c + 1, d)
<1>1. PICK E, j : E = CommentEnds(s) /\ j = c + 1
  OBVIOUS
<1>2. /\ p \in 1 .. Len(s) /\ Pair(s, p) = Opening /\ c \in Nat /\ d \in Nat \ {0}
      /\ E[p + 2][1] = E[j][d]
  BY ONLY <1>1, InsideComment(s, p, c, d) DEF InsideComment
<1>3. j \in Nat /\ Len(s) \in Nat /\ d \in Nat /\ ~(j > Len(s)) /\ d # 0 /\ j + 2 = (c + 2) + 1 /\ j + 1 = (c + 1) + 1
  BY <1>1, <1>2
<1>4. \A k, e \in Nat : E[k][e] = EndStep(s, E, k, e)
  BY ONLY <1>1, <1>3, EndTurns
<1>5. E[j][d] = EndStep(s, E, j, d)
  BY ONLY <1>3, <1>4
<1>6. Opening # Closing
  BY DEF Opening, Closing
<1>7. CASE Pair(s, j) = Opening
  <2>1. E[p + 2][1] = E[j + 2][d + 1]
    BY ONLY <1>2, <1>3, <1>5, <1>7 DEF EndStep
  <2>2. c + 2 \in Nat /\ d + 1 \in Nat \ {0}
    BY ONLY <1>2
  <2>3. InsideComment(s, p, c + 2, d + 1)
    BY ONLY <1>1, <1>2, <1>3, <2>1, <2>2 DEF InsideComment
  <2> QED BY ONLY <1>1, <1>6, <1>7, <2>3
<1>8. CASE Pair(s, j) = Closing
  <2>1. E[p + 2][1] = E[j + 2][d - 1]
    BY ONLY <1>2, <1>3, <1>5, <1>6, <1>8 DEF EndStep
  <2>2. c + 2 \in Nat /\ (d # 1 => d - 1 \in Nat \ {0})
    BY ONLY <1>2
  <2>3. d # 1 => InsideComment(s, p, c + 2, d - 1)
    BY ONLY <1>1, <1>2, <1>3, <2>1, <2>2 DEF InsideComment
  <2>4. d = 1 => E[p + 2][1] = c + 3
    <3>1. PICK k, z : k = c + 3 /\ z = 0
      OBVIOUS
    <3>2. k \in Nat /\ z \in Nat /\ k = j + 2 /\ (d = 1 => d - 1 = z)
      BY ONLY <1>1, <1>2, <3>1
    <3>3. E[k][z] = k
      BY ONLY <1>4, <3>1, <3>2 DEF EndStep
    <3> QED BY ONLY <2>1, <3>1, <3>2, <3>3
  <2> QED BY ONLY <1>1, <1>6, <1>8, <2>3, <2>4
<1>9. CASE Pair(s, j) \notin {Opening, Closing}
  <2>1. E[p + 2][1] = E[j + 1][d]
    BY ONLY <1>2, <1>3, <1>5, <1>9 DEF EndStep
  <2>2. c + 1 \in Nat
    BY ONLY <1>2
  <2>3. InsideComment(s, p, c + 1, d)
    BY ONLY <1>1, <1>2, <1>3, <2>1, <2>2 DEF InsideComment
  <2> QED BY ONLY <1>1, <1>9, <2>3
<1> QED BY <1>7, <1>8, <1>9

\* What a comment stands for: what follows it, or an error if it does not end.
LEMMA CommentOver ==
  ASSUME NEW s \in Seq(Characters), NEW p, NEW c, NEW d, InsideComment(s, p, c, d)
  PROVE  /\ c < Len(s) /\ Pair(s, c + 1) = Closing /\ d = 1 => TokensFrom(s)[p] = TokensFrom(s)[c + 3]
         /\ c >= Len(s) => TokensFrom(s)[p] = <<TokenAt(Error, p)>>
<1>1. PICK F, E : F = TokensFrom(s) /\ E = CommentEnds(s)
  OBVIOUS
<1>2. /\ p \in 1 .. Len(s) /\ Pair(s, p) = Opening /\ c \in Nat /\ d \in Nat \ {0}
      /\ E[p + 2][1] = E[c + 1][d]
  BY ONLY <1>1, InsideComment(s, p, c, d) DEF InsideComment
<1>3. p \in Nat /\ Len(s) \in Nat /\ ~(p > Len(s))
  BY <1>2
<1>4. s[p] \notin Spaces
  <2>1. s[p] = "("
    BY ONLY <1>2 DEF Pair, Opening
  <2> QED BY <2>1 DEF Spaces
<1>5. F[p] = IF E[p + 2][1] = 0 THEN <<TokenAt(Error, p)>> ELSE F[E[p + 2][1]]
  <2>1. F[p] = FromStep(s, F, p)
    BY ONLY <1>1, <1>3, FromTurns
  <2> QED BY ONLY <1>1, <1>2, <1>3, <1>4, <2>1 DEF FromStep
<1>6. ASSUME c < Len(s), Pair(s, c + 1) = Closing, d = 1
      PROVE  F[p] = F[c + 3]
  <2>1. E[p + 2][1] = c + 3
    BY ONLY <1>1, <1>6, s \in Seq(Characters), InsideComment(s, p, c, d), CommentTurn
  <2>2. c + 3 # 0
    BY ONLY <1>2
  <2> QED BY ONLY <1>5, <2>1, <2>2
<1>7. ASSUME c >= Len(s)
      PROVE  F[p] = <<TokenAt(Error, p)>>
  <2>1. PICK j : j = c + 1
    OBVIOUS
  <2>2. j \in Nat /\ d \in Nat /\ d # 0 /\ j > Len(s)
    BY ONLY <1>2, <1>3, <1>7, <2>1
  <2>3. E[j][d] = EndStep(s, E, j, d)
    BY ONLY <1>1, <1>3, <2>2, EndTurns
  <2>4. E[j][d] = 0
    BY ONLY <2>2, <2>3 DEF EndStep
  <2> QED BY ONLY <1>2, <1>5, <2>1, <2>4
<1> QED BY ONLY <1>1, <1>6, <1>7

-----------------------------------------------------------------------------
(* The tokens that are still owed *)

\* What the text stands for from a place on is a sequence.
LEMMA FromSequence ==
  ASSUME NEW s, Len(s) \in Nat, NEW i \in Nat
  PROVE  Sequence(TokensFrom(s)[i])
<1>1. PICK F : F = TokensFrom(s)
  OBVIOUS
<1> DEFINE Good(n) == Sequence(F[n])
           Bad == {n \in Nat : ~Good(n)}
<1>2. \A n \in Nat : F[n] = FromStep(s, F, n)
  BY <1>1, FromTurns
<1>3. \A x : Sequence(<<x>>)
  <2> SUFFICES ASSUME NEW x PROVE Sequence(<<x>>)
    OBVIOUS
  <2>1. <<x>> \in Seq({x})
    OBVIOUS
  <2> QED BY <2>1 DEF Sequence
<1>4. ASSUME NEW n \in Nat, \A m \in Nat : m > n => Good(m)
      PROVE  Good(n)
  <2>1. F[n] = FromStep(s, F, n)
    BY <1>2
  <2>2. CASE n > Len(s)
    BY ONLY <1>3, <2>1, <2>2 DEF FromStep
  <2>3. CASE n <= Len(s) /\ s[n] \in Spaces
    <3>1. F[n] = F[n + 1]
      BY <2>1, <2>3 DEF FromStep
    <3>2. Good(n + 1)
      BY <1>4
    <3> QED BY <3>1, <3>2
  <2>4. CASE n <= Len(s) /\ s[n] \notin Spaces /\ Pair(s, n) = Opening
    <3>1. PICK e : e = CommentEnds(s)[n + 2][1]
      OBVIOUS
    <3>2. e \in Nat /\ (e = 0 \/ e >= n + 2)
      BY <3>1, CommentAhead
    <3>3. F[n] = IF e = 0 THEN <<TokenAt(Error, n)>> ELSE F[e]
      BY <2>1, <2>4, <3>1 DEF FromStep
    <3>4. e # 0 => Good(e)
      BY <1>4, <3>2
    <3> QED BY <1>3, <3>3, <3>4
  <2>5. CASE n <= Len(s) /\ s[n] \notin Spaces /\ Pair(s, n) # Opening
    <3>1. CASE Refused(s, n)
      BY <1>3, <2>1, <2>5, <3>1 DEF FromStep
    <3>2. CASE ~Refused(s, n)
      <4>1. PICK j : j = Longest(s, n)
        OBVIOUS
      <4>2. j \in n .. Len(s)
        BY <3>2, <4>1, LongestIn DEF Refused
      <4>3. j + 1 \in Nat /\ j + 1 > n
        BY <4>2
      <4>4. Good(j + 1)
        BY <1>4, <4>3
      <4>5. F[n] = <<TokenAt(LongestMeaning(s, n), n)>> \o F[j + 1]
        BY <2>1, <2>5, <3>2, <4>1 DEF FromStep
      <4>6. PICK x, f : x = TokenAt(LongestMeaning(s, n), n) /\ f = F[j + 1]
        OBVIOUS
      <4>7. PICK S : f \in Seq(S)
        BY <4>4, <4>6 DEF Sequence
      <4>8. <<x>> \in Seq(S \cup {x}) /\ f \in Seq(S \cup {x})
        BY <4>7
      <4>9. <<x>> \o f \in Seq(S \cup {x})
        BY ONLY <4>8, ConcatProperties
      <4> QED BY ONLY <4>5, <4>6, <4>9 DEF Sequence
    <3> QED BY <3>1, <3>2
  <2> QED BY <2>2, <2>3, <2>4, <2>5
<1>5. \A n \in Nat : n > Len(s) => Good(n)
  BY <1>2, <1>3 DEF FromStep
<1> HIDE DEF Good
<1>6. CASE Bad = {}
  <2>1. Good(i)
    BY <1>6
  <2> QED BY <1>1, <2>1 DEF Good
<1>7. CASE Bad # {}
  <2>1. \A n \in Bad : n <= Len(s)
    BY <1>5
  <2>2. PICK m \in Bad : \A n \in Bad : n <= m
    BY <1>7, <2>1, Greatest
  <2>3. \A n \in Nat : n > m => Good(n)
    BY <2>2
  <2>4. Good(m)
    BY <1>4, <2>3
  <2> QED BY <2>4
<1> QED BY <1>6, <1>7

\* The tokens given are the first of the text.
Agree(s, toks) ==
  /\ Sequence(toks) /\ Len(toks) <= Len(TokensFrom(s)[1])
  /\ \A n \in 1 .. Len(toks) : /\ toks[n].lexeme = TokensFrom(s)[1][n].lexeme
                               /\ toks[n].first = TokensFrom(s)[1][n].first

\* The rest are those of the text from p on.
Owed(s, toks, p) ==
  /\ p \in Nat /\ Agree(s, toks)
  /\ Len(TokensFrom(s)[1]) = Len(toks) + Len(TokensFrom(s)[p])
  /\ \A k \in 1 .. Len(TokensFrom(s)[p]) : TokensFrom(s)[1][Len(toks) + k] = TokensFrom(s)[p][k]

\* The last that was given is the end of the text.
Complete(s, toks) == Agree(s, toks) /\ toks # <<>> /\ toks[Len(toks)].lexeme = End

\* The lengths of what is owed.
LEMMA OwedLengths ==
  ASSUME NEW s \in Seq(Characters), NEW toks, NEW p, Owed(s, toks, p)
  PROVE  p \in Nat /\ Len(toks) \in Nat /\ Len(TokensFrom(s)[1]) \in Nat /\ Len(TokensFrom(s)[p]) \in Nat
         /\ Sequence(toks)
<1>1. p \in Nat /\ Sequence(toks) /\ Len(s) \in Nat
  BY DEF Owed, Agree
<1>2. Sequence(TokensFrom(s)[1]) /\ Sequence(TokensFrom(s)[p])
  BY <1>1, FromSequence
<1> QED BY <1>1, <1>2 DEF Sequence

\* Nothing is owed twice: a token that is given is the first that was owed.
LEMMA Deliver ==
  ASSUME NEW s \in Seq(Characters), NEW toks, NEW p, Owed(s, toks, p), NEW t, NEW q \in Nat,
         TokensFrom(s)[p] = <<TokenAt(t, p)>> \o TokensFrom(s)[q],
         NEW tok, tok.lexeme = t, tok.first = p
  PROVE  Owed(s, Append(toks, tok), q)
<1>1. PICK all, rest, on, x, n : /\ all = TokensFrom(s)[1] /\ rest = TokensFrom(s)[p] /\ on = TokensFrom(s)[q]
                                 /\ x = TokenAt(t, p) /\ n = Len(toks)
  OBVIOUS
<1>2. p \in Nat /\ n \in Nat /\ Len(all) \in Nat /\ Len(rest) \in Nat /\ Sequence(toks)
  BY <1>1, OwedLengths
<1>3. /\ Len(all) = n + Len(rest)
      /\ \A k \in 1 .. Len(rest) : all[n + k] = rest[k]
      /\ \A k \in 1 .. n : toks[k].lexeme = all[k].lexeme /\ toks[k].first = all[k].first
  BY ONLY <1>1, Owed(s, toks, p) DEF Owed, Agree
<1>4. /\ Len(on) \in Nat /\ Len(rest) = Len(on) + 1
      /\ rest[1] = x /\ \A k \in 1 .. Len(on) : rest[k + 1] = on[k]
  <2>1. Sequence(on)
    <3>1. Len(s) \in Nat
      OBVIOUS
    <3> QED BY ONLY <1>1, <3>1, q \in Nat, FromSequence
  <2>2. PICK S : on \in Seq(S)
    BY ONLY <2>1 DEF Sequence
  <2>3. PICK T : T = S \cup {x}
    OBVIOUS
  <2>4. <<x>> \in Seq(T) /\ on \in Seq(T) /\ Len(<<x>>) = 1 /\ <<x>>[1] = x /\ Len(on) \in Nat
    BY ONLY <2>2, <2>3
  <2>5. rest = <<x>> \o on
    BY ONLY <1>1, TokensFrom(s)[p] = <<TokenAt(t, p)>> \o TokensFrom(s)[q]
  <2>6. Len(<<x>> \o on) = Len(<<x>>) + Len(on)
        /\ \A k \in 1 .. Len(<<x>>) + Len(on) :
             (<<x>> \o on)[k] = IF k <= Len(<<x>>) THEN <<x>>[k] ELSE on[k - Len(<<x>>)]
    BY ONLY <2>4, ConcatProperties
  <2>7. Len(rest) = 1 + Len(on) /\ \A k \in 1 .. 1 + Len(on) : rest[k] = IF k <= 1 THEN <<x>>[k] ELSE on[k - 1]
    BY ONLY <2>4, <2>5, <2>6
  <2>8. rest[1] = x
    BY ONLY <2>4, <2>7
  <2>9. ASSUME NEW k \in 1 .. Len(on)
        PROVE  rest[k + 1] = on[k]
    <3>1. k + 1 \in 1 .. 1 + Len(on) /\ ~(k + 1 <= 1) /\ (k + 1) - 1 = k
      BY ONLY <2>4, k \in 1 .. Len(on)
    <3> QED BY ONLY <2>7, <3>1
  <2> QED BY ONLY <2>4, <2>7, <2>8, <2>9
<1>5. PICK new : new = Append(toks, tok)
  OBVIOUS
<1>6. Sequence(new) /\ Len(new) = n + 1 /\ new[n + 1] = tok /\ \A k \in 1 .. n : new[k] = toks[k]
  <2>1. PICK S : toks \in Seq(S)
    BY ONLY <1>2 DEF Sequence
  <2>2. PICK T : T = S \cup {tok}
    OBVIOUS
  <2>3. toks \in Seq(T) /\ tok \in T
    BY ONLY <2>1, <2>2
  <2>4. new \in Seq(T) /\ Len(new) = n + 1 /\ new[n + 1] = tok /\ \A k \in 1 .. n : new[k] = toks[k]
    BY ONLY <1>1, <1>5, <2>3, AppendProperties
  <2> QED BY ONLY <2>4 DEF Sequence
<1>7. x.lexeme = t /\ x.first = p
  BY ONLY <1>1 DEF TokenAt
<1>8. all[n + 1] = x
  <2>1. 1 \in 1 .. Len(rest)
    BY ONLY <1>4
  <2> QED BY ONLY <1>3, <1>4, <2>1
<1>9. ASSUME NEW k \in 1 .. Len(new)
      PROVE  new[k].lexeme = all[k].lexeme /\ new[k].first = all[k].first
  <2>1. k \in 1 .. n \/ k = n + 1
    BY ONLY <1>2, <1>6, k \in 1 .. Len(new)
  <2> QED BY ONLY <1>3, <1>6, <1>7, <1>8, <2>1, tok.lexeme = t, tok.first = p
<1>10. Len(new) <= Len(all) /\ Len(all) = Len(new) + Len(on)
  BY ONLY <1>2, <1>3, <1>4, <1>6
<1>11. ASSUME NEW k \in 1 .. Len(on)
       PROVE  all[Len(new) + k] = on[k]
  <2>1. k + 1 \in 1 .. Len(rest) /\ n + (k + 1) = Len(new) + k
    BY ONLY <1>2, <1>4, <1>6, k \in 1 .. Len(on)
  <2>2. all[n + (k + 1)] = rest[k + 1] /\ rest[k + 1] = on[k]
    BY ONLY <1>3, <1>4, <2>1, k \in 1 .. Len(on)
  <2> QED BY ONLY <2>1, <2>2
<1>12. Agree(s, new)
  BY ONLY <1>1, <1>6, <1>9, <1>10 DEF Agree
<1>13. Owed(s, new, q)
  BY ONLY <1>1, <1>10, <1>11, <1>12, q \in Nat DEF Owed
<1> QED BY ONLY <1>5, <1>13

\* The end is the last.
LEMMA DeliverEnd ==
  ASSUME NEW s \in Seq(Characters), NEW toks, NEW p, Owed(s, toks, p),
         TokensFrom(s)[p] = <<TokenAt(End, p)>>, NEW tok, tok.lexeme = End, tok.first = p
  PROVE  Complete(s, Append(toks, tok))
<1>1. PICK all, rest, x, n : /\ all = TokensFrom(s)[1] /\ rest = TokensFrom(s)[p] /\ x = TokenAt(End, p) /\ n = Len(toks)
  OBVIOUS
<1>2. p \in Nat /\ n \in Nat /\ Len(all) \in Nat /\ Len(rest) \in Nat /\ Sequence(toks)
  BY <1>1, OwedLengths
<1>3. /\ Len(all) = n + Len(rest)
      /\ \A k \in 1 .. Len(rest) : all[n + k] = rest[k]
      /\ \A k \in 1 .. n : toks[k].lexeme = all[k].lexeme /\ toks[k].first = all[k].first
  BY ONLY <1>1, Owed(s, toks, p) DEF Owed, Agree
<1>4. rest = <<x>> /\ Len(rest) = 1 /\ rest[1] = x
  BY ONLY <1>1, TokensFrom(s)[p] = <<TokenAt(End, p)>>
<1>5. PICK new : new = Append(toks, tok)
  OBVIOUS
<1>6. Sequence(new) /\ Len(new) = n + 1 /\ new[n + 1] = tok /\ new # <<>> /\ \A k \in 1 .. n : new[k] = toks[k]
  <2>1. PICK S : toks \in Seq(S)
    BY ONLY <1>2 DEF Sequence
  <2>2. PICK T : T = S \cup {tok}
    OBVIOUS
  <2>3. toks \in Seq(T) /\ tok \in T
    BY ONLY <2>1, <2>2
  <2>4. new \in Seq(T) /\ Len(new) = n + 1 /\ new[n + 1] = tok /\ \A k \in 1 .. n : new[k] = toks[k]
    BY ONLY <1>1, <1>5, <2>3, AppendProperties
  <2>5. new # <<>>
    BY ONLY <1>2, <2>4
  <2> QED BY ONLY <2>4, <2>5 DEF Sequence
<1>7. x.lexeme = End /\ x.first = p
  BY ONLY <1>1 DEF TokenAt
<1>8. all[n + 1] = x
  BY ONLY <1>3, <1>4
<1>9. ASSUME NEW k \in 1 .. Len(new)
      PROVE  new[k].lexeme = all[k].lexeme /\ new[k].first = all[k].first
  <2>1. k \in 1 .. n \/ k = n + 1
    BY ONLY <1>2, <1>6, k \in 1 .. Len(new)
  <2> QED BY ONLY <1>3, <1>6, <1>7, <1>8, <2>1, tok.lexeme = End, tok.first = p
<1>10. Len(new) <= Len(all)
  BY ONLY <1>2, <1>3, <1>4, <1>6
<1>11. Agree(s, new)
  BY ONLY <1>1, <1>6, <1>9, <1>10 DEF Agree
<1> QED BY ONLY <1>5, <1>6, <1>11, tok.lexeme = End DEF Complete

\* Nothing is delivered: what is owed from one place is owed from another.
LEMMA OwedOn ==
  ASSUME NEW s, NEW toks, NEW p, NEW q \in Nat, Owed(s, toks, p), TokensFrom(s)[p] = TokensFrom(s)[q]
  PROVE  Owed(s, toks, q)
BY DEF Owed

\* An error that is owed is the next.
LEMMA OwedError ==
  ASSUME NEW s \in Seq(Characters), NEW toks, NEW p, Owed(s, toks, p), TokensFrom(s)[p] = <<TokenAt(Error, p)>>
  PROVE  /\ TokensFrom(s)[1][Len(toks) + 1].lexeme = Error
         /\ TokensFrom(s)[1][Len(toks) + 1].first = p
<1>1. PICK rest : rest = TokensFrom(s)[p]
  OBVIOUS
<1>2. Len(rest) = 1 /\ rest[1] = TokenAt(Error, p) /\ 1 \in 1 .. Len(rest)
  BY <1>1
<1>3. TokensFrom(s)[1][Len(toks) + 1] = rest[1]
  BY ONLY <1>1, <1>2, Owed(s, toks, p) DEF Owed
<1> QED BY ONLY <1>2, <1>3 DEF TokenAt

-----------------------------------------------------------------------------
(* The invariant of the tokens *)

\* A word or a number is read from p to c, and the loop it is in is that of a.
RunTo(s, a, p, c) ==
  /\ a = "word" => s[p] \in Letters \cup {"_"} /\ \A k \in p .. c : s[k] \in WordChars
  /\ a = "atom" => /\ s[p] = ":" /\ p < Len(s) /\ s[p + 1] \in Letters \cup {"_"}
                   /\ \A k \in p + 1 .. c : s[k] \in WordChars
  /\ a = "digits" => AreDigits(s, p, c) /\ ~HexFollows(s, p)
  /\ a = "hex" => AreHex(s, p, c)
  /\ a = "fraction" => InsideFraction(s, p, c)
  /\ a = "exponent" => InsideExponent(s, p, c)
  /\ a = "suffix" => InsideSuffix(s, p, c)

\* A string is read from p to c, and what is in it fits so far.
StringTo(s, p, c, d) == InsideString(s, p, c, d) /\ d \in Seq(Characters \cup {NUL}) /\ Len(d) < StringRoom - 1

Runs == {"word", "atom", "digits", "fraction", "exponent", "hex", "suffix"}
Places == {"idle", "blank", "comment", "string", "error", "overrun"} \cup Runs

\* What is owed where lex_scan stands: what the text stands for from the cursor
\* on, or from the place where the token or the comment began.
Stands(s, toks, a, p, c, d, e) ==
  /\ a = "idle" => Owed(s, toks, c + 1) \/ Complete(s, toks)
  /\ a = "blank" => Owed(s, toks, c + 1)
  /\ a \notin {"idle", "blank"} => Owed(s, toks, p)
  /\ a \in {"error", "overrun"} => TokensFrom(s)[p] = <<TokenAt(Error, p)>>
  /\ a = "comment" => InsideComment(s, p, c, e)
  /\ a \in Runs \cup {"string"} => Begins(s, p) /\ c \in p .. Len(s)
  /\ a \in Runs => RunTo(s, a, p, c)
  /\ a = "string" => StringTo(s, p, c, d)

WInv ==
  /\ input.tokens = TokensFrom(text)[1]
  /\ at \in Places
  /\ peek = <<>> \/ (at = "idle" /\ Sequence(peek))
  /\ Sequence(read)
  /\ Stands(text, Delivered, at, start.first, cur, data, depth)

\* What the characters at the cursor are in the text.
LEMMA TextHere ==
  ASSUME LTypes
  PROVE  /\ Len(text) \in Nat /\ cur \in Nat
         /\ Ch(1) # NUL <=> cur < Len(text)
         /\ Ch(2) # NUL <=> cur + 1 < Len(text)
         /\ cur < Len(text) => Ch(1) = text[cur + 1]
         /\ cur + 1 < Len(text) => Ch(2) = text[cur + 2]
<1>1. PICK n \in Nat \ {0}, k \in Nat \ {0} : n = 1 /\ k = 2
  OBVIOUS
<1>2. Len(text) \in Nat /\ cur \in Nat
  BY DEF LTypes
<1>3. /\ Ch(n) # NUL <=> cur + n <= Len(text)
      /\ Ch(n) # NUL => Ch(n) = text[cur + n]
  BY CharacterHere
<1>4. /\ Ch(k) # NUL <=> cur + k <= Len(text)
      /\ Ch(k) # NUL => Ch(k) = text[cur + k]
  BY CharacterHere
<1>5. cur + 1 <= Len(text) <=> cur < Len(text)
  BY ONLY <1>2
<1>6. cur + 2 <= Len(text) <=> cur + 1 < Len(text)
  BY ONLY <1>2
<1> QED BY ONLY <1>1, <1>2, <1>3, <1>4, <1>5, <1>6

\* Openings and closings of comments.
LEMMA PairHere ==
  ASSUME LTypes
  PROVE  /\ Opens <=> Pair(text, cur + 1) = Opening
         /\ Closes <=> Pair(text, cur + 1) = Closing
         /\ Opens \/ Closes => cur + 1 < Len(text)
<1>1. PICK n \in Nat : n = Len(text)
  BY DEF LTypes
<1>2. /\ Ch(1) # NUL <=> cur < n
      /\ Ch(2) # NUL <=> cur + 1 < n
      /\ cur < n => Ch(1) = text[cur + 1]
      /\ cur + 1 < n => Ch(2) = text[cur + 2]
      /\ cur \in Nat
  BY <1>1, TextHere
<1>3. /\ cur + 1 < n => cur < n /\ Pair(text, cur + 1) = <<text[cur + 1], text[cur + 2]>>
      /\ ~(cur + 1 < n) => Pair(text, cur + 1) = <<>>
  <2>1. cur + 1 < n => cur < n
    BY ONLY <1>2, n \in Nat
  <2>2. cur + 1 + 1 = cur + 2
    BY ONLY <1>2
  <2> QED BY ONLY <1>1, <2>1, <2>2 DEF Pair
<1>4. NUL \notin {"(", "*", ")"}
  BY DEF NUL
<1>5. /\ <<>> # Opening /\ <<>> # Closing
      /\ \A x, y : /\ <<x, y>> = Opening <=> x = "(" /\ y = "*"
                   /\ <<x, y>> = Closing <=> x = "*" /\ y = ")"
  BY DEF Opening, Closing
<1>6. CASE cur + 1 < n
  <2>1. /\ Pair(text, cur + 1) = Opening <=> text[cur + 1] = "(" /\ text[cur + 2] = "*"
        /\ Pair(text, cur + 1) = Closing <=> text[cur + 1] = "*" /\ text[cur + 2] = ")"
    BY ONLY <1>3, <1>5, <1>6
  <2> QED BY ONLY <1>1, <1>2, <1>3, <1>6, <2>1 DEF Opens, Closes
<1>7. CASE ~(cur + 1 < n)
  <2>1. Ch(2) = NUL
    BY ONLY <1>2, <1>7
  <2>2. ~Opens /\ ~Closes
    BY ONLY <1>4, <2>1 DEF Opens, Closes
  <2> QED BY ONLY <1>3, <1>5, <1>7, <2>2
<1> QED BY <1>6, <1>7

\* A step that gives no token.
LEMMA Kept ==
  ASSUME WInv, at # "idle", at' \in Places, Outside,
         NEW p, start'.first = p, NEW c, cur' = c, NEW d, data' = d, NEW e, depth' = e, NEW a, at' = a,
         Stands(text, Delivered, a, p, c, d, e)
  PROVE  WInv'
<1>1. input' = input /\ peek' = peek /\ read' = read
  BY DEF Outside
<1>2. peek = <<>>
  BY DEF WInv
<1>3. text' = text /\ Delivered' = Delivered
  BY <1>1 DEF text, Delivered
<1>4. Stands(text, Delivered, at, start.first, cur, data, depth)'
  BY <1>3 DEF Stands
<1> QED BY <1>1, <1>2, <1>3, <1>4 DEF WInv, Sequence

\* A step that gives one.
Gives(n, from, t) ==
  /\ input' = input /\ at' = "idle" /\ cur' = cur + n /\ start' = from
  /\ Sequence(read') /\ Sequence(peek')
  /\ \E tok : tok.lexeme = t /\ tok.first = from.first /\ read' \o peek' = Append(Delivered, tok)

\* It is behind those that were given.
LEMMA Returned ==
  ASSUME WInv, at # "idle", NEW n, NEW from, NEW t, Return(n, from, t)
  PROVE  Gives(n, from, t)
<1>1. PICK tok : tok = [lexeme |-> t, first |-> from.first, line |-> from.line, col |-> from.col]
  OBVIOUS
<1>2. tok.lexeme = t /\ tok.first = from.first
  BY <1>1
<1>3. peek = <<>> /\ Sequence(read)
  BY DEF WInv
<1>4. PICK S : read \in Seq(S)
  BY <1>3 DEF Sequence
<1>5. PICK T : T = S \cup {tok}
  OBVIOUS
<1>6. read \in Seq(T) /\ tok \in T
  BY <1>4, <1>5
<1>7. /\ read \o <<>> = read /\ Append(read, tok) \o <<>> = Append(read, tok)
      /\ read \o <<tok>> = Append(read, tok) /\ Append(read, tok) \in Seq(T)
      /\ <<>> \in Seq(T) /\ <<tok>> \in Seq(T)
  BY ONLY <1>6, AppendProperties, ConcatEmptySeq, AppendIsConcat
<1>8. \/ read' = Append(read, tok) /\ peek' = peek
      \/ read' = read /\ peek' = <<tok>>
  BY <1>1 DEF Return
<1>9. input' = input /\ at' = "idle" /\ cur' = cur + n /\ start' = from
  BY DEF Return, Advance
<1>10. Delivered = read
  BY <1>3, <1>7 DEF Delivered
<1>11. read' \o peek' = Append(read, tok)
  BY ONLY <1>3, <1>7, <1>8
<1>12. Sequence(read') /\ Sequence(peek')
  BY <1>3, <1>6, <1>7, <1>8 DEF Sequence
<1>13. read' \o peek' = Append(Delivered, tok)
  BY <1>10, <1>11
<1>14. \E x : x.lexeme = t /\ x.first = from.first /\ read' \o peek' = Append(Delivered, x)
  BY ONLY <1>2, <1>13
<1> QED BY ONLY <1>9, <1>12, <1>14 DEF Gives

\* What the text stands for where the token began is that token and what follows
\* behind it, or the end.
LEMMA Given ==
  ASSUME LInv, WInv, at # "idle", NEW n, NEW from, NEW t, Return(n, from, t), NEW p, from.first = p,
         Owed(text, Delivered, p), NEW q \in Nat, cur + n + 1 = q,
         \/ TokensFrom(text)[p] = <<TokenAt(t, p)>> \o TokensFrom(text)[q]
         \/ t = End /\ TokensFrom(text)[p] = <<TokenAt(t, p)>>
  PROVE  WInv'
<1>0. Gives(n, from, t)
  BY Returned
<1>1. PICK tok : tok.lexeme = t /\ tok.first = from.first /\ read' \o peek' = Append(Delivered, tok)
  BY ONLY <1>0 DEF Gives
<1>2. PICK toks : toks = Append(Delivered, tok)
  OBVIOUS
<1>9. /\ input' = input /\ at' = "idle" /\ cur' = cur + n /\ start' = from
      /\ Sequence(read') /\ Sequence(peek')
  BY ONLY <1>0 DEF Gives
<1>3. text \in Seq(Characters)
  BY DEF LInv, LTypes
<1>4. Owed(text, toks, q) \/ Complete(text, toks)
  <2>1. CASE TokensFrom(text)[p] = <<TokenAt(t, p)>> \o TokensFrom(text)[q]
    <3>1. Owed(text, Append(Delivered, tok), q)
      BY <1>1, <1>3, <2>1, Deliver
    <3> QED BY <1>2, <3>1
  <2>2. CASE t = End /\ TokensFrom(text)[p] = <<TokenAt(t, p)>>
    <3>1. Complete(text, Append(Delivered, tok))
      BY <1>1, <1>3, <2>2, DeliverEnd
    <3> QED BY <1>2, <3>1
  <2> QED BY <2>1, <2>2
<1>5. text' = text /\ Delivered' = toks /\ cur' + 1 = q
  BY <1>1, <1>2, <1>9 DEF text, Delivered
<1>6. PICK a : a = at'
  OBVIOUS
<1>7. Stands(text, toks, a, start'.first, cur', data', depth')
  BY <1>1, <1>4, <1>5, <1>6, <1>9 DEF Stands, Runs
<1>8. Stands(text, Delivered, at, start.first, cur, data, depth)'
  BY <1>5, <1>6, <1>7 DEF Stands
<1> QED BY <1>5, <1>8, <1>9 DEF WInv, Places

\* A step that gives an error.
LEMMA Failed ==
  ASSUME WInv, at # "idle", NEW from, Fail(from), NEW p, from.first = p,
         Owed(text, Delivered, p), TokensFrom(text)[p] = <<TokenAt(Error, p)>>
  PROVE  WInv'
<1>1. Outside /\ at' = "error" /\ start' = from
  BY DEF Fail
<1>2. Stands(text, Delivered, "error", p, cur', data', depth')
  BY DEF Stands, Runs
<1> QED BY <1>1, <1>2, Kept DEF Places

-----------------------------------------------------------------------------
(* The steps keep it *)

\* Before the first call all the tokens of the text are owed.
LEMMA InitWInv == Init => WInv
<1> SUFFICES ASSUME Init PROVE WInv
  OBVIOUS
<1>1. text \in Seq(Characters) /\ input.tokens = Tokens(text)
  BY InputsAssumption, TokensAssumption DEF Init, text
<1>2. input.tokens = TokensFrom(text)[1]
  BY <1>1 DEF Tokens
<1>3. read = <<>> /\ peek = <<>> /\ at = "idle" /\ cur = 0
  BY DEF Init
<1>4. Delivered = <<>> /\ Sequence(<<>>)
  <2>1. <<>> \o <<>> = <<>> /\ <<>> \in Seq({})
    OBVIOUS
  <2> QED BY <1>3, <2>1 DEF Delivered, Sequence
<1>5. PICK all : all = TokensFrom(text)[1]
  OBVIOUS
<1>6. Len(all) \in Nat
  <2>1. Sequence(all)
    BY <1>1, <1>5, FromSequence
  <2> QED BY <2>1 DEF Sequence
<1>7. Len(<<>>) = 0 /\ 0 + 1 = 1 /\ 1 \in Nat /\ 0 <= Len(all) /\ Len(all) = 0 + Len(all)
      /\ (\A k \in 1 .. 0 : FALSE) /\ \A k \in 1 .. Len(all) : 0 + k = k
  BY ONLY <1>6
<1>8. Agree(text, <<>>)
  BY ONLY <1>4, <1>5, <1>7 DEF Agree
<1>9. Owed(text, <<>>, 1)
  BY ONLY <1>5, <1>7, <1>8 DEF Owed
<1>10. Stands(text, Delivered, at, start.first, cur, data, depth)
  BY ONLY <1>3, <1>4, <1>7, <1>9 DEF Stands, Runs
<1> QED BY <1>2, <1>3, <1>4, <1>10 DEF WInv, Places

\* Asking for a token: what the next call scans is owed, or the buffer is given.
LEMMA AskTokens ==
  ASSUME WInv, lex_next \/ lex_peek
  PROVE  WInv'
<1>1. /\ at = "idle" /\ ~Ended /\ input' = input /\ cur' = cur /\ start' = start /\ depth' = depth /\ data' = data
  BY DEF lex_next, lex_peek
<1>2. text' = text
  BY <1>1 DEF text
<1>3. Sequence(read) /\ Sequence(peek)
  <2>1. <<>> \in Seq({})
    OBVIOUS
  <2> QED BY <2>1 DEF WInv, Sequence
<1>4. Owed(text, Delivered, cur + 1) \/ Complete(text, Delivered)
  BY <1>1 DEF WInv, Stands
<1>5. CASE peek # <<>> /\ read' = read \o peek /\ peek' = <<>> /\ at' = "idle"
  <2>1. PICK S, T : read \in Seq(S) /\ peek \in Seq(T)
    BY <1>3 DEF Sequence
  <2>2. PICK U : U = S \cup T
    OBVIOUS
  <2>3. read \o peek \in Seq(U)
    BY <2>1, <2>2, ConcatProperties
  <2>4. (read \o peek) \o <<>> = read \o peek
    BY <2>3, ConcatEmptySeq
  <2>5. Delivered' = Delivered /\ Sequence(read')
    BY <1>5, <2>3, <2>4 DEF Delivered, Sequence
  <2>6. Stands(text, Delivered, "idle", start.first, cur, data, depth)
    BY <1>4 DEF Stands, Runs
  <2>7. Stands(text, Delivered, at, start.first, cur, data, depth)'
    BY <1>1, <1>2, <1>5, <2>5, <2>6 DEF Stands
  <2> QED BY <1>1, <1>2, <1>5, <2>5, <2>7 DEF WInv
<1>6. CASE peek = <<>> /\ peek' = peek /\ read' = read /\ at' = "blank"
  <2>1. PICK S : read \in Seq(S)
    BY <1>3 DEF Sequence
  <2>2. Delivered = read /\ Delivered' = Delivered
    BY <1>6, <2>1, ConcatEmptySeq DEF Delivered
  <2>3. ~Complete(text, Delivered)
    BY <1>1, <2>2 DEF Complete, Ended, Last
  <2>4. Stands(text, Delivered, "blank", start.first, cur, data, depth)
    BY <1>4, <2>3 DEF Stands, Runs
  <2>5. Stands(text, Delivered, at, start.first, cur, data, depth)'
    BY <1>1, <1>2, <1>6, <2>2, <2>4 DEF Stands
  <2> QED BY <1>1, <1>2, <1>3, <1>6, <2>5 DEF WInv, Places, Sequence
<1> QED BY <1>1, <1>5, <1>6 DEF lex_next, lex_peek

\* A blank stands for nothing.
LEMMA BlankTokens ==
  ASSUME LInv, WInv, Blank
  PROVE  WInv'
<1>1. /\ at = "blank" /\ at' = "blank" /\ cur' = cur + 1 /\ Ch(1) \in Spaces /\ Outside
      /\ start' = start /\ data' = data /\ depth' = depth
  BY DEF Blank, AdvanceLine, Advance, SameToken
<1>2. Ch(1) # NUL
  BY <1>1 DEF Spaces, NUL
<1>3. LTypes /\ text \in Seq(Characters) /\ cur \in Nat
  BY DEF LInv, LTypes
<1>4. cur < Len(text) /\ text[cur + 1] \in Spaces
  BY <1>1, <1>2, <1>3, TextHere
<1>5. TokensFrom(text)[cur + 1] = TokensFrom(text)[cur + 2]
  BY <1>3, <1>4, BlankAway
<1>6. Owed(text, Delivered, cur + 1)
  BY <1>1 DEF WInv, Stands
<1>7. Owed(text, Delivered, cur + 2)
  <2>1. cur + 2 \in Nat
    BY <1>3
  <2> QED BY <1>5, <1>6, <2>1, OwedOn
<1>8. cur + 1 + 1 = cur + 2
  BY <1>3
<1>9. PICK c : c = cur + 1
  OBVIOUS
<1>10. Stands(text, Delivered, "blank", start.first, c, data, depth)
  BY <1>7, <1>8, <1>9 DEF Stands, Runs
<1> QED BY <1>1, <1>9, <1>10, Kept DEF Places

\* A comment begins.
LEMMA CommentTokens ==
  ASSUME LInv, WInv, Comment
  PROVE  WInv'
<1>1. /\ at = "blank" /\ at' = "comment" /\ cur' = cur + 2 /\ Opens /\ Outside
      /\ start' = Here /\ data' = data /\ depth' = 1
  BY DEF Comment, Advance
<1>2. LTypes /\ text \in Seq(Characters) /\ cur \in Nat /\ Len(text) \in Nat
  BY DEF LInv, LTypes
<1>3. Pair(text, cur + 1) = Opening /\ cur + 1 < Len(text)
  BY <1>1, <1>2, PairHere
<1>4. PICK c, p : c = cur + 2 /\ p = cur + 1
  OBVIOUS
<1>5. p \in 1 .. Len(text) /\ p + 2 = c + 1 /\ c \in Nat /\ 1 \in Nat \ {0}
  BY ONLY <1>2, <1>3, <1>4
<1>6. InsideComment(text, p, c, 1)
  BY ONLY <1>3, <1>4, <1>5 DEF InsideComment
<1>7. Owed(text, Delivered, p)
  BY <1>1, <1>4 DEF WInv, Stands
<1>8. Stands(text, Delivered, "comment", p, c, data, 1)
  BY <1>6, <1>7 DEF Stands, Runs
<1>9. start'.first = p
  BY <1>1, <1>4 DEF Here
<1> HIDE DEF Here
<1> QED BY <1>1, <1>4, <1>8, <1>9, Kept DEF Places

\* In a comment: it goes on, or ends and stands for nothing, or is an error.
LEMMA InCommentTokens ==
  ASSUME LInv, WInv, InComment
  PROVE  WInv'
<1>1. at = "comment"
  BY DEF InComment
<1>2. LTypes /\ text \in Seq(Characters) /\ cur \in Nat /\ Len(text) \in Nat
  BY DEF LInv, LTypes
<1>3. PICK p : p = start.first
  OBVIOUS
<1>4. Owed(text, Delivered, p) /\ InsideComment(text, p, cur, depth)
  BY <1>1, <1>3 DEF WInv, Stands
<1>5. /\ Opens <=> Pair(text, cur + 1) = Opening
      /\ Closes <=> Pair(text, cur + 1) = Closing
      /\ Opens \/ Closes => cur + 1 < Len(text)
  BY <1>2, PairHere
<1>6. depth \in Nat \ {0}
  BY <1>4 DEF InsideComment
<1>7. cur < Len(text) =>
        /\ Pair(text, cur + 1) = Opening => InsideComment(text, p, cur + 2, depth + 1)
        /\ Pair(text, cur + 1) = Closing /\ depth # 1 => InsideComment(text, p, cur + 2, depth - 1)
        /\ Pair(text, cur + 1) \notin {Opening, Closing} => InsideComment(text, p, cur + 1, depth)
  BY <1>2, <1>4, CommentTurn
<1>8. /\ cur < Len(text) /\ Pair(text, cur + 1) = Closing /\ depth = 1 => TokensFrom(text)[p] = TokensFrom(text)[cur + 3]
      /\ cur >= Len(text) => TokensFrom(text)[p] = <<TokenAt(Error, p)>>
  BY <1>2, <1>4, CommentOver
<1>9. ASSUME Outside, start' = start, data' = data, NEW c, cur' = c, NEW e, depth' = e, at' = "comment",
             InsideComment(text, p, c, e)
      PROVE  WInv'
  <2>1. Stands(text, Delivered, "comment", p, c, data, e)
    BY <1>4, <1>9 DEF Stands, Runs
  <2> QED BY <1>1, <1>3, <1>9, <2>1, Kept DEF Places
<1>10. CASE Opens /\ Nest(depth + 1)
  <2>1. /\ Outside /\ start' = start /\ data' = data /\ cur' = cur + 2 /\ depth' = depth + 1
        /\ at' = IF depth + 1 = 0 THEN "blank" ELSE at
    BY <1>10 DEF Nest, Advance
  <2>2. depth + 1 # 0 /\ cur < Len(text)
    BY <1>2, <1>5, <1>6, <1>10
  <2>3. at' = "comment"
    BY <1>1, <2>1, <2>2
  <2>4. InsideComment(text, p, cur + 2, depth + 1)
    BY <1>5, <1>7, <1>10, <2>2
  <2> QED BY <1>9, <2>1, <2>3, <2>4
<1>11. CASE Closes /\ Nest(depth - 1)
  <2>1. /\ Outside /\ start' = start /\ data' = data /\ cur' = cur + 2 /\ depth' = depth - 1
        /\ at' = IF depth - 1 = 0 THEN "blank" ELSE at
    BY <1>11 DEF Nest, Advance
  <2>2. cur < Len(text)
    BY <1>2, <1>5, <1>11
  <2>3. CASE depth # 1
    <3>1. at' = "comment"
      BY <1>1, <1>6, <2>1, <2>3
    <3>2. InsideComment(text, p, cur + 2, depth - 1)
      BY <1>5, <1>7, <1>11, <2>2, <2>3
    <3> QED BY <1>9, <2>1, <3>1, <3>2
  <2>4. CASE depth = 1
    <3>1. at' = "blank"
      BY <2>1, <2>4
    <3>2. PICK c, e : c = cur + 2 /\ e = depth - 1
      OBVIOUS
    <3>3. c + 1 = cur + 3 /\ c + 1 \in Nat
      BY <1>2, <3>2
    <3>4. Owed(text, Delivered, c + 1)
      BY <1>4, <1>5, <1>8, <1>11, <2>2, <2>4, <3>3, OwedOn
    <3>5. Stands(text, Delivered, "blank", p, c, data, e)
      BY <3>4 DEF Stands, Runs
    <3> QED BY <1>1, <1>3, <2>1, <3>1, <3>2, <3>5, Kept DEF Places
  <2> QED BY <2>3, <2>4
<1>12. CASE ~Opens /\ ~Closes /\ ~at_end /\ AdvanceLine /\ UNCHANGED at /\ SameToken /\ Outside
  <2>1. Outside /\ start' = start /\ data' = data /\ cur' = cur + 1 /\ depth' = depth /\ at' = "comment"
    BY <1>1, <1>12 DEF AdvanceLine, Advance, SameToken
  <2>2. cur < Len(text)
    BY <1>2, <1>12, TextHere DEF at_end
  <2>3. InsideComment(text, p, cur + 1, depth)
    BY <1>5, <1>7, <1>12, <2>2
  <2> QED BY <1>9, <2>1, <2>3
<1>13. CASE at_end /\ Fail(start)
  <2>1. cur >= Len(text)
    <3>1. ~(cur < Len(text))
      BY <1>2, <1>13, TextHere DEF at_end
    <3> QED BY <1>2, <3>1
  <2>2. TokensFrom(text)[p] = <<TokenAt(Error, p)>>
    BY <1>8, <2>1
  <2> QED BY <1>1, <1>3, <1>4, <1>13, <2>2, Failed
<1> QED BY <1>10, <1>11, <1>12, <1>13 DEF InComment

\* A token may begin where the text does not end and no blank and no comment is.
LEMMA BeginsHere ==
  ASSUME LInv, WInv, at = "blank", Ch(1) \notin Spaces, ~Opens, ~at_end
  PROVE  /\ Begins(text, cur + 1) /\ cur < Len(text) /\ Ch(1) = text[cur + 1] /\ Owed(text, Delivered, cur + 1)
         /\ cur + 1 \in 1 .. Len(text) /\ cur + 1 \in Nat
<1>1. LTypes /\ text \in Seq(Characters) /\ cur \in Nat /\ Len(text) \in Nat
  BY DEF LInv, LTypes
<1>2. cur < Len(text) /\ Ch(1) = text[cur + 1]
  BY <1>1, TextHere DEF at_end
<1>3. Pair(text, cur + 1) # Opening
  BY <1>1, PairHere
<1>4. cur + 1 \in 1 .. Len(text) /\ cur + 1 \in Nat
  BY ONLY <1>1, <1>2
<1>5. Owed(text, Delivered, cur + 1)
  BY DEF WInv, Stands
<1> QED BY <1>2, <1>3, <1>4, <1>5 DEF Begins

\* A word, a number or a string begins.
LEMMA BeginTokens ==
  ASSUME LInv, WInv, at = "blank", Ch(1) \notin Spaces, ~Opens, ~at_end, NEW n, NEW a, Begin(n, a),
         NEW p, p = cur + 1, NEW c, c = cur + n, c \in p .. Len(text),
         \/ a \in Runs /\ RunTo(text, a, p, c)
         \/ a = "string" /\ StringTo(text, p, c, <<>>)
  PROVE  WInv'
<1>1. /\ Outside /\ cur' = c /\ at' = a /\ start' = Here /\ data' = <<>> /\ depth' = depth
  BY DEF Begin, Advance
<1>2. start'.first = p
  BY <1>1 DEF Here
<1>3. Begins(text, p) /\ Owed(text, Delivered, p)
  BY BeginsHere
<1> HIDE DEF Here
<1>4. Stands(text, Delivered, a, p, c, <<>>, depth)
  BY <1>3 DEF Stands, Runs
<1>5. a \in Places
  BY DEF Places
<1> QED BY <1>1, <1>2, <1>4, <1>5, Kept

\* The operators at the cursor are the pieces of the text there that are one.
LEMMA OperatorPiece ==
  ASSUME LTypes, cur < Len(text), NEW p, p = cur + 1
  PROVE  /\ \A c \in p .. Len(text) : Cut(text, p, c) \in Operators => Cut(text, p, c) \in OperatorHere
         /\ \A r \in OperatorHere : /\ Len(r) \in 1 .. 3 /\ cur + Len(r) \in p .. Len(text)
                                    /\ r = Cut(text, p, cur + Len(r))
<1>1. text \in Seq(Characters) /\ cur \in Nat /\ Len(text) \in Nat /\ p \in 1 .. Len(text)
  BY DEF LTypes
<1>2. ASSUME NEW c \in p .. Len(text), Cut(text, p, c) \in Operators
      PROVE  Cut(text, p, c) \in OperatorHere
  <2>1. PICK w : w = Cut(text, p, c)
    OBVIOUS
  <2>2. DOMAIN w = 1 .. Len(w) /\ Len(w) = c - p + 1 /\ \A k \in 1 .. Len(w) : w[k] = text[p + k - 1]
    BY <1>1, <2>1, Piece DEF Cut
  <2>3. ASSUME NEW k \in 1 .. Len(w)
        PROVE  Ch(k) = w[k]
    <3>1. k \in Nat \ {0} /\ cur + k <= Len(text) /\ p + k - 1 = cur + k
      BY ONLY <1>1, <2>2, p = cur + 1, c \in p .. Len(text), k \in 1 .. Len(w)
    <3>2. Ch(k) = text[cur + k]
      BY <3>1, CharacterHere
    <3>3. w[k] = text[p + k - 1]
      BY ONLY <2>2, k \in 1 .. Len(w)
    <3> QED BY ONLY <3>1, <3>2, <3>3
  <2> QED BY <1>2, <2>1, <2>2, <2>3 DEF OperatorHere
<1>3. ASSUME NEW r \in OperatorHere
      PROVE  Len(r) \in 1 .. 3 /\ cur + Len(r) \in p .. Len(text) /\ r = Cut(text, p, cur + Len(r))
  <2>1. r \in Operators /\ \A i \in DOMAIN r : Ch(i) = r[i]
    BY DEF OperatorHere
  <2>2. Len(r) \in 1 .. 3 /\ DOMAIN r = 1 .. Len(r) /\ \A i \in 1 .. Len(r) : r[i] \in OperatorChars
    BY <2>1, OperatorShape
  <2>3. NUL \notin OperatorChars /\ OperatorChars \subseteq Characters
    BY DEF OperatorChars, NUL, Characters
  <2>4. ASSUME NEW k \in 1 .. Len(r)
        PROVE  cur + k <= Len(text) /\ r[k] = text[cur + k]
    <3>1. k \in Nat \ {0} /\ Ch(k) = r[k] /\ Ch(k) # NUL
      BY <2>1, <2>2, <2>3
    <3> QED BY <3>1, CharacterHere
  <2>5. PICK n : n = Len(r)
    OBVIOUS
  <2>6. n \in 1 .. n
    BY ONLY <2>2, <2>5
  <2>7. cur + n <= Len(text)
    BY ONLY <2>4, <2>5, <2>6
  <2>8. cur + n \in p .. Len(text) /\ (cur + n) - p + 1 = n
    BY ONLY <1>1, <2>2, <2>5, <2>7, p = cur + 1
  <2>9. PICK w : w = Cut(text, p, cur + n)
    OBVIOUS
  <2>10. w \in Seq(Characters) /\ Len(w) = n /\ \A k \in 1 .. Len(w) : w[k] = text[p + k - 1]
    BY <1>1, <2>8, <2>9, Piece, SMTT(30) DEF Cut
  <2>11. ASSUME NEW k \in 1 .. n
         PROVE  w[k] = r[k]
    <3>1. p + k - 1 = cur + k
      BY ONLY <1>1, <2>2, <2>5, p = cur + 1, k \in 1 .. n
    <3> QED BY ONLY <2>4, <2>5, <2>10, <3>1, k \in 1 .. n
  <2>12. r \in Seq(Characters)
    <3>1. r = [i \in 1 .. n |-> r[i]]
      BY ONLY <2>1, <2>2, <2>5 DEF Operators, Singles, Doubles, Triples
    <3>2. \A i \in 1 .. n : r[i] \in Characters
      BY ONLY <2>2, <2>3, <2>5
    <3> QED BY ONLY <2>2, <2>5, <3>1, <3>2, SMTT(30)
  <2>13. Len(w) = Len(r) /\ \A k \in 1 .. Len(w) : w[k] = r[k]
    BY ONLY <2>5, <2>10, <2>11
  <2>14. w = r
    BY ONLY <2>10, <2>12, <2>13, SeqEqual
  <2> QED BY ONLY <2>2, <2>5, <2>8, <2>9, <2>14
<1> QED BY <1>2, <1>3

\* An atom follows.
LEMMA AtomHere ==
  ASSUME LTypes, cur < Len(text), NEW p, p = cur + 1
  PROVE  /\ AtomFollows <=> ~NoAtom(text, p)
         /\ AtomFollows => text[p] = ":" /\ p < Len(text) /\ text[p + 1] \in Letters \cup {"_"}
<1>1. /\ cur \in Nat /\ (Ch(2) # NUL <=> cur + 1 < Len(text)) /\ Ch(1) = text[cur + 1]
      /\ cur + 1 < Len(text) => Ch(2) = text[cur + 2]
  BY TextHere
<1>2. NUL \notin Letters \cup {"_"}
  BY DEF NUL, Letters
<1>3. p + 1 = cur + 2
  BY <1>1
<1> QED BY <1>1, <1>2, <1>3 DEF AtomFollows, NoAtom

\* A token begins, or is there whole, or none does.
LEMMA ScanTokens ==
  ASSUME LInv, WInv, Scan
  PROVE  WInv'
<1>1. at = "blank" /\ Ch(1) \notin Spaces /\ ~Opens
  BY DEF Scan
<1>2. LTypes /\ text \in Seq(Characters) /\ cur \in Nat /\ Len(text) \in Nat
  BY DEF LInv, LTypes
<1>3. PICK p : p = cur + 1
  OBVIOUS
<1>4. ~at_end =>
        /\ Begins(text, p) /\ cur < Len(text) /\ Ch(1) = text[p] /\ Owed(text, Delivered, p) /\ p \in 1 .. Len(text)
        /\ p = cur + 1 /\ p \in p .. Len(text) /\ p \in Nat
  <2>1. ASSUME ~at_end
        PROVE  /\ Begins(text, p) /\ cur < Len(text) /\ Ch(1) = text[p] /\ Owed(text, Delivered, p)
               /\ p \in 1 .. Len(text) /\ p \in Nat
    BY <1>1, <1>3, <2>1, BeginsHere
  <2>2. p \in 1 .. Len(text) => p \in p .. Len(text)
    BY ONLY <1>2
  <2> QED BY <1>3, <2>1, <2>2
<1>5. CASE at_end /\ Return(0, Here, End)
  <2>1. Here.first = p
    BY <1>3 DEF Here
  <2>2. Owed(text, Delivered, p)
    BY <1>1, <1>3 DEF WInv, Stands
  <2>3. cur >= Len(text) /\ p \in Nat
    <3>1. ~(cur < Len(text))
      BY <1>2, <1>5, TextHere DEF at_end
    <3> QED BY ONLY <1>2, <1>3, <3>1
  <2>4. TokensFrom(text)[p] = <<TokenAt(End, p)>>
    BY <1>2, <1>3, <2>3, BlankAway
  <2>5. PICK n, t, from : n = 0 /\ t = End /\ from = Here
    OBVIOUS
  <2>6. cur + n + 1 = p
    BY <1>2, <1>3, <2>5
  <2>7. Return(n, from, t) /\ from.first = p
    BY <1>5, <2>1, <2>5
  <2>8. t = End /\ TokensFrom(text)[p] = <<TokenAt(t, p)>>
    BY <2>4, <2>5
  <2> QED BY <1>1, <2>2, <2>3, <2>6, <2>7, <2>8, Given
<1>6. ASSUME ~at_end, NEW a, Begin(1, a),
             \/ a \in Runs /\ RunTo(text, a, p, p)
             \/ a = "string" /\ StringTo(text, p, p, <<>>)
      PROVE  WInv'
  <2>1. PICK n, c : n = 1 /\ c = cur + n
    OBVIOUS
  <2>2. c = p /\ c \in p .. Len(text)
    BY <1>3, <1>4, <1>6, <2>1
  <2>3. Begin(n, a)
    BY <1>6, <2>1
  <2>4. RunTo(text, a, p, p) => RunTo(text, a, p, c)
    BY <2>2
  <2>5. StringTo(text, p, p, <<>>) => StringTo(text, p, c, <<>>)
    BY <2>2
  <2> QED BY <1>1, <1>3, <1>6, <2>1, <2>2, <2>3, <2>4, <2>5, BeginTokens
<1>7. \A k \in p .. p : k = p
  BY ONLY <1>2, <1>3
<1>8. CASE Ch(1) = "\"" /\ Begin(1, "string")
  <2>1. Ch(1) = Quote
    BY <1>8 DEF Quote
  <2>2. ~at_end
    BY <2>1, QuoteIs DEF at_end
  <2>3. text[p] = Quote
    BY <1>4, <2>1, <2>2
  <2>4. InsideString(text, p, p, <<>>)
    BY <1>2, <1>4, <2>2, <2>3, StringFirst
  <2>5. <<>> \in Seq(Characters \cup {NUL}) /\ Len(<<>>) < StringRoom - 1
    BY StringRoomAssumption
  <2>6. StringTo(text, p, p, <<>>)
    BY ONLY <2>4, <2>5 DEF StringTo
  <2> QED BY <1>6, <1>8, <2>2, <2>6
<1>9. CASE AtomFollows /\ Begin(1, "atom")
  <2>1. ~at_end
    BY <1>9 DEF AtomFollows, at_end, NUL
  <2>2. text[p] = ":" /\ p < Len(text) /\ text[p + 1] \in Letters \cup {"_"}
    BY <1>2, <1>4, <1>9, <2>1, AtomHere
  <2>3. \A k \in p + 1 .. p : FALSE
    BY ONLY <1>2, <1>3
  <2>4. RunTo(text, "atom", p, p)
    BY ONLY <2>2, <2>3 DEF RunTo
  <2> QED BY <1>6, <1>9, <2>1, <2>4 DEF Runs
<1>10. CASE Ch(1) \in Letters \cup {"_"} /\ Begin(1, "word")
  <2>1. ~at_end
    BY <1>10 DEF at_end, NUL, Letters
  <2>2. text[p] \in Letters \cup {"_"} /\ Letters \cup {"_"} \subseteq WordChars
    BY <1>4, <1>10, <2>1, Classes
  <2>3. RunTo(text, "word", p, p)
    BY ONLY <1>7, <2>2 DEF RunTo
  <2> QED BY <1>6, <1>10, <2>1, <2>3 DEF Runs
<1>11. CASE Ch(1) \in Digits /\ IF Ch(1) = "0" /\ Ch(2) = "x" THEN Begin(2, "hex") ELSE Begin(1, "digits")
  <2>1. ~at_end
    BY <1>11 DEF at_end, NUL, Digits
  <2>2. /\ Ch(2) # NUL <=> cur + 1 < Len(text)
        /\ cur + 1 < Len(text) => Ch(2) = text[cur + 2]
    BY <1>2, TextHere
  <2>3. p + 1 = cur + 2 /\ cur + 1 = p
    BY ONLY <1>2, <1>3
  <2>4. NUL # "x"
    BY DEF NUL
  <2>5. Ch(1) = "0" /\ Ch(2) = "x" <=> HexFollows(text, p)
    BY <1>4, <2>1, <2>2, <2>3, <2>4 DEF HexFollows
  <2>6. CASE HexFollows(text, p)
    <3>1. Begin(2, "hex")
      BY <1>11, <2>5, <2>6
    <3>2. text[p] = "0" /\ text[p + 1] = "x" /\ p < Len(text)
      BY <2>6 DEF HexFollows
    <3>3. PICK n, c : n = 2 /\ c = cur + n
      OBVIOUS
    <3>4. c \in p .. Len(text) /\ p + 1 <= c /\ \A k \in p + 2 .. c : FALSE
      BY ONLY <1>2, <1>3, <3>2, <3>3
    <3>5. AreHex(text, p, c)
      BY ONLY <3>2, <3>4 DEF AreHex
    <3>6. RunTo(text, "hex", p, c)
      BY ONLY <3>5 DEF RunTo
    <3>7. Begin(n, "hex")
      BY <3>1, <3>3
    <3> QED BY <1>1, <1>3, <2>1, <3>3, <3>4, <3>6, <3>7, BeginTokens DEF Runs
  <2>7. CASE ~HexFollows(text, p)
    <3>1. Begin(1, "digits")
      BY <1>11, <2>5, <2>7
    <3>2. text[p] \in Digits /\ p <= p
      BY <1>4, <1>11, <2>1
    <3>3. AreDigits(text, p, p)
      BY ONLY <1>7, <3>2 DEF AreDigits
    <3>4. RunTo(text, "digits", p, p)
      BY ONLY <2>7, <3>3 DEF RunTo
    <3> QED BY <1>6, <2>1, <3>1, <3>4 DEF Runs
  <2> QED BY <2>6, <2>7
<1>12. ASSUME ~AtomFollows, cur < Len(text) PROVE NoAtom(text, p)
  BY <1>2, <1>3, <1>12, AtomHere
<1>13. CASE ~AtomFollows /\ OperatorHere # {} /\ Return(Len(Operator), Here, Lexeme("op", Operator))
  <2>1. PICK w, n, from, t : w = Operator /\ n = Len(w) /\ from = Here /\ t = Lexeme("op", w)
    OBVIOUS
  <2>2. Return(n, from, t)
    BY <1>13, <2>1
  <2>3. w \in OperatorHere /\ (\A r \in OperatorHere : Len(r) <= n)
    BY <1>13, <2>1, OperatorThere
  <2>4. ~at_end
    <3>1. PICK k : k = 1
      OBVIOUS
    <3>2. n \in 1 .. 3 /\ \A i \in 1 .. n : Ch(i) \notin {NUL, "\n"}
      BY <1>13, <2>1, <2>3, OperatorThere, OperatorShape DEF OperatorHere
    <3>3. k \in 1 .. n
      BY ONLY <3>1, <3>2
    <3> QED BY <3>1, <3>2, <3>3 DEF at_end
  <2>5. /\ \A c \in p .. Len(text) : Cut(text, p, c) \in Operators => Cut(text, p, c) \in OperatorHere
        /\ \A r \in OperatorHere : /\ Len(r) \in 1 .. 3 /\ cur + Len(r) \in p .. Len(text)
                                   /\ r = Cut(text, p, cur + Len(r))
    BY <1>2, <1>4, <2>4, OperatorPiece
  <2>6. n \in 1 .. 3 /\ cur + n \in p .. Len(text) /\ w = Cut(text, p, cur + n) /\ w \in Operators
    BY <2>1, <2>3, <2>5 DEF OperatorHere
  <2>7. ASSUME NEW k \in cur + n + 1 .. Len(text), Cut(text, p, k) \in Operators
        PROVE  FALSE
    <3>1. k \in p .. Len(text) /\ k > cur + n
      BY ONLY <1>2, <1>3, <2>6, k \in cur + n + 1 .. Len(text)
    <3>2. Cut(text, p, k) \in OperatorHere
      BY <2>5, <2>7, <3>1
    <3>3. Len(Cut(text, p, k)) = k - p + 1
      BY <1>2, <1>4, <2>4, <3>1, Piece DEF Cut
    <3>4. k - p + 1 <= n
      BY ONLY <2>3, <3>2, <3>3
    <3> QED BY ONLY <1>2, <1>3, <2>6, <3>1, <3>4, k \in Int
  <2>8. PICK c : c = cur + n
    OBVIOUS
  <2>9. c \in p .. Len(text) /\ w = Cut(text, p, c) /\ \A k \in c + 1 .. Len(text) : Cut(text, p, k) \notin Operators
    BY ONLY <2>6, <2>7, <2>8
  <2>10. NoAtom(text, p) /\ Begins(text, p) /\ Owed(text, Delivered, p)
    BY <1>4, <1>12, <1>13, <2>4
  <2>11. TokensFrom(text)[p] = <<TokenAt(t, p)>> \o TokensFrom(text)[c + 1]
    <3>1. TokensFrom(text)[p] = <<TokenAt(Lexeme("op", w), p)>> \o TokensFrom(text)[c + 1]
      BY <1>2, <2>6, <2>9, <2>10, OperatorEnds
    <3> QED BY <2>1, <3>1
  <2>12. from.first = p
    BY <1>3, <2>1 DEF Here
  <2>13. PICK q : q = c + 1
    OBVIOUS
  <2>14. q \in Nat /\ cur + n + 1 = q
    BY ONLY <1>2, <2>6, <2>8, <2>13
  <2>15. TokensFrom(text)[p] = <<TokenAt(t, p)>> \o TokensFrom(text)[q]
    BY <2>11, <2>13
  <2> QED BY <1>1, <2>2, <2>10, <2>12, <2>14, <2>15, Given
<1>14. CASE ~at_end /\ Ch(1) \notin {"\""} \cup WordChars /\ OperatorHere = {} /\ Fail(Here)
  <2>1. Begins(text, p) /\ cur < Len(text) /\ Ch(1) = text[p] /\ Owed(text, Delivered, p) /\ p \in 1 .. Len(text)
    BY <1>4, <1>14
  <2>2. text[p] \notin WordChars /\ text[p] # Quote
    BY <1>14, <2>1 DEF Quote
  <2>3. ASSUME NEW c \in p .. Len(text)
        PROVE  Cut(text, p, c) \notin Operators
    BY <1>2, <1>3, <1>14, <2>1, OperatorPiece
  <2>4. CASE AtomFollows
    \* The colon of an atom is an operator.
    <3>1. text[p] = ":"
      BY <1>2, <1>3, <2>1, <2>4, AtomHere
    <3>2. PICK w : w = Cut(text, p, p)
      OBVIOUS
    <3>3. w \in Seq(Characters) /\ Len(w) = p - p + 1 /\ \A k \in 1 .. Len(w) : w[k] = text[p + k - 1]
      <4>1. p \in 1 .. Len(text) /\ p \in p .. Len(text)
        BY <1>4, <1>14
      <4>2. w = SubSeq(text, p, p)
        BY <3>2 DEF Cut
      <4> QED BY ONLY <1>2, <4>1, <4>2, Piece
    <3>4. w = <<":">>
      <4>1. PICK v : v = <<":">>
        OBVIOUS
      <4>2. v \in Seq(Characters) /\ Len(v) = 1 /\ v[1] = ":"
        BY <4>1 DEF Characters
      <4>3. Len(w) = 1 /\ \A k \in 1 .. 1 : k = 1 /\ p + k - 1 = p
        BY ONLY <1>2, <1>3, <3>3
      <4>4. Len(w) = Len(v) /\ \A k \in 1 .. Len(w) : w[k] = v[k]
        BY ONLY <3>1, <3>3, <4>2, <4>3
      <4>5. w = v
        BY ONLY <3>3, <4>2, <4>4, SeqEqual
      <4> QED BY <4>1, <4>5
    <3>5. w \in Operators
      BY <3>4 DEF Operators, Singles
    <3> QED BY <1>4, <1>14, <2>3, <3>2, <3>5
  <2>5. CASE ~AtomFollows
    <3>1. NoAtom(text, p)
      BY <1>12, <2>1, <2>5
    <3>2. TokensFrom(text)[p] = <<TokenAt(Error, p)>>
      BY <1>2, <2>1, <2>2, <2>3, <3>1, NothingThere
    <3>3. PICK from : from = Here
      OBVIOUS
    <3>4. Fail(from) /\ from.first = p
      BY <1>3, <1>14, <3>3 DEF Here
    <3> QED BY <1>1, <2>1, <3>2, <3>4, Failed
  <2> QED BY <2>4, <2>5
<1> HIDE DEF Here
<1> QED BY <1>5, <1>8, <1>9, <1>10, <1>11, <1>13, <1>14 DEF Scan

\* A string goes on while it fits.
LEMMA StringGoesOn ==
  ASSUME LInv, WInv, at = "string", NEW n \in {1, 2}, NEW x \in Characters \cup {NUL}, Store(n, x),
         cur + n <= Len(text), InsideString(text, start.first, cur + n, Append(data, x))
  PROVE  WInv'
<1>1. LTypes /\ text \in Seq(Characters) /\ cur \in Nat /\ Len(text) \in Nat
  BY DEF LInv, LTypes
<1>2. PICK p, c, d : p = start.first /\ c = cur + n /\ d = Append(data, x)
  OBVIOUS
<1>3. Owed(text, Delivered, p) /\ Begins(text, p) /\ cur \in p .. Len(text) /\ StringTo(text, p, cur, data)
  BY <1>2 DEF WInv, Stands
<1>4. /\ Outside /\ cur' = c /\ data' = d /\ start' = start /\ depth' = depth
      /\ at' = IF Len(data) + 1 >= StringRoom - 1 THEN "error" ELSE "string"
  BY <1>2 DEF Store, Advance
<1>5. d \in Seq(Characters \cup {NUL}) /\ Len(d) = Len(data) + 1 /\ Len(d) \in Nat
  <2>1. data \in Seq(Characters \cup {NUL})
    BY <1>3 DEF StringTo
  <2> QED BY ONLY <1>2, <2>1, x \in Characters \cup {NUL}, AppendProperties
<1>6. c \in p .. Len(text) /\ p \in 1 .. Len(text)
  <2>1. p \in 1 .. Len(text)
    BY <1>3 DEF Begins
  <2> QED BY ONLY <1>1, <1>2, <1>3, <2>1, cur + n <= Len(text), n \in {1, 2}
<1>7. InsideString(text, p, c, d)
  BY <1>2
<1>8. StringRoom \in Int
  BY StringRoomAssumption
<1>9. CASE Len(d) >= StringRoom - 1
  <2>1. TokensFrom(text)[p] = <<TokenAt(Error, p)>>
    BY <1>1, <1>3, <1>6, <1>7, <1>8, <1>9, StringRefused
  <2>2. Stands(text, Delivered, "error", p, c, d, depth)
    BY <1>3, <2>1 DEF Stands, Runs
  <2>3. at' = "error"
    BY <1>4, <1>5, <1>9
  <2> QED BY <1>2, <1>4, <2>2, <2>3, Kept DEF Places
<1>10. CASE ~(Len(d) >= StringRoom - 1)
  <2>1. Len(d) < StringRoom - 1
    BY ONLY <1>5, <1>8, <1>10
  <2>2. StringTo(text, p, c, d)
    BY ONLY <1>5, <1>7, <2>1 DEF StringTo
  <2>3. Stands(text, Delivered, "string", p, c, d, depth)
    BY <1>3, <1>6, <2>2 DEF Stands, Runs
  <2>4. at' = "string"
    BY <1>4, <1>5, <1>10
  <2> QED BY <1>2, <1>4, <2>3, <2>4, Kept DEF Places
<1> QED BY <1>9, <1>10

\* A string: it goes on, or is given, or is an error.
LEMMA InStringTokens ==
  ASSUME LInv, WInv, InString
  PROVE  WInv'
<1>1. at = "string"
  BY DEF InString
<1>2. LTypes /\ text \in Seq(Characters) /\ cur \in Nat /\ Len(text) \in Nat
  BY DEF LInv, LTypes
<1>3. PICK p : p = start.first
  OBVIOUS
<1>4. Owed(text, Delivered, p) /\ Begins(text, p) /\ cur \in p .. Len(text) /\ StringTo(text, p, cur, data)
  BY <1>1, <1>3 DEF WInv, Stands
<1>5. p \in 1 .. Len(text)
  BY <1>4 DEF Begins
<1>6. InsideString(text, p, cur, data) /\ data \in Seq(Characters \cup {NUL}) /\ Len(data) < StringRoom - 1
  BY <1>4 DEF StringTo
<1>7. /\ Ch(1) # NUL <=> cur < Len(text)
      /\ Ch(2) # NUL <=> cur + 1 < Len(text)
      /\ cur < Len(text) => Ch(1) = text[cur + 1]
      /\ cur + 1 < Len(text) => Ch(2) = text[cur + 2]
  BY <1>2, TextHere
<1>8. StringRoom \in Int /\ Len(data) \in Nat /\ "\\" # NUL
  BY <1>6, StringRoomAssumption DEF NUL
<1>9. ASSUME Fail(start) \/ Go(2, "overrun"), cur = Len(text) \/ (cur + 1 = Len(text) /\ text[cur + 1] = "\\")
      PROVE  WInv'
  <2>1. TokensFrom(text)[p] = <<TokenAt(Error, p)>>
    BY <1>2, <1>4, <1>6, <1>8, <1>9, StringRefused
  <2>2. CASE Fail(start)
    BY <1>1, <1>3, <1>4, <2>1, <2>2, Failed
  <2>3. CASE Go(2, "overrun")
    <3>1. Outside /\ start' = start /\ data' = data /\ depth' = depth /\ cur' = cur + 2 /\ at' = "overrun"
      BY <2>3 DEF Go, Advance, SameToken
    <3>2. PICK c : c = cur + 2
      OBVIOUS
    <3>3. Stands(text, Delivered, "overrun", p, c, data, depth)
      BY <1>4, <2>1 DEF Stands, Runs
    <3> QED BY <1>1, <1>3, <3>1, <3>2, <3>3, Kept DEF Places
  <2> QED BY <1>9, <2>2, <2>3
<1>10. CASE Ch(1) = "\"" /\ Return(1, start, Lexeme("string", data))
  <2>1. Ch(1) = Quote
    BY <1>10 DEF Quote
  <2>2. cur < Len(text) /\ text[cur + 1] = Quote
    BY <1>7, <2>1, QuoteIs
  <2>3. ~(Len(data) >= StringRoom - 1)
    BY ONLY <1>6, <1>8
  <2>4. TokensFrom(text)[p] = <<TokenAt(Lexeme("string", data), p)>> \o TokensFrom(text)[cur + 2]
    BY <1>2, <1>4, <1>6, <2>2, <2>3, StringCloses
  <2>5. PICK n, t, q : n = 1 /\ t = Lexeme("string", data) /\ q = cur + 2
    OBVIOUS
  <2>6. q \in Nat /\ cur + n + 1 = q
    BY ONLY <1>2, <2>5
  <2>7. Return(n, start, t) /\ TokensFrom(text)[p] = <<TokenAt(t, p)>> \o TokensFrom(text)[q]
    BY <1>10, <2>4, <2>5
  <2> QED BY <1>1, <1>3, <1>4, <2>6, <2>7, Given
<1>11. CASE Ch(1) = "\\" /\ Ch(2) # NUL /\ SameLine /\ Store(2, Escape(Ch(2)))
  <2>1. cur + 1 < Len(text) /\ Ch(2) = text[cur + 2] /\ text[cur + 1] = "\\" /\ cur + 2 <= Len(text)
        /\ cur + 2 \in 1 .. Len(text)
    BY <1>2, <1>7, <1>8, <1>11
  <2>2. InsideString(text, p, cur + 2, Append(data, Escape(text[cur + 2])))
    BY <1>2, <1>4, <1>5, <1>6, <2>1, StringEscape
  <2>3. PICK n, x : n = 2 /\ x = Escape(text[cur + 2])
    OBVIOUS
  <2>4. x \in Characters \cup {NUL}
    <3>1. text[cur + 2] \in Characters
      BY <1>2, <2>1
    <3>2. "\n" \in Characters
      BY DEF Characters, Spaces
    <3> QED BY <2>3, <3>1, <3>2 DEF Escape
  <2>5. InsideString(text, p, cur + n, Append(data, x)) /\ cur + n <= Len(text) /\ Store(n, x) /\ n \in {1, 2}
    BY <1>11, <2>1, <2>2, <2>3
  <2> QED BY <1>1, <1>3, <2>4, <2>5, StringGoesOn
<1>12. CASE Ch(1) = "\\" /\ Ch(2) = NUL /\ Go(2, "overrun")
  <2>1. cur < Len(text) /\ ~(cur + 1 < Len(text)) /\ text[cur + 1] = "\\"
    BY <1>7, <1>8, <1>12
  <2>2. cur + 1 = Len(text)
    BY ONLY <1>2, <2>1
  <2> QED BY <1>9, <1>12, <2>1, <2>2
<1>13. CASE Ch(1) \notin {"\"", "\\", NUL} /\ Store(1, Ch(1))
  <2>1. Ch(1) \notin {Quote, "\\", NUL}
    BY <1>13 DEF Quote
  <2>2. cur < Len(text) /\ Ch(1) = text[cur + 1] /\ cur + 1 <= Len(text) /\ cur + 1 \in 1 .. Len(text)
    BY <1>2, <1>7, <2>1
  <2>3. InsideString(text, p, cur + 1, Append(data, text[cur + 1]))
    BY <1>2, <1>4, <1>5, <1>6, <2>1, <2>2, StringPlain
  <2>4. PICK n, x : n = 1 /\ x = text[cur + 1]
    OBVIOUS
  <2>5. x \in Characters \cup {NUL}
    BY <1>2, <2>2, <2>4
  <2>6. InsideString(text, p, cur + n, Append(data, x)) /\ cur + n <= Len(text) /\ Store(n, x) /\ n \in {1, 2}
    BY <1>13, <2>2, <2>3, <2>4
  <2> QED BY <1>1, <1>3, <2>5, <2>6, StringGoesOn
<1>14. CASE at_end /\ Fail(start)
  <2>1. ~(cur < Len(text))
    BY <1>7, <1>14 DEF at_end
  <2>2. cur = Len(text)
    BY ONLY <1>2, <1>4, <1>5, <2>1
  <2> QED BY <1>9, <1>14, <2>2
<1> QED BY <1>10, <1>11, <1>12, <1>13, <1>14 DEF InString

\* A run takes one character of its loop more.
LEMMA RunGrows ==
  ASSUME NEW s \in Seq(Characters), NEW p \in 1 .. Len(s), NEW c \in p .. Len(s), NEW a \in Runs,
         RunTo(s, a, p, c), c < Len(s), s[c + 1] \in Loop[a]
  PROVE  RunTo(s, a, p, c + 1)
<1>1. p \in Nat /\ c \in Nat /\ p <= c /\ Len(s) \in Nat
  OBVIOUS
<1>2. ASSUME NEW i \in Nat, NEW C, \A k \in i .. c : s[k] \in C, s[c + 1] \in C
      PROVE  \A k \in i .. c + 1 : s[k] \in C
  <2>1. \A k \in i .. c + 1 : k \in i .. c \/ k = c + 1
    BY ONLY <1>1, i \in Nat
  <2> QED BY ONLY <1>2, <2>1
<1>3. CASE a = "word"
  <2>1. s[c + 1] \in WordChars
    BY <1>3 DEF Loop
  <2>2. s[p] \in Letters \cup {"_"} /\ \A k \in p .. c : s[k] \in WordChars
    BY <1>3 DEF RunTo
  <2>3. \A k \in p .. c + 1 : s[k] \in WordChars
    BY <1>1, <1>2, <2>1, <2>2
  <2> QED BY ONLY <1>3, <2>2, <2>3 DEF RunTo
<1>4. CASE a = "atom"
  <2>1. s[c + 1] \in WordChars
    BY <1>4 DEF Loop
  <2>2. s[p] = ":" /\ p < Len(s) /\ s[p + 1] \in Letters \cup {"_"} /\ \A k \in p + 1 .. c : s[k] \in WordChars
    BY <1>4 DEF RunTo
  <2>3. \A k \in p + 1 .. c + 1 : s[k] \in WordChars
    <3>1. PICK i : i = p + 1
      OBVIOUS
    <3>2. i \in Nat /\ \A k \in i .. c : s[k] \in WordChars
      <4>1. i \in Nat
        BY ONLY <1>1, <3>1
      <4> QED BY ONLY <2>2, <3>1, <4>1
    <3>3. \A k \in i .. c + 1 : s[k] \in WordChars
      BY <1>2, <2>1, <3>2
    <3> QED BY <3>1, <3>3
  <2> QED BY ONLY <1>4, <2>2, <2>3 DEF RunTo
<1>5. CASE a = "digits"
  <2>1. s[c + 1] \in Digits
    BY <1>5 DEF Loop
  <2>2. AreDigits(s, p, c) /\ ~HexFollows(s, p)
    BY <1>5 DEF RunTo
  <2>3. \A k \in p .. c + 1 : s[k] \in Digits
    BY <1>1, <1>2, <2>1, <2>2 DEF AreDigits
  <2>4. AreDigits(s, p, c + 1)
    BY ONLY <1>1, <2>3 DEF AreDigits
  <2> QED BY ONLY <1>5, <2>2, <2>4 DEF RunTo
<1>6. CASE a = "hex"
  <2>1. s[c + 1] \in HexDigits
    BY <1>6 DEF Loop
  <2>2. AreHex(s, p, c)
    BY <1>6 DEF RunTo
  <2>3. PICK i : i = p + 2
    OBVIOUS
  <2>4. i \in Nat /\ \A k \in i .. c : s[k] \in HexDigits
    BY <1>1, <2>2, <2>3 DEF AreHex
  <2>5. \A k \in i .. c + 1 : s[k] \in HexDigits
    BY <1>2, <2>1, <2>4
  <2>6. p + 1 <= c /\ s[p] = "0" /\ s[p + 1] = "x"
    BY ONLY <2>2 DEF AreHex
  <2>7. AreHex(s, p, c + 1)
    BY ONLY <1>1, <2>3, <2>5, <2>6 DEF AreHex
  <2> QED BY ONLY <1>6, <2>7 DEF RunTo
<1>7. CASE a = "fraction"
  <2>1. s[c + 1] \in Digits
    BY <1>7 DEF Loop
  <2>2. InsideFraction(s, p, c)
    BY <1>7 DEF RunTo
  <2>3. PICK b \in p .. c : FractionTo(s, p, b, c)
    BY ONLY <2>2 DEF InsideFraction
  <2>4. PICK i : i = b + 2
    OBVIOUS
  <2>5. i \in Nat /\ \A k \in i .. c : s[k] \in Digits
    BY <1>1, <2>3, <2>4 DEF FractionTo
  <2>6. \A k \in i .. c + 1 : s[k] \in Digits
    BY <1>2, <2>1, <2>5
  <2>7. b \in p .. c + 1 /\ b < c + 1
    BY ONLY <1>1, <2>3, b \in p .. c
  <2>8. FractionTo(s, p, b, c + 1)
    BY ONLY <2>3, <2>4, <2>6, <2>7 DEF FractionTo
  <2>9. InsideFraction(s, p, c + 1)
    BY ONLY <2>7, <2>8 DEF InsideFraction
  <2> QED BY ONLY <1>7, <2>9 DEF RunTo
<1>8. CASE a = "exponent"
  <2>1. s[c + 1] \in Digits
    BY <1>8 DEF Loop
  <2>2. InsideExponent(s, p, c)
    BY <1>8 DEF RunTo
  <2>3. PICK b \in p .. c : \E m \in b .. c : ExponentTo(s, p, b, m, c)
    BY ONLY <2>2 DEF InsideExponent
  <2>4. PICK m \in b .. c : ExponentTo(s, p, b, m, c)
    BY ONLY <2>3
  <2>5. /\ DigitsTo(s, p, b) /\ m < c /\ AreExponent(s, m + 1, c)
        /\ b < m => s[b + 1] = "." /\ AreDigits(s, b + 2, m)
    BY ONLY <2>4 DEF ExponentTo
  <2>6. PICK i, j : i = m + 1 /\ j = c + 1
    OBVIOUS
  <2>7. i \in Nat /\ j \in Nat /\ i <= c /\ c < j /\ i + 1 \in Nat /\ i + 2 \in Nat /\ m < j /\ j # i
    BY ONLY <1>1, <2>5, <2>6, b \in p .. c, m \in b .. c
  <2>8. "-" \notin Digits
    BY DEF Digits
  <2>9. /\ s[i] = "e"
        /\ i < c /\ s[i + 1] = "-" => \A k \in i + 2 .. c : s[k] \in Digits
        /\ ~(i < c /\ s[i + 1] = "-") => \A k \in i + 1 .. c : s[k] \in Digits
    BY ONLY <2>5, <2>6 DEF AreExponent
  <2>10. i < c \/ i + 1 = j
    BY ONLY <1>1, <2>6, <2>7
  <2>11. i < j /\ s[i + 1] = "-" <=> i < c /\ s[i + 1] = "-"
    BY ONLY <1>1, <2>1, <2>6, <2>7, <2>8, <2>10
  <2>12. ASSUME i < j /\ s[i + 1] = "-"
         PROVE  \A k \in i + 2 .. j : s[k] \in Digits
    <3>1. PICK l : l = i + 2
      OBVIOUS
    <3>2. l \in Nat /\ \A k \in l .. c : s[k] \in Digits
      BY <2>7, <2>9, <2>11, <2>12, <3>1
    <3> QED BY <1>2, <2>1, <2>6, <3>1, <3>2
  <2>13. ASSUME ~(i < j /\ s[i + 1] = "-")
         PROVE  \A k \in i + 1 .. j : s[k] \in Digits
    <3>1. PICK l : l = i + 1
      OBVIOUS
    <3>2. l \in Nat /\ \A k \in l .. c : s[k] \in Digits
      BY <2>7, <2>9, <2>11, <2>13, <3>1
    <3> QED BY <1>2, <2>1, <2>6, <3>1, <3>2
  <2>14. i <= j
    BY ONLY <2>7
  <2>15. AreExponent(s, m + 1, j)
    BY ONLY <2>6, <2>9, <2>12, <2>13, <2>14 DEF AreExponent
  <2>16. ExponentTo(s, p, b, m, j)
    BY ONLY <2>5, <2>6, <2>7, <2>15 DEF ExponentTo
  <2>17. b \in p .. j /\ m \in b .. j
    BY ONLY <1>1, <2>6, b \in p .. c, m \in b .. c
  <2>18. InsideExponent(s, p, j)
    BY ONLY <2>16, <2>17 DEF InsideExponent
  <2> QED BY ONLY <1>8, <2>6, <2>18 DEF RunTo
<1>9. CASE a = "suffix"
  <2>1. s[c + 1] \in Alnum
    BY <1>9 DEF Loop
  <2>2. InsideSuffix(s, p, c)
    BY <1>9 DEF RunTo
  <2>3. PICK m \in p .. c : SuffixTo(s, p, m, c)
    BY ONLY <2>2 DEF InsideSuffix
  <2>4. PICK i : i = m + 1
    OBVIOUS
  <2>5. i \in Nat /\ \A k \in i .. c : s[k] \in Alnum
    BY <1>1, <2>3, <2>4 DEF SuffixTo
  <2>6. \A k \in i .. c + 1 : s[k] \in Alnum
    BY <1>2, <2>1, <2>5
  <2>7. m \in p .. c + 1 /\ m < c + 1
    BY ONLY <1>1, <2>3, m \in p .. c
  <2>8. SuffixTo(s, p, m, c + 1)
    BY ONLY <2>3, <2>4, <2>6, <2>7 DEF SuffixTo
  <2>9. InsideSuffix(s, p, c + 1)
    BY ONLY <2>7, <2>8 DEF InsideSuffix
  <2> QED BY ONLY <1>9, <2>9 DEF RunTo
<1> QED BY <1>3, <1>4, <1>5, <1>6, <1>7, <1>8, <1>9 DEF Runs

\* No loop takes the zero that ends the text.
LEMMA LoopRuns == DOMAIN Loop = Runs /\ \A a \in Runs : NUL \notin Loop[a]
<1>1. DOMAIN Loop = Runs
  BY DEF Loop, Runs
<1>2. \A a \in Runs : Loop[a] \in {WordChars, Digits, HexDigits, Alnum}
  BY DEF Loop, Runs
<1>3. \A C \in {WordChars, Digits, HexDigits, Alnum} : NUL \notin C
  <2>1. NUL \notin WordChars
    BY DEF WordChars, Alnum, Letters, Digits, NUL
  <2> QED BY <2>1, Classes
<1> QED BY <1>1, <1>2, <1>3

\* A run goes on.
LEMMA RunTokens ==
  ASSUME LInv, WInv, Run
  PROVE  WInv'
<1>1. at \in Runs /\ Ch(1) \in Loop[at] /\ Go(1, at)
  BY LoopRuns DEF Run
<1>2. LTypes /\ text \in Seq(Characters) /\ cur \in Nat /\ Len(text) \in Nat
  BY DEF LInv, LTypes
<1>3. PICK p, a, c : p = start.first /\ a = at /\ c = cur + 1
  OBVIOUS
<1>4. Owed(text, Delivered, p) /\ Begins(text, p) /\ cur \in p .. Len(text) /\ RunTo(text, a, p, cur)
  BY <1>1, <1>3 DEF WInv, Stands, Runs
<1>5. cur < Len(text) /\ text[cur + 1] \in Loop[a]
  <2>1. Ch(1) # NUL
    BY <1>1, LoopRuns
  <2> QED BY <1>1, <1>2, <1>3, <2>1, TextHere
<1>6. p \in 1 .. Len(text)
  BY <1>4 DEF Begins
<1>7. RunTo(text, a, p, c)
  BY <1>1, <1>2, <1>3, <1>4, <1>5, <1>6, RunGrows
<1>8. c \in p .. Len(text)
  BY ONLY <1>2, <1>3, <1>4, <1>5, <1>6
<1>9. a \in Runs /\ a \notin {"idle", "blank", "error", "overrun", "comment", "string"} /\ a \in Places
  BY <1>1, <1>3 DEF Runs, Places
<1>10. Stands(text, Delivered, a, p, c, data, depth)
  BY <1>4, <1>7, <1>8, <1>9 DEF Stands
<1>11. Outside /\ start' = start /\ data' = data /\ depth' = depth /\ cur' = c /\ at' = a
  BY <1>1, <1>3 DEF Go, Advance, SameToken
<1> QED BY <1>3, <1>9, <1>10, <1>11, Kept

\* A fraction, an exponent or a suffix begins.
LEMMA FractionBegins ==
  ASSUME NEW s \in Seq(Characters), NEW p \in 1 .. Len(s), NEW c \in p .. Len(s), RunTo(s, "digits", p, c),
         c + 1 < Len(s), s[c + 1] = ".", s[c + 2] \in Digits
  PROVE  RunTo(s, "fraction", p, c + 1)
<1>1. p \in Nat /\ c \in Nat /\ p <= c /\ Len(s) \in Nat
  OBVIOUS
<1>2. AreDigits(s, p, c) /\ ~HexFollows(s, p) /\ "." \notin Digits
  BY DEF RunTo, Digits
<1>3. DigitsTo(s, p, c)
  BY ONLY <1>2, p \in 1 .. Len(s), c \in p .. Len(s), s[c + 1] = "." DEF DigitsTo
<1>4. c \in p .. c + 1 /\ c < c + 1 /\ \A k \in c + 2 .. c + 1 : FALSE
  BY ONLY <1>1
<1>5. FractionTo(s, p, c, c + 1)
  BY ONLY <1>3, <1>4, c + 1 < Len(s), s[c + 1] = ".", s[c + 2] \in Digits DEF FractionTo
<1>6. InsideFraction(s, p, c + 1)
  BY ONLY <1>4, <1>5 DEF InsideFraction
<1> QED BY ONLY <1>6 DEF RunTo

LEMMA ExponentBegins ==
  ASSUME NEW s \in Seq(Characters), NEW p \in 1 .. Len(s), NEW c \in p .. Len(s),
         RunTo(s, "digits", p, c) \/ RunTo(s, "fraction", p, c), c < Len(s), s[c + 1] = "e",
         NEW j, \/ j = c + 1 /\ (c + 1 < Len(s) => s[c + 2] # "-")
                \/ j = c + 2 /\ c + 1 < Len(s) /\ s[c + 2] = "-"
  PROVE  RunTo(s, "exponent", p, j)
<1>1. p \in Nat /\ c \in Nat /\ p <= c /\ Len(s) \in Nat /\ j \in Nat
  OBVIOUS
<1>2. "e" \notin Digits
  BY DEF Digits
<1>3. \E a \in p .. c : DigitsTo(s, p, a) /\ (a < c => s[a + 1] = "." /\ AreDigits(s, a + 2, c))
  <2>1. CASE RunTo(s, "digits", p, c)
    <3>1. AreDigits(s, p, c) /\ ~HexFollows(s, p)
      BY ONLY <2>1 DEF RunTo
    <3>2. DigitsTo(s, p, c)
      BY ONLY <1>2, <3>1, p \in 1 .. Len(s), c \in p .. Len(s), s[c + 1] = "e" DEF DigitsTo
    <3>3. c \in p .. c /\ ~(c < c)
      BY ONLY <1>1
    <3> QED BY ONLY <3>2, <3>3
  <2>2. CASE RunTo(s, "fraction", p, c)
    <3>1. InsideFraction(s, p, c)
      BY ONLY <2>2 DEF RunTo
    <3>2. PICK a \in p .. c : FractionTo(s, p, a, c)
      BY ONLY <3>1 DEF InsideFraction
    <3>3. DigitsTo(s, p, a) /\ a < c /\ s[a + 1] = "." /\ s[a + 2] \in Digits /\ \A k \in a + 2 .. c : s[k] \in Digits
      BY ONLY <3>2 DEF FractionTo
    <3>4. a + 2 <= c
      <4>1. c = a + 1 => c + 1 = a + 2
        BY ONLY <1>1, a \in p .. c
      <4>2. c # a + 1
        BY ONLY <1>2, <3>3, <4>1, s[c + 1] = "e"
      <4> QED BY ONLY <1>1, <3>3, <4>2, a \in p .. c
    <3>5. AreDigits(s, a + 2, c)
      BY ONLY <3>3, <3>4 DEF AreDigits
    <3> QED BY ONLY <3>3, <3>5
  <2> QED BY <2>1, <2>2
<1>4. PICK a \in p .. c : DigitsTo(s, p, a) /\ (a < c => s[a + 1] = "." /\ AreDigits(s, a + 2, c))
  BY ONLY <1>3
<1>5. a \in p .. j /\ c \in a .. j /\ c < j
  BY ONLY <1>1, a \in p .. c, j = c + 1 \/ j = c + 2
<1>6. AreExponent(s, c + 1, j) /\ (j = c + 1 /\ j < Len(s) => s[j + 1] # "-")
  <2>1. c + 1 + 1 = c + 2 /\ c + 1 + 2 = c + 3
    BY ONLY <1>1
  <2>2. CASE j = c + 1 /\ (c + 1 < Len(s) => s[c + 2] # "-")
    <3>1. c + 1 <= j /\ ~(c + 1 < j) /\ \A k \in c + 2 .. j : FALSE
      BY ONLY <1>1, <2>2
    <3>2. AreExponent(s, c + 1, j)
      BY ONLY <2>1, <3>1, s[c + 1] = "e" DEF AreExponent
    <3>3. j + 1 = c + 2
      BY ONLY <1>1, <2>2
    <3> QED BY ONLY <2>2, <3>2, <3>3
  <2>3. CASE j = c + 2 /\ c + 1 < Len(s) /\ s[c + 2] = "-"
    <3>1. c + 1 <= j /\ c + 1 < j /\ j # c + 1 /\ \A k \in c + 3 .. j : FALSE
      BY ONLY <1>1, <2>3
    <3>2. AreExponent(s, c + 1, j)
      BY ONLY <2>1, <2>3, <3>1, s[c + 1] = "e" DEF AreExponent
    <3> QED BY ONLY <3>1, <3>2
  <2> QED BY <2>2, <2>3
<1>7. ExponentTo(s, p, a, c, j)
  BY ONLY <1>4, <1>5, <1>6 DEF ExponentTo
<1>8. InsideExponent(s, p, j)
  BY ONLY <1>5, <1>7 DEF InsideExponent
<1> QED BY ONLY <1>8 DEF RunTo

LEMMA SuffixBegins ==
  ASSUME NEW s \in Seq(Characters), NEW p \in 1 .. Len(s), NEW c \in p .. Len(s), c < Len(s), s[c + 1] \in Letters,
         \/ RunTo(s, "digits", p, c) /\ s[c + 1] # "e"
         \/ RunTo(s, "hex", p, c) /\ s[c + 1] \notin HexDigits
  PROVE  RunTo(s, "suffix", p, c + 1)
<1>1. p \in Nat /\ c \in Nat /\ p <= c /\ Len(s) \in Nat
  OBVIOUS
<1>2. Letters \cap Digits = {} /\ Letters \subseteq Alnum
  BY Classes
<1>3. (DigitsTo(s, p, c) /\ s[c + 1] # "e") \/ HexTo(s, p, c)
  <2>1. CASE RunTo(s, "digits", p, c) /\ s[c + 1] # "e"
    <3>1. AreDigits(s, p, c) /\ ~HexFollows(s, p) /\ s[c + 1] \notin Digits
      BY ONLY <1>2, <2>1, s[c + 1] \in Letters DEF RunTo
    <3> QED BY ONLY <2>1, <3>1, p \in 1 .. Len(s), c \in p .. Len(s) DEF DigitsTo
  <2>2. CASE RunTo(s, "hex", p, c) /\ s[c + 1] \notin HexDigits
    <3>1. AreHex(s, p, c)
      BY ONLY <2>2 DEF RunTo
    <3> QED BY ONLY <2>2, <3>1, p \in 1 .. Len(s), c \in p .. Len(s) DEF HexTo
  <2> QED BY <2>1, <2>2
<1>4. c \in p .. c + 1 /\ c < c + 1 /\ \A k \in c + 1 .. c + 1 : k = c + 1
  BY ONLY <1>1
<1>5. SuffixTo(s, p, c, c + 1)
  BY ONLY <1>2, <1>3, <1>4, s[c + 1] \in Letters DEF SuffixTo
<1>6. InsideSuffix(s, p, c + 1)
  BY ONLY <1>4, <1>5 DEF InsideSuffix
<1> QED BY ONLY <1>6 DEF RunTo

\* What the characters at the cursor are behind a run, in the text.
LEMMA RunHere ==
  ASSUME LInv, WInv, at \in Runs, NEW p, p = start.first
  PROVE  /\ Owed(text, Delivered, p) /\ Begins(text, p) /\ p \in 1 .. Len(text) /\ cur \in p .. Len(text)
         /\ RunTo(text, at, p, cur) /\ text \in Seq(Characters) /\ cur \in Nat /\ Len(text) \in Nat
         /\ Span = Cut(text, p, cur)
         /\ cur < Len(text) => Ch(1) = text[cur + 1]
         /\ ~(cur < Len(text)) => Ch(1) = NUL
         /\ cur + 1 < Len(text) => Ch(2) = text[cur + 2]
         /\ ~(cur + 1 < Len(text)) => Ch(2) = NUL
<1>1. LTypes /\ text \in Seq(Characters) /\ cur \in Nat /\ Len(text) \in Nat
  BY DEF LInv, LTypes
<1>2. Owed(text, Delivered, p) /\ Begins(text, p) /\ cur \in p .. Len(text) /\ RunTo(text, at, p, cur)
  BY DEF WInv, Stands, Runs
<1>3. p \in 1 .. Len(text)
  BY <1>2 DEF Begins
<1>4. Span = Cut(text, p, cur)
  BY DEF Span, Cut, text
<1> QED BY <1>1, <1>2, <1>3, <1>4, TextHere

\* A run that ends and begins another, or gives a token.
LEMMA RunGoesOn ==
  ASSUME LInv, WInv, at \in Runs, NEW n \in {1, 2}, NEW a \in Runs, Go(n, a),
         RunTo(text, a, start.first, cur + n), cur + n <= Len(text)
  PROVE  WInv'
<1>1. PICK p, c : p = start.first /\ c = cur + n
  OBVIOUS
<1>2. /\ Owed(text, Delivered, p) /\ Begins(text, p) /\ p \in 1 .. Len(text) /\ cur \in p .. Len(text)
      /\ cur \in Nat /\ Len(text) \in Nat
  BY <1>1, RunHere
<1>3. c \in p .. Len(text)
  BY ONLY <1>1, <1>2, n \in {1, 2}, cur + n <= Len(text)
<1>4. RunTo(text, a, p, c)
  BY <1>1
<1>5. a \notin {"idle", "blank", "error", "overrun", "comment", "string"} /\ a \in Places /\ at # "idle"
  BY DEF Runs, Places
<1>6. Stands(text, Delivered, a, p, c, data, depth)
  BY <1>2, <1>3, <1>4, <1>5 DEF Stands
<1>7. Outside /\ start' = start /\ data' = data /\ depth' = depth /\ cur' = c /\ at' = a
  BY <1>1 DEF Go, Advance, SameToken
<1> QED BY <1>1, <1>5, <1>6, <1>7, Kept

LEMMA RunGiven ==
  ASSUME LInv, WInv, at \in Runs, NEW t, Return(0, start, t),
         TokensFrom(text)[start.first] = <<TokenAt(t, start.first)>> \o TokensFrom(text)[cur + 1]
  PROVE  WInv'
<1>1. PICK p, n, q : p = start.first /\ n = 0 /\ q = cur + 1
  OBVIOUS
<1>2. Owed(text, Delivered, p) /\ cur \in Nat
  BY <1>1, RunHere
<1>3. q \in Nat /\ cur + n + 1 = q
  BY ONLY <1>1, <1>2
<1>4. Return(n, start, t) /\ TokensFrom(text)[p] = <<TokenAt(t, p)>> \o TokensFrom(text)[q]
  BY <1>1
<1>5. at # "idle"
  BY DEF Runs
<1> QED BY <1>1, <1>2, <1>3, <1>4, <1>5, Given

\* A run ends: the token is given or refused, or another run begins.
LEMMA RunEndsTokens ==
  ASSUME LInv, WInv, RunEnds
  PROVE  WInv'
<1>1. at \in Runs /\ Ch(1) \notin Loop[at]
  BY LoopRuns DEF RunEnds
<1>2. PICK p, c, s, w : p = start.first /\ c = cur /\ s = text /\ w = Span
  OBVIOUS
<1>3. /\ Owed(s, Delivered, p) /\ Begins(s, p) /\ p \in 1 .. Len(s) /\ c \in p .. Len(s)
      /\ RunTo(s, at, p, c) /\ s \in Seq(Characters) /\ c \in Nat /\ Len(s) \in Nat
      /\ w = Cut(s, p, c)
      /\ c < Len(s) => Ch(1) = s[c + 1]
      /\ ~(c < Len(s)) => Ch(1) = NUL
      /\ c + 1 < Len(s) => Ch(2) = s[c + 2]
      /\ ~(c + 1 < Len(s)) => Ch(2) = NUL
  BY <1>1, <1>2, RunHere
<1>4. ASSUME NEW C, Ch(1) \notin C
      PROVE  c < Len(s) => s[c + 1] \notin C
  BY <1>3, <1>4
<1>5. NUL \notin Letters /\ NUL \notin Digits /\ NUL # "." /\ NUL # "e" /\ NUL # "-"
  BY DEF NUL, Letters, Digits
<1>6. c + 1 < Len(s) => c < Len(s) /\ c + 2 <= Len(s) /\ c + 1 <= Len(s)
  BY ONLY <1>3
<1>7. c < Len(s) => c + 1 <= Len(s)
  BY ONLY <1>3
<1>8. CASE at = "word" /\ Return(0, start, Lexeme(WordKind(Span), Span))
  <2>1. s[p] \in Letters \cup {"_"} /\ \A k \in p .. c : s[k] \in WordChars
    BY <1>3, <1>8 DEF RunTo
  <2>2. c < Len(s) => s[c + 1] \notin WordChars
    BY <1>1, <1>4, <1>8 DEF Loop
  <2>3. TokensFrom(s)[p] = <<TokenAt(Lexeme(WordKind(w), w), p)>> \o TokensFrom(s)[c + 1]
    BY <1>3, <2>1, <2>2, WordEnds, ZenonT(60)
  <2> QED BY <1>1, <1>2, <1>8, <2>3, RunGiven
<1>9. CASE at = "atom" /\ Return(0, start, Lexeme("atom", Tail(Span)))
  <2>1. s[p] = ":" /\ p < Len(s) /\ s[p + 1] \in Letters \cup {"_"} /\ \A k \in p + 1 .. c : s[k] \in WordChars
    BY <1>3, <1>9 DEF RunTo
  <2>2. c < Len(s) => s[c + 1] \notin WordChars
    BY <1>1, <1>4, <1>9 DEF Loop
  <2>3. c # p
    BY <2>1, <2>2, Classes
  <2>4. c \in p + 1 .. Len(s)
    BY ONLY <1>3, <2>3
  <2>5. TokensFrom(s)[p] = <<TokenAt(Lexeme("atom", Tail(w)), p)>> \o TokensFrom(s)[c + 1]
    BY <1>3, <2>1, <2>2, <2>4, AtomEnds, ZenonT(60)
  <2> QED BY <1>1, <1>2, <1>9, <2>5, RunGiven
<1>10. CASE Fraction /\ Go(1, "fraction")
  <2>1. at = "digits" /\ Ch(1) = "." /\ Ch(2) \in Digits
    BY <1>10 DEF Fraction
  <2>2. c + 1 < Len(s) /\ s[c + 1] = "." /\ s[c + 2] \in Digits
    BY <1>3, <1>5, <1>6, <2>1
  <2>3. RunTo(s, "fraction", p, c + 1)
    BY <1>3, <2>1, <2>2, FractionBegins
  <2>4. PICK n, a : n = 1 /\ a = "fraction"
    OBVIOUS
  <2>5. n \in {1, 2} /\ a \in Runs /\ Go(n, a) /\ RunTo(text, a, start.first, cur + n) /\ cur + n <= Len(text)
    BY <1>2, <1>6, <1>10, <2>2, <2>3, <2>4 DEF Runs
  <2> QED BY <1>1, <2>5, RunGoesOn
<1>11. CASE ExponentFollows /\ Go(Sign, "exponent")
  <2>1. at \in {"digits", "fraction"} /\ Ch(1) = "e"
    BY <1>11 DEF ExponentFollows
  <2>2. c < Len(s) /\ s[c + 1] = "e"
    BY <1>3, <1>5, <2>1
  <2>3. PICK n, j : n = Sign /\ j = c + n
    OBVIOUS
  <2>4. \/ n = 1 /\ j = c + 1 /\ (c + 1 < Len(s) => s[c + 2] # "-")
        \/ n = 2 /\ j = c + 2 /\ c + 1 < Len(s) /\ s[c + 2] = "-"
    <3>1. CASE Ch(2) = "-"
      BY <1>3, <1>5, <2>3, <3>1 DEF Sign
    <3>2. CASE Ch(2) # "-"
      BY <1>3, <2>3, <3>2 DEF Sign
    <3> QED BY <3>1, <3>2
  <2>5. RunTo(s, "digits", p, c) \/ RunTo(s, "fraction", p, c)
    BY <1>3, <2>1
  <2>6. RunTo(s, "exponent", p, j)
    BY <1>3, <2>2, <2>4, <2>5, ExponentBegins
  <2>7. PICK a : a = "exponent"
    OBVIOUS
  <2>8. n \in {1, 2} /\ a \in Runs /\ Go(n, a) /\ RunTo(text, a, start.first, cur + n) /\ cur + n <= Len(text)
    BY <1>2, <1>6, <1>7, <1>11, <2>2, <2>3, <2>4, <2>6, <2>7 DEF Runs
  <2> QED BY <1>1, <2>8, RunGoesOn
<1>12. CASE SuffixFollows /\ Go(1, "suffix")
  <2>1. at \in {"digits", "hex"} /\ ~ExponentFollows /\ Ch(1) \in Letters
    BY <1>12 DEF SuffixFollows
  <2>2. c < Len(s) /\ s[c + 1] \in Letters
    BY <1>3, <1>5, <2>1
  <2>3. \/ RunTo(s, "digits", p, c) /\ s[c + 1] # "e"
        \/ RunTo(s, "hex", p, c) /\ s[c + 1] \notin HexDigits
    <3>1. CASE at = "digits"
      BY <1>3, <2>1, <2>2, <3>1 DEF ExponentFollows
    <3>2. CASE at = "hex"
      BY <1>1, <1>3, <2>2, <3>2 DEF Loop
    <3> QED BY <2>1, <3>1, <3>2
  <2>4. RunTo(s, "suffix", p, c + 1)
    BY <1>3, <2>2, <2>3, SuffixBegins
  <2>5. PICK n, a : n = 1 /\ a = "suffix"
    OBVIOUS
  <2>6. n \in {1, 2} /\ a \in Runs /\ Go(n, a) /\ RunTo(text, a, start.first, cur + n) /\ cur + n <= Len(text)
    BY <1>2, <1>7, <1>12, <2>2, <2>4, <2>5 DEF Runs
  <2> QED BY <1>1, <2>6, RunGoesOn
<1>13. CASE /\ at \in {"digits", "hex"} /\ ~Fraction /\ ~ExponentFollows /\ ~SuffixFollows
            /\ Return(0, start, Lexeme("int", Span))
  <2>1. Ch(1) \notin Letters
    BY <1>13 DEF SuffixFollows
  <2>2. c < Len(s) => s[c + 1] \notin Letters
    BY <1>4, <2>1
  <2>3. \/ DigitsTo(s, p, c) /\ ~(c + 1 < Len(s) /\ s[c + 1] = "." /\ s[c + 2] \in Digits)
        \/ HexTo(s, p, c)
    <3>1. CASE at = "digits"
      <4>1. AreDigits(s, p, c) /\ ~HexFollows(s, p)
        BY <1>3, <3>1 DEF RunTo
      <4>2. c < Len(s) => s[c + 1] \notin Digits
        BY <1>1, <1>4, <3>1 DEF Loop
      <4>3. DigitsTo(s, p, c)
        BY ONLY <1>3, <4>1, <4>2 DEF DigitsTo
      <4>4. ~(Ch(1) = "." /\ Ch(2) \in Digits)
        BY <1>13, <3>1 DEF Fraction
      <4>5. ~(c + 1 < Len(s) /\ s[c + 1] = "." /\ s[c + 2] \in Digits)
        BY ONLY <1>3, <1>6, <4>4
      <4> QED BY ONLY <4>3, <4>5
    <3>2. CASE at = "hex"
      <4>1. AreHex(s, p, c)
        BY <1>3, <3>2 DEF RunTo
      <4>2. c < Len(s) => s[c + 1] \notin HexDigits
        BY <1>1, <1>4, <3>2 DEF Loop
      <4> QED BY ONLY <1>3, <4>1, <4>2 DEF HexTo
    <3> QED BY <1>13, <3>1, <3>2
  <2>4. TokensFrom(s)[p] = <<TokenAt(Lexeme("int", w), p)>> \o TokensFrom(s)[c + 1]
    BY <1>3, <2>2, <2>3, IntEnds, SMTT(30)
  <2> QED BY <1>1, <1>2, <1>13, <2>4, RunGiven
<1>14. CASE at \in {"fraction", "exponent"} /\ ~ExponentFollows /\ Return(0, start, Lexeme("float", Span))
  <2>1. c < Len(s) => s[c + 1] \notin Digits
    BY <1>1, <1>4, <1>14 DEF Loop
  <2>2. TokensFrom(s)[p] = <<TokenAt(Lexeme("float", w), p)>> \o TokensFrom(s)[c + 1]
    <3>1. CASE at = "fraction"
      <4>1. InsideFraction(s, p, c)
        BY <1>3, <3>1 DEF RunTo
      <4>2. Ch(1) # "e"
        BY <1>14, <3>1 DEF ExponentFollows
      <4>3. c < Len(s) => s[c + 1] \notin Digits \cup {"e"}
        BY ONLY <1>3, <2>1, <4>2
      <4> QED BY <1>3, <4>1, <4>3, FractionEnds
    <3>2. CASE at = "exponent"
      <4>1. InsideExponent(s, p, c)
        BY <1>3, <3>2 DEF RunTo
      <4> QED BY <1>3, <2>1, <4>1, ExponentEnds
    <3> QED BY <1>14, <3>1, <3>2
  <2> QED BY <1>1, <1>2, <1>14, <2>2, RunGiven
<1>15. CASE at = "suffix" /\ IF Integer(Span) THEN Return(0, start, Lexeme("int", Span)) ELSE Fail(start)
  <2>1. c < Len(s) => s[c + 1] \notin Alnum
    BY <1>1, <1>4, <1>15 DEF Loop
  <2>2. InsideSuffix(s, p, c)
    BY <1>3, <1>15 DEF RunTo
  <2>3. /\ Integer(w) => TokensFrom(s)[p] = <<TokenAt(Lexeme("int", w), p)>> \o TokensFrom(s)[c + 1]
        /\ ~Integer(w) => TokensFrom(s)[p] = <<TokenAt(Error, p)>>
    BY <1>3, <2>1, <2>2, SuffixEnds
  <2>4. CASE Integer(w)
    <3>1. Return(0, start, Lexeme("int", Span))
      BY <1>2, <1>15, <2>4
    <3> QED BY <1>1, <1>2, <2>3, <2>4, <3>1, RunGiven
  <2>5. CASE ~Integer(w)
    <3>1. Fail(start) /\ at # "idle"
      BY <1>2, <1>15, <2>5
    <3> QED BY <1>2, <1>3, <2>3, <2>5, <3>1, Failed
  <2> QED BY <2>4, <2>5
<1> QED BY <1>8, <1>9, <1>10, <1>11, <1>12, <1>13, <1>14, <1>15 DEF RunEnds

-----------------------------------------------------------------------------
(* The theorem of the tokens *)

\* Every step keeps it.
LEMMA NextWInv == LInv /\ WInv /\ [Next]_vars => WInv'
<1> SUFFICES ASSUME LInv, WInv, [Next]_vars
             PROVE  WInv'
  OBVIOUS
<1>1. CASE lex_next \/ lex_peek
  BY <1>1, AskTokens
<1>2. CASE Blank
  BY <1>2, BlankTokens
<1>3. CASE Comment
  BY <1>3, CommentTokens
<1>4. CASE InComment
  BY <1>4, InCommentTokens
<1>5. CASE Scan
  BY <1>5, ScanTokens
<1>6. CASE InString
  BY <1>6, InStringTokens
<1>7. CASE Run
  BY <1>7, RunTokens
<1>8. CASE RunEnds
  BY <1>8, RunEndsTokens
<1>9. CASE UNCHANGED vars
  BY <1>9 DEF vars, WInv, Stands, Delivered, Sequence, text
<1> QED BY <1>1, <1>2, <1>3, <1>4, <1>5, <1>6, <1>7, <1>8, <1>9 DEF Next

\* The tokens that were given and what the text stands for from the cursor, or
\* from the beginning of what is read, on are together the tokens of the text.
THEOREM WInvariance == Spec => []WInv
<1>1. Init => WInv
  BY InitWInv
<1>2. LInv /\ WInv /\ [Next]_vars => WInv'
  BY NextWInv
<1> QED BY <1>1, <1>2, LInvariance, PTL DEF Spec

\* For every text, however lex_next and lex_peek are mixed, the tokens given are
\* those of the text, in order and without gap: the longest match at each place,
\* comments left out, escapes resolved; and an error is given where no token
\* begins, and nowhere else (lex.c:121).
THEOREM TokensAreLongest == Spec => []LongestTokens
<1>1. LInv /\ WInv => LongestTokens
  <2> SUFFICES ASSUME LInv, WInv PROVE LongestTokens
    OBVIOUS
  <2>1. text \in Seq(Characters) /\ input.tokens = TokensFrom(text)[1]
    BY DEF LInv, LTypes, WInv
  <2>2. PICK toks, all : toks = Delivered /\ all = TokensFrom(text)[1]
    OBVIOUS
  <2>3. Agree(text, toks)
    <3>1. CASE at = "idle"
      BY <2>2, <3>1 DEF WInv, Stands, Owed, Complete
    <3>2. CASE at # "idle"
      <4>1. \E p : Owed(text, toks, p)
        BY <2>2, <3>2 DEF WInv, Stands
      <4> QED BY <4>1 DEF Owed
    <3> QED BY <3>1, <3>2
  <2>4. /\ Sequence(toks)
        /\ \A n \in 1 .. Len(toks) : toks[n].lexeme = all[n].lexeme /\ toks[n].first = all[n].first
    BY ONLY <2>2, <2>3 DEF Agree
  <2>5. DOMAIN toks = 1 .. Len(toks)
    BY ONLY <2>4 DEF Sequence
  <2>6. \A n \in DOMAIN Delivered : Delivered[n].lexeme = Expected(n).lexeme /\ Delivered[n].first = Expected(n).first
    BY <2>1, <2>2, <2>4, <2>5 DEF Expected
  <2>7. at \in {"error", "overrun"} =>
          LET e == Expected(Len(Delivered) + 1) IN e.lexeme = Error /\ start.first = e.first
    <3> SUFFICES ASSUME at \in {"error", "overrun"}
                 PROVE  LET e == Expected(Len(Delivered) + 1) IN e.lexeme = Error /\ start.first = e.first
      OBVIOUS
    <3>1. PICK p : p = start.first
      OBVIOUS
    <3>2. Owed(text, toks, p) /\ TokensFrom(text)[p] = <<TokenAt(Error, p)>>
      BY <2>2, <3>1 DEF WInv, Stands
    <3>3. all[Len(toks) + 1].lexeme = Error /\ all[Len(toks) + 1].first = p
      BY <2>1, <2>2, <3>2, OwedError
    <3> QED BY <2>1, <2>2, <3>1, <3>3 DEF Expected
  <2>8. cur > Len(input.chars) => at = "overrun" /\ Last(input.chars) = "\\"
    <3> SUFFICES ASSUME cur > Len(text)
                 PROVE  at = "overrun" /\ Last(text) = "\\"
      BY DEF text
    <3>1. at = "overrun"
      BY DEF LInv, Inside, LTypes
    <3> QED BY <3>1 DEF LInv, Inside, Last
  <2> QED BY <2>6, <2>7, <2>8 DEF LongestTokens
<1> QED BY <1>1, LInvariance, WInvariance, PTL
-----------------------------------------------------------------------------
(* Texts without comments, strings and form feeds *)

\* Min is the least of a set.
LEMMA LeastIs ==
  ASSUME NEW N \in SUBSET Nat, N # {}
  PROVE  Min(N) \in N /\ \A k \in N : Min(N) <= k
BY Least DEF Min

\* From i on the text has no quote, no form feed and no opening of a comment.
Bare(s, i) == \A j \in i .. Len(s) : s[j] # Quote /\ s[j] # "\f" /\ Pair(s, j) # Opening

\* The first character that is not blank, or the end of the text.
LEMMA AfterIs ==
  ASSUME NEW s, Len(s) \in Nat, NEW i \in 1 .. Len(s) + 1, NEW k, k = After(s, i, Plain)
  PROVE  /\ k \in i .. Len(s) + 1 /\ (k <= Len(s) => s[k] \notin Plain)
         /\ \A l \in i .. k - 1 : s[l] \in Plain
<1>1. PICK N : N = {j \in i .. Len(s) + 1 : j = Len(s) + 1 \/ s[j] \notin Plain}
  OBVIOUS
<1>2. N \in SUBSET Nat /\ Len(s) + 1 \in N
  BY <1>1
<1>3. Min(N) \in N /\ \A l \in N : Min(N) <= l
  BY <1>2, LeastIs
<1>4. k \in N /\ \A l \in N : k <= l
  BY <1>1, <1>3 DEF After
<1>5. k \in i .. Len(s) + 1 /\ (k <= Len(s) => s[k] \notin Plain)
  BY <1>1, <1>4
<1>6. ASSUME NEW l \in i .. k - 1
      PROVE  s[l] \in Plain
  <2>1. l \in i .. Len(s) + 1 /\ ~(k <= l)
    BY <1>5
  <2> QED BY <1>1, <1>4, <2>1
<1> QED BY <1>5, <1>6

\* Blanks stand for nothing: what follows begins a token, if the text goes on.
LEMMA Skips ==
  ASSUME NEW s \in Seq(Characters), NEW i \in 1 .. Len(s) + 1, Bare(s, i), NEW k, k = After(s, i, Plain)
  PROVE  /\ TokensFrom(s)[i] = TokensFrom(s)[k] /\ k \in i .. Len(s) + 1
         /\ k <= Len(s) => Begins(s, k)
         /\ k = Len(s) + 1 => TokensFrom(s)[k] = <<TokenAt(End, k)>>
<1>1. Len(s) \in Nat /\ i \in Nat /\ 1 <= i
  OBVIOUS
<1>2. /\ k \in i .. Len(s) + 1 /\ (k <= Len(s) => s[k] \notin Plain)
      /\ \A l \in i .. k - 1 : s[l] \in Plain
  BY <1>1, AfterIs
<1>3. PICK F : F = TokensFrom(s)
  OBVIOUS
<1> DEFINE Bad == {l \in i .. k : F[l] # F[i]}
<1>5. k <= Len(s) => Begins(s, k)
  <2> SUFFICES ASSUME k <= Len(s) PROVE Begins(s, k)
    OBVIOUS
  <2>1. k \in i .. Len(s) /\ k \in 1 .. Len(s) /\ s[k] \notin Plain
    BY ONLY <1>1, <1>2, k <= Len(s)
  <2>2. s[k] # "\f" /\ Pair(s, k) # Opening
    BY ONLY <2>1, Bare(s, i) DEF Bare
  <2>3. s[k] \notin Spaces
    BY ONLY <2>1, <2>2 DEF Plain, Spaces
  <2> QED BY ONLY <2>1, <2>2, <2>3 DEF Begins
<1>6. k = Len(s) + 1 => F[k] = <<TokenAt(End, k)>>
  <2>1. PICK c : c = Len(s)
    OBVIOUS
  <2>2. c \in Nat /\ c >= Len(s)
    BY ONLY <1>1, <2>1
  <2>3. TokensFrom(s)[c + 1] = <<TokenAt(End, c + 1)>>
    BY ONLY <2>2, s \in Seq(Characters), BlankAway
  <2> QED BY ONLY <1>3, <2>1, <2>3
<1>4. CASE Bad = {}
  <2>1. k \in i .. k
    BY ONLY <1>1, <1>2
  <2> QED BY ONLY <1>3, <1>4, <2>1, <1>2, <1>5, <1>6
<1>7. CASE Bad # {}
  <2>1. Bad \in SUBSET Nat
    BY ONLY <1>1
  <2>2. PICK m \in Bad : \A l \in Bad : m <= l
    BY ONLY <1>7, <2>1, Least
  <2>3. m \in i .. k /\ F[m] # F[i]
    OBVIOUS
  <2>4. m # i
    BY ONLY <2>3
  <2>5. PICK c : c = m - 2
    OBVIOUS
  <2>6. m - 1 \in i .. k - 1 /\ m - 1 \in i .. k /\ ~(m <= m - 1) /\ m - 1 \in 1 .. Len(s)
    BY ONLY <1>1, <1>2, <2>3, <2>4
  <2>7. m - 1 \notin Bad
    BY ONLY <2>2, <2>6
  <2>8. F[m - 1] = F[i]
    BY ONLY <2>6, <2>7
  <2>9. c \in Nat /\ c < Len(s) /\ c + 1 = m - 1 /\ c + 2 = m
    BY ONLY <1>1, <2>3, <2>5, <2>6
  <2>10. s[c + 1] \in Spaces
    BY ONLY <1>2, <2>6, <2>9 DEF Plain, Spaces
  <2>11. F[c + 1] = F[c + 2]
    BY ONLY <1>3, <2>9, <2>10, s \in Seq(Characters), BlankAway
  <2> QED BY ONLY <2>3, <2>8, <2>9, <2>11
<1> QED BY <1>4, <1>7

\* The characters of a number.
LEMMA NumberPlaces ==
  ASSUME NEW s \in Seq(Characters), NEW i \in 1 .. Len(s), NEW j \in i .. Len(s),
         AreInteger(s, i, j) \/ AreFloat(s, i, j)
  PROVE  \A l \in i .. j : s[l] \in WordChars \cup {".", "-"}
<1>1. Len(s) \in Nat /\ i \in Nat /\ j \in Nat /\ 1 <= i /\ i <= j /\ j <= Len(s)
  OBVIOUS
<1>2. /\ Digits \subseteq WordChars /\ HexDigits \subseteq WordChars /\ {"u", "i", "8", "0", "x", "e"} \subseteq WordChars
  BY DEF Digits, HexDigits, WordChars, Alnum, Letters
<1>3. ASSUME NEW a \in Nat, NEW m \in Nat, NEW l \in a .. m, AreDigits(s, a, m)
      PROVE  s[l] \in WordChars
  BY ONLY <1>2, <1>3 DEF AreDigits
<1>4. ASSUME NEW m \in i .. j, NEW l \in i .. m, AreHex(s, i, m)
      PROVE  s[l] \in WordChars
  <2>1. l = i \/ l = i + 1 \/ l \in i + 2 .. m
    BY <1>1
  <2> QED BY ONLY <1>2, <1>4, <2>1 DEF AreHex
<1>5. ASSUME NEW m \in i .. j, m < j, NEW l \in m + 1 .. j, AreSuffix(s, m + 1, j)
      PROVE  s[l] \in WordChars
  <2>1. PICK a : a = m + 1
    OBVIOUS
  <2>2. a \in 1 .. Len(s) /\ j \in a .. Len(s)
    BY <1>1, <1>5, <2>1
  <2>3. \A x \in a .. j : s[x] \in {"u", "i", "8"}
    BY ONLY <1>5, <2>1, <2>2, s \in Seq(Characters), SuffixPlaces
  <2> QED BY ONLY <1>2, <1>5, <2>1, <2>3
<1>6. ASSUME NEW a \in Nat, NEW l \in a .. j, AreExponent(s, a, j)
      PROVE  s[l] \in WordChars \cup {"-"}
  <2>1. l = a \/ l = a + 1 \/ l \in a + 2 .. j
    BY <1>1
  <2>2. l = a \/ l \in a + 1 .. j
    BY <1>1
  <2>3. CASE a < j /\ s[a + 1] = "-"
    BY ONLY <1>2, <1>6, <2>1, <2>3 DEF AreExponent
  <2>4. CASE ~(a < j /\ s[a + 1] = "-")
    BY ONLY <1>2, <1>6, <2>2, <2>4 DEF AreExponent
  <2> QED BY <2>3, <2>4
<1>7. CASE AreInteger(s, i, j)
  <2>1. PICK m \in i .. j : (m < j => AreSuffix(s, m + 1, j)) /\ (AreDigits(s, i, m) \/ AreHex(s, i, m))
    BY ONLY <1>7 DEF AreInteger
  <2>2. ASSUME NEW l \in i .. j
        PROVE  s[l] \in WordChars
    <3>1. l \in i .. m \/ (m < j /\ l \in m + 1 .. j)
      BY <1>1
    <3>2. i \in Nat /\ m \in Nat
      BY <1>1
    <3> QED BY ONLY <1>3, <1>4, <1>5, <2>1, <3>1, <3>2, m \in i .. j
  <2> QED BY <2>2
<1>8. CASE AreFloat(s, i, j)
  <2>1. PICK a \in i .. j : \E m \in a .. j :
          /\ a < j /\ AreDigits(s, i, a)
          /\ a < m => s[a + 1] = "." /\ AreDigits(s, a + 2, m)
          /\ m < j => AreExponent(s, m + 1, j)
    BY ONLY <1>8 DEF AreFloat
  <2>2. PICK m \in a .. j :
          /\ a < j /\ AreDigits(s, i, a)
          /\ a < m => s[a + 1] = "." /\ AreDigits(s, a + 2, m)
          /\ m < j => AreExponent(s, m + 1, j)
    BY ONLY <2>1
  <2>3. a \in Nat /\ m \in Nat /\ a + 2 \in Nat /\ m + 1 \in Nat
    BY <1>1
  <2>4. ASSUME NEW l \in i .. j
        PROVE  s[l] \in WordChars \cup {".", "-"}
    <3>1. l \in i .. a \/ (a < m /\ l = a + 1) \/ (a < m /\ l \in a + 2 .. m) \/ (m < j /\ l \in m + 1 .. j)
      BY <1>1
    <3>2. CASE l \in i .. a
      BY ONLY <1>1, <1>3, <2>2, <2>3, <3>2
    <3>3. CASE a < m /\ l = a + 1
      BY ONLY <2>2, <3>3
    <3>4. CASE a < m /\ l \in a + 2 .. m
      BY ONLY <1>3, <2>2, <2>3, <3>4
    <3>5. CASE m < j /\ l \in m + 1 .. j
      BY ONLY <1>6, <2>2, <2>3, <3>5
    <3> QED BY ONLY <3>1, <3>2, <3>3, <3>4, <3>5
  <2> QED BY <2>4
<1> QED BY <1>7, <1>8

Parens == {"(", ")"}
Arrow == <<"-", ">">>

\* A token that is no operator and no string has no parenthesis and is no arrow.
LEMMA PlainPiece ==
  ASSUME NEW s \in Seq(Characters), NEW i \in 1 .. Len(s), NEW j \in i .. Len(s), NEW w, w = SubSeq(s, i, j),
         Meaning(w) # Error, w \notin Operators, s[i] # Quote
  PROVE  /\ s[i] \in WordChars \cup {":"} /\ Head(Meaning(w).data) \in WordChars
         /\ \A l \in i .. j : s[l] \notin Parens
<1>1. /\ w \in Seq(Characters) /\ Len(w) = j - i + 1 /\ Len(w) \in Nat \ {0} /\ w # <<>> /\ Head(w) = s[i]
      /\ \A k \in i .. j : w[k - i + 1] = s[k]
  <2>1. w \in Seq(Characters) /\ Len(w) = j - i + 1 /\ \A k \in i .. j : w[k - i + 1] = s[k]
    BY Piece
  <2>2. Len(w) \in Nat \ {0} /\ i - i + 1 = 1 /\ i \in i .. j
    BY ONLY <2>1, i \in 1 .. Len(s), j \in i .. Len(s), Len(s) \in Nat
  <2>3. w # <<>> /\ Head(w) = s[i]
    BY ONLY <2>1, <2>2
  <2> QED BY ONLY <2>1, <2>2, <2>3
<1>2. \A k, d : Lexeme(k, d).data = d
  BY DEF Lexeme
<1>3. /\ Letters \cup {"_"} \subseteq WordChars /\ Digits \subseteq WordChars
      /\ \A c \in WordChars \cup {".", "-", ":"} : c \notin Parens
  BY DEF Letters, Digits, WordChars, Alnum, Parens
<1>4. \A l \in i .. j : l - i + 1 \in 1 .. Len(w)
  BY <1>1
<1>5. CASE Word(w)
  <2>1. Head(w) \in Letters \cup {"_"}
    BY ONLY <1>1, <1>5, FirstSays
  <2>2. Meaning(w).data = w
    BY ONLY <1>1, <1>2, <1>5, MeaningOf
  <2>3. \A k \in 1 .. Len(w) : w[k] \in WordChars
    BY ONLY <1>1, <1>5, AllOf DEF Word
  <2>4. \A l \in i .. j : s[l] \in WordChars
    BY ONLY <1>1, <1>4, <2>3
  <2> QED BY ONLY <1>1, <1>3, <2>1, <2>2, <2>4
<1>6. CASE Atom(w)
  <2>1. PICK v : v = Tail(w)
    OBVIOUS
  <2>2. Word(v) /\ Head(w) = ":" /\ v \in Seq(Characters) /\ v # <<>>
    BY ONLY <1>1, <1>6, <2>1 DEF Atom, Word
  <2>3. Head(v) \in Letters \cup {"_"}
    BY ONLY <2>2, FirstSays
  <2>4. Meaning(w).data = v
    <3>1. Meaning(w) = Lexeme("atom", Tail(w))
      BY ONLY <1>1, <1>6, MeaningOf
    <3> QED BY ONLY <1>2, <2>1, <3>1
  <2>5. \A k \in 1 .. Len(v) : v[k] \in WordChars
    BY ONLY <2>2, AllOf DEF Word
  <2>6. Len(v) = Len(w) - 1 /\ \A k \in 1 .. Len(v) : v[k] = w[k + 1]
    BY ONLY <1>1, <2>1
  <2>7. ASSUME NEW l \in i .. j
        PROVE  s[l] \in WordChars \cup {":"}
    <3>1. l = i \/ (l - i \in 1 .. Len(v) /\ l - i + 1 \in 1 .. Len(w))
      BY <1>1, <2>6
    <3>2. CASE l = i
      BY ONLY <1>1, <2>2, <3>2
    <3>3. CASE l - i \in 1 .. Len(v)
      BY ONLY <1>1, <2>5, <2>6, <2>7, <3>3
    <3> QED BY <3>1, <3>2, <3>3
  <2> QED BY ONLY <1>1, <1>3, <2>2, <2>3, <2>4, <2>7
<1>7. CASE Integer(w) \/ Float(w)
  <2>1. Head(w) \in Digits
    BY ONLY <1>1, <1>7, FirstSays
  <2>2. Meaning(w).data = w
    <3>1. Integer(w) => Meaning(w) = Lexeme("int", w)
      BY ONLY <1>1, MeaningOf
    <3>2. ~Integer(w) /\ Float(w) => Meaning(w) = Lexeme("float", w)
      BY ONLY <1>1, MeaningOf
    <3> QED BY ONLY <1>2, <1>7, <3>1, <3>2
  <2>3. AreInteger(s, i, j) \/ AreFloat(s, i, j)
    BY <1>7, IntegerPiece, FloatPiece
  <2>4. \A l \in i .. j : s[l] \in WordChars \cup {".", "-"}
    BY ONLY <2>3, s \in Seq(Characters), i \in 1 .. Len(s), j \in i .. Len(s), NumberPlaces
  <2> QED BY ONLY <1>1, <1>3, <2>1, <2>2, <2>4
<1>8. ~Quoted(w)
  BY ONLY <1>1, s[i] # Quote, FirstSays
<1>9. Word(w) \/ Atom(w) \/ Integer(w) \/ Float(w)
  BY ONLY <1>1, <1>8, Meaning(w) # Error, w \notin Operators, MeaningOf
<1> QED BY <1>5, <1>6, <1>7, <1>9

\* An operator with a parenthesis is one, and the one of more characters that
\* begins with a minus is the arrow.
LEMMA OperatorParens ==
  ASSUME NEW w \in Operators
  PROVE  /\ Len(w) \in 1 .. 3 /\ \A l \in 2 .. Len(w) : w[l] \notin Parens
         /\ Len(w) = 1 \/ w[1] \notin Parens
         /\ Len(w) = 1 => w = <<w[1]>>
         /\ Len(w) > 1 /\ w[1] = "-" => w = Arrow
<1>1. CASE w \in Singles
  <2>1. PICK c : w = <<c>>
    BY <1>1 DEF Singles
  <2>2. Len(w) = 1 /\ w[1] = c
    BY <2>1
  <2> QED BY <2>1, <2>2
<1>2. CASE w \in Doubles
  <2>1. PICK c, d : w = <<c, d>> /\ c \notin Parens /\ d \notin Parens /\ (c = "-" => d = ">")
    BY <1>2 DEF Doubles, Parens
  <2>2. Len(w) = 2 /\ w[1] = c /\ w[2] = d
    BY <2>1
  <2>3. \A l \in 2 .. 2 : l = 2
    OBVIOUS
  <2> QED BY <2>1, <2>2, <2>3 DEF Arrow
<1>3. CASE w \in Triples
  <2>1. w = <<">", ">", ">">>
    BY <1>3 DEF Triples
  <2>2. Len(w) = 3 /\ w[1] = ">" /\ w[2] = ">" /\ w[3] = ">"
    BY <2>1
  <2>3. \A l \in 2 .. 3 : l = 2 \/ l = 3
    OBVIOUS
  <2> QED BY <2>2, <2>3 DEF Parens
<1> QED BY <1>1, <1>2, <1>3 DEF Operators

\* What the token t of the characters from k to j says of them.
Shape(s, k, j, t) ==
  /\ j \in k .. Len(s) /\ (s[k] \in Parens => j = k) /\ \A l \in k + 1 .. j : s[l] \notin Parens
  /\ \A c \in Parens : t.data = <<c>> <=> s[k] = c
  /\ t.data = Arrow <=> Pair(s, k) = Arrow

LEMMA TokenShape ==
  ASSUME NEW s \in Seq(Characters), NEW k, Begins(s, k), s[k] # Quote, TokensFrom(s)[k] # <<TokenAt(Error, k)>>
  PROVE  \E j, t : Shape(s, k, j, t) /\ TokensFrom(s)[k] = <<TokenAt(t, k)>> \o TokensFrom(s)[j + 1]
<1>1. k \in 1 .. Len(s) /\ k \in Nat /\ Len(s) \in Nat
  BY DEF Begins
<1>2. ~Refused(s, k)
  BY ErrorThere
<1>3. PICK j, w, t : j = Longest(s, k) /\ w = SubSeq(s, k, j) /\ t = Meaning(w)
  OBVIOUS
<1>4. TokensFrom(s)[k] = <<TokenAt(t, k)>> \o TokensFrom(s)[j + 1]
  <2>1. PICK F : F = TokensFrom(s)
    OBVIOUS
  <2>2. F[k] = FromStep(s, F, k)
    BY ONLY <1>1, <2>1, FromTurns
  <2>3. t = LongestMeaning(s, k) /\ ~(k > Len(s))
    BY <1>1, <1>3 DEF LongestMeaning
  <2> QED BY ONLY <1>2, <1>3, <2>1, <2>2, <2>3, Begins(s, k) DEF FromStep, Begins
<1>5. Ends(s, k) # {}
  BY <1>2 DEF Refused
<1>6. j \in Ends(s, k) /\ j \in k .. Len(s) /\ \A l \in Ends(s, k) : l <= j
  BY ONLY <1>1, <1>3, <1>5, LongestIn
<1>7. t # Error /\ j \in Nat /\ k <= j
  BY ONLY <1>1, <1>3, <1>6 DEF Ends
<1>8. w \in Seq(Characters) /\ Len(w) = j - k + 1 /\ Len(w) \in Nat \ {0} /\ \A l \in k .. j : w[l - k + 1] = s[l]
  <2>1. w \in Seq(Characters) /\ Len(w) = j - k + 1 /\ \A l \in k .. j : w[l - k + 1] = s[l]
    BY ONLY <1>1, <1>3, <1>6, s \in Seq(Characters), Piece
  <2> QED BY ONLY <1>1, <1>6, <2>1
<1>9. w[1] = s[k] /\ w # <<>> /\ Head(w) = s[k]
  <2>1. k - k + 1 = 1 /\ k \in k .. j
    BY ONLY <1>1, <1>6
  <2>2. w[1] = s[k]
    BY ONLY <1>8, <2>1
  <2> QED BY ONLY <1>8, <2>2
<1>10. CASE w \notin Operators
  <2>1. /\ s[k] \in WordChars \cup {":"} /\ Head(t.data) \in WordChars
        /\ \A l \in k .. j : s[l] \notin Parens
    BY ONLY <1>1, <1>3, <1>6, <1>7, <1>10, s \in Seq(Characters), s[k] # Quote, PlainPiece
  <2>2. \A c \in WordChars : c \notin Parens /\ c # "-"
    BY DEF WordChars, Alnum, Letters, Digits, Parens
  <2>3. s[k] # "-" /\ s[k] \notin Parens
    BY ONLY <2>1, <2>2 DEF Parens
  <2>4. \A c \in Parens : t.data # <<c>>
    <3>1. \A c : Head(<<c>>) = c
      OBVIOUS
    <3> QED BY ONLY <2>1, <2>2, <3>1
  <2>5. t.data # Arrow
    <3>1. Head(Arrow) = "-"
      BY DEF Arrow
    <3> QED BY ONLY <2>1, <2>2, <3>1
  <2>6. Pair(s, k) # Arrow
    BY ONLY <2>3 DEF Pair, Arrow
  <2>7. \A l \in k + 1 .. j : l \in k .. j
    BY ONLY <1>1, <1>7
  <2>8. Shape(s, k, j, t)
    BY ONLY <1>6, <2>1, <2>3, <2>4, <2>5, <2>6, <2>7 DEF Shape
  <2> QED BY ONLY <1>4, <2>8
<1>11. CASE w \in Operators
  <2>1. t.data = w
    <3>1. t = Lexeme("op", w)
      BY ONLY <1>3, <1>8, <1>9, <1>11, MeaningOf
    <3> QED BY ONLY <3>1 DEF Lexeme
  <2>2. /\ Len(w) \in 1 .. 3 /\ \A l \in 2 .. Len(w) : w[l] \notin Parens
        /\ Len(w) = 1 \/ w[1] \notin Parens
        /\ Len(w) = 1 => w = <<w[1]>>
        /\ Len(w) > 1 /\ w[1] = "-" => w = Arrow
    BY ONLY <1>11, OperatorParens
  <2>3. s[k] \in Parens => j = k
    <3>1. PICK n : n = Len(w)
      OBVIOUS
    <3>2. n = j - k + 1
      BY ONLY <1>8, <3>1
    <3>3. n = 1 => j = k
      BY ONLY <1>1, <1>7, <3>2
    <3> QED BY ONLY <1>9, <2>2, <3>1, <3>3
  <2>4. ASSUME NEW l \in k + 1 .. j
        PROVE  s[l] \notin Parens
    <3>1. l - k + 1 \in 2 .. Len(w) /\ l \in k .. j
      BY ONLY <1>1, <1>7, <1>8, <2>4
    <3> QED BY ONLY <1>8, <2>2, <3>1
  <2>5. ASSUME NEW c \in Parens
        PROVE  t.data = <<c>> <=> s[k] = c
    <3>1. ASSUME w = <<c>> PROVE s[k] = c
      BY ONLY <1>9, <3>1
    <3>2. ASSUME s[k] = c PROVE w = <<c>>
      BY ONLY <1>9, <2>2, <2>5, <3>2
    <3> QED BY ONLY <2>1, <3>1, <3>2
  <2>6. ASSUME w = Arrow
        PROVE  Pair(s, k) = Arrow
    <3>1. Len(w) = 2 /\ w[1] = "-" /\ w[2] = ">"
      BY ONLY <2>6 DEF Arrow
    <3>2. j = k + 1 /\ k + 1 \in k .. j /\ (k + 1) - k + 1 = 2 /\ k < Len(s)
      <4>1. j - k + 1 = 2
        BY ONLY <1>8, <3>1
      <4>2. j = k + 1
        BY ONLY <1>1, <1>7, <4>1
      <4> QED BY ONLY <1>1, <1>6, <4>2
    <3>3. s[k + 1] = ">"
      BY ONLY <1>8, <3>1, <3>2
    <3> QED BY ONLY <1>9, <3>1, <3>2, <3>3 DEF Pair, Arrow
  <2>7. ASSUME Pair(s, k) = Arrow
        PROVE  w = Arrow
    <3>1. k < Len(s) /\ s[k] = "-" /\ s[k + 1] = ">"
      <4>1. <<>> # Arrow
        BY DEF Arrow
      <4>2. k < Len(s) /\ <<s[k], s[k + 1]>> = Arrow
        BY ONLY <2>7, <4>1 DEF Pair
      <4> QED BY ONLY <4>2 DEF Arrow
    <3>2. PICK c : c = k + 1
      OBVIOUS
    <3>3. c \in k .. Len(s) /\ k \in k .. c /\ c \in k .. c /\ k - k + 1 = 1 /\ c - k + 1 = 2
      BY ONLY <1>1, <3>1, <3>2
    <3>4. PICK v : v = SubSeq(s, k, c)
      OBVIOUS
    <3>5. v \in Seq(Characters) /\ Len(v) = c - k + 1 /\ \A l \in k .. c : v[l - k + 1] = s[l]
      BY ONLY <1>1, <3>3, <3>4, s \in Seq(Characters), Piece
    <3>6. Len(v) = 2 /\ v[1] = "-" /\ v[2] = ">"
      BY ONLY <3>1, <3>2, <3>3, <3>5
    <3>7. v = Arrow
      <4>1. Arrow \in Seq(Characters) /\ Len(Arrow) = 2 /\ Arrow[1] = "-" /\ Arrow[2] = ">"
        <5>1. "-" \in Characters /\ ">" \in Characters
          BY Zenon DEF Characters
        <5> QED BY ONLY <5>1 DEF Arrow
      <4>2. \A l \in 1 .. 2 : l = 1 \/ l = 2
        OBVIOUS
      <4>3. Len(v) = Len(Arrow) /\ \A l \in 1 .. Len(v) : v[l] = Arrow[l]
        BY ONLY <3>6, <4>1, <4>2
      <4> QED BY ONLY <3>5, <4>1, <4>3, SeqEqual
    <3>8. v \in Operators
      BY ONLY <3>7 DEF Arrow, Operators, Doubles
    <3>9. v # <<>>
      BY ONLY <3>7 DEF Arrow
    <3>10. Meaning(v) # Error
      BY ONLY <3>5, <3>8, <3>9, MeaningOf
    <3>11. c <= j
      BY ONLY <1>6, <3>3, <3>4, <3>10 DEF Ends
    <3>12. Len(w) > 1
      BY ONLY <1>1, <1>7, <1>8, <3>2, <3>11
    <3> QED BY ONLY <1>9, <2>2, <3>1, <3>12
  <2>8. t.data = Arrow <=> Pair(s, k) = Arrow
    BY ONLY <2>1, <2>6, <2>7
  <2>9. Shape(s, k, j, t)
    BY ONLY <1>6, <2>3, <2>4, <2>5, <2>8 DEF Shape
  <2> QED BY ONLY <1>4, <2>9
<1> QED BY <1>10, <1>11

\* T is G after a.
IsAfter(T, a, G) ==
  /\ Sequence(T) /\ Len(G) \in Nat /\ Len(T) = Len(G) + 1 /\ T[1] = a
  /\ \A n \in 2 .. Len(T) : n - 1 \in 1 .. Len(G) /\ T[n] = G[n - 1]
  /\ \A n \in 1 .. Len(G) : n + 1 \in 2 .. Len(T) /\ T[n + 1] = G[n]

LEMMA Before ==
  ASSUME NEW G, Sequence(G), NEW a, NEW T, T = <<a>> \o G
  PROVE  IsAfter(T, a, G)
<1>1. PICK S : G \in Seq(S)
  BY DEF Sequence
<1>2. <<a>> \in Seq(S \cup {a}) /\ G \in Seq(S \cup {a}) /\ Len(<<a>>) = 1 /\ Len(G) \in Nat
  BY <1>1
<1>3. T \in Seq(S \cup {a}) /\ Len(T) = 1 + Len(G)
  BY ONLY <1>2, T = <<a>> \o G, ConcatProperties
<1>4. \A n \in 1 .. Len(T) : T[n] = IF n <= 1 THEN <<a>>[n] ELSE G[n - 1]
  BY ONLY <1>2, <1>3, T = <<a>> \o G, ConcatProperties
<1>5. T[1] = a
  <2>1. 1 \in 1 .. Len(T) /\ <<a>>[1] = a
    BY <1>2, <1>3
  <2> QED BY ONLY <1>4, <2>1
<1>6. ASSUME NEW n \in 2 .. Len(T)
      PROVE  n - 1 \in 1 .. Len(G) /\ T[n] = G[n - 1]
  BY ONLY <1>2, <1>3, <1>4, n \in 2 .. Len(T)
<1>7. ASSUME NEW n \in 1 .. Len(G)
      PROVE  n + 1 \in 2 .. Len(T) /\ T[n + 1] = G[n]
  <2>1. PICK m : m = n + 1
    OBVIOUS
  <2>2. m \in 2 .. Len(T) /\ m - 1 = n
    BY ONLY <1>2, <1>3, <2>1, n \in 1 .. Len(G)
  <2> QED BY ONLY <1>6, <2>1, <2>2
<1> QED BY <1>2, <1>3, <1>5, <1>6, <1>7 DEF Sequence, IsAfter

\* What the token x says of the text, if q is where the next one begins.
Says(s, x, q) ==
  /\ x.first \in 1 .. Len(s)
  /\ \A c \in Parens : x.lexeme.data = <<c>> <=> s[x.first] = c
  /\ x.lexeme.data = Arrow <=> Pair(s, x.first) = Arrow
  /\ s[x.first] \in Parens => q = After(s, x.first + 1, Plain)

\* T are the tokens of the text from i on: each parenthesis is one, and no other
\* token has the spelling of one.
Chain(s, i, T) ==
  /\ Sequence(T) /\ Len(T) > 0 /\ T[Len(T)] = TokenAt(End, Len(s) + 1)
  /\ T[1].first = After(s, i, Plain)
  /\ \A n \in 1 .. Len(T) : T[n].first \in i .. Len(s) + 1
  /\ \A n, m \in 1 .. Len(T) : n < m => T[n].first < T[m].first
  /\ \A k \in i .. Len(s) : s[k] \in Parens => \E n \in 1 .. Len(T) : T[n].first = k
  /\ \A n \in 1 .. Len(T) - 1 : Says(s, T[n], T[n + 1].first)

\* Where only blanks are left.
LEMMA ChainEnd ==
  ASSUME NEW s, Len(s) \in Nat, NEW i \in 1 .. Len(s) + 1, After(s, i, Plain) = Len(s) + 1,
         NEW T, T = <<TokenAt(End, Len(s) + 1)>>
  PROVE  Chain(s, i, T)
<1>1. PICK e : e = Len(s) + 1
  OBVIOUS
<1>2. Sequence(T) /\ Len(T) = 1 /\ T[1] = TokenAt(End, e)
  <2>1. T \in Seq({TokenAt(End, e)}) /\ Len(T) = 1 /\ T[1] = TokenAt(End, e)
    BY <1>1
  <2> QED BY ONLY <2>1 DEF Sequence
<1>3. T[1].first = e
  BY ONLY <1>2 DEF TokenAt
<1>4. \A k \in i .. Len(s) : s[k] \notin Parens
  <2>1. \A k \in i .. e - 1 : s[k] \in Plain
    BY <1>1, AfterIs
  <2>2. \A k \in i .. Len(s) : k \in i .. e - 1
    BY <1>1
  <2>3. \A c \in Plain : c \notin Parens
    BY DEF Plain, Parens
  <2> QED BY ONLY <2>1, <2>2, <2>3
<1>5. e \in i .. Len(s) + 1 /\ \A n \in 1 .. 1 : n = 1
  BY <1>1
<1>6. \A n \in 1 .. Len(T) : T[n].first \in i .. Len(s) + 1
  BY ONLY <1>2, <1>3, <1>5
<1>7. \A n, m \in 1 .. Len(T) : ~(n < m)
  BY ONLY <1>2
<1>8. 1 .. Len(T) - 1 = {}
  BY ONLY <1>2
<1>9. T[1].first = After(s, i, Plain) /\ T[Len(T)] = TokenAt(End, Len(s) + 1) /\ Len(T) > 0
  BY ONLY <1>1, <1>2, <1>3, After(s, i, Plain) = Len(s) + 1
<1> QED BY ONLY <1>2, <1>4, <1>6, <1>7, <1>8, <1>9 DEF Chain

\* Before a token.
LEMMA ChainGrows ==
  ASSUME NEW s, Len(s) \in Nat, NEW i \in 1 .. Len(s) + 1, NEW p, p = After(s, i, Plain), p <= Len(s),
         NEW j, NEW t, Shape(s, p, j, t), NEW G, Chain(s, j + 1, G), NEW T, T = <<TokenAt(t, p)>> \o G
  PROVE  Chain(s, i, T)
<1>1. p \in i .. Len(s) + 1 /\ \A l \in i .. p - 1 : s[l] \in Plain
  BY AfterIs
<1>2. j \in p .. Len(s) /\ (s[p] \in Parens => j = p) /\ \A l \in p + 1 .. j : s[l] \notin Parens
  BY DEF Shape
<1>3. PICK q : q = j + 1
  OBVIOUS
<1>4. /\ i \in Nat /\ 1 <= i /\ p \in Nat /\ i <= p /\ p <= Len(s) /\ p <= j /\ j <= Len(s)
      /\ q \in Nat /\ p < q /\ q <= Len(s) + 1
  BY <1>1, <1>2, <1>3
<1>5. /\ Sequence(G) /\ Len(G) > 0 /\ G[Len(G)] = TokenAt(End, Len(s) + 1)
      /\ G[1].first = After(s, q, Plain)
      /\ \A n \in 1 .. Len(G) : G[n].first \in q .. Len(s) + 1
      /\ \A n, m \in 1 .. Len(G) : n < m => G[n].first < G[m].first
      /\ \A k \in q .. Len(s) : s[k] \in Parens => \E n \in 1 .. Len(G) : G[n].first = k
      /\ \A n \in 1 .. Len(G) - 1 : Says(s, G[n], G[n + 1].first)
  BY <1>3 DEF Chain
<1>6. /\ Sequence(T) /\ Len(G) \in Nat /\ Len(T) = Len(G) + 1 /\ T[1] = TokenAt(t, p)
      /\ \A n \in 2 .. Len(T) : n - 1 \in 1 .. Len(G) /\ T[n] = G[n - 1]
      /\ \A n \in 1 .. Len(G) : n + 1 \in 2 .. Len(T) /\ T[n + 1] = G[n]
  <2>1. PICK a : a = TokenAt(t, p)
    OBVIOUS
  <2>2. IsAfter(T, a, G)
    BY ONLY <1>5, <2>1, T = <<TokenAt(t, p)>> \o G, Before
  <2> QED BY ONLY <2>1, <2>2 DEF IsAfter
<1>7. T[1].first = p /\ T[1].lexeme = t
  BY ONLY <1>6 DEF TokenAt
<1>8. \A n \in 1 .. Len(T) : n = 1 \/ n \in 2 .. Len(T)
  BY ONLY <1>6
<1>9. Len(T) > 0 /\ T[Len(T)] = TokenAt(End, Len(s) + 1)
  <2>1. Len(T) \in 2 .. Len(T) /\ Len(T) - 1 = Len(G)
    BY ONLY <1>5, <1>6
  <2>2. T[Len(T)] = G[Len(G)]
    BY ONLY <1>6, <2>1
  <2> QED BY ONLY <1>5, <2>1, <2>2
<1>10. ASSUME NEW n \in 1 .. Len(T)
       PROVE  T[n].first \in i .. Len(s) + 1 /\ (n # 1 => T[n].first \in q .. Len(s) + 1)
  <2>1. CASE n = 1
    BY ONLY <1>1, <1>7, <2>1
  <2>2. CASE n \in 2 .. Len(T)
    <3>1. T[n].first \in q .. Len(s) + 1
      BY ONLY <1>5, <1>6, <2>2
    <3>2. \A x \in q .. Len(s) + 1 : x \in i .. Len(s) + 1
      BY <1>4
    <3> QED BY ONLY <3>1, <3>2
  <2> QED BY ONLY <1>8, <1>10, <2>1, <2>2
<1>11. ASSUME NEW n \in 1 .. Len(T), NEW m \in 1 .. Len(T), n < m
       PROVE  T[n].first < T[m].first
  <2>1. m \in 2 .. Len(T) /\ m # 1
    BY ONLY <1>6, <1>11
  <2>2. CASE n = 1
    <3>1. T[m].first \in q .. Len(s) + 1
      BY ONLY <1>10, <2>1, m \in 1 .. Len(T)
    <3> QED BY ONLY <1>4, <1>7, <2>2, <3>1
  <2>3. CASE n \in 2 .. Len(T)
    <3>1. n - 1 \in 1 .. Len(G) /\ m - 1 \in 1 .. Len(G) /\ T[n] = G[n - 1] /\ T[m] = G[m - 1]
      BY ONLY <1>6, <2>1, <2>3
    <3>2. n - 1 < m - 1
      BY ONLY <1>6, <1>11
    <3> QED BY ONLY <1>5, <3>1, <3>2
  <2> QED BY ONLY <1>8, <1>11, <2>2, <2>3
<1>12. ASSUME NEW k \in i .. Len(s), s[k] \in Parens
       PROVE  \E n \in 1 .. Len(T) : T[n].first = k
  <2>1. k \in i .. p - 1 \/ k = p \/ k \in p + 1 .. j \/ k \in q .. Len(s)
    <3>1. j \in Nat /\ k \in Nat
      BY <1>2, <1>4
    <3> QED BY ONLY <1>3, <1>4, <3>1, k \in i .. Len(s), Len(s) \in Nat
  <2>2. k \notin i .. p - 1
    <3>1. \A c \in Plain : c \notin Parens
      BY DEF Plain, Parens
    <3> QED BY ONLY <1>1, <1>12, <3>1
  <2>3. k \notin p + 1 .. j
    BY ONLY <1>2, <1>12
  <2>4. CASE k = p
    <3>1. 1 \in 1 .. Len(T)
      BY ONLY <1>6
    <3> QED BY ONLY <1>7, <2>4, <3>1
  <2>5. CASE k \in q .. Len(s)
    <3>1. PICK n \in 1 .. Len(G) : G[n].first = k
      BY ONLY <1>5, <1>12, <2>5
    <3>2. n + 1 \in 1 .. Len(T) /\ T[n + 1] = G[n]
      BY ONLY <1>6, n \in 1 .. Len(G)
    <3> QED BY ONLY <3>1, <3>2
  <2> QED BY ONLY <2>1, <2>2, <2>3, <2>4, <2>5
<1>13. ASSUME NEW n \in 1 .. Len(T) - 1
       PROVE  Says(s, T[n], T[n + 1].first)
  <2>1. CASE n = 1
    <3>1. T[2].first = After(s, q, Plain)
      <4>1. 2 \in 2 .. Len(T) /\ 2 - 1 = 1
        BY ONLY <1>5, <1>6
      <4> QED BY ONLY <1>5, <1>6, <4>1
    <3>2. p \in 1 .. Len(s) /\ (s[p] \in Parens => q = p + 1)
      BY ONLY <1>2, <1>3, <1>4, Len(s) \in Nat
    <3>3. /\ \A c \in Parens : t.data = <<c>> <=> s[p] = c
          /\ t.data = Arrow <=> Pair(s, p) = Arrow
      BY DEF Shape
    <3>4. n + 1 = 2
      BY ONLY <2>1
    <3> QED BY ONLY <1>7, <2>1, <3>1, <3>2, <3>3, <3>4 DEF Says
  <2>2. CASE n \in 2 .. Len(T)
    <3>1. PICK m : m = n - 1
      OBVIOUS
    <3>2. m \in 1 .. Len(G) - 1 /\ n + 1 \in 2 .. Len(T) /\ (n + 1) - 1 = m + 1
      BY ONLY <1>6, <2>2, <3>1, n \in 1 .. Len(T) - 1
    <3>3. T[n] = G[m] /\ T[n + 1] = G[m + 1]
      BY ONLY <1>6, <2>2, <3>1, <3>2
    <3>4. Says(s, G[m], G[m + 1].first)
      BY ONLY <1>5, <3>2
    <3> QED BY ONLY <3>3, <3>4
  <2>3. n = 1 \/ n \in 2 .. Len(T)
    BY ONLY <1>6, n \in 1 .. Len(T) - 1
  <2> QED BY ONLY <2>1, <2>2, <2>3
<1>14. T[1].first = After(s, i, Plain)
  BY ONLY <1>7, p = After(s, i, Plain)
<1> QED BY ONLY <1>6, <1>9, <1>10, <1>11, <1>12, <1>13, <1>14 DEF Chain

\* There is a token or the end of the text everywhere.
LEMMA SomeToken ==
  ASSUME NEW s \in Seq(Characters), NEW i \in 1 .. Len(s) + 1, Bare(s, i), NEW G, G = TokensFrom(s)[i]
  PROVE  Sequence(G) /\ Len(G) \in Nat \ {0}
<1>1. PICK p : p = After(s, i, Plain)
  OBVIOUS
<1>2. /\ G = TokensFrom(s)[p] /\ p \in i .. Len(s) + 1
      /\ p <= Len(s) => Begins(s, p)
      /\ p = Len(s) + 1 => TokensFrom(s)[p] = <<TokenAt(End, p)>>
  BY <1>1, Skips
<1>3. \A x : Sequence(<<x>>) /\ Len(<<x>>) \in Nat \ {0}
  <2> SUFFICES ASSUME NEW x PROVE Sequence(<<x>>) /\ Len(<<x>>) \in Nat \ {0}
    OBVIOUS
  <2>1. <<x>> \in Seq({x}) /\ Len(<<x>>) \in Nat \ {0}
    OBVIOUS
  <2> QED BY ONLY <2>1 DEF Sequence
<1>4. CASE p = Len(s) + 1
  BY ONLY <1>2, <1>3, <1>4
<1>5. CASE p <= Len(s) /\ TokensFrom(s)[p] = <<TokenAt(Error, p)>>
  BY ONLY <1>2, <1>3, <1>5
<1>6. CASE p <= Len(s) /\ TokensFrom(s)[p] # <<TokenAt(Error, p)>>
  <2>1. p \in i .. Len(s) /\ Begins(s, p)
    BY <1>2, <1>6
  <2>2. s[p] # Quote
    BY ONLY <2>1, Bare(s, i) DEF Bare
  <2>3. PICK j, t : Shape(s, p, j, t) /\ TokensFrom(s)[p] = <<TokenAt(t, p)>> \o TokensFrom(s)[j + 1]
    BY ONLY <1>6, <2>1, <2>2, s \in Seq(Characters), TokenShape
  <2>4. PICK H, a : H = TokensFrom(s)[j + 1] /\ a = TokenAt(t, p)
    OBVIOUS
  <2>5. j \in p .. Len(s)
    BY ONLY <2>3 DEF Shape
  <2>6. j + 1 \in Nat /\ Len(s) \in Nat
    BY <1>2, <2>5
  <2>7. Sequence(H)
    BY ONLY <2>4, <2>6, FromSequence
  <2>8. IsAfter(G, a, H)
    BY ONLY <1>2, <2>3, <2>4, <2>7, Before
  <2> QED BY ONLY <2>8 DEF IsAfter
<1>7. p = Len(s) + 1 \/ p <= Len(s)
  BY <1>2
<1> QED BY <1>4, <1>5, <1>6, <1>7

\* The tokens of a text without comments and strings that is in order.
LEMMA Chained ==
  ASSUME NEW s \in Seq(Characters), NEW i \in 1 .. Len(s) + 1, Bare(s, i),
         NEW F, F = TokensFrom(s), F[i][Len(F[i])].lexeme = End
  PROVE  Chain(s, i, F[i])
<1> DEFINE Good(n) == F[n][Len(F[n])].lexeme = End => Chain(s, n, F[n])
           Bad == {n \in i .. Len(s) + 1 : ~Good(n)}
<1>1. Len(s) \in Nat /\ i \in Nat /\ 1 <= i /\ i <= Len(s) + 1
  OBVIOUS
<1>2. ASSUME NEW n \in i .. Len(s) + 1, \A m \in n + 1 .. Len(s) + 1 : Good(m), F[n][Len(F[n])].lexeme = End
      PROVE  Chain(s, n, F[n])
  <2>1. n \in 1 .. Len(s) + 1
    BY ONLY <1>1, <1>2
  <2>2. Bare(s, n)
    <3>1. \A l \in n .. Len(s) : l \in i .. Len(s)
      BY ONLY <1>1, <1>2
    <3> QED BY ONLY <3>1, Bare(s, i) DEF Bare
  <2>3. PICK p : p = After(s, n, Plain)
    OBVIOUS
  <2>4. /\ F[n] = F[p] /\ p \in n .. Len(s) + 1
        /\ p <= Len(s) => Begins(s, p)
        /\ p = Len(s) + 1 => F[p] = <<TokenAt(End, p)>>
    BY ONLY <2>1, <2>2, <2>3, s \in Seq(Characters), F = TokensFrom(s), Skips
  <2>5. CASE p = Len(s) + 1
    BY ONLY <1>1, <2>1, <2>3, <2>4, <2>5, ChainEnd
  <2>6. CASE p <= Len(s)
    <3>1. p \in n .. Len(s) /\ Begins(s, p)
      BY ONLY <1>1, <2>1, <2>4, <2>6
    <3>2. s[p] # Quote
      BY ONLY <2>2, <3>1 DEF Bare
    <3>3. F[p] # <<TokenAt(Error, p)>>
      <4>1. SUFFICES ASSUME F[p] = <<TokenAt(Error, p)>> PROVE FALSE
        OBVIOUS
      <4>2. Len(F[p]) = 1 /\ F[p][1].lexeme = Error
        BY ONLY <4>1 DEF TokenAt
      <4>3. F[p][Len(F[p])].lexeme = End
        BY ONLY <1>2, <2>4
      <4>4. Error # End
        BY DEF Error, End, Lexeme
      <4> QED BY ONLY <4>2, <4>3, <4>4
    <3>4. \E j, t : Shape(s, p, j, t) /\ F[p] = <<TokenAt(t, p)>> \o F[j + 1]
      BY ONLY <3>1, <3>2, <3>3, s \in Seq(Characters), F = TokensFrom(s), TokenShape
    <3>5. PICK j, t : Shape(s, p, j, t) /\ F[p] = <<TokenAt(t, p)>> \o F[j + 1]
      BY ONLY <3>4
    <3>6. PICK G, a : G = F[j + 1] /\ a = TokenAt(t, p)
      OBVIOUS
    <3>7. j + 1 \in n + 1 .. Len(s) + 1 /\ j + 1 \in Nat
      <4>1. j \in p .. Len(s)
        BY ONLY <3>5 DEF Shape
      <4> QED BY ONLY <1>1, <2>1, <2>4, <4>1
    <3>8. Sequence(G)
      BY ONLY <1>1, <3>6, <3>7, F = TokensFrom(s), FromSequence
    <3>9. IsAfter(F[p], a, G)
      BY ONLY <3>5, <3>6, <3>8, Before
    <3>10. Len(G) # 0
      <4>1. PICK m : m = j + 1
        OBVIOUS
      <4>2. m \in 1 .. Len(s) + 1 /\ \A l \in m .. Len(s) : l \in i .. Len(s)
        BY ONLY <1>1, <1>2, <3>7, <4>1
      <4>3. Bare(s, m)
        BY ONLY <4>2, Bare(s, i) DEF Bare
      <4>4. Len(G) \in Nat \ {0}
        BY ONLY <3>6, <4>1, <4>2, <4>3, s \in Seq(Characters), F = TokensFrom(s), SomeToken
      <4> QED BY ONLY <4>4
    <3>11. G[Len(G)].lexeme = End
      <4>1. Len(F[p]) \in 2 .. Len(F[p]) /\ Len(F[p]) - 1 = Len(G)
        BY ONLY <3>9, <3>10 DEF IsAfter
      <4>2. F[p][Len(F[p])] = G[Len(G)]
        BY ONLY <3>9, <4>1 DEF IsAfter
      <4> QED BY ONLY <1>2, <2>4, <4>2
    <3>12. Chain(s, j + 1, G)
      BY ONLY <1>2, <3>6, <3>7, <3>11
    <3>13. Chain(s, n, F[p])
      BY ONLY <1>1, <2>1, <2>3, <2>6, <3>5, <3>6, <3>12, ChainGrows
    <3> QED BY ONLY <2>4, <3>13
  <2>7. p = Len(s) + 1 \/ p <= Len(s)
    BY ONLY <1>1, <2>1, <2>4
  <2> QED BY <2>5, <2>6, <2>7
<1>3. CASE Bad = {}
  <2>1. i \in i .. Len(s) + 1
    BY ONLY <1>1
  <2> QED BY <1>3, <2>1
<1>4. CASE Bad # {}
  <2>1. PICK e : e = Len(s) + 1
    OBVIOUS
  <2>2. Bad \in SUBSET Nat /\ e \in Nat /\ \A n \in Bad : n <= e
    BY <1>1, <2>1
  <2>3. PICK m \in Bad : \A n \in Bad : n <= m
    BY ONLY <1>4, <2>2, Greatest
  <2>4. m \in i .. Len(s) + 1 /\ ~Good(m)
    OBVIOUS
  <2>5. ASSUME NEW n \in m + 1 .. Len(s) + 1
        PROVE  Good(n)
    <3>1. n \in i .. Len(s) + 1 /\ ~(n <= m)
      BY ONLY <1>1, <2>4, n \in m + 1 .. Len(s) + 1
    <3>2. n \notin Bad
      BY ONLY <2>3, <3>1
    <3> QED BY ONLY <3>1, <3>2
  <2>6. Good(m)
    BY ONLY <1>2, <2>4, <2>5
  <2> QED BY <2>4, <2>6
<1> QED BY <1>3, <1>4

-----------------------------------------------------------------------------
(* Parentheses, of the text and of the tokens *)

\* Two finite sets with their elements paired have as many.
LEMMA Paired ==
  ASSUME NEW S, NEW T, IsFiniteSet(S), NEW f \in [S -> T],
         \A x, y \in S : f[x] = f[y] => x = y, \A y \in T : \E x \in S : f[x] = y
  PROVE  Cardinality(S) = Cardinality(T)
<1>1. f \in Bijection(S, T)
  BY DEF Bijection, Injection, Surjection, IsInjective
<1>2. ExistsBijection(S, T)
  BY <1>1 DEF ExistsBijection
<1> QED BY <1>2, FS_Bijection

\* How often x is there from a to b.
HowMany(s, a, b, x) == Cardinality({k \in a .. b : s[k] = x})

\* From the first token of T to the m-th there are as many c among the characters
\* as among the tokens.
LEMMA SameCount ==
  ASSUME NEW s, Len(s) \in Nat, NEW i \in 1 .. Len(s) + 1, NEW T, Chain(s, i, T), NEW m \in 1 .. Len(T) - 1,
         NEW d, d = [n \in DOMAIN T |-> T[n].lexeme.data], NEW c \in Parens,
         NEW a, a = T[1].first, NEW b, b = T[m].first
  PROVE  HowMany(d, 1, m, <<c>>) = HowMany(s, a, b, c)
<1>1. /\ Sequence(T)
      /\ \A n \in 1 .. Len(T) : T[n].first \in i .. Len(s) + 1
      /\ \A n, l \in 1 .. Len(T) : n < l => T[n].first < T[l].first
      /\ \A k \in i .. Len(s) : s[k] \in Parens => \E n \in 1 .. Len(T) : T[n].first = k
      /\ \A n \in 1 .. Len(T) - 1 : Says(s, T[n], T[n + 1].first)
  BY DEF Chain
<1>2. Len(T) \in Nat /\ DOMAIN T = 1 .. Len(T)
  BY <1>1 DEF Sequence
<1>3. \A n \in 1 .. Len(T) : d[n] = T[n].lexeme.data
  BY <1>2
<1>4. PICK A, B : A = {n \in 1 .. m : d[n] = <<c>>} /\ B = {k \in a .. b : s[k] = c}
  OBVIOUS
<1>5. \A n \in 1 .. m : n \in 1 .. Len(T) - 1 /\ n \in 1 .. Len(T)
  BY <1>2
<1>6. \A n \in 1 .. Len(T) - 1 : d[n] = <<c>> <=> s[T[n].first] = c
  <2> SUFFICES ASSUME NEW n \in 1 .. Len(T) - 1 PROVE d[n] = <<c>> <=> s[T[n].first] = c
    OBVIOUS
  <2>1. n \in 1 .. Len(T)
    BY <1>2
  <2>2. PICK x, q : x = T[n] /\ q = T[n + 1].first
    OBVIOUS
  <2>3. Says(s, x, q)
    BY ONLY <1>1, <2>2, n \in 1 .. Len(T) - 1
  <2>4. x.lexeme.data = <<c>> <=> s[x.first] = c
    BY ONLY <2>3, c \in Parens DEF Says
  <2> QED BY ONLY <1>3, <2>1, <2>2, <2>4
<1>7. PICK f : f = [n \in A |-> T[n].first]
  OBVIOUS
<1>8. ASSUME NEW n \in 1 .. Len(T), NEW l \in 1 .. Len(T)
      PROVE  /\ n <= l => T[n].first <= T[l].first
             /\ T[n].first = T[l].first => n = l
             /\ T[n].first \in Nat /\ T[l].first \in Nat
  <2>1. n \in Nat /\ l \in Nat /\ (n < l \/ n = l \/ l < n)
    BY <1>2
  <2>2. T[n].first \in Nat /\ T[l].first \in Nat
    BY <1>1
  <2>3. (n < l => T[n].first < T[l].first) /\ (l < n => T[l].first < T[n].first)
    BY <1>1
  <2> QED BY ONLY <2>1, <2>2, <2>3
<1>9. m \in 1 .. Len(T) /\ 1 \in 1 .. Len(T) /\ m \in Nat
  BY <1>2
<1>10. a \in Nat /\ b \in Nat /\ i <= a /\ b <= Len(s)
  <2>1. a \in i .. Len(s) + 1 /\ b \in i .. Len(s) + 1
    BY ONLY <1>1, <1>9, a = T[1].first, b = T[m].first
  <2>2. b \in 1 .. Len(s)
    BY ONLY <1>1, m \in 1 .. Len(T) - 1, b = T[m].first DEF Says
  <2> QED BY <2>1, <2>2
<1>11. ASSUME NEW n \in A
       PROVE  f[n] \in B
  <2>1. n \in 1 .. m /\ d[n] = <<c>>
    BY <1>4
  <2>2. n \in 1 .. Len(T) - 1 /\ n \in 1 .. Len(T) /\ 1 <= n /\ n <= m
    BY ONLY <1>5, <1>9, <2>1
  <2>3. a <= T[n].first /\ T[n].first <= b /\ T[n].first \in Nat
    BY ONLY <1>8, <1>9, <2>2, a = T[1].first, b = T[m].first
  <2>4. T[n].first \in a .. b
    BY ONLY <1>10, <2>3
  <2>5. s[T[n].first] = c
    BY ONLY <1>6, <2>1, <2>2
  <2> QED BY ONLY <1>4, <1>7, <1>11, <2>4, <2>5
<1>12. ASSUME NEW x \in A, NEW y \in A, f[x] = f[y]
       PROVE  x = y
  <2>1. x \in 1 .. Len(T) /\ y \in 1 .. Len(T)
    BY ONLY <1>4, <1>5, x \in A, y \in A
  <2>2. T[x].first = T[y].first
    BY ONLY <1>7, <1>12
  <2> QED BY ONLY <1>8, <2>1, <2>2
<1>13. ASSUME NEW y \in B
       PROVE  \E x \in A : f[x] = y
  <2>1. y \in a .. b /\ s[y] = c
    BY ONLY <1>4, y \in B
  <2>2. y \in i .. Len(s) /\ y \in Nat /\ y <= b
    BY <1>10, <2>1
  <2>3. PICK n \in 1 .. Len(T) : T[n].first = y
    BY ONLY <1>1, <2>1, <2>2, c \in Parens
  <2>4. n \in Nat /\ 1 <= n /\ (n <= m \/ m < n)
    BY ONLY <1>2, <1>9, n \in 1 .. Len(T)
  <2>5. ~(m < n)
    <3>1. m < n => b < y
      BY ONLY <1>1, <1>9, <2>3, b = T[m].first
    <3> QED BY ONLY <1>10, <2>2, <3>1
  <2>6. n \in 1 .. m
    BY ONLY <1>9, <2>4, <2>5
  <2>7. n \in A
    BY ONLY <1>4, <1>5, <1>6, <2>1, <2>3, <2>6
  <2> QED BY ONLY <1>7, <2>3, <2>7
<1>14. IsFiniteSet(A)
  <2>1. IsFiniteSet(1 .. m) /\ A \in SUBSET (1 .. m)
    BY <1>4, <1>9, FS_Interval
  <2> QED BY ONLY <2>1, FS_Subset
<1>15. f \in [A -> B]
  BY ONLY <1>7, <1>11
<1>16. Cardinality(A) = Cardinality(B)
  BY ONLY <1>12, <1>13, <1>14, <1>15, Paired
<1> QED BY ONLY <1>4, <1>16 DEF HowMany

\* What is no parenthesis changes no depth.
LEMMA DepthStays ==
  ASSUME NEW s, NEW a \in Nat, NEW j \in Nat, NEW o, NEW c, s[j] # o, s[j] # c
  PROVE  Depth(s, a, j, o, c) = Depth(s, a, j - 1, o, c)
<1>1. ASSUME NEW x, s[j] # x
      PROVE  {k \in a .. j : s[k] = x} = {k \in a .. j - 1 : s[k] = x}
  <2>1. \A k \in a .. j : k # j => k \in a .. j - 1
    OBVIOUS
  <2>2. \A k \in a .. j - 1 : k \in a .. j
    OBVIOUS
  <2> QED BY ONLY <1>1, <2>1, <2>2
<1>2. {k \in a .. j : s[k] = o} = {k \in a .. j - 1 : s[k] = o}
  BY <1>1
<1>3. {k \in a .. j : s[k] = c} = {k \in a .. j - 1 : s[k] = c}
  BY <1>1
<1> QED BY ONLY <1>2, <1>3 DEF Depth

\* The places where what is open at a is closed.
ClosedAt(s, a, n, o, c) == {j \in a .. n : Depth(s, a, j, o, c) = 0}

\* The first of the places of the text is that of the first of the tokens.
SameFirst(s, T, C, D) ==
  /\ C # {} <=> D # {}
  /\ D # {} => Min(D) \in 1 .. Len(T) - 1 /\ Min(C) = T[Min(D)].first /\ s[Min(C)] \in Parens

\* A place where it is closed is that of a token that closes it, and the first is
\* that of the first.
LEMMA SameClosed ==
  ASSUME NEW s, Len(s) \in Nat, NEW i \in 1 .. Len(s) + 1, NEW T, Chain(s, i, T), Len(T) > 1,
         NEW d, d = [n \in DOMAIN T |-> T[n].lexeme.data], NEW a, a = T[1].first, s[a] \in Parens,
         NEW C, C = ClosedAt(s, a, Len(s), "(", ")"),
         NEW D, D = ClosedAt(d, 1, Len(T), <<"(">>, <<")">>)
  PROVE  SameFirst(s, T, C, D)
<1>1. /\ Sequence(T) /\ T[Len(T)] = TokenAt(End, Len(s) + 1)
      /\ \A n \in 1 .. Len(T) : T[n].first \in i .. Len(s) + 1
      /\ \A n, l \in 1 .. Len(T) : n < l => T[n].first < T[l].first
      /\ \A k \in i .. Len(s) : s[k] \in Parens => \E n \in 1 .. Len(T) : T[n].first = k
      /\ \A n \in 1 .. Len(T) - 1 : Says(s, T[n], T[n + 1].first)
  BY DEF Chain
<1>2. PICK N : N = Len(T)
  OBVIOUS
<1>3. N \in Nat /\ N > 1 /\ DOMAIN T = 1 .. N /\ N - 1 \in 1 .. N - 1
  <2>1. Len(T) \in Nat /\ DOMAIN T = 1 .. Len(T)
    BY <1>1 DEF Sequence
  <2> QED BY <1>2, <2>1
<1>4. T[N].first = Len(s) + 1 /\ d[N] = <<>>
  <2>1. T[N].first = Len(s) + 1 /\ T[N].lexeme = End
    BY ONLY <1>1, <1>2 DEF TokenAt
  <2>2. N \in 1 .. N
    BY ONLY <1>3
  <2> QED BY ONLY <1>3, <2>1, <2>2, d = [n \in DOMAIN T |-> T[n].lexeme.data] DEF End, Lexeme
<1>5. ASSUME NEW m \in 1 .. N - 1
      PROVE  /\ T[m].first \in a .. Len(s) /\ m \in 1 .. N
             /\ Depth(d, 1, m, <<"(">>, <<")">>) = Depth(s, a, T[m].first, "(", ")")
  <2>1. PICK b : b = T[m].first
    OBVIOUS
  <2>2. m \in 1 .. N /\ 1 \in 1 .. N /\ (m = 1 \/ 1 < m)
    BY ONLY <1>3, m \in 1 .. N - 1
  <2>3. b \in 1 .. Len(s)
    BY ONLY <1>1, <1>2, <2>1, m \in 1 .. N - 1 DEF Says
  <2>4. a \in i .. Len(s) + 1 /\ (b = a \/ a < b)
    BY ONLY <1>1, <1>2, <2>1, <2>2, a = T[1].first
  <2>5. b \in a .. Len(s)
    BY <2>3, <2>4
  <2>6. "(" \in Parens /\ ")" \in Parens
    BY DEF Parens
  <2>7. m \in 1 .. Len(T) - 1
    BY ONLY <1>2, m \in 1 .. N - 1
  <2>8. ASSUME NEW c \in Parens
        PROVE  Cardinality({n \in 1 .. m : d[n] = <<c>>}) = Cardinality({k \in a .. b : s[k] = c})
    <3>1. HowMany(d, 1, m, <<c>>) = HowMany(s, a, b, c)
      BY ONLY <2>1, <2>7, c \in Parens, Len(s) \in Nat, i \in 1 .. Len(s) + 1, Chain(s, i, T),
              d = [n \in DOMAIN T |-> T[n].lexeme.data], a = T[1].first, SameCount
    <3> QED BY ONLY <3>1 DEF HowMany
  <2>9. /\ Cardinality({n \in 1 .. m : d[n] = <<"(">>}) = Cardinality({k \in a .. b : s[k] = "("})
        /\ Cardinality({n \in 1 .. m : d[n] = <<")">>}) = Cardinality({k \in a .. b : s[k] = ")"})
    BY ONLY <2>6, <2>8
  <2> QED BY ONLY <2>1, <2>2, <2>5, <2>9 DEF Depth
<1>6. a \in Nat /\ i <= a /\ a <= Len(s)
  <2>1. 1 \in 1 .. N - 1 /\ 1 \in 1 .. N
    BY ONLY <1>3
  <2>2. a \in i .. Len(s) + 1 /\ a \in 1 .. Len(s)
    BY ONLY <1>1, <1>2, <2>1, a = T[1].first DEF Says
  <2> QED BY <2>2
<1>7. C \in SUBSET Nat /\ D \in SUBSET Nat
  <2>1. /\ \A x \in a .. Len(s) : x \in Nat
        /\ \A x \in 1 .. N : x \in Nat
    BY <1>3, <1>6
  <2> QED BY ONLY <1>2, <2>1, C = ClosedAt(s, a, Len(s), "(", ")"), D = ClosedAt(d, 1, Len(T), <<"(">>, <<")">>) DEF ClosedAt
<1>8. \A j : j \in C <=> j \in a .. Len(s) /\ Depth(s, a, j, "(", ")") = 0
  BY ONLY C = ClosedAt(s, a, Len(s), "(", ")") DEF ClosedAt
<1>9. \A m : m \in D <=> m \in 1 .. N /\ Depth(d, 1, m, <<"(">>, <<")">>) = 0
  BY ONLY <1>2, D = ClosedAt(d, 1, Len(T), <<"(">>, <<")">>) DEF ClosedAt
<1>10. \A m \in 1 .. N - 1 : m \in D <=> T[m].first \in C
  BY ONLY <1>5, <1>8, <1>9
<1>11. ASSUME C # {}
       PROVE  /\ s[Min(C)] \in Parens /\ Min(C) \in C /\ \A j \in C : Min(C) <= j
              /\ \E n \in 1 .. N - 1 : T[n].first = Min(C)
  <2>1. PICK j : j = Min(C)
    OBVIOUS
  <2>2. j \in C /\ \A l \in C : j <= l
    BY ONLY <1>7, <1>11, <2>1, LeastIs
  <2>3. j \in a .. Len(s) /\ Depth(s, a, j, "(", ")") = 0 /\ j \in Nat
    BY ONLY <1>7, <1>8, <2>2
  <2>4. s[j] \in Parens
    <3>1. SUFFICES ASSUME s[j] \notin Parens PROVE FALSE
      OBVIOUS
    <3>2. j # a
      BY ONLY <3>1, s[a] \in Parens
    <3>3. j - 1 \in a .. Len(s) /\ ~(j <= j - 1)
      BY <1>6, <2>3, <3>2
    <3>4. Depth(s, a, j, "(", ")") = Depth(s, a, j - 1, "(", ")")
      <4>1. s[j] # "(" /\ s[j] # ")"
        BY ONLY <3>1 DEF Parens
      <4> QED BY ONLY <1>6, <2>3, <4>1, DepthStays
    <3>5. j - 1 \in C
      BY ONLY <1>8, <2>3, <3>3, <3>4
    <3> QED BY ONLY <2>2, <3>3, <3>5
  <2>5. j \in i .. Len(s)
    BY <1>6, <2>3
  <2>6. PICK n \in 1 .. N : T[n].first = j
    BY ONLY <1>1, <1>2, <2>4, <2>5
  <2>7. n # N
    BY <1>4, <2>3, <2>6
  <2>8. n \in 1 .. N - 1
    BY ONLY <1>3, <2>7, n \in 1 .. N
  <2> QED BY ONLY <2>1, <2>2, <2>4, <2>6, <2>8
<1>12. C # {} => D # {}
  BY ONLY <1>10, <1>11
<1>13. ASSUME D # {}
       PROVE  /\ C # {} /\ Min(D) \in 1 .. N - 1
              /\ Min(C) = T[Min(D)].first /\ s[Min(C)] \in Parens
  <2>1. PICK m : m = Min(D)
    OBVIOUS
  <2>2. m \in D /\ \A l \in D : m <= l
    BY ONLY <1>7, <1>13, <2>1, LeastIs
  <2>3. m \in 1 .. N /\ Depth(d, 1, m, <<"(">>, <<")">>) = 0
    BY ONLY <1>9, <2>2
  <2>4. m # N
    <3>1. SUFFICES ASSUME m = N PROVE FALSE
      OBVIOUS
    <3>2. <<>> # <<"(">> /\ <<>> # <<")">>
      OBVIOUS
    <3>3. Depth(d, 1, N, <<"(">>, <<")">>) = Depth(d, 1, N - 1, <<"(">>, <<")">>)
      BY ONLY <1>3, <1>4, <3>2, 1 \in Nat, DepthStays
    <3>4. N - 1 \in 1 .. N /\ ~(N <= N - 1)
      BY ONLY <1>3
    <3>5. N - 1 \in D
      BY ONLY <1>9, <2>3, <3>1, <3>3, <3>4
    <3> QED BY ONLY <2>2, <3>1, <3>4, <3>5
  <2>5. m \in 1 .. N - 1
    BY ONLY <1>3, <2>3, <2>4
  <2>6. T[m].first \in C
    BY ONLY <1>10, <2>2, <2>5
  <2>7. C # {}
    BY ONLY <2>6
  <2>8. PICK j : j = Min(C)
    OBVIOUS
  <2>9. s[j] \in Parens /\ j \in C /\ \A l \in C : j <= l
    BY ONLY <1>11, <2>7, <2>8
  <2>10. \E n \in 1 .. N - 1 : T[n].first = j
    BY ONLY <1>11, <2>7, <2>8
  <2>11. PICK n \in 1 .. N - 1 : T[n].first = j
    BY ONLY <2>10
  <2>12. m <= n
    BY ONLY <1>10, <2>2, <2>9, <2>11
  <2>13. m \in 1 .. N /\ n \in 1 .. N /\ (m = n \/ m < n)
    BY ONLY <1>3, <2>5, <2>12, n \in 1 .. N - 1
  <2>14. ~(m < n)
    <3>1. SUFFICES ASSUME m < n PROVE FALSE
      OBVIOUS
    <3>2. T[m].first < j
      BY ONLY <1>1, <1>2, <2>11, <2>13, <3>1
    <3>3. j <= T[m].first
      BY ONLY <2>6, <2>9
    <3>4. j \in Nat /\ T[m].first \in Nat
      BY ONLY <1>7, <2>6, <2>9
    <3> QED BY ONLY <3>2, <3>3, <3>4
  <2> QED BY ONLY <2>1, <2>5, <2>7, <2>8, <2>9, <2>11, <2>13, <2>14
<1> QED BY ONLY <1>2, <1>12, <1>13 DEF SameFirst

\* What is open at a is a parenthesis, is closed, and an arrow follows.
ArrowFollows(s, a, C) ==
  a <= Len(s) /\ s[a] = "(" /\ C # {} /\ Pair(s, After(s, Min(C) + 1, Plain)) = Arrow

\* So the characters say of the tokens that follow what the tokens say.
LEMMA AskedOfText ==
  ASSUME NEW s, Len(s) \in Nat, NEW i \in 1 .. Len(s) + 1, NEW T, Chain(s, i, T),
         NEW a, a = After(s, i, Plain), NEW C, C = ClosedAt(s, a, Len(s), "(", ")")
  PROVE  ArrowFollows(s, a, C) <=> Asked(T)
<1>1. /\ Sequence(T) /\ Len(T) > 0 /\ T[Len(T)] = TokenAt(End, Len(s) + 1) /\ T[1].first = a
      /\ \A n \in 1 .. Len(T) - 1 : Says(s, T[n], T[n + 1].first)
  BY DEF Chain
<1>2. PICK N, d, D : /\ N = Len(T) /\ d = [n \in DOMAIN T |-> T[n].lexeme.data]
                     /\ D = ClosedAt(d, 1, Len(T), <<"(">>, <<")">>)
  OBVIOUS
<1>3. N \in Nat /\ N > 0 /\ DOMAIN T = 1 .. N /\ DOMAIN d = 1 .. N
  <2>1. Len(T) \in Nat /\ DOMAIN T = 1 .. Len(T)
    BY <1>1 DEF Sequence
  <2> QED BY <1>1, <1>2, <2>1
<1>4. D = {j \in DOMAIN d : Depth(d, 1, j, <<"(">>, <<")">>) = 0}
  BY ONLY <1>2, <1>3 DEF ClosedAt
<1>5. Asked(T) <=> d[1] = <<"(">> /\ D # {} /\ d[Min(D) + 1] = Arrow
  BY ONLY <1>2, <1>4 DEF Asked, Arrow
<1>6. \A n \in 1 .. N : d[n] = T[n].lexeme.data
  BY ONLY <1>2, <1>3
<1>7. d[N] = <<>> /\ T[N].first = Len(s) + 1
  <2>1. N \in 1 .. N
    BY ONLY <1>3
  <2> QED BY ONLY <1>1, <1>2, <1>6, <2>1 DEF TokenAt, End, Lexeme
<1>8. ASSUME NEW n \in 1 .. N - 1
      PROVE  /\ n \in 1 .. N /\ T[n].first \in 1 .. Len(s) /\ (d[n] = Arrow <=> Pair(s, T[n].first) = Arrow)
             /\ \A c \in Parens : d[n] = <<c>> <=> s[T[n].first] = c
             /\ s[T[n].first] \in Parens => T[n + 1].first = After(s, T[n].first + 1, Plain)
  <2>1. n \in 1 .. N
    BY ONLY <1>3, <1>8
  <2>2. PICK x, q : x = T[n] /\ q = T[n + 1].first
    OBVIOUS
  <2>3. Says(s, x, q)
    BY ONLY <1>1, <1>2, <1>8, <2>2
  <2>4. d[n] = x.lexeme.data
    BY ONLY <1>6, <2>1, <2>2
  <2> QED BY ONLY <2>1, <2>2, <2>3, <2>4 DEF Says
<1>9. d[1] = <<"(">> => N > 1
  <2>1. <<"(">> # <<>>
    OBVIOUS
  <2> QED BY ONLY <1>3, <1>7, <2>1
<1>10. a <= Len(s) => N > 1
  BY ONLY <1>1, <1>3, <1>7, Len(s) \in Nat
<1>11. N > 1 => a <= Len(s) /\ (d[1] = <<"(">> <=> s[a] = "(")
  <2> SUFFICES ASSUME N > 1 PROVE a <= Len(s) /\ (d[1] = <<"(">> <=> s[a] = "(")
    OBVIOUS
  <2>1. 1 \in 1 .. N - 1
    BY ONLY <1>3, N > 1
  <2>2. a \in 1 .. Len(s) /\ \A c \in Parens : d[1] = <<c>> <=> s[a] = c
    BY ONLY <1>1, <1>8, <2>1
  <2>3. "(" \in Parens
    BY DEF Parens
  <2> QED BY ONLY <2>2, <2>3, Len(s) \in Nat
<1>12. CASE ~(N > 1 /\ s[a] = "(")
  BY ONLY <1>5, <1>9, <1>10, <1>11, <1>12 DEF ArrowFollows
<1>13. CASE N > 1 /\ s[a] = "("
  <2>1. s[a] \in Parens
    BY <1>13 DEF Parens
  <2>2. SameFirst(s, T, C, D)
    BY ONLY <1>1, <1>2, <1>13, <2>1, Len(s) \in Nat, i \in 1 .. Len(s) + 1, Chain(s, i, T),
            C = ClosedAt(s, a, Len(s), "(", ")"), SameClosed
  <2>3. ASSUME D # {}
        PROVE  Pair(s, After(s, Min(C) + 1, Plain)) = Arrow <=> d[Min(D) + 1] = Arrow
    <3>1. PICK m, j, k : m = Min(D) /\ j = Min(C) /\ k = After(s, j + 1, Plain)
      OBVIOUS
    <3>2. m \in 1 .. N - 1 /\ j = T[m].first /\ s[j] \in Parens
      BY ONLY <1>2, <2>2, <2>3, <3>1 DEF SameFirst
    <3>3. T[m + 1].first = k
      BY ONLY <1>8, <3>1, <3>2
    <3>4. CASE m + 1 \in 1 .. N - 1
      BY ONLY <1>8, <3>1, <3>3, <3>4
    <3>5. CASE m + 1 = N
      <4>1. ~(k < Len(s))
        BY ONLY <1>7, <3>3, <3>5, Len(s) \in Nat
      <4>2. Arrow # <<>>
        BY DEF Arrow
      <4>3. Pair(s, k) = <<>>
        BY ONLY <4>1 DEF Pair
      <4> QED BY ONLY <1>7, <3>1, <3>5, <4>2, <4>3
    <3>6. m + 1 \in 1 .. N - 1 \/ m + 1 = N
      BY ONLY <1>3, <3>2
    <3> QED BY <3>4, <3>5, <3>6
  <2> QED BY ONLY <1>5, <1>11, <1>13, <2>2, <2>3 DEF ArrowFollows, SameFirst
<1> QED BY <1>12, <1>13

\* Where the parser asks it, sniff_is_proc answers for every text as the tokens
\* that follow would, as long as no comment, no string and no form feed follows
\* and these tokens come to the end of the text (parse.c:110).
THEOREM SniffsTokens == Spec => []SniffAgrees
<1>1. LInv /\ WInv => SniffAgrees
  <2> SUFFICES ASSUME LInv, WInv, at = "idle", peek = <<>>, ~Ended, ~Raw(cur + 1),
                      Last(From(input.tokens, Len(read) + 1)).lexeme = End
               PROVE  sniff_is_proc <=> Asked(From(input.tokens, Len(read) + 1))
    BY DEF SniffAgrees
  <2>1. PICK s, i, all, toks, rest : /\ s = text /\ i = cur + 1 /\ all = TokensFrom(s)[1] /\ toks = read
                                     /\ rest = From(input.tokens, Len(read) + 1)
    OBVIOUS
  <2>2. s \in Seq(Characters) /\ Len(s) \in Nat /\ i \in 1 .. Len(s) + 1 /\ i \in Nat
    BY <2>1 DEF LInv, LTypes, Inside
  <2>3. input.tokens = all /\ Sequence(toks)
    BY <2>1 DEF WInv
  <2>4. Delivered = toks
    <3>1. PICK S : toks \in Seq(S)
      BY <2>3 DEF Sequence
    <3> QED BY <2>1, <3>1 DEF Delivered
  <2>5. Owed(s, toks, i)
    <3>1. Owed(s, toks, i) \/ Complete(s, toks)
      BY <2>1, <2>4 DEF WInv, Stands
    <3>2. ~Complete(s, toks)
      BY <2>1 DEF Ended, Last, Complete
    <3> QED BY <3>1, <3>2
  <2>6. PICK G : G = TokensFrom(s)[i]
    OBVIOUS
  <2>7. /\ Len(toks) \in Nat /\ Len(all) \in Nat /\ Len(G) \in Nat /\ Sequence(G) /\ Sequence(all)
        /\ Len(all) = Len(toks) + Len(G) /\ \A k \in 1 .. Len(G) : all[Len(toks) + k] = G[k]
    <3>1. Len(toks) \in Nat /\ Len(all) \in Nat /\ Len(G) \in Nat
      BY ONLY <2>1, <2>2, <2>5, <2>6, OwedLengths
    <3>2. Sequence(G) /\ Sequence(all)
      BY ONLY <2>1, <2>2, <2>6, 1 \in Nat, FromSequence
    <3> QED BY ONLY <2>1, <2>5, <2>6, <3>1, <3>2 DEF Owed
  <2>8. rest = G
    <3>1. PICK S1, S2 : G \in Seq(S1) /\ all \in Seq(S2)
      BY ONLY <2>7 DEF Sequence
    <3>2. PICK m, n : m = Len(toks) + 1 /\ n = Len(all)
      OBVIOUS
    <3>3. rest = SubSeq(all, m, n)
      BY ONLY <2>1, <2>3, <3>2 DEF From
    <3>4. m \in 1 .. Len(all) + 1 /\ n \in m - 1 .. Len(all) /\ n - m + 1 = Len(G)
      BY ONLY <2>7, <3>2
    <3>5. rest \in Seq(S2) /\ Len(rest) = n - m + 1 /\ \A k \in 1 .. Len(rest) : rest[k] = all[m + k - 1]
      BY ONLY <3>1, <3>3, <3>4, Pieces
    <3>6. ASSUME NEW k \in 1 .. Len(rest)
          PROVE  rest[k] = G[k]
      <4>1. m + k - 1 = Len(toks) + k /\ k \in 1 .. Len(G)
        BY ONLY <2>7, <3>2, <3>4, <3>5, <3>6
      <4> QED BY ONLY <2>7, <3>5, <3>6, <4>1
    <3>7. G \in Seq(S1 \cup S2) /\ rest \in Seq(S1 \cup S2) /\ Len(rest) = Len(G)
      BY ONLY <3>1, <3>4, <3>5
    <3> QED BY ONLY <3>6, <3>7, SeqEqual
  <2>9. Bare(s, i)
    <3>1. \A j \in i .. Len(s) : s[j] \notin {"\"", "\f"} /\ Pair(s, j) # Opening
      BY <2>1, Zenon DEF Raw, text
    <3>2. Quote \in {"\"", "\f"} /\ "\f" \in {"\"", "\f"}
      BY Zenon DEF Quote
    <3>3. PICK B : B = {"\"", "\f"}
      OBVIOUS
    <3>4. /\ \A j \in i .. Len(s) : s[j] \notin B /\ Pair(s, j) # Opening
          /\ Quote \in B /\ "\f" \in B
      BY ONLY <3>1, <3>2, <3>3, Zenon
    <3> QED BY ONLY <3>4 DEF Bare
  <2>10. Chain(s, i, G)
    <3>1. G[Len(G)].lexeme = End
      BY <2>1, <2>8 DEF Last
    <3> QED BY ONLY <2>2, <2>6, <2>9, <3>1, Chained
  <2>11. PICK a, C : a = After(s, i, Plain) /\ C = ClosedAt(s, a, Len(s), "(", ")")
    OBVIOUS
  <2>12. sniff_is_proc <=> ArrowFollows(s, a, C)
    BY ONLY <2>1, <2>11 DEF sniff_is_proc, ClosedAt, Arrow, ArrowFollows, text
  <2>13. sniff_is_proc <=> Asked(G)
    BY ONLY <2>2, <2>10, <2>11, <2>12, AskedOfText
  <2> QED BY ONLY <2>1, <2>8, <2>13
<1> QED BY <1>1, LInvariance, WInvariance, PTL
=============================================================================
