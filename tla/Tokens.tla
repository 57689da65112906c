------------------------------- MODULE Tokens -------------------------------
(***************************************************************************)
(* The tokens of Mol (src/inc/lex.h) and the tokens a text stands for: the *)
(* abstract side of Lexer.  A text is a sequence of characters, of the     *)
(* alphabet below.                                                         *)
(***************************************************************************)
EXTENDS Naturals, Sequences, SequencesExt, FiniteSetsExt

CONSTANT StringRoom   (* 4096 in the code: characters of a string, with its zero *)
ASSUME StringRoomAssumption == StringRoom \in Nat /\ StringRoom >= 2

NUL == "nul"
Letters == {"d", "o", "i", "n", "f", "u", "x", "e"}     \* isalpha, of the alphabet
Digits == {"0", "1", "8"}                     \* isdigit
HexDigits == Digits \cup {"d", "e", "f"}      \* isxdigit
Alnum == Letters \cup Digits
WordChars == Alnum \cup {"_"}
Spaces == {" ", "\n", "\f"}                   \* isspace
Characters == WordChars \cup Spaces \cup
  {"(", ")", "*", "\"", "\\", ":", "-", "<", ">", "=", "!", ".", "$"}

Keywords == {<<"d", "o">>, <<"i", "f">>, <<"i", "n">>, <<"e", "n", "d">>}
IntSuffixes == {<<"u">>, <<"i", "8">>, <<"u", "8">>}
Singles == {<<c>> : c \in {":", "-", "=", "<", ">", "!", "(", ")", "*", "."}}
Doubles == {<<"-", ">">>, <<"=", ">">>, <<"<", "<">>, <<">", ">">>, <<"<", "=">>, <<">", "=">>,
            <<"!", "=">>, <<":", "=">>, <<":", ":">>}
Triples == {<<">", ">", ">">>}
Operators == Singles \cup Doubles \cup Triples

Escape(c) == CASE c = "n" -> "\n" [] c = "0" -> NUL [] OTHER -> c

\* A token, without its place.
Lexeme(kind, data) == [kind |-> kind, data |-> data]
WordKind(s) == IF s \in Keywords THEN "keyword" ELSE "ident"
Error == Lexeme("error", <<>>)
End == Lexeme("eof", <<>>)
-----------------------------------------------------------------------------
(* What the token with spelling s is: no scanning, a description of each kind. *)

From(s, i) == SubSeq(s, i, Len(s))
All(s, class) == ToSet(s) \subseteq class
Word(s) == s # <<>> /\ Head(s) \notin Digits /\ All(s, WordChars)
Number(s) == s # <<>> /\ All(s, Digits)

Integer(s) ==
  \E n \in {0} \cup {Len(x) : x \in IntSuffixes} :
    /\ n <= Len(s)
    /\ n > 0 => From(s, Len(s) - n + 1) \in IntSuffixes
    /\ LET digits == SubSeq(s, 1, Len(s) - n) IN
       \/ Number(digits)
       \/ Len(digits) >= 2 /\ digits[1] = "0" /\ digits[2] = "x" /\ All(From(digits, 3), HexDigits)

Exponent(s) ==
  s # <<>> /\ s[1] = "e" /\ All(From(s, IF Len(s) > 1 /\ s[2] = "-" THEN 3 ELSE 2), Digits)
Float(s) ==
  \E i \in 1 .. Len(s) : \E j \in i .. Len(s) :
    LET fraction == SubSeq(s, i + 1, j) exponent == From(s, j + 1) IN
    /\ Number(SubSeq(s, 1, i))
    /\ fraction # <<>> => Head(fraction) = "." /\ Number(Tail(fraction))
    /\ exponent = <<>> \/ Exponent(exponent)
    /\ i < Len(s)

\* The characters of s that a backslash before them escapes: the number of
\* backslashes directly before them is odd.
Escaped(s) ==
  {i \in DOMAIN s : (i - 1 - Max({0} \cup {k \in 1 .. i - 1 : s[k] # "\\"})) % 2 = 1}
Quoted(s) ==
  /\ Len(s) >= 2 /\ Head(s) = "\"" /\ Last(s) = "\""
  /\ {i \in 2 .. Len(s) : s[i] = "\"" /\ i \notin Escaped(s)} = {Len(s)}

\* What is between the quotes, the backslashes that escape left out.
Contents(s) ==
  LET upto[i \in 0 .. Len(s)] ==
        IF i < 2 THEN <<>>
        ELSE IF i \in Escaped(s) THEN Append(upto[i - 1], Escape(s[i]))
        ELSE IF s[i] = "\\" THEN upto[i - 1] ELSE Append(upto[i - 1], s[i])
  IN  upto
Content(s) == Contents(s)[Len(s) - 1]

Meaning(s) ==
  CASE Word(s)                                -> Lexeme(WordKind(s), s)
    [] Head(s) = ":" /\ Word(Tail(s))         -> Lexeme("atom", Tail(s))
    [] Integer(s)                             -> Lexeme("int", s)
    [] ~Integer(s) /\ Float(s)                -> Lexeme("float", s)
    [] Quoted(s)                              -> Lexeme("string", Content(s))
    [] s \in Operators                        -> Lexeme("op", s)
    [] OTHER                                  -> Error
-----------------------------------------------------------------------------
(* What a text stands for: blanks and comments, and the longest tokens. *)

Pair(s, i) == IF i < Len(s) THEN <<s[i], s[i + 1]>> ELSE <<>>
Opening == <<"(", "*">>
Closing == <<"*", ")">>

\* Where the text that is d comments deep at j is in none; 0 if it stays in one.
CommentEnds(s) ==
  LET end[j \in Nat] == [d \in Nat |->
        IF d = 0 THEN j
        ELSE IF j > Len(s) THEN 0
        ELSE IF Pair(s, j) = Opening THEN end[j + 2][d + 1]
        ELSE IF Pair(s, j) = Closing THEN end[j + 2][d - 1]
        ELSE end[j + 1][d]]
  IN  end

\* The tokens of s from a place on, with the place where each begins.  The last is
\* the end of the text or the first error: an integer with letters that are no
\* suffix is one, and so is a string that does not fit.
TokensFrom(s) ==
  LET At(t, i) == [lexeme |-> t, first |-> i]
      from[i \in Nat] ==
        IF i > Len(s) THEN <<At(End, i)>>
        ELSE IF s[i] \in Spaces THEN from[i + 1]
        ELSE IF Pair(s, i) = Opening
        THEN LET j == CommentEnds(s)[i + 2][1] IN IF j = 0 THEN <<At(Error, i)>> ELSE from[j]
        ELSE LET ends == {j \in i .. Len(s) : Meaning(SubSeq(s, i, j)) # Error}
                 j == Max(ends)
                 t == Meaning(SubSeq(s, i, j))
             IN  IF \/ ends = {}
                    \/ t.kind = "int" /\ j < Len(s) /\ s[j + 1] \in Alnum
                    \/ t.kind = "string" /\ Len(t.data) >= StringRoom - 1
                 THEN <<At(Error, i)>> ELSE <<At(t, i)>> \o from[j + 1]
  IN  from
Tokens(s) == TokensFrom(s)[1]

\* Line and column of place i.
Newlines(s, i) == {j \in 1 .. i - 1 : s[j] = "\n"}
Line(s, i) == 1 + Cardinality(Newlines(s, i))
Column(s, i) == i - Max({0} \cup Newlines(s, i))
=============================================================================
