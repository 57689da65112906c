------------------------------ MODULE MCLexer ------------------------------
(* All short texts, and all short sequences of lexemes with and without blanks. *)
EXTENDS Lexer

CONSTANT MaxChars   \* bound: characters of a text that is any sequence

Alphabet == {"d", "x", "e", "_", "0", "1", " ", "\n", "(", ")", "*", "\"", "\\", ":", "-", ">", "=", ".", "$"}
Lexemes ==
  {<<"d", "o">>, <<"_", "1">>, <<"i", "8">>, <<":", "d">>, <<":">>, <<":", "=">>, <<":", ":">>, <<"=">>,
   <<"1">>, <<"0", "x", "1">>, <<"1", "u">>, <<".">>, <<"e">>, <<"-">>, <<">">>, <<"=", ">">>, <<"<">>, <<"!">>,
   <<"(">>, <<")">>, <<"-", ">">>, <<"*">>, <<"(", "*">>, <<"*", ")">>,
   <<"\"", "d", "\"">>, <<"\"", "\\", "n", "\"">>, <<"\"", "\\", "\n", "\"">>, <<"\"", "\\", "\"", "\"">>,
   <<"\"", "\n", "d", "d", "\"">>, <<"\n">>, <<"\f">>}
Blanks == {<<>>, <<" ">>, <<"\n">>}
Around == {<<"d">>, <<"(">>, <<")">>, <<"-", ">">>, <<"\"", "d", "\"">>, <<"\f">>, <<"*">>, <<"-">>}
InComment_ == {<<"\n">>, <<"(", "*">>, <<"*", ")">>, <<")">>, <<"x">>}
Chars ==
  UNION {[1 .. n -> Alphabet] : n \in 0 .. MaxChars}
    \cup {a \o b \o c : a, c \in Lexemes, b \in Blanks}
    \cup {<<"(">> \o a \o <<")">> \o b \o c : a, b, c \in Around}
    \cup {<<"(", "*">> \o b \o c \o d \o <<"*", ")", "x">> : b, c, d \in InComment_}

MCInputs == {[chars |-> s, tokens |-> Tokens(s)] : s \in Chars}
=============================================================================
