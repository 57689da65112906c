-------------------------------- MODULE Lexer --------------------------------
(***************************************************************************)
(* The lexer (src/lex.c), one turn of a loop or one branch of lex_scan at  *)
(* a time, under a parser that asks for tokens with lex_next and lex_peek; *)
(* lex_expect and lex_match are one call of the first and one of each.     *)
(* And sniff_is_proc of the parser, which reads the same characters.       *)
(***************************************************************************)
EXTENDS Tokens, Integers

CONSTANT Inputs   (* texts: the characters and, as history, their tokens *)

\* A text is a C string: it has no zero but the one that ends it.
ASSUME InputsAssumption == \A i \in Inputs : i.chars \in Seq(Characters)
ASSUME TokensAssumption == \A i \in Inputs : i.tokens = Tokens(i.chars)

VARIABLES
  input,
  cur,         (* characters consumed                                    *)
  line, bol,   (* line, line_start: characters before the current line   *)
  peek,        (* the lookahead buffer: no token or one                  *)
  read,        (* history: tokens lex_next has returned                  *)
  asker,       (* "next", "peek": the call lex_scan runs for             *)
  at,          (* where lex_scan stands; "idle" between calls            *)
  start,       (* where the token or the comment began                   *)
  depth,       (* of comments                                            *)
  data         (* the string read so far                                 *)

vars == <<input, cur, line, bol, peek, read, asker, at, start, depth, data>>

\* peek_c and peek2_c; a text ends with a zero.
Ch(n) == IF cur + n <= Len(input.chars) THEN input.chars[cur + n] ELSE NUL
at_end == Ch(1) = NUL
Span == SubSeq(input.chars, start.first, cur)

Here == [first |-> cur + 1, line |-> line, col |-> cur - bol + 1]

Advance(n) == cur' = cur + n
SameLine == UNCHANGED <<line, bol>>
SameToken == UNCHANGED <<start, depth, data>>
Outside == UNCHANGED <<input, peek, read, asker>>
\* adv, then newline if it was one.
AdvanceLine == /\ Advance(1)
               /\ IF Ch(1) = "\n" THEN line' = line + 1 /\ bol' = cur + 1 ELSE SameLine

\* make_tok, and the return to lex_next or lex_peek.
Return(n, from, lexeme) ==
  LET tok == [lexeme |-> lexeme, first |-> from.first, line |-> from.line, col |-> from.col] IN
  /\ Advance(n) /\ SameLine /\ at' = "idle"
  /\ IF asker = "next" THEN read' = Append(read, tok) /\ UNCHANGED peek
                       ELSE peek' = <<tok>> /\ UNCHANGED read
  /\ UNCHANGED <<input, asker, depth, data>> /\ start' = from
Go(n, place) == Advance(n) /\ SameLine /\ at' = place /\ SameToken /\ Outside
Fail(from) == at' = "error" /\ start' = from /\ UNCHANGED <<cur, line, bol, depth, data>> /\ Outside

Init ==
  /\ input \in Inputs /\ cur = 0 /\ line = 1 /\ bol = 0
  /\ peek = <<>> /\ read = <<>> /\ asker = "next" /\ at = "idle"
  /\ start = Here /\ depth = 0 /\ data = <<>>
-----------------------------------------------------------------------------
(* lex_next and lex_peek *)

Ended == read # <<>> /\ Last(read).lexeme = End

lex_next ==
  /\ at = "idle" /\ ~Ended
  /\ IF peek # <<>>
     THEN /\ read' = read \o peek /\ peek' = <<>>
          /\ UNCHANGED <<input, cur, line, bol, asker, at, start, depth, data>>
     ELSE /\ at' = "blank" /\ asker' = "next"
          /\ UNCHANGED <<input, cur, line, bol, peek, read, start, depth, data>>

lex_peek ==
  /\ at = "idle" /\ ~Ended /\ peek = <<>>
  /\ at' = "blank" /\ asker' = "peek"
  /\ UNCHANGED <<input, cur, line, bol, peek, read, start, depth, data>>
-----------------------------------------------------------------------------
(* skip_ws *)

Opens == Ch(1) = "(" /\ Ch(2) = "*"

Blank == at = "blank" /\ Ch(1) \in Spaces /\ AdvanceLine /\ UNCHANGED at /\ SameToken /\ Outside

Comment ==
  /\ at = "blank" /\ Opens
  /\ Advance(2) /\ SameLine /\ at' = "comment" /\ depth' = 1 /\ start' = Here
  /\ UNCHANGED data /\ Outside

Nest(d) == /\ Advance(2) /\ SameLine /\ depth' = d
           /\ at' = IF d = 0 THEN "blank" ELSE at
           /\ UNCHANGED <<start, data>> /\ Outside
Closes == Ch(1) = "*" /\ Ch(2) = ")"

\* Variant: a comment ends at the first closing.
InComment_flat ==
  \/ at = "comment" /\ Opens /\ Go(2, at)
  \/ at = "comment" /\ Closes /\ Nest(0)
  \/ at = "comment" /\ ~Opens /\ ~Closes /\ ~at_end /\ AdvanceLine /\ UNCHANGED at /\ SameToken /\ Outside
  \/ at = "comment" /\ at_end /\ Fail(start)

\* Variant: nothing is consumed at the end of the text, and no error given.
InComment_wait ==
  \/ at = "comment" /\ Opens /\ Nest(depth + 1)
  \/ at = "comment" /\ Closes /\ Nest(depth - 1)
  \/ at = "comment" /\ ~Opens /\ ~Closes /\ ~at_end /\ AdvanceLine /\ UNCHANGED at /\ SameToken /\ Outside

\* Variant: newlines in comments are not counted.
InComment_line ==
  \/ at = "comment" /\ Opens /\ Nest(depth + 1)
  \/ at = "comment" /\ Closes /\ Nest(depth - 1)
  \/ at = "comment" /\ ~Opens /\ ~Closes /\ ~at_end /\ Go(1, at)
  \/ at = "comment" /\ at_end /\ Fail(start)

InComment ==
  \/ at = "comment" /\ Opens /\ Nest(depth + 1)
  \/ at = "comment" /\ Closes /\ Nest(depth - 1)
  \/ at = "comment" /\ ~Opens /\ ~Closes /\ ~at_end /\ AdvanceLine /\ UNCHANGED at /\ SameToken /\ Outside
  \/ at = "comment" /\ at_end /\ Fail(start)
-----------------------------------------------------------------------------
(* lex_scan *)

\* After a colon: an assignment, a double colon, an atom; else a colon.
AtomFollows == Ch(1) = ":" /\ Ch(2) \in Letters \cup {"_"}

\* The operator at the cursor: of the two-character ones before the single, and
\* a third > after >>.
OperatorHere ==
  {s \in Operators : \A i \in DOMAIN s : Ch(i) = s[i]}
Operator == CHOOSE s \in OperatorHere : \A r \in OperatorHere : Len(r) <= Len(s)

Begin(n, place) == /\ Advance(n) /\ SameLine /\ at' = place /\ start' = Here /\ data' = <<>>
                   /\ UNCHANGED depth /\ Outside

Scan ==
  /\ at = "blank" /\ Ch(1) \notin Spaces /\ ~Opens
  /\ \/ at_end /\ Return(0, Here, End)
     \/ Ch(1) = "\"" /\ Begin(1, "string")
     \/ AtomFollows /\ Begin(1, "atom")
     \/ Ch(1) \in Letters \cup {"_"} /\ Begin(1, "word")
     \/ Ch(1) \in Digits /\ IF Ch(1) = "0" /\ Ch(2) = "x" THEN Begin(2, "hex") ELSE Begin(1, "digits")
     \/ /\ ~AtomFollows /\ OperatorHere # {}
        /\ Return(Len(Operator), Here, Lexeme("op", Operator))
     \/ /\ ~at_end /\ Ch(1) \notin {"\""} \cup WordChars /\ OperatorHere = {}
        /\ Fail(Here)

\* A character of a string is stored before the limit is looked at.
Store(n, c) ==
  /\ Advance(n) /\ data' = Append(data, c)
  /\ at' = IF Len(data) + 1 >= StringRoom - 1 THEN "error" ELSE "string"
  /\ UNCHANGED <<start, depth>> /\ Outside

\* A backslash before the end of the text takes the zero for the character it
\* escapes, and what follows in memory is read: nothing is known of it.
InString ==
  \/ at = "string" /\ Ch(1) = "\"" /\ Return(1, start, Lexeme("string", data))
  \/ at = "string" /\ Ch(1) = "\\" /\ Ch(2) # NUL /\ SameLine /\ Store(2, Escape(Ch(2)))
  \/ at = "string" /\ Ch(1) = "\\" /\ Ch(2) = NUL /\ Go(2, "overrun")
  \/ /\ at = "string" /\ Ch(1) \notin {"\"", "\\", NUL}
     /\ IF Ch(1) = "\n" THEN line' = line + 1 /\ bol' = cur + 1 ELSE SameLine
     /\ Store(1, Ch(1))
  \/ at = "string" /\ at_end /\ Fail(start)

\* The characters the loops of words and numbers run over.
Loop == [word |-> WordChars, atom |-> WordChars, digits |-> Digits, fraction |-> Digits,
         exponent |-> Digits, hex |-> HexDigits, suffix |-> Alnum]
Run == at \in DOMAIN Loop /\ Ch(1) \in Loop[at] /\ Go(1, at)

\* Where a run ends.
Sign == IF Ch(2) = "-" THEN 2 ELSE 1
Fraction == at = "digits" /\ Ch(1) = "." /\ Ch(2) \in Digits
ExponentFollows == at \in {"digits", "fraction"} /\ Ch(1) = "e"
SuffixFollows == at \in {"digits", "hex"} /\ ~ExponentFollows /\ Ch(1) \in Letters

RunEnds ==
  /\ at \in DOMAIN Loop /\ Ch(1) \notin Loop[at]
  /\ \/ at = "word" /\ Return(0, start, Lexeme(WordKind(Span), Span))
     \/ at = "atom" /\ Return(0, start, Lexeme("atom", Tail(Span)))
     \/ Fraction /\ Go(1, "fraction")
     \/ ExponentFollows /\ Go(Sign, "exponent")
     \/ SuffixFollows /\ Go(1, "suffix")
     \/ /\ at \in {"digits", "hex"} /\ ~Fraction /\ ~ExponentFollows /\ ~SuffixFollows
        /\ Return(0, start, Lexeme("int", Span))
     \/ at \in {"fraction", "exponent"} /\ ~ExponentFollows /\ Return(0, start, Lexeme("float", Span))
     \/ /\ at = "suffix"
        /\ IF Integer(Span) THEN Return(0, start, Lexeme("int", Span)) ELSE Fail(start)

Next == lex_next \/ lex_peek \/ Blank \/ Comment \/ InComment \/ Scan \/ InString \/ Run \/ RunEnds
Spec == Init /\ [][Next]_vars /\ WF_vars(Next)
-----------------------------------------------------------------------------
(* sniff_is_proc *)

\* It passes over fewer blanks than skip_ws.
Plain == {" ", "\n"}
After(s, i, class) == Min({j \in i .. Len(s) + 1 : j = Len(s) + 1 \/ s[j] \notin class})
Depth(s, i, j, open, close) ==
  Cardinality({k \in i .. j : s[k] = open}) - Cardinality({k \in i .. j : s[k] = close})

\* Variant: the first closing parenthesis closes the first.
sniff_is_proc_flat ==
  LET s == input.chars
      i == After(s, cur + 1, Plain)
      closed == {j \in i .. Len(s) : s[j] = ")"}
  IN  /\ i <= Len(s) /\ s[i] = "(" /\ closed # {}
      /\ LET k == After(s, Min(closed) + 1, Plain) IN Pair(s, k) = <<"-", ">">>

\* The parenthesis at i is closed and an arrow follows.
sniff_is_proc ==
  LET s == input.chars
      i == After(s, cur + 1, Plain)
      closed == {j \in i .. Len(s) : Depth(s, i, j, "(", ")") = 0}
  IN  /\ i <= Len(s) /\ s[i] = "(" /\ closed # {}
      /\ LET k == After(s, Min(closed) + 1, Plain) IN Pair(s, k) = <<"-", ">">>

\* The same question asked of the tokens that follow.
Asked(tokens) ==
  LET d == [i \in DOMAIN tokens |-> tokens[i].lexeme.data]
      closed == {j \in DOMAIN d : Depth(d, 1, j, <<"(">>, <<")">>) = 0}
  IN  d[1] = <<"(">> /\ closed # {} /\ d[Min(closed) + 1] = <<"-", ">">>
-----------------------------------------------------------------------------
Delivered == read \o peek
Expected(n) == input.tokens[n]

\* However the parser mixes lex_next and lex_peek, it is given the tokens of the
\* text: longest match, comments left out, escapes resolved (lex.c:121).  An
\* error is given at the first place that begins no token, and at no other.
\* Nothing behind the text is read, unless it ends in a backslash (lex.c:151).
LongestTokens ==
  /\ \A n \in DOMAIN Delivered :
       Delivered[n].lexeme = Expected(n).lexeme /\ Delivered[n].first = Expected(n).first
  /\ at \in {"error", "overrun"} =>
       LET e == Expected(Len(Delivered) + 1) IN e.lexeme = Error /\ start.first = e.first
  /\ cur > Len(input.chars) => at = "overrun" /\ Last(input.chars) = "\\"

\* The text has an escaped newline before character i.
EscapedNewline(i) == \E j \in 1 .. i - 2 : Pair(input.chars, j) = <<"\\", "\n">>

\* A token, and an error, is given at its line and column unless the text has an
\* escaped newline before it (lex.c:151: its line is not counted).
Located ==
  \A t \in ToSet(Delivered) \cup (IF at = "error" THEN {start} ELSE {}) :
    ~EscapedNewline(t.first) =>
      t.line = Line(input.chars, t.first) /\ t.col = Column(input.chars, t.first)

\* The text has a comment, a string or a form feed from character i on.
Raw(i) == \E j \in i .. Len(input.chars) : input.chars[j] \in {"\"", "\f"} \/ Pair(input.chars, j) = Opening

\* Where the parser asks it (nothing is looked ahead), sniff_is_proc answers as
\* the tokens would, if the rest of the text has no comment, no string and no
\* form feed (parse.c:110: it reads characters).
SniffAgrees ==
  LET rest == From(input.tokens, Len(read) + 1) IN
  /\ at = "idle" /\ peek = <<>> /\ ~Ended /\ ~Raw(cur + 1)
  /\ Last(rest).lexeme = End
  => (sniff_is_proc <=> Asked(rest))

\* A parser that goes on asking comes to the end of the text or to an error: no
\* loop of lex_scan turns round on the spot.
Terminates == <>(Ended \/ at \in {"error", "overrun"})
=============================================================================
