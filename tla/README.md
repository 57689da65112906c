# A TLA+ model of molc

`molc` (`src/`) compiles the language *mol* to programs of the DVM, a small
register machine whose assembler, linker and interpreter are an external library.
This directory models its passes, checks them with TLC on small instances, and proves
with TLAPS, for every value of the constants, what can be proved.

## The system

`main` (`src/main.c`) runs the passes one after the other, in one thread. Each pass
reads the whole result of the one before it, and stops the process with `exit(1)` or
`abort()` at the first thing it does not accept, so there is no recovery and no
concurrency. What is hard about the program lies elsewhere: several passes keep their own
picture of the same thing (two scope chains, two notions of a variable's identity, two
walks over the statements), storage is handed out by position and marked and restored,
frames are laid out in one walk and used in another, and arrays grow under pointers.

| component | state | operations | used by |
| --- | --- | --- | --- |
| arena (`arena.c`) | chain of blocks with `used`, `block_size`, `total` | `arena_init`, `arena_alloc`, `arena_mark`, `arena_restore`, `arena_free` | every pass |
| lexer (`lex.c`) | position, line, column, one token of lookahead | `lex_next`, `lex_peek` | parser |
| syntax tree (`ast.c`) | nodes in the arena | constructors | parser writes, checker and lowering walk it |
| parser (`parse.c`) | the lexer; bounded lists on the C stack | `parse_file`, `parse_block`, `parse_stmt`, Pratt expressions, `parse_case_arms` | main |
| checker (`check.c`) | scope chain of hash buckets, `in_loop`, `current_out`, `in_const_proc`; types and record layouts | `check_file` (register, then check), `check_stmt`, `check_expr`, `resolve_type` | main; lowering reads the types it leaves in the nodes |
| IR builder (`ir.c`) | growing arrays of procedures and instructions, `tmp_counter`, `label_counter`, string list | `ir_proc_begin`, `ir_emit`, `ir_tmp`, `ir_label` | lowering |
| lowering (`ir.c`) | scope chain of lists, `loop_exit`, `loop_top` | `lower_proc`, `lower_stmt`, `lower_expr`, `lower_lval` | main; code generator reads the instructions |
| code generator (`ir_codegen.c`) | slot map (name to offset), output buffer | `alloc_slots`, `emit_instr`, `emit_proc` | main |
| driver (`main.c`) | options, imports | reading, linking and writing files | |
| DVM library (`inc/dvm`) | external | assemble, link, run | driver |

### What makes each correct, and what can go wrong

* **Arena.** Storage a client holds is never handed out twice nor given back under it,
  however marks, restores, oversized blocks and new blocks interleave; a restore finds its
  block; nothing leaks. (Several steps of several clients; unit tests see one order.) No pass calls
  `arena_mark` or `arena_restore`: they are modelled as `arena.c` defines them, in any order of calls, also across blocks,
  which `arena.h:56` excludes (see below).
* **Frame.** The slots of a procedure do not overlap, are inside the computed frame size, which ENTER should
  reserve, avoid the word `[bp-8]` that float code uses by a literal offset, and exist for every
  name the emission will ask for, *before* it asks (the frame is sized in between).
* **IR builder.** Growing an array loses nothing; a literal keeps its label.
* **Parser, checker, lowering.** The checker and the lowering resolve a name to the same
  declaration, though one searches newest first and the other oldest first and they open
  their scopes in different places; an `exit` leaves the innermost loop after any nest
  of blocks; labels are unique; the code has exactly the paths of the statements; a body the
  checker accepts is not refused by a later pass.
* **Running code.** A read of a name finds the value written for the variable it means.
* **Lexer.** The parser is given the tokens of the text, once each and in order, however it
  mixes `lex_next` and `lex_peek`, at their places, and the scan for `->` over characters
  agrees with the tokens.
* **Parser.** A text is read as the tree it was written for, or refused; no loop turns on
  the spot.
* **Checker of a file.** Two passes over the declarations leave their symbols in one scope; types of a
  signature are resolved twice; the sizes and offsets the types promise have to be those the
  lowering uses.

The complete list, at source lines, with the properties that cover each, is under
`hazards` in `PROJECT.json`.

## The modules

| module | models | reads like |
| --- | --- | --- |
| `Arena` | `arena.c` whole | blocks with identities, `chain` oldest first; `log` and `marks` are history: what the clients hold and may restore |
| `ArenaProofs` | | inductive invariants and theorems: what is held, that nothing leaks and everything is aligned |
| `Frame` | `slotmap_*`, `var_slot`, `alloc_slots`, the back-patch in `emit_proc` | one action per step of the allocation walk over any code in `Codes`, in `int` arithmetic that wraps around; `wrapped` is history |
| `FrameProofs` | | inductive invariant and theorems; that the first instruction naming a variable decides its slot's size |
| `Builder` | `ir_proc_begin`, `ir_emit`, `ir_tmp`, `ir_str_lit` | the two arrays with the capacity of each as its length, the list of literals; `built` and `uses` are history |
| `BuilderProofs` | | inductive invariants and theorems |
| `Tokens` | nothing in the code: the tokens a text *stands for* | longest matches, from the front |
| `Lexer` | `lex.c`, and `sniff_is_proc` of `parse.c` | one action per turn of a loop of `lex_scan`, under a parser that calls `lex_next` and `lex_peek` at will |
| `Grammar` | nodes (`ast.h`, `ast.c`), and the text a programmer writes for each | trees and `Text`: where parentheses are needed, where a statement runs into the next |
| `SourceParser` | `parse.c` whole, over tokens | the recursion as `stack`; `at` says where the running function stands, `node` is what the last one returned |
| `Types` | types, `ty_compat`, `resolve_type`, `check_expr`, record layout (`check.c`); field offsets of the lowering (`ir.c`) | operators on trees |
| `Declarations` | `check_file`, `register_toplevel`, `check_proc`, `check_stmt` | one action per declaration of each pass and per statement of a body; `checked` is history: the expressions accepted, with their scopes |
| `Program` | statement nodes (`ast.h`), scopes as data | a body is the sequence of nodes in the order both walks visit them; a node with a block is closed by an `end` |
| `Structured` | nothing in the code: what the statements *promise* | the abstract specification of control flow |
| `Parser` | `parse_block`, `parse_stmt_inner`, `parse_case_arms` | the recursion as the stack `open`; tokens are the choice of the next node |
| `Checker` | `check_proc`, `check_stmt`, `scope_*` | the recursion as the stack `saved`, `bound` is history: what each operand resolved to |
| `Lowering` | `lower_proc`, `lower_stmt`, `lscope_*`, the counters | the recursion as the stack `lstack`, `resolved` is history |
| `Compiler` | `main`'s order of the passes, `emit_proc`, running the code | composes `Parser`, `Checker`, `Lowering` over one `prog`; instantiates `Structured` |
| `Expressions` | `lower_expr`, `lower_lval`, declarations of `lower_stmt`; what `emit_instr` makes of words and addresses | the recursion as the stack `pending` of results; `env` and each result's `meant` are history: left-to-right evaluation beside the lowering |
| `ExpressionsProofs` | | that every operand is written before it is read, and that running the code gives every variable the value of left-to-right evaluation |
| `LexerProofs` | | where tokens are, that they are the tokens of the text, and that `sniff_is_proc` answers as they would |
| `CompilerProofs` | | bodies as sequences of nodes: the blocks open at each; the lowering beside the check: why code generation refuses a body the checker accepted, and that names mean the same to both |
| `ControlProofs` | | that the code has the paths of the statements and no others: running it implements `Structured` |
| `ReadsProofs` | | that every value the code reads was last written for the declaration that is meant, on every path |
| `MCArena`, `MCFrame`, `MCBuilder`, `MCCompiler`, `MCExpressions`, `MCLexer`, `MCSourceParser`, `MCDeclarations` | | the small instances |

`Compiler` parses *any* body within `MaxLen` nodes and `MaxDepth` blocks, then checks
it, lowers it, gives names slots, and runs the instructions. Values are left out:
every conditional jump may go either way, and a word of the frame remembers only for which
declaration it was last written and, if it holds an address, of what. An IR value is a
name *with* the declaration it was resolved to; the code has only the name (a hash), and
everything the model does with a value uses only the name. The declaration is history, there to
state the properties.

`Expressions` takes the operands apart. It lowers any straight-line body of expressions,
node by node in postorder, which is the order of both recursive functions; then gives slots their words
and runs the code on values (numbers, and addresses of words). Lvalues are results like others:
`x := e` is `e`, the address of `x`, a store; `a[i]` is `a`, `i`, the address of the
element, a load. Guards such as `Numeric` and `Pointing` keep to expressions `check_expr`
accepts. Subtraction and negation stand for the operators. An access outside the words of
the frame ends the run (`fault`): what it reads or destroys is not followed.

`SourceParser` is checked against `Grammar`: every small tree is written out by `Text`, with the
parentheses it needs and no others, and the parser has to find the tree again. `Lexer` is checked
against `Tokens` in the same way: a text has its tokens beside it as history. In `Declarations`, a file is a
sequence of such trees; `int` arithmetic has `IntBits` bits and wraps.

In `Compiler`, types are abstracted: operands of statements are names, literals or strings. Of sizes this is kept: a scalar
has one word, a string two, an aggregate any number (`Width`); and `bytes` is an aggregate of a size
`IR_MEMCPY` refuses. A slot has the size of the first request for its name, so that the later words a string or a copy writes may
belong to the slots given before it (`Behind`, `Overrun`). A `case` has blocks for arms, and an arm may bind a field of the variant it matches (the checker's
rule), or not.

Definitions commented "Variant" are plausible slips (a missing reset, a wrong order,
an off-by-one) of the definition that follows them. They take no part in a specification; each
is one that the property named with it in `PROJECT.json` refutes, which shows
that the property constrains this code.

## What the runs check

Passing runs:

| run | instance | shows |
| --- | --- | --- |
| `arena` | blocks of 20 and 24 bytes, requests of 0 to 40 bytes, at most 4 blocks, 4 allocations, 2 marks, 80 bytes | `HeldInside`, `HeldDisjoint`, `MarksReachable`, `NothingLeaks`, `HeldAligned`, `WithinCapacity` in every order of operations, restores across blocks and failing `malloc` included |
| `frame` | every code of at most 3 instructions over names x, y, z: scalars of 1 and 16 bytes, allocas of 0, 12, 16 bytes, calls with up to two return slots; and three arrays of sizes at the ends of an `int` of 18 bits | `SlotsDisjoint`, `SlotsInFrame` (of the computed `frame_size`), `ScratchReserved`, `FirstRequestFits`, until an `int` overflows; `EveryDstHasASlot`; `EnterCoversFrame`: the four digits written for ENTER reserve the computed frame size exactly if that is less than 10000 bytes (12008 becomes 1200; allocas of such sizes are in the instance); and `SlotsStable` as an action property |
| `builder` | first capacities 2 and 2, 3 procedures, 5 instructions, 3 temporaries and literals of 2 texts: both arrays grow | `CurrentKept`: the procedure being built keeps its instructions in order; `KeptWithinFirst`: nothing is lost before the procedure array grows; `LiteralsKept`: the label an instruction got for a literal is defined once, with that text |
| `control` | every body of at most 7 nodes, 3 deep, over if/else, while, loop, for, case, arms and exit | `ControlExact`, and `Implements`: running the code refines `Structured` |
| `names` | every body of at most 6 nodes, 2 deep, over ten declarations and assignments that shadow, repeat and capture names and reuse them for strings and for records of three words, one with a string where none can be and one of an aggregate of an odd size | `PassesAgree`, `AbortsExplained`, `LexicalReads` |
| `expressions` | at most 7 nodes over a number, a pointer to it and a new variable, literals, one-element arrays, three procedures; numbers modulo 4 | `ValuesKept`: the code leaves in every variable the value of left-to-right evaluation, unless a variable changes between an operand and its instruction; `OperandsReady`: temporaries are written once, and before they are read |
| `lexer` | every text of at most 3 characters of an alphabet with one of each class, every pair of some thirty lexemes with and without a blank, comments and parentheses around more; strings of 2 characters at most | `LongestTokens`, `Located`, `SniffAgrees`, and `Terminates` under weak fairness |
| `syntax` | every body of one statement of at most 4 nodes or two of together 3, every file of two small declarations, lists of up to one item more than `NLIST_MAX` (3 for 256), and procedures around every sequence of at most 3 tokens | `RoundTrip`, `RefusedFor`, and `Terminates` under weak fairness |
| `declarations` | every file of three declarations of two small sets, records of at most five fields with and without variants, arrays around the bounds of an 8-bit `int`, and bodies of one or two statements in a file that declares something of every kind | see below |

Why the bounds suffice: the arena instance reaches exact fits, requests that end beyond an
unaligned capacity, oversized blocks, and restores across two blocks with a mark on either
side. The frame invariants relate two slots and one instruction, and three instructions
name every pair of requests with one in between. In the builder each array grows at least
twice (0 to 2 to 4). Seven nodes hold a loop nested in a loop followed by an `exit`,
a case of two arms with an `exit` in one, an `if` with `else` in a loop; the state that nested
statements share (`loop_exit`, the label counter, the scope chain) is one level deep per
statement. Six nodes hold two declarations of a name with a block
between them and a use before, in and after it; and they hold the shortest body in which a word too many destroys something that is
read: x, in a block a scalar y, behind it a string or a record y, and a use of x. One word, two and three are the
sizes that tell a string from a scalar and from a record that is larger still. Seven expression nodes hold an assignment
nested in the operand of another one, a store through a pointer beside a read of the same
variable, and a call that changes a variable through its argument.

The three runs over texts state what is true of *every* input as an equivalence: the good
outcome on one side, the inputs that have it on the other. What the code gets wrong, in the sense that
no programmer expects it, is what the right side leaves out:

* `RoundTrip`: a text is read as the tree it was written for exactly if no statement runs into the next
  (a statement has no end of its own, so that a line that begins with `(`, `[` or an atom continues the
  line before it, and `let x` takes the next identifier for its type) and no literal has a field access for an
  element (the node is read as a named field). `RefusedFor`: only such texts, and lists longer than
  `NLIST_MAX`, are refused.
* `LongestTokens` holds of all texts; the scan leaves the text exactly where one ends in a backslash (it steps
  over the terminating zero). `Located` holds of tokens with no escaped newline before them (its
  line is not counted), `SniffAgrees` where no comment, string or form feed follows. The comment at
  `lex.c:181` names `:>` for an arrow; the code has no such token.
* `RegisteredInOrder`: a file is registered exactly if every record it names stands before the use. This
  disagrees with two comments, see below.
  `SeenAs`: what a body takes a name of the file for (the last variable before it, else the last declaration).
  `SignaturesAgree`: types of a signature, resolved twice, agree unless a name is declared again or hidden by a
  parameter. `BlocksClosed`: what blocks, loops and arms declare is gone after them.
* `AccessesApart`: field accesses do not overlap exactly if no field is larger than a word and the record has not both
  fixed and variant fields. `ArmsAgree`: an arm and an access mean one field exactly if no earlier one
  of the name differs. `SizesTrue`: array sizes are those of unbounded arithmetic exactly if they fit an `int`.

Three characters hold every token of more than one character with one beside it, pairs of lexemes what
a token takes from the next one. Four nodes hold every operator in every operand of every other,
which is all that precedence and postfixes can confuse; two statements hold one that runs into another; a
list of `NLIST_MAX + 1` items is the first one refused. Three declarations hold a use with a declaration of the name on
either side, and a record between two others; five fields hold two of each part of a
record; 8 bits hold a length, and a product, on either side of each bound.

The remaining runs each check one statement of the repository's documentation
that the code does not keep; TLC finds the state, and `findings` in `PROJECT.json`
quotes the statement.

| run | statement | what happens |
| --- | --- | --- |
| `builder_grows` | `EveryProcKept` | the seventeenth procedure (the constants are the code's 16 and 32) replaces the first sixteen by uninitialised storage |
| `aggregates` | `AddressKept` | an aggregate's address is kept in its first word, which the first element overwrites |
| `outputs` | `OutputsHaveStorage` | an output that is not assigned through a destination has no slot; `test/simple_test.mol` does not compile |

Three more comments of the repository are at odds with passing properties:

* `check.c:307`, "names may be used before declaration", and `check.c:792`, "register all top-level names so forward references
  work": `RegisteredInOrder` shows that a record cannot be named before its declaration, nor in itself, because
  `register_toplevel` resolves the types of fields and signatures while it registers names.
* `arena.h:56`, a restore is "Only safe if no block boundaries have been crossed between save and restore": the
  run `arena` makes such restores, and `HeldInside`, `HeldDisjoint`, `MarksReachable` and `NothingLeaks` hold after them, because
  `arena_restore` frees the blocks in between. The comment asks for more than the code needs; no caller depends on either.
* `ir_codegen.c:257`, "The dst var's slot already has `nbytes` reserved by alloc_slots": not if a smaller variable of the name
  came first. `LexicalReads` excludes these bodies (`RoomForAll`), and fails without that condition.

Other defects are stated by the condition of a passing property: slots are keyed by name, so
that an inner variable overwrites an outer one, a variable called `t0` meets the first
temporary, and a scalar and a string of one name share the eight bytes of the first (`LexicalReads`,
`FirstRequestFits`); the lowering does not bind the fields of a matched variant
(`AbortsExplained`); a frame of 10000 bytes or more is cut (`EnterCoversFrame`).

`ValuesKept` excludes bodies with array literals for the reason the run `aggregates`
shows, and bodies where an operand is overtaken: the operand of an instruction is a name, read
when the instruction runs, so that `x - (x := 2)` reads the new `x` twice. No document fixes
an order of evaluation, so this is a condition of the property and not a finding. A call
without return slots (a procedure without outputs, and any `const` procedure, whose wrapped type
`lower_expr` does not unwrap) yields no operand; a body that uses it aborts in `Emit`.

The passing properties state what *does* hold beside them, with the conditions in the
formula: `LexicalReads` holds of bodies that do not shadow, do not use `t<k>` names,
initialise their variables, do not declare a variable under a name an earlier block gave to a smaller one, and name no field of a variant like a variable (the checker binds the field, the lowering
does not, so that the name finds a variable if there is one, or its slot if there was one in a block that is closed);
`AbortsExplained` says that a body the checker accepted
is refused later only over a use of a file-level variable, an output, a declaration
without initialiser, or a variant field, over a string that is not an initialiser (`ir.c:493`), or over the copy of an
aggregate of no whole number of words (`ir_codegen.c:403`), never over an `exit` or any other name;
`PassesAgree` holds with shadowing, but not for names of the form `t<k>`, nor for two declarations of a name in one block
(the checker takes the newest, the lowering the oldest; parameters and outputs are one
block, with what the body declares outside all others, and so are the two variables of a
`for`) nor for `var x := x` (the checker resolves the initialiser outside, the lowering
to the new variable).

### Fairness and termination

`SourceParser` and `Lexer` assume weak fairness of their next-state relation, and `Terminates` says that
every text is accepted or refused, and that a parser that keeps asking comes to the end of the text or to an
error. The code justifies this: the compiler is one thread that waits for nothing, so that it takes
its next step as long as it has one. What could go wrong is a loop that turns without consuming
anything, and the variants of `Element` and `InComment` show that the property would find it.

The other specifications have no fairness and claim no liveness: each walk moves on by one node,
declaration or instruction with every step, so that it ends because the input does, and the compiled
program need not terminate. That no pass gets stuck in the middle is checked as absence of deadlock in
`frame`, `control`, `names`: their only states without a further step are the explicit ends
(`Done`, `Halt`). The other runs turn the deadlock check off: a process that ran out of memory, came to the end of
its text, or reached the bounds of the instance in the middle of an expression, stops; in `syntax` and
`lexer` it is `Terminates` that says where.

## What is proved

Every property of `Arena`, `Frame`, `Builder` and `Expressions` that a passing run checks is also a theorem, and so is the
type invariant `TypeOK` of the first three, which therefore needs no run; of `Lexer`, all but its liveness property are
(`Located`, `LongestTokens`, `SniffAgrees`), and of
`Compiler`, all: `ControlExact`, `PassesAgree`, `AbortsExplained`, `LexicalReads` and the refinement `Implements`. They hold for every value of the constants that satisfies the assumptions, which TLC
evaluates on the instances:

| assumption | says | why the code has it |
| --- | --- | --- |
| `ArenaAssumption`, `BuilderAssumption` | sizes, bounds and first capacities are natural numbers; storage never written holds no instruction and no procedure | `size_t`; `ir.c` starts arrays at 16 and 32 |
| `FrameAssumption` | codes are sequences of instructions; the null name and the float-scratch sentinel are not variable names | names are hashes of identifiers, compared with 0 and -1. Sizes are `int`s of at least five bits (`INT_MAX`) |
| `ExpressionsAssumption`, `NamesAssumption` | numbers of inputs and outputs are natural numbers; temporaries differ from each other and from variables of the text, arrays from other variables; an initial value is a number or the address of an initial variable | `ir_tmp` counts; a declaration has one type. A variable of the text *may* be called `t0`: `LexicalReads` states that hazard, here such bodies are left out |
| `InputsAssumption` | a text is a sequence of characters of the classes `lex_scan` tells apart | every byte is of one of them |
| `TokensAssumption`, `StringRoomAssumption` | the history an input carries is what `Tokens` says of its text; there is room for a string's zero and one character | the first defines the history; the buffer has 4096 characters |
| `OperandsAssumption` | a literal, a string and no operand are three things | they are kinds of nodes |
| `WidthAssumption` | strings have two words, aggregates at least one | `ty_string` has 16 bytes; `agg_size` and `slotmap_alloc` make every size positive |
| `NodesAssumption` | nodes are statements of `parse_stmt_inner`'s kinds; what is declared or assigned to has a name, the initialiser of a string is a literal and that of an aggregate a name, only a `for` has loop variables | the constructors of `ast.c` |
| `TmpNamesAssumption` | the bound on bodies is a natural number; the temporaries of a body within it have names, and names of their own (seven for each node at most) | `ir_tmp` prints a counter |
| `TuplesAssumption`, `GlobalsAssumption` | parameters, outputs and file-level variables are sequences of names | lists of `ast.h` |

* **Arena.** `HeldInside` and `HeldDisjoint` are not inductive: a restore keeps what is
  older than its mark, so the invariant has to say where the allocations
  lie relative to each mark. Storage is handed out at increasing positions (block identity,
  offset). `IInv` adds that block identities increase along the chain
  (`BlocksOrdered`), that allocations follow each other (`HeldOrdered`), that what was held at
  a mark lies behind it (`MarksHold`), and that marks are ordered in both respects
  (`MarksOrdered`). `Invariance` proves it step by step (`AllocFastStep`, `AllocSlowStep`,
  `TakeMarkStep`, `RestoreStep`, `InitFreeStep`); `TypeCorrect`, `HeldStaysInside`,
  `HeldStaysDisjoint` and `RestoreTerminates` follow. The last says that
  `arena_restore`'s loop meets its block before the chain ends. `CapacityKept` adds
  `WithinCapacity` to the invariant: the fast path compares before it hands out, a new block is
  as large as its first request, and a restore only moves `used` back (`MarksReachable`).
* **Frame.** `SlotsDisjoint` says nothing about the free part of the frame, and
  `EveryDstHasASlot` nothing before the end of the walk. `IInv` says that slots follow each
  other downwards without a gap, that `frame_size` is the distance walked, that the first slot
  is the scratch word, that a name has at most one slot, and that every name met so far has one. The lemma `SlotmapAlloc` states once what
  `slotmap_alloc` does to it. All of it holds until an `int` overflows (`wrapped`). `FrameDisjoint`, `FrameCovers`,
  `ScratchIsReserved`, `DstsHaveSlots`, `TypeCorrect` follow, and `SlotsNeverMove` is an action
  property proved from the same invariant.

  `EnterCovers` evaluates the four digits for any frame size. `FirstDecides` needs to
  know where the names with a slot come from: `Origins` says that each was named by an instruction
  already met, `Sized` is the property for those instructions.
* **Arena packing.** `NothingLeaks` and `HeldAligned` relate neighbours
  in the order of allocation; the invariant adds the bytes of each block up to its first allocation and the
  alignment of `used`.
* **Builder.** `CurrentKept` says nothing of capacities; `IInv` adds that the instructions are within their
  array and that the procedure array is empty or has its first capacity at least, so that it has
  room for the first procedures without being replaced. `LiteralsKept` says nothing of the counter; `LInv` adds
  that it is beyond every label.

* **Expressions.** `OperandsReady` (`ExpressionsProofs`) speaks of the code there is, not of the results `lower_expr` has returned and its
  callers have not used yet. `IInv` adds that each of them, and each variable of the text, is written by the code
  there is (`PendingReady`, `VariablesWritten`), and that destinations are variables or temporaries the counter has
  passed. `CodeStep` states once what emitting instructions does to it, `PendingStep` what returning a result
  does; then there is one lemma per kind of node. `MaxTmps` bounds the temporaries of a body so that TLC can evaluate
  the assumption on their names.

* **Values.** `ValuesKept` (second part of `ExpressionsProofs`) compares the variables after the run with `env`, the values of left-to-right
  evaluation. Its invariant says it of every result that is pending and of any point of the run: executing the code there is, from
  the beginning, gives the variables the values in `env`, and gives each pending operand, as the instruction will read
  it, the value it is `meant` to have, unless it was overtaken. An instruction that is
  appended acts on the state the earlier ones leave, so that each kind of node extends the invariant by the
  effect of its own instructions.
* **Lexer.** `Located` relates a token to a position of the text with line and column. Its invariant (`LInv`) follows the
  character the scan stands at, the line and column counted so far, and the token that was looked at and not yet taken.
  `LongestTokens` compares the scan with a description of the tokens that does not scan (`Meaning` of a piece, `TokensFrom`).
  Its invariant (`WInv`) says that the tokens given, followed by what the text stands for from one place on, are the
  tokens of the text (`Owed`). The place is the cursor between tokens; inside a token or a comment it is where that
  began, and `WInv` says how much of it was read. The rest is about the text alone. First, that the
  recursive functions of `Tokens` take the turns written in them (`FromTurns`, `EndTurns`, `ContentsTurns`: a function
  is built down to each place by a smallest counterexample). Then, for each kind, where its longest piece ends and
  that no longer one means anything (`WordEnds`, `OperatorEnds`, `IntEnds`, `SuffixEnds`, `FractionEnds`,
  `ExponentEnds`, `StringCloses`, `StringRefused`, `CommentOver`). Assumed are only that a text is a sequence of
  characters, and that there is room for a string's quotes.
  `SniffAgrees` follows from the two invariants and a fact about the text: without comments, strings and form feeds
  each parenthesis is a token, and no other token has its spelling (`Chain`, shown backwards from the end of the text). So the
  parentheses of the text and of the tokens are paired and their depths agree (`SameCount`), and the first place
  where either is closed is the same (`SameClosed`), because a depth changes only at a parenthesis.
* **Nesting.** A body is a sequence of nodes in which `end` closes a block. The first part of `CompilerProofs` proves what the parser's recursion
  establishes: each node has the stack of blocks open at it (`Stacks`), and the parser produces only nested bodies
  (`ParseNInv`). `Least` is induction by a smallest counterexample over the
  numbers of nodes, which needs no theorem with an operator parameter.
* **Compiler.** `AbortsExplained` needs four facts that meet only at an abort. The checker and the lowering walk the same nodes
  with the same stacks (`Following`), so that where the lowering meets an `exit`, the checker was in a loop, and
  `loop_exit` is set. Each name the lowering fails to find was found by the checker
  in a scope the lowering does not have, or in one it opens elsewhere (`Explained`). Every destination and every
  operand of the instructions emitted so far is a name of a kind that says where it was written (`Coded`), which tells why
  a name may have no slot in `Emit`. A string that is an operand is refused where its node is lowered (`Refused`), and the
  copy of an aggregate where it is emitted, so that both are read off the text. `PassesInv` is the conjunction over the passes; `PassesInvariance` goes
  through their steps, and `AbortsAreExplained` is a consequence.
* **Names.** `PassesAgree` compares a search from the newest entry with one from the oldest. They meet if no scope has two entries
  of the name (`Agreement`), and if the chains of the two walks have the same entries for it: the lowering's has temporaries
  besides, which are not names of the text, and lacks the fields of variants (`Alike`). That a scope has no two entries is
  said of the text by `DistinctInBlock`, in terms of the blocks a declaration is in, and has to be shown of the checker's scopes: an
  entry of the innermost scope was declared in the innermost block (`Housed`), which is carried through blocks that
  are entered and left (`SortedAll`). `Blocks` finds the blocks of a node by counting; `BlocksAre`
  there says that these are the blocks of the stack (`Levels` is the count, `StandingAll` that a block nothing has ended
  is on it). `AgreeInv` adds to `PassesInv` how many operands have been resolved.
* **Control.** `ControlExact` and `Implements` (`ControlProofs`) say of the code what `Structured` says of the statements, and the two find
  the ends of blocks differently: `Structured` counts, the lowering keeps a stack. The first part shows that `Close`, `Else`,
  `Holder` and `EnclosingLoops` are what the stack of blocks says (`CloseIs`, `ElseIs`, `HolderIs`,
  `EnclosingIs`). The second is the invariant, `ControlInv`. Neither property says anything before the code is
  complete, and none of labels that are still to be placed; the invariant says that labels are numbered by the nodes before
  (`Gid`), so that no two nodes share one (`LabelsApart`), that the activations of `lower_stmt` hold the labels of the
  blocks they are in and `loop_exit` that of the innermost loop (`Framed`), and that each node so far has its part of the code in
  order: marks for the labels that belong there, a jump, if there is one, as the last instruction, to a label that the node or its block
  owns (`Part`, `Laid`). There is one lemma per action of the lowering (`LowerIfBuilds` and so on). The third part reads the
  finished code: falling through leads to the next node that has instructions (`Falls`), a jump to the place of its label
  (`LastTarget`, `TopTarget`, `ElseTarget`), and the places together are `Structured`'s `Follow` (`FollowIs`), in both directions.
  `PathsAreExact` is this; `CodeImplements` adds that each step of the run enters a statement, moves along one of these paths, or
  stays where it is.
* **Reads.** `LexicalReads` (`ReadsProofs`) speaks of one instruction and one moment; to be inductive it has to be said of every
  word that may still be read. A writer of node *j* *covers* node *n* if the blocks open behind *j* are still open at *n*
  (`Covers`): there what *j* wrote can be read. The invariant, `Live`, says that the word of every writer in front of the running
  instruction that covers it was last written for that writer's declaration, and that a store finds the address taken by
  the instruction before it. Three facts carry it over a step. Every operand of the code has a covering writer in the code before it
  (`Lines`, with one lemma per action of the lowering, on top of `ControlInv`): an entry of a scope was written where it
  was declared (`Settled`, `SeesAll`), a temporary in its own node, the index of a `for` and the subject of a `case` in the
  activation of that node (`Kept`); names nothing is stored for are those `Emit` refuses (`Unkept`, `NotKept`). No path enters the
  region a writer covers without passing the writer (`Reach`): jumps lead out of blocks, to the second part of
  an `if`, whose parts cover nothing of each other, or back to the head of a loop, from an end that sees what the head sees. And two
  writers that cover one node write different words, or for one declaration (`OneWord`): this is where the conditions on names
  are used. A writer of several words stays in its own slot: slots have the size of the first request (`Sized`), which by
  `RoomForAll` is room for every variable of the name (`Reserved`), so that no word is written over a neighbour (`NoOverrun`). `ReadsInvariance` goes through the steps of all passes and of the run (`LowerBacks`, `LiveStays`), and
  `ReadsAreLexical` follows.

Only model-checked, and why:

* `Terminates` is liveness.
* `SourceParser`, `Declarations`: `Grammar` and `Types` walk trees with RECURSIVE operators, in whose modules the SMT
  backend is not available.

## What is not modelled

* The **values of literals** (`strtoull`, `strtod`), **float computation** and the choice of arithmetic
  mnemonics, **system calls**, the text of the assembly and the clash of its names, the **IR dump**: formatting,
  library functions, or meaning that lives in the DVM.
* The **driver**'s files and imports, and the **DVM library**: external code of which the
  repository has headers only.
* **Values in aggregates and loops.** `Expressions` follows straight-line code over numbers, addresses and
  arrays of words. A `for` reads the first two words of what it iterates as a length and an
  address, which arrays with elements in place do not have; `Lowering` has these instructions but no values. Record fields:
  `Types` has their offsets, no run follows a value through one. (A record variable cannot be initialised
  from a literal: the types of the two are not compatible.)
* File-level variables are checked and then ignored by `ir_lower`; `AbortsExplained` names their uses.
* **Wraparound of `size_t`** in the arena, which needs requests near 2^64. Those of `int` are in `Frame` and `Declarations`.
* **Element stores of an array literal by size**: the run `aggregates` shows the first store destroy the address the next
  ones are computed from. The copy of a named array (`var b := a`) is in `Expressions` and its theorems; the bodies of
  TLC's instance, of 7 nodes, are one node short of it.
* Kinds of tokens and operators that differ in nothing but spelling are represented by one of each precedence or
  form.

## Plan

* Record fields, strings and `for` with values in `Expressions`, with the offsets of `Types`.
