# A TLA+ model of the front end of holoc

holoc (`src/`) is a compiler for a subset of C11. It is one process with one
thread; what is hard in it is not concurrency but long sequences of legal calls
on shared, mutable state: a stack of half-read files, token lists that are
spliced while they are walked, macros that hold the arguments of the call being
expanded, and a stack of conditionals of which most of the time only the top
matters. That is what these modules model.

## 1. The system

The front end is a pipeline, each stage pulling from the one before it:

    file storage -> lexer -> token iterator -> preprocessor -> C token iterator -> parser
      (phases 1,2)  (phase 3)  (stack of files)   (phase 4)        (phases 6,7)

| Component (files in `src/src`) | State | Operations | What makes it correct |
|---|---|---|---|
| File storage (`file_storage`) | list of open files, include paths | `fs_get_file`, `fs_add_include_paths`; splices lines, trigraphs, BOM on load | a name is looked up in the order of the C standard, the same name from the same place gives the same file; phases 1 and 2 change nothing else |
| Lexer (`pp_lexer`) | cursor into a file, "at line start" flag | `pp_lexer_parse` | longest token; every character is in exactly one token, space or comment; flags tell where lines start |
| Token iterator (`pp_token_iter`) | stack of entries: tokens already lexed, lexer | `ppti_peek`, `ppti_peek_forward`, `ppti_eat`, `ppti_include_file`, `ppti_insert_tok_list` | it is one flat stream of tokens: none lost, invented or reordered, however files nest and however far one reads ahead |
| Preprocessor (`preprocessor`) | macros, stack of conditionals, the iterator | `pp_parse`: one output token per call, with all directives and expansions on the way | the text of exactly the selected groups comes out, calls expand by value, a directive takes its line and no more, it comes to an end |
| `#if` expressions (`cond_incl_ast`) | none (list of C tokens in, tree out) | `ast_cond_incl_expr_*`, `ast_cond_incl_eval` | the tree is that of the grammar in the header; its value is that of C |
| C tokens (`c_lang`) | none | `convert_pp_token`, formatting | numbers get the first type that holds them; strings come out with the characters they were written with |
| C token iterator (`token_iter`) | list of C tokens ahead | `ti_peek`, `ti_peek_forward`, `ti_eat` | adjacent strings become one |
| Parser (`parser`, `ast`, `c_types`) | tokens ahead, tree built | `parse`: one expression after the other, printed as a tree | the tree is the grammar's, for exactly the tokens that were eaten; constants have C's type and value |
| Hash table (`hashing`) | chains of macros | `hash_table_sc_get_u32`, insertion and removal at the place it returns | it is a map; a step in one chain disturbs nothing else |
| Utilities (`darray`, `llist`, `cdlist`, `buffer_writer`, `str`, `filepath`, `unicode`) | per object | | growth, bounds, round trips |
| Error reporter (`error_reporter`) | counts | `report_error*`: prints, looking its file up again | a report shows the file it is about and never ends the program |
| Driver (`main`) | options | prints tokens of one of the stages, for each main file | directories of `-I` go first |

How they interact: the preprocessor owns an iterator over files and, for the
line of an `#if`, a second iterator without files; both are operated on by the
same expansion code. Including a file pushes an entry on the iterator's stack;
expanding a macro splices tokens into the list of its top entry. The lexer is
called only from `ppti_peek_forward`. All calls are synchronous; there are no
callbacks. Failure is of three kinds: a report (a message, then the program goes
on), an assertion (`NOT_IMPL`, which ends the program), and use of a token that
has been freed or does not exist.

What is hard to test is listed line by line under `hazards` in `PROJECT.json`,
with the properties meant to catch each.

## 2. The modules

| Module | Models |
|---|---|
| `PpTokenIterOps` | the iterator's data structure and operations, as operators on a stack of entries |
| `PpTokenIter` | the iterator as a system: a client that peeks before it eats, includes and inserts at any time |
| `TokenStream` | the abstract specification: one flat stream |
| `PpPeekWalk` | the loop of `ppti_peek_forward`, one action per kind of iteration |
| `PpTokenIterOpsProofs` | lemmas about the operators, used by all proofs about iterators |
| `PpTokenIterProofs`, `PpPeekWalkProofs` | theorems about `PpTokenIter` and about `PpPeekWalk` |
| `PpState` | the preprocessor's state, and the steps all directives share |
| `PpDefine` | `#define`, `#undef` |
| `PpExpand` | macro expansion, in files and in `#if` lines |
| `PpCondIncl` | the conditional directives, skipping, preparation of `#if` lines |
| `Preprocessor` | everything together: `pp_init`, `pp_parse`, the other directives |
| `PpGroups`, `PpCalls` | the properties of conditionals, and those of macro calls |
| `PreprocessorProofs` | theorems about the preprocessor |
| `CondExpr` | the parser of `#if` expressions and the evaluation of its trees |
| `MacroTable` | the hash table of macros, with its chains and with names whose hashes meet |
| `MacroMap` | the abstract specification of it: a map from hashes to records |
| `MacroRecord` | the record of a macro and what a definition makes of it; used by both |
| `FileStorage` | the search for files and the list of loaded ones, with the driver, the iterator and the error reporter that use it |
| `Parser` | the parser of expressions, the trees it builds and their text |
| `CNumbers` | the conversion of constants of integers and characters |
| `MacroTableProofs`, `FileStorageProofs` | theorems about the two |
| `SourceText` | translation phases 1 and 2: the three loops that rewrite a file in place |
| `PpLexer` | the lexer on the text they leave |
| `PpLexerProofs` | theorems about the two |
| `CStrings` | the characters of strings from the source to the output, and the encodings between |
| `TokenIter` | the iterator of C tokens, and how it joins strings |
| `TokenIterProofs` | theorems about it |
| `MCPpTokenIter`, `MCPpPeekWalk`, `MCPpTokens`, `MCPpGroups`, `MCPpCalls`, `MCPpLines`, `MCCondExpr`, `MCPpLexer`, `MCTokenIter`, `MCMacroTable`, `MCFileStorage`, `MCParser` | sources and bounds for the model checker |

**Token iterator.** An entry of the code is a list of tokens and a lexer. The
output of a lexer depends on its file alone, so an entry here is
`[list, lexer, rest]`: the tokens lexed and not eaten, whether there is a lexer,
and what it has still to produce. The stack grows at index 1, as the code's list
does. `ppti_peek` has a side effect, which is the heart of the component: it lexes
tokens into lists, and everything `ppti_eat` may do depends on that.
`PpTokenIter` has a variable the code has not, `ready`: how many tokens the
client has peeked and not eaten. It states the way `preprocessor.c` uses the
iterator (peek, then eat); `NoUnreadDropped` of the preprocessor says that it is used so
that no token is lost: what is left to be read before a step is, but for the tokens it
takes from the front, still there after it.

**Preprocessor.** The C code is nested calls with loops that wait for tokens. A
frame `fn` stands for the place in them: the loop that runs (`fn.in`) and its
local variables; a call inside a directive keeps the frame to return to in
`fn.ret`. Each action is one turn of one loop, or a straight piece of code between
two loops, with everything it does to the iterators (`it.main`, and `it.expr` for
an `#if` line), the macros, the conditionals (`cond`), the output (`out`) and the
messages given (`diags`). Tokens are records of kind, spelling, the flags
"at line start" and "after white space", and whether they have a file (`loc`):
the error reporter looks the file up and uses the result unchecked, so a report
on a token without one ends the program. The frame `Abort` is an assertion or a
NULL pointer; `Spin` is a loop that waits for a line start and has met the end
of input, after which nothing changes any more; `Done` is the end of input.
`macros` is a partial function from names: `GET_MACRO` compares 32-bit hashes,
and here names are taken to have different ones. `MacroTable` is about the others.

In skipped groups the code can go on with a token it has freed (a `#` without a
name, `preprocessor.c:408`); what it then finds is left open (`SkipStale`).

**#if expressions.** One operator per function of the parser, returning the node
and the tokens left; a failure leaves a token no level goes on at. `Chain` is the
loop that ten of them share. The preprocessor's modules take the evaluation of a
line as a constant, `EvalExpr`; their runs use lines of one number and give it the
sign of that number, and `CondExpr` models what happens on longer ones.

**Macros.** `hash_table_sc_get_u32` returns the place of a pointer: the first one in
the chain whose record has the hash, or the null pointer at its end. `Slot` is that
place as a number. A definition writes at it (`Stored`), an `#undef` unlinks there
(`Unlinked`). `defs` is history: the definitions of a name since its last `#undef`,
which `FindsDefinition` compares with what is found. `MacroMap` says what all that
comes to; the rest of the preprocessor uses the table as if it were that map.

**Files.** A path is the sequence of its components, so joining is concatenation, and
`Place` says what the system makes of one. A file is the name it was asked for by and
the path it was found at; what is in it is the matter of `SourceText`. `opened` is the
iterator's stack, of which only the files matter here. A report looks its file up
without the file that included it, and may load it once more.

**Parser.** One operator per function, from a record `p` to the set of records it may
leave: the place in the tokens, how the program goes (`st`: on, or ended by an assertion,
a null pointer or the end of the stack), the node returned and the number of reports.
`Level` and `More` are the ten functions that differ in their operators only. Three of
these look again at the operator they have freed (`parser.c:869`, `904`, `939`). What that
memory shows is open at every turn of every loop (`Seen`): the operator still, or again,
or something else. It is the only choice there is, and so all that makes a set of more
than one record. `misread` is history: an operator was `taken` where
another token is next, or `missed` where one is next; the properties speak of it. A token is its spelling and a
constant a name for what it was spelled with; `CNumbers` takes it from there, with the
widths of the types as parameters.

**Source text and lexer.** The buffer of a file is a function from positions to
cells, with the two pointers of the loop that runs; one action is one turn of a
loop. A cell holds a character and, in addition to the code, the place in the file
that it was read from (`at`), so that the properties can compare what is left with
what the file has at that place and with the line it is counted on there (`LineOf`).
The characters are those the code tells apart; a character of several bytes is one,
and which ones are letters, digits and punctuators are constants. `PpLexer` goes on in the same buffer,
one action per stretch of white space, comment or token. At a byte that is none of a
character, and at a control character, the lexer takes no step (`Unread`): in the code the
first gives tokens for ever and the second fails an assertion. A token is its kind and its
place: escapes only decide where a string ends, and the table of punctuators how
long one is. `Mode`, with which the tokens are compared, is no part of the code: it
reads the text character by character and says what it is in (`Turn`): a string, a
word, a number, a comment, or none of these.

**C tokens.** `TokenIter` has one action per turn of the loops of
`ti_peek_forward`. `call` is the call that runs, with its locals: the number of the
token it is at, the place in the list and the buffer the preprocessor writes
spellings into. A spelling still in that buffer when the call returns is `Lost`:
it is memory of a function that has ended, of which nothing is known. This happens to
an identifier right behind a string (`token_iter.c:55`) and to an empty string that none
follows (line 65): `StringsJoined` says that it happens to nothing else. The
preprocessing tokens are converted in `Init`, as a conversion depends on nothing but the
token. `CStrings` has one operator per reader and writer of `unicode.c` that the program
calls; codes, bytes and units have their real widths. Reading memory that is not the
string's gives `LostCode`, a reader that stays where it is `EndlessCode`; both end what is
read, and neither is a character of any text.

Definitions under "Plausible bug" are wrong on purpose. Each is a definition of
the model after a slip in the code, and each property is known to fail for at
least one of them (`mutants` in `PROJECT.json`).

## 3. The runs

| Run | What it checks |
|---|---|
| `iterator` | `TypeOK`; `LexedAhead`, the inductive invariant; `NoUnreadTokenDropped`, no file is closed before its end; `LookPastIsNextInFile`, a lookahead that stays in a file shows the next token; `ImplementsStream`, the iterator implements `TokenStream`; `ReachesTheEnd`, a client that goes on comes to the end |
| `peek_walk` | the loop of `ppti_peek_forward` computes what `PeekForward` and `Peeked` say (`WalkIsPeek`), and always returns (`Returns`) |
| `cond_groups` | `SelectsGroups`: the output is the text of exactly the groups a reference definition selects (`PpGroups`), also where an included file opens a conditional, has its `#else` or ends it; `TypeOK` with its counters of nesting |
| `lines` | `WholeLinesKept`: the lines around directives come out whole, and of a directive only what stands behind the file name of an `#include`; `Terminates`: the preprocessor ends or gives up, or waits for a line behind a directive on the last one; `ExpandsByValue`: nested calls give the body with expanded arguments in place; `ParamsMatchCount`: parameters and their count agree once a definition is read; `NoUnreadDropped`: a step takes two tokens at most (three where a macro's name is read), may put some in front, and leaves all others to be read in their order, so that no file is closed half read; a step that goes on with a freed token is excepted |
| `include_line` | violation: what stands behind the file name of an `#include` comes out as text, although directives "take one full source line" (`pp_lexer.h:84-85`) |
| `cond_expr` | `ReadsGrammar`: the parser accepts what the grammar of `cond_incl_ast.h` derives, ternaries excepted, and reads nothing that it does not derive; `ReadsBack`: the tree it builds has the right precedence and associativity |
| `cond_value` | violation: operators are looked up by the kind of the node, so all binary ones are taken for `%` |
| `source_tokens` | `InPlace`: the rewriting never overtakes the reading; `KeepsText`, `KeepsLines`: nothing but line ends and joined backslashes goes, and what stays is on the line with the number it had; `TokensAreTheCode`: tokens are exactly what is not white space or comment, compared with a reader that goes character by character, and two punctuators side by side are not one longer one except where the file ends; `LineStarts`: the flag that makes a `#` a directive; `TokensOnTheirLine`: tokens are reported where they are in the file |
| `c_tokens` | `StringsJoined`: eaten, listed and coming tokens are always the source with its runs of strings joined; `TypeOK`, with the place of the loop in its list; `StringsShowText`: a string is printed with the characters it was written with, through escape sequences, UTF-8, the units of its type, joining and copying; `ReachesTheEnd`: each call returns and the parser comes to the end |
| `macro_table` | `ImplementsMap`: the table implements `MacroMap`; `OneRecordPerHash`: what the search and the removal rely on; `FindsDefinition`: a name with a hash of its own is found with its last definition, with the right count of parameters unless it was redefined; `TypeOK` |
| `files` | `LookupsStay`: what a name leads to changes only for names spelled like the full path of a loaded file; `ReportShowsFile`: a report shows the file its token is in, unless that was found beside a loaded file or its name is spelled like a loaded file's path; `UserPathsFirst`: directories of `-I` go before the built-in ones; `TypeOK`: open files are in the list and can be opened |
| `parser` | `TreesAreDerived`: what is printed without a report is the tree that the grammar gives to the tokens eaten for it, unless a freed operator was taken for the next token; `ReadsGrammar`: an expression of the implemented operators, of any length, is read to its end, unless a freed operator misled a loop; `TextShowsTokens`: the text shows the operands and binary operators of the expression in order; `ConstantsAreRead`: an integer has the first type of C's list that holds its value, a character its code |

### Bounds

* `iterator`: two tokens, files of up to three tokens, two includes or insertions
  anywhere. Files of 0, 1, 2 and 3 tokens around a lookahead of 2 are all the
  cases the walk tells apart, and three entries give one above, at and below the
  place where it stops. The theorems of section 5 have no bounds.
* `peek_walk`: every stack of up to three entries with up to two tokens lexed and
  two not, the last one possibly without a lexer; lookahead 0 and 1, the only ones
  in the program (`CountsAssumption`).
* `cond_groups`: all sequences of up to three lines out of fourteen kinds, well formed
  or not, and well-formed nests of up to seven: enough for an `#if` with
  `#elif`s and `#else` around another in a group that is read or skipped. Three of the
  kinds, of the first sort of sequences only, include a file: one that opens a
  conditional, one with an `#else`, one with an `#endif`; three lines are a conditional
  that one file opens, another divides and a third closes.
* `lines`: any two lines out of 32, or of 33 odd ones, after definitions and before
  two lines of text; the first also without these, so that a directive is the last line.
  A directive can disturb only what follows it, and it reaches no further than the next
  line, or the first one behind an included file: one of the odd lines includes a file
  that ends in half a definition. And calls nested two deep around five kinds of macro, in
  text and in `#if`. Two is what it takes for a macro's arguments to be collected while
  those of another, or an earlier call of the same one, are still in it.
* `cond_expr`: all strings of up to five tokens over nine, `?` and `:` among them, all
  trees of two levels of operators over all operators but the ternary. Precedence is about
  two adjacent operators.
* `source_tokens`: all sequences of up to five characters out of those the phases tell
  apart, and of up to three words out of sixteen that matter to the lexer (quotes,
  backslashes, pieces of comments and whole ones, joined lines), each followed by a
  line end and a line with one word, so that lines and flags after it show. Five
  characters are a trigraph and the line end it hides, or two joined lines; three
  words are something between two others. The same without the line after it, up to
  four characters, and up to three words in which every string is closed, so that
  each thing the lexer reads also ends exactly with the file. Texts with three question
  marks in a row, and one with a NUL, are among them: the loops do what they do there
  (`InPlace`), and the properties on what is kept say for which texts they are meant
  (`Plain`, `Regular`). The theorems of section 5 have no bounds.
* `c_tokens`: all sequences of up to four words out of five: two strings, one of them
  empty, two identifiers and a keyword. Four is two strings between two others;
  lookahead 0 and 1 are the only ones in the program. And one or two strings of any of
  the five types, empty, with a character at either limit of each length of UTF-8 or
  among the surrogates, or with one that is written as it is or with `\u`, alone and
  before a word of the five. A character has no influence on others but those next to it.
* `macro_table`: four names in one chain, two of them with one hash, two of them
  predefined; an object and a variadic function as definitions; two definitions of a
  name without an `#undef`. Three records in a chain let one go from the front, the
  middle and the end.
* `files`: one built-in directory and two of `-I`, on a disk where one name or another
  exists in several of them, beside the including file, in the working directory, in
  the root or nowhere; one name that is spelled like a full path; two main files; files
  three deep, five loaded. A report on the second of three open files is a search
  from another place than the one that found it.
* `parser`: all sequences of up to five tokens over ten, all chains of three binary
  operators of the eighteen, and odd ones; integers of three, five and six bits, two bits to
  a byte of a character, and constants at and one above the limit of each type in
  every base with every suffix. Three operators are what it takes to go down, up and
  down in precedence.

No run uses a state constraint. `CHECK_DEADLOCK FALSE` is given where the modelled
call returns (`peek_walk`, the runs of `CondExpr`), where the text has been read
(`source_tokens`) and where the parser has come to the end (`c_tokens`, `parser`); the
preprocessor stutters when it has halted (`Stay`).

### Fairness

The program is one thread, and the only thing assumed is that it goes on.
`PpTokenIter` assumes that the client, which calls `pp_parse` until the end of
input, goes on to peek when it has nothing peeked, and to eat what it has: weak
fairness of `Peek /\ ready = 0` and of `EatToken`. It is not assumed to include or
to look past. `Preprocessor!FairSpec` says that the main loop takes step after
step unless halted; as some step is possible in every state that is not halted,
this is weak fairness of `Next`, in a form that is cheaper to check. `PpPeekWalk`
has weak fairness of `Next`, the loop's own progress. `TokenIter` assumes that a call
goes on, that the parser peeks when nothing is listed, and that it does not only peek
for ever: strong fairness of `Eat`, as each peek disables it for the time of the call.
The loops of `main.c:105-111` peek and eat in turn until the end.

## 4. What the runs leave out, and what the models show besides

The violation `cond_value` is left out of the other runs of the preprocessor by their
choice of lines, as are these, which the code does on the same paths: calls with too many
or too few arguments outside the odd lines of `lines` (they end in a NULL pointer,
`preprocessor.c:100`); definitions that lead back to their own name (the code has no
record of the macros being expanded and goes on for ever).

`include_line` shows what `WholeLinesKept` excepts: the file of an `#include` is put on top
of what is left of its line, so the check of that rest looks at the file's first token
(`preprocessor.c:697`), and the rest comes out behind the file.

Disagreements of the preprocessor with its comments or with C that are in the model and
that no violation is about:

* `f()` of a macro without parameters starts to collect an argument, into a NULL pointer
  (`preprocessor.c:60`; the comment above it says the contrary). The calls that
  `ExpandsByValue` is about have none, the odd lines do.
* Operands are looked for without asking whether the line has ended: a `#define` without
  a name takes the first word of the next line (`preprocessor.c:313`, `550`). The odd lines
  have such directives, which `Terminates` and `NoUnreadDropped` are about;
  `WholeLinesKept` is about directives that have their operands.
* After a `#` without a name in a skipped group the freed token decides whether a
  file is closed half read (`preprocessor.c:408`): the steps of that loop (`stale`) are
  left out of `NoUnreadDropped`.
* No `#if` with a ternary is read: the `?` is not eaten (`cond_incl_ast.c:352-355`), where
  the grammar has "ternary = lor ('?' expr ':' ternary)?" (`cond_incl_ast.h:53`).
  `ReadsGrammar` excepts expressions with a `?`.
* A directive on the last line, with or without a newline after it, may be read for ever:
  a loop over its line ends at a token that starts a line, and the token at the end of the
  input does not (`preprocessor.c:357` and four more): the frame `Spin`. `Terminates`
  allows it there and nowhere else.
* Where a report breaks off the conversion of an `#if` line behind its first number, the
  list has no end and the parser reads through a null pointer (`preprocessor.c:506`,
  `cond_incl_ast.c:79`): `FirstNumber` ends the program there. Such lines are among the
  odd ones of `lines`.
* A lookahead across the end of a file shows the token after the next
  (`pp_token_iter.c:78`): it is why `LookPastIsNextInFile` speaks of one file, and the
  preprocessor then does not see that a `(` follows a macro's name.
* An `#elif` after `#else` is reported and its group read all the same
  (`preprocessor.c:576`).

Of texts, in the properties: those that end within a string (its reader does not look
for the end of the text, `pp_lexer.c:256`, so that no run has one); those that end
in a comment that only begins there, as the comparison is strict at the end of the
file (`pp_lexer.c:65`; a punctuator of two characters there comes out as
two, which `TokensAreTheCode` says); those with a comment that begins `/*/`, taken for a
whole one: these three are `Regular`'s. Those with a NUL, at which the loops stop, and
those with three question marks in a row, of which `replace_trigraphs` may miss the
trigraph at the second (`file_storage.c:76`): these are `Plain`'s. In the model: buffers
of 4096 characters that are full. `TokensOnTheirLine` excludes what follows a string that is
not closed: it takes the line end with it, uncounted, and a directive on the next line
is none. The column of a token is modelled and no property speaks of it: after a
comment of several lines it is one too high (`pp_lexer.c:111`). Behind a byte that begins
no character the lexer comes to no end, and a control character ends the program
(`pp_lexer.c:494`, `525`): no property speaks of texts with one before their end is
reached, which it never is. An order mark is
only skipped where nothing follows it (`file_storage.c:251`), which `Init` models.

Of files, each in the model and the reason for an exception in a property:

* The list is searched by full path with the name asked for (`file_storage.c:223`), so a
  file is found there only under an absolute name, and all others are loaded again each
  time, by reports as well: `SpelledSo` in `LookupsStay`.
* A report searches without the including file: for a file that was found beside it the
  report shows another file or ends the program (`ReportShowsFile`). A file found elsewhere
  can be shadowed only by one in the list, which is found there under a name that is
  spelled like its full path; so can the very file that was found beside another and is
  asked for again by its path.
* `string_rfind` returns the first place, not the last (`str.c:99-104`): "beside" is
  the directory of the first component, which for an absolute path is the root.
* The search of the include paths goes on after a match (`file_storage.c:195`), so the
  last directory that has the file is taken; this is also why `-I` goes before the
  built-in ones.
* A main file that is not in the list under an absolute name is not found, as an absolute
  name is joined to the working directory (`file_storage.c:212`). `--ast` ignores `-I`.

Of strings, each an exception in `StringsShowText`:

* The digits of `\u` and `\U` are read again as characters, as the cursor stays before them
  (`pp_lexer.c:160`): `"\u00e9"` is five characters.
* A byte of the source from 128 on is negative and has no code (`pp_lexer.c:257`): what is
  not ASCII is left out of strings.
* A string's length is its number of characters times the size of its type
  (`c_lang.c:269`): characters of several bytes, or of two units of 16 bits, take as much
  from its end. What is left may end within a character, and is then read past its end.
* One byte of 0 ends the copy of a string (`str.c:142`) also where a unit has two or four
  (`token_iter.c:66`); an identifier behind it may then be read as its last characters.
* `utf16_decode` takes every unit with one of four bits of 0xD800 for a surrogate, does not
  add 0x10000 to the code of a pair (`unicode.c:135-139`), and never gives the 0xFFFFFFFF
  of which `unicode.h` speaks; `utf8_decode` keeps two bits of the first of four bytes
  (line 88), and does not step over a byte that begins no character (line 86).
* Strings of different sizes are joined byte by byte, in the type of the first.
* Quotes and backslashes are printed without a backslash: this is not modelled.

Of expressions:

* No prefix operator works: `parse_expr_cast` builds a node for a cast only and tests the
  wrong way round whether it has one (`parser.c:734`), so each ends in the assertion of
  `make_ast_unary`. The kinds of `&` and `*` are exchanged (`parser.c:682`, `688`).
* Assignments and commas recurse until the stack ends (`parser.c:984`, `1028`).
* After an operand of `&`, `|` or `||` the operator is read again after it was freed. If
  the memory shows it still, the next token is taken for the operator: `1 & 1 : 1` is then
  printed as `(1 & 1) & 1`, without a report. `TreesAreDerived` and `TextShowsTokens` are
  about the trees in which this has not happened; `ReadsGrammar` is about the runs in
  which each such read shows what the next token would.
* `1++` is printed with `--` and `1--` with `*`: the strings of unary operators begin with
  the first kind, the kinds with 1 (`ast.c:27-34`, `ast.h:37`). `TextShowsTokens` leaves expressions with postfix operators out; no tree with a prefix
  operator is ever made.
* The kinds of assignments are one higher than their strings from `-=` on, as 0x15 is
  missing (`ast.h:73`), and the comma has none (`ast.c:22`). `BinaryKinds` and `BinaryStrs`
  have them all, but no tree with such an operator is ever made, as said above.
* Constants that are no decimal, hexadecimal or octal integer are tried as floating ones:
  `08` is the double 8. `1ul` is neither and ends the program (`c_types.c:306-309` lists
  `lu` in this order only); a decimal constant too large for its types has the last one.
* Character constants of four bytes are 0 (`c_lang.c:303-310`), those of `wchar_t` are
  taken for floating ones (`c_types.c:49-60` does not list it).
* An expression that begins with nothing that can begin one ends `parse`, without a report.

## 5. The proofs

Every theorem is about all values of the constants; the bounds of the runs play no part.
`PROJECT.json` lists the theorems, the text below says what they rest on.

**`PpTokenIterProofs`**, for any set of tokens, any finite sources, any number of open
files, includes and insertions: `IterTypeOK`, `IterLexedAhead`, `IterBareListLast`,
`IterLookPastIsNext`, that is `Spec` implies `[]TypeOK`, `[]LexedAhead`, `[]BareListLast`
and `[]LookPastIsNextInFile`; `IterNothingDropped` (`Spec => NoUnreadTokenDropped`) and
`IterImplementsStream` (`Spec => ImplementsStream`). The only assumption is
`SourcesAssumption`: sources are sequences of tokens, and the bound is a number.

*Nothing is dropped.* `NoUnreadTokenDropped` alone is not inductive, as nothing in it says
why the entries that `ppti_eat` frees have been read to their end. `LexedAhead` does:
while n tokens are ready, every lexer with tokens left sits in or below an entry with n
tokens in its list. A peek establishes it (`PeekedStack`: each entry above the one where
the walk stops is drained), eating takes one token from the list of the first entry that
has any, so n - 1 are left and every entry above it is empty (`EatenStack`), and includes
and insertions only come after the ready tokens are forgotten.

*One flat stream.* The refinement mapping is `ReadOrder`: lists and what their lexers
still produce, from the top of the stack down. Per operation there is a lemma that says
what becomes of it: `PeekedOrder` (nothing), `EatenOrder` (its first token goes),
`PastedOrder` (the list comes in front); `StreamStep` puts them together, one case per
action. `LexedAhead` is needed here too: eating would else lose what a closed file had
left. `ReadOrder` is a recursive function; its equation follows from a least index at
which a function with that equation would not exist (`IndexInduction`). These lemmas are
in **`PpTokenIterOpsProofs`**, which the proofs about the preprocessor share. All of them
rest on the least index of a set (`LeastOfIsLeast`), which is proved from the
well-foundedness of `<` on the naturals.

*The lookahead.* `LookPastIsNextInFile` needs that the walk meets no list without a lexer
before the last one, as it would stop there: `BareListLast`. Only the entry at the
bottom can be such a list, since insertion into an empty stack alone makes one.

**`PpPeekWalkProofs`** proves `WalkTypeOK` and `WalkShowsPeek`: for any stack and a
lookahead of 0 or 1 (the program's only ones, `CountsAssumption`) the loop of
`ppti_peek_forward` returns what `PeekForward` says and leaves what `Peeked` says.
`StacksAssumption` (entries of the right type, a bare list only at the bottom) is what
`IterTypeOK` and `IterBareListLast` prove of every stack of `PpTokenIter`. The invariant
`Walked` says where the loop has been: entries it has passed are drained, had `count` tokens at most and a
lexer; the one it is in has the tokens it had, more of them in the list; those below are
untouched.

**`PreprocessorProofs`**, for any main file, headers, predefined macros, and any function
for the value of an `#if` line:

* `PpTypeOK`: `Spec => []TypeOK`;
* `PpNothingDropped`: `Spec => NoUnreadDropped`;
* `PpParamsMatch`: `Spec => []ParamsMatchCount`.

`PpAssumption` says that files and predefined bodies are sequences of tokens and that the
spellings the code makes itself are among the spellings. Types alone are not inductive:
a body that is read has to be that of a macro in the table, the macro of a call too, a
call on an `#if` line has to come back to a loop that expands, and an `#elif` that waits
for its value has to have a conditional. `Frame` says so, and `PpInv` is
`TypeOK` with it (`PpInvariant`). What a step does to the tokens still to be read
(`Reads`: it eats some; `Leaves`: it also puts some in front) is proved together with
`PpInv`, in one lemma per group of directives, and `ItNext` collects them. Every peek of the code
shows in these proofs: a token eaten has to be the first of `ReadOrder`, and eating
without having peeked loses the rest of a file.

The attempt found the first form of `NoUnreadDropped`, which spoke of the entry on top of
the stack, to be false: where a header ends right behind `#define Y` and a `(` comes next,
one step eats two tokens out of two files. Nothing is lost there; the property is now
about the order in which all files are read, and `lines` has that source.

For `ParamsMatchCount` the invariant is `Matching`: as long as nothing has been reported,
every macro but the one whose parameters are being read has as many parameters as it
counts, and that one has counted those collected so far. Calls put arguments into the
parameters of a macro, and `#undef` takes macros away; both leave the numbers alone.

**`TokenIterProofs`** proves `TokensTypeOK`, `TokensStringsJoined` and
`TokensStringsShowText` (`[]TypeOK`, `[]StringsJoined`, `[]StringsShowText`) for any
preprocessing tokens. `SourcesAssumption`: an
identifier is one or more ASCII characters, and a string has a type of character. The
invariant `TokensInv` has four parts: `rest` is an end of the source (`HeldFrom`); the
loop of the call is within its list (`CallWithin`), which gives the types; and tokens eaten
and listed, with the string being joined, are the runs of the source read so far
(`ShownBy`). Between calls no string is last while tokens are left, as the next one might
have to be joined to it; within a call the last token shows what the buffer holds. Runs
and joined spellings are recursive functions; that they exist is shown once for all
functions on an initial segment of the naturals (`Solvable`, `Solves`).

`StringsShowText` follows from `StringsJoined`, which says to the byte what a string holds
and what stands behind its end (`StrHolds`), and from what the encodings do. A character
that survives has one unit in its type (`OneUnit`), which its reader takes back to its
code (`UnitReads`), and so do the bytes in which it is stored of one (`Utf8Reads`, one
case per number of bytes); codes are below 2^20, as of the first of four bytes only two
bits are kept. Parts that are joined lie in the whole where those before them end
(`FlattenLies`). With this the codes of a literal are read of what is stored of it
(`StoredReads`), it is converted to their units in order (`LiteralLaid`), and so is a
run (`RunLaid`). `CodesRead` follows the reader over such units, and `Ends` names what it
may find behind them: a unit that is 0, or less than a unit, which is where one more code
is read of memory that is not the string's.

**`FileStorageProofs`** proves, for any disk, names, include paths and main files, in both
modes: `StorageTypeOK`, `StorageUserPathsFirst`, `StorageLookupsStay` and
`StorageReportShowsFile`. The assumptions are `StorageAssumption`, of which the bounds are
a part but not used as bounds, and that `"."` is a string. The inductive invariant
`StorageInv` says of every loaded file that its name and path are those of a file that
could be loaded, of every open one that it is in the list, and of the include paths that
they are the built-in ones, until the first main file is started, and end in those of
`-I` from then on. With this the greatest index with a match lies among those of `-I` if
one of them has the file (`AddedFirst`), and adding them once more, for the next main
file, changes nothing (`AddedAgain`, `DirectoriesStay`). That lookups stay rests on `Got`
being decided by the disk, the paths and the list, of which a step only prepends to the
list (`ListGrows`).

For `ReportShowsFile` every listed file was found beside another one or where its name
leads from nowhere (`FoundInv`), which a load establishes (`StepLoads`) and a longer list
of paths does not change (`PlainStays`). The attempt found two cases the property had to
except, and it names them now: a name spelled like the path of a loaded file, and a file
found beside another that is asked for again by its path.

**`MacroTableProofs`** proves, for any names, any hash function with values in the
naturals, any size of the table and any set of definitions: `TableTypeOK`,
`TableOneRecord`, `TableIsMap` and `TableFinds`, that is `Spec` implies `[]TypeOK`,
`[]OneRecordPerHash`, `ImplementsMap` and `[]FindsDefinition`. The assumption is
`TableAssumption`; its last part, which the code asserts (no two predefined macros have
one hash, `preprocessor.c:745`), is not needed. The inductive invariant is `TypeOK` with
`OneRecordPerHash`: without the second a removal would leave another record of the hash
to be found. Two groups of lemmas carry the proofs: the search stops at the record with
the hash if there is one (`SlotIsFirst`, `FindsRecord`), and a chain with one record per
hash still is such a chain, with the same answers for all other hashes, after a store
(`StoredChain`) or a removal (`UnlinkedChain`). The refinement and `FindsDefinition`
follow from these step by step.

**`PpLexerProofs`** proves everything that `source_tokens` checks, for any set of texts
and any classes of characters: `LexerInPlace`, `LexerKeepsText`, `LexerKeepsLines`,
`LexerTokensAreTheCode`, `LexerLineStarts` and `LexerTokensOnTheirLine`. The assumptions:
texts are sequences (`TextsAssumption`); letters, digits, punctuators, white space, quotes
and the NUL are different characters, the prefixes of strings are letters, and `8` is a
digit (`ClassesAssumption`); the table of punctuators is made of punctuators
(`PunctsAssumption`).

*In place.* `InPlace` is not inductive: that the read
pointer stays in the buffer needs that a NUL lies at or after it (`EndAhead`), and that
needs that what is written lies before it. The invariant `Rewriting` puts the two
together. `EndBeyond` is the lemma on which the loops rest: characters that are not NUL
may be stepped over. The loops look up to two characters ahead and step only over what
they have compared with something else than NUL.

*What the loops keep.* What a loop is to read is, for the first two, a chain through the
file (`Chain`, `Linked`): each cell has the character the loop is meant to find at its
place, and the next cell comes from the place that follows it, a CR LF or a trigraph being
one. What a loop has written is a chain for the next one. The third loop takes
characters out and puts line ends back; `Kept` says of the buffer before its write
pointer that the cells with a place are those of the file that stay, in order, and that
the line ends before each are as many as the file has before its line, with `n` more
owed where a line is being joined (`Splicing`). The count rests on one lemma about the file alone (`LineNext`):
a line end that is joined leaves the line as it is, any other makes all line ends up to it
count.
`Translated` is the inductive invariant, with `Rewriting`, of all three.

*Tokens.* The lexer takes stretches, `Mode` goes character by character; the proof is
that they meet at every token's end. `Fresh` is what has to hold there: the reader is in
no string and no comment, and takes the next character as it would at the beginning of a text. One
group of lemmas says, for any text, what the modes are over a stretch the lexer takes
(`SpaceStretch`, `WordStretch`, `NumberStretch`, `PunctStretch`, `LineRemark`,
`BlockRemark`, `StringStretch`); the one on strings needs that "an odd number of
backslashes" and "the mode that hides the next character" are the same (`Hides`). `Lexer` is the
invariant between two tokens: the tokens before the cursor are exactly the code before
it, each fits the next, and the flags say what was passed since the last. `LexInv`
is that with `Translated`, by one lemma per action (`SpaceStep` to `StringStep`).
An induction over places of the text is a set of naturals without a least
element that misses it (`PlaceInduction`).

*Lines.* The lexer counts the line ends it passes but none within a token, so
`TokensOnTheirLine` needs that there are none within a token, only at the end of a string
that is not closed. That is not so for every text: a backslash in a string hides a line end.
The loops leave one only where another line end follows it or the text ends there
(`Doubling`): the hidden one then ends no line that counts, since the next one closes the
string. `Counts` is the invariant on the numbers, and `LineInv` all of it together; with
`Kept` a count of line ends in the buffer is a line of the file.

Only model-checked:

* liveness (`ReachesTheEnd`, `Returns`, `Terminates`), which the provers do not do;
* `CondExpr` and `Parser`, whose operators are recursive;
* `SelectsGroups`, `ExpandsByValue` and `WholeLinesKept`, which compare whole outputs with
  reference definitions that recur over the source.

## 6. Not modelled, and the plan

Not modelled:

* Declaration specifiers, scopes, structures and types of the parser (`parser.c:1-228`,
  `275-537`): no call from `parse` leads there, so there is no execution to be
  faithful to; the same holds for statements in `ast.c`, derived types in `c_types.c`,
  the hash table with open addressing, and the functions on paths other than
  `path_dirname` and `path_filename`.
* Formatting of tokens and messages, and the cursor of the buffer writer, which can pass
  the end of its buffer: output, of which the order of the tokens of an expression and
  the characters of strings are modelled.
* The hash function: a constant of `MacroTable`, about which nothing is assumed but what
  the program asserts.

What would come next: that the groups of `PpGroups` are those its reference selects, for
which the invariant would relate the stack of conditions to the source behind it; and the
grammars, for which the parsers would have to be written as functions on places instead of
as recursive operators.
