# Verification of the Lox virtual machine

TLA+ models of the interpreter in `src/src`, checked with TLC on small
instances, with theorems checked by TLAPS. The code is a bytecode compiler and a
stack machine with coroutines, closures, a tracing garbage collector and interned
strings, all in one thread: what interleaves is not threads but coroutines, and a
garbage collector that may start inside any call that allocates or frees.

## The system

| Component | State | Operations | What makes it correct |
|---|---|---|---|
| Coroutine scheduler (`vm.c`, `object.c`) | `vm.running`, each coroutine's parent, state, stack and frames | call, create, resume, yield, await, return, reset, runtime error, next REPL line | control comes back to whoever resumed; a coroutine is entered once at a time; the frame that runs is the top one |
| Hash table (`table.c`) | count, capacity, entries | find, set, get, delete, rehash | it is a map; every probe ends |
| String interning (`object.c`, `table.c`) | `vm.strings` | copy, const, take, removal of dead strings | one object per sequence of characters; entries for live strings only |
| Garbage collector (`memory.c`, `object.h`) | object headers, `vm.objects`, gray stack, `vm.mark_value`, allocation counters | mark roots, trace, sweep, flip | nothing reachable is freed, garbage is, the object list is whole |
| Upvalues (`vm.c`) | `vm.open_upvalues`, sorted by address | capture, close | a variable is shared until its slot goes, and only its own |
| Compiler (`compiler.c`) | token buffer, scopes, locals, break list, constants | the recursive descent | the height it believes the stack to have is the real one |
| Scanner (`scanner.c`) | position, line | next token | every input ends in EOF |
| Chunks (`chunk.c`) | code, constants, run-length encoded lines | write, look up a line | the line found is the line written |
| REPL (`repl.c`) | the chunk being extended, the lines read | read, compile, run | the suspended frame continues in the code just compiled |
| Values, lists, disassembler, command line | none, or one array | convert, print, index | |

They interact by direct calls and by the global `vm`. The calls that matter:
every allocation goes through `reallocate`, which may run `collect_garbage`,
which reads the running coroutine's stack, the globals, the open upvalues, the
compiler's functions and the REPL's lines, and deletes from `vm.strings`;
`vm_run` keeps a local copy of the current frame across calls that switch
coroutines; the REPL compiles into the chunk a suspended frame executes.

What is hard to test: the order in which coroutines resume, reset and complete
each other; errors that unwind past several of them; table states that only a
long history of insertions and deletions produces; collections in the middle of a
rehash or of another collection; a slot number the compiler chose long before the
stack has its height; captured variables of several stacks in one list; newlines
that are tokens for some calls and blanks for others; a session whose lines share
one chunk. `PROJECT.json` lists these hazards at the lines where they bite, with
the properties that cover them.

## Modules

**`Coroutines`** — the interpreter loop as a scheduler. A program is any sequence
of instructions the compiler could emit: each frame carries `want`, the number of
slots the compiler believes it has, and an instruction may consume only those.
What happens to the real stack is what `vm.c` does, including that a return leaves
the frame's slots behind and that a yield drops as many values as the function
has parameters. When the C code reads outside an array (a frame of a coroutine
that has none, a stack that has run out, a reset of the coroutine that calls it)
the status becomes `"undefined"` and nothing more is claimed. One action per
operation: `Push`, `Pop`, `CreateCoroutine`, `CallClosure`, `CallNative` (with the
native `reset`), `Resume`, `CallUncallable`, `Yield`, `Await`, the three outcomes
of `do_return`, `NextLine` and `Underflow`. Values that cannot be called are one
value `Nil`. Natives other than `reset` do to the stack what `reset` does when its
argument is not a coroutine. The operations on data (arithmetic, globals, fields,
upvalues) are sequences of pushes and pops. Jumps only choose the next
instruction, and any may come next.

**`ResumeStack`** — what coroutines promise: asymmetric one-shot continuations on
a stack. `Coroutines` implements it: the stack is the chain of parent links, the
waiting coroutines are those that are ready or paused with a frame.

**`Table`** — the hash table with probing, tombstones and the rehash as separate
steps (`Set` that finds the table crowded, `CopyEntry`, `InstallFresh`,
`StorePending`). **`MapSpec`** is the partial function it implements, with the
answers of `table.h`; the mapping is the contents of the array.

**`StringPool`** — extends `Table` to `vm.strings` with the strings that exist
and the interning functions. A collection is the choice of what it frees. It may start
wherever `reallocate` is called: when memory grows and, unless `DEBUG_STRESS_GC` is
defined (it is not), when memory is freed, which happens inside `take_string`, at the
end of a rehash, and inside the sweep of another collection. The last two leave entries
of freed strings in the pool (`stale`); the next probe would read freed memory, so the
program stops there.

**`Heap`** — the collector: references, headers (next pointer, mark bit, owned
bit), gray set, the walk of `sweep` with its two pointers, the flip of
`vm.mark_value`. The program stores and drops references and switches coroutines.
An object other than a coroutine is stored where the program can get at it in the step
that creates it; a coroutine is first `held` by `coroutine_new`, which allocates its
stack and its frames before anything refers to it, and either of these `allocations`
may start a collection. `newborn` and `black` are history variables. When a collection
starts is left open, so `next_gc` is not modelled. Collections that start inside a
`free` of another collection are not in this module: the inner one frees and flips what
the outer is walking over, and its outer loop goes on in freed memory, of which there
is little to say; what is left of it in the pool is in `StringPool`.

**`Compiler`** — the code generator as a machine that emits valid programs. The text
is not given: where the C code looks at a token to decide, any valid continuation
may follow, until `MaxFuel` constructs are used up. `agenda` holds the calls still
to be made (the C stack of the recursive descent). An action either makes the first
call or, where the code decides, replaces it by the calls of the construct it has
found; `end_scope` drops one local in a step, and `patch_breaks` is a step of its
own. `compilers` are the nested functions under way with their locals, upvalues and
code, `functions` those that are finished, `breaks` and `continueJump` the two
globals, and `saved` the addresses in the local variables of active C functions. A
jump is a real instruction with a target that is patched later. Next to each access
stand the declaration it reaches and the one lexical scoping means, computed from
`env`, an environment each function has for this purpose. `Cost` gives constructs a
price, so that an instance can afford deep programs of some and shallow programs of
the rest.

**`Execution`** — extends `Compiler` with one activation of one compiled function in
`vm_run`. A value is represented by the address of the instruction that pushed it,
so a property can tell whether a slot holds the right variable. Both branches of
every condition are taken. `displaced` says that a step the compiler does not
account for was taken (break and continue, a return, an unequal resumption), and
that the frame is not judged after it.

**`Parser`** — scanner and parser for given texts: token buffer, `advance` with
backtracking over newlines, precedence climbing with `can_assign`, panic mode and
`synchronize`. It extends `LineInfo`, so every emission has its line. `MCParser`
holds the texts and the grammar, written as a recognizer independent of the
parser.

**`LineInfo`** — the run-length table of a chunk: `line_info_inc`, `line_info_get` and
`chunk_write`, with the lines given as a history. `LineSpec` is its use with lines
in order, `AnyLineSpec` its use in a session.

**`Repl`** — extends `LineInfo` with a session: one line is compiled to the end of the
chunk, instruction by instruction, then the one frame of the script, whose ip the
last return left behind, goes on. The array the code is in may move whenever it
grows; `had_error` is not asked, so lines with errors run.

**`Upvalues`** — capturing and closing in the list `vm.open_upvalues`, which the stacks
of all coroutines share, at addresses that depend on where the allocator put the
stacks. The walks along the list take one step at a time. **`OpenMap`** is what the
rest relies on, a partial function from slots to upvalues, and `Upvalues`
implements it.

**`CoroutinesProofs`**, **`TableProofs`** (with those of `StringPool`), **`HeapProofs`**,
**`UpvaluesProofs`**, **`LineInfoProofs`** (with those of `Parser` and `Repl`) and
**`ExecutionProofs`** (with those of `Compiler`) hold the theorems about the modules they
are named after, **`CompilerProofs`** the lemmas about scopes and names that the last
rests on, **`Minimum`** what several of them need. The `MC*` modules give the
constants small values.

## Runs

| Run | Question | Bounds |
|---|---|---|
| `coroutines_file` | Is the chain of resumers sound, do states tell the truth, is the resumed coroutine on top of its resumer's stack, is a paused coroutine left alone, and is all of it a `ResumeStack`? | 2 coroutines, 1 function of 1 parameter, 2 temporaries per frame, 8 values on all stacks, 1 frame per coroutine |
| `coroutines_repl` | Do `frame`, `current_frame` and `frame_count` agree across calls, errors and lines, and do frames fit their array while it grows? | 1 coroutine, 7 values, arrays of 1 growing to 2 frames |
| `table` | Is the table a map and does every probe end? | 4 colliding keys, 2 values, arrays of 4, 8 and 16 |
| `string_pool` | Are strings unique and does the pool hold those that exist and no more than collections leave behind? | 4 texts, 2 addresses each, arrays of 4, 8 and 16 |
| `heap` | Does a collection keep what it visits and what is new, also while a coroutine is created, does it end, does garbage go, is the object list whole? | main, 1 coroutine, 1 string, 2 references per object |
| `execution` | Does each name reach its declaration, does each jump have its target, are the variables in their slots at every instruction, does each statement leave the stack as it was, is no upvalue left open? | 2 names, programs of 5 units (functions, parameters, variables, blocks, `break`, uses, expression statements cost 1; `while`, `if`, `for`, `continue`, `return`, `yield`, assignments, calls cost 2; the rest 3), 8 stack slots |
| `parser` | Does the parser accept the grammar, in the order of a derivation, end, and give code its lines in order? | every text of up to 4 or 5 fragments over three vocabularies |
| `upvalues` | Does the list stay sorted and hold what is open, do closures share what they should, do the walks end, is it a map? | main and 1 coroutine, either block lower, 4 slots each, 3 upvalues, 2 frames |
| `repl` | Does a line run its own code, on the locals of the lines before, and which lines are reported? | 3 lines of up to 2 statements, an array of 8 that doubles |

Two coroutines are the least that can resume, reset and complete each other with
main below them; three values per frame are a callee, an argument and a local.
`FRAMES_MAX` of 1 or 2 instead of 256 brings its limit into reach; the code treats
all values of it alike. An array of 4 instead of 8 lets four keys reach the load limit and
go through two rehashes. The instances are symmetric in the coroutines
(`coroutines_file`), in the addresses of strings with equal characters
(`string_pool`) and in the names (`execution`). Five units of fuel are enough for a
closure over a variable of an enclosing block within a loop, or three functions
inside each other that use one name; two names are enough for shadowing, since a
third is to either as the other is. Four fragments are enough for three operators
of any precedence, and for an assignment to each kind of operand. Two blocks are
all that order by address can distinguish for two stacks. Three lines are a first,
which creates the frame, one that finds the frame as left by a line, and one that
finds it as left by such a line; with at most 8 instructions each they fill the
array twice. Deadlock is not checked: a program ends, and the bounds stop it.

Three runs check liveness. All fairness is weak fairness of the steps of plain C
calls in the only thread, where nothing else runs until they return:
`collect_garbage` in `heap`, `compile` in `parser`, `upvalue_capture` and
`close_upvalues` in `upvalues`. That garbage goes is claimed only for executions
with infinitely many collections. `CompileEnds` is claimed for texts without a
rejected character; with one, `advance` does not end (the status `hung`).

### Where the code differs from what it says

Three runs end in a counterexample to a statement in a comment of the sources
(the statements are quoted in `PROJECT.json`):

- `coroutine_completed`: a coroutine that has run to its end and is resumed continues
  at `frames[-1]`.
- `heap_main`: the main coroutine is freed when a coroutine created since the last
  collection runs. Objects are created marked and a marked object is not visited.
- `execution_yield`: a yield "clears the previous arguments" from the top of the
  stack, where the locals are; the next arguments replace a local.

Four more counterexamples are no runs of `PROJECT.json`; each has a cfg with which TLC
finds it in seconds:

- `MCCoroutines_Failed.cfg`: in a session, a coroutine that raised an error stays
  RUNNING, which `object.h:182` says of the current coroutine and its ancestors only.
  `RunningIsActive` is therefore checked and proved for file runs, where an error ends
  the program.
- `MCStringPool_Take.cfg`: `take_string` returns a string its own free has collected;
  what it returned is then not what the next lookup of the characters finds
  (`object.c:91`: "we should use the interned version").
- `MCHeap_Buffers.cfg`: unlinking an object clears the owned bit of its predecessor,
  whose characters are not freed with it later, against `object.h:29`.
- `MCRepl_Lines.cfg`: the lines of a chunk are not in order, against `chunk.h:73`, since
  each input line starts again at line 1. Bytes of later lines are reported with the
  highest line so far (`HighestFound`).

The models contain more disagreements:

- The slots of a coroutine of a function without parameters start one above the
  reserved slot (`Coroutines.SlotZeroReserved` is violated).
- A collection while the rehash of `vm.strings` frees the old array, or inside the
  sweep of another, leaves entries for freed strings in the pool.
- Being created marked saves a coroutine under construction from one collection. When
  both allocations of `coroutine_new` start one (with `DEBUG_STRESS_GC` they always do;
  without, they do when the first frees nothing, since the threshold stays), the second
  frees it. `NewbornKept` is silent from then on.
- Closing upvalues on one stack closes those on stacks at higher addresses as well:
  `ShareVariable` exempts these (`early`), and `OpenMap` closes them, too.
- `do_return` leaves the callee, the arguments and the locals on the stack.
- `break` and `continue` skip the instructions that drop the locals of the body; a
  break inside `for` is never patched; the array of breaks is shared across
  functions, so a function compiled between a break and the end of its loop gets
  the loop's patch. `continue` outside of a `while` jumps to a stale address.
- `patch_breaks` takes all breaks that are at least as deep as the loop: one in a
  nested block of an outer loop, followed by an inner `while` outside of that block, is
  taken by the inner loop, and continues behind the inner loop only.
- A comment that ends a line which began with code makes the line feed a rejected
  character, at which `advance` repeats for ever.
- Compound assignment operators have a precedence and no parse function.
- A reset, a suspension and a collection give up stack slots that open upvalues
  refer to.
- `return` at the top level of a session is an error that runs: every later line
  executes the rest of the one before.
  After a runtime error there is no frame to go on in, and when the code array
  moves the ip dangles. `.stack` before the first line has no frame to look at.

These faults limit what can hold. The properties of `Execution` and `Repl` speak of
frames that are not `displaced`; of the heap, `VisitedChildrenKept` and
`NewbornKept` say what a collection does keep, and the model's program stops once
it can reach a freed object; `PoolHoldsLive` admits the entries in `stale`; those of
`Upvalues` exempt histories in which captured slots were given up. `JumpsPatched` says
that a jump has a target in the code, not that it is the right loop's.

## Proofs

The theorems hold for every value of the constants that the named assumptions of
the modules allow: any finite set of coroutines, any frame limit, any keys with
any hashes, any initial capacity of at least 2, any strings, objects and
references, any texts, any number of lines, programs of any length, any stack size and any blocks. The
assumptions say that kinds of values are disjoint, that hashes are those of the
characters, that bounds are numbers, that no name is empty and every construct has a
positive price, and that the lines of the texts are line numbers
(in `Repl` 1 and 2, in `Parser` up to one more than a text has lexemes).
`PROJECT.json` lists the theorems with the properties they state.

| Module | Invariants and action properties | Refinement |
|---|---|---|
| `CoroutinesProofs` | `TypeOK`, `ChainReachesMain`, `CurrentFrameIsTop`, `CalleeOnTop`, `FramesFit`, `PausedUntouched`; `RunningIsActive` if `Repl` is false | `ResumeStack` |
| `TableProofs` | `TypeOK`, `ProbesEnd`, `Findable` | `MapSpec` |
| `TableProofs`, of `StringPool` | `UniqueStrings`, `PoolHoldsLive` | |
| `HeapProofs` | `TypeOK`, `ListIsHeap`, `NewbornKept`, `VisitedChildrenKept` | |
| `UpvaluesProofs` | `ListSorted`, `OpenInOwnStack`, `ShareVariable` | `OpenMap` |
| `LineInfoProofs` | `LineFound` of `LineSpec`, `HighestFound` of `AnyLineSpec` | |
| `LineInfoProofs`, of `Parser` | `LineFound` | `LinesInOrder`, that is `LineSpec` |
| `LineInfoProofs`, of `Repl` | `RunsOnlyTheLine`, `SlotsAreLocals`, `HighestFound` | |
| `ExecutionProofs` | `NamesResolve`, `JumpsPatched` | |

`Minimum` replaces induction over data, which is out of the prover's reach:
`LeastNatural` says that a set of naturals that is not empty has a least member, and
`Iteration` that a function can be iterated. A statement about all prefixes of a
sequence is then proved by looking at the shortest for which it fails.

**Coroutines.** None of the invariants is inductive alone. A yield continues in the
resumer's current frame, which is the top one only if the parent link leads to a
coroutine that is still entered; that the links lead to main without a cycle needs
that an entered coroutine is not resumed again, which the code decides by its
state; and a reset of an ancestor makes it READY without its having left. `IInv`
combines `TypeOK`, `FrameInv` (the frame that runs is the top one, and who runs is
marked so) and `ChainInv` (a sequence from main to the running coroutine,
following parent links, without repetition, whose members are RUNNING or have been
reset and have no frame, and each keeps the next on its stack). A resumption extends
the sequence (`ChainGrows`), a yield or the end of a coroutine shortens it
(`ChainShrinks`), an error replaces it by main alone (`ChainUnwound`), and
everything else keeps it (`ChainKept`). The refinement needs more: that the chain is
the only one, so that what `ResumeStack` sees as its stack is determined
(there is no first place at which two chains differ), and `KnownInv`, that
a stack holds no coroutine that was not created, so that a created one is fresh.
`FramesFit` follows from `FramesDrop`: only a call adds a frame, after it has doubled
a full array or has failed at the limit.

**Table.** `IInv` says where entries may be. `Reachable`: on the way of a key's probe
to the key lies no unused slot and no other copy; deletions keep it because they leave
tombstones. `Load`: the slots that are not unused are at most `count`, and that is at
most the load limit, so some slot is unused and the probe of a missing key ends.
The code counts some slots twice, and the inequality is what remains true. `Moving`:
in the middle of a rehash the new array holds the keys of the entries already passed,
with their values, and is itself `Reachable`. The refinement maps the table to the
contents of the old array until the new one is installed; that a rehash is not
visible then is `Moving` at its end. `StringPool` adds `PoolInv`: the
strings that exist, with the stale ones, are those `Present` in the table or waiting for
it to grow, and those that exist have different characters. That `table_find_string`
overlooks none is a lemma about probing (`FindStringFinds`). It needs that the program
stops at the first stale entry; the two theorems hold in every build.

**Heap.** `HInv` says that the objects, in the order of some sequence without
repetition, are linked from `vm.objects` to NULL; where in it the two pointers of `sweep`
are; and that whatever is needed (newborn, a root, a child of a visited object) and
lies at or behind these pointers has its mark bit. Of the objects before them this
would be false: unlinking an object clears the mark bit of the one before it.
`HeldInv` adds that a coroutine under construction is newborn until the first collection
that its allocations start is over, and exists until the second one starts.

**Upvalues.** `StackInv` (no two coroutines have one block, so no slot belongs to two)
and `ListInv`, which says of each link that it leads to the open upvalue at the next
lower address, with no reference to the list they make; `SortedList` concludes that following the
links from the head meets the open upvalues and no others.
`CallInv` says of a walk that `prev` has a higher address than the one it looks for and
that `upvalue` is what `prev`, or the head, is linked to; `Own` that an open upvalue refers to a slot below its owner's top.
`HistoryInv` gives captured variables numbers and says which upvalue a number was bound
to, so that `ShareVariable` speaks of pairs. The mapping to `OpenMap` shows the upvalues
that a running `close_upvalues` has not promised to close: its start is `CloseFrom`,
the end of a walk that creates one is `Capture`, and every other step stutters.

**Parser.** A byte gets the line of the token before the current one, so `ParserInv`
says that the lines of the tokens do not fall (`Tokenized`) and that the last byte has
the line of a token before the current one (`Behind`). The first is a matter of the
scanner, proved for each number of lexemes; the second holds because no step,
backtracking over newlines and recovery from an error included, makes another token
current than that one or a later one (`ExpressionOnward`, `StatementOnward`). With
`LineFoundAlways` it follows that the line found for each byte is the byte's own.

**Lines and sessions.** Both theorems of `LineInfoProofs` rest on `Layout`: the runs are
disjoint, end at the last byte and cover every byte, so the first run that covers a
byte is the only one (`GetFinds`). To it the first adds that a run has the line of each
of its bytes (`Right`), the second that it has the highest line up to each of its
bytes (`Highest`). `SessionInv`, of a session, says that the instructions of the current
line, written or not, end in `emit_return` (`Ended`), that the ip of the one frame is
behind the line before (`InPlace`), and that there is a stack for each instruction of
the line, from that with the locals before the line to that with the locals after it,
of which the real one is that at the ip (`InStep`). Such stacks exist for every line
`compile_line` may emit: `Balanced` is kept by each kind of statement, and `Iteration` takes
it to any number of them.

**Compiler.** What the next call does is right only if the calls before it have
brought the compilers to where it expects them, and the agenda may hold any number of
calls of any depth. `CompilerInv` therefore gives each call an `Effect` on an abstract
`State` (which functions and scopes are open, what is being declared, how many operands
are on the stack, which jumps are kept by which active C function and what they
expect), and says that the effects of the agenda compose (`Leads`) from a state that
describes the compilers to the end of the script. An action that replaces a call by
those of a construct keeps this because the effects of the new calls compose to that of
the old one, which is a fact about lists of calls only (the lemmas `...Calls`); an
action that makes a call keeps it because what it does to the compilers is its
effect.

That a state describes the compilers has two parts. `Matches` relates scopes, locals,
upvalues and the environment of each function: the locals are the declarations that
lexical scoping knows, in the same order, with the reserved slot below them and at
most one more that is not initialized, and an upvalue leads through
the enclosing functions to the declaration it was resolved to. `NamesResolve` is then
the lemma `ResolveMatches`: the innermost local that is initialized is the declaration
visible, if there is none the same holds of the enclosing function, and what
`add_upvalue` returns for an upvalue that exists is its index. `Agrees` adds, for a
regular program (the hypothesis of `JumpsPatched`), which jumps have no target yet: each is kept
in exactly one place, a local variable of an active C function or the array of
breaks (`PlacesIn`, `BreaksOwn`); the addresses a C function keeps are addresses of its own
function (`Ids`, `Nested`), and all other jumps lead into the code (`Aimed`). The depth
of the outermost loop is part of the state, because what `patch_breaks` leaves is
empty only when that loop ends. `JumpsPatched` follows for a function when it is finished, with
nothing kept any more (`Finished`). In `Execution` the steps of the frame
leave the compiler alone, and the one that loads a function finds the agenda empty.

### What is only model-checked

Liveness and `ENABLED` are out of the prover's reach: `CollectionEnds`, `GarbageGoes`,
`CompileEnds` and `ListOperationsEnd`. `AcceptsGrammar` compares the parser with a
grammar that is a recursive operator in `MCParser`. The properties of the frame in
`Execution` (`VariablesInPlace`, `StackMatchesScope`, `OpenUpvaluesLive`) need one more
invariant, a statement about every instruction of every function compiled so far: what
the stack is there on each path that leads to it.

## Plan

1. Proofs: the frame of `Execution`, from a stack for each address of the code.
2. Nested collections and the threshold in `Heap`, with the values the dictionary
   and list instructions hold outside the stack.
3. Stacks that move in `Upvalues`; the constant pool of `Compiler`.
4. Lists: index checks and negative indices.

## Not modelled

The disassembler, printing and `main.c` keep no state. NaN-boxed values are a bit
layout of one value. How characters make up one lexeme, numbers and strings is left
out: the scanner is modelled from lexemes on. The operands' widths (one byte or
three, jumps of 32 bits) and the limits of 256 locals, upvalues and arguments, whose
instances would need programs of that length. Accesses through dangling pointers
end a behaviour as `"undefined"`: what they read depends on the allocator. Natives
other than `reset` compute one value.
