# TLA+ models of the SysY_Rewind compiler

SysY_Rewind compiles SysY, a subset of C, to Koopa IR text (`-koopa`), to Koopa
IR in SSA form (`-ssa`) or to RISC-V assembly (`-riscv`). It is a sequential
program: nothing runs concurrently, nothing is persisted, and every hazard is of
the kinds compilers have: algorithms over graphs that must reach the right fixed
point, tree walks that change what they walk over, stacks that must balance on
every way out, sizes computed twice that must agree. The modules here model the
algorithms whose correctness cannot be seen from a few examples; TLC runs them
over all small inputs of chosen families, and TLAPS proves the central results
for inputs of any size.

## Inventory

| Part | Source | State | Operations | What makes it correct |
|---|---|---|---|---|
| Lexer, parser, AST | `src/front_end` | AST | `yyparse`, `Dump` | the grammar; generated code |
| Symbol table | `ir/symbol_table.cpp` | stack of scopes, function table | enter, exit, define, lookup | innermost declaration in force; scopes balanced |
| Function context | `include/ir/func_context.h` | current block, loop stack, name counters | create block, emit, terminate, push/pop loop | one terminator per block, nothing after it |
| Statement and expression lowering | `ir/ir_builder*.cpp` | the module under construction | `lower_*` recursion over the AST | well-formed blocks that do what the source does |
| Constant evaluation | `ir/ir_builder_const_eval.cpp` | none | `eval_exp` | same value as the run-time form |
| Array initializers | `ir/ir_builder_array_init.cpp` | cursor, item index, flat buffer | fill, flatten, emit stores | C's rules for missing braces |
| IR verifier | `ir/ir_verifier.cpp` | error list | `verify` | accepts exactly well-formed modules |
| CFG analysis | `ir/cfg_analysis.cpp` | edges, reachable blocks | `build` | exact reachability |
| Dominance analysis | `ir/dominance_analysis.cpp` | sets, immediate dominators, tree, frontiers | `build` | the graph-theoretic definitions |
| IR rewriting | `ir/ir_rewrite.cpp` | instructions and operands | replace all uses, erase | no use of an erased value |
| Mem2Reg | `ir/mem2reg.cpp` | candidate allocas, block parameters, current values | `run_function` | SSA form, same behaviour |
| Pass manager, driver | `ir/pass_manager.cpp`, `driver/` | pass list, output file | `run_compiler` | verify before and after the passes |
| Data layout, calling convention, frame layout | `back_end/` | slots, sizes | `FrameLayout::build` | disjoint, aligned, sufficient slots |
| Instruction selection | `back_end/instruction_selector.cpp` | machine blocks, scratch registers | `select_*` | machine code does what the IR does |
| Machine IR, verifier, printers | `back_end/` | instruction records | check, print | text of the instructions |
| Runtime | `third_party/sysyrt` | — | I/O of compiled programs | not part of the compiler |

How the parts interact: the driver parses, lowers, verifies, runs the passes,
verifies again and emits. Lowering uses the symbol table, the function context,
constant evaluation and the initializer flattening; its output feeds the
verifier and Mem2Reg. Mem2Reg builds a CFG analysis and a dominance analysis of
each function, trusts them, and rewrites the function; the block parameters and
edge arguments it makes are what the verifier counts and instruction selection
copies. Instruction selection asks the frame layout for the slot of every value.

The hard behaviours, listed line by line under `hazards` in `PROJECT.json`:

- *ordering*: in-place sweeps that read half-updated sets, worklists filled from
  unordered containers, copies that must act as if simultaneous, operand
  lowering that moves the insertion point;
- *stale state*: current values and edge arguments that must never name an
  erased load;
- *protocol sequence*: any legal nesting of if, while, `||`, `&&`, return, break
  and continue must leave block, loop and scope bookkeeping consistent;
- *numeric edge and resource bound*: two traversals of the frame layout that must
  agree, rounding at the 16-byte boundary, sums past `int32_t`;
- *stale verdicts, partial failure*: a module verified before the passes and
  written after them, a throw in the middle of the output, writes that fail;
- *names*: scopes that come and go, two passes over the program, labels of all
  functions in one file;
- *liveness*: the fixed-point loops end.

## Modules

| Module | Kind | Models |
|---|---|---|
| `ControlFlow` | definitions | reachability, dominance, immediate dominators and frontiers, by definition |
| `ControlFlowProofs` | lemmas | reachability and dominance: order, chains, immediate dominators, frontiers |
| `DominanceAnalysis` | component | the loops of `CFGAnalysis` and `DominanceAnalysis` |
| `DominanceProofs` | proofs | about `DominanceAnalysis`: its sets, and the tree and frontiers made of them |
| `Mem2Reg` | component | `Mem2RegPass::run_function` with `ir_rewrite` |
| `Mem2RegExec` | composition | the function before and after the pass, executed in lockstep |
| `Mem2RegProofs` | proofs | about `Mem2Reg`, and that the two versions do the same |
| `FuncLowering` | component | `lower_func_def`, `lower_block`, `lower_stmt`, expression lowering over `FuncContext` |
| `FuncLoweringProofs` | proofs | about `FuncLowering` |
| `LoweringExec` | composition | the AST and the blocks made of it, executed together |
| `LoweringExecProofs` | proofs | that the two do the same |
| `BlockArguments` | abstract specification | block arguments as one parallel assignment |
| `EdgeArguments` | component, refines `BlockArguments` | the machine code of branches and jumps |
| `EdgeArgumentsProofs` | proofs | the refinement |
| `FrameLayout` | component | `FrameLayout::build`, `CallingConvention`, `DataLayout` |
| `FrameLayoutProofs` | proofs | about `FrameLayout` |
| `Initializers` | definitions | dimensions, IR initializers and the words of an object |
| `InstructionSelector` | component | every `select_` function on top of `FrameLayout`, the machine it selects for, and the IR |
| `SymbolTable`, `ConstEval`, `ArrayInit` | definitions | `SymbolTable`, `ConstEvaluator`, the initializer flattening |
| `Declarations` | component | `lower_comp_unit` and everything it calls that declares or looks up a name |
| `DeclarationRules` | reference rules | names, constants, initializers and correctness read off the AST; the properties of `Declarations` |
| `Verifier` | definitions | `IRVerifier::verify`, and the ways in which each emitter fails |
| `Pipeline` | component | `run`, `run_compiler`, `IRPassManager::run` and the emitters' output |
| `PipelineProofs` | proofs | about `Pipeline` and `Verifier` |
| `Labels` | component | block names and labels over a whole module |
| `MC...` | model checking | the inputs of the runs |

A chain of promises runs through them. `FuncLowering` shows that every block is
reachable and that no edge leads to the entry; `DominanceAnalysis` shows the
analyses exact; `Mem2Reg` takes the exact analyses and functions of that shape
and shows SSA form and matching edge arguments; `EdgeArguments` assumes matching
edge arguments and the disjoint slots that `FrameLayout` shows.
`InstructionSelector` computes its frame with the actions of `FrameLayout`
itself (`INSTANCE`), so the two are checked together. `Declarations` composes the
symbol table, constant evaluation and the flattening, and `Pipeline` the
verifier, the passes and the emitters.

### ControlFlow and DominanceAnalysis

A graph maps a block to the sequence of its terminator's targets. `order` is
`reachable_blocks_` (`reachable_set_` is its range), `dom` is `dominator_sets_`,
`idom`, `children` and `df` are the three result maps; `i` and `j` are the loop
indices. One action is one iteration of a loop: `VisitSuccessor`/`NextReachable`
for the breadth-first search, `VisitBlock`/`NextSweep`/`EndSweeps` for the
`while (changed)` loop with its in-place updates, `ComputeImmediateDominator` for
the nested search, `StartWalk`/`WalkUp` for the runner. The predecessors of a
block are visited in any order, since only sets result. `append_unique` on edges
has no counterpart of its own: a repeated target is visited again and found
reached.

`ControlFlow` says what the results ought to be, without the algorithm:
*d dominates b* if some region without d and b contains everything a path can
visit before it meets d.

### Mem2Reg and Mem2RegExec

`code` is the function before the pass: per block a sequence of `alloc`, `load`,
`store`, `addr` (any use of the address other than a direct load or store) and
`other` (anything else with an operand, the terminator's included), and the
targets. `insts`, `operand`, `params`, `args` are the function as the pass
rewrites it. An instruction is named by where it was, so erasing one does not
rename the others, and since the pass never reorders instructions, the vector
`insts_` of a block is the set of those it still holds. `infos`, `worklist`, `phi`, `promotable` are the locals of
`run_function` and `place_block_arguments`; `calls`, `block`, `rest`, `values`
unfold the recursion of `rename_block` into a stack of pending calls, each with
its own copy of `current_values`, and what is left of the copy `original_insts` it
iterates over. `StartCreating`, `CreateBlockParams` and `StartRenaming` are the
loop of `create_block_params`, an alloca each turn, and the first call.
`IsFunction` says what functions the pass is given: an alloca is one instruction,
and an operand is a constant or the result of an instruction that is executed
before its use; `Mem2RegAssumption` asks it of every member of `Functions`.
`has_value_on_all_required_paths` changes nothing, so it is a predicate. The
order of the worklist, of the candidates and of the children is left open
because the code takes it from unordered sets or from the block order.

`Mem2RegExec` then runs both versions on the same branches and outcomes. Memory
starts `Undefined`, and `written` holds the variables something has been stored
in. That a variable is in it is not that its value is defined: in
`CopiesUndefined` (MCMem2Reg) `y` is stored from a load of the uninitialized `x`
and promoted, which is right. So `NoUndefinedRead` speaks of loads before any
store and not of loads that give `Undefined`. The meaning of instructions is that
of Koopa IR, not code of the repository, and is marked external in the map.

### FuncLowering and LoweringExec

The recursion is a stack of frames, a frame naming the code that runs next, its
AST node and its local variables; what runs between two recursive calls is one
action. `fn` holds `basic_blocks_` with their instructions and `current_block_`;
block 0 is `nullptr`. `||` creates its blocks before it lowers its left side,
`&&` after, as in the code. `FallThrough` is the code both branches of an if and
the loop body share. Where the code calls `current_block()`, which throws without
a block, the action has a guard, and `NeverWithoutBlock` says the throw never
happens. `IsAst` is the shape of the parser's trees: which node has which
children; `ProgramsAssumption` asks it of every function body.

Left out: types, names, declarations other than as an assignment, array
subscripts (operands like any other), and the `alloc` of the temporary of `||`
and `&&`, which is implied by its node. Constants are numbers in the model and
produce no instruction.

`LoweringExec` runs the AST by C's rules and the blocks by the IR's, to their
next call, assignment or return, and compares the events with their operand
values.

### BlockArguments and EdgeArguments

`BlockArguments` is the promise: taking an edge reads all arguments in the state
before the edge and assigns all parameters at once. `EdgeArguments` executes what
`select_branch`, `select_jump` and `select_edge_args` emit: the condition into
`t0`, `bnez`, then per argument a load into `t0` and a store to the parameter's
slot, then `j`. The refinement mapping shows the slots as they were before the
terminator until the target is entered.

### FrameLayout

A function is the sequence of its values in the order both traversals visit
them. `Measure` is an iteration of the first traversal, `EndMeasuring` the code
between the two, `Place` an iteration of the second. A signed sum past `MaxInt`
is undefined behaviour: `Overflow` ends the run in the state `"undefined"`,
about which the properties claim nothing. A single object of 2 GiB or more, whose
size is cut when it is converted to `int32_t`, is excluded by `FrameAssumption`.

### InstructionSelector, Initializers and Labels

The model has three parts side by side: the IR function, whose next instruction
is `at`, with its results `val` and objects `obj`; the selector, which turns the
instruction into `code`; and the machine, which runs that code one instruction
at a time on `regs` and `mem`. `BuildFrame` is a step of `FrameLayout`; one
`Select...` action is the `select_` function of that instruction with all it
calls (`materialize_value`, `spill_value`, `StackLoad`, `StackStore`, ...); the
`Execute...` actions are the machine's and external. `ExecuteCall` stands for a
callee that destroys everything the calling convention lets it: the argument
and temporary registers, all memory below the stack pointer, and its stack
arguments. Addresses, pointers and words are numbers of `WordBits` bits; the
12-bit reach of an offset is the constant `OffsetLimit`. What the selector
throws on is an instruction nothing executes, so a throw would show as a
deadlock.

`Labels` follows the names of blocks: a counter per hint that starts anew in
each function (`FuncContext::next_block_name`), the hints of each construct, and
the label the selector makes of a name. A name is the sequence of its parts
between underscores, which makes joining concatenation.

### Declarations and DeclarationRules

An item of the AST is known by its path, so that a symbol's entry and a use of a
name can say *which* declaration they mean. `pass` is the loop of
`lower_comp_unit` ("headers", then "bodies"), `at` the item that is lowered next,
`globals` and `locals` the two symbol tables, `functions` the function table,
`open` whether there is a current block. An action lowers one declaration or
statement, its checks in the code's order (`##`: the first that does not pass
decides), then defines the name, records what became of the declaration
(`objects`) and which declaration every looked-up name meant (`uses`). A throw
ends the run as `"rejected"`, undefined behaviour of the compiler as
`"undefined"`, and the properties claim nothing about the latter. The order in
which each kind of declaration looks up, checks and defines is kept: a local
variable is defined before its initializer is lowered, a constant after.

`DeclarationRules` has no symbol table: `InForce` finds the declaration of a name
from the nesting of blocks, `RunValue` is what an expression is worth when it is
lowered and run, `InitialElement` (in `ArrayInit`) the brace rules stated by
positions instead of a recursion over items, `Right` what makes an item correct.

### Verifier and Pipeline

A module is a record of globals and functions; `IsModule` says what the
constructors of `rewind_ir.h` and `ir_type.cpp` can make, before any check. Every
value may be an operand of every instruction, an element of an aggregate or an
initializer: a null pointer, an integer, a zero initializer, an undef, an
instruction of another function, an aggregate, each of any type. A type is the
sequence of its tags, with lengths abstracted to whether an array has elements
(`getTypeSize` is 0 if not), and an aggregate is the function from the paths of
its parts to the parts, so that what the code does by recursion is a statement
about all paths the recursion takes (`Visited`), and can be proved about. The
builder makes a store of an aggregate for each local constant array, and globals
of aggregates and zeros.

`Verified` is `IRVerifier::verify`, a conjunct for each check; it compares the
type of an initializer as a whole and looks at no element. The `...Fails`
operators give, for what an emitter meets, the set of ways in which it fails:
`"throws"` for an exception, `"undefined"` for a wrong cast or a null
dereference. They are read from the emitters and not from the verifier:
`SelectFails` (with `StoreFails` and `ElementFails` for `select_store` and
`select_initializer_store`, `EdgeFails` for `select_edge_args`), `MachineRight`,
`AssembleGlobalFails` for `emit_global_initializer`, `PrintGlobalFails` and
`PrintInstFails` for the text. A value has a slot if it has a size, as
`FrameLayout::build` decides. If something can fail in two ways, both are
behaviours. The lists of a module have no null entries and nothing twice, for
which the verifier has separate checks, and the storage of an array fits `int32_t`.

`Pipeline` has a `stage` for each statement of `run_compiler`, the `module`, the
`file` stream with the pieces `written` to it, and the `exit` code. The builder
returns any of `Modules` or throws; Mem2Reg leaves the module or makes any of
`Rewritten`; opening may fail, and every write may, after which the stream is bad
and swallows the rest, as `std::ofstream` does.

## Runs

| Run | Question | Instance |
|---|---|---|
| `dominance` | Do the analyses compute the definitions? | three blocks with any targets in any order plus an unreachable predecessor; four blocks with up to two targets; 192 five-block graphs with cross edges and irreducible loops |
| `mem2reg` | Is the rewritten function well formed, at every step? | small functions over two variables and the shapes swap loop, declaration in a loop, nested if, break, nested loops, escaping address, never-read variable, equal targets |
| `mem2reg_exec` | Does the pass keep the behaviour? | the same functions and a swap of two call results, all paths, two outcomes of every call |
| `mem2reg_unreachable` | Is an unreachable predecessor handled? (violation) | one function |
| `lowering` | Are the blocks well formed and do they do what the AST says? | two statements of two levels; a loop around three levels; two levels of short-circuits in every place of an expression |
| `edge_arguments` | Is the machine code a parallel assignment? | all jumps and branches to a block with two parameters and one with one, whose copies read nothing already assigned |
| `edge_swap` | And without that restriction? (violation) | the back edge of a loop that swaps two variables |
| `frame_layout` | Do the two traversals agree? | functions of up to four values out of eight kinds, `MaxInt` 63 |
| `selector` | Does the machine code do what the IR does? | all binary operators on boundary values, and functions with ten parameters, calls, arrays, array parameters, globals, loops and edges with arguments; 8-bit words, offsets within 16 |
| `declarations` | Are names, constants, initializers and programs taken for what they are? | six families of programs, see `MCDeclarations`; `MaxInt` 15 |
| `pipeline` | Is everything verified emittable, and does success mean a whole file? | one instruction, terminator or function shape varied over all kinds of operands and types; stores and globals of ten types with initializers up to two levels deep, well typed or not; all command lines; every failure |
| `label_collision` | Are labels unique? (violation) | functions `f` and `f_while`, up to two constructs each |

Why these bounds are enough to be of use. A dominance bug needs a block visited
before one of its predecessors to show in the sweeps; among the five-block graphs
are the smallest in which a *second* sweep changes a set, which is why they are
there. A renaming bug needs a value that crosses a join or a back edge while
another is renamed: the swap loop, the nested loops and the shapes with a
rejected variable do this. For lowering, three levels inside a loop put every
leaf (`return`, `break`, `continue`, assignment) below every pair of constructs,
and two rows of two levels put every construct behind every other. For the selector, ten
parameters give both kinds of argument on both sides of a call, and the frames
lie below, at and beyond the reach of an offset; eight bits are enough for every
operator's boundary, as the operators are the same at every width. For
declarations, a name can be declared at every level at once, two items on each
side of an inner block. For the verifier, one wrong operand, type, edge or count
is what a check has to notice, and the checks do not depend on one another; two
levels of elements show a recursion that stops too early or uses the wrong type;
the proof covers all combinations. For edge
copies, a block with two parameters is the smallest where order matters. For the
frame, four values make every order of a parameter, an object, a call with more
stack arguments and one with fewer, and sums cross both the alignment and
`MaxInt`. No bound is in an action but `MaxConstructs` of `Labels`: every other
model ends by itself, so there are no state constraints.

### What the runs check

`ReachableExact`, `DominatorsExact`, `DominatorTreeExact` and `FrontierExact`
compare results with definitions. `NoDominatorLost` and `DominatorsShrink` are
about the middle of the sweeps: from above, never below, and only downwards.

`PhiIsIteratedFrontier`: the placement is the least set closed under frontiers.
`SSAForm` holds at *every* moment of the renaming, not only at its end: each
operand of a reachable block is defined by something still present that
dominates it. `OnlyPromotedVanish` and `EdgeArgsMatchParams` describe the result.
`SameObservations`, `SameMemory` and `NoUndefinedRead` are the pass's promise,
"mem2reg 前后程序语义一致".

`OneTerminator`, `NoBlockForgotten` and `NeverWithoutBlock` hold at every step of
lowering; `EveryBlockReachable` is about the step that finishes a function;
`StacksMatchNesting` ties the loop and
scope stacks to the recursion. `SameEvents` compares executions.

`CopiedSoFar` is the state between two copies; `ParallelCopy` the refinement.
`SlotsDisjoint`, `SlotsInFrame`, `CallsHaveRoom`, `Aligned` are what generated
code relies on.

`MachineRepresentsIR` holds between any two IR instructions: every value in its
slot, every word of every object in its memory. `CalleeSeesArguments` is the
moment of a call, `CallerGetsBack` the return.

`UsesResolveLexically`, `ConstantsAsAtRunTime`, `ArraysInitialized` and
`AcceptsTheRight` compare what the builder did with the reference rules; the last
in both directions, for a program accepted and for one rejected.

`VerifiedIsEmitted` relates the verifier to its consumers, `SuccessIsWholeOutput`
the exit code to the file. `VerifiedIsEmitted` makes exceptions for the cases
`NotTaken` and `OutsideVerifier` name. In these the verifier is weaker than what
follows it: it accepts the module and an emitter may fail. The builder produces
none of them, and in the run each is necessary, that is, without it the property
is violated:

- an integer constant as an instruction of a block;
- a load or call whose result has no size and is not unit, a load of unit;
- a zero initializer, an aggregate, an undef or an instruction of another function
  where a value or an address is asked for (all operands but a stored
  initializer), and operands of a type without a size, such as the result of a
  unit call;
- an argument or an integer as the address of a load, a store or an element;
- an initializer with a part that is not a zero, an integer or an aggregate of
  the type its place asks for, in a global or a store; and a store of an
  initializer that is not made of integers in the end.

### Three disagreements with the documents

- `mem2reg_unreachable`: the design says the pass may work on reachable blocks
  only and the verifier will go on guaranteeing a well-formed structure. A block
  that gets a parameter keeps unreachable predecessors, whose edges get no
  argument; the verifier then rejects the module. `EveryBlockReachable` shows that
  the builder never produces such a function.
- `edge_swap`: the design asks for parallel copies on edges and the progress list
  ticks them off; the code copies in sequence. The driver does not send SSA-form
  IR to the back end, so the disagreement is limited to IR built by hand for it.
- `label_collision`: the design says the function's name in a label is there to
  avoid collisions. With functions `f` and `f_while`, the loop head
  `%while_entry_1` of the one and the entry `%entry_1` of the other are both
  `.Lf_while_entry_1`.

### Where the code is laxer or stricter than the language

Met while modelling, left out of the instances and claimed by no property:

- Only the product of an array's lengths is checked, so a pair of negative
  lengths passes, and the product may wrap; with an initializer its elements are
  then written out of bounds.
- `lower_call_arg` decays an array a second time if that makes the types fit, so
  a call with one dimension too few or too many may be accepted.
- An index on a scalar constant is ignored.
- A row of a constant array is refused as an argument, because its address is
  asked for as that of something to be assigned to.

And these, which the reference rules state as the code has them:

- A scalar with a braced initializer, `int x = {1};`, is refused by
  `std::bad_variant_access`: the grammar accepts it, and `std::get` asks for an
  expression.
- Globals declared after a function are visible in its body.
- A global variable and a function may share a name (the assembler sees two).
- Surplus items of an initializer are dropped without a message.
- `1 || 1/0` is evaluated at compile time, and the division is undefined there.
- A call without a value is noticed as an argument; anywhere else in an
  expression it is left to the verifier.
- What follows a `return` in its block is not lowered and so not checked.
- Names of IR values join names by underscores as labels do (`@f_y_1`).

### Fairness

`Terminates` (both) and the temporal run `edge_swap` assume weak fairness of the
whole next-state relation. The code is one thread that runs its loops to their
end, and the processor goes on to the next instruction; no fairness between
actions is assumed. The other runs are about safety and assume none.
`CHECK_DEADLOCK FALSE` is in the runs of `EdgeArguments` and `FrameLayout`, which
stop when the terminator has run or the layout is done, of `Declarations`, which
stops when the program is accepted or rejected, of `Pipeline`, whose process
exits, and of `Labels`; the other models stutter
explicitly at their end, so a model stuck in the middle is reported.

## Proofs

TLAPS checks, for every value of the constants that satisfies the assumptions:

- **ControlFlowProofs**: lemmas about graphs, with dominance as `ControlFlow`
  defines it, by regions and not by paths. Dominance is a partial order
  (`DominatesTransitive`, `DominatesAntisymmetric`), the dominators of a reachable
  block form a chain, every reachable block but the entry has an immediate
  dominator, and a set of dominators has a topmost one. Where a proof on paper
  inducts over a path, these take the set of blocks that have the wanted property
  as the region.
- **DominanceProofs**, for every finite or infinite set of blocks and every graph
  of `Cfgs`: type correctness; `ReachableExact`; `NoDominatorLost`;
  `DominatorsExact`; `DominatorsShrink`. The argument: `OrderInv` says the list
  has no repetition, every block of it but the first has a predecessor earlier in
  it, and everything before position `i` has its successors in it, which gives
  exact reachability at the end of the search. `DomInv` adds the bounds of the
  sweeps: each set contains the true dominators (lemma `MeetKeepsDominators`: what
  dominates a block dominates its reachable predecessors) and contains the block's
  next meet, so a visit can only shrink it. `CleanInv` says that without a change
  in this sweep the visited blocks are fixed points. At the end of an unchanged
  sweep every block is; lemma `FixedPointSound` shows that a fixed point holds
  *only* dominators, by taking the region of blocks whose set lacks d, which
  separates the entry from them.
  For `DominatorTreeExact` and `FrontierExact` each later phase adds what the
  results of the phases before it are by now (`ExactInv`, `IdomInv`), so the last
  phase knows the sets and the tree to be exact. A runner walks from a predecessor
  of a join up to the join's immediate dominator; the invariant says which blocks
  of that way have the join in their frontier already.
- **FuncLoweringProofs**, for every AST of any size: all six properties of
  `FuncLowering`. None of them is inductive: that a block is filled in the end
  depends on what every call in progress still has to do. `Inv` therefore says
  what each frame of the stack *owns*: the open blocks it promises to fill
  (`Owned`). `OwnInv`: no two frames own the same block, and an open block is the
  current one or owned. `FrameInv`: which frame may sit on which, and that a
  current block exists exactly where the frame on top asks for one. `ReachInv`: a
  set of blocks that contains the entry and is closed under edges contains every
  block except those a frame still has to lead to. `LoopInv` and `ScopeInv` tie
  the stacks to positions in the stack of frames. A step replaces the frame on top
  and touches only what that frame owns (lemma `StackStep`); each action is shown
  to be such a step.
- **LoweringExecProofs**, for every AST of any size and every outcome of its calls:
  `SameEvents` (`LoweringKeepsMeaning`), with no assumption beyond
  `ProgramsAssumption`. `Inv` of `FuncLoweringProofs` knows which blocks are filled
  and reached, and nothing of what is in them, so the invariant needs a second half.
  A place of the blocks *means* a continuation of the source: the list of what
  remains to be done when control is there. `CodeInv` says that there is a set S of
  such meanings which holds the whole body at the entry, and in which each meaning
  is *fulfilled*: the instruction at its place does the first item of the list and
  leads to places that mean what follows (`Does`, `Performs`), or the source gets
  to another meaning of the same place without an instruction, or the place is
  still open, and then a call in progress, or the current block, promises to write
  there what is missing. A finished function has no calls in progress, so no
  promise is left (`DoneCode`, `Realized`). Each action of the lowering has a lemma:
  it keeps the promise of the frame it pops with the promises of the frames it
  pushes, and new blocks add meanings. A `break` or `continue` means what follows
  the innermost loop of the list, or that loop again (`Ahead`), which is where the
  loop stack and the recursion have to agree. Execution is then a simulation: what
  the source has to do is `Related` to the place the blocks are at, for its steps
  without an event (`Simulation`) and with one (`EventMatches`). The source may run
  ahead of the blocks up to its next event; `Follows` is the trace of those steps,
  and `LastRelated` takes the last point of it that is related to where the blocks
  are, a least element in place of an induction. Inside `||` and `&&` the blocks also have
  stored a value the source has not yet (`Halfway`).
- **Mem2RegProofs**, for every function of the shape `IsFunction` and any number
  of blocks, variables and instructions: the five safety properties of `Mem2Reg`.
  The placement part of `Inv` (`PlacingInv`) keeps the set of blocks between the
  stores' frontiers and the least closed set. The renaming part splits the
  reachable blocks by the walk over the dominator tree: *pending* (some call that
  has not started, or the running block, is above it), *running*, *renamed*.
  `CallsInv`: no pending call is above another, so each block is renamed once.
  `InstsInv`, `ArgsInv`: pending blocks are as they were, renamed ones have lost
  exactly the promoted accesses and have all their arguments. `ValuesInv`: a current value is
  `Final`, that is, no load that is going to be erased, and defined above the
  block; so later replacements do not touch it. `SetInv`: a promoted variable
  has a current value wherever `can_promote_without_undef` found one above, which
  is why no edge misses an argument and no null gets into an operand.
  `CompleteEdges` (`EdgeArgsMatchParams`) has a hypothesis: unreachable blocks
  have no targets. It is needed, as `mem2reg_unreachable` shows, and it is what
  `FinishedReachable` proves of the functions lowering makes.
- **Mem2RegProofs**, second part: for every function of the shape `IsFunction`,
  every path through it, loops too, and every outcome of its calls: `SameObservations`,
  `SameMemory` and `NoUndefinedRead`, without further hypotheses. The proof goes
  through a static fact about the renamed function. A variable is set at its
  *definition points* (`DefPoints`): its stores and the blocks with a parameter
  for it. `Latest(v, p, q)`: p is the definition point before q, in the order of
  dominance, that all others before q come before. `Meaning`, an invariant of the
  pass on top of `Inv`: a current value is the value of the latest definition
  (`CurrentInv`), each load that is gone was replaced by that of the latest before
  it (`UsesInv`), and an argument is that of the latest before the end of its
  block (`PassedInv`). The dominator tree makes it inductive: a child starts with
  the definitions its parent ends with (lemma `LatestOfChild`). `ExecInv` is the
  simulation: the memory of the original holds, for each promoted variable, what
  the promoted function has as the value of the latest definition
  (`MemoryIsLatest`), and the same of the results of loads that are gone
  (`LoadedIsLatest`). Instructions keep it because no value defined earlier
  changes (`EvalAfterInst`). Along an edge either the target has a parameter and
  the argument is right by `PassedInv`, or, the blocks with parameters being closed
  under frontiers, the latest definition at the start of the target is that at the
  end of the predecessor, whichever it is (`LatestAlongEdge`). That there is one
  at each promoted load, which is what `can_promote_without_undef` checks, gives
  `NoUndefinedRead`.
- **FrameLayoutProofs**, for every function and every `MaxInt`: all five
  properties. `IInv` carries the running totals as functions from positions to
  sums, so that the second traversal can be compared with the first without
  recursion; lemma `TotalsExtend` extends them by one value.
- **EdgeArgumentsProofs**, assuming `InOrder` (no argument of any edge reads a
  parameter an earlier copy assigns, the named assumption of that module):
  `CopiedSoFar`, and that the machine code implements `BlockArguments`. The
  assumption is needed: `edge_swap` is the counterexample without it.
- **PipelineProofs**, for all command lines and all modules of any size:
  `SuccessIsWholeOutput` and `VerifiedIsEmitted`. For the first, `IInv` follows the
  file: nothing is in it before the last verification, and while pieces go into a
  good stream it holds exactly those before the position. For the second, the
  lemmas go from the operand up: types that point have a size (`TypesHaveSize`),
  what has a size has a slot or an address (`OperandsHavePlaces`), an instruction
  that passes its check is selected and printed (`RightIsTaken`, one step per kind
  of instruction), so is a function (`FunctionIsTaken`) and a piece of the output
  (`PieceIsWritten`). Initializers have a branch of their own: at every path the
  recursion takes, the part has the type the place asks for, which is an i32 or an
  array (`PartFits`), so no part fails (`InitializerIsTaken`); the paths make an
  induction over the nesting unnecessary. The assumption is `ModulesAssumption`,
  which is `IsModule` for what the builder and Mem2Reg return: operands name
  something that exists, of any kind and any type, and instructions have the number
  of operands their constructors take. It excludes no module the builder makes.

The assumptions on constants are `BlockAssumption` and `CfgsAssumption`,
`Mem2RegAssumption` (finitely many blocks and variables, functions of the shape
`IsFunction`), `ProgramsAssumption`, `FrameAssumption`, `BlockArgumentsAssumption`,
`NoEdgeAssumption`, and `ModulesAssumption`; TLC evaluates them in the runs, and
those of the modules without proofs with them.

The proofs chain as the modules do: lowering keeps the meaning of the body
(`LoweringKeepsMeaning`) and leaves every block reachable (`FinishedReachable`),
the analyses of such a function are exact (`ReachableCorrect`,
`DominatorsCorrect`, `DominatorTreeCorrect`, `FrontierCorrect`), and with exact
analyses the pass keeps the function in SSA form with complete edges
(`StaysInSSAForm`, `CompleteEdges`) and with its meaning
(`PromotionKeepsMeaning`).

Model-checked only: `InstructionSelector` (`MachineRepresentsIR`,
`CalleeSeesArguments`, `CallerGetsBack`), whose arithmetic needs `Bitwise` and
whose initializers are recursive operators; `DeclarationRules`
(`UsesResolveLexically`, `ConstantsAsAtRunTime`, `ArraysInitialized`,
`AcceptsTheRight`), whose expressions and initializers are recursive; and all
liveness (`Terminates` of the analyses and of the pass), since termination under
fairness is beyond the prover. So is induction as the library states it, with an
operator as parameter; where a proof needs one over numbers, it takes the least
element of a set (`WellFoundedInduction`), and over paths, the set of blocks that
have the property.

## Plan

Done, in this order: dominance, Mem2Reg, its execution, lowering, its execution,
edge arguments, frame layout; instruction selection, symbol table with
declarations, constants and initializers, verifier and pipeline, labels; and the
proofs about all but instruction selection, declarations and labels. Left:

1. Functions in SSA form in `InstructionSelector`: a call that passes on the
   function's own arguments overwrites the registers it still has to read. The
   driver selects code for memory-form functions only, whose parameters are
   stored before any call, and the run has only such functions.
2. The address code of subscripts in lowered lvalues, composed with
   `InstructionSelector`.

## Not modelled, and why

The lexer and parser are generated from a grammar, and the AST is data with a
dump. The texts of the IR text generator and the assembly printers are
formatting; of both, only when they throw is modelled. Of the IR data model a
module has the types and fields it needs; the ownership of nodes is not a
behaviour. `MachineVerifier`'s check that an instruction has its operands holds for
everything the selector's constructors make, and only its check of terminators is
modelled. Sizes of 2 GiB and more, which `int32_t` cuts, are excluded by
`FrameAssumption`. The runtime belongs to the compiled program.

## Running

In this directory:

    tlc -workers 2 -config MCDominanceAnalysis.cfg MCDominanceAnalysis
    tlapm DominanceProofs.tla

and likewise for the other runs and proof modules. `PROJECT.json` lists every run
with its properties, the wrong variant of a definition that each property
detects, and the source lines of every definition.
