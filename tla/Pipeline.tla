------------------------------- MODULE Pipeline -------------------------------
(***************************************************************************)
(* One run of the compiler (src/main.cpp, src/driver): the command line,      *)
(* run_compiler's stages, the pass manager, and the two emitters, which write  *)
(* the output file piece by piece.  What a stage computes is abstract where    *)
(* another module has it: the builder throws or returns any of Modules, and     *)
(* Mem2Reg changes nothing or leaves any of Rewritten.  The environment may     *)
(* withhold the input file, refuse the output file or fail any write to it;    *)
(* std::ofstream reports a failed write to nobody who asks.                  *)
(***************************************************************************)
EXTENDS Verifier, SequencesExt

CONSTANTS
  CommandLines,  \* sequences of arguments: options, or "input" and "output"
  Modules,       \* what RewindIRBuilder::build may return
  Rewritten      \* what Mem2RegPass may leave of a module

\* Any module that the constructors make, well formed or not.
ASSUME ModulesAssumption == \A m \in Modules \cup Rewritten : IsModule(m)

VARIABLES
  argv,      \* the command line
  stage,     \* what run_compiler does next
  mode,      \* CompilerOptions::mode
  module,    \* the IRModule
  position,  \* passes run, or pieces emitted
  file,      \* the stream: "closed", "good" or "bad"
  written,   \* the pieces that reached the output file
  exit       \* "none", then "success", "failure" or "undefined"

vars == <<argv, stage, mode, module, position, file, written, exit>>

NoModule == [globals |-> <<>>, funcs |-> <<>>]

-----------------------------------------------------------------------------
(* What the file consists of, and what becomes of a piece.                   *)

\* The two passes of the driver; no function pass is registered.
Passes == IF mode = "-ssa" THEN <<"noop-module", "mem2reg">> ELSE <<"noop-module">>

Globals(m) == [g \in DOMAIN m.globals |-> <<"global", g>>]
Functions(m) == [k \in DOMAIN m.funcs |-> <<"function", k>>]

\* In assembly the piece of a declaration is empty.
Pieces(md, m) == IF md = "-ast" THEN <<<<"tree", 1>>>> ELSE Globals(m) \o Functions(m)

\* The ways in which a piece may end the emission.
TextFails(m, piece) ==
  IF piece[1] = "global" THEN PrintGlobalFails(m.globals[piece[2]])
  ELSE PrintFails(m.funcs[piece[2]])

AssemblyFails(m, piece) ==
  IF piece[1] = "global" THEN AssembleGlobalFails(m.globals[piece[2]])
  ELSE IF m.funcs[piece[2]].declaration THEN {} ELSE AssembleFails(m, m.funcs[piece[2]])

Failures(md, m, piece) ==
  CASE md = "-ast" -> {}
    [] md = "-riscv" -> AssemblyFails(m, piece)
    [] OTHER -> TextFails(m, piece)

-----------------------------------------------------------------------------

\* run's catch, or a return of run_compiler.
Exit(code) == exit' = code /\ stage' = "end"

Init ==
  /\ argv \in CommandLines
  /\ stage = "options" /\ mode = "none" /\ module = NoModule /\ position = 0
  /\ file = "closed" /\ written = <<>> /\ exit = "none"

Help == Len(argv) = 2 /\ argv[2] \in {"-h", "--help"}
WellFormed ==
  /\ Len(argv) = 5
  /\ argv[2] \in {"-ast", "-koopa", "-ssa", "-riscv"}
  /\ argv[4] = "-o"

ParseOptions ==
  /\ stage = "options"
  /\ IF WellFormed THEN mode' = argv[2] /\ stage' = "parse" /\ exit' = exit
     ELSE mode' = mode /\ Exit(IF Help THEN "success" ELSE "failure")
  /\ UNCHANGED <<argv, module, position, file, written>>

\* The input cannot be opened or is no SysY program, or the tree is there.
ParseAst ==
  /\ stage = "parse"
  /\ \/ Exit("failure")
     \/ stage' = "open" /\ exit' = exit
  /\ UNCHANGED <<argv, mode, module, position, file, written>>

\* std::ofstream truncates what was in the file.
OpenOutput ==
  /\ stage = "open"
  /\ \/ Exit("failure") /\ file' = file
     \/ file' = "good" /\ exit' = exit
        /\ stage' = IF mode = "-ast" THEN "emit" ELSE "build"
  /\ UNCHANGED <<argv, mode, module, position, written>>

Build ==
  /\ stage = "build"
  /\ \/ Exit("failure") /\ module' = module
     \/ module' \in Modules /\ stage' = "verify" /\ exit' = exit
  /\ UNCHANGED <<argv, mode, position, file, written>>

VerifyBeforePasses ==
  /\ stage = "verify"
  /\ IF Verified(module) THEN stage' = "passes" /\ exit' = exit ELSE Exit("failure")
  /\ UNCHANGED <<argv, mode, module, position, file, written>>

RunPass ==
  /\ stage = "passes" /\ position < Len(Passes)
  /\ module' \in IF Passes[position + 1] = "mem2reg" THEN {module} \cup Rewritten ELSE {module}
  /\ position' = position + 1
  /\ UNCHANGED <<argv, stage, mode, file, written, exit>>

VerifyAfterPasses ==
  /\ stage = "passes" /\ position = Len(Passes)
  /\ IF Verified(module) THEN stage' = "emit" /\ exit' = exit ELSE Exit("failure")
  /\ position' = 0
  /\ UNCHANGED <<argv, mode, module, file, written>>

\* A write to a bad stream does nothing, and the first that fails makes it bad.
Write(piece) ==
  \/ file = "good" /\ written' = Append(written, piece) /\ file' = file
  \/ file' = "bad" /\ written' = written

NextPiece == Pieces(mode, module)[position + 1]

EmitPiece ==
  /\ stage = "emit" /\ exit = "none" /\ position < Len(Pieces(mode, module))
  /\ Failures(mode, module, NextPiece) = {}
  /\ Write(NextPiece)
  /\ position' = position + 1
  /\ UNCHANGED <<argv, stage, mode, module, exit>>

\* A wrong variant: the code IRTextGen::emit returns for its own catch is not tested.
EmitThrowsIgnored ==
  /\ stage = "emit" /\ exit = "none" /\ position < Len(Pieces(mode, module))
  /\ "throws" \in Failures(mode, module, NextPiece)
  /\ exit' = IF mode = "-riscv" THEN "failure" ELSE "success"
  /\ UNCHANGED <<argv, stage, mode, module, position, file, written>>

\* The text generator ends the file with the message of what it caught; what was
\* written before stays in the file.  The stage is kept, to tell who threw.
EmitThrows ==
  /\ stage = "emit" /\ exit = "none" /\ position < Len(Pieces(mode, module))
  /\ "throws" \in Failures(mode, module, NextPiece)
  /\ IF mode = "-riscv" THEN UNCHANGED <<file, written>> ELSE Write(<<"error", 1>>)
  /\ exit' = "failure"
  /\ UNCHANGED <<argv, stage, mode, module, position>>

EmitUndefined ==
  /\ stage = "emit" /\ exit = "none" /\ position < Len(Pieces(mode, module))
  /\ "undefined" \in Failures(mode, module, NextPiece)
  /\ exit' = "undefined"
  /\ UNCHANGED <<argv, stage, mode, module, position, file, written>>

EndEmission ==
  /\ stage = "emit" /\ exit = "none" /\ position = Len(Pieces(mode, module))
  /\ Exit("success")
  /\ UNCHANGED <<argv, mode, module, position, file, written>>

Emit == EmitPiece \/ EmitThrows \/ EmitUndefined \/ EndEmission

Next ==
  \/ ParseOptions \/ ParseAst \/ OpenOutput \/ Build
  \/ VerifyBeforePasses \/ RunPass \/ VerifyAfterPasses \/ Emit

Spec == Init /\ [][Next]_vars

-----------------------------------------------------------------------------
(* Properties.                                                             *)

\* Each part has the type its place in the whole asks for, and an integer is an i32.
WellTyped(v) ==
  \A path \in Paths(v) :
    LET node == Node(v, path)
    IN /\ node.k \in {"zero", "integer", "aggregate"}
       /\ node.type = Within(v.type, path)
       /\ node.k = "integer" => node.type = I32
       /\ node.k = "aggregate" => IsArray(node.type)

\* An i32, or arrays of arrays ... of i32.
OfIntegers(type) ==
  /\ type # <<>> /\ type[Len(type)] = "i32"
  /\ \A i \in 1..(Len(type) - 1) : type[i] \in ArrayTags

\* The operands whose values or addresses are needed, that is all but a stored initializer.
PlainOperands(inst) == IF StoresInitializer(inst) THEN {inst.in[2]} ELSE OperandsOf(inst)

\* What no check of the verifier excludes and an emitter does not take: nothing the
\* builder makes has one of these.
NotTaken(m, f, inst) ==
  \/ inst.op = "integer"
  \/ inst.op = "load" /\ ~HasSize(inst.type)
  \/ inst.op = "call" /\ inst.type # Unit /\ ~HasSize(inst.type)
  \/ \E o \in PlainOperands(inst) :
       /\ o.k # "null"
       /\ o.k \in Constants \ {"integer"} \/ ~HasSize(TypeOf(m, f, o))
  \* the address is an argument itself, which has no slot, or a constant
  \/ inst.op \in {"load", "getelemptr"} /\ inst.in[1].k \in {"arg", "integer"}
  \/ inst.op = "store" /\ inst.in[2].k \in {"arg", "integer"}
  \/ /\ StoresInitializer(inst)
     /\ ~(WellTyped(inst.in[1]) /\ OfIntegers(inst.in[1].type))

OutsideVerifier(m) ==
  \/ \E g \in DOMAIN m.globals : ~WellTyped(m.globals[g].init)
  \/ \E k \in DOMAIN m.funcs : \E b \in DOMAIN m.funcs[k].blocks :
       \E i \in DOMAIN m.funcs[k].blocks[b].insts :
         NotTaken(m, m.funcs[k], m.funcs[k].blocks[b].insts[i])

\* Once the verification has passed, before the passes and again after them, no emitter
\* throws or dereferences a null pointer on the module, whatever instruction, operand,
\* type and edge it is made of, but for the cases named above: the verifier covers what
\* instruction selection, the frame layout, the machine verifier, the printer of globals
\* and the text generator take for granted.
VerifiedIsEmitted ==
  stage = "emit" /\ exit \in {"failure", "undefined"} => OutsideVerifier(module)

\* A compilation that exits with 0 and met no failing write leaves the whole of what the
\* mode asks for in the file, in order and once, of a module that was verified in the form
\* it is written in; and as long as the verification has not passed nothing is in the file.
SuccessIsWholeOutput ==
  /\ exit = "success" /\ file = "good" =>
       written = Pieces(mode, module) /\ (mode = "-ast" \/ Verified(module))
  /\ written # <<>> => mode = "-ast" \/ Verified(module)
=============================================================================
