--------------------------- MODULE MCMem2RegExec ---------------------------
(***************************************************************************)
(* The functions of MCMem2Reg, executed.  In SwapCalls what is swapped are    *)
(* two results of calls, so that a mix-up of the two shows.                  *)
(***************************************************************************)
EXTENDS Mem2RegExec, MCMem2Reg

SwapCalls ==
  Fn(<< <<2>>, <<3, 4>>, <<2>> >>,
       << <<Alloc("x"), Alloc("y"), Other(NoOperand), Other(NoOperand),
            Store("x", Res(1, 3)), Store("y", Res(1, 4))>>,
          <<>>,
          <<Load("x"), Load("y"), Store("x", Res(3, 2)), Store("y", Res(3, 1))>>,
          ReadBoth(4) >>)

MCOutcome == {6, 7}
ExecFunctions == Small \cup Shapes \cup {SwapCalls}
=============================================================================
