----------------------- MODULE MCConversionSession -----------------------
(* Instances of ConversionSession for TLC.  Two conversions, each of a     *)
(* one-item playlist or of the game page, show what one leaves behind for  *)
(* the next; one conversion of three items, two of them with the same      *)
(* output name, shows the loop; one of an item named unlike the game of the *)
(* other page shows what the pages do to each other's dialogs.              *)
EXTENDS ConversionSession, TLC

CONSTANTS r1, r2, a, b

OneOutput == (1 :> a)
OtherOutput == (1 :> b)
ThreeOutputs == (1 :> a) @@ (2 :> b) @@ (3 :> a)
FirstFile == {<<a, 0>>}
RunSymmetry == Permutations(Runs)
=============================================================================
