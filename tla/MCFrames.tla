------------------------------- MODULE MCFrames -------------------------------
(* Frames on a program with a body nested in a body, and a loaded file.  The *)
(* inner body holds a HALT, as the verifier lets a loaded one.               *)
EXTENDS Frames

CONSTANTS main, outer, inner, lib

MCCode == {main, outer, inner, lib}
MCEncloser == main :> NoCode @@ outer :> main @@ inner :> outer @@ lib :> NoCode
MCNesting == main :> 0 @@ outer :> 1 @@ inner :> 2 @@ lib :> 0
MCArity == main :> 0 @@ outer :> 0 @@ inner :> 1 @@ lib :> 0
MCHalts == {main, inner, lib}
MCSlotCount == main :> 1 @@ outer :> 1 @@ inner :> 2 @@ lib :> 1
===============================================================================
