------------------------------- MODULE CodeTrees -------------------------------
(***************************************************************************)
(* The instructions of a code tree (module.proto), which is written in     *)
(* preorder: an application is followed by the code of its function and of *)
(* its parameter, an abstraction by its body, and any larger number is a   *)
(* variable, counted from the innermost frame.                             *)
(***************************************************************************)
EXTENDS Integers

APPLICATION == 0
ABSTRACTION == 1
FIRST_VARIABLE == 2
=============================================================================
