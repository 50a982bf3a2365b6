------------------------------ MODULE MCWords -------------------------------
(***************************************************************************)
(* The bytes behind the buffer for the model checker: "OSyikkk:/" in the   *)
(* build, a letter and a slash here.                                       *)
(***************************************************************************)
EXTENDS Words

MCBehind == <<"a", "/", NUL>>
=============================================================================
