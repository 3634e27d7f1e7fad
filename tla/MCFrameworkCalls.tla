---------------------------- MODULE MCFrameworkCalls ----------------------------
(***************************************************************************)
(* An instance of FrameworkCalls for TLC: the two keys the code knows and  *)
(* one it does not.                                                        *)
(***************************************************************************)
EXTENDS FrameworkCalls

MCKeys == {"input", "query", "topic"}
===============================================================================
