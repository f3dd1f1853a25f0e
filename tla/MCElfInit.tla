---------------------------- MODULE MCElfInit ----------------------------
(***************************************************************************)
(* Every combination of switches over a version without code-gen modules,  *)
(* the first that has them and one that is corrected downwards and back.   *)
(***************************************************************************)
EXTENDS ElfInit

AllJobs == [version : {240, 242, 310}, base : BOOLEAN, force : BOOLEAN,
            keep : BOOLEAN, dump : BOOLEAN, codm : BOOLEAN]
=============================================================================
