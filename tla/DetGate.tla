------------------------------- MODULE DetGate -------------------------------
(***************************************************************************)
(* scripts/det_gate.sh: the pass runs twice over one binary, in two        *)
(* separate processes, and the manifests ILR_DET_MANIFEST writes (a digest *)
(* of every text, det_write_manifest) are compared.                        *)
(***************************************************************************)
EXTENDS RecoveryPool

VARIABLE manifest   \* the first process's texts, << >> before it returns

gateVars == <<vars, manifest>>

GateInit == Init /\ manifest = << >>

\* A step of the process at work.  Each runs the pass once, over the one binary
\* the script was given, with the default settings, that is with annotation.
ProcessStep ==
    /\ Next
    /\ runs' <= 1 /\ prog' = prog /\ annotate' = (runs' > 0)
    /\ UNCHANGED manifest

\* The first process writes its manifest and exits; the second starts on the
\* same binary with nothing of the first one's memory.
SecondProcess ==
    /\ phase = "done" /\ manifest = << >>
    /\ manifest' = results
    /\ phase' = "idle" /\ runs' = 0 /\ prog' = prog
    /\ annotate' = FALSE /\ envAnnotate' = FALSE /\ flagCache' = "unset"
    /\ graded' = [w \in Workers |-> FALSE]
    /\ ledger' = [w \in Workers |-> {}]
    /\ folds' = [w \in Workers |-> NoFolds]
    /\ registry' = [n \in LambdaNames |-> NoLambda]
    /\ annotations' = [m \in Methods |-> "none"]
    /\ resolved' = [p \in Ptrs |-> NoType]
    /\ census' = [c \in Counters |-> 0]
    /\ results' = [m \in Methods |-> Plain("pending")]
    \* what the joined pool has already handed back
    /\ UNCHANGED <<todo, at, pc, refsLeft, ptrsLeft, ptrUsers, unrewritten>>

GateNext == ProcessStep \/ SecondProcess
GateSpec == GateInit /\ [][GateNext]_gateVars

-----------------------------------------------------------------------------
Compared == phase = "done" /\ manifest # << >>

\* Two runs over one binary differ in nothing but the folded lambdas: kinds,
\* grades and pointer names do not depend on how the pool schedules the methods.
SameButForFolds ==
    Compared => \A m \in Methods :
        [results[m] EXCEPT !.folds = NoFolds] = [manifest[m] EXCEPT !.folds = NoFolds]

\* det_gate.sh: "a gate run must be reproducible by definition".
Reproducible == Compared => results = manifest
=============================================================================
