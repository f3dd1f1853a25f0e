----------------------------- MODULE DumpTable ------------------------------
(***************************************************************************)
(* What the native pseudo-C# pass promises, without its pool: a table of   *)
(* method texts is opened for a binary; every text is settled once; only   *)
(* when all are settled may a pointer be given a type name, and only if    *)
(* every method that prints the pointer is declared by that type; naming   *)
(* pointers is the one change a settled text ever sees.  Source: the       *)
(* contract decompile_methods_to_csharp and reconstruct/ptr_resolution.rs  *)
(* state for their results.                                                *)
(***************************************************************************)
EXTENDS Naturals, Sequences

CONSTANTS Methods, Types, Ptrs, NoType

VARIABLES stage,       \* "idle", "render", "rewrite", "done"
          declaring,   \* the declaring type of every method
          table,       \* the texts
          names        \* the types given to pointers

vars == <<stage, declaring, table, names>>

Pending(m) == table[m].kind = "pending"
AllPending == \A m \in Methods : Pending(m) /\ table[m].line = << >>
NothingNamed == names = [p \in Ptrs |-> NoType]

Init == stage = "idle" /\ declaring \in [Methods -> Types] /\ AllPending /\ NothingNamed

Open ==
    /\ stage \in {"idle", "done"} /\ stage' = "render"
    /\ declaring' \in [Methods -> Types]
    /\ AllPending' /\ NothingNamed'

\* One method gets its text, with every pointer in it still unnamed.
Settle(m) ==
    /\ stage = "render" /\ Pending(m) /\ ~Pending(m)'
    /\ \A i \in DOMAIN table'[m].line : table'[m].line[i].type = NoType
    /\ \A n \in Methods \ {m} : table'[n] = table[n]
    /\ UNCHANGED <<stage, declaring, names>>

\* Name the pointers, all texts being settled.
Agree ==
    /\ stage = "render" /\ stage' \in {"rewrite", "done"}
    /\ \A m \in Methods : ~Pending(m)
    /\ \A m \in Methods : \A i \in DOMAIN table[m].line :
          names'[table[m].line[i].ptr] \in {NoType, declaring[m]}
    /\ UNCHANGED <<declaring, table>>

\* Print the given names in one text.
Rename(m) ==
    /\ stage = "rewrite"
    /\ \A n \in Methods \ {m} : table'[n] = table[n]
    /\ table'[m].kind = table[m].kind /\ table'[m].stamp = table[m].stamp
    /\ table'[m].folds = table[m].folds
    /\ DOMAIN table'[m].line = DOMAIN table[m].line
    /\ \A i \in DOMAIN table[m].line :
          /\ table'[m].line[i].ptr = table[m].line[i].ptr
          /\ table'[m].line[i].type \in {table[m].line[i].type, names[table[m].line[i].ptr]}
    /\ UNCHANGED <<stage, declaring, names>>

Publish ==
    /\ stage = "rewrite" /\ stage' = "done"
    /\ UNCHANGED <<declaring, table, names>>

Next == Open \/ Agree \/ Publish \/ \E m \in Methods : Settle(m) \/ Rename(m)

Spec == Init /\ [][Next]_vars
=============================================================================
