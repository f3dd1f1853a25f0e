----------------------------- MODULE MCDeadCode -----------------------------
(***************************************************************************)
(* Short listings over two locals, with and without loops, and the listing *)
(* that lowering leaves of a loop with an arm that changes nothing.        *)
(***************************************************************************)
EXTENDS DeadCode, TLC

CONSTANTS x, y, z

Make(op, d, reads) == [op |-> op, dst |-> d, reads |-> reads]
Compute(d, r) == Make("compute", d, {r})
Fresh(d) == Make("compute", d, {})
Move(d, r) == Make("copy", d, {r})
Call(r) == Make("call", NoLocal, {r})
Branch(r) == Make("branch", NoLocal, {r})
Test == Make("branch", NoLocal, {})

Other(v) == CHOOSE w \in {x, y} : w # v
Assigns == UNION {{Fresh(v), Compute(v, Other(v)), Move(v, Other(v))} : v \in {x, y}}

Graphs ==
    {[b \in Blocks |-> CASE b = 0 -> first [] b = 1 -> second [] b = 2 -> third] :
        first \in {<<1>>, <<2, 1>>}, second \in {<<2>>, <<1, 2>>, <<0, 2>>},
        third \in {<< >>, <<1>>}}

Calls == {Call(x), Make("call", y, {x})}
Small ==
    {[code |-> [b \in Blocks |-> CASE b = 0 -> <<a>> [] b = 1 -> <<c, d>> [] b = 2 -> <<e, f>>],
      succ |-> g] :
        a \in {Nop, Fresh(x), Compute(y, x)},
        c \in Assigns \cup Calls, d \in Assigns \cup {Nop},
        e \in {Nop, Move(x, y)}, f \in {Test, Branch(x), Call(y)}, g \in Graphs}

(* What lowering makes of a loop with an arm that leaves x alone: 0: z is   *)
(* fresh, x = z; 1: if (c) goto 3; 2: y = x + 1, x = y, goto 1; 3: x = x,  *)
(* if (c) goto 1; 4: return x.  x is the loop's phi, y and z its arguments.*)
SelfMove ==
    {[code |-> 0 :> <<Fresh(z), Move(x, z)>> @@ 1 :> <<Test>>
               @@ 2 :> <<Compute(y, x), Move(x, y), Test>>
               @@ 3 :> <<Move(x, x), Test>> @@ 4 :> <<Branch(x)>>,
      succ |-> 0 :> <<1>> @@ 1 :> <<3, 2>> @@ 2 :> <<1>> @@ 3 :> <<1, 4>> @@ 4 :> << >>]}
=============================================================================
