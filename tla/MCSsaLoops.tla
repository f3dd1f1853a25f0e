----------------------------- MODULE MCSsaLoops -----------------------------
(***************************************************************************)
(* Bodies with copies between two registers, and one with phis of phis.    *)
(***************************************************************************)
EXTENDS SsaBodies, TLC

(* A register copied and advanced around a loop. *)
Steps == {Move(1, 2), Move(2, 1), Inc(1), Inc(2)}
Loops ==
    {[code |-> 0 :> <<first>> @@ 1 :> (body \o <<Cond(c)>>) @@ 2 :> <<then, Ret(r)>>,
      succ |-> 0 :> <<1>> @@ 1 :> <<t, 2>> @@ 2 :> << >>] :
        first \in Steps, body \in [1 .. 2 -> Steps], c \in Slots, t \in {1, 2},
        then \in Steps \cup {Nop}, r \in Slots}

(* The same around an entry block that is its own latch. *)
SelfLoops ==
    {[code |-> 0 :> (body \o <<Cond(c)>>) @@ 1 :> <<then>> @@ 2 :> <<Ret(r)>>,
      succ |-> 0 :> <<0, 1>> @@ 1 :> <<2>> @@ 2 :> << >>] :
        body \in {s \in [1 .. 2 -> Steps] : s[1].dst = s[2].dst}, c \in Slots,
        then \in Steps \cup {Nop}, r \in Slots}

AnyLoops == Loops \cup SelfLoops

(* Joins of one value under joins of one value, and a definition behind.   *)
Ladder ==
    LET code == 0 :> <<Cond(1)>> @@ 1 :> <<Cond(1)>> @@ 2 :> <<Nop>> @@ 3 :> <<Nop>>
                @@ 4 :> <<Cond(1)>> @@ 5 :> <<Nop>> @@ 6 :> <<Use(1), Cond(1)>>
                @@ 7 :> <<Set(1), Ret(1)>>
        succ == 0 :> <<4, 1>> @@ 1 :> <<3, 2>> @@ 2 :> <<3>> @@ 3 :> <<4>>
                @@ 4 :> <<6, 5>> @@ 5 :> <<6>> @@ 6 :> <<7, 7>> @@ 7 :> << >>
    IN  {[code |-> code, succ |-> succ]}
=============================================================================
