----------------------------- MODULE SsaBodies ------------------------------
(***************************************************************************)
(* The instructions that the bodies of the checked instances are made of.  *)
(***************************************************************************)
EXTENDS Ssa

Set(s) == [op |-> "set", dst |-> s, src |-> NoSlot]
Inc(s) == [op |-> "inc", dst |-> s, src |-> s]
Move(s, r) == [op |-> "move", dst |-> s, src |-> r]
Nop == [op |-> "nop", dst |-> NoSlot, src |-> NoSlot]
Use(s) == [op |-> "use", dst |-> NoSlot, src |-> s]
Ret(s) == [op |-> "ret", dst |-> NoSlot, src |-> s]
Cond(s) == [op |-> "cond", dst |-> NoSlot, src |-> s]
Jump == [op |-> "jump", dst |-> NoSlot, src |-> NoSlot]
=============================================================================
