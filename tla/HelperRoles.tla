---------------------------- MODULE HelperRoles ----------------------------
(***************************************************************************)
(* recovery/runtime_helpers.rs: what the runtime functions a binary calls  *)
(* are for.  The roles, the addresses that are no functions and the words  *)
(* of the raises are three tables of the process.  Setting up a dump fills *)
(* them from the bodies; then every method, on whatever thread, adds what  *)
(* its own call sites show and renders its calls by what it finds there.   *)
(*                                                                         *)
(* Each table has its own lock, held for one insertion or one lookup: the  *)
(* steps below are those sections.  A method that has been claimed is      *)
(* recovered by one thread, so a pool of any size shows some of the        *)
(* interleavings of the methods, and all of them when it is large enough.  *)
(*                                                                         *)
(* The dump has lists of its own besides the roles (maps.string_new,       *)
(* object_new, box_fn, raise_exception, metadata_init and the selector     *)
(* stubs): what they claim of an address is part of the program that is    *)
(* run, because nothing changes them once the methods are recovered.       *)
(***************************************************************************)
EXTENDS Integers, Sequences

CONSTANTS
    Targets,     \* addresses of functions that are not managed methods
    Methods,
    Programs     \* what the binary may hold: records of ProgramType

None == "none"
Roles == {"class_init", "raise", "object_new", "array_new", "box", "is_inst",
          "metadata_init"}

(* thin: what the calls of a thin forwarder lead to; body: what the calls  *)
(* of the body show, "import" for a stub of the linker and "inside" for an *)
(* address without a prologue and without a symbol.                        *)
Thin == {None, "raise", "array_new"}
Bodies == {None, "import", "inside", "object_new", "box", "is_inst"}

(* family: the lists of the dump an address is in; guess: the role that    *)
(* the statistics of its call sites gave it.                               *)
Families == {"string_new", "object_new", "box_fn", "raise_exception", "metadata_init",
             "selector"}
Guesses == {None, "object_new", "box"}

(* How a call is written.  guarded: between the test of a static-init byte *)
(* and its setting; usage: given the address of a metadata slot, its       *)
(* result unread; box: a class and an address; cast: an object and a       *)
(* class; class: a class alone; alloc: a class, and a constructor runs on  *)
(* the result; words: a string literal among its values.                   *)
Shapes == {"guarded", "usage", "box", "cast", "class", "alloc", "words", "plain"}
Sites == [target : Targets, shape : Shapes]

ProgramType == [thin : [Targets -> Thin], body : [Targets -> Bodies],
                root : [Targets -> Targets], family : [Targets -> SUBSET Families],
                guess : [Targets -> Guesses], sites : [Methods -> Seq(Sites)]]

(* A body is read at the root of the thunks, and a root is its own root.   *)
(* The thin forwarders are looked for outside the lists.                   *)
Readable(p) ==
    \A t \in Targets :
        LET r == p.root[t] IN
        /\ p.root[r] = r /\ (p.body[t] = "inside" <=> p.body[r] = "inside")
        /\ p.thin[t] # None => p.family[t] \subseteq {"selector"}

ASSUME ProgramsAssumption == \A p \in Programs : p \in ProgramType /\ Readable(p)

ASSUME NamesAssumption == None \notin Methods

VARIABLES
    prog,        \* what this run works on
    phase,       \* "thin", "classify": one thread sets up; then the "pool"
    todo,        \* the frequent targets the set-up has still to look at
    role,        \* table(): a role or None
    nonEntry,    \* invalid_targets()
    words,       \* raise_messages(): whose literal, or None
    pc,          \* where a method's recovery is
    at,          \* the call site it is at
    texts        \* what has become of its call sites

vars == <<prog, phase, todo, role, nonEntry, words, pc, at, texts>>
setup == <<prog, phase, todo, nonEntry>>

Site(m) == prog.sites[m][at[m]]
Target(m) == Site(m).target

(* A call site is still a call, or it is gone: dropped, turned into a new  *)
(* or into a throw, replaced by the literal, the message or the exception  *)
(* it was given, or rendered under a name and cut to an arity.             *)
Call == [is |-> "call"]
Dropped == [is |-> "dropped"]
New == [is |-> "new"]
Replaced == [is |-> "replaced"]
Thrown(w) == [is |-> "throw", words |-> w]
Named(r) == [is |-> "named", name |-> r]
Rendered(r, a) == [is |-> "rendered", name |-> r, cut |-> a]

Texts ==
    {Call, Dropped, New, Replaced} \cup {Thrown(w) : w \in Methods \cup {None}}
      \cup {Named(r) : r \in Roles \cup {None}}
      \cup {Rendered(r, a) : r, a \in Roles \cup {None}}

TypeOK ==
    /\ prog \in Programs
    /\ phase \in {"thin", "classify", "pool"}
    /\ todo \subseteq Targets
    /\ role \in [Targets -> Roles \cup {None}]
    /\ nonEntry \subseteq Targets
    /\ words \in [Targets -> Methods \cup {None}]
    /\ pc \in [Methods -> {"detect", "keys", "check", "note", "build", "throw", "render",
                           "done"}]
    /\ at \in [Methods -> Nat \ {0}]
    /\ texts \in [Methods -> Seq(Texts)]

Init ==
    /\ prog \in Programs
    /\ phase = "thin" /\ todo = Targets
    /\ role = prog.guess
    /\ nonEntry = {}
    /\ words = [t \in Targets |-> None]
    /\ pc = [m \in Methods |-> "detect"]
    /\ at = [m \in Methods |-> 1]
    /\ texts = [m \in Methods |-> [k \in 1 .. Len(prog.sites[m]) |-> Call]]

-----------------------------------------------------------------------------
(***************************************************************************)
(* The set-up, target by target in the order of how often they are called. *)
(***************************************************************************)
Note(t, r) == role' = [role EXCEPT ![t] = r]

ThinForwarder(t) ==
    /\ phase = "thin" /\ t \in todo
    /\ IF prog.thin[t] = None THEN UNCHANGED role ELSE Note(t, prog.thin[t])
    /\ todo' = todo \ {t}
    /\ UNCHANGED <<prog, phase, nonEntry, words, pc, at, texts>>

SecondLook ==
    /\ phase = "thin" /\ todo = {}
    /\ phase' = "classify" /\ todo' = Targets
    /\ UNCHANGED <<prog, role, nonEntry, words, pc, at, texts>>

MarkNonEntry(ts) ==
    /\ nonEntry' = nonEntry \cup ts
    /\ role' = [t \in Targets |-> IF t \in ts THEN None ELSE role[t]]

(* classify_bodies of one target: a proven raise is left alone, because    *)
(* reading a wrapper's body runs into its neighbour's.                     *)
ClassifiesRaisesToo(t) ==                                           \* mutant
    \/ /\ prog.body[t] = "inside"
       /\ MarkNonEntry({t, prog.root[t]})
    \/ /\ prog.body[t] \in Roles
       /\ Note(t, prog.body[t])
       /\ UNCHANGED nonEntry
    \/ /\ prog.body[t] \in {None, "import"}
       /\ UNCHANGED <<role, nonEntry>>

Reclassified(t) ==
    \/ /\ role[t] = "raise"
       /\ UNCHANGED <<role, nonEntry>>
    \/ /\ role[t] # "raise"
       /\ prog.body[t] = "inside"
       /\ MarkNonEntry({t, prog.root[t]})
    \/ /\ role[t] # "raise"
       /\ prog.body[t] \in Roles
       /\ Note(t, prog.body[t])
       /\ UNCHANGED nonEntry
    \/ /\ role[t] # "raise"
       /\ prog.body[t] \in {None, "import"}
       /\ UNCHANGED <<role, nonEntry>>

ClassifyBody(t) ==
    /\ phase = "classify" /\ t \in todo
    /\ Reclassified(t)
    /\ todo' = todo \ {t}
    /\ UNCHANGED <<prog, phase, words, pc, at, texts>>

StartPool ==
    /\ phase = "classify" /\ todo = {}
    /\ phase' = "pool"
    /\ UNCHANGED <<prog, todo, role, nonEntry, words, pc, at, texts>>

-----------------------------------------------------------------------------
(***************************************************************************)
(* The recovery of a method goes over its call sites five times.           *)
(***************************************************************************)
At(m, step) == phase = "pool" /\ pc[m] = step /\ at[m] <= Len(prog.sites[m])

NextStep(m) ==
    CASE pc[m] = "detect" -> "keys"
      [] pc[m] = "keys" -> "build"
      [] pc[m] = "build" -> "throw"
      [] pc[m] = "throw" -> "render"
      [] pc[m] = "render" -> "done"

NextPass(m) ==
    /\ phase = "pool" /\ pc[m] \notin {"check", "note", "done"}
    /\ at[m] = Len(prog.sites[m]) + 1
    /\ pc' = [pc EXCEPT ![m] = NextStep(m)]
    /\ at' = [at EXCEPT ![m] = 1]
    /\ UNCHANGED <<prog, phase, todo, role, nonEntry, words, texts>>

Move(m) == at' = [at EXCEPT ![m] = @ + 1]
Becomes(m, x) == texts' = [texts EXCEPT ![m][at[m]] = x]
Is(m) == texts[m][at[m]].is

(* detect: a guarded call sets up a class, whatever is known of it.        *)
Detect(m) ==
    /\ At(m, "detect")
    /\ IF Site(m).shape = "guarded" THEN Note(Target(m), "class_init") ELSE UNCHANGED role
    /\ Move(m)
    /\ UNCHANGED <<setup, words, pc, texts>>

(* key_function_recovery takes a call by the first of its arms that fits:  *)
(* one of three shapes, of a function; then what the lists of the dump     *)
(* claim, whose last one notes a role again.                               *)
In(m, list) == list \in prog.family[Target(m)]

ShapesOfEverything(m) == Site(m).shape \in {"usage", "box", "cast"}    \* mutant
ShapeCounts(m) ==
    /\ Target(m) \notin nonEntry
    /\ Site(m).shape \in {"usage", "box", "cast"}

Allocates(m) ==
    /\ Target(m) \notin nonEntry
    /\ In(m, "object_new") \/ role[Target(m)] = "object_new" \/ Site(m).shape = "alloc"

Arm(m) ==
    IF ShapeCounts(m) /\ ~(Site(m).shape = "usage" /\ Allocates(m)) THEN "shape"
    ELSE IF In(m, "metadata_init") /\ ~Allocates(m) THEN "metadata_init"
    ELSE IF In(m, "selector") THEN "selector"
    ELSE IF In(m, "raise_exception") THEN "raise_exception"
    ELSE IF Allocates(m) THEN "object_new"
    ELSE IF In(m, "box_fn") THEN "box_fn"
    ELSE "none"

ShapeAsRole(m) == Site(m).shape                                     \* mutant
RoleShown(m) ==
    CASE ~ShapeCounts(m) -> "box"
      [] ShapeCounts(m) /\ Site(m).shape = "usage" -> "metadata_init"
      [] ShapeCounts(m) /\ Site(m).shape = "box" -> "box"
      [] ShapeCounts(m) /\ Site(m).shape = "cast" -> "is_inst"

(* Bookkeeping is dropped unless its result is used.                       *)
DropBookkeeping(m) ==
    /\ At(m, "keys")
    /\ Arm(m) = "metadata_init" /\ Site(m).shape # "alloc"
    /\ Becomes(m, Dropped)
    /\ Move(m)
    /\ UNCHANGED <<setup, role, words, pc>>

(* A string is made from the literal that was moved last, if it was one.   *)
MakeString(m) ==
    /\ At(m, "keys")
    /\ In(m, "string_new") /\ Arm(m) \notin {"shape", "metadata_init"}
    /\ Becomes(m, Replaced)
    /\ Move(m)
    /\ UNCHANGED <<setup, role, words, pc>>

SendMessage(m) ==
    /\ At(m, "keys") /\ Arm(m) = "selector"
    /\ Becomes(m, Replaced)
    /\ Move(m)
    /\ UNCHANGED <<setup, role, words, pc>>

(* The literal the exception was made from, if there is one, is noted.     *)
ThrowException(m) ==
    /\ At(m, "keys") /\ Arm(m) = "raise_exception"
    /\ words' \in {words, [words EXCEPT ![Target(m)] = m]}
    /\ Becomes(m, Replaced)
    /\ Move(m)
    /\ UNCHANGED <<setup, role, pc>>

(* Without a class the call is an allocation if a constructor follows.     *)
Allocation(m) ==
    /\ At(m, "keys") /\ Arm(m) = "object_new"
    /\ Becomes(m, New)
    /\ Move(m)
    /\ UNCHANGED <<setup, role, words, pc>>

RoleSeen(m) ==
    /\ At(m, "keys")
    /\ Arm(m) \in {"shape", "box_fn"}
    /\ pc' = [pc EXCEPT ![m] = "check"]
    /\ UNCHANGED <<setup, role, words, at, texts>>

StaysACall(m) ==
    \/ Arm(m) = "none"
    \/ Arm(m) = "metadata_init" /\ Site(m).shape # "usage"
    \/ Arm(m) = "object_new" /\ Site(m).shape \in {"usage", "words", "plain"}

NothingSeen(m) ==
    /\ At(m, "keys")
    /\ StaysACall(m)
    /\ Move(m)
    /\ UNCHANGED <<setup, role, words, pc, texts>>

(* note_shape looks the role up under one lock and sets it under another.  *)
(* A call that only decodes a metadata slot is dropped either way.         *)
Refused(m) == role[Target(m)] = "raise"

Noted(m) ==
    /\ pc' = [pc EXCEPT ![m] = "keys"]
    /\ Move(m)
    /\ IF ShapeCounts(m) /\ Site(m).shape = "usage" THEN Becomes(m, Dropped) ELSE UNCHANGED texts
    /\ UNCHANGED <<setup, words>>

NoteRefused(m) == At(m, "check") /\ Refused(m) /\ Noted(m) /\ UNCHANGED role

NoteAllowed(m) ==
    /\ At(m, "check") /\ ~Refused(m)
    /\ pc' = [pc EXCEPT ![m] = "note"]
    /\ UNCHANGED <<setup, role, words, at, texts>>

FirstShapeStays(m) == IF role[Target(m)] = None THEN RoleShown(m) ELSE role[Target(m)] \* mutant
RoleAfter(m) == RoleShown(m)

NoteShape(m) == At(m, "note") /\ Note(Target(m), RoleAfter(m)) /\ Noted(m)

(* Building the statement of a raise remembers its literal ...             *)
Build(m) ==
    /\ At(m, "build")
    /\ words' = IF /\ Is(m) = "call" /\ role[Target(m)] = "raise" /\ Site(m).shape = "words"
                THEN [words EXCEPT ![Target(m)] = m] ELSE words
    /\ Move(m)
    /\ UNCHANGED <<setup, role, pc, texts>>

(* ... which the clean-up puts into the exception it throws instead.       *)
Throw(m) ==
    /\ At(m, "throw")
    /\ IF Is(m) = "call" /\ role[Target(m)] = "raise"
       THEN Becomes(m, Thrown(words[Target(m)])) ELSE UNCHANGED texts
    /\ Move(m)
    /\ UNCHANGED <<setup, role, words, pc>>

(* display_name and arg_arity are two lookups. *)
RenderName(m) ==
    /\ At(m, "render") /\ Is(m) = "call"
    /\ Becomes(m, Named(role[Target(m)]))
    /\ UNCHANGED <<setup, role, words, pc, at>>

RenderArguments(m) ==
    /\ At(m, "render") /\ Is(m) = "named"
    /\ Becomes(m, Rendered(texts[m][at[m]].name, role[Target(m)]))
    /\ Move(m)
    /\ UNCHANGED <<setup, role, words, pc>>

RenderOther(m) ==
    /\ At(m, "render") /\ Is(m) \in {"dropped", "new", "replaced", "throw"}
    /\ Move(m)
    /\ UNCHANGED <<setup, role, words, pc, texts>>

Recover(m) ==
    \/ NextPass(m) \/ Detect(m)
    \/ DropBookkeeping(m) \/ MakeString(m) \/ SendMessage(m) \/ ThrowException(m)
    \/ Allocation(m) \/ RoleSeen(m) \/ NothingSeen(m)
    \/ NoteRefused(m) \/ NoteAllowed(m) \/ NoteShape(m)
    \/ Build(m) \/ Throw(m) \/ RenderName(m) \/ RenderArguments(m) \/ RenderOther(m)

Next ==
    \/ \E t \in Targets : ThinForwarder(t) \/ ClassifyBody(t)
    \/ SecondLook \/ StartPool
    \/ \E m \in Methods : Recover(m)

Spec == Init /\ [][Next]_vars

-----------------------------------------------------------------------------
Places(m) == 1 .. Len(prog.sites[m])
GuardedSomewhere(t) ==
    \E m \in Methods : \E k \in Places(m) : prog.sites[m][k] = [target |-> t, shape |-> "guarded"]

(* "A role must never be re-attached to these by a later call-site shape   *)
(* heuristic": two of the heuristics do it all the same, the static-init   *)
(* guard and the list of box functions, and they alone; no other shape and *)
(* no other list gives an address that is no function a role.  (That none  *)
(* is ever re-attached is NeverReattached.)                                *)
ReattachedByTwo ==
    phase = "pool" => \A t \in nonEntry :
        \/ role[t] = None
        \/ role[t] = "class_init" /\ GuardedSomewhere(t)
        \/ role[t] = "box" /\ "box_fn" \in prog.family[t]

NeverReattached == phase = "pool" => \A t \in nonEntry : role[t] = None

(* A wrapper proven never to return keeps that role through the reading of *)
(* its body and through every shape its calls have, whoever notes them     *)
(* when: check and note of note_shape are two sections of the lock.        *)
ProvenRaisesStay ==
    \A t \in Targets \ nonEntry :
        /\ prog.thin[t] = "raise" /\ ~GuardedSomewhere(t)
        /\ phase = "thin" => t \notin todo
        => role[t] = "raise"

(* When all calls of a target are written in one way, every method renders *)
(* them by the role that way shows, however the methods interleave and     *)
(* whatever the set-up took the target for, unless that was a raise or no  *)
(* function at all.  A box function that is only called under a guard      *)
(* shows two roles: what is noted of it is the guard's or the list's, and  *)
(* the name and the arity of one call may be of one each.                  *)
AllWritten(t, shape) ==
    \A m \in Methods : \A k \in Places(m) :
        prog.sites[m][k].target = t => prog.sites[m][k].shape = shape

Shown == [guarded |-> "class_init", box |-> "box", cast |-> "is_inst"]

RolesShown(s) ==
    {Shown[s.shape]}
      \cup {r \in {"box"} : s.shape = "guarded" /\ "box_fn" \in prog.family[s.target]}

AgreedSitesReadTheirRole ==
    \A m \in Methods : \A k \in Places(m) :
        LET s == prog.sites[m][k] IN
        /\ texts[m][k].is = "rendered"
        /\ s.shape \in DOMAIN Shown /\ AllWritten(s.target, s.shape)
        /\ s.target \notin nonEntry /\ prog.thin[s.target] # "raise"
        => texts[m][k] \in {Rendered(r, a) : r, a \in RolesShown(s)}

(* A method that is the only one to call a raise throws its own words.     *)
AloneThrowsItsWords ==
    \A m \in Methods : \A k \in Places(m) :
        LET s == prog.sites[m][k] IN
        /\ texts[m][k].is = "throw" /\ s.shape = "words"
        /\ \A n \in Methods \ {m} : \A j \in Places(n) : prog.sites[n][j].target # s.target
        => texts[m][k].words = m

(* "Look up the extracted message, or use default": a throw says what its  *)
(* own call said, and the default when it said nothing.                    *)
ThrowsWhatItSaid ==
    \A m \in Methods : \A k \in Places(m) :
        texts[m][k].is = "throw" =>
            texts[m][k].words = IF prog.sites[m][k].shape = "words" THEN m ELSE None

(* "Anything unknown keeps the full dump": a call under an address is not  *)
(* cut to the arity of a role.                                             *)
UnknownKeepsTheDump ==
    \A m \in Methods : \A k \in Places(m) :
        texts[m][k].is = "rendered" /\ texts[m][k].name = None => texts[m][k].cut = None
=============================================================================
