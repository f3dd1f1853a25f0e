------------------------- MODULE HelperRolesProofs -------------------------
(***************************************************************************)
(* What the role table never loses, for every program, any number of       *)
(* targets and any number of methods recovered at once.                    *)
(***************************************************************************)
EXTENDS HelperRoles, SequenceTheorems, TLAPS

(* The methods wait for the set-up; a role about to be noted is one its    *)
(* shape shows, for a target that is a function, or that of the box list,  *)
(* for one that is in it; and the target is no proven raise.               *)
Unguarded(t) == prog.thin[t] = "raise" /\ ~GuardedSomewhere(t)

PlacesInv ==
    /\ prog \in Programs
    /\ at \in [Methods -> Nat \ {0}]
    /\ pc \in [Methods -> {"detect", "keys", "check", "note", "build", "throw", "render",
                           "done"}]
    /\ phase \in {"thin", "classify", "pool"}
    /\ phase # "pool" => \A m \in Methods : pc[m] = "detect"

TableInv ==
    /\ role \in [Targets -> Roles \cup {None}]
    /\ nonEntry \subseteq Targets
    /\ phase = "thin" => nonEntry = {}
    /\ \A t \in nonEntry : prog.body[t] = "inside"
    /\ phase # "pool" => \A t \in nonEntry : role[t] = None

PendingInv ==
    \A m \in Methods : pc[m] \in {"check", "note"} =>
        /\ at[m] <= Len(prog.sites[m])
        /\ ShapeCounts(m) \/ In(m, "box_fn")
        /\ pc[m] = "note" /\ Target(m) \notin nonEntry => ~Unguarded(Target(m))

RInv == PlacesInv /\ TableInv /\ PendingInv /\ ReattachedByTwo /\ ProvenRaisesStay

LEMMA ProgramShape ==
    ASSUME NEW p \in Programs
    PROVE  /\ p.thin \in [Targets -> Thin] /\ p.body \in [Targets -> Bodies]
           /\ p.root \in [Targets -> Targets]
           /\ p.sites \in [Methods -> Seq(Sites)] /\ p.guess \in [Targets -> Guesses]
           /\ \A t \in Targets : p.body[t] = "inside" => p.body[p.root[t]] = "inside"
BY ProgramsAssumption DEF ProgramType, Readable

LEMMA SiteShape ==
    ASSUME PlacesInv, NEW m \in Methods, at[m] <= Len(prog.sites[m])
    PROVE  /\ at[m] \in Places(m)
           /\ Site(m) \in Sites /\ Target(m) \in Targets
           /\ Site(m).shape = "guarded" => GuardedSomewhere(Target(m))
<1>1. prog.sites[m] \in Seq(Sites) /\ at[m] \in Nat \ {0}
    BY ProgramShape DEF PlacesInv
<1>2. at[m] \in 1 .. Len(prog.sites[m])
    BY <1>1
<1>3. prog.sites[m][at[m]] \in Sites
    BY <1>1, <1>2
<1>4. Site(m) = [target |-> Site(m).target, shape |-> Site(m).shape]
    BY <1>3 DEF Site, Sites
<1> QED BY <1>2, <1>3, <1>4 DEF Places, Site, Target, Sites, GuardedSomewhere

LEMMA Guessed == ASSUME NEW g \in Guesses PROVE g \in Roles \cup {None} /\ g # "raise"
BY DEF Guesses, Roles, None

LEMMA RInit == Init => RInv
BY ProgramShape, Guessed
   DEF Init, RInv, PlacesInv, TableInv, PendingInv, ReattachedByTwo, ProvenRaisesStay

-----------------------------------------------------------------------------
LEMMA PlacesStep == PlacesInv /\ [Next]_vars => PlacesInv'
<1> SUFFICES ASSUME PlacesInv, [Next]_vars PROVE PlacesInv'
    OBVIOUS
<1> USE DEF PlacesInv
<1>1. ASSUME NEW t \in Targets, ThinForwarder(t) \/ ClassifyBody(t) PROVE PlacesInv'
    BY <1>1 DEF ThinForwarder, ClassifyBody
<1>2. CASE SecondLook \/ StartPool
    BY <1>2 DEF SecondLook, StartPool
<1>3. ASSUME NEW m \in Methods, Recover(m) PROVE PlacesInv'
    <2>1. phase = "pool" /\ UNCHANGED <<prog, phase>>
        BY <1>3 DEF Recover, NextPass, Detect, DropBookkeeping, MakeString, SendMessage,
                    ThrowException, Allocation, RoleSeen, NothingSeen, NoteRefused,
                    NoteAllowed, NoteShape, Noted, Build, Throw, RenderName, RenderArguments,
                    RenderOther, At, setup
    <2>2. at' = at \/ at' = [at EXCEPT ![m] = 1] \/ at' = [at EXCEPT ![m] = @ + 1]
        BY <1>3 DEF Recover, NextPass, Detect, DropBookkeeping, MakeString, SendMessage,
                    ThrowException, Allocation, RoleSeen, NothingSeen, NoteRefused,
                    NoteAllowed, NoteShape, Noted, Build, Throw, RenderName, RenderArguments,
                    RenderOther, Move
    <2>3. at' \in [Methods -> Nat \ {0}]
        BY <2>2
    <2>4. \/ pc' = pc
          \/ pc' = [pc EXCEPT ![m] = "keys"] \/ pc' = [pc EXCEPT ![m] = "check"]
          \/ pc' = [pc EXCEPT ![m] = "note"]
          \/ /\ pc[m] \notin {"check", "note", "done"}
             /\ pc' = [pc EXCEPT ![m] = NextStep(m)]
        BY <1>3 DEF Recover, NextPass, Detect, DropBookkeeping, MakeString, SendMessage,
                    ThrowException, Allocation, RoleSeen, NothingSeen, NoteRefused,
                    NoteAllowed, NoteShape, Noted, Build, Throw, RenderName, RenderArguments,
                    RenderOther
    <2>5. pc[m] \notin {"check", "note", "done"} =>
              NextStep(m) \in {"keys", "build", "throw", "render", "done"}
        BY DEF NextStep
    <2> QED BY <2>1, <2>3, <2>4, <2>5
<1>4. CASE UNCHANGED vars
    BY <1>4 DEF vars
<1> QED BY <1>1, <1>2, <1>3, <1>4 DEF Next

(* What a step of a method does to the table: nothing, or it notes a role  *)
(* for the target of its call, either of a guarded call or one it has      *)
(* checked.                                                                *)
LEMMA MethodStep ==
    ASSUME RInv, NEW m \in Methods, Recover(m)
    PROVE  /\ phase = "pool" /\ UNCHANGED <<prog, phase, todo, nonEntry>>
           /\ \A t \in Targets \ {Target(m)} : role'[t] = role[t]
           /\ \/ role' = role
              \/ /\ at[m] <= Len(prog.sites[m]) /\ Site(m).shape = "guarded"
                 /\ role' = [role EXCEPT ![Target(m)] = "class_init"]
              \/ /\ pc[m] = "note"
                 /\ role' = [role EXCEPT ![Target(m)] = RoleAfter(m)]
<1>1. phase = "pool" /\ UNCHANGED <<prog, phase, todo, nonEntry>>
    BY DEF Recover, NextPass, Detect, DropBookkeeping, MakeString, SendMessage, ThrowException,
           Allocation, RoleSeen, NothingSeen, NoteRefused, NoteAllowed, NoteShape, Noted,
           Build, Throw, RenderName, RenderArguments, RenderOther, At, setup
<1>2. \/ role' = role
      \/ /\ at[m] <= Len(prog.sites[m]) /\ Site(m).shape = "guarded"
         /\ role' = [role EXCEPT ![Target(m)] = "class_init"]
      \/ /\ pc[m] = "note"
         /\ role' = [role EXCEPT ![Target(m)] = RoleAfter(m)]
    BY DEF Recover, NextPass, Detect, DropBookkeeping, MakeString, SendMessage, ThrowException,
           Allocation, RoleSeen, NothingSeen, NoteRefused, NoteAllowed, NoteShape, Noted,
           Build, Throw, RenderName, RenderArguments, RenderOther, At, Note
<1>3. role \in [Targets -> Roles \cup {None}]
    BY DEF RInv, TableInv
<1>4. \A t \in Targets \ {Target(m)} : role'[t] = role[t]
    BY <1>2, <1>3
<1> QED BY <1>1, <1>2, <1>4

(* A checked role is one of the three, for a target that is a function, or *)
(* that of a box, for one of the box list.                                 *)
LEMMA NotedRole ==
    ASSUME RInv, NEW m \in Methods, pc[m] = "note"
    PROVE  /\ at[m] <= Len(prog.sites[m]) /\ Target(m) \in Targets
           /\ RoleAfter(m) \in Roles \ {"raise"}
           /\ Target(m) \notin nonEntry => ~Unguarded(Target(m))
           /\ Target(m) \in nonEntry => RoleAfter(m) = "box" /\ In(m, "box_fn")
<1>1. at[m] <= Len(prog.sites[m]) /\ (ShapeCounts(m) \/ In(m, "box_fn"))
    BY DEF RInv, PendingInv
<1>2. Target(m) \in Targets
    BY <1>1, SiteShape DEF RInv
<1>3. RoleAfter(m) \in Roles \ {"raise"}
    BY <1>1 DEF RoleAfter, RoleShown, ShapeCounts, Roles
<1>4. ~ShapeCounts(m) => RoleAfter(m) = "box"
    BY DEF RoleAfter, RoleShown
<1> QED BY <1>1, <1>2, <1>3, <1>4 DEF RInv, PendingInv, ShapeCounts

LEMMA TableStep == RInv /\ [Next]_vars => TableInv'
<1> SUFFICES ASSUME RInv, [Next]_vars PROVE TableInv'
    OBVIOUS
<1> USE DEF TableInv
<1>0. /\ TableInv /\ prog \in Programs
    BY DEF RInv, PlacesInv
<1>1. ASSUME NEW t \in Targets, ThinForwarder(t) PROVE TableInv'
    <2>1. prog.thin[t] \in Thin
        BY <1>0, ProgramShape
    <2> QED BY <1>0, <1>1, <2>1 DEF ThinForwarder, Note, Thin, Roles
<1>2. ASSUME NEW t \in Targets, ClassifyBody(t) PROVE TableInv'
    <2>1. prog.root[t] \in Targets /\ (prog.body[t] = "inside" => prog.body[prog.root[t]] = "inside")
        BY <1>0, ProgramShape
    <2>2. phase = "classify" /\ UNCHANGED <<prog, phase>>
        BY <1>2 DEF ClassifyBody
    <2>3. CASE prog.body[t] = "inside" /\ MarkNonEntry({t, prog.root[t]})
        BY <1>0, <2>1, <2>2, <2>3 DEF MarkNonEntry
    <2>4. CASE prog.body[t] \in Roles /\ Note(t, prog.body[t]) /\ UNCHANGED nonEntry
        <3>1. t \notin nonEntry
            BY <1>0, <2>4 DEF Roles
        <3> QED BY <1>0, <2>2, <2>4, <3>1 DEF Note
    <2>5. CASE UNCHANGED <<role, nonEntry>>
        BY <1>0, <2>2, <2>5
    <2> QED BY <1>2, <2>3, <2>4, <2>5 DEF ClassifyBody, Reclassified
<1>3. CASE SecondLook \/ StartPool
    BY <1>0, <1>3 DEF SecondLook, StartPool
<1>4. ASSUME NEW m \in Methods, Recover(m) PROVE TableInv'
    <2>1. role' \in [Targets -> Roles \cup {None}]
        BY <1>0, <1>4, MethodStep, NotedRole DEF Roles
    <2> QED BY <1>0, <1>4, <2>1, MethodStep
<1>5. CASE UNCHANGED vars
    BY <1>0, <1>5 DEF vars
<1> QED BY <1>1, <1>2, <1>3, <1>4, <1>5 DEF Next

-----------------------------------------------------------------------------
LEMMA ProgKept == [Next]_vars => prog' = prog
<1> SUFFICES ASSUME [Next]_vars PROVE prog' = prog
    OBVIOUS
<1>1. CASE UNCHANGED vars
    BY <1>1 DEF vars
<1>2. ASSUME NEW t \in Targets, ThinForwarder(t) \/ ClassifyBody(t) PROVE prog' = prog
    BY <1>2 DEF ThinForwarder, ClassifyBody
<1>3. ASSUME NEW m \in Methods, Recover(m) PROVE prog' = prog
    BY <1>3 DEF Recover, NextPass, Detect, DropBookkeeping, MakeString, SendMessage,
                ThrowException, Allocation, RoleSeen, NothingSeen, NoteRefused, NoteAllowed,
                NoteShape, Noted, Build, Throw, RenderName, RenderArguments, RenderOther, setup
<1>4. CASE SecondLook \/ StartPool
    BY <1>4 DEF SecondLook, StartPool
<1> QED BY <1>1, <1>2, <1>3, <1>4 DEF Next

LEMMA PendingStep == RInv /\ [Next]_vars => PendingInv'
<1> SUFFICES ASSUME RInv, [Next]_vars PROVE PendingInv'
    OBVIOUS
<1>0. prog' = prog /\ PendingInv /\ PlacesInv
    BY ProgKept DEF RInv
<1>1. phase # "pool" => \A m \in Methods : pc[m] = "detect"
    BY <1>0 DEF PlacesInv
<1>2. ASSUME NEW t \in Targets, ThinForwarder(t) \/ ClassifyBody(t) PROVE PendingInv'
    BY <1>1, <1>2 DEF PendingInv, ThinForwarder, ClassifyBody
<1>3. CASE SecondLook \/ StartPool
    BY <1>1, <1>3 DEF PendingInv, SecondLook, StartPool
<1>4. ASSUME NEW m \in Methods, Recover(m) PROVE PendingInv'
    <2>1. nonEntry' = nonEntry
        BY <1>4, MethodStep
    <2>2. \A x \in Methods \ {m} : pc'[x] = pc[x] /\ at'[x] = at[x]
        BY <1>0, <1>4
           DEF PlacesInv, Recover, NextPass, Detect, DropBookkeeping, MakeString, SendMessage,
               ThrowException, Allocation, RoleSeen, NothingSeen, NoteRefused, NoteAllowed,
               NoteShape, Noted, Build, Throw, RenderName, RenderArguments, RenderOther, Move
    <2>3. ASSUME NEW x \in Methods \ {m}, pc'[x] \in {"check", "note"}
          PROVE  /\ at'[x] <= Len(prog'.sites[x])
                 /\ ShapeCounts(x)' \/ In(x, "box_fn")'
                 /\ pc'[x] = "note" /\ Target(x)' \notin nonEntry' => ~Unguarded(Target(x))'
        <3>1. UNCHANGED <<pc[x], at[x], prog, nonEntry>>
            BY <1>0, <2>1, <2>2
        <3>2. /\ Site(x)' = Site(x) /\ Target(x)' = Target(x)
              /\ (ShapeCounts(x)' <=> ShapeCounts(x)) /\ (In(x, "box_fn")' <=> In(x, "box_fn"))
            BY <3>1 DEF Site, Target, ShapeCounts, In
        <3>3. Unguarded(Target(x))' <=> Unguarded(Target(x))
            BY <3>1, <3>2 DEF Unguarded, GuardedSomewhere, Places
        <3> QED BY <1>0, <2>3, <3>1, <3>2, <3>3 DEF PendingInv
    <2>4. ASSUME pc'[m] \in {"check", "note"}
          PROVE  /\ at'[m] <= Len(prog'.sites[m])
                 /\ ShapeCounts(m)' \/ In(m, "box_fn")'
                 /\ pc'[m] = "note" /\ Target(m)' \notin nonEntry' => ~Unguarded(Target(m))'
        <3>1. RoleSeen(m) \/ NoteAllowed(m)
            <4>1. NextStep(m) \notin {"check", "note"} \/ pc[m] \in {"check", "note", "done"}
                BY <1>0 DEF NextStep, PlacesInv
            <4> QED BY <1>0, <1>4, <2>4, <4>1
                   DEF PlacesInv, Recover, NextPass, Detect, DropBookkeeping, MakeString,
                       SendMessage, ThrowException, Allocation, RoleSeen, NothingSeen,
                       NoteRefused, NoteAllowed, NoteShape, Noted, Build, Throw, RenderName,
                       RenderArguments, RenderOther, At
        <3>2. UNCHANGED <<at, prog, nonEntry>> /\ at[m] <= Len(prog.sites[m])
            BY <1>0, <2>1, <3>1 DEF RoleSeen, NoteAllowed, At
        <3>3. /\ Site(m)' = Site(m) /\ Target(m)' = Target(m)
              /\ (ShapeCounts(m)' <=> ShapeCounts(m)) /\ (In(m, "box_fn")' <=> In(m, "box_fn"))
            BY <3>2 DEF Site, Target, ShapeCounts, In
        <3>4. ShapeCounts(m) \/ In(m, "box_fn")
            BY <1>0, <3>1 DEF RoleSeen, NoteAllowed, At, PendingInv, Arm
        <3>5. pc'[m] = "note" => role[Target(m)] # "raise"
            BY <1>0, <3>1 DEF PlacesInv, RoleSeen, NoteAllowed, Refused
        <3>6. Target(m) \in Targets /\ phase = "pool"
            BY <3>1, <3>2, SiteShape, <1>0 DEF RoleSeen, NoteAllowed, At
        <3>7. role[Target(m)] # "raise" /\ Target(m) \notin nonEntry => ~Unguarded(Target(m))
            BY <3>6 DEF RInv, ProvenRaisesStay, Unguarded
        <3>8. Unguarded(Target(m))' <=> Unguarded(Target(m))
            BY <3>2, <3>3 DEF Unguarded, GuardedSomewhere, Places
        <3> QED BY <3>2, <3>3, <3>4, <3>5, <3>7, <3>8
    <2> QED BY <2>3, <2>4 DEF PendingInv
<1>5. CASE UNCHANGED vars
    BY <1>0, <1>5 DEF vars, PendingInv, ShapeCounts, In, Target, Site, Unguarded, GuardedSomewhere, Places
<1> QED BY <1>2, <1>3, <1>4, <1>5 DEF Next

LEMMA GuardsKept == [Next]_vars => \A t : GuardedSomewhere(t)' <=> GuardedSomewhere(t)
BY ProgKept DEF GuardedSomewhere, Places

LEMMA ReattachedStep == RInv /\ [Next]_vars => ReattachedByTwo'
<1> SUFFICES ASSUME RInv, [Next]_vars PROVE ReattachedByTwo'
    OBVIOUS
<1>0. ReattachedByTwo /\ TableInv /\ PlacesInv
    BY DEF RInv
<1>b. prog' = prog
    BY ProgKept
<1>1. ASSUME NEW t \in Targets, ThinForwarder(t) \/ ClassifyBody(t) PROVE ReattachedByTwo'
    BY <1>1 DEF ThinForwarder, ClassifyBody, ReattachedByTwo
<1>2. CASE SecondLook
    BY <1>2 DEF SecondLook, ReattachedByTwo
<1>3. CASE StartPool
    BY <1>0, <1>3 DEF StartPool, ReattachedByTwo, TableInv
<1>4. ASSUME NEW m \in Methods, Recover(m) PROVE ReattachedByTwo'
    <2>1. /\ phase = "pool" /\ nonEntry' = nonEntry
          /\ \A t \in Targets \ {Target(m)} : role'[t] = role[t]
        BY <1>4, MethodStep
    <2> SUFFICES ASSUME NEW t \in nonEntry, role'[t] # None
                 PROVE  \/ role'[t] = "class_init" /\ GuardedSomewhere(t)
                        \/ role'[t] = "box" /\ "box_fn" \in prog.family[t]
        BY <1>b, <2>1, GuardsKept DEF ReattachedByTwo
    <2>2. t \in Targets
        BY <1>0 DEF TableInv
    <2>3. CASE role'[t] = role[t]
        BY <1>0, <2>1, <2>3 DEF ReattachedByTwo
    <2>4. CASE role'[t] # role[t]
        <3>1. t = Target(m)
            BY <2>1, <2>2, <2>4
        <3>2. CASE pc[m] = "note" /\ role' = [role EXCEPT ![Target(m)] = RoleAfter(m)]
            BY <1>0, <2>2, <3>1, <3>2, NotedRole DEF TableInv, In
        <3>3. CASE /\ at[m] <= Len(prog.sites[m]) /\ Site(m).shape = "guarded"
                   /\ role' = [role EXCEPT ![Target(m)] = "class_init"]
            BY <1>0, <2>2, <3>1, <3>3, SiteShape DEF TableInv
        <3> QED BY <1>4, <2>4, <3>2, <3>3, MethodStep
    <2> QED BY <2>3, <2>4
<1>5. CASE UNCHANGED vars
    BY <1>0, <1>b, <1>5, GuardsKept DEF vars, ReattachedByTwo
<1> QED BY <1>1, <1>2, <1>3, <1>4, <1>5 DEF Next

LEMMA RaisesStep == RInv /\ [Next]_vars => ProvenRaisesStay'
<1> SUFFICES ASSUME RInv, [Next]_vars PROVE ProvenRaisesStay'
    OBVIOUS
<1>a. \A t \in Targets : Unguarded(t)' <=> Unguarded(t)
    BY ProgKept, GuardsKept DEF Unguarded
<1> SUFFICES ASSUME NEW t \in Targets \ nonEntry', Unguarded(t),
                    phase' = "thin" => t \notin todo'
             PROVE  role'[t] = "raise"
    BY <1>a DEF ProvenRaisesStay, Unguarded
<1>0. /\ TableInv /\ PlacesInv
      /\ t \notin nonEntry /\ (phase = "thin" => t \notin todo) => role[t] = "raise"
    BY DEF RInv, ProvenRaisesStay, Unguarded
<1>1. ASSUME NEW x \in Targets, ThinForwarder(x) PROVE role'[t] = "raise"
    <2>1. CASE x = t
        BY <1>0, <1>1, <2>1 DEF ThinForwarder, Note, TableInv, Unguarded, None
    <2>2. CASE x # t
        <3>1. t \notin nonEntry /\ t \notin todo
            BY <1>1, <2>2 DEF ThinForwarder
        <3>2. role[t] = "raise"
            BY <1>0, <3>1
        <3> QED BY <1>0, <1>1, <2>2, <3>2 DEF ThinForwarder, Note, TableInv
    <2> QED BY <2>1, <2>2
<1>2. ASSUME NEW x \in Targets, ClassifyBody(x) PROVE role'[t] = "raise"
    <2>1. phase = "classify" /\ Reclassified(x)
        BY <1>2 DEF ClassifyBody
    <2>2. t \notin nonEntry
        BY <2>1 DEF Reclassified, MarkNonEntry
    <2>3. role[t] = "raise"
        BY <1>0, <2>1, <2>2
    <2> QED BY <1>0, <2>1, <2>3 DEF Reclassified, MarkNonEntry, Note, TableInv
<1>3. CASE SecondLook \/ StartPool
    BY <1>0, <1>3 DEF SecondLook, StartPool, TableInv
<1>4. ASSUME NEW m \in Methods, Recover(m) PROVE role'[t] = "raise"
    <2>1. t \notin nonEntry /\ phase = "pool"
        BY <1>4, MethodStep
    <2>2. role[t] = "raise"
        BY <1>0, <2>1
    <2>3. CASE t # Target(m)
        BY <1>4, <2>2, <2>3, MethodStep
    <2>4. CASE t = Target(m)
        <3>1. ~(at[m] <= Len(prog.sites[m]) /\ Site(m).shape = "guarded")
            BY <1>0, <2>4, SiteShape DEF Unguarded
        <3>2. pc[m] # "note"
            BY <2>1, <2>4, NotedRole
        <3> QED BY <1>4, <2>2, <3>1, <3>2, MethodStep
    <2> QED BY <2>3, <2>4
<1>5. CASE UNCHANGED vars
    BY <1>0, <1>5 DEF vars
<1> QED BY <1>1, <1>2, <1>3, <1>4, <1>5 DEF Next

LEMMA RStep == RInv /\ [Next]_vars => RInv'
BY PlacesStep, TableStep, PendingStep, ReattachedStep, RaisesStep DEF RInv

-----------------------------------------------------------------------------
(* An address proven to be no function gets no role again but from a       *)
(* static-init guard or from the list of the box functions, however many   *)
(* methods call it at once.                                                *)
THEOREM ReattachedByTwoAlways == Spec => []ReattachedByTwo
<1>1. RInv => ReattachedByTwo
    BY DEF RInv
<1> QED BY <1>1, RInit, RStep, PTL DEF Spec

(* A wrapper proven never to return stays a raise, although note_shape     *)
(* looks and notes under two locks.                                        *)
THEOREM ProvenRaisesStayAlways == Spec => []ProvenRaisesStay
<1>1. RInv => ProvenRaisesStay
    BY DEF RInv
<1> QED BY <1>1, RInit, RStep, PTL DEF Spec

-----------------------------------------------------------------------------
(* A method has shown what its k-th site says about the target. *)
ShownBy(m, k) ==
    IF prog.sites[m][k].shape = "guarded" THEN pc[m] # "detect" \/ k < at[m]
    ELSE \/ pc[m] \in {"build", "throw", "render", "done"}
         \/ pc[m] \in {"keys", "check", "note"} /\ k < at[m]

(* All sites of the target are written as this one, which counts for it.   *)
Agreed(m, k) ==
    LET s == prog.sites[m][k] IN
    /\ s.shape \in DOMAIN Shown /\ AllWritten(s.target, s.shape)
    /\ s.target \notin nonEntry /\ prog.thin[s.target] # "raise"

RolesOf(m, k) == RolesShown(prog.sites[m][k])

NamedBy(x, rs) == \E r \in rs : x = Named(r)
RenderedBy(x, rs) == \E r, a \in rs : x = Rendered(r, a)

TextsInv ==
    /\ phase # "pool" => \A m \in Methods : at[m] = 1
    /\ todo \subseteq Targets
    /\ words \in [Targets -> Methods \cup {None}]
    /\ texts \in [Methods -> Seq(Texts)]
    /\ \A m \in Methods : Len(texts[m]) = Len(prog.sites[m])

RaisesProven == \A t \in Targets : role[t] = "raise" => prog.thin[t] = "raise"

AgreedInv ==
    \A m \in Methods : \A k \in Places(m) :
        /\ texts[m][k].is \in {"named", "rendered"} => pc[m] \in {"render", "done"}
        /\ Agreed(m, k) =>
              /\ ShownBy(m, k) => role[prog.sites[m][k].target] \in RolesOf(m, k)
              /\ texts[m][k].is = "named" => NamedBy(texts[m][k], RolesOf(m, k))
              /\ texts[m][k].is = "rendered" => RenderedBy(texts[m][k], RolesOf(m, k))

SInv == RInv /\ TextsInv /\ RaisesProven /\ AgreedInv

LEMMA SInit == Init => SInv
<1> SUFFICES ASSUME Init PROVE SInv
    OBVIOUS
<1>1. RInv
    BY RInit
<1>2. prog \in Programs /\ prog.sites \in [Methods -> Seq(Sites)]
    BY ProgramShape DEF Init
<1>3. \A m \in Methods : Len(prog.sites[m]) \in Nat
    BY <1>2
<1>4. ASSUME NEW m \in Methods
      PROVE  /\ texts[m] \in Seq(Texts) /\ Len(texts[m]) = Len(prog.sites[m])
             /\ \A k \in Places(m) : texts[m][k] = Call
    <2>1. texts[m] = [k \in 1 .. Len(prog.sites[m]) |-> Call]
        BY DEF Init
    <2>2. Call \in Texts
        BY DEF Texts
    <2> QED BY <1>3, <2>1, <2>2 DEF Places
<1>5. texts \in [Methods -> Seq(Texts)]
    BY <1>4 DEF Init
<1>6. TextsInv
    BY <1>4, <1>5 DEF Init, TextsInv
<1>7. RaisesProven
    BY ProgramShape, Guessed DEF Init, RaisesProven
<1>8. AgreedInv
    <2> SUFFICES ASSUME NEW m \in Methods, NEW k \in Places(m)
                 PROVE  /\ texts[m][k].is = "call"
                        /\ ~ShownBy(m, k)
        BY DEF AgreedInv
    <2>1. pc[m] = "detect" /\ at[m] = 1 /\ k \in Nat /\ ~(k < 1)
        BY <1>3 DEF Init, Places
    <2> QED BY <1>4, <2>1 DEF ShownBy, Call
<1> QED BY <1>1, <1>6, <1>7, <1>8 DEF SInv

(* A step of a method leaves the others where they are, and of its own     *)
(* texts it changes the one of the call it is at.                          *)
LEMMA OwnStep ==
    ASSUME SInv, NEW m \in Methods, Recover(m)
    PROVE  /\ UNCHANGED <<prog, phase, todo, nonEntry>> /\ phase = "pool"
           /\ \A x \in Methods \ {m} : pc'[x] = pc[x] /\ at'[x] = at[x] /\ texts'[x] = texts[x]
<1>1. UNCHANGED <<prog, phase, todo, nonEntry>> /\ phase = "pool"
    BY MethodStep DEF SInv
<1>2. \A x \in Methods \ {m} : pc'[x] = pc[x] /\ at'[x] = at[x]
    BY DEF SInv, RInv, PlacesInv, Recover, NextPass, Detect, DropBookkeeping, MakeString,
           SendMessage, ThrowException, Allocation, RoleSeen, NothingSeen, NoteRefused,
           NoteAllowed, NoteShape, Noted, Build, Throw, RenderName, RenderArguments,
           RenderOther, Move
<1>3. \A x \in Methods \ {m} : texts'[x] = texts[x]
    BY DEF SInv, TextsInv, Recover, NextPass, Detect, DropBookkeeping, MakeString, SendMessage,
           ThrowException, Allocation, RoleSeen, NothingSeen, NoteRefused, NoteAllowed,
           NoteShape, Noted, Build, Throw, RenderName, RenderArguments, RenderOther, Becomes
<1> QED BY <1>1, <1>2, <1>3

(* The text a step writes is one of a call. *)
LEMMA TextStep ==
    ASSUME SInv, NEW m \in Methods, Recover(m)
    PROVE  \/ texts' = texts
           \/ /\ at[m] \in Places(m)
              /\ \E x \in Texts : texts' = [texts EXCEPT ![m][at[m]] = x]
<1>1. /\ role \in [Targets -> Roles \cup {None}] /\ words \in [Targets -> Methods \cup {None}]
      /\ texts \in [Methods -> Seq(Texts)] /\ Len(texts[m]) = Len(prog.sites[m])
      /\ PlacesInv
    BY DEF SInv, RInv, TableInv, TextsInv
<1>2. CASE texts' = texts
    BY <1>2
<1>3. CASE texts' # texts
    <2>1. /\ at[m] <= Len(prog.sites[m])
          /\ \E x : /\ texts' = [texts EXCEPT ![m][at[m]] = x]
                    /\ \/ x \in {New, Dropped, Replaced, Thrown(words[Target(m)]),
                                Named(role[Target(m)])}
                       \/ Is(m) = "named" /\ x = Rendered(texts[m][at[m]].name, role[Target(m)])
        BY <1>3 DEF Recover, NextPass, Detect, DropBookkeeping, MakeString, SendMessage,
                    ThrowException, Allocation, RoleSeen, NothingSeen, NoteRefused,
                    NoteAllowed, NoteShape, Noted, Build, Throw, RenderName, RenderArguments,
                    RenderOther, Becomes, At
    <2>2. at[m] \in Places(m) /\ Target(m) \in Targets
        BY <1>1, <2>1, SiteShape
    <2>3. texts[m][at[m]] \in Texts
        BY <1>1, <2>2 DEF Places
    <2>4. role[Target(m)] \in Roles \cup {None} /\ words[Target(m)] \in Methods \cup {None}
        BY <1>1, <2>2
    <2>5. {New, Dropped, Replaced, Thrown(words[Target(m)]), Named(role[Target(m)])} \subseteq Texts
        BY <2>4 DEF Texts
    <2>6. Is(m) = "named" => Rendered(texts[m][at[m]].name, role[Target(m)]) \in Texts
        <3>1. Is(m) = "named" => \E r \in Roles \cup {None} : texts[m][at[m]] = Named(r)
            <4> DEFINE y == texts[m][at[m]]
            <4>1. /\ \A w : Thrown(w).is # "named" /\ \A r, a : Rendered(r, a).is # "named"
                  /\ Call.is # "named" /\ Dropped.is # "named" /\ New.is # "named"
                  /\ Replaced.is # "named"
                BY DEF Call, Dropped, New, Replaced, Thrown, Rendered
            <4>2. y \in Texts /\ Is(m) = y.is
                BY <2>3 DEF Is
            <4> HIDE DEF y
            <4>3. y.is = "named" => \E r \in Roles \cup {None} : y = Named(r)
                BY <4>1, <4>2 DEF Texts
            <4> QED BY <4>2, <4>3 DEF y
        <3>2. \A r : Named(r).name = r
            BY DEF Named
        <3> QED BY <2>4, <3>1, <3>2 DEF Texts
    <2> QED BY <2>1, <2>2, <2>5, <2>6
<1> QED BY <1>2, <1>3

LEMMA TextsStep == SInv /\ [Next]_vars => TextsInv'
<1> SUFFICES ASSUME SInv, [Next]_vars PROVE TextsInv'
    OBVIOUS
<1> USE DEF TextsInv
<1>0. TextsInv /\ PlacesInv
    BY DEF SInv, RInv
<1>1. ASSUME NEW t \in Targets, ThinForwarder(t) \/ ClassifyBody(t) PROVE TextsInv'
    BY <1>0, <1>1 DEF ThinForwarder, ClassifyBody
<1>2. CASE SecondLook \/ StartPool
    BY <1>0, <1>2 DEF SecondLook, StartPool
<1>3. ASSUME NEW m \in Methods, Recover(m) PROVE TextsInv'
    <2>1. UNCHANGED <<prog, phase, todo, nonEntry>> /\ phase = "pool"
        BY <1>3, OwnStep
    <2>2. words' \in [Targets -> Methods \cup {None}]
        BY <1>0, <1>3 DEF Recover, NextPass, Detect, DropBookkeeping, MakeString, SendMessage,
                          ThrowException, Allocation, RoleSeen, NothingSeen, NoteRefused,
                          NoteAllowed, NoteShape, Noted, Build, Throw, RenderName,
                          RenderArguments, RenderOther
    <2>3. CASE texts' = texts
        BY <1>0, <2>1, <2>2, <2>3
    <2>4. CASE at[m] \in Places(m) /\ \E x \in Texts : texts' = [texts EXCEPT ![m][at[m]] = x]
        <3>1. PICK x \in Texts : texts' = [texts EXCEPT ![m][at[m]] = x]
            BY <2>4
        <3> DEFINE s == texts[m]
        <3>2. s \in Seq(Texts) /\ at[m] \in 1 .. Len(s)
            BY <1>0, <2>4 DEF Places
        <3>3. texts' = [texts EXCEPT ![m] = [s EXCEPT ![at[m]] = x]]
            BY <3>1
        <3> HIDE DEF s
        <3>4. [s EXCEPT ![at[m]] = x] \in Seq(Texts) /\ Len([s EXCEPT ![at[m]] = x]) = Len(s)
            BY <3>2, ExceptSeq
        <3>5. texts' \in [Methods -> Seq(Texts)]
            BY <1>0, <3>3, <3>4
        <3>6. \A y \in Methods : Len(texts'[y]) = Len(texts[y])
            BY <1>0, <3>3, <3>4 DEF s
        <3> QED BY <1>0, <2>1, <2>2, <3>5, <3>6
    <2> QED BY <1>3, <2>3, <2>4, TextStep
<1>4. CASE UNCHANGED vars
    BY <1>0, <1>4 DEF vars
<1> QED BY <1>1, <1>2, <1>3, <1>4 DEF Next

(* Nothing but the reading of a thin forwarder notes a raise. *)
LEMMA RaisesProvenStep == SInv /\ [Next]_vars => RaisesProven'
<1> SUFFICES ASSUME SInv, [Next]_vars PROVE RaisesProven'
    OBVIOUS
<1>0. /\ RaisesProven /\ role \in [Targets -> Roles \cup {None}] /\ RInv /\ prog' = prog
      /\ prog \in Programs
    BY ProgKept DEF SInv, RInv, TableInv, PlacesInv
<1> USE DEF RaisesProven
<1>1. ASSUME NEW t \in Targets, ThinForwarder(t) PROVE RaisesProven'
    BY <1>0, <1>1 DEF ThinForwarder, Note
<1>2. ASSUME NEW t \in Targets, ClassifyBody(t) PROVE RaisesProven'
    <2>1. prog.body[t] # "raise"
        BY <1>0, ProgramShape DEF Bodies, None
    <2> QED BY <1>0, <1>2, <2>1 DEF ClassifyBody, Reclassified, MarkNonEntry, Note, None
<1>3. CASE SecondLook \/ StartPool
    BY <1>0, <1>3 DEF SecondLook, StartPool
<1>4. ASSUME NEW m \in Methods, Recover(m) PROVE RaisesProven'
    <2>1. pc[m] = "note" => RoleAfter(m) # "raise"
        BY <1>0, NotedRole
    <2>2. \A t \in Targets : role'[t] = role[t] \/ role'[t] # "raise"
        BY <1>0, <1>4, <2>1, MethodStep
    <2> QED BY <1>0, <2>2
<1>5. CASE UNCHANGED vars
    BY <1>0, <1>5 DEF vars
<1> QED BY <1>1, <1>2, <1>3, <1>4, <1>5 DEF Next

(* Whoever notes a role for a target whose calls agree notes theirs. *)
LEMMA NotesAgree ==
    ASSUME SInv, NEW m \in Methods, Recover(m), NEW x \in Methods, NEW k \in Places(x), Agreed(x, k)
    PROVE  LET t == prog.sites[x][k].target IN role'[t] = role[t] \/ role'[t] \in RolesOf(x, k)
<1> DEFINE t == prog.sites[x][k].target
<1>1. /\ RInv /\ PlacesInv /\ role \in [Targets -> Roles \cup {None}]
      /\ prog \in Programs
    BY DEF SInv, RInv, TableInv, PlacesInv
<1>2. t \in Targets
    <2>1. prog.sites[x] \in Seq(Sites)
        BY <1>1, ProgramShape
    <2>2. prog.sites[x][k] \in Sites
        BY <2>1 DEF Places
    <2> QED BY <2>2 DEF Sites
<1>3. CASE t # Target(m)
    BY <1>1, <1>2, <1>3, MethodStep
<1>4. CASE t = Target(m)
    <2>1. at[m] <= Len(prog.sites[m]) => Site(m).shape = prog.sites[x][k].shape
        <3>1. at[m] <= Len(prog.sites[m]) => at[m] \in Places(m)
            BY <1>1, SiteShape
        <3> QED BY <1>4, <3>1 DEF Agreed, AllWritten, Site, Target
    <2>2. CASE at[m] <= Len(prog.sites[m]) /\ Site(m).shape = "guarded"
               /\ role' = [role EXCEPT ![Target(m)] = "class_init"]
        BY <1>1, <1>2, <1>4, <2>1, <2>2 DEF RolesOf, RolesShown, Shown
    <2>3. CASE pc[m] = "note" /\ role' = [role EXCEPT ![Target(m)] = RoleAfter(m)]
        <3>1. at[m] <= Len(prog.sites[m]) /\ (ShapeCounts(m) \/ In(m, "box_fn"))
            BY <1>1, <2>3 DEF RInv, PendingInv
        <3>2. /\ Site(m).shape = prog.sites[x][k].shape /\ t \notin nonEntry
              /\ Site(m).shape \in {"guarded", "box", "cast"}
            BY <2>1, <3>1 DEF Agreed, Shown
        <3>3. Site(m).shape \in {"box", "cast"} => RoleAfter(m) = Shown[Site(m).shape]
            BY <1>4, <3>2 DEF RoleAfter, RoleShown, ShapeCounts, Shown
        <3>4. Site(m).shape = "guarded" => RoleAfter(m) = "box" /\ "box_fn" \in prog.family[t]
            BY <1>4, <3>1, <3>2 DEF RoleAfter, RoleShown, ShapeCounts, In
        <3>5. RoleAfter(m) \in RolesOf(x, k)
            BY <3>2, <3>3, <3>4 DEF RolesOf, RolesShown
        <3> QED BY <1>1, <1>2, <1>4, <2>3, <3>5
    <2> QED BY <1>1, <2>2, <2>3, MethodStep
<1> QED BY <1>3, <1>4

(* A method does not get past such a call without noting its role. *)
LEMMA PassingNotes ==
    ASSUME SInv, NEW m \in Methods, Recover(m), NEW k \in Places(m), Agreed(m, k),
           ShownBy(m, k)', ~ShownBy(m, k)
    PROVE  role'[prog.sites[m][k].target] \in RolesOf(m, k)
<1> DEFINE s == prog.sites[m][k]
<1>1. /\ RInv /\ PlacesInv /\ role \in [Targets -> Roles \cup {None}]
      /\ at \in [Methods -> Nat \ {0}] /\ prog' = prog
      /\ pc \in [Methods -> {"detect", "keys", "check", "note", "build", "throw", "render", "done"}]
    BY OwnStep DEF SInv, RInv, TableInv, PlacesInv
<1>2. at[m] \in Nat /\ k \in Nat /\ k >= 1 /\ k <= Len(prog.sites[m]) /\ Len(prog.sites[m]) \in Nat
    <2>1. prog.sites[m] \in Seq(Sites)
        BY <1>1, ProgramShape DEF PlacesInv
    <2> QED BY <1>1, <2>1 DEF Places
<1>3. k = at[m] => s.target = Target(m) /\ s.shape = Site(m).shape /\ s.target \in Targets
    BY <1>1, <1>2, SiteShape DEF Target, Site
<1>4. s.shape \in {"guarded", "box", "cast"} /\ s.target \notin nonEntry
      /\ prog.thin[s.target] # "raise"
    BY DEF Agreed, Shown
<1>5. ShownBy(m, k)' <=>
        IF s.shape = "guarded" THEN pc'[m] # "detect" \/ k < at'[m]
        ELSE \/ pc'[m] \in {"build", "throw", "render", "done"}
             \/ pc'[m] \in {"keys", "check", "note"} /\ k < at'[m]
    BY <1>1 DEF ShownBy
<1>6. CASE NextPass(m)
    <2>1. at'[m] = 1 /\ k < at[m] /\ pc'[m] = NextStep(m) /\ pc[m] \notin {"check", "note", "done"}
        BY <1>1, <1>2, <1>6 DEF NextPass
    <2> QED BY <1>1, <1>2, <1>5, <2>1 DEF ShownBy, NextStep
<1>7. CASE Detect(m)
    <2>1. at'[m] = at[m] + 1 /\ pc' = pc /\ pc[m] = "detect"
        BY <1>1, <1>7 DEF Detect, Move, At
    <2>2. s.shape = "guarded" /\ k = at[m]
        BY <1>2, <1>5, <2>1 DEF ShownBy
    <2>3. role' = [role EXCEPT ![Target(m)] = "class_init"]
        BY <1>3, <1>7, <2>2 DEF Detect, Note
    <2> QED BY <1>1, <1>3, <2>2, <2>3 DEF RolesOf, RolesShown, Shown
<1>8. CASE \/ DropBookkeeping(m) \/ MakeString(m) \/ SendMessage(m) \/ ThrowException(m)
           \/ Allocation(m) \/ NothingSeen(m)
    <2>1. at'[m] = at[m] + 1 /\ pc' = pc /\ pc[m] = "keys" /\ Arm(m) # "shape"
        BY <1>1, <1>8 DEF DropBookkeeping, MakeString, SendMessage, ThrowException, Allocation,
                          NothingSeen, StaysACall, Move, At
    <2>2. s.shape \in {"box", "cast"} /\ k = at[m]
        BY <1>2, <1>4, <1>5, <2>1 DEF ShownBy
    <2> QED BY <1>3, <1>4, <2>1, <2>2 DEF Arm, ShapeCounts
<1>9. CASE RoleSeen(m) \/ NoteAllowed(m)
    <2>1. /\ at' = at /\ pc[m] \in {"keys", "check"} /\ pc'[m] \in {"check", "note"}
        BY <1>1, <1>9 DEF RoleSeen, NoteAllowed, At
    <2> QED BY <1>5, <2>1 DEF ShownBy
<1>10. CASE NoteRefused(m)
    <2>1. at'[m] = at[m] + 1 /\ pc'[m] = "keys" /\ pc[m] = "check" /\ role[Target(m)] = "raise"
        BY <1>1, <1>10 DEF NoteRefused, Noted, Move, At, Refused
    <2>2. k = at[m]
        BY <1>2, <1>5, <2>1 DEF ShownBy
    <2> QED BY <1>3, <1>4, <2>1, <2>2 DEF SInv, RaisesProven
<1>11. CASE NoteShape(m)
    <2>1. /\ at'[m] = at[m] + 1 /\ pc'[m] = "keys" /\ pc[m] = "note"
          /\ role' = [role EXCEPT ![Target(m)] = RoleShown(m)]
        BY <1>1, <1>11 DEF NoteShape, Noted, Note, Move, At, RoleAfter
    <2>2. k = at[m] /\ s.shape \in {"box", "cast"}
        BY <1>2, <1>4, <1>5, <2>1 DEF ShownBy
    <2>3. RoleShown(m) \in RolesOf(m, k)
        BY <1>3, <1>4, <2>2 DEF RoleShown, ShapeCounts, RolesOf, RolesShown, Shown
    <2> QED BY <1>1, <1>3, <2>1, <2>2, <2>3
<1>12. CASE Build(m) \/ Throw(m) \/ RenderName(m) \/ RenderArguments(m) \/ RenderOther(m)
    <2>1. pc[m] \in {"build", "throw", "render"}
        BY <1>12 DEF Build, Throw, RenderName, RenderArguments, RenderOther, At
    <2> QED BY <2>1 DEF ShownBy
<1> QED BY <1>6, <1>7, <1>8, <1>9, <1>10, <1>11, <1>12 DEF Recover

(* What becomes a name or a call cut to an arity does so in the last pass. *)
LEMMA Becoming ==
    ASSUME SInv, NEW m \in Methods, Recover(m), texts' # texts
    PROVE  /\ at[m] \in Places(m)
           /\ \E x : /\ texts' = [texts EXCEPT ![m][at[m]] = x]
                    /\ \/ x.is \notin {"named", "rendered"}
                       \/ /\ pc[m] = "render" /\ pc' = pc
                          /\ \/ x = Named(role[Target(m)])
                             \/ /\ Is(m) = "named"
                                /\ x = Rendered(texts[m][at[m]].name, role[Target(m)])
<1>1. /\ at[m] <= Len(prog.sites[m])
      /\ \/ Becomes(m, New) \/ Becomes(m, Dropped) \/ Becomes(m, Replaced)
         \/ Becomes(m, Thrown(words[Target(m)]))
         \/ /\ pc[m] = "render" /\ pc' = pc
            /\ \/ Becomes(m, Named(role[Target(m)]))
               \/ /\ Is(m) = "named"
                  /\ Becomes(m, Rendered(texts[m][at[m]].name, role[Target(m)]))
    BY DEF Recover, NextPass, Detect, DropBookkeeping, MakeString, SendMessage, ThrowException,
           Allocation, RoleSeen, NothingSeen, NoteRefused, NoteAllowed, NoteShape, Noted,
           Build, Throw, RenderName, RenderArguments, RenderOther, At
<1>2. at[m] \in Places(m)
    BY <1>1, SiteShape DEF SInv, RInv
<1>3. /\ New.is \notin {"named", "rendered"} /\ Dropped.is \notin {"named", "rendered"}
      /\ Replaced.is \notin {"named", "rendered"}
      /\ \A w : Thrown(w).is \notin {"named", "rendered"}
    BY DEF New, Dropped, Replaced, Thrown
<1> QED BY <1>1, <1>2, <1>3 DEF Becomes

LEMMA LastPassKept ==
    ASSUME SInv, NEW m \in Methods, Recover(m), pc[m] \in {"render", "done"}
    PROVE  pc'[m] \in {"render", "done"}
BY DEF SInv, RInv, PlacesInv, Recover, NextPass, NextStep, Detect, DropBookkeeping, MakeString,
       SendMessage, ThrowException, Allocation, RoleSeen, NothingSeen, NoteRefused,
       NoteAllowed, NoteShape, Noted, Build, Throw, RenderName, RenderArguments, RenderOther,
       At

LEMMA AgreedRole ==
    ASSUME SInv, NEW m \in Methods, Recover(m), NEW x \in Methods, NEW k \in Places(x), Agreed(x, k),
           ShownBy(x, k)'
    PROVE  role'[prog.sites[x][k].target] \in RolesOf(x, k)
<1>1. CASE ShownBy(x, k)
    <2>1. role[prog.sites[x][k].target] \in RolesOf(x, k)
        BY <1>1 DEF SInv, AgreedInv
    <2> QED BY <2>1, NotesAgree
<1>2. CASE ~ShownBy(x, k)
    <2>1. x = m
        BY <1>2, OwnStep DEF ShownBy
    <2> QED BY <1>2, <2>1, PassingNotes
<1> QED BY <1>1, <1>2

LEMMA AgreedTexts ==
    ASSUME SInv, NEW m \in Methods, Recover(m), NEW x \in Methods, NEW k \in Places(x)
    PROVE  /\ texts'[x][k].is \in {"named", "rendered"} => pc'[x] \in {"render", "done"}
           /\ Agreed(x, k) =>
                 /\ texts'[x][k].is = "named" => NamedBy(texts'[x][k], RolesOf(x, k))
                 /\ texts'[x][k].is = "rendered"
                       => RenderedBy(texts'[x][k], RolesOf(x, k))
<1>1. /\ texts \in [Methods -> Seq(Texts)] /\ Len(texts[x]) = Len(prog.sites[x])
      /\ texts[x][k].is \in {"named", "rendered"} => pc[x] \in {"render", "done"}
      /\ Agreed(x, k) =>
            /\ texts[x][k].is = "named" => NamedBy(texts[x][k], RolesOf(x, k))
            /\ texts[x][k].is = "rendered" => RenderedBy(texts[x][k], RolesOf(x, k))
    BY DEF SInv, TextsInv, AgreedInv
<1>2. pc[x] \in {"render", "done"} => pc'[x] \in {"render", "done"}
    BY OwnStep, LastPassKept
<1>3. CASE texts'[x][k] = texts[x][k]
    BY <1>1, <1>2, <1>3
<1>4. CASE texts'[x][k] # texts[x][k]
    <2>1. PICK y : /\ texts' = [texts EXCEPT ![m][at[m]] = y]
                   /\ \/ y.is \notin {"named", "rendered"}
                      \/ /\ pc[m] = "render" /\ pc' = pc
                         /\ \/ y = Named(role[Target(m)])
                            \/ /\ Is(m) = "named"
                               /\ y = Rendered(texts[m][at[m]].name, role[Target(m)])
        BY <1>4, Becoming
    <2>2. x = m /\ k = at[m]
        BY <1>1, <1>4, <2>1
    <2>3. texts'[x][k] = y
        BY <1>1, <2>1, <2>2 DEF Places
    <2>4. CASE y.is \notin {"named", "rendered"}
        BY <2>3, <2>4
    <2>5. CASE y.is \in {"named", "rendered"}
        <3>1. /\ pc[m] = "render" /\ pc' = pc
              /\ \/ y = Named(role[Target(m)])
                 \/ /\ Is(m) = "named"
                    /\ y = Rendered(texts[m][at[m]].name, role[Target(m)])
            BY <2>1, <2>5
        <3>2. ShownBy(x, k) /\ Target(m) = prog.sites[x][k].target
            BY <2>2, <3>1 DEF ShownBy, Target, Site
        <3>3. Agreed(x, k) => role[Target(m)] \in RolesOf(x, k)
            BY <3>2 DEF SInv, AgreedInv
        <3>4. \A r, a : /\ Named(r).is = "named" /\ Named(r).name = r
                        /\ Rendered(r, a).is = "rendered"
            BY DEF Named, Rendered
        <3>5. Agreed(x, k) /\ Is(m) = "named" => texts[m][at[m]].name \in RolesOf(x, k)
            BY <1>1, <2>2, <3>4 DEF Is, NamedBy
        <3>6. pc'[x] \in {"render", "done"}
            BY <2>2, <3>1
        <3> QED BY <2>3, <3>1, <3>3, <3>4, <3>5, <3>6 DEF NamedBy, RenderedBy
    <2> QED BY <2>4, <2>5
<1> QED BY <1>3, <1>4

LEMMA AgreedInvStep == SInv /\ [Next]_vars => AgreedInv'
<1> SUFFICES ASSUME SInv, [Next]_vars PROVE AgreedInv'
    OBVIOUS
<1>1. prog' = prog /\ \A m \in Methods : Places(m)' = Places(m)
    BY ProgKept DEF Places
<1>2. \A m \in Methods : \A k \in Places(m) : RolesOf(m, k)' = RolesOf(m, k)
    BY <1>1 DEF RolesOf, RolesShown
<1>3. ASSUME UNCHANGED <<pc, at, texts>>, phase # "pool" PROVE AgreedInv'
    <2> SUFFICES ASSUME NEW m \in Methods, NEW k \in Places(m)
                 PROVE  texts'[m][k].is \notin {"named", "rendered"} /\ ~ShownBy(m, k)'
        BY <1>1 DEF AgreedInv
    <2>1. pc[m] = "detect" /\ at[m] = 1
        BY <1>3 DEF SInv, RInv, PlacesInv, TextsInv
    <2>2. texts[m][k].is \notin {"named", "rendered"}
        BY <2>1 DEF SInv, AgreedInv
    <2>3. k \in Nat /\ k >= 1
        <3>1. prog.sites[m] \in Seq(Sites)
            BY ProgramShape DEF SInv, RInv, PlacesInv
        <3> QED BY <3>1 DEF Places
    <2>4. ~ShownBy(m, k)'
        BY <1>1, <1>3, <2>1, <2>3 DEF ShownBy
    <2> QED BY <1>3, <2>2, <2>4
<1>4. ASSUME NEW t \in Targets, ThinForwarder(t) \/ ClassifyBody(t) PROVE AgreedInv'
    BY <1>3, <1>4 DEF ThinForwarder, ClassifyBody
<1>5. CASE SecondLook \/ StartPool
    BY <1>3, <1>5 DEF SecondLook, StartPool
<1>6. ASSUME NEW m \in Methods, Recover(m) PROVE AgreedInv'
    <2>1. nonEntry' = nonEntry
        BY <1>6, OwnStep
    <2>2. \A x \in Methods : \A k \in Places(x) : Agreed(x, k)' <=> Agreed(x, k)
        BY <1>1, <2>1 DEF Agreed, AllWritten, Places
    <2> SUFFICES ASSUME NEW x \in Methods, NEW k \in Places(x)
                 PROVE  /\ texts'[x][k].is \in {"named", "rendered"} => pc'[x] \in {"render", "done"}
                        /\ Agreed(x, k) =>
                             /\ ShownBy(x, k)' => role'[prog.sites[x][k].target] \in RolesOf(x, k)
                             /\ texts'[x][k].is = "named" => NamedBy(texts'[x][k], RolesOf(x, k))
                             /\ texts'[x][k].is = "rendered"
                                   => RenderedBy(texts'[x][k], RolesOf(x, k))
        BY <1>1, <1>2, <2>2, SMTT(30) DEF AgreedInv, NamedBy, RenderedBy
    <2>3. texts'[x][k].is \in {"named", "rendered"} => pc'[x] \in {"render", "done"}
        BY <1>6, AgreedTexts
    <2>4. ASSUME Agreed(x, k)
          PROVE  /\ ShownBy(x, k)' => role'[prog.sites[x][k].target] \in RolesOf(x, k)
                 /\ texts'[x][k].is = "named" => NamedBy(texts'[x][k], RolesOf(x, k))
                 /\ texts'[x][k].is = "rendered" => RenderedBy(texts'[x][k], RolesOf(x, k))
        BY <1>6, <2>4, AgreedRole, AgreedTexts
    <2> QED BY <2>3, <2>4
<1>7. CASE UNCHANGED vars
    <2>1. UNCHANGED <<prog, role, nonEntry, pc, at, texts>>
        BY <1>7 DEF vars
    <2>2. \A m \in Methods : \A k \in Places(m) :
              (Agreed(m, k)' <=> Agreed(m, k)) /\ (ShownBy(m, k)' <=> ShownBy(m, k))
        BY <2>1 DEF Agreed, ShownBy, AllWritten, Places
    <2> QED BY <1>1, <1>2, <2>1, <2>2 DEF SInv, AgreedInv, NamedBy, RenderedBy, Named, Rendered
<1> QED BY <1>4, <1>5, <1>6, <1>7 DEF Next

LEMMA SStep == SInv /\ [Next]_vars => SInv'
BY RStep, TextsStep, RaisesProvenStep, AgreedInvStep DEF SInv

-----------------------------------------------------------------------------
(* The three tables, where each method is and what its calls have become. *)
THEOREM HelperRolesTypes == Spec => []TypeOK
<1>1. SInv => TypeOK
    BY DEF SInv, RInv, PlacesInv, TableInv, TextsInv, TypeOK
<1> QED BY <1>1, SInit, SStep, PTL DEF Spec

(* Every method renders calls that are all written alike by the role their *)
(* shape shows, whatever the others do between the lookups of its name and *)
(* of its arity.                                                           *)
THEOREM AgreedSitesReadAlways == Spec => []AgreedSitesReadTheirRole
<1>1. SInv => AgreedSitesReadTheirRole
    BY DEF SInv, AgreedInv, Agreed, RolesOf, RenderedBy, AgreedSitesReadTheirRole
<1> QED BY <1>1, SInit, SStep, PTL DEF Spec
=============================================================================
