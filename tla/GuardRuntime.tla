---------------------------- MODULE GuardRuntime ----------------------------
(***************************************************************************)
(* A program with guards starts, with or without its patch.                *)
(*                                                                         *)
(* The base and the patch each carry a package init.  The plugin puts its  *)
(* guard in front of it and the call of the guard variables' initialiser   *)
(* inside (patcher.cj); patch-gen takes the guard of the patch's off and   *)
(* lets it use the base's "applied" flag (PatchGen.cpp).  Here the two     *)
(* bodies are made by these edits and then run, operation by operation,    *)
(* by the thread that starts the program; initialisers call patchable      *)
(* functions and start threads that do so too.  A call reads the           *)
(* function's flag and, if it is on, the guard variable.  Who loads the    *)
(* patch is outside the repository: schedule is the order in which         *)
(* package inits are called.  Nobody in the repository turns the guard of  *)
(* the base's own package init on, and it stays off here (its two ways     *)
(* are in GuardChecks).                                                    *)
(***************************************************************************)
EXTENDS Naturals, Sequences, FiniteSets, SequencesExt

CONSTANTS Func, Thread, Main,
          Program     \* records [callee, spawns, changed, literal, preinitialize, schedule]

Image == {"base", "patch"}

ASSUME ThreadAssumption == Main \in Thread

\* callee: what the initialiser of each variable calls; spawns: the initialisers that
\* start threads; changed: what the patch changes; literal, preinitialize: the shape
\* of the package init; schedule: the package inits that are called.
ASSUME ProgramAssumption ==
  \A p \in Program :
    /\ p.callee \in Seq(Func) /\ p.spawns \subseteq DOMAIN p.callee
    /\ p.changed \subseteq Func /\ IsFiniteSet(p.changed)
    /\ p.literal \in BOOLEAN /\ p.preinitialize \in BOOLEAN
    /\ p.schedule \in Seq(Image)

-----------------------------------------------------------------------------
\* The package init and what is made of it

Op(name) == [op |-> name, arg |-> 0]
RunInitializer(k) == [op |-> "run initializer", arg |-> k]
Block(code, to) == [code |-> code, to |-> to]

\* As the compiler makes it: "applied" is tested, then set, the packages it depends on
\* and the runtime are prepared, and the variables are initialised in order.
PackageInit(p) ==
  [ entry |-> "test",
    block |->
      [ test |-> Block(<<Op("load applied")>>, <<"exit", "init">>),
        init |-> Block((IF p.literal THEN <<Op("constant true")>> ELSE <<>>)
                         \o <<Op("store applied"), Op("init dependencies")>>
                         \o (IF p.preinitialize THEN <<Op("preinitialize")>> ELSE <<>>)
                         \o [k \in DOMAIN p.callee |-> RunInitializer(k)],
                       <<"exit">>),
        exit |-> Block(<<>>, <<>>) ] ]

\* genPackageInitGuardChecks: the entry's code moves to a new block.
GuardedInit(b) ==
  [ entry |-> b.entry,
    block |-> [ l \in DOMAIN b.block \cup {"old entry", "routed"} |->
                  IF l = b.entry THEN Block(<<Op("load init flag"), Op("not")>>, <<"old entry", "routed">>)
                  ELSE IF l = "old entry" THEN b.block[b.entry]
                  ELSE IF l = "routed" THEN Block(<<Op("invoke init guard method")>>, <<>>)
                  ELSE b.block[l] ] ]

IsInitializerBlock(blk) ==
  /\ Len(blk.code) >= 2
  /\ blk.code[1] = Op("constant true") /\ blk.code[2] = Op("store applied")

\* After the Preinitialize of the initialiser block, or before the block's terminator;
\* without such a block, in the entry.
Initializers(b) == {l \in DOMAIN b.block : IsInitializerBlock(b.block[l])}
InitializerPosition(blk) ==
  LET at == {i \in DOMAIN blk.code : blk.code[i] = Op("preinitialize")}
  IN  IF at = {} THEN Len(blk.code) ELSE CHOOSE i \in at : \A k \in at : i <= k

WithInitializerLast(b) ==
  LET l == IF Initializers(b) = {} THEN b.entry ELSE CHOOSE l \in Initializers(b) : TRUE
  IN  [b EXCEPT !.block[l].code = Append(@, Op("apply guard vars initializer"))]

WithInitializer(b) ==
  LET l == IF Initializers(b) = {} THEN b.entry ELSE CHOOSE l \in Initializers(b) : TRUE
  IN  [b EXCEPT !.block[l].code =
         InsertAt(@, InitializerPosition(b.block[l]) + 1, Op("apply guard vars initializer"))]

BaseInit(p) == WithInitializer(GuardedInit(PackageInit(p)))

UnguardedSameEntry(b) ==
  [ entry |-> b.entry,
    block |-> [l \in DOMAIN b.block \ {b.entry, b.block[b.entry].to[2]} |-> b.block[l]] ]

\* removeGuardChecks: the true block of the entry's branch is the entry again.
Unguarded(b) ==
  [ entry |-> b.block[b.entry].to[1],
    block |-> [l \in DOMAIN b.block \ {b.entry, b.block[b.entry].to[2]} |-> b.block[l]] ]

\* Mutant: the patch tests a flag of its own.
AccessorOfStores(o) == IF o = Op("store applied") THEN Op("set base's applied") ELSE o

\* updatePackageInits
Accessor(o) == IF o = Op("load applied") THEN Op("get base's applied")
               ELSE IF o = Op("store applied") THEN Op("set base's applied")
               ELSE o
WithAccessors(b) ==
  [b EXCEPT !.block =
     [l \in DOMAIN @ |-> Block([i \in DOMAIN @[l].code |-> Accessor(@[l].code[i])], @[l].to)]]

PatchInit(p) == WithAccessors(Unguarded(BaseInit(p)))

InitOf(p, m) == IF m = "base" THEN BaseInit(p) ELSE PatchInit(p)

\* The stores of the guard variables' initialisers: the plugin's None; of the patch,
\* one for each flag (enableGuardVarFlag) and then the instance (instantiatePatchClass).
None == [store |-> "None", func |-> 0]
Instance == [store |-> "instance", func |-> 0]
Flag(f) == [store |-> "flag", func |-> f]

GuardVarsInitializerNoneLast(p, m) ==
  IF m = "base" THEN <<None>>
  ELSE SetToSeq({Flag(f) : f \in p.changed}) \o <<Instance, None>>

GuardVarsInitializer(p, m) ==
  IF m = "base" \/ p.changed = {} THEN <<None>>
  ELSE <<None>> \o SetToSeq({Flag(f) : f \in p.changed}) \o <<Instance>>

-----------------------------------------------------------------------------
\* The running program

VARIABLES program, code,      \* what is compiled, and the package inits made of it
          schedule,           \* package inits still to be called
          applied,            \* each image's own flag
          flag, guardVar,     \* the globals that guards read; both images use the base's
          image, pc, i,       \* of the starting thread: which init, which block, how far
          stores,             \* what is left of a guard variables' initialiser that runs
          runs,               \* history: how often each initialiser ran
          spawned,            \* threads that an initialiser started
          at                  \* calls of patchable functions, by thread

vars == <<program, code, schedule, applied, flag, guardVar, image, pc, i, stores, runs, spawned, at>>
init == <<schedule, image, pc, i>>

Idle == [is |-> "idle"]
Called(f)    == [is |-> "called", func |-> f]
Routed(f)    == [is |-> "routed", func |-> f]
Ran(f, c)    == [is |-> "ran", func |-> f, code |-> c]

Init ==
  /\ program \in Program
  /\ code = [m \in Image |-> InitOf(program, m)]
  /\ schedule = program.schedule
  /\ applied = [m \in Image |-> FALSE]
  /\ flag = [f \in Func |-> FALSE] /\ guardVar = "None"
  /\ image = "base" /\ pc = "none" /\ i = 1 /\ stores = <<>>
  /\ runs = [k \in DOMAIN program.callee |-> 0]
  /\ spawned = {} /\ at = [t \in Thread |-> Idle]

Body == code[image]
InInit == pc \in DOMAIN Body.block /\ stores = <<>> /\ at[Main].is \notin {"called", "routed"}
AtOp(name) == InInit /\ i \in DOMAIN Body.block[pc].code /\ Body.block[pc].code[i].op = name
Advance == i' = i + 1 /\ UNCHANGED <<schedule, image, pc>>

CallInit ==
  /\ pc = "none" /\ schedule # <<>> /\ stores = <<>> /\ at[Main].is \notin {"called", "routed"}
  /\ image' = Head(schedule) /\ schedule' = Tail(schedule)
  /\ pc' = code[Head(schedule)].entry /\ i' = 1
  /\ UNCHANGED <<program, code, applied, flag, guardVar, stores, runs, spawned, at>>

\* A branch has two successors; the condition of an init's is "applied", and of the
\* guard's that its flag is off.
EndOfBlock ==
  LET blk == Body.block[pc]
      tested == IF \E k \in DOMAIN blk.code : blk.code[k] = Op("not") THEN TRUE
                ELSE applied[IF \E k \in DOMAIN blk.code : blk.code[k] = Op("get base's applied")
                               THEN "base" ELSE image]
  IN  /\ InInit /\ i > Len(blk.code)
      /\ pc' = IF blk.to = <<>> THEN "none" ELSE blk.to[IF Len(blk.to) = 2 /\ ~tested THEN 2 ELSE 1]
      /\ i' = 1
      /\ UNCHANGED <<program, code, schedule, image, applied, flag, guardVar, stores, runs, spawned, at>>

StoreApplied ==
  /\ \/ AtOp("store applied") /\ applied' = [applied EXCEPT ![image] = TRUE]
     \/ AtOp("set base's applied") /\ applied' = [applied EXCEPT !["base"] = TRUE]
  /\ Advance
  /\ UNCHANGED <<program, code, flag, guardVar, stores, runs, spawned, at>>

\* Loads, constants and what happens outside the package.
OtherOp ==
  /\ \/ AtOp("load applied") \/ AtOp("get base's applied") \/ AtOp("load init flag")
     \/ AtOp("not") \/ AtOp("constant true") \/ AtOp("init dependencies") \/ AtOp("preinitialize")
  /\ Advance
  /\ UNCHANGED <<program, code, applied, flag, guardVar, stores, runs, spawned, at>>

ApplyGuardVarsInitializer ==
  /\ AtOp("apply guard vars initializer")
  /\ stores' = GuardVarsInitializer(program, image)
  /\ Advance
  /\ UNCHANGED <<program, code, applied, flag, guardVar, runs, spawned, at>>

Store ==
  /\ stores # <<>>
  /\ stores' = Tail(stores)
  /\ LET s == Head(stores)
     IN  IF s.store = "flag"
           THEN flag' = [flag EXCEPT ![s.func] = TRUE] /\ UNCHANGED guardVar
           ELSE guardVar' = s.store /\ UNCHANGED flag
  /\ UNCHANGED <<program, code, init, applied, runs, spawned, at>>

\* An initialiser calls its patchable function, and may start the other threads.
Initialize ==
  /\ AtOp("run initializer")
  /\ LET k == Body.block[pc].code[i].arg
     IN  /\ runs' = [runs EXCEPT ![k] = @ + 1]
         /\ at' = [at EXCEPT ![Main] = Called(program.callee[k])]
         /\ spawned' = IF k \in program.spawns THEN Thread \ {Main} ELSE spawned
  /\ Advance
  /\ UNCHANGED <<program, code, applied, flag, guardVar, stores>>

\* The guard of a patchable function (genGuardChecks).
TestFlag(t) ==
  /\ at[t].is = "called"
  /\ at' = [at EXCEPT ![t] = IF flag[@.func] THEN Routed(@.func) ELSE Ran(@.func, "old")]
  /\ UNCHANGED <<program, code, init, applied, flag, guardVar, stores, runs, spawned>>

TestGuardVar(t) ==
  /\ at[t].is = "routed"
  /\ at' = [at EXCEPT ![t] = Ran(@.func, IF guardVar = "instance" THEN "new" ELSE "should not reach here")]
  /\ UNCHANGED <<program, code, init, applied, flag, guardVar, stores, runs, spawned>>

Initialized == pc = "none" /\ schedule = <<>> /\ stores = <<>>

\* Threads call when they like, the starting one after the package inits.
Call(t, f) ==
  /\ at[t].is \notin {"called", "routed"}
  /\ IF t = Main THEN Initialized ELSE t \in spawned
  /\ at' = [at EXCEPT ![t] = Called(f)]
  /\ UNCHANGED <<program, code, init, applied, flag, guardVar, stores, runs, spawned>>

Start == CallInit \/ EndOfBlock \/ StoreApplied \/ OtherOp \/ ApplyGuardVarsInitializer \/ Store
           \/ Initialize
Guard(t) == TestFlag(t) \/ TestGuardVar(t)

Next == Start \/ \E t \in Thread : Guard(t) \/ \E f \in Func : Call(t, f)

\* Started threads run: the package inits are straight-line code without locks.
Spec == Init /\ [][Next]_vars /\ WF_vars(Start) /\ \A t \in Thread : WF_vars(Guard(t))

-----------------------------------------------------------------------------
\* Properties

\* Does the compiler mark the begin of the initialisers, where the plugin looks for it?
Marked(p) == p.literal /\ p.preinitialize
\* Is the patch loaded before the base is initialised?
PatchFirst(p) == p.schedule # <<>> /\ p.schedule[1] = "patch"

TypeOK ==
  /\ schedule \in Seq(Image) /\ image \in Image
  /\ applied \in [Image -> BOOLEAN] /\ flag \in [Func -> BOOLEAN]
  /\ guardVar \in {"None", "instance"}
  /\ pc \in {"none"} \cup DOMAIN Body.block /\ i \in Nat \ {0}
  /\ runs \in [DOMAIN program.callee -> Nat] /\ spawned \subseteq Thread
  /\ \A t \in Thread : at[t].is \in {"idle", "called", "routed", "ran"}

\* Base and patch together run each initialiser exactly once, in whatever order and
\* however often their package inits are called: the accessors make them share one flag.
InitialisedOnce ==
  /\ [](\A k \in DOMAIN runs : runs[k] <= 1)
  /\ program.schedule # <<>> ~> (Initialized /\ \A k \in DOMAIN runs : runs[k] = 1)

\* No call ends in "should not reach here" (patcher.cj:609), unless the compiler does
\* not mark the begin of the initialisers and a thread races them.  With the mark,
\* calls from initialisers and from the threads they start run the new code of
\* changed functions if the patch comes first: the stub tests expect it ("Hello from
\* stub", guard_init.cj.expected.stub).  A patch that comes late does nothing, and
\* other functions run their old code.
InitialisersArePatched ==
  \A t \in Thread : at[t].is = "ran" =>
    /\ (Marked(program) \/ program.spawns = {}) => at[t].code # "should not reach here"
    /\ \/ Marked(program) /\ PatchFirst(program) /\ at[t].func \in program.changed /\ at[t].code = "new"
       \/ (~Marked(program) \/ ~PatchFirst(program) \/ at[t].func \notin program.changed)
            /\ (Marked(program) => at[t].code = "old")

\* The stores of the initialisers and the two reads of a guard amount to one exchange
\* of all changed functions, before any call if the begin is marked.
Swap == INSTANCE HotSwap WITH
  changed <- program.changed,
  marked  <- Marked(program),
  active  <- IF guardVar = "instance" THEN {f \in Func : flag[f]} ELSE {},
  started <- \E t \in Thread : at[t] # Idle,
  at      <- [t \in Thread |-> IF at[t].is = "routed" THEN Called(at[t].func) ELSE at[t]]
ExchangesAtOnce == Swap!Spec
=============================================================================
