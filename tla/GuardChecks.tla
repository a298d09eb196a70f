---------------------------- MODULE GuardChecks ----------------------------
(***************************************************************************)
(* The check in front of a patchable function: cjc-plugin inserts it       *)
(* (patcher.cj), patch-gen recognises and removes it (PatchGen.cpp), the   *)
(* compiled program runs through it.                                       *)
(*                                                                         *)
(* A body is the graph of its blocks; a block is its expressions ("code")  *)
(* and the successors of its terminator ("to"): two successors are a       *)
(* branch, true first, one a goto, none an exit or a raise.  The           *)
(* expressions of the original code are Ops, those of the check are        *)
(* strings, and so are the blocks that it adds.  In the appended blocks    *)
(* only the expressions that decide where control and the instance go are  *)
(* kept.                                                                   *)
(***************************************************************************)
EXTENDS Naturals, Sequences

CONSTANTS Block, Op,
          Source       \* the bodies considered

NewBlock == {"old entry", "check", "call", "throw", "found", "made",
             "synthetic", "new entry", "throwing"}
NewOp == {"load flag", "not", "load guard var", "tag is false", "use instance",
          "make instance", "apply synthetic constructor", "invoke guard method",
          "raise"}

\* b is a body of blocks B and expressions O; successors are not asked to exist.
IsBody(b, B, O) ==
  /\ b = [entry |-> b.entry, block |-> b.block]
  /\ b.block = [l \in DOMAIN b.block |-> b.block[l]]
  /\ b.entry \in DOMAIN b.block /\ DOMAIN b.block \subseteq B
  /\ \A l \in DOMAIN b.block : b.block[l] \in [code : Seq(O), to : Seq(B)]

Code(b, l) == b.block[l].code
To(b, l)   == b.block[l].to
Seg(c, t)  == [code |-> c, to |-> t]

\* Every successor is a block of the body.
Closed(b) ==
  \A l \in DOMAIN b.block :
    \A i \in 1 .. Len(To(b, l)) : To(b, l)[i] \in DOMAIN b.block

Outcome == {"returned", "patched", "should not reach here"}

ASSUME LabelAssumption ==
  /\ Block \cap (NewBlock \cup Outcome \cup {"idle", "routed"}) = {}
  /\ Op \cap NewOp = {}
\* An entry holds the declarations and goes on to code, never just to itself.
ASSUME SourceAssumption ==
  \A b \in Source :
    IsBody(b, Block, Op) /\ Closed(b) /\ To(b, b.entry) # <<b.entry>>

VARIABLES kind,      \* what is made patchable
          plain,     \* history: the body that the guard protects
          body,
          stage,
          flag, guardVar,      \* the globals that the check reads
          at,                  \* the block a call is about to run
          loaded, receiver     \* the call's copies of the guard variable

call == <<at, loaded, receiver>>
vars == <<kind, plain, body, stage, flag, guardVar, at, loaded, receiver>>

None == "none"
Installed == "instance of the patch class"
Fresh == "new instance of the package-init guard class"

\* The running program finds in the globals what a loaded patch, or none, put there.
Init ==
  /\ kind \in {"function", "constructor", "package init"}
  /\ plain \in Source /\ body = plain
  /\ stage = "source"
  /\ flag \in BOOLEAN /\ guardVar \in {None, Installed}
  /\ at = "idle" /\ loaded = None /\ receiver = None

-----------------------------------------------------------------------------
\* Insertion (cjc-plugin)

Successors(b, l) == {To(b, l)[i] : i \in 1 .. Len(To(b, l))}
IsBranch(b, l) == Len(To(b, l)) = 2
SingleSuccessor(b) == Len(To(b, b.entry)) = 1
Predecessors(b, l) == {k \in DOMAIN b.block : l \in Successors(b, k)}

FlagCheck == <<"load flag", "not">>
VarCheck  == <<"load guard var", "tag is false">>

\* HOTFIX_GEN_THROW_STUBS.
Throwing ==
  [ entry |-> "new entry",
    block |-> [ l \in {"new entry", "throwing"} |->
                IF l = "new entry" THEN Seg(<<>>, <<"throwing">>) ELSE Seg(<<"raise">>, <<>>) ] ]

\* The call of the guard method; a constructor's is in its synthetic twin.
PatchCall(k) ==
  IF k = "constructor" THEN "apply synthetic constructor" ELSE "invoke guard method"

GuardedBranchSwapped(b, k) ==
  LET own == To(b, b.entry)[1]
  IN  [ entry |-> b.entry, block |->
          [ l \in DOMAIN b.block \cup {"check", "call", "throw"} |->
            CASE l = b.entry -> Seg(Code(b, l) \o FlagCheck, <<"check", own>>)
              [] l = "check" -> Seg(VarCheck, <<"call", "throw">>)
              [] l = "call"  -> Seg(<<PatchCall(k)>>, <<>>)
              [] l = "throw" -> Seg(<<"raise">>, <<>>)
              [] OTHER       -> b.block[l] ] ]

Guarded(b, k) ==
  LET own == To(b, b.entry)[1]
  IN  [ entry |-> b.entry, block |->
          [ l \in DOMAIN b.block \cup {"check", "call", "throw"} |->
            CASE l = b.entry -> Seg(Code(b, l) \o FlagCheck, <<own, "check">>)
              [] l = "check" -> Seg(VarCheck, <<"call", "throw">>)
              [] l = "call"  -> Seg(<<PatchCall(k)>>, <<>>)
              [] l = "throw" -> Seg(<<"raise">>, <<>>)
              [] OTHER       -> b.block[l] ] ]

GuardedInitSwapped(b) ==
  [ entry |-> b.entry, block |->
      [ l \in DOMAIN b.block \cup {"old entry", "check", "found", "made", "call"} |->
        CASE l = b.entry     -> Seg(FlagCheck, <<"old entry", "check">>)
          [] l = "old entry" -> b.block[b.entry]
          [] l = "check"     -> Seg(VarCheck, <<"made", "found">>)
          [] l = "found"     -> Seg(<<"use instance">>, <<"call">>)
          [] l = "made"      -> Seg(<<"make instance">>, <<"call">>)
          [] l = "call"      -> Seg(<<"invoke guard method">>, <<>>)
          [] OTHER           -> b.block[l] ] ]

GuardedInit(b) ==
  [ entry |-> b.entry, block |->
      [ l \in DOMAIN b.block \cup {"old entry", "check", "found", "made", "call"} |->
        CASE l = b.entry     -> Seg(FlagCheck, <<"old entry", "check">>)
          [] l = "old entry" -> b.block[b.entry]
          [] l = "check"     -> Seg(VarCheck, <<"found", "made">>)
          [] l = "found"     -> Seg(<<"use instance">>, <<"call">>)
          [] l = "made"      -> Seg(<<"make instance">>, <<"call">>)
          [] l = "call"      -> Seg(<<"invoke guard method">>, <<>>)
          [] OTHER           -> b.block[l] ] ]

ReplaceBodyWithThrow ==
  /\ stage = "source" /\ kind # "package init" /\ plain # Throwing
  /\ plain' = Throwing /\ body' = Throwing
  /\ UNCHANGED <<kind, stage, flag, guardVar, call>>

GenGuardChecks ==
  /\ stage = "source" /\ kind # "package init"
  /\ SingleSuccessor(body)
  /\ body' = Guarded(body, kind) /\ stage' = "guarded"
  /\ UNCHANGED <<kind, plain, flag, guardVar, call>>

GenPackageInitGuardChecks ==
  /\ stage = "source" /\ kind = "package init"
  /\ IsBranch(body, body.entry) /\ Predecessors(body, body.entry) = {}
  /\ body' = GuardedInit(body) /\ stage' = "guarded"
  /\ UNCHANGED <<kind, plain, flag, guardVar, call>>

\* The exceptions of both.
Refuse ==
  /\ stage = "source"
  /\ IF kind = "package init"
     THEN ~IsBranch(body, body.entry) \/ Predecessors(body, body.entry) # {}
     ELSE ~SingleSuccessor(body)
  /\ stage' = "refused"
  /\ UNCHANGED <<kind, plain, body, flag, guardVar, call>>

-----------------------------------------------------------------------------
\* Removal (patch-gen, from the fixed version)

Recognised(b, k) ==
  /\ IsBranch(b, b.entry)
  /\ IsBranch(b, To(b, b.entry)[2])
  /\ IF k = "package init"
     THEN Len(To(b, To(b, To(b, b.entry)[2])[1])) = 1
     ELSE LET c == Code(b, b.entry)
          IN  Len(c) >= 2 /\ SubSeq(c, Len(c) - 1, Len(c)) = FlagCheck

UnguardedKeepingOwn(b) ==
  LET own   == To(b, b.entry)[1]
      check == To(b, b.entry)[2]
      c     == Code(b, b.entry)
  IN  [ entry |-> b.entry, block |->
          [ l \in DOMAIN b.block
                    \ {check, To(b, check)[1], To(b, check)[2]} |->
            IF l = b.entry
            THEN Seg(SubSeq(c, 1, Len(c) - 2) \o Code(b, own), To(b, own))
            ELSE b.block[l] ] ]

UnguardedKeepingBranch(b) ==
  LET own   == To(b, b.entry)[1]
      check == To(b, b.entry)[2]
      c     == Code(b, b.entry)
  IN  [ entry |-> b.entry, block |->
          [ l \in DOMAIN b.block
                    \ {check, To(b, check)[1], To(b, check)[2], own} |->
            IF l = b.entry
            THEN Seg(SubSeq(c, 1, Len(c) - 2) \o Code(b, own), To(b, l))
            ELSE b.block[l] ] ]

\* The function's own first block is merged into the entry.
Unguarded(b) ==
  LET own   == To(b, b.entry)[1]
      check == To(b, b.entry)[2]
      c     == Code(b, b.entry)
  IN  [ entry |-> b.entry, block |->
          [ l \in DOMAIN b.block
                    \ {check, To(b, check)[1], To(b, check)[2], own} |->
            IF l = b.entry
            THEN Seg(SubSeq(c, 1, Len(c) - 2) \o Code(b, own), To(b, own))
            ELSE b.block[l] ] ]

UnguardedInitSameEntry(b) ==
  LET check == To(b, b.entry)[2]
      found == To(b, check)[1]
  IN  [ entry |-> b.entry,
        block |-> [ l \in DOMAIN b.block
                           \ {b.entry, check, found, To(b, check)[2],
                              To(b, found)[1]} |-> b.block[l] ] ]

UnguardedInit(b) ==
  LET check == To(b, b.entry)[2]
      found == To(b, check)[1]
  IN  [ entry |-> To(b, b.entry)[1],
        block |-> [ l \in DOMAIN b.block
                           \ {b.entry, check, found, To(b, check)[2],
                              To(b, found)[1]} |-> b.block[l] ] ]

\* A version that nothing has run yet goes to patch-gen.  If the shape is not
\* the expected one it gives up and writes nothing.
RemoveGuardChecks ==
  /\ stage = "guarded" /\ at = "idle"
  /\ IF Recognised(body, kind)
     THEN /\ body' = IF kind = "package init" THEN UnguardedInit(body) ELSE Unguarded(body)
          /\ stage' = "removed"
     ELSE stage' = "unrecognised" /\ UNCHANGED body
  /\ UNCHANGED <<kind, plain, flag, guardVar, call>>

-----------------------------------------------------------------------------
\* Calls of the guarded function in the running program

\* The code at the current block; the synthetic constructor is one block.
Here == IF at = "synthetic" THEN <<"invoke guard method">> ELSE Code(body, at)
InCall == stage = "guarded" /\ at \in DOMAIN body.block \cup {"synthetic"}
EndsIn(o) == Here # <<>> /\ Here[Len(Here)] = o

Call ==
  /\ stage = "guarded" /\ at \in {"idle"} \cup Outcome
  /\ at' = body.entry /\ loaded' = None /\ receiver' = None
  /\ UNCHANGED <<kind, plain, body, stage, flag, guardVar>>

TestFlag ==
  /\ InCall /\ EndsIn("not")
  /\ at' = To(body, at)[IF ~flag THEN 1 ELSE 2]
  /\ UNCHANGED <<kind, plain, body, stage, flag, guardVar, loaded, receiver>>

\* Some carries the tag false.  A function uses the loaded value itself.
TestGuardVar ==
  /\ InCall /\ EndsIn("tag is false")
  /\ loaded' = guardVar
  /\ receiver' = IF kind = "package init" THEN receiver ELSE loaded'
  /\ at' = To(body, at)[IF loaded' # None THEN 1 ELSE 2]
  /\ UNCHANGED <<kind, plain, body, stage, flag, guardVar>>

UseInstance ==
  /\ InCall /\ EndsIn("use instance")
  /\ receiver' = loaded /\ at' = To(body, at)[1]
  /\ UNCHANGED <<kind, plain, body, stage, flag, guardVar, loaded>>

\* The guard variable gets back what was loaded from it, not the new instance.
MakeInstance ==
  /\ InCall /\ EndsIn("make instance")
  /\ receiver' = Fresh /\ guardVar' = loaded /\ at' = To(body, at)[1]
  /\ UNCHANGED <<kind, plain, body, stage, flag, loaded>>

ApplySyntheticConstructor ==
  /\ InCall /\ EndsIn("apply synthetic constructor")
  /\ at' = "synthetic"
  /\ UNCHANGED <<kind, plain, body, stage, flag, guardVar, loaded, receiver>>

InvokeGuardMethod ==
  /\ InCall /\ EndsIn("invoke guard method")
  /\ at' = "patched"
  /\ UNCHANGED <<kind, plain, body, stage, flag, guardVar, loaded, receiver>>

Raise ==
  /\ InCall /\ EndsIn("raise")
  /\ at' = IF at = "throw" THEN "should not reach here" ELSE "returned"
  /\ UNCHANGED <<kind, plain, body, stage, flag, guardVar, loaded, receiver>>

\* A block of the function's own code; what its branches test is left open.
RunOwnBlock ==
  /\ InCall /\ (Here = <<>> \/ Here[Len(Here)] \in Op)
  /\ \/ \E i \in 1 .. Len(To(body, at)) : at' = To(body, at)[i]
     \/ To(body, at) = <<>> /\ at' = "returned"
  /\ UNCHANGED <<kind, plain, body, stage, flag, guardVar, loaded, receiver>>

Continue ==
  \/ TestFlag \/ TestGuardVar \/ UseInstance \/ MakeInstance
  \/ ApplySyntheticConstructor \/ InvokeGuardMethod \/ Raise \/ RunOwnBlock

Next ==
  \/ ReplaceBodyWithThrow \/ GenGuardChecks \/ GenPackageInitGuardChecks \/ Refuse
  \/ RemoveGuardChecks
  \/ Call \/ Continue

Spec == Init /\ [][Next]_vars
FairSpec == Spec /\ WF_vars(Continue)

-----------------------------------------------------------------------------
TypeOK ==
  /\ kind \in {"function", "constructor", "package init"}
  /\ plain \in Source \cup {Throwing}
  /\ IsBody(body, Block \cup NewBlock, Op \cup NewOp)
  /\ stage \in {"source", "refused", "guarded", "removed", "unrecognised"}
  /\ flag \in BOOLEAN /\ guardVar \in {None, Installed}
  /\ at \in Block \cup NewBlock \cup Outcome \cup {"idle"}
  /\ loaded \in {None, Installed} /\ receiver \in {None, Installed, Fresh}

\* What the merging of the entry with its successor takes for granted of the
\* compiler's code: nothing else leads to either.  For package inits the plugin
\* checks the first of these itself.
EntryIsLinear ==
  \/ kind = "package init"
  \/ LET own == To(plain, plain.entry)[1]
     IN  Predecessors(plain, plain.entry) = {} /\ Predecessors(plain, own) = {plain.entry}

\* The original code, as far as the two tools can give it back: the entry and
\* its successor are one block, or the entry of a package init has a new name.
Merged(b) ==
  LET own == To(b, b.entry)[1]
  IN  [ entry |-> b.entry,
        block |-> [ l \in DOMAIN b.block \ {own} |->
                    IF l = b.entry
                    THEN Seg(Code(b, b.entry) \o Code(b, own), To(b, own))
                    ELSE b.block[l] ] ]

Renamed(b) ==
  [ entry |-> "old entry",
    block |-> [ l \in (DOMAIN b.block \ {b.entry}) \cup {"old entry"} |->
                IF l = "old entry" THEN b.block[b.entry] ELSE b.block[l] ] ]

\* patch-gen gives back the code that the plugin guarded, expression for
\* expression, and none of the plugin's blocks stays behind.
RoundTrip ==
  stage = "removed" =>
    body = IF kind = "package init" THEN Renamed(plain) ELSE Merged(plain)

\* patch-gen recognises every guard that the plugin makes: the two programs
\* agree on the shape of the blocks.
GuardsRecognised == stage # "unrecognised"

\* Neither tool leaves a branch to a block that it removed or never made.
NoDanglingBranch ==
  stage \in {"guarded", "removed"} /\ EntryIsLinear => Closed(body)

\* A guard method is only invoked on an instance; the option is never empty.
InvokedOnInstance == at = "patched" => receiver # None

\* Where a call is for the code without guards, whose entry is e.
Seen(l, e, f) ==
  CASE l = "old entry" -> e
    [] (l = e /\ f) \/ l \in {"check", "found", "made", "call", "throw", "synthetic"} -> "routed"
    [] OTHER -> l

Promise ==
  INSTANCE Replaceable WITH
    available <- kind = "package init" \/ guardVar # None,
    at <- Seen(at, plain.entry, flag)

\* While the flag is off a call runs the original blocks in their order; while
\* it is on it arrives at the guard method, and it throws only without instance.
BehavesAsPromised == Promise!FairSpec
=============================================================================
