---------------------------- MODULE Replaceable ----------------------------
(***************************************************************************)
(* What cjc-plugin promises of a patchable function, package init included *)
(* (header of patcher.cj): while its flag is off a call runs the           *)
(* function's own code, block by block; while it is on none of its blocks  *)
(* after the entry runs and the call is routed to the guard method of the  *)
(* available instance, or ends in "should not reach here" without one.     *)
(***************************************************************************)
EXTENDS Naturals, Sequences

VARIABLES plain,      \* the body without guards: its entry and its blocks
          flag, available, at

vars == <<plain, flag, available, at>>

Init == at = "idle" /\ flag \in BOOLEAN /\ available \in BOOLEAN

Outcome == {"returned", "patched", "should not reach here"}

\* The compiler may still replace the code before the first call.
Compile ==
  /\ at = "idle"
  /\ plain' # plain
  /\ UNCHANGED <<flag, available, at>>

Call ==
  /\ at \in {"idle"} \cup Outcome
  /\ at' = IF flag THEN "routed" ELSE plain.entry
  /\ UNCHANGED <<plain, flag, available>>

Route ==
  /\ at = "routed"
  /\ at' = IF available THEN "patched" ELSE "should not reach here"
  /\ UNCHANGED <<plain, flag, available>>

Run ==
  /\ at \in DOMAIN plain.block
  /\ \E i \in 1 .. Len(plain.block[at].to) : at' = plain.block[at].to[i]
  /\ UNCHANGED <<plain, flag, available>>

Return ==
  /\ at \in DOMAIN plain.block
  /\ plain.block[at].to = <<>>
  /\ at' = "returned"
  /\ UNCHANGED <<plain, flag, available>>

Next == Compile \/ Call \/ Route \/ Run \/ Return

\* A call that was routed arrives; own code may loop.
Spec == Init /\ [][Next]_vars
FairSpec == Spec /\ WF_vars(Route)
=============================================================================
