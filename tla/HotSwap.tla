------------------------------ MODULE HotSwap ------------------------------
(***************************************************************************)
(* What a hot fix promises of a program: the changed functions are         *)
(* exchanged all at once, or not at all; from then on every call of a      *)
(* changed function runs its new code, and every other call its old one.   *)
(* Only if the compiler marks where the variables' initialisers begin is   *)
(* that before any of the program's functions run; otherwise a call that   *)
(* races the exchange may end in an exception.                             *)
(***************************************************************************)
CONSTANTS Func, Thread

VARIABLES changed,     \* what the patch changes
          marked,      \* does the compiler mark the begin of the initialisers?
          active,      \* the functions whose new code is in force
          started,     \* has any of the program's functions been called?
          at           \* what a thread does: Idle, a function called, or the code it ran

Idle == [is |-> "idle"]
In(f) == [is |-> "called", func |-> f]
Ran(f, code) == [is |-> "ran", func |-> f, code |-> code]

vars == <<changed, marked, active, started, at>>

Init ==
  /\ changed \subseteq Func /\ marked \in BOOLEAN
  /\ active = {} /\ started = FALSE /\ at = [t \in Thread |-> Idle]

Exchange ==
  /\ marked => ~started
  /\ active' = changed
  /\ UNCHANGED <<changed, marked, started, at>>

Call(t, f) ==
  /\ at[t].is # "called"
  /\ started' = TRUE
  /\ at' = [at EXCEPT ![t] = In(f)]
  /\ UNCHANGED <<changed, marked, active>>

Run(t) ==
  /\ at[t].is = "called"
  /\ \/ at' = [at EXCEPT ![t] = Ran(@.func, IF @.func \in active THEN "new" ELSE "old")]
     \/ ~marked /\ at' = [at EXCEPT ![t] = Ran(@.func, "should not reach here")]
  /\ UNCHANGED <<changed, marked, active, started>>

Next == Exchange \/ \E t \in Thread : Run(t) \/ \E f \in Func : Call(t, f)

\* Nothing is called for ever without running.
Spec == Init /\ [][Next]_vars /\ \A t \in Thread : WF_vars(Run(t))
=============================================================================
