--------------------------- MODULE MCGuardRuntime ---------------------------
(***************************************************************************)
(* Up to two initialisers that call any of two functions and may start a   *)
(* second thread, every set of changed functions, the shapes of package    *)
(* inits, and the orders in which up to three package inits are called.    *)
(***************************************************************************)
EXTENDS GuardRuntime

Schedules ==
  { <<"base">>, <<"base", "base">>, <<"patch", "base">>, <<"patch", "base", "base">>,
    <<"base", "patch">>, <<"base", "patch", "base">>, <<"patch", "patch", "base">> }

MCProgram ==
  UNION { [ callee : {c}, spawns : SUBSET DOMAIN c, changed : SUBSET Func, literal : BOOLEAN,
            preinitialize : BOOLEAN, schedule : Schedules ] : c \in BoundedSeq(Func, 2) }
=============================================================================
