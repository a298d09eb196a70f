---------------------------- MODULE SharedNames ----------------------------
(***************************************************************************)
(* The names of both programs: those that cjc-plugin makes (CjNames), and  *)
(* those that patch-gen makes to look for them (Cpp).                      *)
(***************************************************************************)
EXTENDS CjNames

Cpp == INSTANCE CppNames

MethodKind == {"Plain", "PackageInitCtor", "PackageInit", "PackageLiteralInit"}
AccessorKind == {"packageInit", "packageLiteralInit"}
=============================================================================
