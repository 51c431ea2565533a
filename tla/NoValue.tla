------------------------------ MODULE NoValue ------------------------------
(***************************************************************************)
(* The value of what is absent, Option::None of the code.  It is declared  *)
(* once for the modules whose theorems stand together.                     *)
(***************************************************************************)
CONSTANT None

=============================================================================
