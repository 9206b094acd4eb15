-------------------------- MODULE MCProviderSession --------------------------
(***************************************************************************)
(* ProviderSession with its conversations as model values.                 *)
(***************************************************************************)
EXTENDS ProviderSession, TLC

CONSTANTS m1, c1

=============================================================================
