--------------------------- MODULE MCRemediation ---------------------------
(* Instances of Remediation for TLC. *)
EXTENDS Remediation

\* Applied by the operator alone, as Reconcile leaves it, or also, with the
\* same values, by somebody else.
Either == {{}, {"other"}}
Alone  == {{}}
=============================================================================
