----------------------------- MODULE MCOwnership -----------------------------
(***************************************************************************)
(* Two builders and two finalizers on one repository.                      *)
(***************************************************************************)
EXTENDS Ownership

CONSTANTS driver, otherDriver, finalizer, otherFinalizer

MCBuilders == {driver, otherDriver}

MCFinalizers == {finalizer, otherFinalizer}
=============================================================================
