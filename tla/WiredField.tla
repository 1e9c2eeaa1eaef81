----------------------------- MODULE WiredField -----------------------------
(***************************************************************************)
(* What is promised of the fields that need no check (README.md: "every    *)
(* construction in the package wiring the field"): which ones they are is  *)
(* settled before the program runs, and no object ever holds nil in one of *)
(* them, from its construction on.                                         *)
(***************************************************************************)
CONSTANT Fields
VARIABLES
    promised,  \* the fields that are taken to be set
    nils       \* the fields some object has held nil in
Init == promised \in SUBSET Fields /\ nils = {}
\* Objects are built and written; what is promised of them is kept.
Use ==
    /\ nils \subseteq nils'
    /\ nils' \in SUBSET (Fields \ promised)
    /\ UNCHANGED promised
Spec == Init /\ [][Use]_<<promised, nils>>
=============================================================================
