----------------------------- MODULE MCAccounts -----------------------------
EXTENDS Accounts, TLC

Form(email, phone) == [email |-> email, phone |-> phone]

(* The admin's, two that have nothing in common, and one with the address  *)
(* of the first and the phone of the second of them.                       *)
MCAdminForm == Form("e0", "p0")
MCForms == {MCAdminForm, Form("e1", "p1"), Form("e2", "p2"), Form("e1", "p2")}

Symmetry == Permutations(Requests) \cup Permutations(Verifies)
=============================================================================
