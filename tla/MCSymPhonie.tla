----------------------------- MODULE MCSymPhonie -----------------------------
(***************************************************************************)
(* Instances of SymPhonie for TLC.  Calls are interchangeable: no operator *)
(* of the specification tells one call id from another.                    *)
(***************************************************************************)
EXTENDS SymPhonie, TLC

CONSTANTS c1, c2, r1, r2

OneCall == {c1}
TwoCalls == {c1, c2}
OneAccount == {r1}
TwoAccounts == {r1, r2}
OneOrNone == {r1, NoAccount}

CallSymmetry == Permutations(Cid)
=============================================================================
