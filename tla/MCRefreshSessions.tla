--------------------------- MODULE MCRefreshSessions ---------------------------
(* Families of one user.                                                    *)
EXTENDS RefreshSessions, TLC

CONSTANTS f1, f2, f3, alice

TwoFamilies == {f1, f2}
ThreeFamilies == {f1, f2, f3}
MCUsers == {alice}
MCSymmetry == Permutations(TwoFamilies)
================================================================================
