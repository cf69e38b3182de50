---------------------------- MODULE MCSessions ----------------------------
(* Two tabs of one browser.                                                *)
EXTENDS Sessions, TLC

CONSTANTS t1, t2, b1

MCBrowserOf == (t1 :> b1) @@ (t2 :> b1)
MCSymmetry == Permutations({t1, t2})
=============================================================================
