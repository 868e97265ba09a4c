---------------------------- MODULE MCBrowserSession ----------------------------
(* One user's browser; slots and tabs are interchangeable. *)
EXTENDS BrowserSession, TLC

Symmetry == Permutations(Slot) \cup Permutations(Tab)
=============================================================================
