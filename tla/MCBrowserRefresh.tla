------------------------- MODULE MCBrowserRefresh --------------------------
(***************************************************************************)
(* Request threads are interchangeable.                                    *)
(***************************************************************************)
EXTENDS BrowserRefresh, TLC

Symmetric == Permutations(Readers)
=============================================================================
