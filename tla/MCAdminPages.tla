----------------------------- MODULE MCAdminPages -----------------------------
(***************************************************************************)
(* Small instances of AdminPages for TLC.                                  *)
(***************************************************************************)
EXTENDS AdminPages, TLC

\* Tabs are interchangeable, and so are the values drawn for cookies.
TabSymmetry == Permutations(Tabs) \cup Permutations(Cookies)

=============================================================================
