------------------------------- MODULE MCGit -------------------------------
(***************************************************************************)
(* Git for TLC.  What the files hold at the start is in the index as well; *)
(* edits that are not staged come from EditFile.                           *)
(***************************************************************************)
EXTENDS Git

IndexedInit == Init /\ index = work

IndexedSpec == IndexedInit /\ [][Next]_vars /\ Fairness
=============================================================================
