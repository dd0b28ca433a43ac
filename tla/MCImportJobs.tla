---------------------------- MODULE MCImportJobs ----------------------------
(***************************************************************************)
(* Instances of ImportJobs for TLC: a job of two links for an album, and a *)
(* job of one link, which is the first link of the other; or one job that  *)
(* names its first link twice.                                             *)
(***************************************************************************)
EXTENDS ImportJobs

CONSTANTS j1, j2, urlA, urlB

MCJobOf == [i \in Items |-> IF i <= 2 THEN j1 ELSE j2]
OneJobOf == [i \in Items |-> j1]
MCUrlOf == [i \in Items |-> IF i = 2 THEN urlB ELSE urlA]
=============================================================================
