------------------------------ MODULE MCAlbums ------------------------------
(***************************************************************************)
(* Payloads of albums for TLC.                                             *)
(***************************************************************************)
EXTENDS Albums

(* An edit of the tracks with a cover to download, and the removal of all  *)
(* tracks and of the cover.                                                *)
MCEdits == {[ids |-> None, cover |-> "url"], [ids |-> {}, cover |-> "clear"]}
=============================================================================
