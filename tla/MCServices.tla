----------------------------- MODULE MCServices -----------------------------
(***************************************************************************)
(* An instance for TLC of the components that share no variable with each  *)
(* other: albums with their cover cache, radio stations, access and        *)
(* playback.  Since a step of one leaves the others as they are, and       *)
(* each property speaks of one of them, checking each from its initial     *)
(* states while the others rest shows what checking all their              *)
(* interleavings would.  The component that moves is in focus.             *)
(***************************************************************************)
EXTENDS MCAlbums, Stations, Access, Playback, TLC

VARIABLE focus   \* the component that moves

servicesVars ==
    <<focus, albumVars, stationVars, accessVars, playbackVars>>

(* A component that rests does so in one of its initial states.            *)
ServicesInit ==
    /\ focus \in {"albums", "stations", "access", "playback"}
    /\ AlbumsInit   /\ (focus = "albums"   \/ cover = None)
    /\ StationsInit /\ (focus = "stations" \/ premium)
    /\ AccessInit
    /\ PlaybackInit /\ (focus = "playback" \/ stored = 0)

ServicesNext ==
    \/ /\ focus = "albums" /\ AlbumsNext
       /\ UNCHANGED <<focus, stationVars, accessVars, playbackVars>>
    \/ /\ focus = "stations" /\ StationsNext
       /\ UNCHANGED <<focus, albumVars, accessVars, playbackVars>>
    \/ /\ focus = "access" /\ AccessNext
       /\ UNCHANGED <<focus, albumVars, stationVars, playbackVars>>
    \/ /\ focus = "playback" /\ PlaybackNext
       /\ UNCHANGED <<focus, albumVars, stationVars, accessVars>>

ServicesSpec == ServicesInit /\ [][ServicesNext]_servicesVars

-----------------------------------------------------------------------------
(* Every component's variables have their types, in particular no station  *)
(* loses its URL and no use of a code leaves the row half cleared.         *)
ServicesTypeOK ==
    /\ AlbumsTypeOK
    /\ StationsTypeOK
    /\ AccessTypeOK
    /\ PlaybackTypeOK

-----------------------------------------------------------------------------
(* Lists of at most two items, new ones and ones that have an id.          *)
MCPayloads ==
    LET Items == [id : 0..1, url : Urls]
    IN  {<<>>} \cup [{1} -> Items] \cup [1..2 -> Items]

(* Two rungs of each ladder, the lowest and the next.                      *)
MCRungs ==
    [login |-> <<[fails |-> 2, span |-> 1], [fails |-> 3, span |-> 2]>>,
     reset |-> <<[fails |-> 2, span |-> 1], [fails |-> 4, span |-> 2]>>]

(* The actors of a component are alike.  The components share two sets of  *)
(* model values, so that one permutation serves whichever is in focus.     *)
Actors == Permutations(Procs) \cup Permutations(Loaders)
=============================================================================
