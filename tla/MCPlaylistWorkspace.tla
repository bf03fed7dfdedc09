------------------------ MODULE MCPlaylistWorkspace -------------------------
EXTENDS PlaylistWorkspace

(* PlaylistWorkspace: two playlists, a folder of games and one of images.  In the small ones
   an entry that is no object comes first, so that the plan's index of an item is not its
   place in the copy, and the other playlist is empty; in the others two items can be
   edited. *)
Item(folder, name, title, cover) == [game |-> <<folder, name>>, title |-> title, cover |-> cover]
MCPlaylists ==
  [ a |-> <<Item("d1", "x", "X", <<"i1", "y">>), Item("old", "y", "", NoFile)>>,
    b |-> <<Junk, Item("old", "x", "X", NoFile)>> ]
MCSmallPlaylists ==
  [ a |-> <<Junk, Item("d1", "x", "X", <<"i1", "y">>), Item("old", "y", "", NoFile)>>,
    b |-> <<>> ]
MCGameFolders == [d1 |-> {"x", "y"}]
MCImageFolders == [i1 |-> {"x", "z"}]
MCEdits == {[title |-> "N", cover |-> <<"i1", "z">>]}
=============================================================================
