----------------------------- MODULE MCGameForm -----------------------------
EXTENDS GameForm

(* GameForm: a container with saves, a set of two files, a single file. *)
MCRoms ==
  [ a |-> [files |-> <<"a.romx">>, romx |-> TRUE, region |-> TRUE],
    s |-> [files |-> <<"s.cue", "s.bin">>, romx |-> FALSE, region |-> FALSE],
    p |-> [files |-> <<"p.gb">>, romx |-> FALSE, region |-> FALSE] ]
=============================================================================
