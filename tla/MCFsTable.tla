----------------------------- MODULE MCFsTable -----------------------------
(* FsTable with strings and MIDI files as values.                           *)
EXTENDS FsTable, TLC

CONSTANTS text1, text2, song1, song2, c1, c2

Inferred == [v \in Values |-> IF v \in {song1, song2} THEN "mid" ELSE NoExt]
WithMidi == <<"siml", "mid">>
WithBinary == <<"siml", "simb">>
TableSymmetry ==
  Permutations(Clients) \cup Permutations({text1, text2}) \cup Permutations({song1, song2})
=============================================================================
