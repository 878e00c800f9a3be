--------------------------- MODULE MCPlaybackEngine ---------------------------
(* An instance of PlaybackEngine for TLC. *)
EXTENDS PlaybackEngine

CONSTANTS ra, rb

\* rb has no recording of the second surah.
OneGap == {<<ra, 1>>, <<ra, 2>>, <<rb, 1>>}

\* The first surah's last ayah: a skip goes back in its file, the end on to the next file.
LastOfTheFirst == {<<1, 2>>}
===============================================================================
