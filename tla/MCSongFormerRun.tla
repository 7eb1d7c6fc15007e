--------------------------- MODULE MCSongFormerRun ---------------------------
(* Two usable tracks and one without audio, two workers, a queue of two:    *)
(* tasks and end markers do not fit at once.                                *)
EXTENDS SongFormerRun

CONSTANTS t1, t2, t3, w1, w2

MCTracks == {t1, t2, t3}
MCUnusable == {t3}
MCWorkers == {w1, w2}
=============================================================================
