------------------------- MODULE MCDownloadProgress -------------------------
(* Model checking of DownloadProgress: a file of four blocks.              *)
EXTENDS DownloadProgress

MCPercents == {0, 25, 50, 75, 100}
=============================================================================
