-------------------------- MODULE MCProcessCapture --------------------------
(* A small instance of ProcessCapture for TLC.                             *)
EXTENDS CaptureRefinement

\* Both below what one stream can hold, one of them odd.
BothLimits == {1, 2}
=============================================================================
