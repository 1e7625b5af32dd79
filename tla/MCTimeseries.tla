----------------------------- MODULE MCTimeseries -----------------------------
(* Instances of Timeseries for TLC.                                          *)
EXTENDS Timeseries
=============================================================================
