---------------------------- MODULE MCHistoryLog ----------------------------
(* The log on three sectors of two records.                                *)
EXTENDS CircularHistoryLog
=============================================================================
