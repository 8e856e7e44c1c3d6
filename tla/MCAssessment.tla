---------------------------- MODULE MCAssessment ----------------------------
(* Instance of Assessment for TLC. *)
EXTENDS Assessment

(* Below, on, between and above the clamps, and a score on every bound of   *)
(* the bands: four fields of 40 make 40 points, 100, 100, 40 and -20 make  *)
(* 70, and four of 100 make 100.                                           *)
AllPayloads == [Fields -> {Absent, Text, -20, 0, 40, 100, 150}]
=============================================================================
