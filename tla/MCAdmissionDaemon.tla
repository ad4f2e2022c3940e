-------------------------- MODULE MCAdmissionDaemon --------------------------
(* Instance of AdmissionDaemon: two calls of one host, for two jobs of one  *)
(* run.                                                                     *)
EXTENDS AdmissionDaemon

MCPartOf == [k \in Keys |-> IF k = "k1" THEN "p1" ELSE "p2"]
MCRunOf == [p \in Participants |-> "r1"]
MCHostOf == [k \in Keys |-> "h1"]
=============================================================================
