---------------------------- MODULE MCUnitLeases ----------------------------
(* One job.  units.cfg: two awards, so that two hosts may meet.            *)
(* units_live.cfg: one award and its end, with more faults and a drain     *)
(* longer than the lease.                                                  *)
EXTENDS UnitLeases
=============================================================================
