----------------------------- MODULE MCFakeClock -----------------------------
(* Instances of FakeClock for TLC.                                         *)
EXTENDS FakeClock

=============================================================================
