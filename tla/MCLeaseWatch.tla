---------------------------- MODULE MCLeaseWatch ----------------------------
(* LeaseWatch with three writes and a channel of two slots.  The channel is   *)
(* smaller than in the code (4) so that it fills up; the prefixes are        *)
(* interchangeable.                                                          *)
EXTENDS LeaseWatch
=============================================================================
