---------------------------- MODULE MCUacpiHost ----------------------------
(* The instance of UacpiHost that TLC checks. *)
EXTENDS UacpiHost

CONSTANTS t1, t2, l1, l2

\* Events and the queue share nothing but the processor with the other objects.
MCUses == {{"spinlock", "mutex"}, {"event"}, {"work"}}
=============================================================================
