--------------------------- MODULE MCSupervisors ---------------------------
(***************************************************************************)
(* One session, two recordings, two relays.                               *)
(***************************************************************************)
EXTENDS Supervisors

CONSTANTS a, r1, r2, t1, t2

OneSession == {a}
TwoRecordings == {r1, r2}
TwoRelays == {t1, t2}
=============================================================================
