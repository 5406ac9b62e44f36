--------------------------- MODULE MCStreamPusher --------------------------
(***************************************************************************)
(* Two pushers over two sessions, of every pair of protocols.              *)
(***************************************************************************)
EXTENDS StreamPusher, TLC

CONSTANTS a, b, t1, t2

TwoSessions == {a, b}
TwoPushers == {t1, t2}
Announcing == {"rtmp", "rtsp", "whip"}
Same == Permutations({a, b}) \cup Permutations({t1, t2})
=============================================================================
