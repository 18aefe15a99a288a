----------------------------- MODULE MCSession -----------------------------
(* Two probes that share a socket of the bridge. *)
EXTENDS Session

Interest(s, recv, send) == [sid |-> s, recv |-> recv, send |-> send]

SharedSocket == <<<<Interest(Left, TRUE, FALSE), Interest(Right, FALSE, TRUE)>>,
                  <<Interest(Left, TRUE, TRUE)>>>>

Scene(who, supplied, room) == [who |-> who, supplied |-> supplied, room |-> room]

(* The two probes; the bridge and a probe; the bridge with work to do. *)
ThreeScenes == {Scene({1, 2}, {}, Sid), Scene({NoPid, 2}, {}, Sid), Scene({NoPid}, Sid, {Left})}
=============================================================================
