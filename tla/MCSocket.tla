----------------------------- MODULE MCSocket ------------------------------
(* Socket with two topics: every odd message is about the first, every     *)
(* even one about the second.                                              *)
EXTENDS Socket

TwoTopics == [m \in 1 .. 4 |-> IF m % 2 = 1 THEN {1} ELSE {2}]

-----------------------------------------------------------------------------
(* One endpoint, one message of the peers, one waiting signal. *)
Setting(kinds, ops, sends, timeouts) ==
    [kinds |-> kinds, pipes |-> 1, ops |-> ops, sends |-> sends, ins |-> 1, bus |-> 1,
     timeouts |-> timeouts, rough |-> FALSE]

(* One send and any receives; a SUB socket subscribes as well. *)
Exchange(kinds, timeouts) ==
    Setting(kinds, {"connect", "send", "recv"} \cup (IF kinds = {"sub"} THEN {"subscribe"} ELSE {}),
            1, timeouts)

(* Every call; timeouts set and unset between sends; rough peers of the    *)
(* sockets that look at headers, alone or in a device; receives that time  *)
(* out where they do not with two endpoints.                               *)
SendsAndReceives == {"connect", "send", "try_send", "recv", "try_recv"}

OneEndpoint ==
    {[u EXCEPT !.ins = 2] :
        u \in {Setting(AllKinds \ {"sub"}, SendsAndReceives, 2, {"send"}),
               Setting({"sub", "pub"}, SendsAndReceives \cup {"subscribe", "unsubscribe"}, 2, {"send"}),
               Setting({"push", "req", "rep"},
                       {"connect", "send", "recv", "send_timeout", "linger"}, 1, {}),
               [Setting({"rep", "resp"}, {"connect", "send", "recv", "plug"}, 1, {})
                   EXCEPT !.rough = TRUE],
               Exchange({"bus", "surv", "rep"}, {"recv"}), Exchange({"sub"}, {"recv"})}}
    \cup {[Setting({"req", "surv"}, {"connect", "send", "recv", "plug"}, 1, {})
              EXCEPT !.rough = TRUE]}

(* Two endpoints; for PULL, the timeout set and unset between receives.    *)
(* The requesters are accepted, those of a REP socket with a request each. *)
TwoEndpoints ==
    {[u EXCEPT !.pipes = 2] :
        u \in {Exchange(AllKinds \ {"bus", "sub", "surv", "rep"}, {"recv"}), Exchange({"surv"}, {}),
               [Setting({"rep"}, {"bind", "send", "recv"}, 1, {}) EXCEPT !.ins = 2],
               Setting({"resp"}, {"bind", "send", "recv"}, 1, {}),
               Setting({"pull"}, {"connect", "recv", "recv_timeout"}, 0, {})}}

Calls == OneEndpoint \cup TwoEndpoints

(* Endpoints come and go, some with two signals waiting, and have          *)
(* priorities where the protocol uses them.                                *)
ComeAndGo(kinds) ==
    Setting(kinds, {"connect", "bind", "send", "recv", "close_endpoint", "close"}, 1, {})

Endpoints ==
    {ComeAndGo(AllKinds \ {"push", "pair", "pub", "rep"}),
     [ComeAndGo({"push", "pair", "pub", "rep"}) EXCEPT !.bus = 2],
     Setting({"push", "pull"}, {"connect", "bind", "send_priority", "recv_priority"}, 0, {})}

(* Calls that block. *)
BlockingCalls == {Exchange(AllKinds \ {"sub"}, {}), Exchange({"sub"}, {})}

(* Requests, surveys and replies, with the timeouts given. *)
Asking(k, sends, timeouts) ==
    {[Setting({k}, {"connect", "send", "recv"}, sends, timeouts) EXCEPT !.ins = 0, !.bus = 2]}
TwoTimedRequests == Asking("req", 2, {"recv"})
OneRequest == Asking("req", 1, {})
OneSurvey == Asking("surv", 1, {})
TimedReplies == {[Setting({"rep"}, {"connect", "send", "recv"}, 2, {"send"}) EXCEPT !.ins = 2]}
=============================================================================
