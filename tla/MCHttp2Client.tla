---------------------------- MODULE MCHttp2Client ----------------------------
(***************************************************************************)
(* Instances of Http2Client for TLC: what the server may send.             *)
(***************************************************************************)
EXTENDS Http2Client

Headers(id, kind, end) ==
    [kind |-> "Headers", stream |-> id, length |-> 1, pad |-> 0,
     fields |-> [kind |-> kind, tag |-> 0], end |-> end, whole |-> TRUE]

(* Answers to two requests, with 1xx heads and trailers, and a header      *)
(* block on a stream of the server's; resets, refusals and GOAWAYs         *)
(* crossing the requests; updates of the windows the bodies wait for.      *)
Answers ==
    {SettingsFrame(NoParams, FALSE)}
    \cup {Headers(id, "response", end) : id \in {1, 3}, end \in BOOLEAN}
    \cup {Headers(1, "informational", FALSE), Headers(2, "response", TRUE)}
    \cup {Data(1, 1, end) : end \in BOOLEAN}
    \cup {RstStream(1, "Cancel"), RstStream(1, "RefusedStream")}
    \cup {Goaway(last, "NoError") : last \in {0, 1}}
    \cup {WindowUpdate(id, 1) : id \in {0, 1}}
    \cup {Ping(1, TRUE)}
===============================================================================
