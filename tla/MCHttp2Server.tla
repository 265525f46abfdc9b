---------------------------- MODULE MCHttp2Server ----------------------------
(***************************************************************************)
(* Instances of Http2Server for TLC: what the peer may send, in the sets   *)
(* the configurations choose from.                                         *)
(***************************************************************************)
EXTENDS Http2Server

List(kind) == [kind |-> kind, tag |-> 0]
Headers(id, kind, end) ==
    [kind |-> "Headers", stream |-> id, length |-> 1, pad |-> 0,
     fields |-> List(kind), end |-> end, whole |-> TRUE]
Settings(window) == SettingsFrame([NoParams EXCEPT !.window = window], FALSE)

(* A client that keeps to the protocol, and RST_STREAM and DATA crossing   *)
(* whatever the server does: streams opened, fed, ended and reset in every *)
(* order.                                                                  *)
Lifecycle ==
    {Settings(Absent)}
    \cup {SettingsFrame([NoParams EXCEPT !.frame = size], FALSE) :
            size \in {0, MaxFrameSize}}
    \cup {Headers(id, kind, end) : id \in {1, 3}, kind \in {"request", "wrong"},
                                end \in BOOLEAN}
    \cup {Data(id, 1, end) : id \in {1, 3}, end \in BOOLEAN}
    \cup {RstStream(id, "Cancel") : id \in {1, 3}}
    \cup {Headers(2, "request", TRUE), Goaway(0, "NoError")}

(* A peer that keeps to nothing: every kind of frame, whole and broken, on *)
(* the connection, on streams of either side and on idle ones, a header    *)
(* block in fragments and a padded body among them; and it moves every     *)
(* window it can, to nothing, to the limit and past it.                    *)
Anything ==
    {SettingsFrame(NoParams, ack) : ack \in BOOLEAN}
    \cup {[SettingsFrame(NoParams, FALSE) EXCEPT !.sized = FALSE],
          [SettingsFrame(NoParams, FALSE) EXCEPT !.stream = 1]}
    \cup {SettingsFrame([NoParams EXCEPT !.push = push], FALSE) :
            push \in 0..2}
    \cup {Headers(0, "request", TRUE), Headers(2, "request", TRUE)}
    \cup {[Headers(1, kind, end) EXCEPT !.whole = whole] :
            end \in BOOLEAN, whole \in BOOLEAN,
            kind \in {"request", "malformed", "broken", "informational"}}
    \cup {[Headers(1, "request", TRUE) EXCEPT !.pad = 2]}
    \cup {[kind |-> "Continuation", stream |-> id, length |-> 1,
           fields |-> List("request"), whole |-> whole] :
            id \in {1, 3}, whole \in BOOLEAN}
    \cup {Data(id, length, end) : id \in {0, 1, 3}, end \in BOOLEAN,
                                length \in {0, 2, DefaultWindow + 1}}
    \cup {[Data(1, 2, end) EXCEPT !.pad = pad] :
            pad \in {1, 3}, end \in BOOLEAN}
    \cup {RstStream(id, "Cancel") : id \in {0, 1, 3}}
    \cup {[RstStream(1, "Cancel") EXCEPT !.sized = FALSE]}
    \cup {[Ping(0, ack) EXCEPT !.sized = sized] :
            ack \in BOOLEAN, sized \in BOOLEAN}
    \cup {[Goaway(0, "NoError") EXCEPT !.sized = sized] : sized \in BOOLEAN}
    \cup {WindowUpdate(id, 1) : id \in {0, 1, 3}}
    \cup {[WindowUpdate(1, 1) EXCEPT !.sized = FALSE]}
    \cup [kind : {"Priority", "PushPromise", "Unknown", "Oversized"},
          stream : {1}, sized : BOOLEAN]
    \cup {Settings(window) : window \in {0, MaxStreamId, MaxStreamId + 1}}
    \cup {WindowUpdate(0, MaxStreamId), WindowUpdate(1, 0)}

(* A client whose header list is over the limit, and the body it had       *)
(* already sent behind it.                                                 *)
Oversized == {Settings(Absent), Headers(1, "malformed", FALSE),
              Data(1, 1, TRUE)}
===============================================================================
