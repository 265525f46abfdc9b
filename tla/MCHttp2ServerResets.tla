------------------------- MODULE MCHttp2ServerResets -------------------------
(***************************************************************************)
(* Http2Server with a history of the streams it has written RST_STREAM on. *)
(***************************************************************************)
EXTENDS MCHttp2Server

VARIABLE resets

Written == out \o held
ResetsIn(frames) ==
    {frames[i].stream : i \in {j \in DOMAIN frames :
                                    frames[j].kind = "RstStream"}}

ResetsSpec ==
    /\ ServerInit /\ resets = {}
    /\ [][/\ ServerNext
          /\ resets' = resets \cup ResetsIn(Written')]_<<vars, resets>>

(* "A breach of one stream [is ended] with RST_STREAM", and "what was in   *)
(* flight when it was is let go": DATA within the window on a stream this  *)
(* side has reset never ends the connection.                               *)
LetGo ==
    [][\A f \in PeerFrames :
        (/\ f.kind = "Data" /\ f.stream \in resets
         /\ f.length <= receive
         /\ ReadFrame(f)) => ~over']_vars
===============================================================================
