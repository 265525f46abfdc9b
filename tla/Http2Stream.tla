----------------------------- MODULE Http2Stream -----------------------------
(***************************************************************************)
(* One stream of src/http2/stream.rs: its state, its two windows and what  *)
(* has arrived on it. A header list is abstracted to what the code tells   *)
(* apart in it (kind) and to the message it belongs to (tag); a body to    *)
(* its length.                                                             *)
(***************************************************************************)
EXTENDS Http2Window

States == {"Open", "HalfClosedLocal", "HalfClosedRemote", "Closed"}

(* The kinds of header list:                                               *)
(*   request        a head request_of accepts                              *)
(*   wrong          a head check accepts and request_of or response_of     *)
(*                  refuses (a pseudo-field missing, a content-length the  *)
(*                  body does not have)                                    *)
(*   malformed      a list message::check refuses                          *)
(*   broken         a block the HPACK decoder cannot decode                *)
(*   informational  a 1xx :status                                          *)
(*   response       the head of an answer                                  *)
(*   trailers       regular fields only                                    *)
(*   partial        a fragment that is not the last of its block           *)
(*   none           no list at all (None in the code)                      *)
FieldKinds == {"request", "wrong", "malformed", "broken", "informational",
               "response", "trailers", "partial", "none"}
Fields == [kind : FieldKinds, tag : Nat]
NoFields == [kind |-> "none", tag |-> 0]

(* ErrorCode, as far as the code chooses between its values.               *)
Codes == {"NoError", "Protocol", "Internal", "FlowControl", "StreamClosed",
          "FrameSize", "RefusedStream", "Cancel", "Compression",
          "EnhanceYourCalm"}

StreamRecord == [state : States, send : Int, receive : Int,
                 head : Fields, body : Nat, trailers : Fields,
                 reset : Codes \cup {"None"}]

EndedLocally(state) == IF state = "Open" THEN "HalfClosedLocal" ELSE "Closed"
EndedRemotely(state) == IF state = "Open" THEN "HalfClosedRemote" ELSE "Closed"
Receiving(state) == state \in {"Open", "HalfClosedLocal"}
Sending(state) == state \in {"Open", "HalfClosedRemote"}

NewStream(window, granted) ==
    [state |-> "Open", send |-> window, receive |-> granted,
     head |-> NoFields, body |-> 0, trailers |-> NoFields, reset |-> "None"]

Informational(fields) == fields.kind = "informational"
IsReset(stream) == stream.reset # "None"

(* Why headers refuses a whole block on the stream, or "None".             *)
HeadersError(stream, fields, end) ==
    IF ~Receiving(stream.state) THEN "StreamClosed"
    ELSE IF stream.head # NoFields /\ ~Informational(fields) /\ ~end
    THEN "Protocol"
    ELSE "None"

(* The stream once headers has accepted the block: its head, a 1xx that    *)
(* leaves no trace, or its trailers.                                       *)
WithHeaders_Overwrites(stream, fields, end) ==
    [stream EXCEPT !.head = fields,
                   !.state = IF end THEN EndedRemotely(@) ELSE @]
WithHeaders(stream, fields, end) ==
    [stream EXCEPT
        !.head = IF @ = NoFields /\ ~Informational(fields) THEN fields ELSE @,
        !.trailers = IF stream.head # NoFields /\ ~Informational(fields)
                     THEN fields ELSE @,
        !.state = IF end THEN EndedRemotely(@) ELSE @]

(* The peer has finished sending: it ended the stream, or it is reset.     *)
StreamFinished(stream) == IsReset(stream) \/ ~Receiving(stream.state)
===============================================================================
