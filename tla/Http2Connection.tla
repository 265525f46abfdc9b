--------------------------- MODULE Http2Connection ---------------------------
(***************************************************************************)
(* One HTTP/2 connection as either side keeps it: Connection of            *)
(* src/http2/connection.rs (the writing half) and src/http2/receive.rs     *)
(* (the reading half). The module gives the state and the steps; who takes *)
(* them, and when, is Http2Server's and Http2Client's.                     *)
(*                                                                         *)
(* A call of the library runs on one thread and gives way to the peer only *)
(* where it reads, so each step below is what the code does between two    *)
(* reads, or one round of a loop that reads nothing.                       *)
(***************************************************************************)
EXTENDS Http2Stream, Sequences, FiniteSets

CONSTANTS
    IsClient,         \* the field client
    MaxConcurrent,    \* local.max_concurrent_streams
    MinFrameSize,     \* DEFAULT_MAX_FRAME_SIZE
    MaxFrameSize,     \* MAX_FRAME_SIZE_LIMIT
    MaxBody,          \* MAX_BODY
    MaxBlock          \* MAX_BLOCK

ASSUME ConnectionAssumption ==
    /\ IsClient \in BOOLEAN
    /\ MaxConcurrent \in Nat
    /\ MinFrameSize \in Nat \ {0}
    /\ MaxFrameSize \in Nat /\ MinFrameSize <= MaxFrameSize
    /\ MaxBody \in Nat /\ MaxBlock \in Nat

VARIABLES
    streams,        \* the records, a function on the ids that have one
    send,           \* what this side may still send on the connection
    receive,        \* what the peer may still send on the connection
    remote,         \* the peer's settings, as far as this side heeds them
    continuing,     \* the header block waiting for its CONTINUATION
    highest,        \* the highest stream either side has opened
    last_peer,      \* the highest stream the peer opened
    goaway,         \* the last stream the peer's GOAWAY named, or NoGoaway
    going_away,     \* whether this side has sent GOAWAY
    settings_seen,  \* whether the peer's SETTINGS has arrived
    pongs,          \* the PING acknowledgements that have arrived
    held,           \* the frames emitted inside together, not yet written
    out,            \* the frames written, not yet read by the peer
    job,            \* the message together is writing, or NoJob
    over            \* the connection failed, broke or was closed

connectionVars == <<streams, send, receive, remote, continuing, highest,
                    last_peer, goaway, going_away, settings_seen, pongs,
                    held, out, job, over>>

-----------------------------------------------------------------------------
(* Frames. Their layout is left out; `sized` says that a payload has the   *)
(* length its kind asks for, and a frame over this side's maximum size is  *)
(* a kind of its own.                                                      *)

Absent == -1     \* a parameter a SETTINGS does not carry

Params == [window : Nat \cup {Absent}, frame : Nat \cup {Absent},
           push : Nat \cup {Absent}]

DataFrames == [kind : {"Data"}, stream : Nat, length : Nat, pad : Nat,
               end : BOOLEAN]
HeadersFrames == [kind : {"Headers"}, stream : Nat, length : Nat, pad : Nat,
                  fields : Fields, end : BOOLEAN, whole : BOOLEAN]
ContinuationFrames == [kind : {"Continuation"}, stream : Nat, length : Nat,
                       fields : Fields, whole : BOOLEAN]
PlainFrames == [kind : {"Priority", "PushPromise", "Unknown", "Oversized"},
                stream : Nat, sized : BOOLEAN]
RstStreamFrames == [kind : {"RstStream"}, stream : Nat, sized : BOOLEAN,
                    code : Codes]
SettingsFrames == [kind : {"Settings"}, stream : Nat, sized : BOOLEAN,
                   ack : BOOLEAN, params : Params]
PingFrames == [kind : {"Ping"}, stream : Nat, sized : BOOLEAN,
               ack : BOOLEAN, opaque : Nat]
GoawayFrames == [kind : {"Goaway"}, stream : Nat, sized : BOOLEAN,
                 last : Nat, code : Codes]
WindowUpdateFrames == [kind : {"WindowUpdate"}, stream : Nat,
                       sized : BOOLEAN, increment : Nat]

Frame == DataFrames \cup HeadersFrames \cup ContinuationFrames
         \cup PlainFrames \cup RstStreamFrames \cup SettingsFrames
         \cup PingFrames \cup GoawayFrames \cup WindowUpdateFrames

Data(id, length, end) ==
    [kind |-> "Data", stream |-> id, length |-> length, pad |-> 0,
     end |-> end]
RstStream(id, code) ==
    [kind |-> "RstStream", stream |-> id, sized |-> TRUE, code |-> code]
Ping(opaque, ack) ==
    [kind |-> "Ping", stream |-> 0, sized |-> TRUE, ack |-> ack,
     opaque |-> opaque]
Goaway(last, code) ==
    [kind |-> "Goaway", stream |-> 0, sized |-> TRUE, last |-> last,
     code |-> code]
WindowUpdate(id, increment) ==
    [kind |-> "WindowUpdate", stream |-> id, sized |-> TRUE,
     increment |-> increment]
SettingsFrame(params, ack) ==
    [kind |-> "Settings", stream |-> 0, sized |-> TRUE, ack |-> ack,
     params |-> params]
NoParams == [window |-> Absent, frame |-> Absent, push |-> Absent]

(* Settings::ours: no push; the windows and the frame size stay initial.   *)
(* The limits on streams and header lists are MaxConcurrent and the kind   *)
(* "malformed" here, and the peer of this library does not heed them.      *)
OurSettings == SettingsFrame([NoParams EXCEPT !.push = 0], FALSE)

(* send_headers: a block of `length` octets on id over as many frames as   *)
(* the peer's frame size asks; the last carries what the block says.       *)
Pieces(length) ==
    IF length = 0 THEN 1
    ELSE (length + remote.max_frame_size - 1) \div remote.max_frame_size
HeaderFrames(id, fields, length, end) ==
    LET n == Pieces(length)
        Size(i) == IF i < n THEN remote.max_frame_size
                   ELSE length - (n - 1) * remote.max_frame_size
        Carried(i) == IF i = n THEN fields
                      ELSE [NoFields EXCEPT !.kind = "partial"]
    IN  [i \in 1..n |->
            IF i = 1
            THEN [kind |-> "Headers", stream |-> id, length |-> Size(i),
                  pad |-> 0, fields |-> Carried(i), end |-> end,
                  whole |-> i = n]
            ELSE [kind |-> "Continuation", stream |-> id, length |-> Size(i),
                  fields |-> Carried(i), whole |-> i = n]]

-----------------------------------------------------------------------------
(* The state's shape.                                                      *)

NoGoaway == -1
NoBlock == [stream |-> 0, length |-> 0, end |-> FALSE]
NoJob == [id |-> 0, rest |-> 0, trailers |-> NoFields, block |-> 0,
          phase |-> "none"]

Jobs == [id : Nat, rest : Nat, trailers : Fields, block : Nat,
         phase : {"none", "writing", "waiting", "written", "refused"}]
Remotes == [initial_window_size : 0..MaxStreamId,
            max_frame_size : MinFrameSize..MaxFrameSize]
Blocks == [stream : Nat, length : Nat, end : BOOLEAN]

(* Every variable of the connection has its type.                          *)
ConnectionTypeOK ==
    /\ DOMAIN streams \in SUBSET Nat
    /\ streams \in [DOMAIN streams -> StreamRecord]
    /\ send \in Int /\ receive \in Int
    /\ remote \in Remotes
    /\ continuing \in Blocks
    /\ highest \in Nat /\ last_peer \in Nat
    /\ goaway \in Nat \cup {NoGoaway}
    /\ going_away \in BOOLEAN /\ settings_seen \in BOOLEAN
    /\ pongs \in SUBSET Nat
    /\ held \in Seq(Frame) /\ out \in Seq(Frame)
    /\ job \in Jobs
    /\ over \in BOOLEAN

(* start: nothing open, this side's SETTINGS written.                      *)
Start ==
    /\ streams = << >>
    /\ send = DefaultWindow /\ receive = DefaultWindow
    /\ remote = [initial_window_size |-> DefaultWindow,
                 max_frame_size |-> MinFrameSize]
    /\ continuing = NoBlock
    /\ highest = 0 /\ last_peer = 0
    /\ goaway = NoGoaway /\ going_away = FALSE /\ settings_seen = FALSE
    /\ pongs = {}
    /\ held = << >> /\ out = <<OurSettings>>
    /\ job = NoJob
    /\ over = FALSE

Together == job # NoJob     \* inside together: what is emitted is held

(* emit: written at once, or held to be written with the others.           *)
Emit(frames) ==
    IF Together THEN held' = held \o frames /\ UNCHANGED out
                ELSE out' = out \o frames /\ UNCHANGED held

(* streams.entry(id).or_insert_with, for an id that has no record.         *)
Opened(id) ==
    [i \in DOMAIN streams \cup {id} |->
        IF i \in DOMAIN streams THEN streams[i]
        ELSE NewStream(remote.initial_window_size, DefaultWindow)]
With(id, stream) == [streams EXCEPT ![id] = stream]
Without_Kept(id) == streams
Without(id) == [i \in DOMAIN streams \ {id} |-> streams[i]]
MaxOf(m, n) == IF m >= n THEN m ELSE n

-----------------------------------------------------------------------------
(* How the handling of a frame ends: accepted, a breach of one stream      *)
(* answered with RST_STREAM, or a breach of the connection answered with   *)
(* GOAWAY. `frames` is what the handler had emitted by then.               *)

(* A send that waited for a window looks at it again, and releases what is *)
(* held before it waits again.                                             *)
Resumed == [job EXCEPT !.phase = IF @ = "waiting" THEN "writing" ELSE @]

Accept(frames) ==
    /\ Emit(frames)
    /\ job' = Resumed
    /\ UNCHANGED <<going_away, over>>

ResetRecord(id, code) ==
    IF id \in DOMAIN streams
    THEN With(id, [streams[id] EXCEPT !.state = "Closed", !.reset = code])
    ELSE streams

BreachStream(frames, id, code) ==
    /\ streams' = ResetRecord(id, code)
    /\ Accept(Append(frames, RstStream(id, code)))

(* The failure leaves every call that was running, and together writes     *)
(* what it held on the way out.                                            *)
BreachConnection(frames, code) ==
    /\ going_away' = TRUE
    /\ out' = out \o held \o Append(frames, Goaway(last_peer, code))
    /\ held' = << >>
    /\ job' = NoJob
    /\ over' = TRUE

-----------------------------------------------------------------------------
(* The handlers of receive.rs, one per kind of frame.                      *)

Idle_AtHighest(id) == id >= highest
Idle(id) == id > highest

(* The connection's window after DATA on id, and the WINDOW_UPDATE that    *)
(* gives it back: before the stream is looked at, whatever becomes of it.  *)
AfterData_LiveOnly(id, octets) ==
    IF id \in DOMAIN streams THEN Grant(Take(receive, octets), octets)
    ELSE Take(receive, octets)
AfterData(id, octets) == Grant(Take(receive, octets), octets)
Credit_Forgotten(octets) == << >>
Credit(octets) ==
    IF octets > 0 THEN <<WindowUpdate(0, octets)>> ELSE << >>

(* DATA on a stream that has a record. The window a refused frame took on  *)
(* the stream is not kept: nothing reads it once the stream is reset.      *)
DataOn(id, length, content, end, credit) ==
    LET stream == streams[id]
        taken == Take(stream.receive, length)
        fed == [stream EXCEPT !.body = @ + content]
    IN
    \/ /\ IsReset(stream)
       /\ Accept(credit)
       /\ UNCHANGED streams
    \/ /\ ~IsReset(stream) /\ ~Receiving(stream.state)
       /\ BreachStream(credit, id, "StreamClosed")
    \/ /\ ~IsReset(stream) /\ Receiving(stream.state)
       /\ \/ /\ ~CanTake(stream.receive, length)
             /\ BreachStream(credit, id, "FlowControl")
          \/ /\ CanTake(stream.receive, length) /\ content < 0
             /\ BreachConnection(credit, "Protocol")
             /\ UNCHANGED streams
          \/ /\ CanTake(stream.receive, length)
             /\ content >= 0 /\ stream.body + content > MaxBody
             /\ BreachStream(credit, id, "Cancel")
          \/ /\ CanTake(stream.receive, length)
             /\ content >= 0 /\ stream.body + content <= MaxBody
             /\ \/ /\ end
                   /\ streams' = With(id, [fed EXCEPT
                                             !.receive = taken,
                                             !.state = EndedRemotely(@)])
                   /\ Accept(credit)
                \/ /\ ~end
                   /\ streams' = With(id, [fed EXCEPT
                                             !.receive = Grant(taken, length)])
                   /\ Accept(IF length > 0
                             THEN Append(credit, WindowUpdate(id, length))
                             ELSE credit)

HandleData(f) ==
    LET id == f.stream
        credit == Credit(f.length)
    IN
    /\ \/ /\ ~CanTake(receive, f.length)
          /\ BreachConnection(<< >>, "FlowControl")
          /\ UNCHANGED <<streams, receive>>
       \/ /\ CanTake(receive, f.length)
          /\ receive' = AfterData(id, f.length)
          /\ \/ /\ Idle(id)
                /\ BreachConnection(credit, "Protocol")
                /\ UNCHANGED streams
             \/ /\ ~Idle(id) /\ id \notin DOMAIN streams
                /\ BreachStream(credit, id, "StreamClosed")
             \/ /\ ~Idle(id) /\ id \in DOMAIN streams
                /\ DataOn(id, f.length, f.length - f.pad, f.end, credit)
    /\ UNCHANGED <<send, remote, continuing, highest, last_peer, goaway,
                   settings_seen, pongs>>

(* The streams that count against max_concurrent_streams.                  *)
OpenStreams == {id \in DOMAIN streams : streams[id].state # "Closed"}
Full_OneMore == Cardinality(OpenStreams) > MaxConcurrent
Full == Cardinality(OpenStreams) >= MaxConcurrent

(* Only a client opens a stream, on an odd number above the last.          *)
PeerMayOpen_AnySide(id) == id > last_peer
PeerMayOpen_Again(id) == ~IsClient /\ id % 2 = 1
PeerMayOpen(id) == ~IsClient /\ id % 2 = 1 /\ id > last_peer

(* Once this side has sent GOAWAY, a new stream is passed over.            *)
Admitting_Always == TRUE
Admitting == ~going_away

(* A whole block on a stream that has no record.                           *)
OpenByPeer(id, fields, end) ==
    \/ /\ ~PeerMayOpen(id)
       /\ BreachConnection(<< >>, "Protocol")
       /\ UNCHANGED <<streams, highest, last_peer>>
    \/ /\ PeerMayOpen(id)
       /\ last_peer' = id
       /\ highest' = MaxOf(highest, id)
       /\ \/ /\ ~Admitting
             /\ Accept(<< >>)
             /\ UNCHANGED streams
          \/ /\ Admitting /\ Full
             /\ BreachStream(<< >>, id, "RefusedStream")
          \/ /\ Admitting /\ ~Full
             /\ streams' = [Opened(id) EXCEPT
                               ![id] = WithHeaders(@, fields, end)]
             /\ Accept(<< >>)

(* A whole block on a stream that has a record.                            *)
BlockOn(id, fields, end) ==
    LET error == HeadersError(streams[id], fields, end)
    IN
    /\ \/ /\ IsReset(streams[id])
          /\ Accept(<< >>)
          /\ UNCHANGED streams
       \/ /\ ~IsReset(streams[id]) /\ error # "None"
          /\ BreachStream(<< >>, id, error)
       \/ /\ ~IsReset(streams[id]) /\ error = "None"
          /\ streams' = With(id, WithHeaders(streams[id], fields, end))
          /\ Accept(<< >>)
    /\ UNCHANGED <<highest, last_peer>>

(* block: `length` octets so far of a block on id; `fields` is what it     *)
(* says once it is whole.                                                  *)
Block(id, length, fields, end, whole) ==
    \/ /\ length > MaxBlock
       /\ BreachConnection(<< >>, "EnhanceYourCalm")
       /\ continuing' = NoBlock
       /\ UNCHANGED <<streams, highest, last_peer>>
    \/ /\ length <= MaxBlock /\ ~whole
       /\ continuing' = [stream |-> id, length |-> length, end |-> end]
       /\ Accept(<< >>)
       /\ UNCHANGED <<streams, highest, last_peer>>
    \/ /\ length <= MaxBlock /\ whole
       /\ continuing' = NoBlock
       /\ \/ /\ fields.kind = "broken"
             /\ BreachConnection(<< >>, "Compression")
             /\ UNCHANGED <<streams, highest, last_peer>>
          \/ /\ fields.kind = "malformed"
             /\ BreachStream(<< >>, id, "Protocol")
             /\ UNCHANGED <<highest, last_peer>>
          \/ /\ fields.kind \notin {"broken", "malformed"}
             /\ id \in DOMAIN streams
             /\ BlockOn(id, fields, end)
          \/ /\ fields.kind \notin {"broken", "malformed"}
             /\ id \notin DOMAIN streams
             /\ OpenByPeer(id, fields, end)

HandleHeaders(f) ==
    /\ \/ /\ f.pad > f.length
          /\ BreachConnection(<< >>, "Protocol")
          /\ UNCHANGED <<streams, continuing, highest, last_peer>>
       \/ /\ f.pad <= f.length
          /\ Block(f.stream, f.length - f.pad, f.fields, f.end, f.whole)
    /\ UNCHANGED <<send, receive, remote, goaway, settings_seen, pongs>>

HandleContinuation(f) ==
    /\ \/ /\ continuing = NoBlock
          /\ BreachConnection(<< >>, "Protocol")
          /\ UNCHANGED <<streams, continuing, highest, last_peer>>
       \/ /\ continuing # NoBlock
          /\ Block(continuing.stream, continuing.length + f.length, f.fields,
                   continuing.end, f.whole)
    /\ UNCHANGED <<send, receive, remote, goaway, settings_seen, pongs>>

(* PRIORITY and the kinds this side does not know are ignored; server push *)
(* is off.                                                                 *)
HandlePlain(f) ==
    /\ \/ /\ f.kind = "Priority" /\ ~f.sized
          /\ BreachStream(<< >>, f.stream, "FrameSize")
       \/ /\ f.kind = "Unknown" \/ (f.kind = "Priority" /\ f.sized)
          /\ Accept(<< >>)
          /\ UNCHANGED streams
       \/ /\ f.kind = "PushPromise"
          /\ BreachConnection(<< >>, "Protocol")
          /\ UNCHANGED streams
    /\ UNCHANGED <<send, receive, remote, continuing, highest, last_peer,
                   goaway, settings_seen, pongs>>

HandleRstStream(f) ==
    /\ \/ /\ ~f.sized \/ Idle(f.stream)
          /\ BreachConnection(<< >>, IF f.sized THEN "Protocol"
                                     ELSE "FrameSize")
          /\ UNCHANGED streams
       \/ /\ f.sized /\ ~Idle(f.stream)
          /\ streams' = ResetRecord(f.stream, f.code)
          /\ Accept(<< >>)
    /\ UNCHANGED <<send, receive, remote, continuing, highest, last_peer,
                   goaway, settings_seen, pongs>>

(* Settings::apply on the parameters this side heeds: the values it sets,  *)
(* and whether it refuses the payload.                                     *)
Heeded_Whatever(old, new) == new
Heeded(old, new) == IF new = Absent THEN old ELSE new
Applied(params) ==
    [initial_window_size |-> Heeded(remote.initial_window_size, params.window),
     max_frame_size |-> Heeded(remote.max_frame_size, params.frame)]
SettingsRefused(f) ==
    \/ ~f.sized
    \/ f.params.push > 1 \/ (IsClient /\ f.params.push = 1)
    \/ f.params.window > MaxStreamId
    \/ f.params.frame # Absent
       /\ f.params.frame \notin MinFrameSize..MaxFrameSize
SettingsError(f) ==
    IF ~f.sized THEN "FrameSize"
    ELSE IF f.params.window > MaxStreamId THEN "FlowControl" ELSE "Protocol"

HandleSettings(f) ==
    LET delta == Applied(f.params).initial_window_size
                 - remote.initial_window_size
        fits == \A id \in DOMAIN streams : CanShift(streams[id].send, delta)
    IN
    /\ \/ /\ f.ack
          /\ \/ f.sized /\ Accept(<< >>)
             \/ ~f.sized /\ BreachConnection(<< >>, "FrameSize")
          /\ UNCHANGED <<streams, remote, settings_seen>>
       \/ /\ ~f.ack /\ SettingsRefused(f)
          /\ BreachConnection(<< >>, SettingsError(f))
          /\ UNCHANGED <<streams, remote, settings_seen>>
       \/ /\ ~f.ack /\ ~SettingsRefused(f) /\ ~fits
          /\ BreachConnection(<< >>, "FlowControl")
          /\ UNCHANGED <<streams, remote, settings_seen>>
       \/ /\ ~f.ack /\ ~SettingsRefused(f) /\ fits
          /\ remote' = Applied(f.params)
          /\ streams' = [id \in DOMAIN streams |->
                            [streams[id] EXCEPT !.send = Shift(@, delta)]]
          /\ settings_seen' = TRUE
          /\ Accept(<<SettingsFrame(NoParams, TRUE)>>)
    /\ UNCHANGED <<send, receive, continuing, highest, last_peer, goaway,
                   pongs>>

HandlePing(f) ==
    /\ \/ /\ ~f.sized
          /\ BreachConnection(<< >>, "FrameSize")
          /\ UNCHANGED pongs
       \/ /\ f.sized /\ f.ack
          /\ pongs' = pongs \cup {f.opaque}
          /\ Accept(<< >>)
       \/ /\ f.sized /\ ~f.ack
          /\ Accept(<<Ping(f.opaque, TRUE)>>)
          /\ UNCHANGED pongs
    /\ UNCHANGED <<streams, send, receive, remote, continuing, highest,
                   last_peer, goaway, settings_seen>>

(* The peer goes away: this side's streams above the last it names were    *)
(* never processed.                                                        *)
PassedOver(id, last) ==
    /\ id > last
    /\ (id % 2 = 1) = IsClient
    /\ ~IsReset(streams[id])

HandleGoaway(f) ==
    /\ \/ /\ ~f.sized
          /\ BreachConnection(<< >>, "FrameSize")
          /\ UNCHANGED <<streams, goaway>>
       \/ /\ f.sized
          /\ goaway' = f.last
          /\ streams' = [id \in DOMAIN streams |->
                            IF PassedOver(id, f.last)
                            THEN [streams[id] EXCEPT
                                    !.reset = "RefusedStream"]
                            ELSE streams[id]]
          /\ Accept(<< >>)
    /\ UNCHANGED <<send, receive, remote, continuing, highest, last_peer,
                   settings_seen, pongs>>

HandleWindowUpdate(f) ==
    LET id == f.stream
        error == GrantError(f.increment)
    IN
    /\ \/ /\ ~f.sized
          /\ BreachConnection(<< >>, "FrameSize")
          /\ UNCHANGED <<streams, send>>
       \/ /\ f.sized /\ id = 0 /\ ~CanGrant(send, f.increment)
          /\ BreachConnection(<< >>, error)
          /\ UNCHANGED <<streams, send>>
       \/ /\ f.sized /\ id = 0 /\ CanGrant(send, f.increment)
          /\ send' = Grant(send, f.increment)
          /\ Accept(<< >>)
          /\ UNCHANGED streams
       \/ /\ f.sized /\ id # 0 /\ Idle(id)
          /\ BreachConnection(<< >>, "Protocol")
          /\ UNCHANGED <<streams, send>>
       \/ /\ f.sized /\ id # 0 /\ ~Idle(id) /\ id \notin DOMAIN streams
          /\ Accept(<< >>)
          /\ UNCHANGED <<streams, send>>
       \/ /\ f.sized /\ id # 0 /\ ~Idle(id) /\ id \in DOMAIN streams
          /\ IF CanGrant(streams[id].send, f.increment)
             THEN /\ streams' = With(id, [streams[id] EXCEPT
                                            !.send = Grant(@, f.increment)])
                  /\ Accept(<< >>)
             ELSE BreachStream(<< >>, id, error)
          /\ UNCHANGED send
    /\ UNCHANGED <<receive, remote, continuing, highest, last_peer, goaway,
                   settings_seen, pongs>>

-----------------------------------------------------------------------------
(* pump and handle: one frame read, looked at for what no handler takes,   *)
(* and handled.                                                            *)

WrongStream(f) ==
    \/ f.kind \in {"Settings", "Ping", "Goaway"} /\ f.stream # 0
    \/ /\ f.kind \in {"Data", "Headers", "Priority", "RstStream",
                      "Continuation"}
       /\ f.stream = 0
Interrupts(f) ==
    /\ continuing # NoBlock
    /\ f.kind # "Continuation" \/ f.stream # continuing.stream
Unhandled(f) ==
    \/ f.kind = "Oversized"
    \/ ~settings_seen /\ f.kind # "Settings"
    \/ Interrupts(f)
    \/ WrongStream(f)

Handle(f) ==
    \/ f.kind = "Data" /\ HandleData(f)
    \/ f.kind = "Headers" /\ HandleHeaders(f)
    \/ f.kind = "Continuation" /\ HandleContinuation(f)
    \/ f.kind \in {"Priority", "PushPromise", "Unknown"} /\ HandlePlain(f)
    \/ f.kind = "RstStream" /\ HandleRstStream(f)
    \/ f.kind = "Settings" /\ HandleSettings(f)
    \/ f.kind = "Ping" /\ HandlePing(f)
    \/ f.kind = "Goaway" /\ HandleGoaway(f)
    \/ f.kind = "WindowUpdate" /\ HandleWindowUpdate(f)

Pump(f) ==
    \/ /\ Unhandled(f)
       /\ BreachConnection(<< >>, IF f.kind = "Oversized" THEN "FrameSize"
                                  ELSE "Protocol")
       /\ UNCHANGED <<streams, send, receive, remote, continuing, highest,
                      last_peer, goaway, settings_seen, pongs>>
    \/ ~Unhandled(f) /\ Handle(f)

(* The connection ended under a read, cleanly or not: every call that was  *)
(* running returns, and together writes what it held, as far as it can.    *)
PumpEnd ==
    /\ over' = TRUE
    /\ out' = out \o held
    /\ held' = << >>
    /\ job' = NoJob
    /\ UNCHANGED <<streams, send, receive, remote, continuing, highest,
                   last_peer, goaway, going_away, settings_seen, pongs>>

-----------------------------------------------------------------------------
(* Writing a message inside together: send_headers, send_data and, for an  *)
(* answer, the trailers.                                                   *)

(* send_headers for the head, which ends the stream where nothing follows; *)
(* it looks neither at the stream's state nor at its reset.                *)
StartMessage(id, base, fields, block, body, trailers) ==
    LET last == body = 0 /\ trailers = NoFields
    IN
    /\ job' = [id |-> id, rest |-> body, trailers |-> trailers,
               block |-> block,
               phase |-> IF last THEN "written" ELSE "writing"]
    /\ held' = HeaderFrames(id, fields, block, last)
    /\ streams' = IF last
                  THEN [base EXCEPT ![id].state = EndedLocally(@)]
                  ELSE base
    /\ UNCHANGED <<send, receive, remote, continuing, last_peer, goaway,
                   going_away, settings_seen, pongs, out, over>>

(* open_window: why id may send nothing ever again.                        *)
ShutForGood(id) ==
    \/ id \notin DOMAIN streams
    \/ IsReset(streams[id])
    \/ ~Sending(streams[id].state)

(* What one DATA may carry.                                                *)
Most(id) ==
    LET least(m, n) == IF m <= n THEN m ELSE n
    IN  least(remote.max_frame_size,
              least(Available(send), Available(streams[id].send)))

sendingUnchanged == <<receive, remote, continuing, highest, last_peer, goaway,
                      going_away, settings_seen, pongs, over>>

(* One round of send_data's loop that writes a piece: the last one ends    *)
(* the stream, or the trailers after it do.                                *)
SendPiece ==
    LET id == job.id
        piece == IF job.rest <= Most(id) THEN job.rest ELSE Most(id)
        last == piece = job.rest
        taken == [streams[id] EXCEPT !.send = Take(@, piece)]
        trailing == IF last /\ job.trailers # NoFields
                    THEN HeaderFrames(id, job.trailers, job.block, TRUE)
                    ELSE << >>
    IN
    /\ job.phase = "writing" /\ job.rest > 0
    /\ ~ShutForGood(id)
    /\ Most(id) > 0
    /\ held' = held \o <<Data(id, piece, last /\ job.trailers = NoFields)>>
                    \o trailing
    /\ send' = Take(send, piece)
    /\ streams' = With(id, IF last
                           THEN [taken EXCEPT !.state = EndedLocally(@)]
                           ELSE taken)
    /\ job' = [job EXCEPT !.rest = @ - piece,
                          !.phase = IF last THEN "written" ELSE @]
    /\ UNCHANGED out
    /\ UNCHANGED sendingUnchanged

(* An answer without a body whose trailers follow its head.                *)
SendTrailers ==
    /\ job.phase = "writing" /\ job.rest = 0
    /\ held' = held \o HeaderFrames(job.id, job.trailers, job.block, TRUE)
    /\ streams' = IF job.id \in DOMAIN streams
                  THEN With(job.id, [streams[job.id] EXCEPT
                                       !.state = EndedLocally(@)])
                  ELSE streams
    /\ job' = [job EXCEPT !.phase = "written"]
    /\ UNCHANGED <<send, out>>
    /\ UNCHANGED sendingUnchanged

(* A window is shut: what is held is written, then the peer is read.       *)
Stall_HoldsOn ==
    /\ job.phase = "writing" /\ job.rest > 0
    /\ ~ShutForGood(job.id)
    /\ Most(job.id) = 0
    /\ job' = [job EXCEPT !.phase = "waiting"]
    /\ UNCHANGED <<streams, send, held, out>>
    /\ UNCHANGED sendingUnchanged
Stall ==
    /\ job.phase = "writing" /\ job.rest > 0
    /\ ~ShutForGood(job.id)
    /\ Most(job.id) = 0
    /\ out' = out \o held
    /\ held' = << >>
    /\ job' = [job EXCEPT !.phase = "waiting"]
    /\ UNCHANGED <<streams, send>>
    /\ UNCHANGED sendingUnchanged

SendRefused ==
    /\ job.phase = "writing" /\ job.rest > 0
    /\ ShutForGood(job.id)
    /\ job' = [job EXCEPT !.phase = "refused"]
    /\ UNCHANGED <<streams, send, held, out>>
    /\ UNCHANGED sendingUnchanged

Write == SendPiece \/ SendTrailers \/ Stall \/ SendRefused

(* together returns, having written what it held.                          *)
Released ==
    /\ job.phase \in {"written", "refused"}
    /\ out' = out \o held
    /\ held' = << >>
    /\ job' = NoJob

GoAway(code) ==
    /\ going_away' = TRUE
    /\ Emit(<<Goaway(last_peer, code)>>)
    /\ UNCHANGED <<streams, send, receive, remote, continuing, highest,
                   last_peer, goaway, settings_seen, pongs, job, over>>
===============================================================================
