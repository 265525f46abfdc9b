------------------------ MODULE Http2ConnectionProofs ------------------------
(***************************************************************************)
(* What every step of Http2Connection preserves and may change, for every  *)
(* value of the constants: the lemmas the proofs about the server and the  *)
(* client rest on.                                                         *)
(***************************************************************************)
EXTENDS Http2Connection, TLAPS

(* A block of `length` octets in frames of at most m: at least one piece,  *)
(* and all but the last are full.                                          *)
LEMMA PiecesOf ==
    ASSUME NEW m \in Nat \ {0}, NEW length \in Nat \ {0},
           NEW n, n = (length + m - 1) \div m
    PROVE  n \in Nat \ {0} /\ (n - 1) * m <= length
<1>1. n \in Int /\ n * m <= length + m - 1 /\ length + m - 1 < n * m + m
  BY SMTT(30)
<1>2. (n - 1) * m = n * m - m
  BY <1>1, SMTT(30)
<1>3. n # 0
  BY <1>1
<1>4. n >= 0
  BY <1>1, SMTT(30)
<1> QED
  BY <1>1, <1>2, <1>3, <1>4

(* send_headers writes frames.                                             *)
LEMMA HeaderFramesType ==
    ASSUME remote \in Remotes, NEW id \in Nat, NEW fields \in Fields,
           NEW length \in Nat, NEW end \in BOOLEAN
    PROVE  HeaderFrames(id, fields, length, end) \in Seq(Frame)
<1> DEFINE m == remote.max_frame_size
           n == Pieces(length)
           Size(i) == IF i < n THEN m ELSE length - (n - 1) * m
           Carried(i) == IF i = n THEN fields
                         ELSE [NoFields EXCEPT !.kind = "partial"]
<1>1. m \in Nat \ {0}
  BY ConnectionAssumption DEF Remotes
<1>2. n \in Nat \ {0} /\ (n - 1) * m <= length
  <2>1. CASE length = 0
    BY <2>1, <1>1 DEF Pieces
  <2>2. CASE length # 0
    BY <2>2, <1>1, PiecesOf DEF Pieces
  <2> QED
    BY <2>1, <2>2
<1>3. (n - 1) * m \in Int
  BY <1>1, <1>2
<1>4. ASSUME NEW i \in 1..n
      PROVE  Size(i) \in Nat /\ Carried(i) \in Fields
  <2>1. Size(i) \in Nat
    BY <1>1, <1>2, <1>3
  <2>2. Carried(i) \in Fields
    BY DEF NoFields, Fields, FieldKinds
  <2> QED
    BY <2>1, <2>2
<1>5. ASSUME NEW i \in 1..n
      PROVE  HeaderFrames(id, fields, length, end)[i] \in Frame
  <2> HIDE DEF n, m, Size, Carried
  <2>1. Size(i) \in Nat /\ Carried(i) \in Fields /\ n \in Nat
    BY <1>2, <1>4
  <2>2. HeaderFrames(id, fields, length, end)[i] =
          IF i = 1
          THEN [kind |-> "Headers", stream |-> id, length |-> Size(i),
                pad |-> 0, fields |-> Carried(i), end |-> end,
                whole |-> i = n]
          ELSE [kind |-> "Continuation", stream |-> id, length |-> Size(i),
                fields |-> Carried(i), whole |-> i = n]
    BY DEF HeaderFrames, n, m, Size, Carried
  <2> QED
    BY <2>1, <2>2 DEF Frame, HeadersFrames, ContinuationFrames
<1>6. HeaderFrames(id, fields, length, end) = 
        [i \in 1..n |-> HeaderFrames(id, fields, length, end)[i]]
  BY DEF HeaderFrames
<1> HIDE DEF n
<1> QED
  BY <1>2, <1>5, <1>6

-----------------------------------------------------------------------------
(* How handling ends.                                                      *)

WireTypeOK ==
    /\ held \in Seq(Frame) /\ out \in Seq(Frame)
    /\ job \in Jobs
    /\ going_away \in BOOLEAN /\ over \in BOOLEAN
StreamsTypeOK ==
    /\ DOMAIN streams \in SUBSET Nat
    /\ streams \in [DOMAIN streams -> StreamRecord]

(* The job a frame was read under goes on, unless the connection failed,   *)
(* and looks at its window again.                                          *)
SameJob ==
    /\ \/ job' = NoJob /\ (job = NoJob \/ over')
       \/ job # NoJob /\ job' # NoJob /\ job'.id = job.id
    /\ job'.phase = job.phase
            \/ (job.phase = "waiting" /\ job'.phase = "writing") \/ over'
    /\ job'.phase # "waiting"
    /\ over' => over \/ job' = NoJob

(* Answering a frame keeps the wire's type, and the job it was read under  *)
(* goes on.                                                                *)
LEMMA AcceptType ==
    ASSUME WireTypeOK, NEW frames \in Seq(Frame), Accept(frames)
    PROVE  WireTypeOK' /\ SameJob /\ UNCHANGED <<going_away, over>>
<1>1. held' \in Seq(Frame) /\ out' \in Seq(Frame)
  <2>1. \/ held' = held \o frames /\ out' = out
        \/ out' = out \o frames /\ held' = held
    BY Zenon DEF Accept, Emit
  <2>2. held \o frames \in Seq(Frame) /\ out \o frames \in Seq(Frame)
    BY DEF WireTypeOK
  <2> QED
    BY <2>1, <2>2 DEF WireTypeOK
<1>2. job' \in Jobs /\ job'.id = job.id /\ (job = NoJob => job' = NoJob)
  BY DEF WireTypeOK, Accept, Resumed, Jobs, NoJob
<1>3. job # NoJob => job' # NoJob
  BY DEF WireTypeOK, Accept, Resumed, Jobs, NoJob
<1>4. /\ job'.phase # "waiting"
      /\ \/ job'.phase = job.phase
         \/ job.phase = "waiting" /\ job'.phase = "writing"
  BY DEF WireTypeOK, Accept, Resumed, Jobs
<1> QED
  BY <1>1, <1>2, <1>3, <1>4 DEF WireTypeOK, Accept, SameJob

(* Noting a reset in a record leaves the records those of the same         *)
(* streams.                                                                *)
LEMMA ResetRecordType ==
    ASSUME StreamsTypeOK, NEW id \in Nat, NEW code \in Codes
    PROVE  /\ ResetRecord(id, code) \in [DOMAIN streams -> StreamRecord]
           /\ DOMAIN ResetRecord(id, code) = DOMAIN streams
  BY DEF StreamsTypeOK, ResetRecord, With, StreamRecord, States

(* A breach on a stream resets that stream and nothing else: the records   *)
(* stay and the connection goes on.                                        *)
LEMMA BreachStreamType ==
    ASSUME WireTypeOK, StreamsTypeOK, NEW frames \in Seq(Frame),
           NEW id \in Nat, NEW code \in Codes,
           BreachStream(frames, id, code)
    PROVE  /\ WireTypeOK' /\ SameJob /\ UNCHANGED <<going_away, over>>
           /\ StreamsTypeOK' /\ DOMAIN streams' = DOMAIN streams
<1>1. Append(frames, RstStream(id, code)) \in Seq(Frame)
  BY DEF RstStream, Frame, RstStreamFrames
<1>2. Accept(Append(frames, RstStream(id, code)))
  BY DEF BreachStream
<1>3. WireTypeOK' /\ SameJob /\ UNCHANGED <<going_away, over>>
  BY <1>1, <1>2, AcceptType
<1>4. StreamsTypeOK' /\ DOMAIN streams' = DOMAIN streams
  BY ResetRecordType DEF BreachStream, StreamsTypeOK
<1> QED
  BY <1>3, <1>4

(* A breach of the connection leaves it over, its GOAWAY said.             *)
LEMMA BreachConnectionType ==
    ASSUME WireTypeOK, last_peer \in Nat, NEW frames \in Seq(Frame),
           NEW code \in Codes, BreachConnection(frames, code)
    PROVE  WireTypeOK' /\ SameJob /\ going_away' /\ over'
<1>1. Append(frames, Goaway(last_peer, code)) \in Seq(Frame)
  BY DEF Goaway, Frame, GoawayFrames
<1>2. NoJob \in Jobs /\ NoJob.phase # "waiting"
  BY DEF NoJob, Jobs, NoFields, Fields, FieldKinds
<1> QED
  BY <1>1, <1>2 DEF WireTypeOK, BreachConnection, SameJob

-----------------------------------------------------------------------------
(* What handling a frame may do to a record, the initial window moving by  *)
(* delta: a reset stays and so does a close, nothing but a reset stops     *)
(* this side's sending, and the window moves with the initial one or is    *)
(* granted more, up to the largest there is.                               *)
Follows(old, new, delta) ==
    /\ IsReset(old) => IsReset(new)
    /\ old.state = "Closed" => new.state = "Closed"
    /\ Sending(old.state) => Sending(new.state) \/ IsReset(new)
    /\ new.send >= old.send + delta
    /\ new.send = old.send \/ new.send <= MaxStreamId
InitialDelta == remote'.initial_window_size - remote.initial_window_size
RecordsFollow ==
    \A id \in DOMAIN streams : Follows(streams[id], streams'[id], InitialDelta)

(* Where the peer's settings stay, the initial window does.                *)
LEMMA NoDelta ==
    ASSUME remote \in Remotes, UNCHANGED remote
    PROVE  InitialDelta = 0
<1>1. remote.initial_window_size \in Int
  BY WindowAssumption DEF Remotes
<1> QED
  BY <1>1 DEF InitialDelta

(* A record left alone follows itself.                                     *)
LEMMA FollowsSame ==
    ASSUME NEW stream \in StreamRecord
    PROVE  Follows(stream, stream, 0)
  BY DEF Follows, StreamRecord

(* So do all of them.                                                      *)
LEMMA FollowUnchanged ==
    ASSUME StreamsTypeOK, remote \in Remotes, UNCHANGED <<streams, remote>>
    PROVE  RecordsFollow
  BY NoDelta, FollowsSame DEF RecordsFollow, StreamsTypeOK

(* A record that follows the one it replaces, the others left alone.       *)
LEMMA FollowWith ==
    ASSUME StreamsTypeOK, remote \in Remotes, UNCHANGED remote,
           NEW id \in DOMAIN streams, NEW stream,
           Follows(streams[id], stream, 0), streams' = With(id, stream)
    PROVE  RecordsFollow
<1>1. ASSUME NEW i \in DOMAIN streams
      PROVE  Follows(streams[i], streams'[i], 0)
  <2>1. streams[i] \in StreamRecord
    BY DEF StreamsTypeOK
  <2>2. streams'[i] = IF i = id THEN stream ELSE streams[i]
    BY DEF With
  <2> QED
    BY <2>1, <2>2, FollowsSame
<1> QED
  BY <1>1, NoDelta DEF RecordsFollow

(* Noting a reset closes a stream.                                         *)
LEMMA FollowReset ==
    ASSUME StreamsTypeOK, remote \in Remotes, UNCHANGED remote,
           NEW id \in Nat, NEW code \in Codes,
           streams' = ResetRecord(id, code)
    PROVE  RecordsFollow
<1>1. CASE id \in DOMAIN streams
  <2> DEFINE stream == [streams[id] EXCEPT !.state = "Closed", !.reset = code]
  <2>1. streams[id] \in StreamRecord
    BY <1>1 DEF StreamsTypeOK
  <2>2. /\ stream.state = "Closed" /\ stream.reset = code
        /\ stream.send = streams[id].send
    BY <2>1 DEF StreamRecord
  <2>3. code # "None"
    BY DEF Codes
  <2> HIDE DEF stream
  <2>4. Follows(streams[id], stream, 0)
    BY <2>1, <2>2, <2>3 DEF Follows, IsReset, StreamRecord
  <2>5. streams' = With(id, stream)
    BY <1>1 DEF ResetRecord, stream
  <2> QED
    BY <1>1, <2>4, <2>5, FollowWith
<1>2. CASE id \notin DOMAIN streams
  BY <1>2, FollowUnchanged DEF ResetRecord
<1> QED
  BY <1>1, <1>2

(* What handling a frame may do to the streams and to the wire: the        *)
(* records stay, the job goes on, and where the connection fails it says   *)
(* so with a GOAWAY.                                                       *)
Quiet ==
    /\ WireTypeOK' /\ SameJob
    /\ StreamsTypeOK' /\ DOMAIN streams' = DOMAIN streams /\ RecordsFollow
    /\ UNCHANGED <<going_away, over>> \/ (going_away' /\ over')

(* Answering a frame is quiet where the handler kept the streams' type.    *)
LEMMA QuietAccept ==
    ASSUME WireTypeOK, NEW frames \in Seq(Frame), Accept(frames),
           StreamsTypeOK', DOMAIN streams' = DOMAIN streams, RecordsFollow
    PROVE  Quiet
  BY AcceptType DEF Quiet

(* A breach on a stream is quiet.                                          *)
LEMMA QuietBreachStream ==
    ASSUME WireTypeOK, StreamsTypeOK, NEW frames \in Seq(Frame),
           remote \in Remotes, UNCHANGED remote,
           NEW id \in Nat, NEW code \in Codes,
           BreachStream(frames, id, code)
    PROVE  Quiet
  BY BreachStreamType, FollowReset DEF Quiet, BreachStream

(* A breach of the connection is quiet: its records are left as they were. *)
LEMMA QuietBreachConnection ==
    ASSUME WireTypeOK, StreamsTypeOK, last_peer \in Nat,
           remote \in Remotes, UNCHANGED remote,
           NEW frames \in Seq(Frame), NEW code \in Codes,
           BreachConnection(frames, code), UNCHANGED streams
    PROVE  Quiet
  BY BreachConnectionType, FollowUnchanged DEF Quiet, StreamsTypeOK

(* Replacing a record by a record keeps the streams' type.                 *)
LEMMA WithType ==
    ASSUME StreamsTypeOK, NEW id \in DOMAIN streams,
           NEW stream \in StreamRecord, streams' = With(id, stream)
    PROVE  StreamsTypeOK' /\ DOMAIN streams' = DOMAIN streams
  BY DEF StreamsTypeOK, With

(* Ending either side of a stream gives a state.                           *)
LEMMA EndedTypes ==
    ASSUME NEW state
    PROVE  EndedLocally(state) \in States /\ EndedRemotely(state) \in States
  BY DEF EndedLocally, EndedRemotely, States

(* The codes the handlers answer with are error codes.                     *)
LEMMA CodesAre ==
    {"NoError", "Protocol", "FlowControl", "StreamClosed", "FrameSize",
     "RefusedStream", "Cancel", "Compression", "EnhanceYourCalm"}
        \subseteq Codes
  BY DEF Codes

(* One frame is a sequence of frames.                                      *)
LEMMA OneFrame ==
    ASSUME NEW f \in Frame
    PROVE  <<f>> \in Seq(Frame)
  OBVIOUS

(* What returns a frame's octets to the connection's window is a sequence  *)
(* of frames.                                                              *)
LEMMA CreditType ==
    ASSUME NEW octets \in Nat
    PROVE  Credit(octets) \in Seq(Frame)
<1>1. WindowUpdate(0, octets) \in Frame
  BY DEF WindowUpdate, Frame, WindowUpdateFrames
<1> QED
  BY <1>1 DEF Credit

(* A body that grows stays a body.                                         *)
LEMMA FedType ==
    ASSUME NEW stream \in StreamRecord, NEW content \in Int, content >= 0
    PROVE  [stream EXCEPT !.body = @ + content] \in StreamRecord
<1>1. stream.body + content \in Nat
  BY DEF StreamRecord
<1> QED
  BY <1>1 DEF StreamRecord

(* DATA on a stream that has a record is quiet.                            *)
LEMMA DataOnQuiet ==
    ASSUME WireTypeOK, StreamsTypeOK, last_peer \in Nat,
           remote \in Remotes, UNCHANGED remote,
           NEW id \in DOMAIN streams, NEW length \in Nat, NEW content \in Int,
           NEW end \in BOOLEAN, NEW credit \in Seq(Frame),
           DataOn(id, length, content, end, credit)
    PROVE  Quiet
<1> DEFINE stream == streams[id]
           taken == Take(stream.receive, length)
           fed == [stream EXCEPT !.body = @ + content]
<1>1. id \in Nat /\ stream \in StreamRecord /\ taken \in Int
  BY DEF StreamsTypeOK, StreamRecord, Take
<1>2. CASE IsReset(stream) /\ Accept(credit) /\ UNCHANGED streams
  BY <1>2, QuietAccept, FollowUnchanged DEF StreamsTypeOK
<1>3. CASE \E code \in {"StreamClosed", "FlowControl", "Cancel"} :
              BreachStream(credit, id, code)
  BY <1>3, <1>1, QuietBreachStream, CodesAre
<1>4. CASE BreachConnection(credit, "Protocol") /\ UNCHANGED streams
  BY <1>4, QuietBreachConnection, CodesAre
<1>5. CASE /\ content >= 0 /\ end /\ Receiving(stream.state)
           /\ streams' = With(id, [fed EXCEPT !.receive = taken,
                                              !.state = EndedRemotely(@)])
           /\ Accept(credit)
  <2>1. [fed EXCEPT !.receive = taken, !.state = EndedRemotely(@)]
          \in StreamRecord
    <3>1. fed \in StreamRecord
      BY <1>1, <1>5, FedType
    <3> HIDE DEF fed, taken
    <3>2. EndedRemotely(fed.state) \in States
      BY EndedTypes
    <3> QED
      BY <3>1, <3>2, <1>1 DEF StreamRecord
  <2>2. StreamsTypeOK' /\ DOMAIN streams' = DOMAIN streams
    BY <2>1, <1>5, WithType
  <2> DEFINE ended == [fed EXCEPT !.receive = taken,
                                  !.state = EndedRemotely(@)]
  <2>3. /\ ended.reset = stream.reset /\ ended.send = stream.send
        /\ ended.state = EndedRemotely(stream.state)
    BY <1>1 DEF StreamRecord
  <2> HIDE DEF ended
  <2>4. Follows(stream, ended, 0)
    BY <1>1, <1>5, <2>3 DEF Follows, StreamRecord, IsReset, EndedRemotely,
                            Receiving, Sending
  <2>5. RecordsFollow
    BY <1>5, <2>4, FollowWith DEF ended
  <2> QED
    BY <2>2, <2>5, <1>5, QuietAccept
<1>6. CASE /\ content >= 0 /\ ~end
           /\ streams' = With(id, [fed EXCEPT
                                     !.receive = Grant(taken, length)])
           /\ Accept(IF length > 0
                     THEN Append(credit, WindowUpdate(id, length))
                     ELSE credit)
  <2>1. [fed EXCEPT !.receive = Grant(taken, length)] \in StreamRecord
    <3>1. fed \in StreamRecord
      BY <1>1, <1>6, FedType
    <3>2. Grant(taken, length) \in Int
      BY <1>1 DEF Grant, Shift
    <3> HIDE DEF fed, taken
    <3> QED
      BY <3>1, <3>2 DEF StreamRecord
  <2>2. StreamsTypeOK' /\ DOMAIN streams' = DOMAIN streams
    BY <2>1, <1>6, WithType
  <2>3. WindowUpdate(id, length) \in Frame
    BY <1>1 DEF WindowUpdate, Frame, WindowUpdateFrames
  <2>4. Append(credit, WindowUpdate(id, length)) \in Seq(Frame)
    BY <2>3
  <2> DEFINE given == [fed EXCEPT !.receive = Grant(taken, length)]
  <2>5. /\ given.reset = stream.reset /\ given.send = stream.send
        /\ given.state = stream.state
    BY <1>1 DEF StreamRecord
  <2> HIDE DEF given
  <2>6. Follows(stream, given, 0)
    BY <1>1, <2>5 DEF Follows, StreamRecord, IsReset
  <2>7. RecordsFollow
    BY <1>6, <2>6, FollowWith DEF given
  <2> QED
    BY <2>2, <2>4, <2>7, <1>6, QuietAccept
<1> QED
  BY <1>2, <1>3, <1>4, <1>5, <1>6 DEF DataOn

-----------------------------------------------------------------------------
(* What handling any frame may do.                                         *)

RestTypeOK ==
    /\ send \in Int /\ receive \in Int
    /\ remote \in Remotes
    /\ continuing \in Blocks
    /\ highest \in Nat /\ last_peer \in Nat
    /\ goaway \in Nat \cup {NoGoaway}
    /\ settings_seen \in BOOLEAN
    /\ pongs \in SUBSET Nat

(* Records stay and the job goes on; where the connection fails, nothing   *)
(* is opened; where the peer opens a stream, it is above all it opened     *)
(* before, and has a record only while this side has not gone away and     *)
(* has fewer open than it allows.                                          *)
Effect ==
    /\ SameJob /\ RecordsFollow
    /\ UNCHANGED <<going_away, over>> \/ (going_away' /\ over')
    /\ \/ DOMAIN streams' = DOMAIN streams /\ UNCHANGED <<last_peer, highest>>
       \/ /\ PeerMayOpen(last_peer')
          /\ UNCHANGED <<going_away, over>>
          /\ \/ DOMAIN streams' = DOMAIN streams
             \/ /\ ~going_away /\ ~Full
                /\ DOMAIN streams' = DOMAIN streams \cup {last_peer'}
                /\ UNCHANGED remote
                /\ streams'[last_peer'].send = remote.initial_window_size

(* What handling any frame may do to the connection's windows: this side's *)
(* is granted more, up to the largest there is; the peer's is whole again. *)
WindowsFollow ==
    /\ send' = send \/ (send' >= send /\ send' <= MaxStreamId)
    /\ receive' = receive \/ over'

(* The connection's type in three parts.                                   *)
LEMMA TypeParts ==
    ConnectionTypeOK <=> WireTypeOK /\ StreamsTypeOK /\ RestTypeOK
  BY Zenon DEF ConnectionTypeOK, WireTypeOK, StreamsTypeOK, RestTypeOK

(* The same of the state a step leads to.                                  *)
LEMMA TypePartsNext ==
    (WireTypeOK /\ StreamsTypeOK /\ RestTypeOK)' => ConnectionTypeOK'
  BY Zenon DEF ConnectionTypeOK, WireTypeOK, StreamsTypeOK, RestTypeOK

(* A quiet step that keeps the other types is an effect.                   *)
LEMMA QuietEffect ==
    ASSUME Quiet, RestTypeOK', UNCHANGED <<last_peer, highest>>
    PROVE  ConnectionTypeOK' /\ Effect
<1>1. ConnectionTypeOK'
  BY TypePartsNext DEF Quiet
<1>2. Effect
  BY Zenon DEF Quiet, Effect
<1> QED
  BY <1>1, <1>2

(* data                                                                    *)
LEMMA DataStep ==
    ASSUME ConnectionTypeOK, NEW f \in DataFrames, HandleData(f)
    PROVE  ConnectionTypeOK' /\ Effect
<1> USE TypeParts
<1> DEFINE credit == Credit(f.length)
<1>1. /\ f.stream \in Nat /\ f.length \in Nat /\ f.end \in BOOLEAN
      /\ f.length - f.pad \in Int /\ f.kind = "Data"
  BY DEF DataFrames
<1>2. credit \in Seq(Frame) /\ << >> \in Seq(Frame)
  BY <1>1, CreditType
<1>3. /\ last_peer \in Nat /\ UNCHANGED <<last_peer, highest>>
      /\ remote \in Remotes /\ UNCHANGED remote
  BY DEF RestTypeOK, HandleData
<1> HIDE DEF credit
<1>4. Quiet
  <2>1. CASE BreachConnection(<< >>, "FlowControl") /\ UNCHANGED streams
    BY <2>1, <1>2, <1>3, QuietBreachConnection, CodesAre
  <2>2. CASE BreachConnection(credit, "Protocol") /\ UNCHANGED streams
    BY <2>2, <1>2, <1>3, QuietBreachConnection, CodesAre
  <2>3. CASE BreachStream(credit, f.stream, "StreamClosed")
    BY <2>3, <1>1, <1>2, <1>3, QuietBreachStream, CodesAre
  <2>4. CASE /\ f.stream \in DOMAIN streams
             /\ DataOn(f.stream, f.length, f.length - f.pad, f.end, credit)
    BY <2>4, <1>1, <1>2, <1>3, DataOnQuiet
  <2> QED
    BY <2>1, <2>2, <2>3, <2>4, Zenon DEF HandleData, credit
<1>5. receive' \in Int
  <2>1. receive \in Int /\ AfterData(f.stream, f.length) \in Int
    BY <1>1 DEF RestTypeOK, AfterData, Grant, Shift, Take
  <2> QED
    BY <2>1 DEF HandleData
<1>6. RestTypeOK'
  BY <1>5 DEF RestTypeOK, HandleData
<1> QED
  BY <1>3, <1>4, <1>6, QuietEffect

(* The kinds this side ignores or refuses.                                 *)
LEMMA PlainStep ==
    ASSUME ConnectionTypeOK, NEW f \in PlainFrames, HandlePlain(f)
    PROVE  ConnectionTypeOK' /\ Effect
<1> USE TypeParts
<1>1. f.stream \in Nat /\ << >> \in Seq(Frame)
  BY DEF PlainFrames
<1>2. /\ last_peer \in Nat /\ UNCHANGED <<last_peer, highest>>
      /\ remote \in Remotes /\ UNCHANGED remote /\ RestTypeOK'
  BY DEF RestTypeOK, HandlePlain
<1>3. Quiet
  <2>1. CASE BreachStream(<< >>, f.stream, "FrameSize")
    BY <2>1, <1>1, <1>2, QuietBreachStream, CodesAre
  <2>2. CASE Accept(<< >>) /\ UNCHANGED streams
    BY <2>2, <1>1, <1>2, QuietAccept, FollowUnchanged DEF StreamsTypeOK
  <2>3. CASE BreachConnection(<< >>, "Protocol") /\ UNCHANGED streams
    BY <2>3, <1>1, <1>2, QuietBreachConnection, CodesAre
  <2> QED
    BY <2>1, <2>2, <2>3, Zenon DEF HandlePlain
<1> QED
  BY <1>2, <1>3, QuietEffect

(* rst_stream                                                              *)
LEMMA RstStreamStep ==
    ASSUME ConnectionTypeOK, NEW f \in RstStreamFrames, HandleRstStream(f)
    PROVE  ConnectionTypeOK' /\ Effect
<1> USE TypeParts
<1>1. f.stream \in Nat /\ f.code \in Codes /\ << >> \in Seq(Frame)
  BY DEF RstStreamFrames
<1>2. /\ last_peer \in Nat /\ UNCHANGED <<last_peer, highest>>
      /\ remote \in Remotes /\ UNCHANGED remote /\ RestTypeOK'
  BY DEF RestTypeOK, HandleRstStream
<1>3. Quiet
  <2>1. CASE \E code \in {"Protocol", "FrameSize"} :
                BreachConnection(<< >>, code) /\ UNCHANGED streams
    BY <2>1, <1>1, <1>2, QuietBreachConnection, CodesAre
  <2>2. CASE streams' = ResetRecord(f.stream, f.code) /\ Accept(<< >>)
    <3>1. StreamsTypeOK' /\ DOMAIN streams' = DOMAIN streams
      BY <2>2, <1>1, ResetRecordType DEF StreamsTypeOK
    <3>2. RecordsFollow
      BY <2>2, <1>1, <1>2, FollowReset
    <3> QED
      BY <3>1, <3>2, <2>2, <1>1, QuietAccept
  <2> QED
    BY <2>1, <2>2, Zenon DEF HandleRstStream
<1> QED
  BY <1>2, <1>3, QuietEffect

(* ping_frame                                                              *)
LEMMA PingStep ==
    ASSUME ConnectionTypeOK, NEW f \in PingFrames, HandlePing(f)
    PROVE  ConnectionTypeOK' /\ Effect
<1> USE TypeParts
<1>1. f.opaque \in Nat /\ << >> \in Seq(Frame)
  BY DEF PingFrames
<1>2. <<Ping(f.opaque, TRUE)>> \in Seq(Frame)
  <2>1. Ping(f.opaque, TRUE) \in Frame
    BY <1>1 DEF Ping, PingFrames, Frame
  <2> QED
    BY <2>1, OneFrame
<1>3. pongs' \in SUBSET Nat
  BY <1>1, Zenon DEF RestTypeOK, HandlePing
<1>4. /\ last_peer \in Nat /\ UNCHANGED <<last_peer, highest>>
      /\ remote \in Remotes /\ UNCHANGED remote /\ RestTypeOK'
  BY <1>3 DEF RestTypeOK, HandlePing
<1>5. /\ StreamsTypeOK' /\ DOMAIN streams' = DOMAIN streams
      /\ UNCHANGED streams /\ RecordsFollow
  BY <1>4, FollowUnchanged DEF StreamsTypeOK, HandlePing
<1>6. Quiet
  <2>1. CASE BreachConnection(<< >>, "FrameSize")
    BY <2>1, <1>1, <1>4, <1>5, QuietBreachConnection, CodesAre
  <2>2. CASE Accept(<< >>) \/ Accept(<<Ping(f.opaque, TRUE)>>)
    BY <2>2, <1>1, <1>2, <1>5, QuietAccept
  <2> QED
    BY <2>1, <2>2, Zenon DEF HandlePing
<1> QED
  BY <1>4, <1>6, QuietEffect

(* goaway_frame                                                            *)
LEMMA GoawayStep ==
    ASSUME ConnectionTypeOK, NEW f \in GoawayFrames, HandleGoaway(f)
    PROVE  ConnectionTypeOK' /\ Effect
<1> USE TypeParts
<1>1. f.last \in Nat /\ << >> \in Seq(Frame)
  BY DEF GoawayFrames
<1>2. /\ last_peer \in Nat /\ UNCHANGED <<last_peer, highest>>
      /\ remote \in Remotes /\ UNCHANGED remote /\ RestTypeOK'
  <2>1. goaway' \in Nat \cup {NoGoaway}
    BY <1>1, Zenon DEF RestTypeOK, HandleGoaway
  <2> QED
    BY <2>1 DEF RestTypeOK, HandleGoaway
<1>3. Quiet
  <2>1. CASE BreachConnection(<< >>, "FrameSize") /\ UNCHANGED streams
    BY <2>1, <1>1, <1>2, QuietBreachConnection, CodesAre
  <2>2. CASE /\ streams' = [id \in DOMAIN streams |->
                              IF PassedOver(id, f.last)
                              THEN [streams[id] EXCEPT
                                      !.reset = "RefusedStream"]
                              ELSE streams[id]]
             /\ Accept(<< >>)
    <3>1. ASSUME NEW id \in DOMAIN streams
          PROVE  [streams[id] EXCEPT !.reset = "RefusedStream"]
                    \in StreamRecord
      <4>1. streams[id] \in StreamRecord
        BY DEF StreamsTypeOK
      <4> QED
        BY <4>1, CodesAre DEF StreamRecord
    <3>2. DOMAIN streams' = DOMAIN streams
      BY <2>2
    <3>3. ASSUME NEW id \in DOMAIN streams
          PROVE  streams'[id] \in StreamRecord
      BY <3>1, <2>2 DEF StreamsTypeOK
    <3>4. StreamsTypeOK'
      BY <3>2, <3>3, <2>2 DEF StreamsTypeOK
    <3>5. ASSUME NEW id \in DOMAIN streams
          PROVE  Follows(streams[id], streams'[id], 0)
      <4>1. streams[id] \in StreamRecord
        BY DEF StreamsTypeOK
      <4>2. \/ streams'[id] = streams[id]
            \/ /\ streams'[id].reset = "RefusedStream"
               /\ streams'[id].send = streams[id].send
               /\ streams'[id].state = streams[id].state
        BY <2>2, <4>1 DEF StreamRecord
      <4> QED
        BY <4>1, <4>2, FollowsSame DEF Follows, IsReset, StreamRecord
    <3>6. RecordsFollow
      BY <1>2, <3>5, NoDelta DEF RecordsFollow
    <3> QED
      BY <3>2, <3>4, <3>6, <2>2, <1>1, QuietAccept
  <2> QED
    BY <2>1, <2>2, Zenon DEF HandleGoaway
<1> QED
  BY <1>2, <1>3, QuietEffect

(* window_update                                                           *)
LEMMA WindowUpdateStep ==
    ASSUME ConnectionTypeOK, NEW f \in WindowUpdateFrames,
           HandleWindowUpdate(f)
    PROVE  ConnectionTypeOK' /\ Effect
<1> USE TypeParts
<1> DEFINE id == f.stream
           error == GrantError(f.increment)
           granted == [streams[id] EXCEPT !.send = Grant(@, f.increment)]
<1>1. f.increment \in Nat /\ id \in Nat /\ << >> \in Seq(Frame)
  BY DEF WindowUpdateFrames
<1>2. error \in Codes
  BY CodesAre DEF GrantError
<1>3. /\ last_peer \in Nat /\ UNCHANGED <<last_peer, highest>>
      /\ remote \in Remotes /\ UNCHANGED remote /\ RestTypeOK'
  <2>1. send \in Int /\ Grant(send, f.increment) \in Int
    BY <1>1 DEF RestTypeOK, Grant, Shift
  <2>2. send' = send \/ send' = Grant(send, f.increment)
    BY Zenon DEF HandleWindowUpdate
  <2> QED
    BY <2>1, <2>2 DEF RestTypeOK, HandleWindowUpdate
<1> HIDE DEF error
<1>4. Quiet
  <2>1. CASE \E code \in {"FrameSize", "Protocol", error} :
                BreachConnection(<< >>, code) /\ UNCHANGED streams
    BY <2>1, <1>1, <1>2, <1>3, QuietBreachConnection, CodesAre
  <2>2. CASE Accept(<< >>) /\ UNCHANGED streams
    BY <2>2, <1>1, <1>3, QuietAccept, FollowUnchanged DEF StreamsTypeOK
  <2>3. CASE BreachStream(<< >>, id, error)
    BY <2>3, <1>1, <1>2, <1>3, QuietBreachStream
  <2>4. CASE /\ id \in DOMAIN streams
             /\ CanGrant(streams[id].send, f.increment)
             /\ streams' = With(id, granted)
             /\ Accept(<< >>)
    <3>1. streams[id] \in StreamRecord
      BY <2>4 DEF StreamsTypeOK
    <3>2. Grant(streams[id].send, f.increment) \in Int
      BY <3>1, <1>1 DEF StreamRecord, Grant, Shift
    <3>3. granted \in StreamRecord
      BY <3>1, <3>2 DEF StreamRecord
    <3>4. /\ granted.send = Grant(streams[id].send, f.increment)
          /\ granted.reset = streams[id].reset
          /\ granted.state = streams[id].state
      BY <3>1 DEF StreamRecord
    <3> HIDE DEF granted
    <3>5. StreamsTypeOK' /\ DOMAIN streams' = DOMAIN streams
      BY <3>3, <2>4, WithType
    <3>6. Follows(streams[id], granted, 0)
      BY <1>1, <2>4, <3>1, <3>4, WindowAssumption
         DEF Follows, IsReset, Grant, CanGrant, CanShift, Shift, StreamRecord
    <3>7. RecordsFollow
      BY <1>3, <2>4, <3>6, FollowWith
    <3> QED
      BY <3>5, <3>7, <2>4, <1>1, QuietAccept
  <2> QED
    BY <2>1, <2>2, <2>3, <2>4, Zenon DEF HandleWindowUpdate, error
<1> QED
  BY <1>3, <1>4, QuietEffect

(* Settings::apply leaves settings the peer may have.                      *)
LEMMA AppliedType ==
    ASSUME remote \in Remotes, NEW f \in SettingsFrames, ~SettingsRefused(f)
    PROVE  Applied(f.params) \in Remotes
<1>1. /\ f.params.window \in Nat \cup {Absent}
      /\ f.params.frame \in Nat \cup {Absent}
  BY DEF SettingsFrames, Params
<1>2. Heeded(remote.initial_window_size, f.params.window) \in 0..MaxStreamId
  BY <1>1, WindowAssumption DEF Heeded, Remotes, SettingsRefused, Absent
<1>3. Heeded(remote.max_frame_size, f.params.frame)
        \in MinFrameSize..MaxFrameSize
  BY <1>1 DEF Heeded, Remotes, SettingsRefused, Absent
<1> QED
  BY <1>2, <1>3 DEF Applied, Remotes

(* settings                                                                *)
LEMMA SettingsStep ==
    ASSUME ConnectionTypeOK, NEW f \in SettingsFrames, HandleSettings(f)
    PROVE  ConnectionTypeOK' /\ Effect
<1> USE TypeParts
<1> DEFINE delta == Applied(f.params).initial_window_size
                      - remote.initial_window_size
           shifted == [id \in DOMAIN streams |->
                         [streams[id] EXCEPT !.send = Shift(@, delta)]]
           ackFrame == SettingsFrame(NoParams, TRUE)
           error == SettingsError(f)
<1>1. << >> \in Seq(Frame) /\ error \in Codes
  BY CodesAre DEF SettingsError
<1>2. <<ackFrame>> \in Seq(Frame)
  <2>1. NoParams \in Params
    BY DEF NoParams, Params
  <2>2. ackFrame \in SettingsFrames
    BY <2>1 DEF SettingsFrame, SettingsFrames
  <2>3. ackFrame \in Frame
    BY <2>2 DEF Frame
  <2> QED
    BY <2>3, OneFrame
<1>3. /\ last_peer \in Nat /\ UNCHANGED <<last_peer, highest>>
      /\ remote \in Remotes /\ RestTypeOK'
  <2>1. remote' \in Remotes
    <3>1. CASE ~SettingsRefused(f) /\ remote' = Applied(f.params)
      BY <3>1, AppliedType DEF RestTypeOK
    <3>2. CASE UNCHANGED remote
      BY <3>2 DEF RestTypeOK
    <3> QED
      BY <3>1, <3>2, Zenon DEF HandleSettings
  <2>2. settings_seen' \in BOOLEAN
    BY Zenon DEF RestTypeOK, HandleSettings
  <2> QED
    BY <2>1, <2>2 DEF RestTypeOK, HandleSettings
<1>4. Quiet
  <2>1. CASE \E code \in {"FrameSize", "FlowControl", error} :
                /\ BreachConnection(<< >>, code)
                /\ UNCHANGED <<streams, remote>>
    BY <2>1, <1>1, <1>3, QuietBreachConnection, CodesAre
  <2>2. CASE Accept(<< >>) /\ UNCHANGED <<streams, remote>>
    BY <2>2, <1>1, <1>3, QuietAccept, FollowUnchanged DEF StreamsTypeOK
  <2>3. CASE /\ ~SettingsRefused(f) /\ remote' = Applied(f.params)
             /\ \A id \in DOMAIN streams : CanShift(streams[id].send, delta)
             /\ streams' = shifted /\ Accept(<<ackFrame>>)
    <3>1. delta \in Int /\ InitialDelta = delta
      BY <2>3, AppliedType DEF RestTypeOK, Remotes, InitialDelta
    <3> HIDE DEF delta
    <3>2. ASSUME NEW id \in DOMAIN streams
          PROVE  [streams[id] EXCEPT !.send = Shift(@, delta)]
                    \in StreamRecord
      <4>1. streams[id] \in StreamRecord
        BY DEF StreamsTypeOK
      <4>2. Shift(streams[id].send, delta) \in Int
        BY <4>1, <3>1 DEF Shift, StreamRecord
      <4> QED
        BY <4>1, <4>2 DEF StreamRecord
    <3>3. StreamsTypeOK' /\ DOMAIN streams' = DOMAIN streams
      BY <2>3, <3>2 DEF StreamsTypeOK
    <3>4. ASSUME NEW id \in DOMAIN streams
          PROVE  Follows(streams[id], streams'[id], delta)
      <4>1. streams[id] \in StreamRecord
        BY DEF StreamsTypeOK
      <4>2. /\ streams'[id].send = Shift(streams[id].send, delta)
            /\ streams'[id].reset = streams[id].reset
            /\ streams'[id].state = streams[id].state
        BY <2>3, <4>1 DEF StreamRecord
      <4>3. CanShift(streams[id].send, delta)
        BY <2>3
      <4> QED
        BY <3>1, <4>1, <4>2, <4>3, WindowAssumption
           DEF Follows, IsReset, CanShift, Shift, StreamRecord
    <3>5. RecordsFollow
      BY <3>1, <3>4 DEF RecordsFollow
    <3> QED
      BY <3>3, <3>5, <2>3, <1>2, QuietAccept
  <2> QED
    BY <2>1, <2>2, <2>3, Zenon DEF HandleSettings
<1> QED
  BY <1>3, <1>4, QuietEffect

(* Stream::headers leaves a record.                                        *)
LEMMA WithHeadersType ==
    ASSUME NEW stream \in StreamRecord, NEW fields \in Fields,
           NEW end \in BOOLEAN
    PROVE  WithHeaders(stream, fields, end) \in StreamRecord
<1>1. (IF end THEN EndedRemotely(stream.state) ELSE stream.state) \in States
  BY EndedTypes DEF StreamRecord
<1>2. (IF stream.head = NoFields /\ ~Informational(fields)
       THEN fields ELSE stream.head) \in Fields
  BY DEF StreamRecord
<1>3. (IF stream.head # NoFields /\ ~Informational(fields)
       THEN fields ELSE stream.trailers) \in Fields
  BY DEF StreamRecord
<1> QED
  BY <1>1, <1>2, <1>3 DEF WithHeaders, StreamRecord

(* A block accepted on a stream the peer may send on ends at most the      *)
(* peer's side.                                                            *)
LEMMA WithHeadersFollows ==
    ASSUME NEW stream \in StreamRecord, Receiving(stream.state),
           NEW fields, NEW end
    PROVE  Follows(stream, WithHeaders(stream, fields, end), 0)
<1> DEFINE new == WithHeaders(stream, fields, end)
<1>1. /\ new.reset = stream.reset /\ new.send = stream.send
      /\ new.state = IF end THEN EndedRemotely(stream.state) ELSE stream.state
  BY DEF WithHeaders, StreamRecord
<1> HIDE DEF new
<1>2. Follows(stream, new, 0)
  BY <1>1 DEF Follows, StreamRecord, IsReset, EndedRemotely, Receiving, Sending
<1> QED
  BY <1>2 DEF new

(* A stream that opens has a record.                                       *)
LEMMA OpenedType ==
    ASSUME StreamsTypeOK, RestTypeOK, NEW id \in Nat
    PROVE  /\ Opened(id) \in [DOMAIN streams \cup {id} -> StreamRecord]
           /\ id \in DOMAIN Opened(id)
<1>1. NewStream(remote.initial_window_size, DefaultWindow) \in StreamRecord
  <2>1. remote.initial_window_size \in Int /\ DefaultWindow \in Int
    BY WindowAssumption DEF RestTypeOK, Remotes
  <2>2. NoFields \in Fields
    BY DEF NoFields, Fields, FieldKinds
  <2> QED
    BY <2>1, <2>2 DEF NewStream, StreamRecord, States
<1> QED
  BY <1>1 DEF StreamsTypeOK, Opened

(* The greater of two stream numbers is one of them.                       *)
LEMMA MaxOfType ==
    ASSUME NEW m \in Nat, NEW n \in Nat
    PROVE  MaxOf(m, n) \in Nat
  BY DEF MaxOf

(* A whole block on a stream that has no record.                           *)
LEMMA OpenByPeerStep ==
    ASSUME WireTypeOK, StreamsTypeOK, RestTypeOK, UNCHANGED remote,
           NEW id \in Nat, id \notin DOMAIN streams,
           NEW fields \in Fields, NEW end \in BOOLEAN,
           OpenByPeer(id, fields, end)
    PROVE  /\ WireTypeOK' /\ StreamsTypeOK' /\ Effect
           /\ highest' \in Nat /\ last_peer' \in Nat
<1>1. /\ << >> \in Seq(Frame) /\ last_peer \in Nat /\ highest \in Nat
      /\ remote \in Remotes
  BY DEF RestTypeOK
<1>2. CASE /\ BreachConnection(<< >>, "Protocol")
           /\ UNCHANGED <<streams, highest, last_peer>>
  <2>1. Quiet
    BY <1>1, <1>2, QuietBreachConnection, CodesAre
  <2> QED
    BY <2>1, <1>1, <1>2, Zenon DEF Quiet, Effect
<1>3. CASE /\ PeerMayOpen(id) /\ last_peer' = id
           /\ highest' = MaxOf(highest, id)
  <2>1. highest' \in Nat /\ last_peer' \in Nat /\ PeerMayOpen(last_peer')
    BY <1>1, <1>3, MaxOfType
  <2>2. CASE Accept(<< >>) /\ UNCHANGED streams
    <3>1. WireTypeOK' /\ SameJob /\ UNCHANGED <<going_away, over>>
      BY <1>1, <2>2, AcceptType
    <3>2. /\ StreamsTypeOK' /\ DOMAIN streams' = DOMAIN streams
          /\ RecordsFollow
      BY <1>1, <2>2, FollowUnchanged DEF StreamsTypeOK
    <3> QED
      BY <2>1, <3>1, <3>2 DEF Effect
  <2>3. CASE BreachStream(<< >>, id, "RefusedStream")
    <3>1. /\ WireTypeOK' /\ SameJob /\ UNCHANGED <<going_away, over>>
          /\ StreamsTypeOK' /\ DOMAIN streams' = DOMAIN streams
      BY <1>1, <2>3, BreachStreamType, CodesAre
    <3>2. RecordsFollow
      BY <1>1, <2>3, FollowReset, CodesAre DEF BreachStream
    <3> QED
      BY <2>1, <3>1, <3>2 DEF Effect
  <2>4. CASE /\ Admitting /\ ~Full
             /\ streams' = [Opened(id) EXCEPT
                               ![id] = WithHeaders(@, fields, end)]
             /\ Accept(<< >>)
    <3>1. WireTypeOK' /\ SameJob /\ UNCHANGED <<going_away, over>>
      BY <1>1, <2>4, AcceptType
    <3>2. WithHeaders(Opened(id)[id], fields, end) \in StreamRecord
      BY OpenedType, WithHeadersType
    <3>3. /\ streams' \in [DOMAIN streams \cup {id} -> StreamRecord]
          /\ DOMAIN streams' = DOMAIN streams \cup {id}
      BY <2>4, <3>2, OpenedType
    <3>4. StreamsTypeOK'
      BY <3>3 DEF StreamsTypeOK
    <3>5. ~going_away
      BY <2>4 DEF Admitting
    <3>6. ASSUME NEW i \in DOMAIN streams
          PROVE  Follows(streams[i], streams'[i], 0)
      <4>1. streams[i] \in StreamRecord
        BY DEF StreamsTypeOK
      <4>2. streams'[i] = streams[i]
        BY <2>4 DEF Opened
      <4> QED
        BY <4>1, <4>2, FollowsSame
    <3>7. RecordsFollow
      BY <1>1, <3>6, NoDelta DEF RecordsFollow
    <3>8. streams'[id].send = remote.initial_window_size
      <4> DEFINE new == NewStream(remote.initial_window_size, DefaultWindow)
      <4>1. streams'[id] = WithHeaders(Opened(id)[id], fields, end)
        BY <2>4 DEF Opened
      <4>2. Opened(id)[id] = new
        BY DEF Opened
      <4>3. WithHeaders(new, fields, end).send = new.send
        BY DEF WithHeaders, NewStream
      <4> QED
        BY <4>1, <4>2, <4>3 DEF NewStream
    <3> QED
      BY <1>3, <2>1, <2>4, <3>1, <3>3, <3>4, <3>5, <3>7, <3>8 DEF Effect
  <2> QED
    BY <1>3, <2>2, <2>3, <2>4 DEF OpenByPeer, PeerMayOpen
<1> QED
  BY <1>2, <1>3, Zenon DEF OpenByPeer

(* A whole block on a stream that has a record.                            *)
LEMMA BlockOnQuiet ==
    ASSUME WireTypeOK, StreamsTypeOK, remote \in Remotes, UNCHANGED remote,
           NEW id \in DOMAIN streams, NEW fields \in Fields,
           NEW end \in BOOLEAN, BlockOn(id, fields, end)
    PROVE  Quiet /\ UNCHANGED <<highest, last_peer>>
<1> DEFINE error == HeadersError(streams[id], fields, end)
<1>1. /\ << >> \in Seq(Frame) /\ id \in Nat
      /\ streams[id] \in StreamRecord
  BY DEF StreamsTypeOK
<1>2. error # "None" => error \in Codes
  BY CodesAre DEF HeadersError
<1>3. error = "None" => Receiving(streams[id].state)
  BY DEF HeadersError
<1> HIDE DEF error
<1>4. CASE Accept(<< >>) /\ UNCHANGED streams
  BY <1>1, <1>4, QuietAccept, FollowUnchanged DEF BlockOn, StreamsTypeOK
<1>5. CASE error # "None" /\ BreachStream(<< >>, id, error)
  BY <1>1, <1>2, <1>5, QuietBreachStream DEF BlockOn
<1>6. CASE /\ error = "None"
           /\ streams' = With(id, WithHeaders(streams[id], fields, end))
           /\ Accept(<< >>)
  <2>1. WithHeaders(streams[id], fields, end) \in StreamRecord
    BY <1>1, WithHeadersType
  <2>2. StreamsTypeOK' /\ DOMAIN streams' = DOMAIN streams
    BY <1>6, <2>1, WithType
  <2>3. RecordsFollow
    BY <1>1, <1>6, <1>3, WithHeadersFollows, FollowWith
  <2> QED
    BY <1>1, <1>6, <2>2, <2>3, QuietAccept DEF BlockOn
<1> QED
  BY <1>4, <1>5, <1>6, Zenon DEF BlockOn, error

(* block                                                                   *)
LEMMA BlockStep ==
    ASSUME ConnectionTypeOK, NEW id \in Nat, NEW length \in Nat,
           NEW fields \in Fields, NEW end \in BOOLEAN, NEW whole \in BOOLEAN,
           UNCHANGED remote, Block(id, length, fields, end, whole)
    PROVE  /\ WireTypeOK' /\ StreamsTypeOK' /\ Effect
           /\ highest' \in Nat /\ last_peer' \in Nat /\ continuing' \in Blocks
<1> USE TypeParts
<1>1. /\ << >> \in Seq(Frame) /\ last_peer \in Nat /\ highest \in Nat
      /\ remote \in Remotes
  BY DEF RestTypeOK
<1>2. /\ NoBlock \in Blocks
      /\ [stream |-> id, length |-> length, end |-> end] \in Blocks
  BY DEF NoBlock, Blocks
<1>3. continuing' \in Blocks
  BY <1>2, Zenon DEF Block
<1>4. CASE Quiet /\ UNCHANGED <<highest, last_peer>>
  BY <1>1, <1>3, <1>4, Zenon DEF Quiet, Effect
<1>5. CASE \E code \in {"EnhanceYourCalm", "Compression"} :
              /\ BreachConnection(<< >>, code)
              /\ UNCHANGED <<streams, highest, last_peer>>
  <2>1. Quiet
    BY <1>1, <1>5, QuietBreachConnection, CodesAre
  <2> QED
    BY <2>1, <1>4, <1>5
<1>6. CASE Accept(<< >>) /\ UNCHANGED <<streams, highest, last_peer>>
  <2>1. Quiet
    BY <1>1, <1>6, QuietAccept, FollowUnchanged DEF StreamsTypeOK
  <2> QED
    BY <2>1, <1>4, <1>6
<1>7. CASE /\ BreachStream(<< >>, id, "Protocol")
           /\ UNCHANGED <<highest, last_peer>>
  <2>1. Quiet
    BY <1>1, <1>7, QuietBreachStream, CodesAre
  <2> QED
    BY <2>1, <1>4, <1>7
<1>8. CASE id \in DOMAIN streams /\ BlockOn(id, fields, end)
  BY <1>1, <1>4, <1>8, BlockOnQuiet
<1>9. CASE id \notin DOMAIN streams /\ OpenByPeer(id, fields, end)
  BY <1>3, <1>9, OpenByPeerStep
<1> QED
  BY <1>5, <1>6, <1>7, <1>8, <1>9, Zenon DEF Block

(* HEADERS                                                                 *)
LEMMA HeadersStep ==
    ASSUME ConnectionTypeOK, NEW f \in HeadersFrames, HandleHeaders(f)
    PROVE  ConnectionTypeOK' /\ Effect
<1> USE TypeParts
<1>1. /\ f.stream \in Nat /\ f.length \in Nat /\ f.pad \in Nat
      /\ f.fields \in Fields /\ f.end \in BOOLEAN /\ f.whole \in BOOLEAN
      /\ << >> \in Seq(Frame)
  BY DEF HeadersFrames
<1>2. CASE /\ BreachConnection(<< >>, "Protocol")
           /\ UNCHANGED <<streams, continuing, highest, last_peer>>
  <2>1. last_peer \in Nat /\ remote \in Remotes /\ UNCHANGED remote
    BY DEF RestTypeOK, HandleHeaders
  <2>2. Quiet
    BY <1>1, <1>2, <2>1, QuietBreachConnection, CodesAre
  <2>3. RestTypeOK'
    BY <1>2 DEF RestTypeOK, HandleHeaders
  <2> QED
    BY <1>2, <2>2, <2>3, QuietEffect
<1>3. CASE /\ f.pad <= f.length
           /\ Block(f.stream, f.length - f.pad, f.fields, f.end, f.whole)
  <2>1. f.length - f.pad \in Nat
    BY <1>1, <1>3
  <2>2. /\ WireTypeOK' /\ StreamsTypeOK' /\ Effect
        /\ highest' \in Nat /\ last_peer' \in Nat /\ continuing' \in Blocks
    BY <1>1, <1>3, <2>1, BlockStep DEF HandleHeaders
  <2>3. RestTypeOK'
    BY <2>2 DEF RestTypeOK, HandleHeaders
  <2> QED
    BY <2>2, <2>3, TypePartsNext
<1> QED
  BY <1>2, <1>3 DEF HandleHeaders

(* CONTINUATION                                                            *)
LEMMA ContinuationStep ==
    ASSUME ConnectionTypeOK, NEW f \in ContinuationFrames,
           HandleContinuation(f)
    PROVE  ConnectionTypeOK' /\ Effect
<1> USE TypeParts
<1>1. /\ f.length \in Nat /\ f.fields \in Fields /\ f.whole \in BOOLEAN
      /\ << >> \in Seq(Frame)
  BY DEF ContinuationFrames
<1>2. CASE /\ BreachConnection(<< >>, "Protocol")
           /\ UNCHANGED <<streams, continuing, highest, last_peer>>
  <2>1. last_peer \in Nat /\ remote \in Remotes /\ UNCHANGED remote
    BY DEF RestTypeOK, HandleContinuation
  <2>2. Quiet
    BY <1>1, <1>2, <2>1, QuietBreachConnection, CodesAre
  <2>3. RestTypeOK'
    BY <1>2 DEF RestTypeOK, HandleContinuation
  <2> QED
    BY <1>2, <2>2, <2>3, QuietEffect
<1>3. CASE Block(continuing.stream, continuing.length + f.length, f.fields,
                 continuing.end, f.whole)
  <2>1. /\ continuing.stream \in Nat /\ continuing.length + f.length \in Nat
        /\ continuing.end \in BOOLEAN
    BY <1>1 DEF RestTypeOK, Blocks
  <2>2. /\ WireTypeOK' /\ StreamsTypeOK' /\ Effect
        /\ highest' \in Nat /\ last_peer' \in Nat /\ continuing' \in Blocks
    BY <1>1, <1>3, <2>1, BlockStep DEF HandleContinuation
  <2>3. RestTypeOK'
    BY <2>2 DEF RestTypeOK, HandleContinuation
  <2> QED
    BY <2>2, <2>3, TypePartsNext
<1> QED
  BY <1>2, <1>3, Zenon DEF HandleContinuation

(* A frame is one of the frames of its kind.                               *)
LEMMA FrameKinds ==
    ASSUME NEW f \in Frame
    PROVE  /\ f.kind = "Data" => f \in DataFrames
           /\ f.kind = "Headers" => f \in HeadersFrames
           /\ f.kind = "Continuation" => f \in ContinuationFrames
           /\ f.kind \in {"Priority", "PushPromise", "Unknown"}
                => f \in PlainFrames
           /\ f.kind = "RstStream" => f \in RstStreamFrames
           /\ f.kind = "Settings" => f \in SettingsFrames
           /\ f.kind = "Ping" => f \in PingFrames
           /\ f.kind = "Goaway" => f \in GoawayFrames
           /\ f.kind = "WindowUpdate" => f \in WindowUpdateFrames
  BY DEF Frame, DataFrames, HeadersFrames, ContinuationFrames, PlainFrames,
         RstStreamFrames, SettingsFrames, PingFrames, GoawayFrames,
         WindowUpdateFrames

(* pump: whatever frame is read, in whatever state, the connection keeps   *)
(* its type and the effect is one of those above.                          *)
LEMMA PumpStep ==
    ASSUME ConnectionTypeOK, NEW f \in Frame, Pump(f)
    PROVE  ConnectionTypeOK' /\ Effect
<1>1. CASE Unhandled(f)
  <2> DEFINE code == IF f.kind = "Oversized" THEN "FrameSize" ELSE "Protocol"
  <2>1. CASE /\ BreachConnection(<< >>, code)
             /\ UNCHANGED <<streams, send, receive, remote, continuing,
                            highest, last_peer, goaway, settings_seen, pongs>>
    <3>1. code \in Codes /\ << >> \in Seq(Frame)
      BY CodesAre
    <3> HIDE DEF code
    <3>2. Quiet
      BY <2>1, <3>1, TypeParts, QuietBreachConnection DEF RestTypeOK
    <3>3. RestTypeOK'
      BY <2>1, TypeParts DEF RestTypeOK
    <3> QED
      BY <2>1, <3>2, <3>3, QuietEffect
  <2> QED
    BY <1>1, <2>1, Zenon DEF Pump
<1>2. CASE Handle(f)
  BY <1>2, FrameKinds, DataStep, HeadersStep, ContinuationStep, PlainStep,
     RstStreamStep, SettingsStep, PingStep, GoawayStep, WindowUpdateStep
     DEF Handle
<1> QED
  BY <1>1, <1>2, Zenon DEF Pump

(* pump moves the connection's windows only so: DATA takes nothing from    *)
(* the peer's that is not given back, and a grant is refused where it      *)
(* would take this side's past the largest.                                *)
LEMMA PumpWindows ==
    ASSUME ConnectionTypeOK, NEW f \in Frame, Pump(f)
    PROVE  WindowsFollow
<1>1. send \in Int /\ receive \in Int
  BY DEF ConnectionTypeOK
<1>2. CASE UNCHANGED <<send, receive>>
  BY <1>2 DEF WindowsFollow
<1>3. CASE f.kind = "Data" /\ HandleData(f)
  <2>1. f.length \in Nat
    BY <1>3, FrameKinds DEF DataFrames
  <2>2. UNCHANGED send
    BY <1>3 DEF HandleData
  <2>3. receive' = receive \/ receive' = AfterData(f.stream, f.length)
    BY <1>3, Zenon DEF HandleData
  <2>4. AfterData(f.stream, f.length) = receive
    BY <1>1, <2>1 DEF AfterData, Grant, Take, Shift
  <2> QED
    BY <2>2, <2>3, <2>4 DEF WindowsFollow
<1>4. CASE f.kind = "WindowUpdate" /\ HandleWindowUpdate(f)
  <2>1. f.increment \in Nat
    BY <1>4, FrameKinds DEF WindowUpdateFrames
  <2>2. UNCHANGED receive
    BY <1>4 DEF HandleWindowUpdate
  <2>3. \/ send' = send
        \/ CanGrant(send, f.increment) /\ send' = Grant(send, f.increment)
    BY <1>4, Zenon DEF HandleWindowUpdate
  <2>4. send' = send \/ (send' >= send /\ send' <= MaxStreamId)
    BY <1>1, <2>1, <2>3 DEF CanGrant, CanShift, Grant, Shift
  <2> QED
    BY <2>2, <2>4 DEF WindowsFollow
<1>5. HandleHeaders(f) \/ HandleContinuation(f) \/ HandlePlain(f)
        \/ HandleRstStream(f) \/ HandleSettings(f) \/ HandlePing(f)
        \/ HandleGoaway(f) => UNCHANGED <<send, receive>>
  BY DEF HandleHeaders, HandleContinuation, HandlePlain, HandleRstStream,
         HandleSettings, HandlePing, HandleGoaway
<1>6. Unhandled(f) => UNCHANGED <<send, receive>> \/ Handle(f)
  BY Zenon DEF Pump
<1> QED
  BY <1>2, <1>3, <1>4, <1>5, <1>6, Zenon DEF Pump, Handle

(* A read that ends leaves the connection well-typed, its records as they  *)
(* were, and over.                                                         *)
LEMMA PumpEndStep ==
    ASSUME ConnectionTypeOK, PumpEnd
    PROVE  /\ ConnectionTypeOK' /\ over' /\ job' = NoJob
           /\ UNCHANGED <<streams, last_peer, going_away>>
<1>1. NoJob \in Jobs
  BY DEF NoJob, Jobs, NoFields, Fields, FieldKinds
<1>2. out \o held \in Seq(Frame) /\ << >> \in Seq(Frame)
  BY DEF ConnectionTypeOK
<1> QED
  BY <1>1, <1>2 DEF ConnectionTypeOK, PumpEnd

-----------------------------------------------------------------------------
(* Writing a message.                                                      *)

(* What writing may do: the records and the job's stream stay.             *)
Writes ==
    /\ DOMAIN streams' = DOMAIN streams
    /\ job # NoJob /\ job' # NoJob /\ job'.id = job.id
    /\ UNCHANGED <<last_peer, going_away, over>>

(* Ending a stream locally keeps the streams' type.                        *)
LEMMA EndLocallyType ==
    ASSUME NEW stream \in StreamRecord
    PROVE  [stream EXCEPT !.state = EndedLocally(@)] \in StreamRecord
<1>1. EndedLocally(stream.state) \in States
  BY EndedTypes
<1> QED
  BY <1>1 DEF StreamRecord

(* Octets taken from a stream's window leave a record.                     *)
LEMMA TakenType ==
    ASSUME NEW stream \in StreamRecord, NEW octets \in Nat
    PROVE  [stream EXCEPT !.send = Take(@, octets)] \in StreamRecord
<1>1. Take(stream.send, octets) \in Int
  BY DEF Take, StreamRecord
<1> QED
  BY <1>1 DEF StreamRecord

(* What one DATA frame may carry is a number of octets, a negative window  *)
(* counting as none.                                                       *)
LEMMA MostType ==
    ASSUME StreamsTypeOK, RestTypeOK, NEW id \in DOMAIN streams
    PROVE  Most(id) \in Nat
<1>1. remote.max_frame_size \in Nat
  BY ConnectionAssumption DEF RestTypeOK, Remotes
<1>2. streams[id].send \in Int /\ send \in Int
  BY DEF StreamsTypeOK, StreamRecord, RestTypeOK
<1>3. Available(send) \in Nat /\ Available(streams[id].send) \in Nat
  BY <1>2 DEF Available
<1> QED
  BY <1>1, <1>3 DEF Most

(* One piece of a body, and the trailers after the last.                   *)
LEMMA SendPieceStep ==
    ASSUME ConnectionTypeOK, SendPiece
    PROVE  ConnectionTypeOK' /\ Writes
<1> USE TypeParts
<1> DEFINE id == job.id
           most == Most(id)
           piece == IF job.rest <= most THEN job.rest ELSE most
           last == piece = job.rest
           taken == [streams[id] EXCEPT !.send = Take(@, piece)]
           ended == [taken EXCEPT !.state = EndedLocally(@)]
           trailing == IF last /\ job.trailers # NoFields
                       THEN HeaderFrames(id, job.trailers, job.block, TRUE)
                       ELSE << >>
           data == Data(id, piece, last /\ job.trailers = NoFields)
<1>1. /\ id \in DOMAIN streams /\ id \in Nat /\ job.rest \in Nat
      /\ job.phase = "writing" /\ job.trailers \in Fields
      /\ job.block \in Nat /\ job \in Jobs
  BY DEF SendPiece, ShutForGood, WireTypeOK, Jobs
<1>2. most \in Nat
  BY <1>1, MostType
<1>3. piece \in Nat /\ job.rest - piece \in Nat
  <2> HIDE DEF most
  <2> QED
    BY <1>1, <1>2
<1>4. trailing \in Seq(Frame)
  <2>1. HeaderFrames(id, job.trailers, job.block, TRUE) \in Seq(Frame)
    BY <1>1, HeaderFramesType DEF RestTypeOK
  <2>2. << >> \in Seq(Frame)
    OBVIOUS
  <2> QED
    BY <2>1, <2>2, Zenon
<1>5. data \in Frame
  <2> HIDE DEF piece
  <2> QED
    BY <1>1, <1>3 DEF Data, DataFrames, Frame
<1>6. taken \in StreamRecord /\ ended \in StreamRecord
  <2>1. streams[id] \in StreamRecord
    BY <1>1 DEF StreamsTypeOK
  <2> HIDE DEF piece
  <2>2. taken \in StreamRecord
    BY <2>1, <1>3, TakenType
  <2> HIDE DEF taken
  <2> QED
    BY <2>2, EndLocallyType
<1> HIDE DEF most, taken, ended, trailing, data
<1>7. /\ held' = held \o <<data>> \o trailing
      /\ send' = Take(send, piece)
      /\ streams' = With(id, IF last THEN ended ELSE taken)
      /\ job' = [job EXCEPT !.rest = @ - piece,
                            !.phase = IF last THEN "written" ELSE @]
      /\ UNCHANGED out /\ UNCHANGED sendingUnchanged
  BY Zenon DEF SendPiece, most, taken, ended, trailing, data
<1> HIDE DEF piece, last
<1>8. held' \in Seq(Frame)
  BY <1>4, <1>5, <1>7 DEF WireTypeOK
<1>9. job' \in Jobs /\ job'.id = id /\ job' # NoJob /\ job # NoJob
  <2>1. (IF last THEN "written" ELSE job.phase) \in {"written", "writing"}
    BY <1>1
  <2>2. /\ job' = [id |-> id, rest |-> job.rest - piece,
                   trailers |-> job.trailers, block |-> job.block,
                   phase |-> IF last THEN "written" ELSE job.phase]
    BY <1>1, <1>7 DEF Jobs
  <2> QED
    BY <2>1, <2>2, <1>1, <1>3 DEF Jobs, NoJob
<1>10. StreamsTypeOK' /\ DOMAIN streams' = DOMAIN streams
  <2>1. (IF last THEN ended ELSE taken) \in StreamRecord
    BY <1>6
  <2> QED
    BY <2>1, <1>1, <1>7, WithType
<1>11. RestTypeOK'
  <2>1. send' \in Int
    BY <1>3, <1>7 DEF Take, RestTypeOK
  <2> QED
    BY <2>1, <1>7 DEF RestTypeOK, sendingUnchanged
<1>12. WireTypeOK'
  BY <1>7, <1>8, <1>9 DEF WireTypeOK, sendingUnchanged
<1> QED
  BY <1>7, <1>9, <1>10, <1>11, <1>12, TypePartsNext
     DEF Writes, sendingUnchanged

(* The rest of a message keeps the type as well.                           *)
LEMMA WriteStep ==
    ASSUME ConnectionTypeOK, Write
    PROVE  ConnectionTypeOK' /\ Writes
<1> USE TypeParts
<1>1. /\ job \in Jobs /\ job.id \in Nat /\ job.trailers \in Fields
      /\ job.block \in Nat /\ << >> \in Seq(Frame)
      /\ held \in Seq(Frame) /\ out \in Seq(Frame)
  BY DEF WireTypeOK, Jobs
<1>2. ASSUME NEW phase \in {"written", "waiting", "refused"},
             job' = [job EXCEPT !.phase = phase], job.phase = "writing"
      PROVE  job' \in Jobs /\ job # NoJob /\ job' # NoJob /\ job'.id = job.id
  BY <1>1, <1>2 DEF Jobs, NoJob
<1>3. CASE SendTrailers
  <2> DEFINE frames == HeaderFrames(job.id, job.trailers, job.block, TRUE)
  <2>1. frames \in Seq(Frame)
    BY <1>1, HeaderFramesType DEF RestTypeOK
  <2> HIDE DEF frames
  <2>2. held' \in Seq(Frame)
    <3>1. held' = held \o frames
      BY <1>3, Zenon DEF SendTrailers, frames
    <3> QED
      BY <1>1, <2>1, <3>1
  <2>3. StreamsTypeOK' /\ DOMAIN streams' = DOMAIN streams
    <3>1. CASE job.id \in DOMAIN streams
      <4>1. streams[job.id] \in StreamRecord
        BY <3>1 DEF StreamsTypeOK
      <4> DEFINE ended == [streams[job.id] EXCEPT !.state = EndedLocally(@)]
      <4>2. ended \in StreamRecord
        BY <4>1, EndLocallyType
      <4> HIDE DEF ended
      <4>3. streams' = With(job.id, ended)
        BY <1>3, <3>1 DEF SendTrailers, ended
      <4> QED
        BY <3>1, <4>2, <4>3, WithType
    <3>2. CASE job.id \notin DOMAIN streams
      BY <1>3, <3>2 DEF SendTrailers, StreamsTypeOK
    <3> QED
      BY <3>1, <3>2
  <2>4. job' \in Jobs /\ job # NoJob /\ job' # NoJob /\ job'.id = job.id
    BY <1>2, <1>3 DEF SendTrailers
  <2>5. WireTypeOK' /\ RestTypeOK'
    BY <1>3, <2>2, <2>4 DEF SendTrailers, sendingUnchanged, WireTypeOK,
                            RestTypeOK
  <2> QED
    BY <1>3, <2>3, <2>4, <2>5, TypePartsNext
       DEF Writes, SendTrailers, sendingUnchanged
<1>4. CASE Stall
  <2>1. job' \in Jobs /\ job # NoJob /\ job' # NoJob /\ job'.id = job.id
    BY <1>2, <1>4 DEF Stall
  <2>2. held' \in Seq(Frame) /\ out' \in Seq(Frame)
    BY <1>1, <1>4 DEF Stall
  <2>3. WireTypeOK' /\ RestTypeOK' /\ StreamsTypeOK'
    BY <1>4, <2>1, <2>2 DEF Stall, sendingUnchanged, WireTypeOK, RestTypeOK,
                            StreamsTypeOK
  <2> QED
    BY <1>4, <2>1, <2>3, TypePartsNext DEF Writes, Stall, sendingUnchanged
<1>5. CASE SendRefused
  <2>1. job' \in Jobs /\ job # NoJob /\ job' # NoJob /\ job'.id = job.id
    BY <1>2, <1>5 DEF SendRefused
  <2>2. WireTypeOK' /\ RestTypeOK' /\ StreamsTypeOK'
    BY <1>5, <2>1 DEF SendRefused, sendingUnchanged, WireTypeOK, RestTypeOK,
                      StreamsTypeOK
  <2> QED
    BY <1>5, <2>1, <2>2, TypePartsNext
       DEF Writes, SendRefused, sendingUnchanged
<1> QED
  BY <1>3, <1>4, <1>5, SendPieceStep DEF Write

(* What writing may do to a record: it takes from the window what the      *)
(* window holds, and ends this side's half.                                *)
Written(old, new) ==
    /\ new.reset = old.reset
    /\ old.state = "Closed" => new.state = "Closed"
    /\ new.send = old.send \/ new.send \in 0..old.send

(* What writing may do to the windows, the records and the message: a      *)
(* message still being written has a stream this side may send on, one     *)
(* that is refused has not, and one that waits has let go of what it held. *)
Spends ==
    /\ send' = send \/ send' \in 0..send
    /\ \A id \in DOMAIN streams : Written(streams[id], streams'[id])
    /\ job'.phase = "waiting" => held' = << >>
    /\ job'.phase \in {"writing", "waiting"} =>
            /\ job.id \in DOMAIN streams
            /\ Sending(streams'[job.id].state)
    /\ job'.phase = "refused" => ShutForGood(job.id)
    /\ UNCHANGED <<receive, remote, highest, goaway>>

(* A record left alone is written so.                                      *)
LEMMA WrittenSame ==
    ASSUME NEW stream \in StreamRecord
    PROVE  Written(stream, stream)
  BY DEF Written

(* So is one whose half this side ends.                                    *)
LEMMA WrittenEnded ==
    ASSUME NEW stream \in StreamRecord
    PROVE  Written(stream, [stream EXCEPT !.state = EndedLocally(@)])
  BY DEF Written, StreamRecord, EndedLocally

(* And one of which a piece was taken that its window holds.               *)
LEMMA WrittenTaken ==
    ASSUME NEW stream \in StreamRecord, NEW piece \in Nat,
           piece <= stream.send
    PROVE  /\ Written(stream, [stream EXCEPT !.send = Take(@, piece)])
           /\ Written(stream, [[stream EXCEPT !.send = Take(@, piece)]
                                 EXCEPT !.state = EndedLocally(@)])
<1>1. stream.send \in Int /\ stream.send - piece \in 0..stream.send
  BY DEF StreamRecord
<1> QED
  BY <1>1 DEF Written, StreamRecord, EndedLocally, Take

(* One record written, the others left alone.                              *)
LEMMA WrittenWith ==
    ASSUME StreamsTypeOK, NEW id \in DOMAIN streams, NEW stream,
           Written(streams[id], stream), streams' = With(id, stream)
    PROVE  \A i \in DOMAIN streams : Written(streams[i], streams'[i])
<1>1. ASSUME NEW i \in DOMAIN streams
      PROVE  Written(streams[i], streams'[i])
  <2>1. streams'[i] = IF i = id THEN stream ELSE streams[i]
    BY DEF With
  <2>2. streams[i] \in StreamRecord
    BY DEF StreamsTypeOK
  <2> QED
    BY <2>1, <2>2, WrittenSame
<1> QED
  BY <1>1

(* A piece is taken from windows that hold it, and from no others.         *)
LEMMA SendPieceSpends ==
    ASSUME ConnectionTypeOK, SendPiece
    PROVE  Spends
<1> USE TypeParts
<1> DEFINE id == job.id
           most == Most(id)
           piece == IF job.rest <= most THEN job.rest ELSE most
           last == piece = job.rest
           taken == [streams[id] EXCEPT !.send = Take(@, piece)]
           ended == [taken EXCEPT !.state = EndedLocally(@)]
<1>1. /\ id \in DOMAIN streams /\ job.rest \in Nat /\ job \in Jobs
      /\ job.phase = "writing" /\ most > 0 /\ Sending(streams[id].state)
  BY DEF SendPiece, ShutForGood, WireTypeOK, Jobs
<1>2. streams[id] \in StreamRecord /\ streams[id].send \in Int /\ send \in Int
  BY <1>1 DEF StreamsTypeOK, StreamRecord, RestTypeOK
<1>3. most \in Nat /\ most <= send /\ most <= streams[id].send
  <2>1. most \in Nat
    BY <1>1, MostType
  <2>2. remote.max_frame_size \in Nat
    BY ConnectionAssumption DEF RestTypeOK, Remotes
  <2> QED
    BY <1>1, <1>2, <2>1, <2>2 DEF Most, Available
<1>4. /\ send' = Take(send, piece)
      /\ streams' = With(id, IF last THEN ended ELSE taken)
      /\ job' = [job EXCEPT !.rest = @ - piece,
                            !.phase = IF last THEN "written" ELSE @]
      /\ UNCHANGED sendingUnchanged
  BY Zenon DEF SendPiece
<1> HIDE DEF most
<1>5. piece \in Nat /\ piece <= most
  BY <1>1, <1>3
<1> HIDE DEF piece
<1>6. send' \in 0..send
  BY <1>2, <1>3, <1>4, <1>5 DEF Take
<1>7. \A i \in DOMAIN streams : Written(streams[i], streams'[i])
  <2>1. Written(streams[id], taken) /\ Written(streams[id], ended)
    <3>1. piece <= streams[id].send
      BY <1>2, <1>3, <1>5
    <3> QED
      BY <1>2, <1>5, <3>1, WrittenTaken, Zenon
  <2> HIDE DEF taken, ended
  <2>2. Written(streams[id], IF last THEN ended ELSE taken)
    BY <2>1
  <2> QED
    BY <1>1, <1>4, <2>2, WrittenWith
<1>8. /\ job'.phase = IF last THEN "written" ELSE "writing"
  BY <1>1, <1>4 DEF Jobs
<1>9. ~last => Sending(streams'[id].state)
  BY <1>1, <1>2, <1>4 DEF With, StreamRecord
<1> HIDE DEF last
<1> QED
  BY <1>1, <1>4, <1>6, <1>7, <1>8, <1>9 DEF Spends, sendingUnchanged

(* No other step of a message takes from a window.                         *)
LEMMA WriteSpends ==
    ASSUME ConnectionTypeOK, Write
    PROVE  Spends
<1> USE TypeParts
<1>1. job \in Jobs
  BY DEF WireTypeOK
<1>2. UNCHANGED streams =>
        \A id \in DOMAIN streams : Written(streams[id], streams'[id])
  BY WrittenSame DEF StreamsTypeOK
<1>3. CASE SendTrailers
  <2>1. job'.phase = "written"
    BY <1>1, <1>3 DEF SendTrailers, Jobs
  <2>2. \A id \in DOMAIN streams : Written(streams[id], streams'[id])
    <3>1. CASE job.id \in DOMAIN streams
      <4> DEFINE ended == [streams[job.id] EXCEPT !.state = EndedLocally(@)]
      <4>1. Written(streams[job.id], ended)
        BY <3>1, WrittenEnded DEF StreamsTypeOK
      <4>2. streams' = With(job.id, ended)
        BY <1>3, <3>1 DEF SendTrailers
      <4> HIDE DEF ended
      <4> QED
        BY <3>1, <4>1, <4>2, WrittenWith
    <3>2. CASE job.id \notin DOMAIN streams
      BY <1>2, <1>3, <3>2 DEF SendTrailers
    <3> QED
      BY <3>1, <3>2
  <2> QED
    BY <1>3, <2>1, <2>2 DEF Spends, SendTrailers, sendingUnchanged
<1>4. CASE Stall
  <2>1. job'.phase = "waiting"
    BY <1>1, <1>4 DEF Stall, Jobs
  <2>2. job.id \in DOMAIN streams /\ Sending(streams'[job.id].state)
    BY <1>4 DEF Stall, ShutForGood
  <2> QED
    BY <1>2, <1>4, <2>1, <2>2 DEF Spends, Stall, sendingUnchanged
<1>5. CASE SendRefused
  <2>1. job'.phase = "refused"
    BY <1>1, <1>5 DEF SendRefused, Jobs
  <2> QED
    BY <1>2, <1>5, <2>1 DEF Spends, SendRefused, sendingUnchanged
<1> QED
  BY <1>3, <1>4, <1>5, SendPieceSpends DEF Write

(* A message's head, on the streams it starts from.                        *)
LEMMA StartMessageStep ==
    ASSUME ConnectionTypeOK, NEW id \in Nat, NEW base,
           DOMAIN base \in SUBSET Nat, base \in [DOMAIN base -> StreamRecord],
           NEW fields \in Fields, NEW block \in Nat, NEW body \in Nat,
           NEW trailers \in Fields, highest' \in Nat,
           StartMessage(id, base, fields, block, body, trailers)
    PROVE  /\ ConnectionTypeOK' /\ DOMAIN streams' = DOMAIN base
           /\ job' # NoJob /\ job'.id = id
           /\ UNCHANGED <<last_peer, going_away, over>>
<1> USE TypeParts
<1> DEFINE last == body = 0 /\ trailers = NoFields
<1>1. /\ job' = [id |-> id, rest |-> body, trailers |-> trailers,
                 block |-> block,
                 phase |-> IF last THEN "written" ELSE "writing"]
      /\ held' = HeaderFrames(id, fields, block, last)
      /\ streams' = IF last THEN [base EXCEPT ![id].state = EndedLocally(@)]
                    ELSE base
      /\ UNCHANGED <<send, receive, remote, continuing, last_peer, goaway,
                     going_away, settings_seen, pongs, out, over>>
  BY Zenon DEF StartMessage
<1>2. last \in BOOLEAN
  OBVIOUS
<1> HIDE DEF last
<1>3. job' \in Jobs /\ job' # NoJob /\ job'.id = id
  BY <1>1 DEF Jobs, NoJob
<1>4. held' \in Seq(Frame)
  <2>1. HeaderFrames(id, fields, block, last) \in Seq(Frame)
    BY <1>2, HeaderFramesType DEF RestTypeOK
  <2> QED
    BY <1>1, <2>1
<1>5. StreamsTypeOK' /\ DOMAIN streams' = DOMAIN base
  <2> DEFINE ended == [base[id] EXCEPT !.state = EndedLocally(@)]
  <2>1. CASE streams' = base
    BY <2>1 DEF StreamsTypeOK
  <2>2. CASE streams' = [base EXCEPT ![id] = ended]
    <3>1. id \in DOMAIN base => ended \in StreamRecord
      BY EndLocallyType
    <3> HIDE DEF ended
    <3> QED
      BY <3>1, <2>2 DEF StreamsTypeOK
  <2>3. [base EXCEPT ![id].state = EndedLocally(@)]
          = [base EXCEPT ![id] = ended]
    OBVIOUS
  <2> QED
    BY <1>1, <2>1, <2>2, <2>3
<1>6. WireTypeOK' /\ RestTypeOK'
  BY <1>1, <1>3, <1>4 DEF WireTypeOK, RestTypeOK
<1> QED
  BY <1>1, <1>3, <1>5, <1>6, TypePartsNext

(* A message's head takes nothing from a window, and ends the stream only  *)
(* where nothing follows it.                                               *)
LEMMA StartMessageSpends ==
    ASSUME NEW id, NEW base, id \in DOMAIN base,
           base \in [DOMAIN base -> StreamRecord],
           NEW fields, NEW block, NEW body, NEW trailers,
           StartMessage(id, base, fields, block, body, trailers)
    PROVE  /\ DOMAIN streams' = DOMAIN base
           /\ \A i \in DOMAIN base : Written(base[i], streams'[i])
           /\ job'.phase = "written" \/ (job'.phase = "writing" /\ streams' = base)
           /\ UNCHANGED <<send, receive, remote, goaway>>
<1> DEFINE last == body = 0 /\ trailers = NoFields
<1>1. /\ job'.phase = IF last THEN "written" ELSE "writing"
      /\ streams' = IF last THEN [base EXCEPT ![id].state = EndedLocally(@)]
                    ELSE base
      /\ UNCHANGED <<send, receive, remote, goaway>>
  BY DEF StartMessage
<1> HIDE DEF last
<1>2. ASSUME NEW i \in DOMAIN base
      PROVE  Written(base[i], streams'[i])
  <2> DEFINE ended == [base[i] EXCEPT !.state = EndedLocally(@)]
  <2>1. Written(base[i], base[i]) /\ Written(base[i], ended)
    BY WrittenSame, WrittenEnded
  <2>2. streams'[i] = base[i] \/ streams'[i] = ended
    BY <1>1
  <2> HIDE DEF ended
  <2> QED
    BY <2>1, <2>2
<1> QED
  BY <1>1, <1>2

(* together returns.                                                       *)
LEMMA ReleasedType ==
    ASSUME WireTypeOK, Released, UNCHANGED <<going_away, over>>
    PROVE  WireTypeOK'
<1>1. NoJob \in Jobs
  BY DEF NoJob, Jobs, NoFields, Fields, FieldKinds
<1> QED
  BY <1>1 DEF WireTypeOK, Released

(* emit, outside handling.                                                 *)
LEMMA EmitType ==
    ASSUME WireTypeOK, NEW f \in Frame, Emit(<<f>>)
    PROVE  held' \in Seq(Frame) /\ out' \in Seq(Frame)
<1>1. \/ held' = held \o <<f>> /\ out' = out
      \/ out' = out \o <<f>> /\ held' = held
  BY Zenon DEF Emit
<1>2. <<f>> \in Seq(Frame)
  BY OneFrame
<1> DEFINE frames == <<f>>
<1> HIDE DEF frames
<1>3. frames \in Seq(Frame) /\ held \in Seq(Frame) /\ out \in Seq(Frame)
  BY <1>2 DEF WireTypeOK, frames
<1>4. held \o frames \in Seq(Frame) /\ out \o frames \in Seq(Frame)
  BY <1>3
<1> QED
  BY <1>1, <1>3, <1>4 DEF frames

(* go_away                                                                 *)
LEMMA GoAwayStep ==
    ASSUME ConnectionTypeOK, NEW code \in Codes, GoAway(code)
    PROVE  /\ ConnectionTypeOK' /\ going_away'
           /\ UNCHANGED <<streams, last_peer, job, over>>
<1>1. Goaway(last_peer, code) \in Frame
  BY DEF ConnectionTypeOK, Goaway, GoawayFrames, Frame
<1>2. held' \in Seq(Frame) /\ out' \in Seq(Frame)
  BY <1>1, TypeParts, EmitType DEF GoAway
<1> QED
  BY <1>2 DEF ConnectionTypeOK, GoAway

-----------------------------------------------------------------------------
(* Either side starts with its types.                                      *)
LEMMA StartType ==
    ASSUME Start
    PROVE  ConnectionTypeOK
<1> USE DEF Start
<1>1. OurSettings \in Frame
  <2>1. [NoParams EXCEPT !.push = 0] \in Params
    BY DEF NoParams, Params
  <2>2. OurSettings \in SettingsFrames
    BY <2>1 DEF OurSettings, SettingsFrame, SettingsFrames
  <2> QED
    BY <2>2 DEF Frame
<1>2. out \in Seq(Frame) /\ held \in Seq(Frame)
  BY <1>1, OneFrame
<1>3. DOMAIN streams = {} /\ streams \in [DOMAIN streams -> StreamRecord]
  OBVIOUS
<1>4. job \in Jobs
  BY DEF NoJob, Jobs, NoFields, Fields, FieldKinds
<1>5. /\ remote \in Remotes /\ send \in Int /\ receive \in Int
      /\ continuing \in Blocks
  BY WindowAssumption, ConnectionAssumption DEF Remotes, NoBlock, Blocks
<1> QED
  BY <1>2, <1>3, <1>4, <1>5 DEF ConnectionTypeOK
===============================================================================
