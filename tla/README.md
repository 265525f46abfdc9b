# A verification of xmip-core-library-net

TLA+ models of the library's protocols, the TLC runs that check them and the
TLAPS proofs of what matters most about each. `PROJECT.json` lists
every component, run, mutant, finding, hazard and theorem, and says which lines
of the source each definition stands for. Source paths below are relative to
the crate's own `src/`.

## 1. The system

The crate is the network layer of a message broker's adapters: blocking code,
without an async runtime, generic over a reader and a writer. One call runs on
one thread; it gives way to the peer where it reads and nowhere else. What is
hard in it is therefore not locks but conversations: what a call remembers
between two reads, what arrives after it stopped caring, and what is left behind
when it gives up.

| Component | State it keeps | Operations | Talks to |
| --- | --- | --- | --- |
| `http2/window.rs` | an octet count | `take`, `grant`, `shift` | streams, connection |
| `http2/stream.rs` | state, two windows, head, body, trailers, reset | `headers`, `finished` | connection |
| `http2/connection.rs` | records by number, windows, settings, GOAWAYs, pongs, the frames held back by `together` | `start`, `open`, `emit`, `send_headers`, `send_data`, `reset`, `go_away`, `fail`, `ping` | the peer, through frames; it reads (`pump`) while it waits for a window |
| `http2/receive.rs` | the header block being continued | `pump`, `handle` and a handler for each kind of frame | the connection's state, and writes answers at once |
| `http2/server.rs` | (the connection) | `next_request`, `respond`, `go_away`, `close`, `serve` | an application that takes requests and answers them |
| `http2/client.rs` | (the connection) | `send`, `ping`, `close` | an application that sends one request at a time |
| `http2/hpack/*` | a dynamic table at each end | `encode`, `decode`, `resize` | the other end's table, through header blocks |
| `http.rs`, `http/body.rs`, `http/message.rs`, `head.rs`, `read.rs`, `ceiling.rs` | none between calls but the connection itself | `exchange`, `exchange_kept`, `read_response`, `write_response` | an HTTP/1.1 peer |
| `pipe/unix.rs` | the FIFO's file, an opener thread for each timed call | `bind`, `accept`, `connect`, `Drop` | the kernel's `open(2)`, and every other opener of the file |
| `pipe/windows.rs`, `pipe/windows/*` | the instance a client reaches next, behind a mutex; a stream's handle, its read ahead and the shared cell a cancel reads | `bind`, `accept`, `connect`, `read`, `write`, `lent`, `Cancel::cancel`, `Drop` | the Windows kernel: instances, handles and overlapped operations |
| `http2/preface.rs` | the octets sniffed and not yet replayed | `sniff`, `Replayed::read` | the connection under it |
| `frame.rs`, `http2/frame.rs` | none between frames | `write`, `append`, `read` | `read::header`, the connection |
| `watched.rs` | when the peer was last heard | `read` | a socket with a short timeout, a side that ends |
| `accepting.rs` | none | `wakeable`, `knock`, `woken` | the thread in a listener's accept |
| `connect.rs` | a deadline, the last failure | `connect` | the addresses a name resolves to |
| the rest | none | parsers, formatters, values | |

What makes each of them correct, and where that is hard to test:

* **Streams.** Frames cross each other: a RST_STREAM, a GOAWAY or the end of a
  stream meets DATA, HEADERS or WINDOW_UPDATE already on their way. The record
  of a stream is made, handed to the application and forgotten by different
  calls, and frames of the stream arrive between any two. A request must be
  handed out once, its record must be there when it is answered, and nothing
  that merely crossed may end the connection.
* **Windows.** Credit is returned on every path through `data`, refusals
  included, or the connection starves after enough of them. A SETTINGS moves
  the windows of streams whose octets are in flight, below zero too.
* **Waiting while writing.** `send_data` reads while it waits for a window.
  What it holds back inside `together` must be released first, or both sides
  wait for one another.
* **Going away.** Whatever a client is told was not processed must not have
  been, because the client sends it again.
* **HPACK.** The two tables are copies kept equal only by applying the same
  blocks in the same order, while the size changes under blocks in flight.
* **HTTP/1.1.** A kept connection carries nothing between exchanges but its
  position in the octets: one octet too many or too few, or one answer not
  waited for, and the next exchange reads something else's answer.
* **Framing.** One `read` returns any number of octets. A header, a body and the
  preface come in pieces, a timeout falls between any two of them, and a
  connection cut in the middle must not look like one that ended.
* **Stopping.** A thread in `accept` hears nothing but a connection, and a
  connection may be lost, late or somebody else's.
* **Windows pipe.** A client arrives while an accept waits, as it gives up, or
  between two accepts; handles are reused as soon as they are closed, and a
  cancel names one.
* **FIFO.** A timed open is another thread in `open(2)`, which nothing but a
  facing open ends; the release that ends it is visible to everyone else.

## 2. Modules

| Module | Models |
| --- | --- |
| `Http2Window` | `Window`: each operation as the condition it succeeds under and the count it leaves |
| `Http2Stream` | `Stream` and the kinds of header list `message.rs` tells apart |
| `Http2Connection` | `Connection`, both halves: state, `Emit`/`together`, the steps of writing a message, and `Handle` with one operator per frame handler |
| `Http2Server` | `Server` over that connection: `ReadFrame`, `ReadStalled`, `CallFinished`/`HandOut`/`RefuseRequest`/`Forget`, `Respond`…, `CallGoAway`, `Close`, `DrainFrame`, `ReadEnds` |
| `Http2Client` | `Client`: `CallSend`, `SendNotSent`, `Requesting`, `RequestWritten`, `SendReturns`, `CallPing`, `PingReturns`, `Close`, `ReadEnds` |
| `Http2Exchange` | one `INSTANCE` of the client and one of the server, joined: what one writes the other reads, in order; `serve` on the server's side, which ends where an answer failed (`ServeFails`), or an application that goes on; `ConnectionReset` is TCP's (external) |
| `Hpack` | table, encoder, decoder and the blocks in flight |
| `Http1Exchange` | `exchange_kept` and `exchange` against a peer that writes as `write_response` does, writes interim answers too, or writes anything |
| `RequestService` | what a client is promised of its requests, abstractly: no frames, streams or windows |
| `Framing` | `sniff`, `Replayed`, `Server::handshake`'s reading of the preface, the two `read`s of a frame with `read::header`, `read::to_end`, and `Watched::read` under all of them |
| `Stopping` | `woken`, `knock` and `wakeable` against an accepting thread, and `connect` for knocks and for clients |
| `WindowsPipe` | `Listener`, `Stream`, `Cancel` and `connect`, with the overlapped wait, its timeout and its cancel as steps of their own; the kernel's instances and handles are external |
| `FifoPipe` | `Listener`, whose `accept` any number of threads may be in at once, `connect` and `opened`, the opener and its release as opens of their own; `Open` is the kernel's (external) |
| `MC…` | the peers' frames, header fields and answers for TLC |
| `…Proofs` | the theorems about the module it is named for, `PipeProofs` about both pipes; `Http2ConnectionProofs` has the lemmas the server's and the client's share |

A step of `Http2Connection` is what the code does between two reads, or one
round of a loop that reads nothing. `Handle(f)` is the whole handler of `f`:
what it writes, the records it changes and how it fails are one step.
`job` is the message that `together` is writing, with the phase the call is in;
`held` is `together`'s buffer and `out` what has reached the wire. The server
module adds `answering` (requests handed out and not answered) and `handed`
(all ever handed out, a history variable); the client adds `call` and the
results `send` has returned.

In `Http2Server` and `Http2Client` the peer is any sequence of frames from
`PeerFrames`, so what is proved of the server is proved against every client.
`Room` bounds what is written and unread, for TLC: without it `out` grows for
ever.

`Http2Exchange` implements `RequestService` (`ServesRequests`): `outcome` is what
`send` returned for each request, an answer to another request being no outcome
a service has; `processed` is the requests whose stream the server handed out;
`away` is the server's `going_away`; `large`, a history, whether a message over
MAX_BODY was sent. Everything else either side does is a
stutter of the service.

In `Framing` an octet is a digit in base 2 and a header two of them, the length
big-endian: short enough for every header, body and preface to be cut at every
octet, with the same reading loop for the node's four-octet header and for
HTTP/2's nine-octet one. A read returns any number of the octets that arrived;
the peer writes frames, or any octets at all. `beats` says whether `Watched` was
given a silence: without one, which is what `Watched::new` starts with, nothing but
the side's ending ends a read that waits.

`WindowsPipe` follows the direction in which the client writes, since both ends
run the same `Stream`; `accept[a]` is how far an accept is, `pipe` what the
kernel knows of each handle. `Stopping` counts time in ticks that pass only while
something waits.

In `Http1Exchange` the wire is a sequence of tokens (a line, an octet, a CRLF).
The peer may end the connection between any two of them, and a read may fail
(time out) at any point. A `BufReader` takes ahead whatever has arrived, as
`Fill` does, and an exchange takes it with it when it ends.

### What is abstracted

* A header list is its kind (request, malformed, interim, head, trailers, too
  long…) and the message it belongs to; a body is its length; a header block is
  its number of frames and whether it fits MAX_BLOCK.
* The HTTP/2 modules take frames whole; that they arrive whole is `Framing`'s.
* A failing write is not a case of its own: the connection breaks under the next
  read instead.
* After the connection failed the application lets it go: the call returns its
  error, and the records go with the connection.
* An HTTP/1.1 request travels whole; its target, query and fields are left out.
* `wait_free` rounds what is left of a patience to milliseconds and never below
  one, so a connect may overrun its patience by less than one; ticks are whole in
  `WindowsPipe`.
* An `Interrupted` read is tried again at once and changes nothing.
* `to_end` reads one octet past its limit to tell that there is one, and holds it
  while it refuses (`read.rs:96-102`); `Http1Exchange` refuses in the same step, so
  `HeldWithin` speaks of what is kept.
* `exchange_kept` borrows the connection. `Http1Exchange`'s `Fail` and `Drop` assume
  a caller that drops it where the exchange failed, which nothing in the crate
  enforces.
* A padding or a priority that a frame is too short for is `FrameSize` in
  `content` (`frame.rs:182`, `frame.rs:189`) and a protocol error in the model: the
  GOAWAY is the same but for its code. A SETTINGS with several faults is refused with
  FlowControl if that is among them, where the code names the first
  (`settings.rs:111-115`).
* A name that does not resolve fails in `connect` before anything is tried;
  `Stopping` begins with the addresses.
* `open(2)` is Linux's: an open that began and finds the other side open
  succeeds, one that waits is let through by a facing open even when that open
  is closed again before the waiting thread runs. An opener that panics is not
  modelled.

## 3. Runs

### What holds

| Run | Distinct states | What it shows |
| --- | --- | --- |
| `server_lifecycle` | 215,654 | Against a client that opens, feeds, ends and resets streams in every order while the application takes, answers, goes away and closes: what is handed out has its record until it is answered (`RecordsKept`); no record is above the highest stream opened (`RecordsOpened`); nothing is taken above what GOAWAY named (`NothingAboveGoaway`); the limit on concurrent streams is never passed, however streams end (`ConcurrencyKept`); a request is handed out once (`HandedOnce`). |
| `server_anything` | 454,557 | Every kind of frame, whole and broken, on the connection and on idle, live and closed streams, and windows moved to nothing, to the limit and past it while an answer is written: `TypeOK`; the connection's receive window is whole again after every step (`CreditReturned`); no send window leaves its range (`WindowsInRange`). |
| `client_answers` | 1,128,940 | A client against answers, resets, GOAWAYs and updates in any order: its records and numbers are its own, so the next stream is always idle (`OwnStreamsOnly`), and what a failed send leaves is reset (`LeftoversReset`). |
| `exchange_serve` | 145,508 | The two together, bodies larger than the windows and larger than MAX_BODY, so that each side resets and forgets streams the other is still writing on; a GOAWAY at any moment; `serve` ending where an answer is refused, or an application that goes on: the server never ends the connection for what crossed, and the client only for the trailers of an answer it reset (`NoBreach`); no credit is lost between them (`ConnectionConserved`); they implement `RequestService`, every send returning answered, or aborted and never processed, or failed once a message was over MAX_BODY (`ServesRequests`); and both ends end (`BothEnd`). |
| `hpack_tables` | 495,014 | Blocks are read as they were sent while the size changes (`ReadAsSent`), tables stay within their sizes (`TablesBounded`), and the encoder's table is a prefix of the decoder's whenever nothing is in flight (`EncoderIsPrefix`), which is why. |
| `http1_answers` | 1,530,511 | Two exchanges, timeouts and cuts anywhere: an answer is its own request's (`AnswerIsOwn`) and whole (`AnswerAsWritten`), and every exchange returns once the peer answers (`ExchangeReturns`). And one against any line and any length: what is held stays within MAX_BODY and MAX_HEADERS (`HeldWithin`). |
| `fifo_accept` | 184,586 | Two threads that accept on one listener and two clients, one of each timed, the listener dropped at any moment: a call is handed a connection by a peer's own open or by the release of another call of its side, never by its own (`HandedByAnother`); a call whose open began before its deadline returns while the file is there (`BegunReturns`). |
| `windows_pipe` | 673,908 | Two clients and an accepter, timed waits, failing calls, cancels and reused handles: the mutex is held by the accept under way (`TypeOK`); a stream's instance is its own client's and no longer the listener's (`OneConnection`); octets are read once and in order through `lent` and the read ahead (`ReadAsWritten`); a cancel reaches the handle of its own stream (`CancelReachesOwn`); a connect keeps to its patience over all its waits (`WithinPatience`); a client that reached the listener leaves it only as the stream handed out, with the listener, or where the instance it reached was just made and its event failed (`HandedOutOrFailed`); every connect ends while there is a listener (`ConnectReturns`). |
| `framing` | 546,592 | Reads of any size, timeouts anywhere, a peer that writes frames or anything, must beat or need not, closes or breaks off: nothing read is larger than was asked for (`TypeOK`), lost or doubled (`NothingLost`); HTTP/2 is what opens with the preface (`OpenedAsSent`); a clean end is between two frames (`CleanEndIsWhole`); frames are those written (`FramesAsWritten`); silence is neither declared early nor suffered longer (`SilenceKept`); a stop ends the read, at the first timeout after it and without the peer's help (`StopReaches`). |
| `stopping` | 249,024 | A stop against an accept whose queue of one loses two connections and is filled by a client: it returns (`StopReturns`). Every connect, over every list of two addresses: all within its timeout (`WithinTimeout`), in turn, and failing with a kind it met (`TriedInTurn`). |

### What does not

Each of these runs checks one statement of the repository's own documentation,
and TLC finds the code doing otherwise. `PROJECT.json` quotes the lines.

| Run | The code | The document |
| --- | --- | --- |
| `http1_interim` | a 1xx is taken for the answer and the connection kept: the next exchange reads the first one's answer | "whether the connection can carry another" |
| `fifo_release` | the release of a timed connect meets another client and closes; its own opener, begun later, waits for good | "Blocks only until the opener's own open meets it" |

Four more were found by runs whose configurations are kept beside the modules,
to be run by hand:

* `MCHttp2Server_malformed.cfg` with `MCHttp2ServerResets` (`LetGo`): a header
  list that `check` refuses is answered with RST_STREAM before `last_peer` and
  `highest` are raised (`receive.rs:174`), so the DATA already behind it is DATA
  on an idle stream and ends the connection; `receive.rs:126` says "what was in
  flight when it was is let go".
* `Http2Exchange_close.cfg` (`CloseSettles`): `close` names the last stream
  opened, not the last one taken off (`server.rs:172`): a client whose request had
  arrived waits for its answer and `close` waits for the client;
  `server.rs:166-170` says "a `GOAWAY` naming the last stream taken".
* `Http2Exchange_trailers.cfg` (`NothingBreached`): the client resets an answer over
  MAX_BODY, which is a breach of its stream, and forgets the stream; the trailers
  behind it are then a header block on no stream and end the connection
  (`receive.rs:184`); `receive.rs:3` says "a breach of one stream with `RST_STREAM`",
  `receive.rs:126` as above.
* `FifoPipe_handed.cfg` (`HandedWithPeer`): the release of a timed accept is a writer's
  open (`unix.rs:132`), and lets another thread's accept return a connection no client
  is at, as the release of a connect does another connect; `unix.rs:13` says "nothing
  is handed out without its peer".

Smaller disagreements met on the way, which the models reproduce and no run is
kept for:

* "A client always finds one listening" (`pipe/windows.rs:15`): none listens from
  a client's arrival until the accept that takes it has made the next instance,
  and while no accept runs; a connect then waits, within its patience.
* `accept` makes the next instance and then its event (`pipe/windows.rs:152`):
  where the event fails the instance is closed again under a client that may have
  reached it.
* `lent`, and `caller` with it, reads whenever nothing is read ahead, not only the
  first time (`pipe/windows.rs:224`): asked again after the request was read, it
  waits for octets the client may never send.
* "Every address is tried in turn, inside one deadline" (`connect.rs:1`): an
  address that never answers is given all that is left of the deadline, and those
  after it are not tried.
* `Watched` looks whether its side ends only after a timeout (`watched.rs:47`): a
  peer that never stops talking keeps a stop from being heard. What the peer
  sends is bounded in the model, and `StopReaches` speaks of the first timeout.
* `fixture.rs:38` hands out the first port of its block again after as many calls
  as the block has ports.

* `ping` sends the next stream's number and never clears `pongs`
  (`connection.rs:312`): a second ping before another `send` returns on the
  first one's acknowledgement.
* `respond` with an answer without a body returns `Ok` on a stream the client
  has reset (`server.rs:136`), though its documentation lists that as an error.
* `last_peer` rises before `going_away` is looked at (`receive.rs:187`): a
  second GOAWAY names a stream that was passed over.
* Two changes of an HPACK table's size before a block are announced as one
  (`encoder.rs:42`): the decoder keeps entries the encoder evicted. Harmless:
  `ReadAsSent` and `EncoderIsPrefix` hold.
* A head or a trailer that the connection's end cuts short counts as complete,
  and `exchange_kept` may report the connection as kept (`http.rs:151`).
* Dropping the FIFO's listener removes the file under a waiting connect, whose
  release then finds nothing to open (`unix.rs:70`; `fifo_release` with
  `MayDrop = TRUE`).
* A deadline that passes as the opener meets its peer leaves that peer a connection
  that ends at once (`unix.rs:129`), though the call itself reports that nobody came.
* `serve` ends the whole connection, and every other request on it, where one
  `respond` meets a stream that the client reset (`server.rs:197`); `exchange_serve`
  reaches it.

### Bounds

Every bound is a constant of a `.cfg`. Windows are 1 or 2 octets and bodies up
to 3, in `exchange_serve` to 6, so that a body passes its window and waits; header blocks are one or two
frames, so that CONTINUATION and `together` both happen; MaxStreamId 3 to 9
gives two to five streams to the client, so that one can be gone, one answered,
one opened and one refused at once; MaxConcurrent 1 makes the second stream
reach the limit. MAX_BODY and MAX_BLOCK are small enough to be passed, and in `exchange_serve`
MAX_BODY is itself more than a window, so that a body may wait and still be within it. Drain, DRAIN's 1024 frames in
the code, is 1 where what follows the drain is of interest, and 20 where the client
and the server are joined: more than the client has left to send, so that it is not
what ends the drain there, as 1024 is not. Hpack's sizes 0..3 against fields of cost 1 and 2 and
larger cover a field that fits exactly, by one too much and not at all. Two HTTP/1.1
exchanges are what it takes for one to disturb the next, and two FIFO clients, or two
threads that accept, for a release to meet the wrong one; the untimed one of each pair
waits for good where nobody comes. HTTP/1.1's peer that writes anything is asked
once: an exchange begins with a reader of its own, so a second adds nothing.
Two Windows clients and three handles let one reach
the instance another was promised and a closed handle be reused; two octets of each
client make a small read leave one behind; one failure and one tick of patience reach each
failing path. In `Framing` ten octets are the preface and two frames or more, and
a silence of one timeout is enough for a beat to come late. `Stopping` has two
addresses, so that there is one after the first, a queue of one, so that a client
fills it, and two lost connections, so that a knock is lost twice. No symmetry is used: streams are ordered
numbers, and with two clients it would save little.

### Deadlock

`CHECK_DEADLOCK FALSE` where the system may stop: a connection that is over, an
application whose requests are used up, a stream number space that is used up,
an untimed open nobody faces. It is checked for HPACK, the Windows pipe, the
framing and the stop, whose ends are steps of their own (`Over`).

### Fairness

* `Http2Exchange`: weak fairness of the client's steps and of the server's work.
  Each side is a thread that runs its loop until its connection is over
  (`serve`, `send`). Going away and closing early are the application's choice
  and have none.
* `Http1Exchange`: weak fairness of the client's reads (it is a loop over a
  blocking read) and of the peer's answer, which `ExchangeReturns` is conditional
  on; timeouts, cuts and interim answers have none.
* `FifoPipe`: weak fairness of each caller's timeout and return, and of each
  open that can succeed; calls and the drop have none.
* `WindowsPipe`: weak fairness of each accepter, which accepts in a loop, and of
  each connect, whose calls the kernel ends; reads, writes, cancels, closes and
  the drop of the listener have none.
* `Framing`: weak fairness of the reading thread, whose socket has a timeout;
  nothing is asked of the peer.
* `Stopping`: weak fairness of the accepting thread, of the stop's loop and of
  every attempt to connect. Strong fairness of an attempt being answered: a knock
  is repeated for as long as the thread has not ended, and the kernel does not
  time out every one of them while the listener's queue has room again and again.
* The server, the client and HPACK alone are checked for safety only.

### Mutants

`PROJECT.json` lists at least one plausible bug for each property of each passing run
(a dropped guard, a reset forgotten, an order swapped), defined beside what it
replaces with a name of the form `Handler_WhatIsWrong`; TLC finds the property
violated under the same configuration. They are not part of any specification.

## 4. Proofs

TLC's runs are small instances; the theorems hold for every value of the
constants that satisfies the modules' named assumptions: any windows, frame and
body sizes, any number of clients, addresses, handles and requests, any peer.

### Assumptions

The assumptions give the constants their types and say no more of them than the
code has it: a least frame size that is positive and at most the greatest
(`ConnectionAssumption`); `None` is no handle and no client (`NoneAssumption`); a
handle for each client and one for `bind`'s instance (`HandlesAssumption`, the
kernel's); reads that ask for something (`SizesAssumption`); digits in a base of
two or more, MAX_BODY less than a header can say (less than Base to the power of
HeaderLen, `Capacity`), and a peer that may write a whole preface (`Framing`);
fields of a name, a value and a positive cost, and table sizes within the limit
that was announced (`HpackAssumption`); threads that accept and threads that connect, no
thread of which is both at once (`FifoAssumption`); answers with a status, a body's length, a trailer or none and
one of the three values of `Connection` (`Http1Assumption`). TLC evaluates them
in the runs.

### What is proved, and by which invariant

| Module | Theorems |
| --- | --- |
| `Http2ServerProofs` | `TypeCorrect` (`TypeOK`), `KeptUntilAnswered` (`RecordsKept`), `OnlyClientStreams` (`RecordsOpened`), `PromiseHolds` (`NothingAboveGoaway`), `ConcurrencyLimit` (`ConcurrencyKept`), `WindowGivenBack` (`CreditReturned`), `WindowsBounded` (`WindowsInRange`), `NothingHeldWaiting` (`ReleasedBeforeWaiting`), `HandedOutOnce` (`HandedOnce`) |
| `Http2ClientProofs` | `ClientTypeCorrect`, `ServerOpensNothing` (`OwnStreamsOnly`), `OnlyResetsLeftOver` (`LeftoversReset`) |
| `Http1ExchangeProofs` | `NeverMoreHeld` (`HeldWithin`), `OwnAnswer` (`AnswerIsOwn`), `TwoCannotDrift` (`AnswerAsWritten`) |
| `FramingProofs` | `FramingTypeCorrect` (`TypeOK`), `OpensAsSent` (`OpenedAsSent`), `SilenceGiven` (`SilenceKept`), `NothingReadIsLost` (`NothingLost`), `CleanMeansWhole` (`CleanEndIsWhole`), `ReadAsWritten` (`FramesAsWritten`) |
| `HpackProofs` | `ListsReadAsSent` (`ReadAsSent`), `TablesWithin` (`TablesBounded`), `DecoderHasEntries` (`EncoderIsPrefix`) |
| `PipeProofs` | `PipeTypeCorrect` (`TypeOK`), `OneClientOneConnection` (`OneConnection`), `CancelOwnOnly` (`CancelReachesOwn`), `ReadInOrder` (`ReadAsWritten`), `PatienceKept` (`WithinPatience`), `NoClientLost` (`HandedOutOrFailed`); of the FIFO, `HandedNotByItself` (`HandedByAnother`), `LoneAccepterHasClient` |
| `StoppingProofs` | `OneDeadline` (`WithinTimeout`), `FailureIsMet` (`TriedInTurn`) |

Each proof has the same shape: an inductive invariant `IInv` of named parts,
checked with TLC on the module's run first; one lemma for each action that `Next`
offers; and the theorems, which are consequences of `IInv`. Few of the properties
are inductive as they stand, and what each needs besides says why the code is
right.

**The server.** `RecordsKept` needs that one call at a time owns the connection
(`OneCall`), or a `finished` could forget a record while an answer is being
written. `NothingAboveGoaway` needs that nothing above the promised stream has a
record either, since a record may be handed out later (`PromiseKept`).
`HandedOnce` needs that a stream handed out is not above `last_peer`
(`HandedOpened`), so that its number cannot be opened again, and that one still on
record is being answered (`HandedKept`), so that `finished` does not find it ready
again. The four limits are inductive together (`Limits`), given the types and that
the open streams are finitely many.

The argument goes by what a step does to the records rather than by what it
writes. `Http2ConnectionProofs`, which the client's proofs share, has for each
handler a lemma that types its result and one that says it is *quiet* (no record
made or lost, and states only ever further on) or names its one *effect* (a stream
opened at a number above `last_peer`; a stream reset). Each action of the server
is then treated by that effect alone, one step for each conjunct it can disturb.
For the limits, a step of the application *spares* them: it opens no stream, only
takes from a sending window and holds nothing back where it waits. A frame's
handler opens a stream only below the limit, returns what it took of the receiving
window, and grants or shifts a sending window only within its range.

**The client.** `LeftoversReset` needs that the running call and the message being
written belong to each other (`CallKept`), and that a body is written on a stream
which may be sent on or was reset (`BodyWritten`): what refuses the rest of a body
is then a reset and nothing else.

**HTTP/1.1.** `HeldWithin` needs that what is left of a length or a chunk fits in
with what is held (`HeldInv`), so that octets need no test of their own.
`AnswerIsOwn` and `AnswerAsWritten` are about where the reader is in the octets.
`AnswerInv` says, of a kept connection, that between two exchanges it holds
nothing, and that during one it holds the request, unanswered, or the rest of its
answer, token by token: how many tokens were taken follows from the reader's phase
(`Taken`), the tokens in the `BufReader` and on the wire are those that
`write_message` writes next (`RestInv`, `KindAt`), and the phase agrees with what
the answer is (`PhaseInv`). A cut leaves a prefix of that rest, and a prefix never
passes for a framed answer. Both theorems have the hypothesis that no peer sends
interim answers: without it they are false, which is what `http1_interim` shows.

**Framing.** `OpenedAsSent` is stated with prefixes and proved octet by octet: what
`sniff` holds is what came and opens the preface, what it puts back is the whole
preface, and past it the wire is known to open with it, or never to
(`OpeningInv`). `SilenceKept` compares `Watched`'s count with the peer's silence,
which differ where octets came and were not read yet (`SilenceInv`); it speaks of
peers that must beat.

`NothingLost`, `CleanEndIsWhole` and `FramesAsWritten` are about what the octets
mean, and have an invariant of their own on top of that one (`DataInv`): what
came, up to what was taken, is the preface, the frames read with their headers and
what is held (`KeptInv`); of a peer that writes frames, what it wrote is on the
wire or still to go out, in the same form (`WroteInv`); and the frames read are
the first of those written (`InOrderInv`). The last needs that two sequences of frames flattened into octets
that begin alike have the same first frame (`FramesSplit`, `NextFrame`), and that
a header gives back the length it was made from, to_be_bytes and from_be_bytes
being inverse up to MAX_BODY (`LengthAsWritten`, `HeaderAsRead`).

**Inductions over data.** The library's induction theorems take an operator and
cannot be instantiated here, so `FramingProofs` and `HpackProofs` prove induction
for a *set* of numbers from the least number that is not in it (`Induction`,
from the library's well-founded minimum) and apply it to sets written out where
they are needed. A recursive function of the model is then shown to exist, to be
what its definition says and to be determined by it (`Recursive`, `Follows`,
`...Unfolds`), and the model's operators are used through these facts alone.

**HPACK.** `ReadAsSent` is not inductive, nor is `EncoderIsPrefix`, which says
nothing while a block is on its way. The invariant is about the tables the decoder
will have after each block that is in flight (`Chain`): each block, decoded from
the table the one before it leaves, is read as it was sent; and the last of those
tables begins with the encoder's entries and has its size, unless a change of size
is still to be announced (`Agrees`). An announcement, or a field, keeps the two in
step (`AnnouncedInStep`, `FieldInStep`), because `evict` never cuts a prefix that
fits (`EvictKeeps`): what the encoder keeps, the decoder keeps too, though it may
keep more where the encoder's table was smaller for a time. That is also why two
changes announced as one do no harm.

**The Windows pipe.** `CancelReachesOwn` needs that a handle in a stream's cell is
the stream's (`StreamInv`) and that the drop waits for a cancel that has read it
(`CancelInv`). `OneConnection` needs that the kernel has one instance for a client
(`KernelInv`) and that the listener's two are open and distinct (`ListenerInv`);
`ReadAsWritten` needs the octets of clients no accept has taken yet (`OctetsInv`).
`NoClientLost` is an action property, from the same invariant: an accept that fails
gives up at most the instance it just made (`GivenUpNext`).

**The FIFO.** `PipeProofs` extends both pipes, whose names do not meet.
`HandedByAnother` needs that a release exists only while its own call is
releasing (`ReleasesOwn`), and such a call will not return its connection: what a
call that may still return has met is a peer's own open, or the release of another
call of its side (`OpenMetAnother`). Where one thread alone accepts there is no such
other call, and its accepts are handed clients only (`LoneAccepterHasClient`); with
two that is false, which is what `FifoPipe_handed.cfg` shows.

**connect.** `WithinTimeout` needs that an attempt has exactly what the deadline
leaves it (`DeadlineKept`); `TriedInTurn` that the failure kept so far was met at an
address before this one (`FailureKept`).

### What is only model-checked, and why

* Liveness (`BothEnd`, `ExchangeReturns`, `BegunReturns`, `ConnectReturns`, `StopReaches`,
  `StopReturns`): it rests on fairness and ENABLED, which the prover does not
  handle.
* `Http2Exchange`: `NoBreach` and `ConnectionConserved` relate both ends and all
  that is in flight, and the refinement of `RequestService` needs them. `NoBreach`
  takes, for each frame in flight, what the other side's handler will make of it
  after all the frames before it, as `Chain` does for HPACK's blocks, but over the
  whole state of a connection.

## 5. Not modelled

* HPACK's integers, strings and Huffman code, and the payloads of frames: pure
  codings over octets, which their tests hold against the RFC's examples.
* Of the Windows pipe: who may open it (`openers`, the descriptor), the account a
  token names, `caller`'s cache of names and impersonation: calls of the system
  without a protocol of their own.
* `boxed.rs`, `grpc.rs`, `login.rs`, `pipe.rs`: forwarding or straight-line code,
  without a state to go wrong.
* Addresses, targets, URIs, dates, versions: pure functions over strings.
* `fixture.rs`: support for tests.

## 6. Plan

Done: windows, streams and the connection; the server; the client; the two
joined, and the service they implement; HPACK; HTTP/1.1; the FIFO and the Windows
pipe; framing under a watched connection; the stop of an accept and `connect`; the
proofs of section 4.

Next, in this order:

1. Proofs: `ConnectionConserved`, from what each handler of `Http2ConnectionProofs`
   adds to a window and to what is in flight, and then `NoBreach`; the initial
   condition and the client's steps of `Http2Exchange`'s refinement of
   `RequestService`, from the client's and the server's invariants.
2. `Http1Exchange` with a peer of its own shown to implement `RequestService` too,
   a failure being an outcome of its own.
3. HTTP/1.0 answers and answers to HEAD on kept connections.
4. HPACK's integers and the Huffman code over bounded inputs, against a reference
   definition.
