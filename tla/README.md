# A formal model of rust-acestream-proxy

The proxy sits between an Ace Stream engine and media players. Per content id
it opens one pull from the engine, and per output format it runs one ffmpeg
that remuxes the pull and serves any number of players. It is a threaded
program (no async runtime) whose correctness lives in `src/src/registry.rs`:
reference counts decide what stays alive, bounded channels and timeouts decide
who waits for whom. These modules describe that part as state machines; TLC
checks small instances, and TLAPS proves some of the results for all of them.

Paths like `registry.rs:482` are under `src/src/`.

## 1. The system

    engine --HTTP--> puller thread --chunk--> Replay (window)
                        |                        | snapshot (primes a new encoder)
                        v                        v
                  EngineStream.encoders: format -> Feed{tx, progress, Weak<Encoder>}
                        | bounded channel, TS_QUEUE
                        v
                  feeder thread -> ffmpeg -> drainer thread -> mp4::Scanner
                                                    | fan_out: one channel per listener
                                                    v
                  request threads (Subscription) --HTTP--> players

Who holds whom: a listener's `Subscription` holds `Arc<Encoder>`, the encoder
holds `Arc<EngineStream>`, the linger thread may hold either. The registry, the
puller, the drainer and the encoder map hold `Weak`s only. So "nobody wants it
any more" is a reference count, and two `Drop` implementations
(`registry.rs:371`, `registry.rs:902`) tear everything down.

| Component | State | Operations | Hard about it | What makes it correct |
|---|---|---|---|---|
| Engine feed (`relay`, `send_backpressured`, `drop_wedged`, `end`, `start_encoder`, `Encoder::drop`, `feed_ffmpeg`) | replay window, map of feeds, one bounded queue and one `Progress` per encoder | push and send a chunk, register, unregister, kill, end | the puller, creators, droppers and feeders interleave between short critical sections; the puller blocks on a full queue | an encoder's input has no gap; a slow, hung or dead ffmpeg costs the others nothing; a running encoder is always fed; the end reaches everybody |
| Engine stream lifecycle (`Registry::engine_stream`, `pull`, `identify`, `publish`, `linger_engine`) | registry entry, start outcome, `ended`, the holders of the `Arc` | share or create, wait, publish, linger, tear down | errors in every step of the handshake; teardown races a request; the puller has no `Arc` of its own | one shared pull; a waiter is always answered; every engine session is told to stop; an unused pull closes, its thread and its connection |
| Encoder output (`subscribe`, `await_init_segment`, `fan_out`, `finish`, `drain_ffmpeg`, `linger_encoder`) | output state, listeners, what awaits a fragment | join, fan out, evict, leave, finish | a joiner looks at the output and registers under different locks; eviction and departure overlap | a listener is sent the init segment, then media from a keyframe, gapless; the end reaches it; an encoder nobody wants stops |
| Linger thread (`linger.rs`) | channel, vector of held values | hold, wait, drop | periods of different lengths arrive in any order; a drop may park another value | every value drops when it is due |
| Listener queue (`fan_out`, `Subscription::took`) | `queued` bytes, time of the newest taken chunk | send, take, evict for lag or bytes | two threads update the counters | a reader that keeps up is not evicted, one that does not is, before memory grows |
| Locking rule (`registry.rs:42`) | the mutexes `creating`, `encoders` and `replay` | every critical section in which another lock is taken or an `Arc` could drop | the drop of a last `Arc` takes `encoders` wherever it happens | nobody waits for a cycle, nobody blocks on ffmpeg or a player with a lock held |
| Replay window (`replay.rs`) | chunks with offsets, keyframe offsets with PTS, TS scanner | push, trim, snapshot by policy | ages, bytes, 33-bit PTS, reordered frames | bounded; a snapshot is contiguous and begins at a keyframe or a packet boundary |
| fMP4 scanner (`mp4.rs`) | carry of a box header, pending moof, init segment | push a chunk | a box may straddle chunks anywhere | lossless; fragments are marked at moofs; failure is permanent |
| TS scanner (`ts.rs`) | packet carry, PAT/PMT sections, PIDs, PTS | feed a chunk | resynchronisation, straddling | chunking never changes what is found |
| Engine HTTP client (`engine.rs`) | chunked body decoder | handshake, get with redirects, stop | partial reads | the body is decoded exactly |
| HTTP server, routing, streaming (`http.rs`, `main.rs`) | the connection, the budget of the head | read a head, route, stream | a head may stop anywhere, or meet a limit exactly; batching of writes | what is well-formed and within the limits gets through, nothing else does; every connection is answered |
| ffprobe fallback (`probe.rs`) | a child process, three pipes, a writer thread | feed the preroll, gather the outputs, reap | each pipe may be full while the other side waits for another | it returns for every ffprobe that does not hang |
| Formats, status, logging (`format.rs`, `status.rs`, `log.rs`) | none | tables, rendering | | |

## 2. Modules

### EngineFeed

A chunk is its number. `stream[e]` is the history of what encoder `e` was
given: first the `primed[e]` chunks of the snapshot, then what passed its queue.

| TLA+ | Code |
|---|---|
| `pc`, `cur`, `seen`, `targets`, `wedged`, `removed` | where the puller is in `relay`, `send_backpressured` and `drop_wedged`, with the locals of those functions |
| `pushed` | the window; its newest chunk has this number |
| `map` | `EngineStream::encoders`; `pc = "ended"` is the flag `ended` |
| `creating`, `state`, `fmt` | the `creating` mutex, the life of an `Arc<Encoder>`, its format |
| `feeder`, `taken`, `wrote` | the feeder thread, what it received and what `Progress` says |
| `ffmpeg`, `finished` | the child process (external) and `Output::Finished` |

`Push` and `Collect` are separate because `relay` takes `replay`, lets it go
and then takes `encoders`. `Register` is one action because `start_encoder`
holds both. `Unregister` and `KillStalled` are separate because `drop_wedged`
kills after it has released the lock. `Release` and `Deregister` are separate
because `Encoder::drop` kills and reaps ffmpeg before it takes the lock.
A queue is not a variable: it is the part of `stream[e]` the feeder has not
taken (`Queued`). `TS_STALL` is an untimed action: the wait may end without
progress at any moment, which covers every real timing. ffmpeg may stop reading
(`Hang`), die (`Crash`), or exit at the end of its input.

`Starts` lets a snapshot begin at any chunk of the window: which one depends on
the policy, on keyframes and on age (`replay.rs`), and no property here tells
them apart. `Take` makes the primed chunks and the queued ones one sequence, as
`feed_ffmpeg` does with `prime.into_iter().chain(rx)`.

### EngineStream

The pulls of one content id. `Alive(s)` is not a variable: it holds while some
request, encoder, linger, look at `/status` or the puller itself holds the
`Arc`, and it becoming false is `EngineStream::drop`. The puller's steps
(`pull[s]`) are the handshake, the connection, the registration of the socket,
`identify`, the announcement, the read loop, `send_stop`, the settlement and
`end`; every early return is an action. Encoders are reduced to one per stream,
since a stream cares only whether there is one. Every duration is left out: a
timeout may pass, and a linger lapse, whenever the code waits for it.
The teardown of a socket that is still in the handshake, which `EngineStream::drop`
cannot shut, is `Bind`, `Identified` and `Announce` finding no stream.
The connection to the engine is kept at two ends: by `relay`, from the response of
its GET until it returns (`Responding`), and by the clone of its socket that
`EngineStream::socket` holds (`bound`) until `EngineStream::drop` shuts it for both
(`Connected`). `Cloneable` says for which streams that clone can be made at all.
`session[s]` is what the proxy has of a session: `controlled` has a stop command,
which `send_stop` sends to an engine that confirms it (`stopped`) or not
(`unanswered`: refused, failed or timed out, and only logged); a `direct` one lives
with its connection.

### Encoder

One encoder. A piece is its number and `kinds` says what it is: `key` and
`frag` are moofs that do and do not open on a keyframe, `rest` is anything else.
0 is the init segment. The scanner is its result (`NextKinds`, `Marks`,
`Break`). `Admit` and `Register` are separate because `subscribe` lets the
output's lock go in between; `Finish` and `Clear` are separate for the same
reason. The lag and byte limits are `ListenerQueue`'s: here `FanOut` may evict
any listener with something unread. `Alive` is, as for a stream, that somebody holds
the `Arc`; `Wanted` leaves out the linger thread and the drainer, which hold it for a
time only.

### Broadcast

The abstract specification of an encoder: one log of pieces, members that join,
are published to and are let go, and nothing about locks, scanners, Arcs or
threads. `Whole` is the promise: what a client is sent begins with a piece that
is safe to begin with and then has no gap. `Encoder` implements it with
`B == INSTANCE Broadcast WITH ...`: the log is `kinds` as far as it has been fanned
out, the members are `listeners`, and what was sent leaves the init segment out; the property `Broadcasts` is
`B!Spec`, checked by `encoder_fmp4` and proved in `EncoderProofs`.

### ListenerQueue

One listener's queue, at the grain of its shared accesses: `fan_out` loads
`queued`, may store `oldest_unread`, decides, adds and sends (`FanOut`,
`Evict` or `Account`, `Send`); the request thread takes a chunk and then
subtracts and stores `consumed_at` (`TakeChunk`, `TookQueued`, `TookConsumed`),
gathers a batch and writes any part of it (`WriteSome`). The clock may advance
between these but not inside the few instructions from a load to its use. The
player is the environment: it may stop reading for ever. `QueueAssumption` says
that a piece is not empty and no longer than the instance's body.

### Locks

The three mutexes under which another one is taken, or the last
`Arc<Encoder>` could be dropped, and who takes them: two requests for one
format, the puller, the drainers, the linger thread, `/status`. A thread is the
sequence of steps it has still to do; which section finds what is left open,
the other modules say when. `DropArc` puts the steps of `Encoder::drop` in front
of whatever the thread does next, under whatever it owns: that is the deadlock
the comment at `registry.rs:42` warns of. A drainer is named by the request that
created its encoder, the other threads by what they are; `NamesAssumption` keeps
the names of threads, mutexes and `Nobody`, the owner of a free mutex, apart. The leaf mutexes (`streams`, `start`,
`output`, `listeners`, `child`, `stats`, `Progress::state`) are held for a few
instructions in which no other is taken and no encoder can drop, except that
`Encoder::drop` kills and reaps ffmpeg under `child`; they are left out.

### Mp4Scanner

`mp4::Scanner`, alone. A byte is its position in the stream, so a piece is the
positions it holds and a lost or doubled byte shows. What a header says is
looked up where the header begins; what `Tracks` reads in a `moov` or `moof` is
given with the box: track ids and the flags that `first_sample` chooses from, not
the layout of their fields. An action is one turn of the loop in `push`; `Push`
is the call, with any number of bytes. Headers are 3 and 5 bytes instead of 8
and 16, which leaves both a size below the header length. `InputAssumption` says
what a stream of boxes is: they follow one another from the first byte to the
last, one that makes no sense has none behind it, and at most one is a `moov`.

### TsScanner and Replay

`ts::Scanner` as a record and `Feed` as a function of it, since every call is
made under the window's lock. A byte is its position in the stream, what a packet
says is looked up where it begins, and a section is a cell for its table id, one
for its length, one per entry and one for the CRC. `Walk` is the loop of `scan`,
`Across` the join of the carry with the next chunk. `Replay` holds the scanner
and the chunks: `Push` is `push` with its `trim`; `FromKeyframe`, `TailPrimed` and
`NewestKeyframeLag` are the calls that change nothing, evaluated by the
properties in every state. A packet of the stream has a payload, as part of a
section, what its PES says, and the time behind the PTS in that, which only
`LagTrue` looks at; the PTS clock has the period `Period` in place of 2^33.

### EngineClient

One GET of `engine.rs` from the request to what the caller makes of it. An
answer is what the engine would send; `cut` is how much of it comes. `Read` is one
call of `Body::read` with a buffer of any of the `Buffers`' lengths, for each of
the three framings; `Session` is what `open_session` makes of the text. A body
is a sequence of symbols, and data may look like framing. The head of a response
is its result (status, location, framing). `ClientAssumption` says that an answer
which makes a statement has data and that buffers are not empty.
`FramingAssumption` says what a framing is: `lines` are the size lines of a chunked
body, each where the chunk before it ends (`IsSizeLine`, `Framed`), and `data` the
places of the body's own bytes (`IsData`); the code never looks at either, but finds
them out. Of the engine it asks that a size has no leading zeros (section 6).

### RequestHead

One connection of a player from its accept to its answer. A line is its length,
its line end and what it reads as; `ReadLine` is `read_line` with what
`read_head` makes of the line, `Exceeds` and `Stops` are the two ways in which a
line does not come. `budget` runs down over the lines as `left` does, and
`SizeOf` is how much the first lines are. `HeadAssumption` says of the requests
that a line has at least its line end and that only the first may read as a
request line (`says = "sound"`), since that is where the code looks for one. `Route` is
`handle` with the checks of `serve_stream`; `Subscribed` is the outcome of
`Registry::subscribe`, which the other modules are about. How a response is
written is left out but for its status.

### Probe

One run of ffprobe over the preroll: the puller in `run`, the thread that writes
stdin and the child, with pipes of a bounded capacity between them. What is
printed is a number of bytes, and what `parse` makes of it is an outcome.

### Linger

`hold` and `run` with a discrete clock. Time passes only while the thread
waits, so a value's lateness is the scheduling error of `run`, not the time its
own code takes. `LetGo` is the drop of a value: it may park its `Follower`, as an
encoder's last drop parks its engine stream, unless others still hold that. A
period of zero drops at once on the caller's thread (`Hold`), and that drop may
park its follower too.

### Harnesses

`MCInbound` checks `EngineClient`, `Replay`, `RequestHead` and `Probe`, `MCLinger`
checks `Linger`, `ListenerQueue` and `Locks`. The modules of a harness share no
state: a behaviour is of one of them, chosen at the start (`side`), and
the others rest. `Settles` is about whichever one a behaviour is of.
`MCMp4Scanner`, `MCReplay`, `MCEngineClient` and `MCRequestHead` define the inputs.

## 3. Runs

| Run | Expect | Instance | Shows |
|---|---|---|---|
| `feed_safety` | pass | 2 encoders, 2 formats, queue of 1, window of 1, 3 chunks | `TypeOK NoGap CaughtUp MapTrue EndIsFinal` |
| `feed_live` | pass | 1 encoder, 4 chunks, `FeedSpec` | `PullerReturns EofReaches` |
| `stream` | pass | 2 pulls, one without a clone of its socket, 2 requests, 1 look at `/status`, `FairSpec` | `TypeOK OneLivePull LeavesClean LingerOwed Teardown PullSettles` |
| `encoder_fmp4` | pass | 2 clients, 3 pieces, `FairSpec` | `TypeOK Playable EndReaches Retires Broadcasts` |
| `mp4` | pass | 860 streams of up to 5 boxes, every chunking | `TypeOK PassThrough CutFree Joinable` |
| `inbound` | pass | client: bodies of up to 4 bytes, cut anywhere; window: 5 streams of 6 to 9 packets, chunks of 1, 4 and 7 bytes, 3 ticks; head: requests of up to 5 lines that stop anywhere; probe: 3 bytes to feed, up to 2 printed to each output, pipes of 1 | `Types InStep Bounded Primed LagTrue Decoded Truthful Judged Settled Settles` |
| `lingers` | pass | linger: 3 values, periods 0, 1 and 3, 8 ticks; queue: 4 bytes, limits of 3, batches of 2, 4 ticks; locks: 2 requests | `Types Punctual Counted InOrder KeepsUp Backlog EvictedReturns Unblocked` |
| `feed_duplicate` | violation | 1 encoder | `NoDuplicate` |
| `feed_hung` | violation | 1 encoder, `FairSpec` | `EndFinishes` |
| `stream_latejoin` | violation | 1 pull, 2 requests | `NoLateJoin` |
| `encoder_evicted` | violation | 2 clients | `EvictedLingers` |
| `encoder_afterend` | violation | 2 clients, audio | `FinishEndsAll` |

What the properties say, beyond their comments in the modules:

- `NoGap`, `CaughtUp`, `MapTrue`, `EndIsFinal`: an ffmpeg's input is contiguous,
  everybody registered has the newest chunk when the puller returns to its read,
  the map and the running encoders agree, nothing is fed after the end.
- `OneLivePull`, `LeavesClean`, `LingerOwed`: one pull that requests may join; a
  puller exits only after the stop command, where there is one, and leaves no
  unanswered waiter; a stream in use is not let go without its linger.
- `Teardown`, `PullSettles`: a pull that nobody uses loses its thread and its
  connection to the engine, also if it ended while listeners held it and if the
  engine never answered the stop command; waiters get the pull's error at once.
- `Playable`, `Broadcasts`, `EndReaches`, `Retires`: a client gets the init
  segment, then media from a keyframe, gapless, and the end; an encoder that nobody
  wants is killed and its drainer ends, whoever was evicted, refused or left last.
- `PassThrough`, `CutFree`, `InStep`, `Decoded`: the incremental
  scanners and the body decoder give what one call with the whole input would give,
  wherever it is cut; `InStep` of `Replay` compares with `Feed` of everything at
  once and demands that the scanner get back in step after junk, `Decoded` with the
  positions of the data that the answer was built from.
- `Primed`, `LagTrue`: a new encoder's input starts at a packet, and the reported
  lag is the content between two frames although the PTS clock wraps.
- `Judged`: a request gets through exactly if all of its head, looked at at once,
  deserves to, and each refusal has the reason its status names.
- `Settles`: an exchange with the engine, one with a player and a run of ffprobe
  come to an end whatever the other end does, short of an ffprobe that hangs.
- `Counted`, `KeepsUp`, `Backlog`, `EvictedReturns`: `queued` never drifts or
  wraps; who keeps up is not disconnected and who does not is; an evicted listener's
  thread returns though its player reads no more.

The bounds, and why they are enough:

- Two encoders suffice for replacement (one is dropped while its successor is
  registered) and for two formats side by side. A queue of one is full after
  one chunk, so backpressure, stalls and disconnects all occur; three chunks
  are one primed, one that fills the queue and one that finds it full. The
  theorems of section 5 remove these bounds for the safety properties.
- `feed_live` has one encoder and a fourth chunk: its ffmpeg can be fed live,
  stall, or be given up on before `start_encoder` has stored its child, which is
  then closed by the end of its input alone. The puller serves its targets one
  after another, so one full queue is the wait `PullerReturns` is about.
- Two pulls let a fresh one start while the old one closes; of two requests
  one shares, creates or comes late. Either pull may come first, so the one whose
  socket cannot be cloned is the old one or the fresh one. `MaxPeeks` bounds how often `/status` or
  the poller looks: an endless sequence of looks that always overlap the
  puller's own holds would keep a stream alive for ever, which needs a scheduler
  nobody has. The safety properties of `stream` are proved for any number of
  requests, streams and looks.
- Three pieces are a fragment to attach at, one to be sent or evicted at and
  one after it. `Playable` and `Broadcasts` are proved for any number.
- The streams of `mp4` are every sequence of up to two of six boxes (moofs with a
  short, a long and no body, key and not, audio only; short and long mdats) after
  `ftyp moov`, an audio-only opening, a moof or junk, and then possibly one of
  four boxes that make no sense. Two boxes are what a run, a pending header and
  a held moof need to meet; the chunks are of any length, so every byte is a
  place to cut at.
- The streams of `inbound` have a torn first packet, tables in one packet and in
  two, misleading and repeated tables, keyframes before the tables and without
  PTS, reordered frames, a wrapping clock, a gap beyond `MAX_SANE_GAP`, and stray
  sync bytes. Packets of three bytes leave two carry lengths; chunks of 1, 4 and 7
  bytes are shorter than a packet, longer than one and longer than two. A window of
  8 bytes and one tick is trimmed for either reason.
- Its bodies have up to two chunks, extensions and trailers, data bytes that are
  line ends, and are cut after every symbol; buffers of one and three bytes are
  shorter and longer than a chunk. `TextLimit` is below the longest text.
- Its requests are every pair of eight header lines, sound and not, and three of
  one kind, after a good request line, and six request lines by themselves; each
  with the closing blank line and without. With a limit of
  15 bytes and 2 headers they meet either exactly, or exceed it by a byte or a
  line, and a line may end with the budget. Pipes of 1 are full while the preroll
  and both outputs have more to come.
- 8 ticks are more than twice the longest linger, so a drop that parks another
  value is seen through to the second drop. Limits of 3 with pieces of 1 and 2
  bytes are met exactly, exceeded and missed; the initial init segment may
  exceed them with what follows.
- A cycle of waits among three mutexes needs at most three threads; two requests,
  the puller, the linger thread, `/status` and two drainers are seven.

`CHECK_DEADLOCK FALSE` everywhere: encoders, requests and clients are used
once and a stream of boxes ends, so each instance comes to rest.

## 4. Fairness

- `EngineFeed!FeedSpec`: the puller's and the feeders' threads run, and an ffmpeg
  that neither hung nor died exits at the end of its input. All are threads that
  hold no lock while they block; a puller at a full queue looks again until it
  has moved or `TS_STALL` has passed. Nothing says that a creation goes on, that
  the engine sends, that ffmpeg reads, that a client leaves or that an encoder is
  dropped.
- `EngineFeed!FairSpec`, for the counterexample of `feed_hung`, is stronger: the
  whole puller, creations that have begun, `Encoder::drop` and the drainer go on
  too, and the encoder still never finishes.
- `EngineStream!FairSpec`: each wait of the puller on the engine has a timeout
  (`CONTROL_TIMEOUT`, `STALL_TIMEOUT`), `identify` is bounded by `PREROLL`, a
  shut socket breaks a read, and one that could not be cloned times out. Lingers
  lapse, and looks at `/status` end. `START_TIMEOUT` is not fair, so `PullSettles` says
  that waiters are answered without it.
- `Encoder!FairSpec`: the drainer finishes a chunk it began, clients take what
  they are sent, lingers lapse, and the output of an ffmpeg whose encoder has been
  dropped ends, since `Encoder::drop` kills it. `INIT_TIMEOUT` is not fair.
- `ListenerQueue!QueueSpec`: the drainer finishes a piece it began, the request
  thread goes on where it does not write, and a write to a socket that has been
  shut fails. Nothing says that a player reads or that the source sends.
- `EngineClient!ClientSpec`: every socket operation has a timeout, so some step is
  taken; which one, the engine chooses.
- `RequestHead!HeadSpec`: a read times out (`HEAD_TIMEOUT`) and `subscribe` waits for
  `START_TIMEOUT` and `INIT_TIMEOUT` only.
- `Probe!ProbeSpec`: the two threads run, and ffprobe goes on while it can. The
  code has no timeout for ffprobe, so that it does not hang is an assumption, here
  and where `EngineStream` takes `identify` to end.
- `Linger`, `Mp4Scanner`, `Replay` and `Locks` have safety properties only and no
  fairness. `MCSpec` of a harness restricts each condition to its side.

## 5. Proofs

`EngineFeedProofs` proves with TLAPS, for every set of formats and encoders and
every `Queue`, `Window` and `MaxChunks` above zero (the assumptions named in
`EngineFeed`: `None` is no encoder, there is a format, the three bounds are
positive):

- `TypeCorrect`: `TypeOK`, with no queue above its capacity;
- `Gapless`: `NoGap`;
- `AllCaughtUp`: `CaughtUp`;
- `Unorphaned`: `MapTrue`, that is `NoOrphan` and `NoDeadEntry`;
- `NothingAfterEnd`: `EndIsFinal`.

None of the safety properties is inductive. `IInv` adds:

- `Control`: which of the puller's locals are set at which step, so that
  nothing is due at its read;
- `Slots`: an encoder in the map, collected, or being served has been primed,
  and its format no longer changes;
- `Seam`: what is `Due` the newest chunk ends just before it, or ends with it
  because its snapshot did (the one case in which a chunk is given twice);
  everything else registered ends with it. This is the reason for `NoGap`: the
  chunk `Sent` appends follows, or repeats at the seam, the last one;
- `Makers`: `creating` has one owner, whose slot holds nothing anybody could
  use, and whoever is given up as gone really has no receiver and no ffmpeg;
- `Fed`: `NoOrphan` extended to an encoder that is still being spawned.

Each part has a lemma that every step preserves it, with a case per action that
can disturb it and a frame lemma (`PullerFrame`, `StreamFrame`, `FeederFrame`,
`MapFrame`) for the others. `Inductive` combines them.

`EngineStreamProofs` proves, for any `Requests`, any `Streams` and any bound on
the looks at `/status` (`NoneAssumption`, `BoundAssumption`):

- `TypeCorrect`: `TypeOK`;
- `Single`: `OneLivePull`;
- `Clean`: `LeavesClean`, that is `NoAbandonedWaiter` and `StopSent`;
- `Outlives`: `LingerOwed`, an action property, from `TypeOK` alone
  (`LingerStep`).

Its `IInv` is `TypeOK`, `OneLivePull` and `NoAbandonedWaiter` with two more
parts:

- `Births`: a pull is started once, by the one request that created its stream,
  so a pull cannot be reset to its handshake;
- `Stages`: the steps at which a puller can own a session it has not told to stop,
  and those at which it has settled the start. `StopSent` is its value at `exited`.

That the stop command was sent is all the code can vouch for: `Clean` does not say
that the session is over, which is the engine's to know, nor that the connection is
closed, which `Teardown` says and TLC checks.

`OneLivePull` rests on `AliveStep`: a stream nobody holds is never held again, so
replacing its entry cannot leave two that requests may join.

`EncoderProofs` proves, for any `Clients`, either `NeedsInit`, either `Linger` and
any `MaxPieces`:

- `TypeCorrect`: `TypeOK`;
- `Unbroken`: `Playable`;
- `Implements`: `Spec => B!Spec`, the property `Broadcasts`.

`Playable` is not inductive: that a client's pieces follow one another says
nothing of the next one. Its `IInv` adds that a listener which has begun has
everything up to the newest piece that has been fanned out, and that who is not
listed any more gets nothing. The step of the refinement has a case per action:
`Register` is `Join`, `Deliver` is `Publish`, what removes listeners is `LetGo`,
everything else stutters, and `NextPiece` too: the piece is in the log when it is
fanned out.

Its last section is about `Broadcast` alone: `Promise`, that `Whole` holds of
`Any!Spec`, a broadcast with any followers, kinds of piece and safe points; with
`Implements` an encoder keeps that promise.

`OutboundProofs` is about what leaves the proxy, a part per module.

`Linger`, for any values, periods and followers (`NoneAssumption`,
`FollowerAssumption`, `PeriodAssumption`, `BoundAssumption`):

- `TypeCorrect`: the module's `TypeOK`;
- `OnTime`: `Punctual`.

`LingerInv` adds that what the thread holds is pending, that what is in the channel
is pending, there once, and not held (`OnItsWay`), that every pending value is in one
of the two places (`Accounted`), and `Awake`: while the thread waits, its deadline is
no later than that of anything it holds. A drop that parks another value puts it
into the channel, so the same argument covers it.

`Locks`, for any number of requests (`NamesAssumption`):

- `LockTypeCorrect`: `LockTypeOK`;
- `DeadlockFree`: `Unblocked`.

The invariant (`Disciplined`) lists what a thread may have still to do, and lets that
tell which mutexes it owns: a request none (`Outdoors`), `creating` (`Creates`), or
`creating` and `encoders` (`Inserts`); every other thread takes a mutex and releases
it again, `encoders` before the window's where it needs both. So `creating` is taken
before `encoders` and that before the window's, an Arc is dropped while no mutex is
owned that the drop takes, and whoever waits for a mutex waits for an owner that
waits only for a later one: there is no cycle. The wait of `Encoder::drop` for the
ffmpeg it has killed is no step of `Locks` (section 7).

`ListenerQueue`, for any lengths, limits and clocks (`QueueAssumption`):

- `QueueTypeCorrect`, `BytesCounted` (`Counted`), `BodyInOrder` (`InOrder`);
- `BacklogBounded` (`Backlog`) and `NoFalseLag` (`KeepsUp`), action properties.

`Typed` and `Staged` say what `fan_out`, `took` and the batch have in hand at each
step; the body is what was written, the batch, the chunk in hand, the channel and
what `fan_out` still holds, in this order. `Aged`: what lies in the channel lies there
in order of arrival, and arrived after what `consumed_at` and `oldest_unread` note.
`Prompt` is the reason for `NoFalseLag`: of the two counters one at least is no
further behind the oldest chunk in the channel than the reader ever let one wait, and
`fan_out` compares with the later of them. `Lean` is the same for `BacklogBounded`: what
`fan_out` has read of the backlog is not less than it is, so what it then found
within the limits still is when it sends.

`ReplayProofs` and `InboundProofs` are about what comes in. `ReplayProofs` proves of
`Replay`, for any streams whose packets begin with a sync byte and do not overlap
(`InputAssumption`), any
chunks, clocks and bounds (`PacketAssumption`, `WindowAssumption`, `ClockAssumption`:
`None` is no clock):

- `WindowBounded`: `Bounded`;
- `ReplayTypeCorrect`: `TypeOK`;
- `ProgramSettled`: `Settled`, an action property;
- `EncoderPrimed`: `Primed`;
- `ScannerInStep`: `InStep`, that is `CutFree` and `Recovers`;
- `LagReported`: `LagTrue`, where a packet's timestamp is its time by a clock of any
  period (`TimeAssumption`).

`WindowInv`, enough for `Bounded`, says it of every suffix of the window: from each
of its chunks on it holds the stream up to `head`; so `trim` may drop any number,
and its choice is the least that leaves the rest within the bounds. Nothing is
assumed of the scanner.

The others need the scanner, and `TsScanner`'s `Feed` is a fold over as many
packets as a call brings. `ScanSteps` is the induction for it: what holds at the
first packet and is kept by each holds after the last one. `WalkFacts` gives the
places the fold visits, each within the data and no two less than a packet apart.
From them `ScanFacts` has what one call leaves (`Scanned`): the keyframes found lie
in rising order between where it began and where it stopped, each at a packet of the
stream (`Rising`), and the program, once told, is the same (`Follows`). `FeedFacts`
joins the two calls of a torn packet: the scanner again holds exactly the bytes since
the last packet it took (`Holding`).

`ReplayInv` is `WindowInv` with `Holding`, `Rising` of all that was ever found,
`Rows` and `KeptOf`. `Rows`: the chunks follow each other without a gap and in order
of time, none empty, which is why `bytes_from` returns a run of the stream from any
offset above the floor (`BytesFromIs`) and why the tail begins at a chunk
(`TailStartIs`). `KeptOf`: the keyframes held are those found from the floor on; it is
kept by popping from the front only because those found rise (`KeptFacts`). A keyframe
at or above the floor is then in the window from its first byte, and `sync_trim` of a
run of a clean stream begins it at its first packet (`SyncTrimIs`, `TrimmedWell`).

`CutFree` compares a fold over the chunks with a fold over all that they hold, two
runs of the scanner. The proof has neither meet the other: it says what the stream
itself tells. `Tells` goes through a stream place by place and hears each packet
where it begins, and `Yields` says that a scanner is what that makes of a new one up
to some place, but for what the scanner holds (`Twins`); there is one such result
(`YieldsOnce`). Of a clean stream a call takes every packet it has whole and nothing
else, by whichever loop and with whatever carry, so the scanner is what the stream
`Yields` up to `pos`, however many calls there were. Where `pos` is follows from the
stream too: no packet lies across it (`Free`), and it is as far as the bytes that
have come allow (`Reaches`); there is one such place (`AsFarOnce`). `CutFree` is
then that `StepInv` holds of the scanner and of one that is fed everything at once.

`Recovers` needs no clean stream. `NoneMissed` is `Recovers` up to any place, and
`EndsBy` says that of the packets taken none reaches past it. A walk goes from one
packet it takes to its end, then byte by byte until a sync byte convinces it; a
packet with another behind it always does, so it can be missed only by one taken
that overlaps it, which has a stray sync byte for a start. `StepInv` is `ReplayInv`
with these.

`LagTrue` compares two timestamps. That of the keyframe is its packet's own
(`Marks`). The other should be that of the last packet the scanner took from its
video, and what the stream `Yields` shows place by place that it is (`Clocked`): from
the first timestamp on, the scanner has its video for good, and that is neither a
table's nor the audio that is still unnamed (`Heeds`), so no packet of it is
taken for anything else. `GapIs` is then arithmetic: of two times the clock tells how
far they are apart, modulo its period; a gap that may be reported is told from any
other in `Tellable`, and from what is beyond that no clock that wraps could tell it.

`InboundProofs` has the other parts and, last, all of them together.

`RequestHead`, for any requests and limits (`HeadAssumption`): `HeadJudged`
(`Judged`), `HeadTypeCorrect`. `ReadSoFar` relates the budget to `SizeOf` of the
lines read and says that each of them was good where it stood; a request that deserves
to get through is then never refused, and one that gets through was read to its
blank line within both limits.

`EngineClient`, for any answers and buffers (`ClientAssumption`,
`FramingAssumption`): `SessionTruthful` (`Truthful`), `BodyDecoded` (`Decoded`) and
`ClientTypeCorrect`. `ClientInv`: there is a verdict only when the body has come to an
end, and only a body with a 200 ends otherwise than by an error.

`Decoded` knows nothing of `left`, so `DecodeInv` adds where reading is: while it
goes on, `taken` and `left` meet at the end of one of the answer's chunks
(`Located`, `InChunk`), and `got` is the data up to `taken`. One read then takes
symbols that are all data (`DataTakes`) or passes over some that are none
(`FramingSkips`), since no data lies between the end of a chunk and the next size
line's (`NoDataBetween`). What is made of a size line that is cut short is the core
of it (`SizeIsHeard`, `NothingIsHeard`): with all of its digits it gives the size,
with some of them a size that is not 0, for hex digits of which the first is not 0
give none (`HexPositive`), and the chunk it announces is then reported as short; and
where an answer has no size line any more, none is made out. `Hex` is a fold, whose
definition in the library is a recursive function over sets of indices; what it
gives digit by digit is proved from that (`Hexes`), like `FlattenSeq`.

`Probe`, for any preroll, pipes and outputs (`ProbeAssumption`): `ProbeTypeCorrect`
(`ProbeTypeOK`, which is inductive).

The harnesses: `InboundTyped` and `OutboundTyped` (`Types` of `MCInbound` and of
`MCLinger`) put the type invariants of the modules of a harness together, for the
specification that TLC runs and any values of the constants. A component that rests
needs only its types (`AtRest`), the one that moves its own inductive invariant
(`InboundInv`).

`Mp4ScannerProofs` proves, for any streams of boxes (`InputAssumption`), header
lengths and `MaxMoof` (`SizeAssumption`, `NoneAssumption`) and every way to cut a
stream:

- `TypeCorrect`: `TypeOK`;
- `Lossless`: `PassThrough`;
- `Uncut`: `CutFree`;
- `JoinsWhole`: `Joinable`.

`PassThrough` is not inductive, since it does not know that what is held may be
handed on, nor that `init` and the runs do not mix; `CutFree` speaks of the time
between calls. `ScanInv` adds `Tidy`, what is held when, and `Placed`, which says
where the scanner is in terms of the bytes consumed alone: between two boxes or in
a header (`Between`), where the boxes before it are whole and make sense and
`header` is what has come of the next one; or in a body (`InBody`), whose end is
`body_left` away, with the moof held from its first byte if it is one. `HeadIs`
is the lemma about the header that is read: it is complete exactly where the box's
header ends, for either length of it.

`JoinsWhole` needs a second invariant beside `ScanInv`. `JoinInv` relates the scanner to
`Reached`, the end of the last box whose header has been read. `Opening`: up to the
first moof reached, `init` is all that has been read and no tracks have been parsed;
from then on it is what precedes that moof, whatever is read, and the tracks are the
stream's own. `Running`: no run is in progress while a moof is held, so that the one
that is completed begins its own. And every piece in `out`, as the run that becomes
the next, is `Good`: it has no moof and no mark, or begins with the one it has,
whole, and is marked for what that is. `ParseIs` says why it is enough to parse `init`
once: the boxes in it are whole. Its proof is why `Parse` asks for a moov that begins
within the init segment, and why `NoneAssumption` sets tracks apart from None.

`SequenceLemmas` has what these proofs need of sequences. `FlattenSeq` is defined by
recursion, and the prover has no induction with an operator as a parameter;
`SetInduction` states it for a set instead, from the least element of its
complement (`Least`), and `FlattenAppend`, `FlattenTail` and `DataJoins` follow. The
same way the sizes of lines are handled in `InboundProofs` (`SizeSteps`).

Only model-checked:

- `Unbroken` and the others are for one encoder or one queue: no module composes
  several;
- all liveness (`PullerReturns`, `EofReaches`, `Teardown`, `PullSettles`,
  `EndReaches`, `Retires`, `EvictedReturns`, `Settles`): out of the prover's reach, as is
  `ENABLED`, and all that a passing run checks and no theorem states.

## 6. Where code and documentation disagree

Each is a counterexample of a run; PROJECT.json has the lines.

1. `NoDuplicate` (`feed_duplicate`): a creator that registers between the
   puller's push and its collect gets that chunk in its snapshot and again live.
   The comment at `registry.rs:1120` excludes that.
2. `EndFinishes` (`feed_hung`): after `end` nobody kills an ffmpeg that has
   stopped reading, so its listeners wait for ever.
3. `NoLateJoin` (`stream_latejoin`): `send_stop` runs before the stream is
   marked as ended, so a request can join a pull whose engine stream is over.
4. `EvictedLingers` (`encoder_evicted`): if the only listener is evicted, its
   encoder is dropped at once instead of lingering.
5. `FinishEndsAll` (`encoder_afterend`): a client that registers after `finish`
   cleared the listeners keeps a sender nobody drops and waits for ever.

Two more were met and have no run. A dropped pull is absent to the registry
while its puller may not have stopped its session yet, so two sessions of one
content id overlap (README.md:20 and `registry.rs:399` speak of one). A joiner
that took the init segment may register after the scanner failed, and then
waits for a keyframe that is never reported (`registry.rs:1266`).

Smaller observations, which the models allow for or the instances leave out:

- A pull that ends after a stall or a failed read while listeners, an encoder or a
  linger still hold its stream leaves the clone in `EngineStream::socket` open until
  they let go. A request that comes then starts a fresh pull beside it, so for that
  time there are two connections for one content id (`Connected` of both streams),
  where `registry.rs:399` speaks of "the sole engine connection".
- `send_stop` is best effort (`engine.rs:416`): if the engine does not answer, the
  session lapses with the connection, which `README.md:27` says is what the command
  is there to avoid.
- A stray sync byte exactly one packet before the end of a chunk is trusted,
  since what follows is not there yet, and the packet it then takes may end inside a
  real one. `Recovers` (in `InStep`) says what the code means by resynchronising
  (`ts.rs:177`): it is in step again at the next packet that another one follows and
  that no stray sync byte precedes by less than a packet.
- `http.rs:48` says that `HEAD_TIMEOUT` bounds the head; it is set per read, so a
  head that drips in may take longer.
- A HEAD of `/audio` or `/video` is answered with `Content-Length: 0`
  (`Response::empty`), where `http.rs:344` says "with the Content-Length the GET
  would have carried"; the GET carries none.
- `get`'s "too many redirects" cannot be reached: a second redirect is returned as
  the response.
- A chunked body whose trailers are cut short ends cleanly, and so does one cut
  inside a size line that begins with a `0`; `FramingAssumption` leaves such size
  lines out.
- An engine error that comes with a status other than 200 is taken for an
  unsupported handshake and the stream is opened directly.
- `KeepsUp` needs half of `SUB_MAX_LAG`: `consumed_at` is the newest chunk's arrival,
  so a pause of the source counts as lag until the reader has taken what came
  after it.

## 7. Not modelled

- Bytes, but for the boxes of `Mp4Scanner`, the packets of `TsScanner` and the
  bodies of `EngineClient`: URLs, the text of requests and of responses' heads,
  formats and ffmpeg arguments, ffprobe's JSON, the status page, logs.
  They are pure functions of their input, and their tests reach them.
- The leaf mutexes (section 2, `Locks`); in the other modules a critical section is
  atomic.
- In `Locks`, the kill and reap of ffmpeg in `Encoder::drop`, which hold `child` and,
  where `start_encoder` fails, `creating`: `NeverOut` does not count them as waiting
  for the outside world, since a killed process ends.
- Junk, or a packet put together from torn ones, that reads as a table or as a PES:
  `TsScanner`'s `Garbage` has no payload, so a scanner out of step takes too much or
  too little but is told nothing.
- Poisoned mutexes (`lock` ignores poison), a panic in a thread, and a linger
  thread that cannot be started (`hold` then drops at once).
- Stale values of the relaxed atomics: `ListenerQueue` lets the other thread in
  between any two accesses, but an access sees the newest value. A load that is late
  differs from one that was made earlier, which that covers, for one counter at a
  time only.
- Two content ids: the registry keeps them apart by key and they share nothing
  but the linger thread. Ids that differ in the case of their hex digits count
  as different.
- Four hazards have no property, since the code promises nothing about them: the
  requests that share a pull whose thread could not be started wait for
  `START_TIMEOUT` (`registry.rs:1058`, the action `PullerNotStarted`), a listener
  that awaits a keyframe on a stream that has none any more waits until its player
  leaves (`registry.rs:858`), and two sessions of one content id may overlap
  (`registry.rs:1040`, section 6), and an ffprobe that hangs keeps its puller
  (`probe.rs:102`).
- The fallback of `open_session` after a JSON handshake that timed out on our
  side only, which may leave a session open that the proxy knows nothing of.

## 8. Plan

1. `EngineFeed`'s `Starts` refined by `Replay`; `EngineFeed` shown to implement a
   `Broadcast` whose members are encoders.
2. `ListenerQueue` composed with `Encoder`: several listeners with clocks.
