# A verification project for rtp-audio-streamer

TLA+ models of the RTP streamer's logic, TLC configurations that check them on small
instances, and TLAPS proofs of the results that should hold for every instance. Paths
below are relative to the repository.

## 1. The system

| Part | Code | State | Operations | Talks to |
|---|---|---|---|---|
| Sender | `src/sender.cpp` | next sequence number and timestamp, codec state, position in the recording | one loop iteration per 20 ms frame | codecs, packet format, socket |
| Impairment simulator | `tools/impair.cpp` | five counters, a vector of threads | receive, lose, forward, delay, duplicate, join | sockets on both sides |
| Packet format | `src/rtp_packet.cpp` | none | `serialize`, `parse` | sender, receive thread |
| Sequence tracker | `src/stats.cpp` | newest sequence number, three counters | `on_packet` | its tests only |
| Jitter buffer | `src/jitter_buffer.cpp` | 32 slots, playout cursor, frontier, jitter estimate, target depth, concealment state, counters | `push`, `try_pull_due_frame`, `mark_stream_ended`, `finished` | receive thread and playout thread, under one mutex |
| SPSC ring | `include/rtp/ring_buffer.hpp` | 1024 slots, two atomic indices | `push`, `pop` | playout thread to main thread, no lock |
| Receiver | `src/receiver.cpp` | three threads, `playout_done`, idle clock, samples | the three loops | all of the above |
| Codecs | `src/codec_adpcm.cpp`, `src/codec_ulaw.cpp` | ADPCM: predictor and step index | encode, decode, pack and unpack the state | sender, jitter buffer |
| WAV files | `src/wav.cpp` | none | `read`, `write` | sender, receiver |
| Socket | `src/udp_socket.cpp` | a descriptor | bind, timeout, receive, send | sender, impair, receive thread |

A datagram goes from the sender through the network (or `impair`) to the receive
thread, which parses it and pushes it into the jitter buffer under the mutex. Every
20 ms the playout thread takes the mutex, pulls what is due and pushes it into the
ring; the main thread drains the ring into a vector. When the socket has been idle
too long the receive thread marks the stream ended, the playout thread drains the rest
at once and sets `playout_done`, and the other two threads leave when they see it.

What is hard about it:

* three threads, one mutex and two lock-free hand-overs (the ring and the flag), each
  read possibly stale;
* packets lost, repeated, reordered, late, or arriving after the end was declared;
* 16-bit sequence numbers and 32-bit timestamps that wrap, 32-bit clocks subtracted
  without a sign;
* real-time deadlines that move with an adaptive depth, a frontier that playout must
  not pass, and an end that must come although no deadline is reached any more;
* codec state that must match on both sides of a network that loses packets, and three
  payload formats cut to three buffer sizes on the way;
* chunked files of other programs, walked by sizes that may be odd, wrong or huge, and
  files of its own that a full disk cut off.

What makes each part correct is listed with its module in section 3; the places where
the code could go wrong, line by line, are the `hazards` of `PROJECT.json`.

## 2. Plan

Done, most important first: the jitter buffer with its abstract specification
(`PlayoutWindow`); the ring under the memory model with its abstract specification
(`BoundedFifo`); the hand-over at the end of the stream; the three threads together, and
what a failing socket does to them; the sequence tracker beside the jitter buffer; the
jitter estimate; the impairment simulator; the ADPCM codec; the sender with all three
codecs, the packet format and the decoding at the other end; the WAV writer and reader.
Every component with state of its own is modelled, and every safety property that a
passing run checks is a theorem.

What is left is what no property covers: the hazards of `PROJECT.json` that have a note
instead (a deadline recomputed from a depth that moves, malformed datagrams that count as
activity, an `ssrc` that is not looked at, what `impair` leaves unsent when it is aborted).

## 3. Modules

### `SeqArith`, `PacketStream`

`SeqDelta(a, b)` is the code's `static_cast<int16_t>(a - b)`, for any even modulus.
What the rest relies on is proved first in `JitterBufferProofs`: the delta of two numbers
less than half the space apart is the difference of their indices, positions in a window
have distinct slots, and so on. `PacketStream` gives the packets of a stream their
numbers.

### `JitterBuffer` (abstract: `PlayoutWindow`)

One action per outcome of a call: `PushLate`, `PushDuplicate`, `PushStore` for `push`,
`TryPull` (with `PlayReal` or `Conceal`) for a `try_pull_due_frame` that returns true,
`MarkStreamEnded`. A call that returns false changes nothing and is no action. Packets
carry the index the sender gave them, so that audio has a name: `out` is "frame n,
faded k times" or silence. The members have the code's names without the trailing
underscore; `have_highest_` and `have_prev_arrival_` are set by the same push as
`started_`, which stands for them. `update_jitter_estimate` leaves the target anywhere
in its range here; `JitterEstimator` computes it. Times may be any values of `Times` in
any order, which is more than the receiver does.

Properties: `SlotsInWindow` (nothing that is still to be played is overwritten),
`PacketsAccounted`, `NeverPastFrontier`, `FirstFrameIsReal`, `ConcealmentFades`,
`SilentBeyondHorizon`, `DrainsWhenEnded`, and `ImplementsPlayoutWindow`: for a stream of
less than half the sequence space, the slots, the modular arithmetic and the frontier
are an implementation of a set of held stream indices in a window, with no wrapping
numbers at all.

### `SpscRing` (abstract: `BoundedFifo`)

`push` and `pop` in the steps other threads can tell apart: load of the other index,
access to the slot, store of the own index. A load may return any store not older than
one already seen. An acquire load that reads a release store orders what came before
that store; `tailSync` and `headSync` keep how far that reaches. An unordered slot
access is a data race and yields any value. `RaceFree` says there is none, and
`ImplementsFifo` that items come out whole, once, in order, and that `Capacity - 1` fit.
The proofs are about the ring alone (`RingSpec`) and about the ring as `Handoff` uses
it; the run checks the second.

### `Handoff`

The end of `receiver.cpp`'s pipeline on top of `SpscRing`: the playout thread's pushes
and flag, the main thread's loop with its pop, its look at the flag and its final pop.
`NothingLeftBehind` needs the acquire on the flag: with a relaxed one the final pop may
miss frames already pushed.

### `Receiver`

The three loops around `JitterBuffer`, with the ring as a queue (what `SpscRing`
and `Handoff` justify) and the flag read fresh. The unit of time is a frame. The mutex
is held by the playout thread for as long as it is `"pulling"`; the receive thread's
critical sections are one step each. Datagrams arrive in the socket's queue at any time.
Return of `recvfrom` (`ReceiveDatagram`, `ReceiveTimesOut`), reading of the clock
(`NoteActivity`, `LookAtIdleTime`) and critical section (`PushIncoming`, `EndStream`) are
steps of their own: a packet can wait for the mutex with an old stamp, and datagrams can
arrive between a timeout and the mark it leads to, to be received and pushed into a
stream that has been declared ended. Wake-ups may be late by any amount; the buffer is
asked about the nominal tick, as in the code. Properties: `WavIsTimeline`,
`NothingLeftInRing`, `EndsDrained`, `AllThreadsExit`.

### `SequenceTracker`, `TrackedBuffer`

`on_packet` with the network's promise that no packet is half the sequence space away
from the newest (no 16-bit method can do without it). `FollowsNewest`, `GapsAreMissing`
and `CountersCoverStream` relate its three counters to the stream itself.

`TrackedBuffer` feeds the same packets to the tracker and to `JitterBuffer`, which
does the same arithmetic with members of its own (`jitter_buffer.cpp:53-66`). Their
counts of reordered packets are one number (`SameReordered`): the receiver prints the
buffer's, and `scripts/impair_reorder_test.sh:2-3` calls it the tracker's, which the
receiver does not use. In this composition the stream goes on past half the sequence
space and past all of it, so the tracker goes on while playout stops for good
(`SilentBeyondHorizon`).

### `JitterEstimator`

The estimate in exact arithmetic: the code's double divided by 16 per packet becomes an
integer number of `scale`-ths, where `scale` grows by the factor `Gain` with each
update. The rounding of doubles is not modelled. `JitterWithinSpread`: the estimate
never exceeds the spread of the delays seen, whatever is lost or reordered, so a path of
constant delay keeps the minimum depth.

### `Impair`

The main loop with its draws, inline sends copy by copy, one thread per delayed packet,
the joins, and failing sends and receives with where they end (`return 1`, or
`std::terminate` when any thread has not been joined). `StraightPacketsInOrder`, `ForwardedIsSent`,
`ImpairEnds`.

### `Adpcm`, `AdpcmLoop`, `Ulaw`

`Adpcm` has the codec's operators with the full tables and 16-bit saturation;
`encode_sample`'s successive comparisons and `decode_sample`'s bit sums are written
separately, as in the code. `AdpcmLoop` runs both in a closed loop. `Ulaw` has
`linear_to_ulaw` and `ulaw_to_linear` with the code's bias, clip and segments.

### `RtpPacket`, `Payload`, `RtpStream`

`RtpPacket` is `serialize` and `parse` over sequences of bytes, with every rejection.
A byte of a header number is a digit of base `FieldBase`, 256 in the code; a small base
brings both wraps within reach. `Payload` has the branches of the sender's loop and of
`decode_slot`: PCM bytes, mu-law bytes, the ADPCM state header and nibbles.

`RtpStream` is the sender's loop (`SendFrame`, `SendFails` for the exceptions of
`send_to` and of a frame that does not fit, `SendingEnds`) and, for any datagram in any
order, what the receiver does with its bytes: cut to the receive buffer, parsed or
dropped, cut to the slot, decoded. Beside the sender's datagrams come those of other
programs: too short, of another version, with a source list, of an unknown type, odd,
too long, with a codec state out of range. Properties: `ParsedAsSent`, `PlayedAsSent`
(PCM and ADPCM to the bit, mu-law to half a step of its segment),
`TimestampFollowsSequence` (a packet has its frame's number in the sequence number and
its first sample's in the timestamp, past every wrap of either); `StreamTypeOK` includes
that whatever is not refused plays for exactly one frame. Where the jitter buffer's
models name audio by its packet, this is what the name stands for.

### `WavFile`

`Write` leaves the writer's bytes or any prefix of them, because no result of `fwrite`
is looked at; `Found` lays out chunks of another program. The reader's loop is one
action per branch (`ReadRiff`, `ReadFmt`, `ReadData`, `SkipChunk`, `EndOfChunks`) with
each branch's refusals. It works on bytes, so that a walk that has lost its step reads
what it would read: an id is four bytes like any other, which a size or a body may spell
too. `ReadsBack`, `ReadEnds` and `AcceptsExactly`, against a description of the file by
its chunks, not by a walk. The last is about ordinary files: sizes are those of the
bodies, and no `fmt` chunk is padded. What ordinary bodies spell does not matter.

For other files the reader keeps less than `docs/WALKTHROUGH.md:47-49` promises ("A corrupt
or truncated file produces a clear `std::runtime_error` [...], not a garbage read or a
crash"). No run checks that promise, which the code does not keep. The model does what the
code does:

* A chunk of an unknown kind with size 0xFFFFFFFF is skipped by nothing, the sum being 32
  bits wide, and its own body is read as chunks; one that spells a data chunk becomes the
  recording.
* An `fmt` chunk of odd size derails the walk, because its padding is not skipped. What
  follows is read from one byte too early: the file is refused, unless the bytes there
  happen to spell chunks.
* A data size that is too large, but within the file, takes the chunks that follow for
  samples.
* The sample rate is read but never compared with `kSampleRateHz`, so a file of another
  rate is sent as if it were 8 kHz.

## 4. Runs

Passing runs:

| Run | Shows | Bounds | Why they are enough |
|---|---|---|---|
| `JitterBuffer` | nothing still to be played is overwritten, every packet is accounted for, concealment fades, the buffer is a window of stream indices, and playout of an ended stream comes to its end | 16 sequence numbers, 4 slots, 7 packets, 4 pushes, two depths, two times | the stream wraps after the third packet; pushes fall before, in and beyond the window of 4, repeat, and come late; 2 repeats exhaust the fade; a time before and one after the deadlines of the stream |
| `TrackedBuffer` | the tracker's reference is the newest packet and its counters account for the stream, the buffer counts the same packets as reordered, and playout stops for good half way | 8 sequence numbers, 10 packets, 6 arrivals, 2 slots | the stream is longer than the sequence space; playout reaches its half and packets come after that |
| `Handoff` | no data race, a bounded FIFO, and a main thread that leaves with every accepted frame in order | 9 frames through 3 usable slots | the ring goes round twice; full, empty and refused pushes; every stale index, together with a stale flag |
| `Receiver` | the file is the timeline less the counted underruns; the end drains what is left and stops all threads; a failing socket leaves none of them running | 3 packets, 3 arrivals queued in the socket, a ring of one usable slot, clock of 3 frames, idle timeout below a frame | loss, repetition, reordering, a burst that overflows the ring, malformed datagrams, late wake-ups, packets received before the end is declared, between timeout and mark, and after it |
| `JitterEstimator` | the estimate and the depth never exceed the spread of the delays | gain 2, 4 packets, delays 0..4, 4 updates | with a gain of 2 three updates already show a missing decay; the cap is reached |
| `Impair` | undelayed packets keep their order, and everything forwarded is sent before the program ends normally | 3 packets, all knobs, failing sends and receives | a straight packet can overtake, be overtaken, and be sent between the copies of a delayed one |
| `AdpcmLoop` | both sides stay in step and small changes are tracked | 3 inputs, 12 samples | twelve swings between the ends drive the step index to 88 and the predictor into both clamps |
| `RtpStream` | every datagram parses and plays as the packet it was made from; timestamps follow sequence numbers | frames of 4, recordings of up to 10 samples, digits of base 4, 9 datagrams of others | three frames, last ones of odd and even length, both wraps, all three codecs; samples on both sides of every edge of the mu-law segments and at the clip |
| `WavFile` | what was written is read back, ordinary files are accepted exactly when they should be and read to the sample, a cut file never, and the reader ends on any file | digits of base 16, up to 3 chunks of 21 kinds, cuts at every byte | every order of three chunks, each of the reader's branches and refusals; bodies that spell a data chunk at an even and an odd place, a size that wraps to 0, one that would be negative, one too large |

Runs that refute a claim the repository makes (the findings in `PROJECT.json`):

| Run | Claim | What happens |
|---|---|---|
| `ReceiverAccounting` | scripts/impair_jitterbuffer_test.sh:76-78, every received packet is played, late or a duplicate | one pushed after playout has finished is none of them |
| `ReceiverLatency` | include/rtp/jitter_buffer.hpp:96-98, a latency is the time from arrival to playout | a packet played in a tick nominally before its arrival gets one near 2^32 |
| `JitterWrap` | src/jitter_buffer.cpp:16-19, the estimate is the RFC's | the 64-bit difference of wrapped timestamps is off by 2^32 |

`CHECK_DEADLOCK FALSE` stands where the program ends (`Receiver`, `Handoff`, `Impair`,
`RtpStream`, `WavFile`) or where a bound ends the behaviour (`TrackedBuffer`,
`JitterEstimator`, `AdpcmLoop`).

Definitions marked "Fault" in the modules are plausible mistakes (a dropped guard, an
off-by-one, a missing acquire). No specification uses them; each one, put in place of
the definition it varies, makes the property it is listed with fail, which shows
that the property is sensitive to the code.

### Fairness

* `JitterBuffer`: `try_pull_due_frame` keeps being called, as the playout thread does on
  every tick, until `finished()` is true; there the thread leaves its loop
  (`receiver.cpp:210-218`) and nothing more is assumed. A packet pushed after that is
  never drained, which `ReceiverAccounting` shows.
* `Handoff`: both threads keep running, and the flag, once stored, is at some look seen:
  the standard asks that a store become visible in a finite time.
* `Receiver`: time passes, each thread is scheduled, and the receive thread gets the
  mutex in the end, because the playout thread sleeps between ticks (strong fairness of
  its two critical sections). `AllThreadsExit` supposes that traffic stops (`TrafficEnd`),
  malformed datagrams included, since each puts the end off. Nothing else is assumed about
  datagrams, which may never come, nor about the socket, which may fail at any call.
* `WavFile`: the reader goes on, as a sequential program does.
* `Impair`: `recvfrom` returns, with a packet or its timeout unless it fails, and each
  delayed thread runs. No call has to fail, and nothing is assumed about the sender.

## 5. Proofs

Checked with TLAPS, for all values of the constants that satisfy the named `ASSUME`s of
the modules:

* `JitterBufferProofs`: `TypeOK`, `SlotsInWindow`, `PacketsAccounted`,
  `NeverPastFrontier`, `FirstFrameIsReal`. None of them but the type is inductive on its
  own: that a store does not overwrite needs that held packets are in the window and in
  their own slots; the accounting needs that a stored packet lands in an empty slot,
  which follows from the window and from `SeqMod % Capacity = 0`; that the first frame is
  real needs that the base's packet stays held until it is played (`FirstHeld`). The
  inductive invariant `JitterInv` is their conjunction with `Fresh` (before the first
  push) and `Begun` (after it). The assumption that matters is `CapacityAssumption`: the
  capacity divides the sequence space and is at most half of it (32 and 65536).
  Then the action properties `SilentBeyondHorizon` (for a stream of any length) and
  `ConcealmentFades`, and that `JitterBuffer` implements `PlayoutWindow` when
  `LastIndex < Half`, the bound below which positions do not wrap; the invariant
  `Contents` ties each slot to the stream index of its packet.
* `HandoffProofs`: `RingTypeOK`, `RaceFree` and `ImplementsFifo` of the ring, for every
  capacity of at least 2 and any number of pushes; race freedom follows from what each
  thread has synchronised with being what it has seen (`RingInv`). Then the same of the
  two threads around it, `SamplesInOrder` and `NothingLeftBehind`. `HandoffInv` adds to
  `RingInv` that the slots between the indices hold the accepted frames not yet taken
  (`Carried`), that each frame offered is accepted or an underrun (`Counted`), and that a
  main thread at its final pop has seen every push (`Leaving`): the acquire of the flag.
* `ReceiverProofs`: `ReceiverTypeOK`, `NothingLeftInRing`, and the action property
  `EndsDrained`, from `ReceiverInv`: the jitter buffer's `JitterInv` (each step of a thread
  is a step of the buffer or leaves it alone), every position played is in the output or
  an underrun (`EveryPosition`), and what each thread may still do once `playout_done` is
  set (`Shutdown`). `WavIsTimeline` is proved when `LastIndex < Half`, with `Contents` and
  with every real frame standing before the cursor (`Placed`).
* `TrackedBufferProofs`: the tracker's `FollowsNewest`, `GapsAreMissing` and
  `CountersCoverStream`, for streams of any length under the network's promise: within
  it the 16-bit difference of two numbers is the difference of their packets. Then
  `SameReordered`, from both parts' references being the same (`Agree`), which holds on
  after the buffer has fallen silent. A step of both is a step of the buffer, so
  `SilentBeyondHorizon` carries over.
* `JitterEstimatorProofs`: `JitterWithinSpread` and `DepthWithinSpread`, for every gain,
  margin and pacing, when the timestamps of the stream do not wrap (`NoWrap`); `JitterWrap`
  shows what a wrap does. With the pacing cancelled, a difference is that of two delays,
  and an average of numbers below the spread stays below it; `DelaysSeen` keeps the last
  delay among those seen.
* `ImpairProofs`: `StraightPacketsInOrder` and `ForwardedIsSent`, for any number of
  packets. `ImpairInv` has a ledger of where each copy counted as forwarded is: on the
  wire, in main's hand or owed by a thread (`Ledger`); which packets have none
  (`Balance`); and that nothing has left ahead of its turn (`InTurn`).
* `RtpStreamProofs`: of `AdpcmLoop`, that predictor and step index stay in range, that
  encoder and decoder stay in step, and that a sample within two steps is reproduced
  within an eighth of a step and the truncations, for every input signal; the heart is
  that the three comparisons of the encoder add up to what the bits of the code stand
  for. Of `RtpStream`: `StreamTypeOK`, `PlayedAsSent`, `ParsedAsSent` and
  `TimestampFollowsSequence`, for recordings and frames of any length. On the way: mu-law
  to half a step for every 16-bit sample (`UlawRoundTrip`), `Parse` after `Serialize` is
  the identity for every header and payload (`RoundTrip`), and the decoder follows the
  encoder through a whole frame (`AdpcmFrame`). The last is an induction over the frame,
  taken as its least counterexample (`LeastNumber`), since the library's induction
  theorems cannot be instantiated. `StreamInv` says of every datagram sent what it
  parses to and plays as (`Carried`). The module extends both `RtpStream` and
  `AdpcmLoop`, so that the codec's lemmas serve both; the theorems of each use only its
  own assumptions.
* `WavFileProofs`: `ReadsBack` for recordings of any length, and `AcceptsExactly` for
  ordinary files of any length, whatever their bodies spell. First what bytes stand where
  (`WavHeader`, `ChunkIn`), then that the reader reads there what was laid out
  (`ReadsWord`, `ReadsLong`, `ReadsTag`). For the writer's files `RereadInv` lists the
  three places the reader can be in. For others `WalkInv` says that in an ordinary file
  the reader is at a chunk's head or past the end, having seen no data chunk and
  remembering the last description before it, or has taken the first data chunk's samples
  (`InStep`, `Walked`). The theorems suppose that a recording's bytes fit a 32-bit size
  (`SizesFit`: past 74 hours the writer's own header is wrong) and that a body and its
  padding fit one (`BodiesFit`: a chunk of size 0xFFFFFFFF is skipped by nothing). TLC
  evaluates the two on the instance of the run (`OfTheTheorems`).

Before it was proved, each inductive invariant was checked on the instance of its run.

Only model-checked: liveness, the prover having no `ENABLED` and so no fairness
(`DrainsWhenEnded`, `MainExits`, `AllThreadsExit`, `ImpairEnds`, `ReadEnds`).

## 6. Not modelled

* Argument parsing, printing, and the percentiles and means printed at the end: they
  change nothing the rest depends on.
* The socket's constructor, `bind_to` and `set_receive_timeout`: they run before any
  thread and end the program when they fail. `receive` and `send_to` are modelled at
  their callers.
* The sleep between frames of the sender: in `RtpStream` a frame may leave at any time,
  in `JitterEstimator` the sender's pacing is exact and the network adds the delay.
* The rounding of the jitter estimate's doubles.
* `fopen` failing, which makes `read` and `write` throw before they do anything.
* The measurement tools (`gen_test_tone`, `wav_snr`, `snr_harness`: floating-point signal
  generation and comparison) and the scripts, which are used as a source of claims.

Met while modelling and not given a run: `docs/WALKTHROUGH.md:198-200` says a
position's deadline is "computed once and never retroactively moved" and that a packet
arriving after it "is dropped, not played". The code recomputes it from the current
target depth on every call (`jitter_buffer.cpp:168-172`), and drops only packets behind
the cursor: while playout waits at the frontier, a packet that arrives after its
deadline is played. The model does both as the code does.
