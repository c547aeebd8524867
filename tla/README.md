# RootWire: a TLA+ verification project

RootWire (`src/src/rootwire/`) is a Linux packet sniffer: it reads frames from
raw sockets (or replays a capture file), decodes them and gives each one to a
chain of outputs. This directory models the parts where its correctness depends
on order, failure and limits, checks them with TLC on small instances, and
proves the central safety results with TLAPS for every size.

## 1. Inventory

| Component | State | Operations | Talks to |
|---|---|---|---|
| `capture.py` live capture | sockets, ExitStack, shared `asyncio.Queue`, registered readers | `_open_socket`, `_make_reader`/`_on_readable`, `capture_async` | kernel (AF_PACKET), event loop, `run()` |
| `cli.py` session | arguments, outputs, SIGTERM disposition, exit status | `main`, `_drive`, `run`, `_validate_args`, `_same_file`, `_resolve_filter_program`, `_build_outputs` | all others |
| `bpf_compiler.py` | token list; emitter (items, label counter) | `_tokenize`, `_Parser`, `_compile*`, `_resolve` | `bpf.py`, kernel |
| `bpf.py` | four canned programs | `FilterProgram` packing | kernel |
| `pcap.py` | open file and its buffer | `PcapWriter`, `_pcapng_linktype`, `read_captures` | file system, `netprotocols` |
| `decoder.py`, `frame.py` | none (pure) | `decode_frame`, length diagnosis | `netprotocols` |
| `output.py` | statistics counters; streams | `update`, `close`, `report` | stdout/stderr, `pcap.py` |

What is hard here:

* **Concurrency.** One thread, but readers, the consuming task, SIGTERM, Ctrl-C
  and the kernel interleave. State is read before an `await` and used after it;
  callbacks collected by `select()` run after other callbacks have changed the
  readers.
* **Failure.** Any socket call, any output, the source and even `close()` inside
  `finally` can raise; the process can be killed with records still buffered.
* **Limits.** An unbounded queue, 8-bit jump offsets, the kernel's 4096
  instructions, Python's recursion limit, 32-bit seconds in a pcap record.
* **Fidelity.** A filter read or compiled wrongly, a torn record replayed as a
  frame, a summary that does not match the file, a diagnosis that is not true and
  an exit status that hides a crash are all silent.

`PROJECT.json` lists every hazard at its line with the properties that catch it,
or the reason why none does yet.

What makes each component correct:

* live capture: per socket FIFO without loss or repetition; a bounded queue; no
  callback on a closed socket; everything released; no starvation; SIGTERM stops
  it;
* session: summary, exit status, `-w` file and SIGTERM disposition agree on
  every way out; the replayed file is never damaged;
* filters: forward, in-range jumps; the accepted frames are exactly the matching
  ones; every unsuitable expression is refused as a compile error;
* reader and writer: a replay yields a prefix of what was captured whatever
  happened to the writer, all of it after a clean end, and never a frame that is
  not Ethernet;
* decoder and outputs: truncation and checksum diagnoses are true and complete
  where they can be, and screen, NDJSON and statistics agree.

## 2. Modules

| Module | Models |
|---|---|
| `FrameStream` | abstract: what a live capture promises its consumer |
| `Capture` | `capture.py`, with `run()`/`_drive()` and the asyncio loop under them |
| `Session` | one call of `main()`, with the output chain and the `-w` buffer |
| `BpfAst` | the AST both halves of the filter compiler share |
| `BpfParser` | the lexer and the recursive-descent parser, from text to AST |
| `BpfCodegen` | the code generator, from AST to program |
| `BpfFilter` | composes the two: text or canned name to program, executed on frames by a cBPF machine |
| `FilterReference` | what the documented grammar and the expressions mean, to check `BpfFilter` against |
| `CaptureFile` | `pcap.py`: the file a session leaves, and what a replay makes of a file |
| `FrameDiagnosis` | `decoder.py`, `frame.py` and the display and statistics of `output.py` |
| `MCCapture`, `MCSession`, `MCBpfCodegen`, `MCBpfFilter`, `MCCaptureFile`, `MCFrameDiagnosis` | instances for TLC |
| `FrameStreamProofs`, `CaptureProofs`, `SessionProofs`, `BpfCodegenProofs`, `BpfFilterProofs`, `CaptureFileProofs`, `FrameDiagnosisProofs` | the theorems about each (section 5) |
| `Induction` | induction over the natural numbers with the property given as a set |

Operators that describe a deviation from the code (`TakeAndYield`,
`CompileNotUnswapped`, `ParseLeavesRest`, ...) are plausible bugs. They are used
by no specification; `PROJECT.json` says which property each would break.

### Capture

The variables are those of the code: sockets (`sock`) with their kernel queues
(`rx`), the generator's ExitStack (`stack`), the queue, the future its `get()`
waits on (`getter`), `Task._must_cancel`, and the loop's ready list split as
`_run_once` splits it: `batch` (ready before this iteration), `polled`
(descriptors select returned) and `soon` (scheduled for the next iteration).
Between two awaits the task holds the thread: no callback runs while `Busy`, but
the kernel and signals do. The main actions:

* `CreateSocket`, `AttachFilter`, `BindAndRegister` — `_open_socket` and the
  set-up loop, in its order; `CreateSocketFails` and `ConfigureFails` — its
  exceptions. They are separate because the kernel acts between them.
* `OnReadable`, `OnReadableTransient` — `_on_readable`: a frame, an error, or the
  early return on `BlockingIOError`/`InterruptedError`.
* `Take`, `TakeError`, `TakeFails`, `Suspend` — one turn of `while True`; the
  frame is decoded and given to all outputs in the same step.
* `Release`, `Unwound` — `ExitStack.__exit__`, last in first out.
* `Sigterm`/`ReadSelfPipe`/`RunCancel` — the way of a signal through the loop's
  self-pipe; `Sigint` — the first Ctrl-C under `asyncio.Runner`.
* `RunDrive` .. `Aclosed` — the end of `asyncio.run`, including the `aclose()`
  of a generator that a failing output left suspended.

asyncio, epoll and AF_PACKET are external: they are modelled from what
`capture.py` and `cli.py` use of them. Frames carry a number modulo `Wrap`, the
interface they came from and whether they match the filter. Not modelled: the
second Ctrl-C, which raises at an arbitrary bytecode.

### Session

`pc` walks through `main()`. The source yields, ends or raises; each output is a
step of its own, so a failure or a signal can fall between two outputs of one
frame. `disk` counts the records that have left the writer's buffer, which may
be flushed at any write and is flushed at `close()`. `disp` is the SIGTERM
disposition: a SIGTERM kills when it is the default. The disposition that `main()`
found is part of `args` (`Previous`), so every run covers both. A Ctrl-C is taken
where CPython takes it: at calls; in one of `main()`'s handlers it ends the process
with status 130.

### BpfParser, BpfCodegen and BpfFilter

A text is a sequence of pieces: a run of letters, a run of digits, or one other
character; a keyword is one piece of letters, `ip6` with its digit. Digits are kept one by one because the pattern of an address can end
inside a run of them. Each action of `BpfParser` is one token of `_tokenize`, one
call of a `_Parser` method, or one return to the method that waits (`callers` is
the call stack). It ends in an AST, in `BPFCompileError`, or in one of the two
exceptions the code does not turn into one: `RecursionError`, and the
`ValueError` of `int()` for more than 4300 digits.

`_compile`'s recursion is likewise the explicit stack `todo`; every action is one
call of `_compile`, one `place()`/`emit()` of a resumed caller, or the resolution
pass. The instruction templates of the primitives are the code's. Labels matter
by identity only, so each primitive reserves a fixed block of them.

`BpfFilter` is `_resolve_filter_program`: a canned name gives its program
(`UseCanned`), any other text goes through the parser (`ParseText`) and the code
generator (`CompileParsed`). The result is run on frames laid out byte by byte.
A frame that is not IPv6 has bytes where IPv4's fields would stand, and its fields
are those bytes, since the programs do not always ask first. `FrameFields` says which
frames there are; the header length of IPv4 is one that IPv4 allows (5 to 15 words).
The two references of `FilterReference` share nothing with the code: `Derived` gives
the trees of each span of tokens by the rules of the documented grammar, and
`Matches` states on the frame's fields what an expression means. Where the docstring
leaves it open which frames have ports (`CarriesPorts`), tcpdump's own program for
`port 80`, quoted in the repository's tests, decides: IPv4 and IPv6 only. Both are recursive
functions, so that they can be proved about. `MaxInsns` and the machine are the
kernel's (external; the interpreter of `tests/bpf_vm.py` was the guide).

### CaptureFile

In round 1 a session takes frames, from the network or from a foreign file, and
gives them to `PcapWriter`; in round 2 the file it left is replayed. A classic
file is a sequence of pieces (magic, network, and per record a time, a length and
the bytes), so that a crash can fall inside a record; a pcapng file is a sequence
of blocks with a byte order, a length that is right, too short or impossible, and
a body. `WriteHeader` and `WriteData` are the two writes of a record, `Flush` and
`Spill` the buffer under them (a frame larger than the buffer goes to disk in
part). Writes and `close()` may fail after any prefix, `Kill` drops the buffer
anywhere, and `StructError` is the timestamp that does not fit 32 bits of seconds.
`OpenClassic`, `OpenOther`, `ScanBlock` and `ScanEnds` are `_declared_linktype` and
`_pcapng_linktype`. The record walk of `netprotocols.read_captures` is external: it
is assumed to yield complete records in order, to accept a block only in its
section's byte order and with a declared interface, and to raise on anything else.
Simple Packet Blocks are left out of it, and a block length read in the wrong byte
order counts as beyond the end of the file, the few lengths that read the same both
ways included.

### FrameDiagnosis

A frame on the wire is its headers, the length of the data behind them and the
Ethernet padding; `cap` is how much was captured. `DecodeLayer` is one step of
netprotocols' walk (external), `DecodeEnds` the rest of `decode_frame`. The chosen
display then says one thing per layer and the frame's flags (`ScreenLayer`,
`ScreenEnds`, or `Json`), and the statistics count (`Stats`). The checksum
arithmetic is external: `Verify` says that a checksum is right over the bytes and
the IP layer it was made from, and leaves open what the library says of bytes
that are fewer or more. Headers keep their real lengths.

## 3. Runs

| Run | Instance | Shows |
|---|---|---|
| `capture` | 2 sockets with a filter, receive queues of 1, numbers modulo 3 | `QueuedOncePerSocket`, `ReadersOnOpenSockets`, `NothingLeftOpen`, `InOrder`; `Capture` implements `FrameStream` |
| `capture_live` | 2 sockets, receive queues of 1, numbers modulo 2 | `NoStarvation`, `SigtermStops` |
| `session_safety` | up to 3 frames, all arguments, both SIGTERM dispositions of the caller | `SummaryMatchesFile`, `ZeroIffSummary`, `OutputsInStep`, `DispositionRestored`, `ReplayedFileIntact`, `SigtermLosesOnlyAtTheEnd` |
| `bpf_filter` | 17363 texts, 68 frames, real jump limit | `NoLiteralSplit`, `ParseExact`; `JumpsForward`, `LabelsPlacedOnce`, `ProgramSound`, `FreshLoads`, `ChainLimit`; `StaysInProgram`, `VerdictCorrect` |
| `capture_file` | 2 frames live, 1036 foreign files | `ReplayFaithful`, `CompleteWhenClosed`, `OnlyEthernet`, `ReplaysWellFormed` |
| `diagnosis` | 138 frames, 6 cuts, 2 frames a run | `TruncationExact`, `NotesTrue`, `OutputsAgree` |

Bounds. Two sockets are the least with starvation, partial set-up and merged
order; a third adds no new pair. A receive queue of 1 refills as soon as its
reader ran, so a socket can stay readable; longer queues are covered by the
proofs. `Wrap` exceeds the number of frames on the way, so a lost, repeated or
swapped frame changes the numbers. `MaxSig` = 1: further SIGTERMs take the same
path once the byte is read, and can arrive again then. Three frames of a session
allow one per position: written, buffered, in progress.

The texts are the spellings of all expressions of one operator over every
primitive and of two over a few, every sequence of up to five tokens, literals
around every limit, or-chains around the 8-bit jump limit, and the canned names.
`RecLimit` is scaled from about 1000 to 30 and `DigitLimit` from 4300 to 8; no
accepted text comes near them otherwise. The filtered frames vary each field a
template reads, with lengths that cut every load; two are neither IPv4 nor IPv6.

Files have frames of one and two pieces, so a record can be cut before, inside
and after its data; three nanoseconds make a second and two seconds overflow.
Foreign pcapng files are all those of one section with up to three blocks and of
two sections of different byte order with up to two each, and two longer ones
with each block replaced by a defective one. Frames to diagnose have up to two
tags, every network layer with every message, tunnels of both versions, and
`Cuts` around the four bytes of a tag and the padding; the layer cap is 6
instead of 16, which one frame exceeds. One classic file has records without bytes,
and one frame an IGMP message with a wrong checksum.

Each module names what its inputs are (`ParserAssumption`, `InputAssumption`,
`DiagnosisAssumption`, ...) as an assumption that TLC evaluates on the instance and
the proofs start from.

Fairness. `FairSpec` assumes weak fairness of the loop thread's next step and
nothing else: the process is scheduled and its system calls return. Arrival of
frames, errors and signals are not assumed, and no reader or task gets fairness of
its own: the order inside the thread is asyncio's.

Deadlock is checked in every run; a finished execution stutters explicitly.

## 4. What the code does not keep

Each of these runs checks one sentence of the documentation and ends in a
counterexample. `PROJECT.json` quotes the sentence and the line.

| Run | Counterexample |
|---|---|
| `capture_window` | a frame of another interface, not matching the filter, arrives between `socket()` and `SO_ATTACH_FILTER`: it is captured, and tagged with the interface bound later. Two sentences exclude it, each alone |
| `session_crash` | Ctrl-C while `asyncio.run` winds up after an error: summary and status 0 |
| `bpf_port` | `port 443` keeps a frame that is neither IPv4 nor IPv6, whose bytes at the offsets of IPv4's fields read like a segment on that port |
| `bpf_depth` | a deeply nested or long expression raises `RecursionError`, in the parser or in the code generator (the limit is scaled from about 1000 to 10) |
| `bpf_attach` | alternating `and`/`or` compiles to more than the kernel attaches (255 and 4096 scaled to 16 and 256; 35 levels of ten `tcp` do it at full size) |
| `diagnosis_vlan` | a frame with a VLAN tag that lost one byte is not reported as truncated |

Further observations need no run. A cancellation that finds frames already
read into the queue drops them, at most one per socket by `QueuedOncePerSocket`
(`Unwound`). And an unreadable `-r` file is answered with the raw-socket privilege
hint, since one `except PermissionError` serves both sources (`HandleException`).
`NotesTrue` has to except tunnels: the checksum of a TCP or UDP layer inside an IPv4
tunnel is verified against the outermost IPv4 header, so a right one is shown as a
mismatch (`TcpUdpNote`); and inside a tunnel a fragment is not recognised as one
(`IsFragmented` looks at the first IPv4 header).

`_compile_port` (`bpf_compiler.py:633-646`) asks whether the frame is IPv6 and sends
every other one to `_compile_port_v4`, which never tests for ethertype 0x0800. tcpdump's
program for `port 80` (`tests/test_bpf_compiler.py:137`) makes that test, and
`bpf_compiler.py:52-57` says that the two always agree on accept and reject. That is
`AgreesWithTcpdump`, and `bpf_port` refutes it. `VerdictCorrect` is what remains true: it
holds of every frame of IPv4 and IPv6, and of any other frame as long as the answer is
the same whether the frame has ports or not (`Indifferent`).

SIGTERM is handled while the capture lasts, as the comment in `main()` says ("Only for
the duration of the capture"). `_drive`'s finally clause removes the handler, which
leaves the default disposition, and the `-w` file is closed only afterwards. A SIGTERM in between,
be it the first one after the source ended or failed or a second one behind one that
was handled, kills the process with records still in the buffer.
`SigtermLosesOnlyAtTheEnd` says that this window is the only one.

Two more came out of the proofs. A torn record whose header is on disk replays as a
frame if the frame has no bytes, although `write()` never returned for it:
`ReplayFaithful` allows for that one. And the code verifies the checksums of IPv4,
ICMP, TCP and UDP only: a wrong one in IGMP or GRE is not noted, so `NotesTrue`
requires a note for the verified kinds alone.

## 5. Proofs

Every safety invariant of the runs but one (`ChainLimit`) is a theorem of its specification, for
every value of the constants that satisfies the named assumptions.

| Module | Theorem | Property | From |
|---|---|---|---|
| `CaptureProofs` | `TypeCorrect`, `QueueBounded`, `ReadersSafe`, `ClosedClean` | `TypeOK`, `QueuedOncePerSocket`, `ReadersOnOpenSockets`, `NothingLeftOpen` | `CaptureAssumption` |
| | `CaptureIsStream`, `DeliveredInOrder` | `ImplementsStream`, `InOrder` | the same |
| `FrameStreamProofs` | `StreamContiguous` | `Contiguous` of the abstract stream | `Wrap \in Nat \ {0}` |
| `SessionProofs` | `SessionTypes`, `SummaryIsTrue`, `ZeroMeansSummary`, `ChainInStep`, `DispositionGivenBack`, `ReplayNeverTruncated`, `SigtermCostsNothingElsewhere` | `TypeOK`, `SummaryMatchesFile`, `ZeroIffSummary`, `OutputsInStep`, `DispositionRestored`, `ReplayedFileIntact`, `SigtermLosesOnlyAtTheEnd` (an action property) | `SessionAssumption` |
| `BpfCodegenProofs` | `CodegenTypes`, `AlwaysForward`, `AlwaysPlacedOnce`, `AlwaysSound` | as below, of the code generator alone | `BpfAssumption`; a set of well-formed trees |
| `BpfFilterProofs` | `FilterTypes`, `FilterForward`, `FilterPlacedOnce`, `FilterSound`, `AlwaysFresh` | `TypeOK`, `JumpsForward`, `LabelsPlacedOnce`, `ProgramSound`, `FreshLoads` | `BpfAssumption`, `ParserAssumption`, `CannedFit` |
| | `NeverLeaves`, `LiteralsWhole`, `ParsesExactly` | `StaysInProgram`, `NoLiteralSplit`, `ParseExact` | the same |
| | `VerdictsHold` | `VerdictCorrect` | the same and `FramesAssumption` |
| `CaptureFileProofs` | `FileFaithful`, `ClosedFileComplete`, `NothingButEthernet`, `WellFormedReplays` | `ReplayFaithful`, `CompleteWhenClosed`, `OnlyEthernet`, `ReplaysWellFormed` | `FileAssumption`, `InputAssumption` |
| `FrameDiagnosisProofs` | `OneStory`, `TruncationTold`, `NotesAreTrue` | `OutputsAgree`, `TruncationExact`, `NotesTrue` | `DiagnosisAssumption` |

Each is proved from an inductive invariant, with a lemma per action or group of
actions. Why the invariants are what they are:

**Capture** (`CaptureInv`). That a socket has at most one item queued is not
inductive: one must know that its reader is not about to run again. `WakeupInv` says
so: while the task waits and is not in the current batch, no socket with an item is
still in `polled`; and a waiting task without a pending future is scheduled, so it
runs before the next poll's readers. The task drains the queue completely before it
suspends. `StackInv` says that the ExitStack holds, for each registered reader, its
removal above the close of its socket, and a close for every open socket.

*Refinement.* `CaptureIsStream` maps the kernel's queue behind the shared queue to the
abstract `pending`. It needs the queue bound: since a socket has at most one item
queued, what it has in the queue is older than what it has in the kernel. Every
action is then an arrival, a delivery, the end, or a stutter of `FrameStream`, and
`DeliveredInOrder` follows from `StreamContiguous`.

**Session** (`SessionInv`). `FramesInv` places the frame in hand: inside the chain the
outputs before the current one have it and the others do not, and elsewhere the
outputs are uneven only behind an output's exception, still propagating or hidden
by a Ctrl-C. `StatusInv` ties the exit status to the exception, `SignalInv` the SIGTERM
disposition to the place in `main()`, `CloseInv` says which outputs are closed and
that a closed writer has flushed, `ArgsInv` that the checks of the arguments came
first.

**Filters** (`CodegenInv`, `FilterInv`, `LiteralInv`). A stream of items is a `Fragment`:
its labels are its own and placed once, its jumps go forward to one of them or to a
label the callers have promised. `StackOK` says the same of what is still to be
emitted, call by call, with disjoint blocks of labels; `StreamInv` puts the two
together. Resolving a fragment without promises gives a `ProgramSound` program. The
trees are a set closed under the operators (`AllTrees`), which the parser's results
never leave; the canned programs are checked one by one; a program without a jump
out of it keeps the machine inside.

`LiteralInv` relates the tokens to the text: either the lexer stands between two
pieces, and has made one literal of each run behind it, or it has cut a run, and
the next token will be a second literal directly behind the first. Each literal
that the parser has passed stands behind a word, so it never gets past the second.

*Verdicts* (`VerdictInv`). `Matches` is first turned into equations: rows of operands
become empty at last, because a tree has finitely many levels, and so a tree matches
a frame as `MatchesNode` says of its operands, whatever is said of the frame's ports. The rest is one notion, a *claim* for
each place in a program and one frame: what the verdict will be from here, whether X
has to hold the IPv4 header length, and, in a program, what the accumulator has to
hold. `Flow` says that the claims along a stream of items agree: each load and each
jump leads to a place whose claim it makes true, a load of a complete frame stays
inside it (`Fits`), and a `ret` returns what is claimed.
Each template is shown to flow from the claim that the frame matches to its two exits
(`BlockFlows`), and the stack of what is still to be generated likewise (`StackFlow`), so
`GenInv` holds while code is generated, for every frame at once. Resolution keeps the
claims (`Carried`), a jump landing on the instruction behind its label: the program
`Answers` the expression (`AnswerInv`). The canned programs answer too, with claims given
by hand, because they rely on what an earlier load left in the accumulator. At last the
machine stands at a place whose claim is true of its registers (`RunInv`), so that the
`ret` it reaches gives the right verdict. What the code computes is not quite `Matches` but
`Keeps`, where a frame other than IPv6 is taken for one with ports if its bytes look like it
(`TakenForPorts`); the two agree on IPv4 and IPv6, and on the frames to which the
expression is `Indifferent` (`KeepsMatches`). A load outside rejects, which a frame cut
short may get and a complete one never does.

*Parser and grammar* (`GrammarInv`). `Derived` is recursive over spans that do not always
get shorter, so that its equations need an argument: its rules are monotonic, hence
some table of trees satisfies them (`LeastTable`), hence `Derived` does
(`DerivedEquation`). From there on the grammar is a record `g` with its rules, `Rules(g)`.
The parser's state is compared with it through what is still possible: an *ending* is
a node, the place behind it, and the tree of the whole text that they can be completed
to. Each waiting method turns the endings of its caller into those of what it waits
for (`Awaited`): `_primary` wants a closing parenthesis, `_not_expr` wraps, the two loops
take any number of further operands (`ViaChain`; `Longer` is the reflexive and transitive
closure of one turn). The invariant (`Situation`) says that the trees the whole text
derives are those that the method being called, or the node being returned, can still
be completed to. It is not inductive by itself: a loop that stops because no operator
follows is right only if none of its callers could go on with that operator either,
so each chain also knows that no ending of its caller stands before its word (`Free`).
When the stack is empty the endings are the end of the text, which is `ParseExact`.

**Files** (`ReadInv`, `FileInv`, `FormInv`). For `OnlyEthernet`, the library's position is
never beyond the block at which the scan stopped (`Walk`), although the two track
byte orders differently. For the writer, file and buffer together are the encoding
of the frames accepted, and one partly written (`Left`); a replay is at the start of
one of those records (`Replaying`). `FormInv` counts interfaces and packets of a
well-formed file against those read.

**Diagnosis** (`DiagInv`). The layers are the first headers of the frame, but for the
length of an ICMP message; each section was rendered from its layer; the display is
one frame ahead of the statistics exactly while they have it. What a truncation is
follows from the sum of the header lengths.

*Induction.* The library's induction principles take an operator as a parameter,
which the provers cannot instantiate. `Induction` states induction with the property
as a set of numbers instead (`SetInduction`), which is enough for what is needed of
recursive functions: that `Extent` is the sum of the lengths, that `Int10` is a number,
that the levels of `AllTrees` exist and are unique, that the rows of `Matches` exist and
end.

**Only model-checked.**

* `NoStarvation` and `SigtermStops`: liveness, out of the prover's reach.
* `ChainLimit`: a statement about the expressions of the instance (21 ORed
  primitives compile and 22 are the only refusal), with no general form.

## 6. Not modelled

The text of the screen's sections, option formatting, terminal escaping, the
report's wording, argparse's option texts and the ctypes packing of a filter are
layout and encoding without state. The byte total, the capture clock and the
fixed fields of the pcap header are data no property tells apart. The
`netprotocols` library, asyncio, the kernel and Python's own limits are not in the
repository and appear as far as the code uses them. A second process changing the
file system between the check of `-r`/`-w` and the opening of the file, and the
collection of a socket whose configuration failed, are outside of the model.

## 7. Plan

Everything listed in section 2 is modelled, and every safety property that speaks of
more than one instance is proved. When the code changes, the module that maps the
changed lines (`PROJECT.json`) comes first, then its run, then its proofs. What would
extend the project: the second Ctrl-C in `Capture`; a frame whose IPv4 header length
is below 5 words in `FrameFields`; and, with a prover for liveness, `NoStarvation` and
`SigtermStops`, whose argument is the order of the loop's ready list.
