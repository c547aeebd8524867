------------------------------ MODULE Capture ------------------------------
(***************************************************************************)
(* Live capture: capture_async and its readers (capture.py), consumed by   *)
(* run() under _drive() (cli.py), on the asyncio event loop.               *)
(*                                                                         *)
(* Three parties interleave: the kernel, which queues frames and errors on *)
(* the sockets; signals; and the one loop thread, whose steps are those of *)
(* BaseEventLoop._run_once: select, then the callbacks that were ready     *)
(* before it in FIFO order (`batch`), then the reader callbacks of the     *)
(* descriptors it returned (`polled`).  Callbacks scheduled meanwhile      *)
(* (`soon`) wait for the next iteration.  The task that runs run() holds   *)
(* the thread from one suspension to the next.                             *)
(*                                                                         *)
(* Descriptor 0 is the loop's self-pipe, 1..NumSockets are the sockets in  *)
(* the order the code opens them.  The second Ctrl-C, which raises         *)
(* KeyboardInterrupt at an arbitrary bytecode, is not modelled.            *)
(***************************************************************************)
EXTENDS Naturals, Sequences

CONSTANTS
  NumSockets,  \* sockets capture_async opens
  Nics,        \* network interfaces of the machine
  AnyIface,    \* the interface name None: an unbound socket
  Iface,       \* interface each socket is to be bound to
  Filtered,    \* whether a filter program was given
  RxCap,       \* frames a socket's kernel receive queue holds
  Wrap,        \* frames are numbered modulo Wrap
  MaxSig       \* SIGTERM bytes the self-pipe holds at once

Sockets == 1 .. NumSockets

ASSUME CaptureAssumption ==
  /\ NumSockets \in Nat \ {0}
  /\ Nics # {} /\ AnyIface \notin Nics
  /\ Iface \in [Sockets -> Nics \cup {AnyIface}]
  /\ (\E s \in Sockets : Iface[s] = AnyIface) => NumSockets = 1
  /\ Filtered \in BOOLEAN
  /\ RxCap \in Nat \ {0}
  /\ Wrap \in Nat \ {0}
  /\ MaxSig \in Nat \ {0}

VARIABLES
  sock,        \* life of each socket
  rx,          \* its kernel receive queue
  fault,       \* its pending socket error (the interface went down)
  arrived,     \* number of the last frame it accepted during the capture
  task,        \* where run() and the generator under it are
  opening,     \* the socket the set-up loop is at
  stack,       \* the generator's ExitStack, top first
  queue,       \* the asyncio.Queue shared by the readers
  getter,      \* the future `await queue.get()` waits on
  mustCancel,  \* Task._must_cancel
  delivered,   \* number of the last frame given to the outputs, per socket
  soon, batch, polled, readers, loop,  \* the event loop
  sigBytes     \* SIGTERMs in the self-pipe, not read yet

kernel == <<sock, rx, fault, arrived>>
gen    == <<opening, stack, delivered>>
events == <<soon, batch, polled, readers, loop>>
vars   == <<kernel, gen, events, task, queue, getter, mustCancel, sigBytes>>

Ids      == 0 .. Wrap - 1
Frames   == [id : Ids, nic : Nics, match : BOOLEAN]
Items    == [sock : Sockets, err : BOOLEAN, frame : Frames]
Releases == [op : {"close", "remove_reader"}, sock : Sockets]
Handles  == {"step", "cancel", "drive", "stop", "agens", "aclose"}

\* The loop thread is inside the task (or inside the generator's aclose).
Busy == task \in {"setup", "body", "unwind", "aclose"}

\* Nothing will be delivered to the outputs any more.
Ended == task \in {"unwind", "aclose", "done"}

Live(s) == sock[s] \in {"created", "filtered", "open"}

Readable(s) == rx[s] # <<>> \/ fault[s]

-----------------------------------------------------------------------------
(* The kernel and the signals.                                             *)

\* A packet socket is live from socket() on: it queues the frames of every
\* interface until it is bound, and every frame until its filter is attached.
Admitted(s) ==
  [id    : {(arrived[s] + 1) % Wrap},
   nic   : IF sock[s] = "open" /\ Iface[s] # AnyIface THEN {Iface[s]} ELSE Nics,
   match : IF sock[s] = "created" /\ Filtered THEN BOOLEAN ELSE {TRUE}]

Arrive(s) ==
  /\ Live(s)
  /\ Len(rx[s]) < RxCap
  /\ \E f \in Admitted(s) : rx' = [rx EXCEPT ![s] = Append(@, f)]
  /\ arrived' = IF Ended THEN arrived ELSE [arrived EXCEPT ![s] = (@ + 1) % Wrap]
  /\ UNCHANGED <<sock, fault, gen, events, task, queue, getter, mustCancel,
                 sigBytes>>

\* The bound interface goes down; the next recvmsg reports it, once.
LinkDown(s) ==
  /\ sock[s] = "open"
  /\ Iface[s] # AnyIface
  /\ ~fault[s]
  /\ fault' = [fault EXCEPT ![s] = TRUE]
  /\ UNCHANGED <<sock, rx, arrived, gen, events, task, queue, getter,
                 mustCancel, sigBytes>>

\* While _drive's handler is installed, SIGTERM writes one byte to the pipe.
Sigterm ==
  /\ loop = "running"
  /\ sigBytes < MaxSig
  /\ sigBytes' = sigBytes + 1
  /\ UNCHANGED <<kernel, gen, events, task, queue, getter, mustCancel>>

\* Task.cancel(): a pending future is cancelled, which schedules the task;
\* otherwise the task is told to cancel itself when it next runs.
CancelTask ==
  IF task = "done" THEN UNCHANGED <<getter, mustCancel>> /\ soon' = soon
  ELSE IF getter = "pending"
       THEN /\ getter' = "cancelled"
            /\ soon' = Append(soon, "step")
            /\ UNCHANGED mustCancel
       ELSE mustCancel' = TRUE /\ UNCHANGED <<getter, soon>>

\* The first Ctrl-C: Runner's handler cancels the main task between two
\* bytecodes, and _drive's task passes that on to the task it awaits.
Sigint ==
  /\ loop = "running"
  /\ task \notin {"done", "aclose"}
  /\ CancelTask
  /\ UNCHANGED <<kernel, gen, batch, polled, readers, loop, task, queue,
                 sigBytes>>

-----------------------------------------------------------------------------
(* The event loop.                                                         *)

Ready == {s \in readers : Readable(s)} \cup (IF sigBytes > 0 THEN {0} ELSE {})

\* select(): every ready descriptor, perhaps a registered one spuriously.
Poll ==
  /\ ~Busy
  /\ batch = <<>> /\ polled = {}
  /\ loop \in {"running", "driven", "closing"}
  /\ \E spurious \in SUBSET readers :
       /\ polled' = Ready \cup spurious
       /\ soon # <<>> \/ polled' # {}
  /\ batch' = soon
  /\ soon' = <<>>
  /\ UNCHANGED <<kernel, gen, readers, loop, task, queue, getter, mustCancel,
                 sigBytes>>

\* The next callback of this iteration is h.
Runs(h) == ~Busy /\ batch # <<>> /\ Head(batch) = h /\ batch' = Tail(batch)

\* Queue.put_nowait wakes the waiting getter, if there is one.  Once the task
\* is done nobody gets from the queue again, and its contents are left out.
Put(item) ==
  /\ queue' = IF task = "done" THEN queue ELSE Append(queue, item)
  /\ IF getter = "pending"
     THEN getter' = "set" /\ soon' = Append(soon, "step")
     ELSE UNCHANGED <<getter, soon>>

ReaderTurn(s) == ~Busy /\ batch = <<>> /\ s \in polled /\ polled' = polled \ {s}

NoFrame == [id |-> 0, nic |-> CHOOSE n \in Nics : TRUE, match |-> TRUE]

\* recvmsg returns the socket's error, which comes first, or one frame, and
\* leaves `rest` of the receive queue.
Recv(s, rest) ==
  /\ ReaderTurn(s)
  /\ Readable(s)
  /\ IF fault[s]
     THEN /\ Put([sock |-> s, err |-> TRUE, frame |-> NoFrame])
          /\ fault' = [fault EXCEPT ![s] = FALSE]
          /\ UNCHANGED rx
     ELSE /\ Put([sock |-> s, err |-> FALSE, frame |-> Head(rx[s])])
          /\ rx' = [rx EXCEPT ![s] = rest]
          /\ UNCHANGED fault
  /\ UNCHANGED <<sock, arrived, gen, batch, readers, loop, task, mustCancel,
                 sigBytes>>

\* Mutant of OnReadable: the frame is read without being consumed.
OnReadablePeeks(s) == Recv(s, rx[s])

\* _on_readable: one frame or error goes onto the queue.
OnReadable(s) == Recv(s, Tail(rx[s]))

\* Mutant of OnReadableTransient: the interrupted read loses its frame.
OnReadableDrops(s) ==
  /\ ReaderTurn(s)
  /\ ~Readable(s) \/ sigBytes > 0
  /\ rx' = [rx EXCEPT ![s] = IF @ = <<>> THEN @ ELSE Tail(@)]
  /\ UNCHANGED <<sock, fault, arrived, gen, soon, batch, readers, loop, task,
                 queue, getter, mustCancel, sigBytes>>

\* Mutant of OnReadableTransient: the reader is not left registered.
OnReadableUnregisters(s) ==
  /\ ReaderTurn(s)
  /\ ~Readable(s) \/ sigBytes > 0
  /\ readers' = readers \ {s}
  /\ UNCHANGED <<kernel, gen, soon, batch, loop, task, queue, getter,
                 mustCancel, sigBytes>>

\* _on_readable returns on BlockingIOError (a spurious wakeup) and on
\* InterruptedError (a signal has just been delivered).
OnReadableTransient(s) ==
  /\ ReaderTurn(s)
  /\ ~Readable(s) \/ sigBytes > 0
  /\ UNCHANGED <<kernel, gen, soon, batch, readers, loop, task, queue, getter,
                 mustCancel, sigBytes>>

\* The self-pipe's reader schedules the SIGTERM handler once per byte; after
\* remove_signal_handler it ignores them.
ReadSelfPipe ==
  /\ ReaderTurn(0)
  /\ soon' = IF loop = "running"
             THEN soon \o [i \in 1 .. sigBytes |-> "cancel"] ELSE soon
  /\ sigBytes' = 0
  /\ UNCHANGED <<kernel, gen, batch, readers, loop, task, queue, getter,
                 mustCancel>>

\* The SIGTERM handler: task.cancel().
RunCancel ==
  /\ Runs("cancel")
  /\ CancelTask
  /\ UNCHANGED <<kernel, gen, polled, readers, loop, task, queue, sigBytes>>

-----------------------------------------------------------------------------
(* The task: run() and capture_async.                                      *)

\* Task.__step: CancelledError is thrown in if the task was cancelled (a
\* generator that has not started has nothing to unwind).
Cancelling == mustCancel \/ getter = "cancelled"

Finish == task' = "done" /\ soon' = Append(soon, "drive")

\* Mutant of RunStep: the generator catches the cancellation and goes on.
RunStepSwallows ==
  /\ Runs("step")
  /\ \/ task = "start" /\ task' = "setup"
     \/ task = "waiting" /\ task' = "body"
  /\ getter' = "none"
  /\ mustCancel' = FALSE
  /\ UNCHANGED <<kernel, gen, soon, polled, readers, loop, queue, sigBytes>>

RunStep ==
  /\ Runs("step")
  /\ \/ task = "start" /\ Cancelling /\ Finish
     \/ task = "start" /\ ~Cancelling /\ task' = "setup" /\ soon' = soon
     \/ task = "waiting" /\ Cancelling /\ task' = "unwind" /\ soon' = soon
     \/ task = "waiting" /\ ~Cancelling /\ task' = "body" /\ soon' = soon
  /\ getter' = "none"
  /\ mustCancel' = FALSE
  /\ UNCHANGED <<kernel, gen, polled, readers, loop, queue, sigBytes>>

SettingUp == task = "setup" /\ opening <= NumSockets

\* socket(PF_PACKET, SOCK_RAW, ETH_P_ALL)
CreateSocket ==
  /\ SettingUp
  /\ sock[opening] = "none"
  /\ sock' = [sock EXCEPT ![opening] = "created"]
  /\ UNCHANGED <<rx, fault, arrived, gen, events, task, queue, getter,
                 mustCancel, sigBytes>>

\* socket() raises PermissionError.
CreateSocketFails ==
  /\ SettingUp
  /\ sock[opening] = "none"
  /\ task' = "unwind"
  /\ UNCHANGED <<kernel, gen, events, queue, getter, mustCancel, sigBytes>>

AttachFilter ==
  /\ SettingUp
  /\ Filtered
  /\ sock[opening] = "created"
  /\ sock' = [sock EXCEPT ![opening] = "filtered"]
  /\ UNCHANGED <<rx, fault, arrived, gen, events, task, queue, getter,
                 mustCancel, sigBytes>>

\* bind (for a named interface), setblocking, then the reader is registered;
\* `releases` go onto the ExitStack.
RegisterWith(releases) ==
  /\ SettingUp
  /\ sock[opening] = IF Filtered THEN "filtered" ELSE "created"
  /\ sock' = [sock EXCEPT ![opening] = "open"]
  /\ stack' = releases \o stack
  /\ readers' = readers \cup {opening}
  /\ opening' = opening + 1
  /\ UNCHANGED <<rx, fault, arrived, delivered, soon, batch, polled, loop,
                 task, queue, getter, mustCancel, sigBytes>>

\* Mutants of BindAndRegister: the socket is entered after its reader was
\* registered; the socket is never entered.
RegisterReversed == RegisterWith(<<[op |-> "close", sock |-> opening],
                                   [op |-> "remove_reader", sock |-> opening]>>)
RegisterNotEntered == RegisterWith(<<[op |-> "remove_reader", sock |-> opening]>>)

\* enter_context(sock) comes first, so that it is released last.
BindAndRegister == RegisterWith(<<[op |-> "remove_reader", sock |-> opening],
                                  [op |-> "close", sock |-> opening]>>)

\* setsockopt or bind raises OSError inside _open_socket: the socket was
\* never entered into the stack: nothing here reads or closes it.
ConfigureFails ==
  /\ SettingUp
  /\ sock[opening] \in {"created", "filtered"}
  /\ sock' = [sock EXCEPT ![opening] = "orphan"]
  /\ rx' = [rx EXCEPT ![opening] = <<>>]
  /\ task' = "unwind"
  /\ UNCHANGED <<fault, arrived, gen, events, queue, getter, mustCancel,
                 sigBytes>>

SetupDone ==
  /\ task = "setup"
  /\ opening > NumSockets
  /\ task' = "body"
  /\ UNCHANGED <<kernel, gen, events, queue, getter, mustCancel, sigBytes>>

\* queue.get() does not suspend while the queue holds something: the frame
\* goes through decode_frame and every output's update at once.
Dispatch(id) ==
  /\ task = "body"
  /\ queue # <<>>
  /\ ~Head(queue).err
  /\ delivered' = [delivered EXCEPT ![Head(queue).sock] = id]
  /\ UNCHANGED <<kernel, opening, stack, batch, polled, readers, loop, sigBytes>>

\* Mutants of Take: the loop yields to the event loop after every frame; the
\* frame is counted one too high.
TakeAndYield ==
  /\ Dispatch(Head(queue).frame.id)
  /\ queue' = Tail(queue)
  /\ task' = "waiting" /\ getter' = "set" /\ soon' = Append(soon, "step")
  /\ UNCHANGED mustCancel

TakeMiscounts ==
  /\ Dispatch(Head(queue).frame.id + 1)
  /\ queue' = Tail(queue)
  /\ UNCHANGED <<task, getter, soon, mustCancel>>

Take ==
  /\ Dispatch(Head(queue).frame.id)
  /\ queue' = Tail(queue)
  /\ UNCHANGED <<task, getter, soon, mustCancel>>

\* An update raises: run() ends while the generator stays suspended at its
\* yield, its sockets and readers still registered.
TakeFails ==
  /\ Dispatch(Head(queue).frame.id)
  /\ queue' = <<>>
  /\ Finish
  /\ mustCancel' = FALSE
  /\ UNCHANGED getter

\* A read error is raised out of the generator.
TakeError ==
  /\ task = "body"
  /\ queue # <<>>
  /\ Head(queue).err
  /\ queue' = Tail(queue)
  /\ task' = "unwind"
  /\ UNCHANGED <<kernel, gen, events, getter, mustCancel, sigBytes>>

\* The queue is empty: the task awaits a new getter.  If it was cancelled
\* while it ran, the getter is cancelled on the spot.
Suspend ==
  /\ task = "body"
  /\ queue = <<>>
  /\ task' = "waiting"
  /\ IF mustCancel
     THEN getter' = "cancelled" /\ soon' = Append(soon, "step")
     ELSE getter' = "pending" /\ soon' = soon
  /\ mustCancel' = FALSE
  /\ UNCHANGED <<kernel, gen, batch, polled, readers, loop, queue, sigBytes>>

\* ExitStack.__exit__ runs the releases last in, first out.
Release ==
  /\ task \in {"unwind", "aclose"}
  /\ stack # <<>>
  /\ LET r == Head(stack) IN
       IF r.op = "close"
       THEN /\ sock' = [sock EXCEPT ![r.sock] = "closed"]
            /\ rx' = [rx EXCEPT ![r.sock] = <<>>]
            /\ fault' = [fault EXCEPT ![r.sock] = FALSE]
            /\ UNCHANGED <<readers, polled>>
       ELSE /\ readers' = readers \ {r.sock}
            /\ polled' = polled \ {r.sock}
            /\ UNCHANGED <<sock, rx, fault>>
  /\ stack' = Tail(stack)
  /\ UNCHANGED <<arrived, opening, delivered, soon, batch, loop, task, queue,
                 getter, mustCancel, sigBytes>>

\* The generator is finished and the exception leaves run().
Unwound ==
  /\ task = "unwind"
  /\ stack = <<>>
  /\ Finish
  /\ queue' = <<>>
  /\ mustCancel' = FALSE
  /\ UNCHANGED <<kernel, gen, batch, polled, readers, loop, getter, sigBytes>>

-----------------------------------------------------------------------------
(* The end of _drive and of asyncio.run.                                   *)

\* _drive's finally removes the SIGTERM handler, and the main task is done.
RunDrive ==
  /\ Runs("drive")
  /\ loop' = "driven"
  /\ soon' = Append(soon, "stop")
  /\ UNCHANGED <<kernel, gen, polled, readers, task, queue, getter, mustCancel,
                 sigBytes>>

RunStop ==
  /\ Runs("stop")
  /\ loop' = "stopping"
  /\ UNCHANGED <<kernel, gen, soon, polled, readers, task, queue, getter,
                 mustCancel, sigBytes>>

\* The iteration is over and run_until_complete returns; Runner.close then
\* runs the loop again for shutdown_asyncgens.
CloseRunner ==
  /\ loop = "stopping"
  /\ batch = <<>> /\ polled = {}
  /\ loop' = "closing"
  /\ soon' = Append(soon, "agens")
  /\ UNCHANGED <<kernel, gen, batch, polled, readers, task, queue, getter,
                 mustCancel, sigBytes>>

\* A generator still open gets an aclose() of its own, in the next iteration.
RunShutdownAsyncgens ==
  /\ Runs("agens")
  /\ IF stack = <<>>
     THEN loop' = "closed" /\ soon' = <<>> /\ polled' = {}
     ELSE soon' = Append(soon, "aclose") /\ UNCHANGED <<loop, polled>>
  /\ UNCHANGED <<kernel, gen, readers, task, queue, getter, mustCancel,
                 sigBytes>>

RunAclose ==
  /\ Runs("aclose")
  /\ task' = "aclose"
  /\ UNCHANGED <<kernel, gen, soon, polled, readers, loop, queue, getter,
                 mustCancel, sigBytes>>

Aclosed ==
  /\ task = "aclose"
  /\ stack = <<>>
  /\ task' = "done"
  /\ loop' = "closed"
  /\ soon' = <<>> /\ batch' = <<>> /\ polled' = {}
  /\ UNCHANGED <<kernel, gen, readers, queue, getter, mustCancel, sigBytes>>

Closed == loop = "closed" /\ UNCHANGED vars

-----------------------------------------------------------------------------

\* _drive has run up to `await task`.
Init ==
  /\ sock = [s \in Sockets |-> "none"]
  /\ rx = [s \in Sockets |-> <<>>]
  /\ fault = [s \in Sockets |-> FALSE]
  /\ arrived = [s \in Sockets |-> 0]
  /\ delivered = [s \in Sockets |-> 0]
  /\ task = "start"
  /\ opening = 1
  /\ stack = <<>>
  /\ queue = <<>>
  /\ getter = "none"
  /\ mustCancel = FALSE
  /\ soon = <<"step">> /\ batch = <<>> /\ polled = {} /\ readers = {}
  /\ loop = "running"
  /\ sigBytes = 0

Environment == Sigterm \/ Sigint \/ \E s \in Sockets : Arrive(s) \/ LinkDown(s)

LoopStep ==
  \/ Poll \/ ReadSelfPipe \/ RunCancel
  \/ \E s \in Sockets : OnReadable(s) \/ OnReadableTransient(s)
  \/ RunDrive \/ RunStop \/ CloseRunner \/ RunShutdownAsyncgens \/ RunAclose

TaskStep ==
  \/ RunStep
  \/ CreateSocket \/ CreateSocketFails \/ AttachFilter \/ BindAndRegister
  \/ ConfigureFails \/ SetupDone
  \/ Take \/ TakeFails \/ TakeError \/ Suspend
  \/ Release \/ Unwound \/ Aclosed

Next == Environment \/ LoopStep \/ TaskStep \/ Closed

\* The thread runs: each of its steps is a few bytecodes or a system call
\* that returns.  Nothing is assumed of the kernel, of frames or of signals.
Fairness == WF_vars(LoopStep \/ TaskStep)

Spec == Init /\ [][Next]_vars

FairSpec == Spec /\ Fairness

-----------------------------------------------------------------------------
(* Properties.                                                             *)

\* Every variable has its type.
TypeOK ==
  /\ sock \in [Sockets ->
               {"none", "created", "filtered", "open", "orphan", "closed"}]
  /\ rx \in [Sockets -> Seq(Frames)]
  /\ fault \in [Sockets -> BOOLEAN]
  /\ arrived \in [Sockets -> Ids]
  /\ delivered \in [Sockets -> Ids]
  /\ task \in {"start", "setup", "body", "waiting", "unwind", "aclose", "done"}
  /\ opening \in 1 .. NumSockets + 1
  /\ stack \in Seq(Releases)
  /\ queue \in Seq(Items)
  /\ getter \in {"none", "pending", "set", "cancelled"}
  /\ mustCancel \in BOOLEAN
  /\ soon \in Seq(Handles) /\ batch \in Seq(Handles)
  /\ polled \subseteq {0} \cup Sockets
  /\ readers \subseteq Sockets
  /\ loop \in {"running", "driven", "stopping", "closing", "closed"}
  /\ sigBytes \in 0 .. MaxSig

\* asyncio.Queue() is unbounded and put_nowait never refuses; still, as long
\* as run() lasts the queue never holds two items of one socket: a
\* reader that has pushed does not run again before the task has drained the
\* queue.  So at most NumSockets frames are buffered, and lost by a cancel.
QueuedOncePerSocket ==
  \A i, j \in 1 .. Len(queue) : queue[i].sock = queue[j].sock => i = j

\* A reader callback about to run belongs to a registered reader, and a
\* registered reader to an open socket: no callback uses a closed socket.
ReadersOnOpenSockets ==
  /\ polled \ {0} \subseteq readers
  /\ \A s \in readers : sock[s] = "open"

\* When asyncio.run returns, whatever ended the capture, no reader is left
\* and every socket is closed but the one whose configuration failed.
NothingLeftOpen ==
  loop = "closed" =>
    /\ readers = {}
    /\ \A s \in Sockets : sock[s] \in {"none", "closed", "orphan"}

FrameIds(seq) == [i \in 1 .. Len(seq) |-> seq[i].id]

\* The frame of s on the queue q: QueuedOncePerSocket says that there is at
\* most one.
Queued(q, s) == {i \in 1 .. Len(q) : q[i].sock = s /\ ~q[i].err}

QueuedIds(q, s) == IF Queued(q, s) = {} THEN <<>>
                   ELSE <<q[CHOOSE i \in Queued(q, s) : TRUE].frame.id>>

Pending == [s \in Sockets |->
              IF Ended THEN <<>> ELSE QueuedIds(queue, s) \o FrameIds(rx[s])]

Stream == INSTANCE FrameStream WITH
  Cap <- RxCap + 1, pending <- Pending, ended <- Ended

\* The capture implements the abstract stream: per socket, the outputs see
\* the frames in arrival order, none skipped, none twice, until it ends.
ImplementsStream == Stream!SafeSpec

\* While the capture lasts, the frames queued by the readers and by the
\* kernel are those after the last one delivered, in order, without a gap.
InOrder == Stream!Contiguous

\* No interface starves another: a frame in a socket's receive queue reaches
\* the outputs unless the capture ends, however busy the other sockets are.
NoStarvation == Stream!Progress

\* A SIGTERM taken by the handler ends the whole run, sockets closed, even
\* if frames never stop arriving.
SigtermStops == sigBytes > 0 ~> loop = "closed"

-----------------------------------------------------------------------------
(* The inductive invariants behind the theorems of CaptureProofs.          *)

Scheduled(h, handles) == \E i \in 1 .. Len(handles) : handles[i] = h

\* A task that waits on no pending future is about to be resumed, and
\* whatever is queued was queued after its readers' last turn.
WakeupInv ==
  /\ task = "waiting" =>
       getter = "pending" \/ Scheduled("step", batch) \/ Scheduled("step", soon)
  /\ task = "waiting" /\ ~Scheduled("step", batch) =>
       \A i \in 1 .. Len(queue) : queue[i].sock \notin polled
  /\ getter = "pending" => task = "waiting" /\ queue = <<>>

\* The queue is used only between the set-up and the end of the task.
IdleQueueInv ==
  /\ task \in {"start", "setup", "aclose", "done"} => queue = <<>>
  /\ task = "start" => readers = {} /\ polled \subseteq {0}

\* _drive and asyncio.run come to their end only after the task has.
AfterTaskInv ==
  /\ loop # "running" => task \in {"aclose", "done"}
  /\ \A h \in {"drive", "stop", "agens", "aclose"} :
       Scheduled(h, batch) \/ Scheduled(h, soon) => task \in {"aclose", "done"}

QueueInv == QueuedOncePerSocket /\ WakeupInv /\ IdleQueueInv /\ AfterTaskInv

OnStack(o, s) ==
  \E i \in 1 .. Len(stack) : stack[i].op = o /\ stack[i].sock = s

\* The ExitStack removes a socket's reader before it closes the socket, and
\* holds a release for every reader and every open socket.
StackInv ==
  /\ \A i \in 1 .. Len(stack) :
       stack[i].op = "close" /\ stack[i].sock \in readers =>
         \E j \in 1 .. i - 1 :
           stack[j].op = "remove_reader" /\ stack[j].sock = stack[i].sock
  /\ \A s \in readers : OnStack("remove_reader", s)
  /\ \A s \in Sockets : sock[s] = "open" => OnStack("close", s)
  /\ \A s \in Sockets : sock[s] \in {"created", "filtered"} =>
       task = "setup" /\ opening = s
  /\ loop = "closed" => stack = <<>>

ReleaseInv == ReadersOnOpenSockets /\ StackInv

\* The conjunction is inductive.
CaptureInv == TypeOK /\ QueueInv /\ ReleaseInv

-----------------------------------------------------------------------------
(* What the documentation says and the code does not keep.                 *)

\* "non-matching frames are dropped in the kernel and never reach userspace"
\* and "each frame tagged with the interface it actually arrived on"
\* (capture_async): a frame a reader reads matches the filter, or is at least
\* of the interface it is tagged with.  Either sentence implies it.
FilteredOrTagged ==
  \A i \in 1 .. Len(queue) :
    \/ queue[i].err
    \/ queue[i].frame.match
    \/ Iface[queue[i].sock] \in {AnyIface, queue[i].frame.nic}
=============================================================================
