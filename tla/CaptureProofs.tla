--------------------------- MODULE CaptureProofs ---------------------------
(***************************************************************************)
(* Theorems about Capture, for every number of sockets, every choice of    *)
(* interfaces, every receive-queue length and any number of signals.       *)
(***************************************************************************)
EXTENDS Capture, TLAPS

\* Wrapped frame numbers stay in range.
LEMMA NextId == \A n \in Ids : (n + 1) % Wrap \in Ids
  BY CaptureAssumption DEF Ids

\* The placeholder of an error item is a frame.
LEMMA NoFrameType == NoFrame \in Frames
<1>1. PICK m \in Nics : TRUE
  BY CaptureAssumption
<1>2. (CHOOSE n \in Nics : TRUE) \in Nics
  BY <1>1
<1>3. 0 \in Ids
  BY CaptureAssumption DEF Ids
<1> QED
  BY <1>2, <1>3 DEF NoFrame, Frames

\* Dropping the first element of a sequence shifts the others down.
LEMMA TailFacts ==
  ASSUME NEW S, NEW q \in Seq(S), q # <<>>
  PROVE  /\ Head(q) \in S
         /\ Head(q) = q[1]
         /\ Tail(q) \in Seq(S)
         /\ Len(q) \in Nat \ {0}
         /\ Len(Tail(q)) = Len(q) - 1
         /\ \A i \in 1 .. Len(Tail(q)) : Tail(q)[i] = q[i + 1]
  OBVIOUS

LEMMA AppendFacts ==
  ASSUME NEW S, NEW q \in Seq(S), NEW e \in S
  PROVE  /\ Append(q, e) \in Seq(S)
         /\ Len(q) \in Nat
         /\ Len(Append(q, e)) = Len(q) + 1
         /\ \A i \in 1 .. Len(q) : Append(q, e)[i] = q[i]
         /\ Append(q, e)[Len(q) + 1] = e
  OBVIOUS

-----------------------------------------------------------------------------
(* Types.                                                                  *)

LEMMA TypeInit == Init => TypeOK
<1> SUFFICES ASSUME Init PROVE TypeOK
  OBVIOUS
<1>1. 0 \in Ids /\ 1 \in 1 .. NumSockets + 1 /\ 0 \in 0 .. MaxSig
  BY CaptureAssumption DEF Ids
<1>2. soon \in Seq(Handles) /\ batch \in Seq(Handles)
  BY DEF Init, Handles
<1>3. fault \in [Sockets -> BOOLEAN] /\ mustCancel \in BOOLEAN
  BY DEF Init
<1> QED
  BY <1>1, <1>2, <1>3 DEF Init, TypeOK

\* The names of the callbacks.
LEMMA HandleNames ==
  \A h \in {"step", "cancel", "drive", "stop", "agens", "aclose"} : h \in Handles
  BY DEF Handles

\* Scheduling a callback keeps the callbacks a sequence.
LEMMA SoonType ==
  ASSUME TypeOK
  PROVE  \A h \in {"step", "cancel", "drive", "stop", "agens", "aclose"} :
           Append(soon, h) \in Seq(Handles)
  BY HandleNames, AppendFacts DEF TypeOK

LEMMA EmptyType ==
  <<>> \in Seq(Handles) /\ <<>> \in Seq(Items) /\ <<>> \in Seq(Frames)
  OBVIOUS

Getters == {"none", "pending", "set", "cancelled"}

LEMMA CancelType ==
  ASSUME TypeOK, CancelTask
  PROVE  soon' \in Seq(Handles) /\ mustCancel' \in BOOLEAN /\ getter' \in Getters
<1>1. soon' \in Seq(Handles)
  BY SoonType DEF CancelTask, TypeOK
<1>2. mustCancel' \in BOOLEAN
  BY DEF CancelTask, TypeOK
<1>3. getter' \in Getters
  BY DEF CancelTask, TypeOK, Getters
<1> QED
  BY <1>1, <1>2, <1>3

LEMMA TypeEnvironment == TypeOK /\ Environment => TypeOK'
<1> SUFFICES ASSUME TypeOK, Environment PROVE TypeOK'
  OBVIOUS
<1>1. CASE Sigterm
  BY <1>1, CaptureAssumption
     DEF Sigterm, TypeOK, kernel, gen, events
<1>2. CASE Sigint
  BY <1>2, CancelType DEF Sigint, TypeOK, Getters, kernel, gen
<1>3. ASSUME NEW s \in Sockets, Arrive(s) PROVE TypeOK'
  <2>1. PICK f \in Admitted(s) : rx' = [rx EXCEPT ![s] = Append(@, f)]
    BY <1>3 DEF Arrive
  <2>2. f \in Frames
    <3>1. (arrived[s] + 1) % Wrap \in Ids
      BY NextId DEF TypeOK
    <3>2. Iface[s] # AnyIface => Iface[s] \in Nics
      BY CaptureAssumption
    <3> QED
      BY <3>1, <3>2 DEF Admitted, Frames
  <2>3. rx' \in [Sockets -> Seq(Frames)]
    BY <2>1, <2>2 DEF TypeOK
  <2>4. arrived' \in [Sockets -> Ids]
    BY <1>3, NextId DEF Arrive, TypeOK
  <2> QED
    BY <1>3, <2>3, <2>4 DEF Arrive, TypeOK, gen, events
<1>4. ASSUME NEW s \in Sockets, LinkDown(s) PROVE TypeOK'
  BY <1>4 DEF LinkDown, TypeOK, gen, events
<1> QED
  BY <1>1, <1>2, <1>3, <1>4 DEF Environment

\* Running the next callback leaves a sequence of callbacks.
LEMMA RunsType ==
  ASSUME TypeOK, NEW h, Runs(h)
  PROVE  batch' \in Seq(Handles)
  BY TailFacts DEF Runs, TypeOK

LEMMA PutType ==
  ASSUME TypeOK, NEW item \in Items, Put(item)
  PROVE  queue' \in Seq(Items) /\ soon' \in Seq(Handles) /\ getter' \in Getters
<1>1. queue' \in Seq(Items)
  BY AppendFacts DEF Put, TypeOK
<1>2. soon' \in Seq(Handles)
  BY SoonType DEF Put, TypeOK
<1>3. getter' \in Getters
  BY DEF Put, TypeOK, Getters
<1> QED
  BY <1>1, <1>2, <1>3

LEMMA TypeLoopStep == TypeOK /\ LoopStep => TypeOK'
<1> SUFFICES ASSUME TypeOK, LoopStep PROVE TypeOK'
  OBVIOUS
<1>1. CASE Poll
  <2>1. polled' \subseteq {0} \cup Sockets
    BY <1>1 DEF Poll, Ready, TypeOK
  <2>2. batch' \in Seq(Handles) /\ soon' \in Seq(Handles)
    BY <1>1 DEF Poll, TypeOK
  <2> QED
    BY <1>1, <2>1, <2>2 DEF Poll, TypeOK, kernel, gen
<1>2. CASE ReadSelfPipe
  <2>1. [i \in 1 .. sigBytes |-> "cancel"] \in Seq(Handles)
    BY HandleNames DEF TypeOK
  <2>2. soon' \in Seq(Handles)
    BY <1>2, <2>1 DEF ReadSelfPipe, TypeOK
  <2> QED
    BY <1>2, <2>2, CaptureAssumption
       DEF ReadSelfPipe, ReaderTurn, TypeOK, kernel, gen
<1>3. CASE RunCancel
  BY <1>3, RunsType, CancelType DEF RunCancel, TypeOK, Getters, kernel, gen
<1>4. ASSUME NEW s \in Sockets, OnReadable(s) PROVE TypeOK'
  <2>1. Recv(s, Tail(rx[s]))
    BY <1>4 DEF OnReadable
  <2>2. CASE fault[s]
    <3>1. [sock |-> s, err |-> TRUE, frame |-> NoFrame] \in Items
      BY NoFrameType DEF Items
    <3>2. Put([sock |-> s, err |-> TRUE, frame |-> NoFrame])
      BY <2>1, <2>2 DEF Recv
    <3>3. queue' \in Seq(Items) /\ soon' \in Seq(Handles) /\ getter' \in Getters
      BY <3>1, <3>2, PutType
    <3>4. fault' \in [Sockets -> BOOLEAN] /\ rx' = rx
      BY <2>1, <2>2 DEF Recv, TypeOK
    <3> QED
      BY <2>1, <3>3, <3>4 DEF Recv, ReaderTurn, TypeOK, Getters, gen
  <2>3. CASE ~fault[s]
    <3>1. rx[s] \in Seq(Frames) /\ rx[s] # <<>>
      BY <2>1, <2>3 DEF Recv, Readable, TypeOK
    <3>2. Head(rx[s]) \in Frames /\ Tail(rx[s]) \in Seq(Frames)
      BY <3>1, TailFacts
    <3>3. [sock |-> s, err |-> FALSE, frame |-> Head(rx[s])] \in Items
      BY <3>2 DEF Items
    <3>4. Put([sock |-> s, err |-> FALSE, frame |-> Head(rx[s])])
      BY <2>1, <2>3 DEF Recv
    <3>5. queue' \in Seq(Items) /\ soon' \in Seq(Handles) /\ getter' \in Getters
      BY <3>3, <3>4, PutType
    <3>6. rx' \in [Sockets -> Seq(Frames)] /\ fault' = fault
      BY <2>1, <2>3, <3>2 DEF Recv, TypeOK
    <3> QED
      BY <2>1, <3>5, <3>6 DEF Recv, ReaderTurn, TypeOK, Getters, gen
  <2> QED
    BY <2>2, <2>3
<1>5. ASSUME NEW s \in Sockets, OnReadableTransient(s) PROVE TypeOK'
  BY <1>5 DEF OnReadableTransient, ReaderTurn, TypeOK, kernel, gen
<1>6. CASE RunDrive
  <2>1. soon' \in Seq(Handles)
    BY <1>6, SoonType DEF RunDrive, TypeOK
  <2> QED
    BY <1>6, <2>1, RunsType DEF RunDrive, TypeOK, kernel, gen
<1>7. CASE RunStop
  BY <1>7, RunsType DEF RunStop, TypeOK, kernel, gen
<1>8. CASE CloseRunner
  <2>1. soon' \in Seq(Handles)
    BY <1>8, SoonType DEF CloseRunner, TypeOK
  <2> QED
    BY <1>8, <2>1 DEF CloseRunner, TypeOK, kernel, gen
<1>9. CASE RunShutdownAsyncgens
  <2>1. soon' \in Seq(Handles)
    BY <1>9, SoonType, EmptyType DEF RunShutdownAsyncgens, TypeOK
  <2> QED
    BY <1>9, <2>1, RunsType DEF RunShutdownAsyncgens, TypeOK, kernel, gen
<1>10. CASE RunAclose
  BY <1>10, RunsType DEF RunAclose, TypeOK, kernel, gen
<1> QED
  BY <1>1, <1>2, <1>3, <1>4, <1>5, <1>6, <1>7, <1>8, <1>9, <1>10 DEF LoopStep

LEMMA TypeTaskStep == TypeOK /\ TaskStep => TypeOK'
<1> SUFFICES ASSUME TypeOK, TaskStep PROVE TypeOK'
  OBVIOUS
<1>0. ASSUME Finish
      PROVE  /\ task' \in {"start", "setup", "body", "waiting", "unwind",
                           "aclose", "done"}
             /\ soon' \in Seq(Handles)
  BY <1>0, SoonType DEF Finish, TypeOK
<1>1. CASE RunStep
  <2>1. /\ task' \in {"start", "setup", "body", "waiting", "unwind", "aclose",
                      "done"}
        /\ soon' \in Seq(Handles)
    BY <1>0, <1>1 DEF RunStep, TypeOK
  <2> QED
    BY <1>1, <2>1, RunsType DEF RunStep, TypeOK, kernel, gen
<1>2. CASE CreateSocket
  BY <1>2, CaptureAssumption
     DEF CreateSocket, SettingUp, Sockets, TypeOK, gen, events
<1>3. CASE CreateSocketFails
  BY <1>3 DEF CreateSocketFails, TypeOK, kernel, gen, events
<1>4. CASE AttachFilter
  BY <1>4 DEF AttachFilter, TypeOK, gen, events
<1>5. CASE BindAndRegister
  <2>1. opening \in Sockets /\ opening + 1 \in 1 .. NumSockets + 1
    BY <1>5, CaptureAssumption
       DEF BindAndRegister, RegisterWith, SettingUp, Sockets, TypeOK
  <2>2. <<[op |-> "remove_reader", sock |-> opening],
          [op |-> "close", sock |-> opening]>> \in Seq(Releases)
    BY <2>1 DEF Releases
  <2>3. stack' \in Seq(Releases)
    BY <1>5, <2>2 DEF BindAndRegister, RegisterWith, TypeOK
  <2> QED
    BY <1>5, <2>1, <2>3 DEF BindAndRegister, RegisterWith, TypeOK
<1>6. CASE ConfigureFails
  <2>1. rx' \in [Sockets -> Seq(Frames)]
    BY <1>6, EmptyType DEF ConfigureFails, TypeOK
  <2> QED
    BY <1>6, <2>1 DEF ConfigureFails, TypeOK, gen, events
<1>7. CASE SetupDone
  BY <1>7 DEF SetupDone, TypeOK, kernel, gen, events
<1>8. ASSUME Dispatch(Head(queue).frame.id)
      PROVE  /\ queue # <<>>
             /\ Tail(queue) \in Seq(Items)
             /\ delivered' \in [Sockets -> Ids]
  <2>1. queue # <<>>
    BY <1>8 DEF Dispatch
  <2>2. Head(queue) \in Items /\ Tail(queue) \in Seq(Items)
    BY <2>1, TailFacts DEF TypeOK
  <2> QED
    BY <1>8, <2>1, <2>2 DEF Dispatch, TypeOK, Items, Frames
<1>9. CASE Take
  BY <1>8, <1>9 DEF Take, Dispatch, TypeOK, kernel
<1>10. CASE TakeFails
  <2>1. queue' \in Seq(Items) /\ mustCancel' \in BOOLEAN
    BY <1>10, EmptyType DEF TakeFails
  <2>2. Dispatch(Head(queue).frame.id) /\ Finish /\ getter' = getter
    BY <1>10 DEF TakeFails
  <2> QED
    BY <1>0, <1>8, <2>1, <2>2 DEF Dispatch, TypeOK, kernel
<1>11. CASE TakeError
  <2>1. queue' \in Seq(Items)
    BY <1>11, TailFacts DEF TakeError, TypeOK
  <2> QED
    BY <1>11, <2>1 DEF TakeError, TypeOK, kernel, gen, events
<1>12. CASE Suspend
  <2>1. soon' \in Seq(Handles)
    BY <1>12, SoonType DEF Suspend, TypeOK
  <2> QED
    BY <1>12, <2>1 DEF Suspend, TypeOK, kernel, gen
<1>13. CASE Release
  <2>1. stack # <<>>
    BY <1>13 DEF Release
  <2>2. Head(stack) \in Releases /\ stack' \in Seq(Releases)
    BY <1>13, <2>1, TailFacts DEF Release, TypeOK
  <2>3. CASE Head(stack).op = "close"
    <3>1. /\ sock' = [sock EXCEPT ![Head(stack).sock] = "closed"]
          /\ rx' = [rx EXCEPT ![Head(stack).sock] = <<>>]
          /\ fault' = [fault EXCEPT ![Head(stack).sock] = FALSE]
          /\ readers' = readers /\ polled' = polled
      BY <1>13, <2>3 DEF Release
    <3>2. rx' \in [Sockets -> Seq(Frames)]
      BY <3>1, EmptyType DEF TypeOK
    <3>3. fault' \in [Sockets -> BOOLEAN]
      BY <3>1 DEF TypeOK
    <3> QED
      BY <1>13, <2>2, <3>1, <3>2, <3>3 DEF Release, TypeOK
  <2>4. CASE Head(stack).op # "close"
    BY <1>13, <2>2, <2>4 DEF Release, TypeOK
  <2> QED
    BY <2>3, <2>4
<1>14. CASE Unwound
  <2>1. queue' \in Seq(Items) /\ mustCancel' \in BOOLEAN
    BY <1>14, EmptyType DEF Unwound
  <2>2. Finish
    BY <1>14 DEF Unwound
  <2> QED
    BY <1>0, <1>14, <2>1, <2>2 DEF Unwound, TypeOK, kernel, gen
<1>15. CASE Aclosed
  BY <1>15 DEF Aclosed, TypeOK, kernel, gen
<1> QED
  BY <1>1, <1>2, <1>3, <1>4, <1>5, <1>6, <1>7, <1>9, <1>10, <1>11, <1>12,
     <1>13, <1>14, <1>15 DEF TaskStep

LEMMA TypeNext == TypeOK /\ [Next]_vars => TypeOK'
<1>1. TypeOK /\ UNCHANGED vars => TypeOK'
  BY DEF TypeOK, vars, kernel, gen, events
<1> QED
  BY <1>1, TypeEnvironment, TypeLoopStep, TypeTaskStep DEF Next, Closed

\* Every variable keeps its type: the event loop's callbacks, the task and
\* the kernel never bring the capture into a state the code has no name for.
THEOREM TypeCorrect == Spec => []TypeOK
  BY TypeInit, TypeNext, PTL DEF Spec

-----------------------------------------------------------------------------
(* At most one item of each socket is queued.                              *)

After == {"drive", "stop", "agens", "aclose"}

LEMMA ScheduledEmpty == \A h : ~Scheduled(h, <<>>)
  BY DEF Scheduled

LEMMA ScheduledAppend ==
  ASSUME NEW q \in Seq(Handles), NEW e \in Handles, NEW h
  PROVE  Scheduled(h, Append(q, e)) <=> Scheduled(h, q) \/ h = e
<1>1. CASE h = e
  BY <1>1, AppendFacts DEF Scheduled
<1>2. ASSUME h # e, Scheduled(h, q) PROVE Scheduled(h, Append(q, e))
  BY <1>2, AppendFacts DEF Scheduled
<1>3. ASSUME h # e, Scheduled(h, Append(q, e)) PROVE Scheduled(h, q)
  BY <1>3, AppendFacts DEF Scheduled
<1> QED
  BY <1>1, <1>2, <1>3

LEMMA ScheduledTail ==
  ASSUME NEW q \in Seq(Handles), q # <<>>, NEW h
  PROVE  /\ Scheduled(h, Tail(q)) => Scheduled(h, q)
         /\ Scheduled(h, q) /\ Head(q) # h => Scheduled(h, Tail(q))
<1>1. ASSUME Scheduled(h, Tail(q)) PROVE Scheduled(h, q)
  <2>1. PICK i \in 1 .. Len(Tail(q)) : Tail(q)[i] = h
    BY <1>1 DEF Scheduled
  <2>2. i + 1 \in 1 .. Len(q) /\ q[i + 1] = h
    BY <2>1, TailFacts
  <2> QED
    BY <2>2 DEF Scheduled
<1>2. ASSUME Scheduled(h, q), Head(q) # h PROVE Scheduled(h, Tail(q))
  <2>1. PICK i \in 1 .. Len(q) : q[i] = h
    BY <1>2 DEF Scheduled
  <2>2. i - 1 \in 1 .. Len(Tail(q)) /\ Tail(q)[i - 1] = h
    BY <1>2, <2>1, TailFacts
  <2> QED
    BY <2>2 DEF Scheduled
<1> QED
  BY <1>1, <1>2

\* Appending callbacks that are all "cancel" schedules no other one.
LEMMA ScheduledCancels ==
  ASSUME NEW q \in Seq(Handles), NEW n \in Nat, NEW h, h # "cancel"
  PROVE  Scheduled(h, q \o [i \in 1 .. n |-> "cancel"]) <=> Scheduled(h, q)
<1> DEFINE c == [i \in 1 .. n |-> "cancel"]
<1>1. c \in Seq(Handles) /\ Len(c) = n
  BY HandleNames
<1>2. /\ Len(q \o c) = Len(q) + n
      /\ Len(q) \in Nat
      /\ \A i \in 1 .. Len(q) + n :
           (q \o c)[i] = IF i <= Len(q) THEN q[i] ELSE "cancel"
  BY <1>1
<1> QED
  BY <1>2 DEF Scheduled

\* Queues without two items of one socket.
Unique(q) == \A i, j \in 1 .. Len(q) : q[i].sock = q[j].sock => i = j

LEMMA UniqueTail ==
  ASSUME NEW q \in Seq(Items), q # <<>>, Unique(q)
  PROVE  Unique(Tail(q))
<1> SUFFICES ASSUME NEW i \in 1 .. Len(Tail(q)), NEW j \in 1 .. Len(Tail(q)),
                    Tail(q)[i].sock = Tail(q)[j].sock
             PROVE  i = j
  BY DEF Unique
<1>1. /\ Tail(q)[i] = q[i + 1] /\ Tail(q)[j] = q[j + 1]
      /\ i + 1 \in 1 .. Len(q) /\ j + 1 \in 1 .. Len(q)
  BY TailFacts
<1>2. i + 1 = j + 1
  BY <1>1 DEF Unique
<1> QED
  BY <1>2

LEMMA UniqueAppend ==
  ASSUME NEW q \in Seq(Items), NEW e \in Items, Unique(q),
         \A i \in 1 .. Len(q) : q[i].sock # e.sock
  PROVE  Unique(Append(q, e))
<1> SUFFICES ASSUME NEW i \in 1 .. Len(q) + 1, NEW j \in 1 .. Len(q) + 1,
                    Append(q, e)[i].sock = Append(q, e)[j].sock
             PROVE  i = j
  BY AppendFacts DEF Unique
<1>1. CASE i = Len(q) + 1 /\ j = Len(q) + 1
  BY <1>1
<1>2. CASE i # Len(q) + 1 /\ j # Len(q) + 1
  BY <1>2, AppendFacts DEF Unique
<1>3. CASE i = Len(q) + 1 /\ j # Len(q) + 1
  BY <1>3, AppendFacts
<1>4. CASE i # Len(q) + 1 /\ j = Len(q) + 1
  BY <1>4, AppendFacts
<1> QED
  BY <1>1, <1>2, <1>3, <1>4

LEMMA UniqueIsQueuedOnce == QueuedOncePerSocket <=> Unique(queue)
  BY DEF QueuedOncePerSocket, Unique

LEMMA QInit == Init => QueueInv
<1> SUFFICES ASSUME Init PROVE QueueInv
  OBVIOUS
<1>1. \A h \in After : ~Scheduled(h, batch) /\ ~Scheduled(h, soon)
  BY DEF Init, Scheduled, After
<1> QED
  BY <1>1 DEF Init, QueueInv, QueuedOncePerSocket, WakeupInv, IdleQueueInv,
     AfterTaskInv, After

\* Steps of the kernel and of the set-up that the queue does not see.
LEMMA QUnchanged ==
  ASSUME QueueInv, UNCHANGED <<task, queue, getter, events>>
  PROVE  QueueInv'
  BY DEF QueueInv, QueuedOncePerSocket, WakeupInv, IdleQueueInv, AfterTaskInv,
     Scheduled, events

\* Cancelling the task schedules it if it was waiting.
LEMMA CancelFacts ==
  ASSUME TypeOK, CancelTask
  PROVE  /\ getter = "pending" /\ task # "done" =>
              getter' = "cancelled" /\ Scheduled("step", soon')
         /\ getter' = "pending" => getter = "pending" /\ task = "done"
         /\ \A h \in After \cup {"step"} : Scheduled(h, soon) => Scheduled(h, soon')
         /\ \A h \in After : Scheduled(h, soon') => Scheduled(h, soon)
<1>1. \A h : Scheduled(h, Append(soon, "step")) <=> Scheduled(h, soon) \/ h = "step"
  BY HandleNames, ScheduledAppend DEF TypeOK
<1>2. \A h \in After : h # "step"
  BY DEF After
<1> QED
  BY <1>1, <1>2 DEF CancelTask, TypeOK

LEMMA QSigint ==
  ASSUME TypeOK, QueueInv, Sigint
  PROVE  QueueInv'
<1>1. /\ CancelTask
      /\ UNCHANGED <<batch, polled, readers, loop, task, queue>>
      /\ task # "done"
  BY DEF Sigint
<1>2. WakeupInv'
  BY <1>1, CancelFacts DEF QueueInv, WakeupInv, TypeOK
<1>3. AfterTaskInv'
  BY <1>1, CancelFacts DEF QueueInv, AfterTaskInv, After
<1> QED
  BY <1>1, <1>2, <1>3 DEF QueueInv, QueuedOncePerSocket, IdleQueueInv

\* Running a callback other than the task's takes only that one away.
LEMMA RunsFacts ==
  ASSUME TypeOK, NEW h \in Handles, h # "step", Runs(h)
  PROVE  /\ Scheduled("step", batch) <=> Scheduled("step", batch')
         /\ \A k : Scheduled(k, batch') => Scheduled(k, batch)
         /\ Scheduled(h, batch)
         /\ ~Busy
<1>1. batch \in Seq(Handles) /\ batch # <<>> /\ Head(batch) = h
      /\ batch' = Tail(batch) /\ ~Busy
  BY DEF Runs, TypeOK
<1>2. Scheduled(h, batch)
  BY <1>1, TailFacts DEF Scheduled
<1> QED
  BY <1>1, <1>2, ScheduledTail

LEMMA QRunCancel ==
  ASSUME TypeOK, QueueInv, RunCancel
  PROVE  QueueInv'
<1>1. /\ CancelTask /\ Runs("cancel")
      /\ UNCHANGED <<polled, readers, loop, task, queue>>
  BY DEF RunCancel
<1>2. /\ Scheduled("step", batch) <=> Scheduled("step", batch')
      /\ \A k : Scheduled(k, batch') => Scheduled(k, batch)
  BY <1>1, RunsFacts, HandleNames
<1>3. WakeupInv'
  BY <1>1, <1>2, CancelFacts DEF QueueInv, WakeupInv, TypeOK
<1>4. AfterTaskInv'
  BY <1>1, <1>2, CancelFacts DEF QueueInv, AfterTaskInv, After
<1> QED
  BY <1>1, <1>3, <1>4 DEF QueueInv, QueuedOncePerSocket, IdleQueueInv

\* The callbacks that follow the end of the task find it ended.
LEMMA QAfter ==
  ASSUME TypeOK, QueueInv, NEW h \in After, Runs(h)
  PROVE  task = "done"
<1>1. Scheduled(h, batch) /\ ~Busy
  BY RunsFacts, HandleNames DEF After
<1> QED
  BY <1>1 DEF QueueInv, AfterTaskInv, After, Busy

LEMMA QPoll ==
  ASSUME TypeOK, QueueInv, Poll
  PROVE  QueueInv'
<1>1. /\ batch = <<>> /\ batch' = soon /\ soon' = <<>>
      /\ UNCHANGED <<readers, loop, task, queue, getter>>
      /\ polled' \subseteq readers \cup {0}
  BY DEF Poll, Ready
<1>2. \A k : ~Scheduled(k, batch) /\ ~Scheduled(k, soon')
             /\ (Scheduled(k, batch') <=> Scheduled(k, soon))
  BY <1>1, ScheduledEmpty
<1>3. WakeupInv'
  BY <1>1, <1>2 DEF QueueInv, WakeupInv
<1>4. IdleQueueInv'
  BY <1>1 DEF QueueInv, IdleQueueInv
<1>5. AfterTaskInv'
  BY <1>1, <1>2 DEF QueueInv, AfterTaskInv
<1> QED
  BY <1>1, <1>3, <1>4, <1>5 DEF QueueInv, QueuedOncePerSocket

LEMMA QReadSelfPipe ==
  ASSUME TypeOK, QueueInv, ReadSelfPipe
  PROVE  QueueInv'
<1>1. /\ UNCHANGED <<batch, readers, loop, task, queue, getter>>
      /\ polled' = polled \ {0}
      /\ soon' = IF loop = "running"
                 THEN soon \o [i \in 1 .. sigBytes |-> "cancel"] ELSE soon
  BY DEF ReadSelfPipe, ReaderTurn
<1>2. sigBytes \in Nat /\ soon \in Seq(Handles)
  BY CaptureAssumption DEF TypeOK
<1>3. \A k \in After \cup {"step"} : Scheduled(k, soon') <=> Scheduled(k, soon)
  BY <1>1, <1>2, ScheduledCancels DEF After
<1>4. WakeupInv'
  BY <1>1, <1>3 DEF QueueInv, WakeupInv
<1>5. AfterTaskInv'
  BY <1>1, <1>3 DEF QueueInv, AfterTaskInv, After
<1>6. IdleQueueInv'
  BY <1>1 DEF QueueInv, IdleQueueInv
<1> QED
  BY <1>1, <1>4, <1>5, <1>6 DEF QueueInv, QueuedOncePerSocket

\* A reader pushes: it had its turn, so nothing of its socket is queued yet.
LEMMA QPut ==
  ASSUME TypeOK, QueueInv, NEW s \in Sockets, ReaderTurn(s),
         NEW item \in Items, item.sock = s, Put(item),
         UNCHANGED <<batch, readers, loop, task>>
  PROVE  QueueInv'
<1>1. /\ ~Busy /\ batch = <<>> /\ s \in polled /\ polled' = polled \ {s}
      /\ ~Scheduled("step", batch)
  BY ScheduledEmpty DEF ReaderTurn
<1>2. s # 0
  BY DEF Sockets
<1>3. task \in {"waiting", "done"}
  BY <1>1, <1>2 DEF QueueInv, IdleQueueInv, Busy, TypeOK
<1>4. CASE task = "done"
  BY <1>1, <1>4 DEF QueueInv, QueuedOncePerSocket, WakeupInv, IdleQueueInv,
     AfterTaskInv, Put
<1>5. CASE task = "waiting"
  <2>1. queue' = Append(queue, item) /\ queue \in Seq(Items)
    BY <1>5 DEF Put, TypeOK
  <2>2. \A i \in 1 .. Len(queue) : queue[i].sock \notin polled
    BY <1>1, <1>5 DEF QueueInv, WakeupInv
  <2>3. QueuedOncePerSocket'
    <3>1. \A i \in 1 .. Len(queue) : queue[i].sock # item.sock
      BY <1>1, <2>2
    <3>2. Unique(Append(queue, item))
      BY <2>1, <3>1, UniqueAppend, UniqueIsQueuedOnce DEF QueueInv
    <3> QED
      BY <2>1, <3>2 DEF QueuedOncePerSocket, Unique
  <2>4. \A i \in 1 .. Len(queue') : queue'[i].sock \notin polled'
    BY <1>1, <2>1, <2>2, AppendFacts
  <2>5. \A k : Scheduled(k, Append(soon, "step")) <=> Scheduled(k, soon) \/ k = "step"
    BY HandleNames, ScheduledAppend DEF TypeOK
  <2>6. /\ getter' # "pending"
        /\ Scheduled("step", soon')
        /\ \A k \in After : Scheduled(k, soon') => Scheduled(k, soon)
    BY <1>1, <1>5, <2>5 DEF Put, QueueInv, WakeupInv, After
  <2>7. WakeupInv'
    BY <2>4, <2>6, <1>5 DEF WakeupInv
  <2>8. AfterTaskInv'
    BY <2>6 DEF QueueInv, AfterTaskInv, After
  <2> QED
    BY <1>5, <2>3, <2>7, <2>8 DEF QueueInv, IdleQueueInv
<1> QED
  BY <1>3, <1>4, <1>5

LEMMA QOnReadable ==
  ASSUME TypeOK, QueueInv, NEW s \in Sockets, OnReadable(s)
  PROVE  QueueInv'
<1>1. Recv(s, Tail(rx[s]))
  BY DEF OnReadable
<1>2. ReaderTurn(s) /\ UNCHANGED <<batch, readers, loop, task>>
  BY <1>1 DEF Recv
<1>3. CASE fault[s]
  <2> DEFINE item == [sock |-> s, err |-> TRUE, frame |-> NoFrame]
  <2>1. item \in Items /\ item.sock = s
    BY NoFrameType DEF Items
  <2>2. Put(item)
    BY <1>1, <1>3 DEF Recv
  <2> HIDE DEF item
  <2> QED
    BY <1>2, <2>1, <2>2, QPut
<1>4. CASE ~fault[s]
  <2> DEFINE item == [sock |-> s, err |-> FALSE, frame |-> Head(rx[s])]
  <2>1. rx[s] \in Seq(Frames) /\ rx[s] # <<>>
    BY <1>1, <1>4 DEF Recv, Readable, TypeOK
  <2>2. Head(rx[s]) \in Frames
    BY <2>1, TailFacts
  <2>3. item \in Items /\ item.sock = s
    BY <2>2 DEF Items
  <2>4. Put(item)
    BY <1>1, <1>4 DEF Recv
  <2> HIDE DEF item
  <2> QED
    BY <1>2, <2>3, <2>4, QPut
<1> QED
  BY <1>3, <1>4

\* Once the task is done the queue is empty for good.
LEMMA QDone ==
  ASSUME TypeOK, QueueInv, task = "done", task' \in {"done", "aclose"}, queue' = queue,
         getter' = getter
  PROVE  QueueInv'
  BY DEF QueueInv, QueuedOncePerSocket, WakeupInv, IdleQueueInv, AfterTaskInv

LEMMA QLoopStep ==
  ASSUME TypeOK, QueueInv, LoopStep
  PROVE  QueueInv'
<1>1. ASSUME NEW s \in Sockets, OnReadableTransient(s) PROVE QueueInv'
  BY <1>1 DEF OnReadableTransient, ReaderTurn, QueueInv, QueuedOncePerSocket,
     WakeupInv, IdleQueueInv, AfterTaskInv, Scheduled
<1>2. CASE RunDrive
  BY <1>2, QAfter, QDone DEF RunDrive, After
<1>3. CASE RunStop
  BY <1>3, QAfter, QDone DEF RunStop, After
<1>4. CASE CloseRunner
  <2>1. task \in {"aclose", "done"}
    BY <1>4 DEF CloseRunner, QueueInv, AfterTaskInv
  <2> QED
    BY <1>4, <2>1 DEF CloseRunner, QueueInv, QueuedOncePerSocket, WakeupInv,
       IdleQueueInv, AfterTaskInv
<1>5. CASE RunShutdownAsyncgens
  BY <1>5, QAfter, QDone DEF RunShutdownAsyncgens, After
<1>6. CASE RunAclose
  BY <1>6, QAfter, QDone DEF RunAclose, After
<1> QED
  BY <1>1, <1>2, <1>3, <1>4, <1>5, <1>6, QPoll, QReadSelfPipe, QRunCancel,
     QOnReadable DEF LoopStep

\* A step of the task that leaves it running, or unwinding, with no more
\* items than it had.
LEMMA QBusy ==
  ASSUME QueueInv, task \in {"setup", "body", "unwind"},
         task' \in {"setup", "body", "unwind"},
         UNCHANGED <<getter, soon, batch, loop>>,
         QueuedOncePerSocket', task' = "setup" => queue' = queue /\ task = "setup"
  PROVE  QueueInv'
  BY DEF QueueInv, WakeupInv, IdleQueueInv, AfterTaskInv, Scheduled

\* A step that ends the task.
LEMMA QFinish ==
  ASSUME task' = "done", queue' = <<>>, getter' # "pending"
  PROVE  QueueInv'
  BY DEF QueueInv, QueuedOncePerSocket, WakeupInv, IdleQueueInv, AfterTaskInv

LEMMA QRunStep ==
  ASSUME TypeOK, QueueInv, RunStep
  PROVE  QueueInv'
<1>1. /\ batch \in Seq(Handles) /\ batch # <<>> /\ batch' = Tail(batch)
      /\ getter' = "none" /\ UNCHANGED <<polled, readers, loop, queue>>
  BY DEF RunStep, Runs, TypeOK, gen
<1>2. CASE task' = "done"
  <2>1. task = "start"
    BY <1>2 DEF RunStep, Finish
  <2> QED
    BY <1>1, <1>2, <2>1, QFinish DEF QueueInv, IdleQueueInv
<1>3. CASE task' # "done"
  <2>1. /\ soon' = soon
        /\ \/ task = "start" /\ task' = "setup"
           \/ task = "waiting" /\ task' \in {"body", "unwind"}
    BY <1>3 DEF RunStep, Finish
  <2>2. \A k : Scheduled(k, batch') => Scheduled(k, batch)
    BY <1>1, ScheduledTail
  <2>3. AfterTaskInv'
    BY <1>1, <2>1, <2>2 DEF QueueInv, AfterTaskInv
  <2>4. WakeupInv'
    BY <1>1, <2>1 DEF WakeupInv
  <2>5. IdleQueueInv'
    BY <1>1, <2>1 DEF QueueInv, IdleQueueInv
  <2> QED
    BY <1>1, <2>3, <2>4, <2>5 DEF QueueInv, QueuedOncePerSocket
<1> QED
  BY <1>2, <1>3

LEMMA QTaskStep ==
  ASSUME TypeOK, QueueInv, TaskStep
  PROVE  QueueInv'
<1>0. ASSUME queue # <<>>, queue' = Tail(queue) PROVE QueuedOncePerSocket'
  <2>1. Unique(queue) /\ queue \in Seq(Items)
    BY UniqueIsQueuedOnce DEF QueueInv, TypeOK
  <2>2. Unique(Tail(queue))
    BY <1>0, <2>1, UniqueTail
  <2> QED
    BY <1>0, <2>2 DEF QueuedOncePerSocket, Unique
<1>1. CASE RunStep
  BY <1>1, QRunStep
<1>2. CASE CreateSocket \/ AttachFilter
  BY <1>2, QUnchanged DEF CreateSocket, AttachFilter
<1>3. CASE CreateSocketFails \/ ConfigureFails \/ SetupDone
  <2>1. /\ task = "setup" /\ task' \in {"unwind", "body"} /\ queue' = queue
        /\ UNCHANGED <<getter, soon, batch, loop>>
    BY <1>3 DEF CreateSocketFails, ConfigureFails, SetupDone, SettingUp, events
  <2> QED
    BY <2>1, QBusy DEF QueueInv, QueuedOncePerSocket
<1>4. CASE BindAndRegister
  <2>1. /\ task = "setup" /\ task' = "setup" /\ queue' = queue
        /\ UNCHANGED <<getter, soon, batch, loop>>
    BY <1>4 DEF BindAndRegister, RegisterWith, SettingUp
  <2> QED
    BY <2>1, QBusy DEF QueueInv, QueuedOncePerSocket
<1>5. CASE Take
  <2>1. /\ task = "body" /\ task' = "body" /\ queue # <<>>
        /\ queue' = Tail(queue) /\ UNCHANGED <<getter, soon, batch, loop>>
    BY <1>5 DEF Take, Dispatch
  <2> QED
    BY <1>0, <2>1, QBusy
<1>6. CASE TakeFails
  BY <1>6, QFinish DEF TakeFails, Dispatch, Finish, QueueInv, WakeupInv
<1>7. CASE TakeError
  <2>1. /\ task = "body" /\ task' = "unwind" /\ queue # <<>>
        /\ queue' = Tail(queue) /\ UNCHANGED <<getter, soon, batch, loop>>
    BY <1>7 DEF TakeError, events
  <2> QED
    BY <1>0, <2>1, QBusy
<1>8. CASE Suspend
  <2>1. /\ task = "body" /\ queue = <<>> /\ task' = "waiting" /\ queue' = queue
        /\ UNCHANGED <<batch, polled, readers, loop>>
        /\ \/ getter' = "cancelled" /\ soon' = Append(soon, "step")
           \/ getter' = "pending" /\ soon' = soon
    BY <1>8 DEF Suspend
  <2>2. \A k : Scheduled(k, Append(soon, "step")) <=> Scheduled(k, soon) \/ k = "step"
    BY HandleNames, ScheduledAppend DEF TypeOK
  <2>3. WakeupInv'
    <3>1. queue' = <<>> /\ \A i \in 1 .. Len(queue') : FALSE
      BY <2>1
    <3>2. getter' = "pending" \/ Scheduled("step", soon')
      BY <2>1, <2>2
    <3> QED
      BY <2>1, <3>1, <3>2 DEF WakeupInv
  <2>4. AfterTaskInv'
    BY <2>1, <2>2 DEF QueueInv, AfterTaskInv
  <2> QED
    BY <2>1, <2>3, <2>4 DEF QueueInv, QueuedOncePerSocket, IdleQueueInv
<1>9. CASE Release
  <2>1. /\ task \in {"unwind", "aclose"} /\ task' = task /\ queue' = queue
        /\ UNCHANGED <<getter, soon, batch, loop>>
    BY <1>9 DEF Release
  <2>2. CASE task = "unwind"
    BY <2>1, <2>2, QBusy DEF QueueInv, QueuedOncePerSocket
  <2>3. CASE task = "aclose"
    BY <2>1, <2>3 DEF QueueInv, QueuedOncePerSocket, WakeupInv, IdleQueueInv,
       AfterTaskInv
  <2> QED
    BY <2>1, <2>2, <2>3
<1>10. CASE Unwound
  BY <1>10, QFinish DEF Unwound, Finish, QueueInv, WakeupInv
<1>11. CASE Aclosed
  BY <1>11, QFinish DEF Aclosed, QueueInv, WakeupInv, IdleQueueInv
<1> QED
  BY <1>1, <1>2, <1>3, <1>4, <1>5, <1>6, <1>7, <1>8, <1>9, <1>10, <1>11
     DEF TaskStep

LEMMA QNext == TypeOK /\ QueueInv /\ [Next]_vars => QueueInv'
<1> SUFFICES ASSUME TypeOK, QueueInv, [Next]_vars PROVE QueueInv'
  OBVIOUS
<1>1. CASE UNCHANGED vars
  BY <1>1, QUnchanged DEF vars, events
<1>2. ASSUME NEW s \in Sockets, Arrive(s) \/ LinkDown(s) PROVE QueueInv'
  BY <1>2, QUnchanged DEF Arrive, LinkDown
<1>3. CASE Sigterm
  BY <1>3, QUnchanged DEF Sigterm
<1> QED
  BY <1>1, <1>2, <1>3, QSigint, QLoopStep, QTaskStep
     DEF Next, Environment, Closed

\* asyncio.Queue() has no bound and put_nowait never refuses, yet the queue
\* of capture_async never holds two items of one socket, however fast frames
\* arrive and however many sockets there are: its length is at most the
\* number of interfaces, and that is what a cancellation can lose.
THEOREM QueueBounded == Spec => []QueuedOncePerSocket
<1>1. Init => TypeOK /\ QueueInv
  BY TypeInit, QInit
<1>2. TypeOK /\ QueueInv /\ [Next]_vars => (TypeOK /\ QueueInv)'
  BY TypeNext, QNext
<1>3. TypeOK /\ QueueInv => QueuedOncePerSocket
  BY DEF QueueInv
<1> QED
  BY <1>1, <1>2, <1>3, PTL DEF Spec

-----------------------------------------------------------------------------
(* Readers, sockets and the ExitStack.                                     *)

LEMMA SInit == Init => ReleaseInv
  BY DEF Init, ReleaseInv, ReadersOnOpenSockets, StackInv, OnStack

\* Steps that neither open nor release anything.
LEMMA SUnchanged ==
  ASSUME ReleaseInv, UNCHANGED <<sock, readers, stack, opening>>,
         polled' \ {0} \subseteq readers,
         loop' = "closed" => loop = "closed" \/ stack = <<>>,
         task = "setup" => task' = "setup"
  PROVE  ReleaseInv'
  BY DEF ReleaseInv, ReadersOnOpenSockets, StackInv, OnStack

LEMMA SEnvironment ==
  ASSUME ReleaseInv, Environment
  PROVE  ReleaseInv'
<1>1. /\ UNCHANGED <<sock, readers, stack, opening, loop, polled, task>>
  BY DEF Environment, Sigterm, Sigint, Arrive, LinkDown, kernel, gen, events
<1> QED
  BY <1>1, SUnchanged DEF ReleaseInv, ReadersOnOpenSockets

LEMMA SLoopStep ==
  ASSUME TypeOK, ReleaseInv, LoopStep
  PROVE  ReleaseInv'
<1>1. /\ UNCHANGED <<sock, readers, stack, opening>>
      /\ task = "setup" => task' = "setup"
  BY DEF LoopStep, Poll, ReadSelfPipe, RunCancel, OnReadable, Recv,
     OnReadableTransient, RunDrive, RunStop, CloseRunner, RunShutdownAsyncgens,
     RunAclose, Runs, Busy, kernel, gen
<1>2. loop' = "closed" => loop = "closed" \/ stack = <<>>
  BY DEF LoopStep, Poll, ReadSelfPipe, RunCancel, OnReadable, Recv,
     OnReadableTransient, RunDrive, RunStop, CloseRunner, RunShutdownAsyncgens,
     RunAclose
<1>3. polled' \ {0} \subseteq readers
  <2>1. CASE Poll
    BY <2>1 DEF Poll, Ready
  <2>2. CASE ~Poll
    <3>1. polled' \subseteq polled
      BY <2>2 DEF LoopStep, ReadSelfPipe, RunCancel, OnReadable, Recv,
         OnReadableTransient, ReaderTurn, RunDrive, RunStop, CloseRunner,
         RunShutdownAsyncgens, RunAclose
    <3> QED
      BY <3>1 DEF ReleaseInv, ReadersOnOpenSockets
  <2> QED
    BY <2>1, <2>2
<1> QED
  BY <1>1, <1>2, <1>3, SUnchanged

LEMMA SRegister ==
  ASSUME TypeOK, QueueInv, ReleaseInv, BindAndRegister
  PROVE  ReleaseInv'
<1> DEFINE r == [op |-> "remove_reader", sock |-> opening]
           c == [op |-> "close", sock |-> opening]
<1>1. /\ task = "setup" /\ task' = "setup" /\ opening \in Sockets
      /\ sock[opening] \in {"created", "filtered"}
      /\ sock' = [sock EXCEPT ![opening] = "open"]
      /\ stack' = <<r, c>> \o stack
      /\ readers' = readers \cup {opening} /\ polled' = polled
      /\ loop' = loop
  BY CaptureAssumption
     DEF BindAndRegister, RegisterWith, SettingUp, Sockets, TypeOK
<1>2. /\ stack \in Seq(Releases) /\ <<r, c>> \in Seq(Releases)
      /\ Len(<<r, c>>) = 2
  BY <1>1 DEF TypeOK, Releases
<1>3. /\ Len(stack) \in Nat /\ Len(stack') = Len(stack) + 2
      /\ stack'[1] = r /\ stack'[2] = c
      /\ \A i \in 1 .. Len(stack) : stack'[i + 2] = stack[i]
  BY <1>1, <1>2
<1>4. loop # "closed"
  BY <1>1 DEF QueueInv, AfterTaskInv
<1>5. ReadersOnOpenSockets'
  BY <1>1 DEF ReleaseInv, ReadersOnOpenSockets, TypeOK
<1>6. ASSUME NEW i \in 1 .. Len(stack'), stack'[i].op = "close",
             stack'[i].sock \in readers'
      PROVE  \E j \in 1 .. i - 1 : /\ stack'[j].op = "remove_reader"
                                   /\ stack'[j].sock = stack'[i].sock
  <2>1. i # 1
    BY <1>3, <1>6
  <2>2. CASE stack'[i].sock = opening
    <3>1. 1 \in 1 .. i - 1
      BY <1>3, <2>1
    <3> QED
      BY <1>3, <2>2, <3>1
  <2>3. CASE stack'[i].sock # opening
    <3>1. i # 2
      BY <1>3, <2>3
    <3>2. i - 2 \in 1 .. Len(stack) /\ stack'[i] = stack[i - 2]
      BY <1>3, <2>1, <3>1
    <3>3. PICK j \in 1 .. i - 3 : /\ stack[j].op = "remove_reader"
                                  /\ stack[j].sock = stack[i - 2].sock
      BY <1>1, <1>6, <2>3, <3>2 DEF ReleaseInv, StackInv
    <3>4. j + 2 \in 1 .. i - 1 /\ stack'[j + 2] = stack[j]
      BY <1>3, <3>2
    <3> QED
      BY <3>2, <3>3, <3>4
  <2> QED
    BY <2>2, <2>3
<1>7. ASSUME NEW s, NEW o \in {"close", "remove_reader"},
             s # opening => OnStack(o, s)
      PROVE  OnStack(o, s)'
  <2>1. CASE s = opening
    <3>1. 1 \in 1 .. Len(stack') /\ 2 \in 1 .. Len(stack')
      BY <1>3
    <3> QED
      BY <1>3, <1>7, <2>1, <3>1 DEF OnStack
  <2>2. CASE s # opening
    <3>1. PICK i \in 1 .. Len(stack) : stack[i].op = o /\ stack[i].sock = s
      BY <1>7, <2>2 DEF OnStack
    <3>2. i + 2 \in 1 .. Len(stack') /\ stack'[i + 2] = stack[i]
      BY <1>3
    <3> QED
      BY <3>1, <3>2 DEF OnStack
  <2> QED
    BY <2>1, <2>2
<1>8. \A s \in readers' :
        OnStack("remove_reader", s)'
  BY <1>1, <1>7 DEF ReleaseInv, StackInv
<1>9. \A s \in Sockets : sock'[s] = "open" =>
        OnStack("close", s)'
  BY <1>1, <1>7 DEF ReleaseInv, StackInv, TypeOK
<1>10. \A s \in Sockets : sock'[s] \notin {"created", "filtered"}
  BY <1>1 DEF ReleaseInv, StackInv, TypeOK
<1> QED
  BY <1>1, <1>4, <1>5, <1>6, <1>8, <1>9, <1>10 DEF ReleaseInv, StackInv

LEMMA SRelease ==
  ASSUME TypeOK, ReleaseInv, Release
  PROVE  ReleaseInv'
<1>1. /\ stack # <<>> /\ stack \in Seq(Releases) /\ stack' = Tail(stack)
      /\ UNCHANGED <<opening, loop, task>>
      /\ task # "setup"
  BY DEF Release, TypeOK
<1>2. /\ Head(stack) = stack[1] /\ Len(stack) \in Nat \ {0}
      /\ Len(stack') = Len(stack) - 1
      /\ \A i \in 1 .. Len(stack') : stack'[i] = stack[i + 1]
      /\ stack[1] \in Releases
  BY <1>1, TailFacts
<1>3. loop # "closed"
  BY <1>1 DEF ReleaseInv, StackInv
<1>4. \A s \in Sockets : sock[s] \notin {"created", "filtered"}
  BY <1>1 DEF ReleaseInv, StackInv
\* An entry other than the head is still there, one place up.
<1>5. ASSUME NEW o, NEW s, OnStack(o, s), stack[1].op # o \/ stack[1].sock # s
      PROVE  OnStack(o, s)'
  <2>1. PICK i \in 1 .. Len(stack) : stack[i].op = o /\ stack[i].sock = s
    BY <1>5 DEF OnStack
  <2>2. i - 1 \in 1 .. Len(stack') /\ stack'[i - 1] = stack[i]
    BY <1>2, <1>5, <2>1
  <2> QED
    BY <2>1, <2>2 DEF OnStack
<1>6. ASSUME NEW i \in 1 .. Len(stack'), stack'[i].op = "close",
             stack'[i].sock \in readers', readers' \subseteq readers,
             stack[1].op = "remove_reader" => readers' = readers \ {stack[1].sock}
      PROVE  \E j \in 1 .. i - 1 : /\ stack'[j].op = "remove_reader"
                                   /\ stack'[j].sock = stack'[i].sock
  <2>1. i + 1 \in 1 .. Len(stack) /\ stack'[i] = stack[i + 1]
    BY <1>2
  <2>2. PICK j \in 1 .. i : /\ stack[j].op = "remove_reader"
                            /\ stack[j].sock = stack[i + 1].sock
    BY <1>6, <2>1 DEF ReleaseInv, StackInv
  <2>3. j # 1
    BY <1>6, <2>1, <2>2
  <2>4. j - 1 \in 1 .. i - 1 /\ stack'[j - 1] = stack[j]
    BY <1>2, <2>1, <2>2, <2>3
  <2> QED
    BY <2>1, <2>2, <2>4
<1>7. CASE stack[1].op = "close"
  <2>1. /\ sock' = [sock EXCEPT ![stack[1].sock] = "closed"]
        /\ readers' = readers /\ polled' = polled
    BY <1>2, <1>7 DEF Release
  <2>2. stack[1].sock \notin readers
    BY <1>2, <1>7 DEF ReleaseInv, StackInv
  <2>3. ReadersOnOpenSockets'
    BY <2>1, <2>2 DEF ReleaseInv, ReadersOnOpenSockets, TypeOK
  <2>4. \A s \in readers' :
          OnStack("remove_reader", s)'
    BY <1>5, <1>7, <2>1 DEF ReleaseInv, StackInv
  <2>5. \A s \in Sockets : sock'[s] = "open" =>
          sock[s] = "open" /\ s # stack[1].sock
    BY <2>1 DEF TypeOK
  <2>6. \A s \in Sockets : sock'[s] = "open" =>
          OnStack("close", s)'
    BY <1>5, <2>5 DEF ReleaseInv, StackInv
  <2>7. \A s \in Sockets : sock'[s] \notin {"created", "filtered"}
    BY <1>4, <2>1 DEF TypeOK
  <2> QED
    BY <1>1, <1>3, <1>6, <1>7, <2>1, <2>3, <2>4, <2>6, <2>7 DEF ReleaseInv, StackInv
<1>8. CASE stack[1].op # "close"
  <2>1. /\ sock' = sock /\ readers' = readers \ {stack[1].sock}
        /\ polled' = polled \ {stack[1].sock}
        /\ stack[1].op = "remove_reader"
    BY <1>2, <1>8 DEF Release, Releases
  <2>3. ReadersOnOpenSockets'
    BY <2>1 DEF ReleaseInv, ReadersOnOpenSockets
  <2>4. \A s \in readers' :
          OnStack("remove_reader", s)'
    BY <1>5, <2>1 DEF ReleaseInv, StackInv
  <2>6. \A s \in Sockets : sock'[s] = "open" =>
          OnStack("close", s)'
    BY <1>5, <2>1 DEF ReleaseInv, StackInv
  <2> QED
    BY <1>1, <1>3, <1>4, <1>6, <2>1, <2>3, <2>4, <2>6 DEF ReleaseInv, StackInv
<1> QED
  BY <1>7, <1>8

LEMMA STaskStep ==
  ASSUME TypeOK, QueueInv, ReleaseInv, TaskStep
  PROVE  ReleaseInv'
<1>1. ASSUME task # "setup", UNCHANGED <<sock, readers, stack, opening>>,
             polled' \subseteq polled, loop' = "closed" => loop = "closed" \/ stack = <<>>
      PROVE  ReleaseInv'
  BY <1>1, SUnchanged DEF ReleaseInv, ReadersOnOpenSockets
<1>2. CASE RunStep \/ Take \/ TakeFails \/ TakeError \/ Suspend \/ Unwound
           \/ Aclosed
  BY <1>1, <1>2 DEF RunStep, Take, TakeFails, Dispatch, TakeError, Suspend,
     Unwound, Aclosed, Runs, Busy, kernel, gen, events
\* During the set-up only the socket being opened is half configured.
<1>3. ASSUME task = "setup", UNCHANGED <<readers, stack, opening, polled, loop>>,
             NEW v \in {"created", "filtered", "orphan"},
             opening \in Sockets, sock[opening] \in {"none", "created", "filtered"},
             sock' = [sock EXCEPT ![opening] = v],
             task' = "setup" \/ v = "orphan"
      PROVE  ReleaseInv'
  <2>1. \A s \in Sockets : s # opening => sock'[s] = sock[s]
    BY <1>3 DEF TypeOK
  <2>2. sock'[opening] = v /\ opening \notin readers
    BY <1>3 DEF TypeOK, ReleaseInv, ReadersOnOpenSockets
  <2>3. ReadersOnOpenSockets'
    BY <1>3, <2>1, <2>2 DEF ReleaseInv, ReadersOnOpenSockets, TypeOK
  <2>4. \A s \in Sockets : sock'[s] = "open" => sock[s] = "open"
    BY <1>3, <2>1, <2>2
  <2>5. \A s \in Sockets : sock'[s] \in {"created", "filtered"} =>
          task' = "setup" /\ opening = s
    BY <1>3, <2>1, <2>2 DEF ReleaseInv, StackInv
  <2> QED
    BY <1>3, <2>3, <2>4, <2>5 DEF ReleaseInv, StackInv, OnStack
<1>4. CASE CreateSocket \/ AttachFilter \/ ConfigureFails
  <2>1. opening \in Sockets
    BY <1>4, CaptureAssumption DEF CreateSocket, AttachFilter, ConfigureFails,
       SettingUp, Sockets, TypeOK
  <2> QED
    BY <1>3, <1>4, <2>1 DEF CreateSocket, AttachFilter, ConfigureFails,
       SettingUp, gen, events
<1>5. CASE CreateSocketFails \/ SetupDone
  <2>1. \A s \in Sockets : sock[s] \notin {"created", "filtered"}
    <3>1. CASE CreateSocketFails
      BY <3>1 DEF CreateSocketFails, ReleaseInv, StackInv
    <3>2. CASE SetupDone
      BY <3>2, CaptureAssumption
         DEF SetupDone, ReleaseInv, StackInv, Sockets, TypeOK
    <3> QED
      BY <1>5, <3>1, <3>2
  <2>2. UNCHANGED <<sock, readers, stack, opening, polled, loop>>
    BY <1>5 DEF CreateSocketFails, SetupDone, kernel, gen, events
  <2> QED
    BY <2>1, <2>2 DEF ReleaseInv, ReadersOnOpenSockets, StackInv, OnStack
<1> QED
  BY <1>2, <1>4, <1>5, SRegister, SRelease DEF TaskStep

LEMMA SNext == TypeOK /\ QueueInv /\ ReleaseInv /\ [Next]_vars => ReleaseInv'
<1>1. ASSUME ReleaseInv, UNCHANGED vars PROVE ReleaseInv'
  BY <1>1, SUnchanged DEF vars, kernel, gen, events, ReleaseInv, ReadersOnOpenSockets
<1> QED
  BY <1>1, SEnvironment, SLoopStep, STaskStep DEF Next, Closed

\* The inductive invariant holds of every behaviour.
LEMMA CaptureInvariant == Spec => []CaptureInv
<1>1. Init => CaptureInv
  BY TypeInit, QInit, SInit DEF CaptureInv
<1>2. CaptureInv /\ [Next]_vars => CaptureInv'
  BY TypeNext, QNext, SNext DEF CaptureInv
<1> QED
  BY <1>1, <1>2, PTL DEF Spec

\* No reader callback ever runs on a socket that is closed or half set up,
\* in whatever order frames, errors, signals and the clean-up interleave.
THEOREM ReadersSafe == Spec => []ReadersOnOpenSockets
  BY CaptureInvariant, PTL DEF CaptureInv, ReleaseInv

\* However the capture ended, when asyncio.run returns no reader is
\* registered and every socket entered into the ExitStack is closed.
THEOREM ClosedClean == Spec => []NothingLeftOpen
<1>1. CaptureInv => NothingLeftOpen
  <2> SUFFICES ASSUME TypeOK, QueueInv, ReleaseInv, loop = "closed"
               PROVE  /\ readers = {}
                      /\ \A s \in Sockets : sock[s] \in {"none", "closed", "orphan"}
    BY DEF NothingLeftOpen, CaptureInv
  <2>1. stack = <<>> /\ task # "setup"
    BY DEF ReleaseInv, StackInv, QueueInv, AfterTaskInv
  <2>2. \A s \in Sockets : sock[s] \notin {"open", "created", "filtered"}
    BY <2>1 DEF ReleaseInv, StackInv, OnStack
  <2>3. readers = {}
    BY <2>1 DEF ReleaseInv, StackInv, OnStack
  <2> QED
    BY <2>2, <2>3 DEF TypeOK
<1> QED
  BY <1>1, CaptureInvariant, PTL

-----------------------------------------------------------------------------
(* The live capture implements FrameStream.                                *)

FS == INSTANCE FrameStreamProofs WITH
  Cap <- RxCap + 1, pending <- Pending, ended <- Ended

-----------------------------------------------------------------------------
(* Sequences of frame numbers.                                             *)

LEMMA SameSeq ==
  ASSUME NEW S, NEW p \in Seq(S), NEW q \in Seq(S), Len(p) = Len(q),
         \A i \in 1 .. Len(p) : p[i] = q[i]
  PROVE  p = q
  OBVIOUS

LEMMA ConcatAppend ==
  ASSUME NEW S, NEW p \in Seq(S), NEW q \in Seq(S), NEW e \in S
  PROVE  p \o Append(q, e) = Append(p \o q, e)
<1>1. /\ p \o Append(q, e) \in Seq(S) /\ Append(p \o q, e) \in Seq(S)
      /\ Len(p) \in Nat /\ Len(q) \in Nat
      /\ Len(p \o Append(q, e)) = Len(p) + Len(q) + 1
      /\ Len(Append(p \o q, e)) = Len(p) + Len(q) + 1
  OBVIOUS
<1>2. \A i \in 1 .. Len(p) + Len(q) + 1 :
        (p \o Append(q, e))[i] = Append(p \o q, e)[i]
  OBVIOUS
<1> QED
  BY <1>1, <1>2, SameSeq

\* One element in front of a sequence.
LEMMA ConsFacts ==
  ASSUME NEW S, NEW e \in S, NEW q \in Seq(S)
  PROVE  /\ <<e>> \o q \in Seq(S) /\ <<e>> \o q # <<>>
         /\ Head(<<e>> \o q) = e /\ Tail(<<e>> \o q) = q
<1>1. /\ <<e>> \in Seq(S) /\ Len(<<e>>) = 1 /\ Len(q) \in Nat /\ <<e>>[1] = e
  OBVIOUS
<1>2. /\ <<e>> \o q \in Seq(S) /\ Len(<<e>> \o q) = Len(q) + 1
      /\ (<<e>> \o q)[1] = e
      /\ \A i \in 1 .. Len(q) : (<<e>> \o q)[i + 1] = q[i]
  BY <1>1
<1>3. <<e>> \o q # <<>>
  BY <1>1, <1>2
<1>4. /\ Tail(<<e>> \o q) \in Seq(S) /\ Len(Tail(<<e>> \o q)) = Len(q)
      /\ \A i \in 1 .. Len(q) : Tail(<<e>> \o q)[i] = q[i]
  BY <1>1, <1>2, <1>3, TailFacts
<1>5. Tail(<<e>> \o q) = q
  BY <1>1, <1>4, SameSeq
<1> QED
  BY <1>2, <1>3, <1>5, TailFacts

LEMMA FrameNumber == \A f \in Frames : f.id \in Ids
  BY DEF Frames

LEMMA FrameIdsType ==
  ASSUME NEW q \in Seq(Frames)
  PROVE  FrameIds(q) \in Seq(Ids) /\ Len(FrameIds(q)) = Len(q)
<1>1. \A i \in 1 .. Len(q) : q[i].id \in Ids
  BY FrameNumber
<1>2. FrameIds(q) \in [1 .. Len(q) -> Ids] /\ DOMAIN FrameIds(q) = 1 .. Len(q)
  BY <1>1 DEF FrameIds
<1>3. Len(q) \in Nat
  OBVIOUS
<1>4. FrameIds(q) \in Seq(Ids)
  BY <1>2, <1>3
<1> QED
  BY <1>2, <1>3, <1>4

LEMMA FrameIdsAppend ==
  ASSUME NEW q \in Seq(Frames), NEW f \in Frames
  PROVE  FrameIds(Append(q, f)) = Append(FrameIds(q), f.id)
<1>1. /\ Append(q, f) \in Seq(Frames) /\ f.id \in Ids /\ Len(q) \in Nat
      /\ Len(Append(q, f)) = Len(q) + 1
      /\ FrameIds(q) \in Seq(Ids) /\ Len(FrameIds(q)) = Len(q)
  BY AppendFacts, FrameNumber, FrameIdsType
<1>2. /\ FrameIds(Append(q, f)) \in Seq(Ids)
      /\ Append(FrameIds(q), f.id) \in Seq(Ids)
      /\ Len(FrameIds(Append(q, f))) = Len(q) + 1
      /\ Len(Append(FrameIds(q), f.id)) = Len(q) + 1
  <2>1. /\ FrameIds(Append(q, f)) \in Seq(Ids)
        /\ Len(FrameIds(Append(q, f))) = Len(Append(q, f))
    BY <1>1, FrameIdsType
  <2>2. /\ Append(FrameIds(q), f.id) \in Seq(Ids)
        /\ Len(Append(FrameIds(q), f.id)) = Len(FrameIds(q)) + 1
    BY <1>1, AppendFacts
  <2> QED
    BY <1>1, <2>1, <2>2
<1>3. \A i \in 1 .. Len(q) + 1 :
        FrameIds(Append(q, f))[i] = Append(FrameIds(q), f.id)[i]
  <2> TAKE i \in 1 .. Len(q) + 1
  <2>1. FrameIds(Append(q, f))[i] = Append(q, f)[i].id
    BY <1>1 DEF FrameIds
  <2>2. CASE i = Len(q) + 1
    BY <1>1, <2>1, <2>2, FrameIdsType, AppendFacts
  <2>3. CASE i # Len(q) + 1
    <3>1. i \in 1 .. Len(q)
      BY <1>1, <2>3
    <3>2. FrameIds(q)[i] = q[i].id
      BY <3>1 DEF FrameIds
    <3> QED
      BY <1>1, <2>1, <3>1, <3>2, FrameIdsType, AppendFacts
  <2> QED
    BY <2>2, <2>3
<1> QED
  BY <1>1, <1>2, <1>3, SameSeq

LEMMA FrameIdsHead ==
  ASSUME NEW q \in Seq(Frames), q # <<>>
  PROVE  FrameIds(q) = <<Head(q).id>> \o FrameIds(Tail(q))
<1>1. /\ Tail(q) \in Seq(Frames) /\ Head(q) \in Frames /\ Head(q).id \in Ids
      /\ Len(q) \in Nat \ {0} /\ Len(Tail(q)) = Len(q) - 1 /\ Head(q) = q[1]
      /\ \A i \in 1 .. Len(q) - 1 : Tail(q)[i] = q[i + 1]
  <2>1. /\ Tail(q) \in Seq(Frames) /\ Head(q) \in Frames
        /\ Len(q) \in Nat \ {0} /\ Len(Tail(q)) = Len(q) - 1 /\ Head(q) = q[1]
        /\ \A i \in 1 .. Len(Tail(q)) : Tail(q)[i] = q[i + 1]
    BY TailFacts
  <2> QED
    BY <2>1, FrameNumber
<1> DEFINE t == FrameIds(Tail(q))
           e == Head(q).id
<1>2. /\ t \in Seq(Ids) /\ Len(t) = Len(q) - 1
      /\ FrameIds(q) \in Seq(Ids) /\ Len(FrameIds(q)) = Len(q)
  BY <1>1, FrameIdsType
<1>3. \A i \in 1 .. Len(q) - 1 : t[i] = q[i + 1].id
  BY <1>1 DEF FrameIds
<1>4. \A i \in 1 .. Len(q) : FrameIds(q)[i] = q[i].id
  BY DEF FrameIds
<1> HIDE DEF t, e
<1>5. /\ <<e>> \in Seq(Ids) /\ Len(<<e>>) = 1
      /\ <<e>> \o t \in Seq(Ids) /\ Len(<<e>> \o t) = Len(q)
      /\ (<<e>> \o t)[1] = e
      /\ \A i \in 2 .. Len(q) : (<<e>> \o t)[i] = t[i - 1]
  <2>1. e \in Ids
    BY <1>1 DEF e
  <2>2. <<e>> \in Seq(Ids) /\ Len(<<e>>) = 1 /\ <<e>>[1] = e
    BY <2>1
  <2>3. <<e>> \o t \in Seq(Ids) /\ Len(<<e>> \o t) = 1 + Len(t)
    BY <1>2, <2>2
  <2>4. (<<e>> \o t)[1] = e
    BY <1>1, <1>2, <2>2
  <2>5. \A i \in 2 .. Len(q) : (<<e>> \o t)[i] = t[i - 1]
    BY <1>1, <1>2, <2>2
  <2>6. Len(<<e>> \o t) = Len(q)
    <3>1. 1 + Len(t) = Len(q)
      BY <1>1, <1>2
    <3> QED
      BY <2>3, <3>1, Zenon
  <2> QED
    BY <2>2, <2>3, <2>4, <2>5, <2>6, Zenon
<1>6. \A i \in 1 .. Len(q) : FrameIds(q)[i] = (<<e>> \o t)[i]
  <2> TAKE i \in 1 .. Len(q)
  <2>1. CASE i = 1
    BY <1>1, <1>4, <1>5, <2>1 DEF e
  <2>2. CASE i # 1
    <3>1. i \in 2 .. Len(q) /\ i - 1 \in 1 .. Len(q) - 1 /\ (i - 1) + 1 = i
      BY <1>1, <2>2
    <3> QED
      BY <1>3, <1>4, <1>5, <3>1
  <2> QED
    BY <2>1, <2>2
<1>7. FrameIds(q) = <<e>> \o t
  BY <1>2, <1>5, <1>6, SameSeq
<1> QED
  BY <1>7 DEF t, e

-----------------------------------------------------------------------------
(* The frames of a socket on the queue.                                    *)

LEMMA ItemTypes ==
  \A it \in Items : it.sock \in Sockets /\ it.err \in BOOLEAN /\ it.frame.id \in Ids
  BY FrameNumber DEF Items

LEMMA NoneQueued ==
  ASSUME NEW q, NEW s, Queued(q, s) = {}
  PROVE  QueuedIds(q, s) = <<>>
  BY DEF QueuedIds

LEMMA OneQueued ==
  ASSUME NEW q, NEW s, Unique(q), NEW i \in Queued(q, s)
  PROVE  QueuedIds(q, s) = <<q[i].frame.id>>
<1>1. Queued(q, s) # {}
  OBVIOUS
<1>2. (CHOOSE j \in Queued(q, s) : TRUE) = i
  <2>1. (CHOOSE j \in Queued(q, s) : TRUE) \in Queued(q, s)
    BY <1>1
  <2> QED
    BY <2>1 DEF Queued, Unique
<1> QED
  BY <1>1, <1>2 DEF QueuedIds

LEMMA QueuedType ==
  ASSUME NEW q \in Seq(Items), NEW s, Unique(q)
  PROVE  QueuedIds(q, s) \in Seq(Ids) /\ Len(QueuedIds(q, s)) \in {0, 1}
<1>1. CASE Queued(q, s) = {}
  <2>1. <<>> \in Seq(Ids) /\ Len(<<>>) = 0
    OBVIOUS
  <2> QED
    BY <1>1, <2>1, NoneQueued
<1>2. ASSUME NEW i \in Queued(q, s)
      PROVE  QueuedIds(q, s) \in Seq(Ids) /\ Len(QueuedIds(q, s)) \in {0, 1}
  <2>1. q[i] \in Items
    BY DEF Queued
  <2>2. q[i].frame.id \in Ids
    BY <2>1, ItemTypes
  <2>3. \A n \in Ids : <<n>> \in Seq(Ids) /\ Len(<<n>>) = 1
    OBVIOUS
  <2>4. QueuedIds(q, s) = <<q[i].frame.id>>
    BY OneQueued
  <2> QED
    BY <2>2, <2>3, <2>4, Zenon
<1> QED
  BY <1>1, <1>2

\* A reader pushes an item of s.
LEMMA QueuedAppend ==
  ASSUME NEW q \in Seq(Items), NEW it \in Items, Unique(q), Unique(Append(q, it)),
         NEW s
  PROVE  /\ it.sock # s \/ it.err => QueuedIds(Append(q, it), s) = QueuedIds(q, s)
         /\ it.sock = s /\ ~it.err =>
              /\ QueuedIds(Append(q, it), s) = <<it.frame.id>>
              /\ QueuedIds(q, s) = <<>>
<1> DEFINE n == Len(q) + 1
           p == Append(q, it)
<1>1. /\ Len(q) \in Nat /\ Len(p) = n /\ p[n] = it /\ n \in 1 .. Len(p)
      /\ \A i \in 1 .. Len(q) : p[i] = q[i]
      /\ 1 .. Len(p) = (1 .. Len(q)) \cup {n} /\ n \notin 1 .. Len(q)
  BY AppendFacts
<1> HIDE DEF n, p
<1>2. ASSUME it.sock # s \/ it.err
      PROVE  QueuedIds(p, s) = QueuedIds(q, s)
  <2>1. Queued(p, s) = Queued(q, s)
    BY <1>1, <1>2 DEF Queued
  <2>2. CASE Queued(q, s) = {}
    BY <2>1, <2>2, NoneQueued
  <2>3. ASSUME NEW i \in Queued(q, s) PROVE QueuedIds(p, s) = QueuedIds(q, s)
    <3>1. i \in Queued(p, s) /\ p[i] = q[i]
      BY <1>1, <2>1 DEF Queued
    <3>2. QueuedIds(p, s) = <<p[i].frame.id>> /\ QueuedIds(q, s) = <<q[i].frame.id>>
      BY <3>1, OneQueued DEF p
    <3> QED
      BY <3>1, <3>2
  <2> QED
    BY <2>2, <2>3
<1>3. ASSUME it.sock = s, ~it.err
      PROVE  QueuedIds(p, s) = <<it.frame.id>> /\ QueuedIds(q, s) = <<>>
  <2>1. n \in Queued(p, s)
    BY <1>1, <1>3 DEF Queued
  <2>2. QueuedIds(p, s) = <<it.frame.id>>
    BY <1>1, <2>1, OneQueued, ZenonT(60) DEF p
  <2>3. Queued(q, s) = {}
    <3> SUFFICES ASSUME NEW i \in Queued(q, s) PROVE FALSE
      OBVIOUS
    <3>1. i \in 1 .. Len(q) /\ p[i].sock = s
      BY <1>1 DEF Queued
    <3>2. i = n
      BY <1>1, <1>3, <3>1 DEF Unique, p
    <3> QED
      BY <1>1, <3>1, <3>2
  <2> QED
    BY <2>2, <2>3, NoneQueued
<1> QED
  BY <1>2, <1>3 DEF p

\* The task takes the head.
LEMMA QueuedTail ==
  ASSUME NEW q \in Seq(Items), q # <<>>, Unique(q), NEW s
  PROVE  /\ Head(q).sock # s => QueuedIds(Tail(q), s) = QueuedIds(q, s)
         /\ Head(q).sock = s /\ ~Head(q).err =>
              /\ QueuedIds(Tail(q), s) = <<>>
              /\ QueuedIds(q, s) = <<Head(q).frame.id>>
<1> DEFINE p == Tail(q)
<1>1. /\ Head(q) = q[1] /\ Len(q) \in Nat \ {0} /\ Len(p) = Len(q) - 1
      /\ \A i \in 1 .. Len(p) : p[i] = q[i + 1]
      /\ 1 \in 1 .. Len(q)
  BY TailFacts
<1>2. Unique(p)
  BY UniqueTail
<1> HIDE DEF p
<1>3. ASSUME Head(q).sock # s
      PROVE  QueuedIds(p, s) = QueuedIds(q, s)
  <2>1. ASSUME NEW i \in Queued(q, s)
        PROVE  i - 1 \in Queued(p, s) /\ p[i - 1] = q[i]
    <3>1. i \in 1 .. Len(q) /\ i # 1
      BY <1>1, <1>3 DEF Queued
    <3>2. i - 1 \in 1 .. Len(p) /\ (i - 1) + 1 = i
      BY <1>1, <3>1
    <3> QED
      BY <1>1, <3>2 DEF Queued
  <2>2. ASSUME NEW i \in Queued(p, s) PROVE i + 1 \in Queued(q, s)
    BY <1>1 DEF Queued
  <2>3. CASE Queued(q, s) = {}
    BY <2>2, <2>3, NoneQueued
  <2>4. ASSUME NEW i \in Queued(q, s) PROVE QueuedIds(p, s) = QueuedIds(q, s)
    BY <1>2, <2>1, OneQueued
  <2> QED
    BY <2>3, <2>4
<1>4. ASSUME Head(q).sock = s, ~Head(q).err
      PROVE  QueuedIds(p, s) = <<>> /\ QueuedIds(q, s) = <<Head(q).frame.id>>
  <2>1. 1 \in Queued(q, s)
    BY <1>1, <1>4 DEF Queued
  <2>2. Queued(p, s) = {}
    <3> SUFFICES ASSUME NEW i \in Queued(p, s) PROVE FALSE
      OBVIOUS
    <3>1. i + 1 \in 1 .. Len(q) /\ q[i + 1].sock = s /\ i + 1 # 1
      BY <1>1 DEF Queued
    <3> QED
      BY <1>1, <1>4, <3>1 DEF Unique
  <2> QED
    BY <1>1, <2>1, <2>2, NoneQueued, OneQueued
<1> QED
  BY <1>3, <1>4 DEF p

-----------------------------------------------------------------------------
(* Every step of the capture is a step of the stream, or none.             *)

\* The abstract step, or a stuttering one.
Refines == [FS!Next]_FS!vars

\* Nothing moves between the kernel, the queue and the outputs.
LEMMA StutterStep ==
  ASSUME UNCHANGED <<arrived, delivered>>,
         \/ Ended /\ Ended'
         \/ ~Ended /\ ~Ended' /\ UNCHANGED <<queue, rx>>
  PROVE  Refines
<1>1. Pending' = Pending
  BY DEF Pending
<1>2. Ended' = Ended
  BY DEF Ended
<1> QED
  BY <1>1, <1>2 DEF Refines, FS!vars

\* The capture ends; what is on the way is lost.
LEMMA EndStep ==
  ASSUME UNCHANGED <<arrived, delivered>>, ~Ended, Ended'
  PROVE  Refines
<1>1. Pending' = FS!Nothing
  BY DEF Pending, FS!Nothing
<1>2. Ended' = TRUE
  BY DEF Ended
<1> QED
  BY <1>1, <1>2 DEF Refines, FS!Next, FS!End

\* Types of the two places a frame waits at.
LEMMA WaitingTypes ==
  ASSUME CaptureInv, NEW s \in Sockets
  PROVE  /\ QueuedIds(queue, s) \in Seq(Ids) /\ Len(QueuedIds(queue, s)) \in {0, 1}
         /\ FrameIds(rx[s]) \in Seq(Ids) /\ Len(FrameIds(rx[s])) = Len(rx[s])
         /\ Unique(queue) /\ queue \in Seq(Items) /\ rx[s] \in Seq(Frames)
<1>1. Unique(queue) /\ queue \in Seq(Items) /\ rx[s] \in Seq(Frames)
  BY DEF CaptureInv, QueueInv, TypeOK, QueuedOncePerSocket, Unique
<1> QED
  BY <1>1, QueuedType, FrameIdsType

LEMMA RefArrive ==
  ASSUME CaptureInv, NEW s \in Sockets, Arrive(s)
  PROVE  Refines
<1>1. UNCHANGED <<delivered, task, queue>> /\ (Ended <=> Ended')
  BY DEF Arrive, gen, Ended
<1>2. CASE Ended
  BY <1>1, <1>2, StutterStep DEF Arrive
<1>3. CASE ~Ended
  <2> DEFINE n == (arrived[s] + 1) % Wrap
  <2>1. PICK f \in Admitted(s) : rx' = [rx EXCEPT ![s] = Append(rx[s], f)]
    BY DEF Arrive
  <2>2. f \in Frames /\ f.id = n /\ n \in Ids
    <3>1. n \in Ids
      BY NextId DEF CaptureInv, TypeOK
    <3>2. Iface[s] # AnyIface => Iface[s] \in Nics
      BY CaptureAssumption
    <3> QED
      BY <3>1, <3>2 DEF Admitted, Frames
  <2>3. arrived' = [arrived EXCEPT ![s] = n] /\ Len(rx[s]) < RxCap
    BY <1>3 DEF Arrive
  <2>4. arrived'[s] = n
    BY <2>3 DEF CaptureInv, TypeOK
  <2> HIDE DEF n
  <2>5. rx'[s] = Append(rx[s], f) /\ \A t \in Sockets : t # s => rx'[t] = rx[t]
    BY <2>1 DEF CaptureInv, TypeOK
  <2>6. QueuedIds(queue, s) \o FrameIds(rx'[s])
          = Append(QueuedIds(queue, s) \o FrameIds(rx[s]), n)
    <3>1. FrameIds(rx'[s]) = Append(FrameIds(rx[s]), n)
      BY <2>2, <2>5, WaitingTypes, FrameIdsAppend
    <3>2. QueuedIds(queue, s) \in Seq(Ids) /\ FrameIds(rx[s]) \in Seq(Ids)
      BY WaitingTypes
    <3> QED
      BY <2>2, <3>1, <3>2, ConcatAppend
  <2>7. /\ Pending[s] = QueuedIds(queue, s) \o FrameIds(rx[s])
        /\ Pending' = [Pending EXCEPT ![s] = Append(Pending[s], n)]
    BY <1>1, <1>3, <2>5, <2>6 DEF Pending
  <2>8. Len(Pending[s]) < RxCap + 1
    <3>1. /\ QueuedIds(queue, s) \in Seq(Ids) /\ Len(QueuedIds(queue, s)) \in {0, 1}
          /\ FrameIds(rx[s]) \in Seq(Ids) /\ Len(FrameIds(rx[s])) = Len(rx[s])
          /\ Len(rx[s]) \in Nat
      BY WaitingTypes
    <3>2. Len(QueuedIds(queue, s) \o FrameIds(rx[s]))
            = Len(QueuedIds(queue, s)) + Len(FrameIds(rx[s]))
      BY <3>1
    <3>3. Len(QueuedIds(queue, s)) + Len(FrameIds(rx[s])) < RxCap + 1
      <4>1. RxCap \in Nat /\ Len(rx[s]) < RxCap
        BY <2>3, CaptureAssumption
      <4>2. \A a \in {0, 1}, b, c \in Nat : b < c => a + b < c + 1
        OBVIOUS
      <4> QED
        BY <3>1, <4>1, <4>2, Zenon
    <3> QED
      BY <2>7, <3>2, <3>3
  <2>9. Ended' = Ended
    BY <1>1 DEF Ended
  <2>10. FS!Arrive(s)
    BY <1>1, <1>3, <2>3, <2>4, <2>7, <2>8, <2>9 DEF FS!Arrive, n
  <2> QED
    BY <2>10 DEF Refines, FS!Next
<1> QED
  BY <1>2, <1>3

\* A reader moves the oldest frame of its socket from the receive queue to
\* the asyncio queue, where no other of that socket is.
LEMMA RefOnReadable ==
  ASSUME CaptureInv, CaptureInv', NEW s \in Sockets, OnReadable(s)
  PROVE  Refines
<1>1. Recv(s, Tail(rx[s]))
  BY DEF OnReadable
<1>2. UNCHANGED <<arrived, delivered, task>> /\ (Ended <=> Ended') /\ Ended' = Ended
  BY <1>1 DEF Recv, gen, Ended
<1>3. CASE Ended
  BY <1>2, <1>3, StutterStep
<1>4. CASE ~Ended
  <2>1. task # "done"
    BY <1>4 DEF Ended
  <2>2. Unique(queue') /\ Unique(queue) /\ queue \in Seq(Items)
    BY DEF CaptureInv, QueueInv, TypeOK, QueuedOncePerSocket, Unique
  <2>3. CASE fault[s]
    <3> DEFINE it == [sock |-> s, err |-> TRUE, frame |-> NoFrame]
    <3>1. it \in Items /\ it.err
      BY NoFrameType DEF Items
    <3>2. queue' = Append(queue, it) /\ rx' = rx
      BY <1>1, <2>1, <2>3 DEF Recv, Put
    <3> HIDE DEF it
    <3>3. \A t \in Sockets : QueuedIds(queue', t) = QueuedIds(queue, t)
      BY <2>2, <3>1, <3>2, QueuedAppend
    <3>4. Pending' = Pending
      BY <1>2, <3>2, <3>3 DEF Pending
    <3> QED
      BY <1>2, <3>4 DEF Refines, FS!vars
  <2>4. CASE ~fault[s]
    <3> DEFINE it == [sock |-> s, err |-> FALSE, frame |-> Head(rx[s])]
    <3>1. rx[s] \in Seq(Frames) /\ rx[s] # <<>>
      BY <1>1, <2>4 DEF Recv, Readable, CaptureInv, TypeOK
    <3>2. Head(rx[s]) \in Frames
      BY <3>1, TailFacts
    <3>3. it \in Items /\ it.sock = s /\ ~it.err /\ it.frame.id = Head(rx[s]).id
      BY <3>2 DEF Items
    <3>4. /\ queue' = Append(queue, it)
          /\ rx' = [rx EXCEPT ![s] = Tail(rx[s])]
      BY <1>1, <2>1, <2>4 DEF Recv, Put
    <3> HIDE DEF it
    <3>5. rx'[s] = Tail(rx[s]) /\ \A t \in Sockets : t # s => rx'[t] = rx[t]
      BY <3>4 DEF CaptureInv, TypeOK
    <3>6. \A t \in Sockets : t # s => QueuedIds(queue', t) = QueuedIds(queue, t)
      BY <2>2, <3>3, <3>4, QueuedAppend
    <3>7. QueuedIds(queue', s) = <<Head(rx[s]).id>> /\ QueuedIds(queue, s) = <<>>
      BY <2>2, <3>3, <3>4, QueuedAppend
    <3>8. QueuedIds(queue', s) \o FrameIds(rx'[s])
            = QueuedIds(queue, s) \o FrameIds(rx[s])
      <4>1. FrameIds(rx[s]) = <<Head(rx[s]).id>> \o FrameIds(Tail(rx[s]))
        BY <3>1, FrameIdsHead
      <4>2. FrameIds(rx[s]) \in Seq(Ids)
        BY <3>1, FrameIdsType
      <4>3. <<>> \o FrameIds(rx[s]) = FrameIds(rx[s])
        BY <4>2
      <4> QED
        BY <3>5, <3>7, <4>1, <4>3
    <3>9. Pending' = Pending
      BY <1>2, <1>4, <3>5, <3>6, <3>8 DEF Pending
    <3> QED
      BY <1>2, <3>9 DEF Refines, FS!vars
  <2> QED
    BY <2>3, <2>4
<1> QED
  BY <1>3, <1>4

\* The head of the queue is the oldest undelivered frame of its socket.
LEMMA HeadPending ==
  ASSUME CaptureInv, ~Ended, queue # <<>>, ~Head(queue).err
  PROVE  /\ Head(queue).sock \in Sockets
         /\ Pending[Head(queue).sock] # <<>>
         /\ Head(Pending[Head(queue).sock]) = Head(queue).frame.id
         /\ Tail(Pending[Head(queue).sock])
              = <<>> \o FrameIds(rx[Head(queue).sock])
         /\ QueuedIds(Tail(queue), Head(queue).sock) = <<>>
         /\ \A t \in Sockets : t # Head(queue).sock =>
              QueuedIds(Tail(queue), t) = QueuedIds(queue, t)
<1> DEFINE s == Head(queue).sock
           n == Head(queue).frame.id
<1>1. queue \in Seq(Items) /\ Unique(queue)
  BY DEF CaptureInv, QueueInv, TypeOK, QueuedOncePerSocket, Unique
<1>2. s \in Sockets /\ n \in Ids
  <2>1. Head(queue) \in Items
    BY <1>1, TailFacts
  <2> QED
    BY <2>1, ItemTypes
<1>3. QueuedIds(queue, s) = <<n>> /\ QueuedIds(Tail(queue), s) = <<>>
  BY <1>1, QueuedTail
<1>4. \A t \in Sockets : t # s => QueuedIds(Tail(queue), t) = QueuedIds(queue, t)
  BY <1>1, QueuedTail
<1>5. FrameIds(rx[s]) \in Seq(Ids)
  BY <1>2, WaitingTypes
<1>6. Pending[s] = <<n>> \o FrameIds(rx[s])
  BY <1>2, <1>3 DEF Pending
<1>7. <<>> \o FrameIds(rx[s]) = FrameIds(rx[s])
  BY <1>5
<1> QED
  BY <1>2, <1>3, <1>4, <1>5, <1>6, <1>7, ConsFacts

LEMMA RefTake ==
  ASSUME CaptureInv, Take
  PROVE  Refines
<1> DEFINE s == Head(queue).sock
<1>1. /\ task = "body" /\ queue # <<>> /\ ~Head(queue).err
      /\ delivered' = [delivered EXCEPT ![s] = Head(queue).frame.id]
      /\ queue' = Tail(queue) /\ task' = task /\ UNCHANGED <<arrived, rx>>
  BY DEF Take, Dispatch, kernel
<1>2. ~Ended /\ Ended' = Ended
  BY <1>1 DEF Ended
<1>3. Pending' = [Pending EXCEPT ![s] = Tail(Pending[s])]
  BY <1>1, <1>2, HeadPending DEF Pending
<1>4. FS!Deliver(s)
  BY <1>1, <1>2, <1>3, HeadPending DEF FS!Deliver
<1> QED
  BY <1>1, <1>2, <1>4, HeadPending DEF Refines, FS!Next

LEMMA RefTakeFails ==
  ASSUME CaptureInv, TakeFails
  PROVE  Refines
<1> DEFINE s == Head(queue).sock
<1>1. /\ task = "body" /\ queue # <<>> /\ ~Head(queue).err
      /\ delivered' = [delivered EXCEPT ![s] = Head(queue).frame.id]
      /\ task' = "done" /\ arrived' = arrived
  BY DEF TakeFails, Dispatch, Finish, kernel
<1>2. ~Ended /\ Ended' = TRUE
  BY <1>1 DEF Ended
<1>3. Pending' = FS!Nothing
  BY <1>2 DEF Pending, FS!Nothing
<1>4. FS!DeliverAndFail(s)
  BY <1>1, <1>2, <1>3, HeadPending DEF FS!DeliverAndFail
<1> QED
  BY <1>1, <1>2, <1>4, HeadPending DEF Refines, FS!Next

LEMMA RefLoopStep ==
  ASSUME CaptureInv, CaptureInv', LoopStep
  PROVE  Refines
<1>1. CASE RunAclose
  <2>1. task = "done"
    BY <1>1, QAfter DEF RunAclose, After, CaptureInv
  <2> QED
    BY <1>1, <2>1, StutterStep DEF RunAclose, kernel, gen, Ended
<1>2. ASSUME NEW s \in Sockets, OnReadableTransient(s) PROVE Refines
  BY <1>2, StutterStep DEF OnReadableTransient, kernel, gen, Ended
<1>3. CASE Poll \/ ReadSelfPipe \/ RunCancel
  BY <1>3, StutterStep DEF Poll, ReadSelfPipe, RunCancel, kernel, gen, Ended
<1>4. CASE RunDrive \/ RunStop \/ CloseRunner \/ RunShutdownAsyncgens
  BY <1>4, StutterStep
     DEF RunDrive, RunStop, CloseRunner, RunShutdownAsyncgens, kernel, gen, Ended
<1> QED
  BY <1>1, <1>2, <1>3, <1>4, RefOnReadable DEF LoopStep

LEMMA RefTaskStep ==
  ASSUME CaptureInv, TaskStep
  PROVE  Refines
<1>1. CASE RunStep
  <2>1. /\ UNCHANGED <<arrived, delivered, queue, rx>>
        /\ task \in {"start", "waiting"}
        /\ task' \in {"setup", "body", "unwind", "done"}
    BY <1>1 DEF RunStep, Finish, kernel, gen
  <2>2. CASE task' \in {"setup", "body"}
    BY <2>1, <2>2, StutterStep DEF Ended
  <2>3. CASE task' \in {"unwind", "done"}
    BY <2>1, <2>3, EndStep DEF Ended
  <2> QED
    BY <2>1, <2>2, <2>3
<1>2. CASE CreateSocket \/ AttachFilter \/ BindAndRegister \/ SetupDone
  BY <1>2, StutterStep
     DEF CreateSocket, AttachFilter, BindAndRegister, RegisterWith, SetupDone,
         SettingUp, kernel, gen, Ended
<1>3. CASE CreateSocketFails \/ ConfigureFails
  BY <1>3, EndStep
     DEF CreateSocketFails, ConfigureFails, SettingUp, kernel, gen, Ended
<1>4. CASE TakeError
  BY <1>4, EndStep DEF TakeError, kernel, gen, Ended
<1>5. CASE Suspend
  BY <1>5, StutterStep DEF Suspend, kernel, gen, Ended
<1>6. CASE Release \/ Unwound \/ Aclosed
  BY <1>6, StutterStep DEF Release, Unwound, Aclosed, Finish, kernel, gen, Ended
<1> QED
  BY <1>1, <1>2, <1>3, <1>4, <1>5, <1>6, RefTake, RefTakeFails DEF TaskStep

LEMMA RefEnvironment ==
  ASSUME CaptureInv, Environment
  PROVE  Refines
<1>1. CASE Sigterm \/ Sigint
  BY <1>1, StutterStep DEF Sigterm, Sigint, kernel, gen, Ended
<1>2. ASSUME NEW s \in Sockets, LinkDown(s) PROVE Refines
  BY <1>2, StutterStep DEF LinkDown, gen, Ended
<1> QED
  BY <1>1, <1>2, RefArrive DEF Environment

LEMMA RefNext == CaptureInv /\ CaptureInv' /\ [Next]_vars => Refines
<1>1. ASSUME UNCHANGED vars PROVE Refines
  BY <1>1, StutterStep DEF vars, kernel, gen, Ended
<1> QED
  BY <1>1, RefEnvironment, RefLoopStep, RefTaskStep DEF Next, Closed

LEMMA RefInit == Init => FS!Init
<1> SUFFICES ASSUME Init PROVE FS!Init
  OBVIOUS
<1>1. ~Ended
  BY DEF Init, Ended
<1>2. ASSUME NEW s \in Sockets
      PROVE  QueuedIds(queue, s) \o FrameIds(rx[s]) = <<>>
  <2>1. queue = <<>> /\ rx[s] = <<>>
    BY DEF Init
  <2>2. QueuedIds(queue, s) = <<>>
    BY <2>1 DEF QueuedIds, Queued
  <2>3. FrameIds(rx[s]) = <<>>
    BY <2>1 DEF FrameIds
  <2> QED
    BY <2>2, <2>3
<1>3. Pending = [s \in Sockets |-> <<>>]
  BY <1>1, <1>2 DEF Pending
<1> QED
  BY <1>1, <1>3 DEF Init, FS!Init, Ended

\* The live capture is a stream: per socket, the outputs see the frames in
\* arrival order, none skipped and none twice, until the capture ends; only
\* then are frames the kernel had accepted thrown away.
THEOREM CaptureIsStream == Spec => ImplementsStream
<1>1. Init => FS!Init
  BY RefInit
<1>2. CaptureInv /\ CaptureInv' /\ [Next]_vars => [FS!Next]_FS!vars
  BY RefNext DEF Refines
<1>3. Spec => FS!SafeSpec
  BY <1>1, <1>2, CaptureInvariant, PTL DEF Spec, FS!SafeSpec
<1>4. FS!SafeSpec <=> ImplementsStream
  <2>1. FS!Init <=> Stream!Init
    BY DEF FS!Init, Stream!Init
  <2>2. [FS!Next]_FS!vars <=> [Stream!Next]_Stream!vars
    BY DEF FS!Next, FS!Arrive, FS!Deliver, FS!DeliverAndFail, FS!End, FS!Nothing,
           FS!vars, Stream!Next, Stream!Arrive, Stream!Deliver,
           Stream!DeliverAndFail, Stream!End, Stream!Nothing, Stream!vars
  <2> QED
    BY <2>1, <2>2, PTL DEF ImplementsStream, FS!SafeSpec, Stream!SafeSpec
<1> QED
  BY <1>3, <1>4

\* While the capture lasts, what the readers and the kernel have queued of a
\* socket are the frames after the last one delivered, in order, no gap.
THEOREM DeliveredInOrder == Spec => []InOrder
<1>1. FS!Contiguous <=> InOrder
  BY DEF InOrder, FS!Contiguous, Stream!Contiguous
<1>2. Init => FS!StreamInv
  BY RefInit, FS!StreamInit, CaptureAssumption
<1>3. CaptureInv /\ CaptureInv' /\ FS!StreamInv /\ [Next]_vars => FS!StreamInv'
  BY RefNext, FS!StreamNext, CaptureAssumption DEF Refines
<1>4. FS!StreamInv => InOrder
  BY <1>1 DEF FS!StreamInv
<1> QED
  BY <1>2, <1>3, <1>4, CaptureInvariant, PTL DEF Spec
=============================================================================
