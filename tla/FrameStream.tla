---------------------------- MODULE FrameStream ----------------------------
(***************************************************************************)
(* What a live capture promises its consumer (capture_async, capture.py):  *)
(* for each socket a FIFO stream of frames, delivered in arrival order     *)
(* with none skipped or repeated, until the capture ends.  Only then are   *)
(* frames that were accepted thrown away.  Frames carry a sequence number  *)
(* that wraps at Wrap.                                                     *)
(***************************************************************************)
EXTENDS Naturals, Sequences

CONSTANTS
  Sockets,
  Cap,   \* frames on the way a socket's stream can hold
  Wrap   \* frames are numbered modulo Wrap, which exceeds Cap

VARIABLES
  arrived,    \* number of the last frame the kernel accepted, per socket
  delivered,  \* number of the last frame the outputs saw, per socket
  pending,    \* numbers of the frames in between, oldest first
  ended       \* the capture is over

vars == <<arrived, delivered, pending, ended>>

Init ==
  /\ arrived = [s \in Sockets |-> 0]
  /\ delivered = [s \in Sockets |-> 0]
  /\ pending = [s \in Sockets |-> <<>>]
  /\ ended = FALSE

Nothing == [s \in Sockets |-> <<>>]

\* The kernel accepts a frame on socket s.
Arrive(s) ==
  /\ ~ended
  /\ Len(pending[s]) < Cap
  /\ arrived' = [arrived EXCEPT ![s] = (@ + 1) % Wrap]
  /\ pending' = [pending EXCEPT ![s] = Append(@, arrived'[s])]
  /\ UNCHANGED <<delivered, ended>>

\* The oldest undelivered frame of s reaches the outputs.
Deliver(s) ==
  /\ ~ended
  /\ pending[s] # <<>>
  /\ delivered' = [delivered EXCEPT ![s] = Head(pending[s])]
  /\ pending' = [pending EXCEPT ![s] = Tail(@)]
  /\ UNCHANGED <<arrived, ended>>

\* An output fails on a frame, which ends the capture.
DeliverAndFail(s) ==
  /\ ~ended
  /\ pending[s] # <<>>
  /\ delivered' = [delivered EXCEPT ![s] = Head(pending[s])]
  /\ pending' = Nothing
  /\ ended' = TRUE
  /\ UNCHANGED arrived

\* A signal, a read error or a failing set-up ends the capture; the frames
\* on the way are lost.
End ==
  /\ ~ended
  /\ ended' = TRUE
  /\ pending' = Nothing
  /\ UNCHANGED <<arrived, delivered>>

Next ==
  \/ \E s \in Sockets : Arrive(s) \/ Deliver(s) \/ DeliverAndFail(s)
  \/ End

SafeSpec == Init /\ [][Next]_vars

Spec == SafeSpec /\ \A s \in Sockets : WF_vars(Deliver(s))

-----------------------------------------------------------------------------

\* While the capture lasts, the frames on the way of a socket are exactly
\* those after the last delivered one up to the last arrived one, in order.
Contiguous ==
  ~ended =>
    \A s \in Sockets :
      /\ (delivered[s] + Len(pending[s])) % Wrap = arrived[s]
      /\ \A i \in 1 .. Len(pending[s]) :
           pending[s][i] = (delivered[s] + i) % Wrap

\* No socket starves: while frames of s are on the way, the next one is
\* delivered unless the capture ends first.
Progress ==
  \A s \in Sockets, id \in 0 .. Wrap - 1 :
    (pending[s] # <<>> /\ delivered[s] = id)
      ~> (ended \/ delivered[s] # id)
=============================================================================
