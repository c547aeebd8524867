--------------------------- MODULE SessionProofs ---------------------------
(***************************************************************************)
(* Theorems about Session: every safety property its run checks, for any   *)
(* number of frames, either SIGTERM disposition and every interleaving of  *)
(* signals with the steps of main().                                       *)
(***************************************************************************)
EXTENDS Session, TLAPS

-----------------------------------------------------------------------------
(* The inductive invariant.                                                *)

\* Before anything is yielded; while asyncio.run(_drive(...)) has the loop;
\* and the finally clause of main().
Before  == {"args", "outputs", "banner"}
Looping == {"next", "update"}
Finally == {"restore", "close", "report"}

\* Every output has consumed the same number of frames.
Even == seen["console"] = seen["stats"] /\ (args.write => seen["pcap"] = seen["stats"])

\* An exception that an output's update can raise.
Broken(e) == e \in {"Other", "Value"}

\* Where the frames are: inside update, the outputs before cur have the frame
\* in hand and the others do not; elsewhere only an exception of an output,
\* still propagating or hidden by a Ctrl-C, leaves them uneven.
FramesInv ==
  /\ ~args.write => seen["pcap"] = 0
  /\ disk <= seen["pcap"]
  /\ seen["console"] + left <= MaxFrames
  /\ OutputsInStep
  /\ pc \in Before => seen = [k \in Kinds |-> 0]
  /\ pc = "next" => Even
  /\ pc = "update" =>
       /\ seen["stats"] + left < MaxFrames
       /\ \A i \in 1 .. Len(Outputs) :
            /\ i < cur => seen[Outputs[i]] = seen["stats"] + 1
            /\ i >= cur => seen[Outputs[i]] = seen["stats"]
  /\ Even \/ pc = "update" \/ Broken(exc) \/ exc = "Abort" \/ Broken(masked)

\* What main() knows of the exception, the exit status and stderr.
StatusInv ==
  /\ pc \in Before \cup Looping => exc = "none" /\ masked = "none"
  /\ masked # "none" => "SIGINT" \in cancel
  /\ exc = "Abort" => pc \notin {"driven", "teardown"}
  /\ pc \in Before \cup Looping \cup {"driven", "teardown"} => code = 0
  /\ pc \in Finally => code = IF exc \in {"Permission", "Value"} THEN 1 ELSE 0
  /\ "summary" \in printed => pc = "exit" /\ ReportStats
  /\ ZeroIffSummary

\* Where the SIGTERM handler is.
SignalInv ==
  /\ pc \in Before \cup {"close", "report", "exit"} => disp = Previous
  /\ pc \in Looping \cup {"driven"} => disp = "armed"
  /\ pc \in {"teardown", "restore"} => disp = "default"

\* The outputs before cur are closed, and closing the -w file flushed it,
\* after which nothing is written to it.
ClosedUpTo(n) ==
  \A i \in 1 .. n :
    /\ Outputs[i] \in closed
    /\ Outputs[i] = "pcap" => disk = seen["pcap"]

CloseInv ==
  /\ pc \in Before \cup Looping \cup {"driven", "teardown", "restore"} => closed = {}
  /\ "pcap" \in closed => disk = seen["pcap"]
  /\ pc = "close" => ClosedUpTo(cur - 1)
  /\ pc = "report" \/ "summary" \in printed => ClosedUpTo(Len(Outputs))

\* The -w file has been opened only if the argument checks passed.
ArgsInv ==
  /\ pc \notin {"args", "exit", "interrupted", "killed"} => ~UsageError
  /\ ReplayedFileIntact

SessionInv == TypeOK /\ FramesInv /\ StatusInv /\ SignalInv /\ CloseInv /\ ArgsInv

-----------------------------------------------------------------------------
(* The chain of outputs.                                                   *)

LEMMA OutputsFacts ==
  ASSUME args \in Args
  PROVE  /\ args.write \in BOOLEAN
         /\ Outputs[1] = "console"
         /\ args.write => /\ Len(Outputs) = 3
                          /\ Outputs[2] = "pcap" /\ Outputs[3] = "stats"
         /\ ~args.write => Len(Outputs) = 2 /\ Outputs[2] = "stats"
         /\ Len(Outputs) \in {2, 3} /\ (Len(Outputs) = 3 <=> args.write)
         /\ Outputs[Len(Outputs)] = "stats"
<1>1. args.write \in BOOLEAN
  BY DEF Args
<1>2. CASE args.write
  BY <1>1, <1>2 DEF Outputs
<1>3. CASE ~args.write
  BY <1>1, <1>3 DEF Outputs
<1> QED
  BY <1>1, <1>2, <1>3

\* The command line never changes, and so neither does the chain.
LEMMA ArgsFixed ==
  ASSUME [Next]_vars
  PROVE  args' = args /\ Outputs' = Outputs
<1>1. args' = args
  BY DEF Next, vars, CheckArgs, BuildOutputs, BuildOutputsFails, Drive,
         NextFrame, EndOfFile, SourceFails, Cancel, Update, UpdateFails,
         Undrive, HandleException, RestoreSignal, CloseOutput, CloseFails,
         Report, Sigterm, SigintInRun, SigintInHandler, SigintOutside, Stopped
<1> QED
  BY <1>1 DEF Outputs

\* OutputsInStep, spelled out for the two chains there are.
LEMMA InStepFlat ==
  ASSUME args \in Args, NEW sn \in [Kinds -> Nat]
  PROVE  (\A i, j \in 1 .. Len(Outputs) :
            i < j => sn[Outputs[i]] - sn[Outputs[j]] \in {0, 1})
         <=> /\ sn["console"] - sn["stats"] \in {0, 1}
             /\ args.write => /\ sn["console"] - sn["pcap"] \in {0, 1}
                              /\ sn["pcap"] - sn["stats"] \in {0, 1}
<1>1. CASE args.write
  <2>1. 1 .. 3 = {1, 2, 3}
    OBVIOUS
  <2>2. /\ Len(Outputs) = 3
        /\ Outputs[1] = "console" /\ Outputs[2] = "pcap" /\ Outputs[3] = "stats"
    BY <1>1, OutputsFacts
  <2> QED
    BY <1>1, <2>1, <2>2 DEF Kinds
<1>2. CASE ~args.write
  <2>1. 1 .. 2 = {1, 2}
    OBVIOUS
  <2>2. /\ Len(Outputs) = 2
        /\ Outputs[1] = "console" /\ Outputs[2] = "stats"
    BY <1>2, OutputsFacts
  <2> QED
    BY <1>2, <2>1, <2>2 DEF Kinds
<1> QED
  BY <1>1, <1>2

-----------------------------------------------------------------------------
(* Types.                                                                  *)

LEMMA TypeInit == Init => TypeOK
<1> SUFFICES ASSUME Init PROVE TypeOK
  OBVIOUS
<1>1. cur \in 1 .. Len(Outputs)
  BY OutputsFacts DEF Init
<1>2. seen \in [Kinds -> 0 .. MaxFrames] /\ disk \in 0 .. MaxFrames
  BY SessionAssumption DEF Init
<1>3. disp \in {"default", "handler", "armed"}
  BY DEF Init, Previous, Args
<1> QED
  BY <1>1, <1>2, <1>3, SessionAssumption DEF Init, TypeOK

LEMMA TypeNext ==
  ASSUME TypeOK, FramesInv, [Next]_vars
  PROVE  TypeOK'
<1> USE SessionAssumption, ArgsFixed DEF TypeOK
<1>1. CASE CheckArgs
  BY <1>1 DEF CheckArgs
<1>2. CASE BuildOutputs
  <2>1. intact' \in BOOLEAN
    BY <1>2 DEF BuildOutputs
  <2> QED
    BY <1>2, <2>1 DEF BuildOutputs
<1>3. CASE BuildOutputsFails
  BY <1>3 DEF BuildOutputsFails
<1>4. CASE Drive
  BY <1>4 DEF Drive
<1>5. CASE NextFrame
  <2>1. 1 \in 1 .. Len(Outputs)
    BY OutputsFacts
  <2> QED
    BY <1>5, <2>1 DEF NextFrame
<1>6. CASE EndOfFile
  BY <1>6 DEF EndOfFile
<1>7. CASE SourceFails
  BY <1>7 DEF SourceFails, Raised, Caught
<1>8. CASE Cancel
  BY <1>8 DEF Cancel, Raised, Caught
<1>9. CASE Update
  <2> DEFINE k == Outputs[cur]
  <2>1. k \in Kinds
    BY OutputsFacts DEF Kinds
  <2>2. seen[k] \in 0 .. MaxFrames - 1
    <3>1. k # "none" /\ seen[k] = seen["stats"] /\ seen["stats"] + left < MaxFrames
      BY <1>9, <2>1 DEF Update, FramesInv, Kinds
    <3> QED
      BY <3>1 DEF Kinds
  <2>3. seen' \in [Kinds -> 0 .. MaxFrames]
    BY <1>9, <2>1, <2>2 DEF Update
  <2>4. disk' \in 0 .. MaxFrames
    BY <1>9, <2>1, <2>2 DEF Update
  <2>5. cur' \in 1 .. Len(Outputs) /\ pc' \in {"update", "next"}
    BY <1>9, OutputsFacts DEF Update
  <2> QED
    BY <1>9, <2>3, <2>4, <2>5 DEF Update
<1>10. CASE UpdateFails
  BY <1>10 DEF UpdateFails, Raised, Caught
<1>11. CASE Undrive
  BY <1>11 DEF Undrive
<1>12. CASE HandleException
  BY <1>12 DEF HandleException
<1>13. CASE RestoreSignal
  <2>1. 1 \in 1 .. Len(Outputs)
    BY OutputsFacts
  <2> QED
    BY <1>13, <2>1 DEF RestoreSignal, Previous, Args
<1>14. CASE CloseOutput
  <2>1. Outputs[cur] \in Kinds
    BY OutputsFacts DEF Kinds
  <2>2. disk' \in 0 .. MaxFrames
    BY <1>14 DEF CloseOutput, Kinds
  <2>3. cur' \in 1 .. Len(Outputs) /\ pc' \in {"close", "report"}
    BY <1>14, OutputsFacts DEF CloseOutput
  <2> QED
    BY <1>14, <2>1, <2>2, <2>3 DEF CloseOutput
<1>15. CASE CloseFails
  BY <1>15 DEF CloseFails, Raised, Caught
<1>16. CASE Report
  BY <1>16 DEF Report
<1>17. CASE Sigterm
  BY <1>17 DEF Sigterm
<1>18. CASE SigintInRun
  BY <1>18 DEF SigintInRun, Raised, Caught
<1>19. CASE SigintInHandler
  BY <1>19 DEF SigintInHandler, Raised, Caught
<1>20. CASE SigintOutside
  BY <1>20 DEF SigintOutside, Kinds
<1>21. CASE UNCHANGED vars
  BY <1>21 DEF vars
<1> QED
  BY <1>1, <1>2, <1>3, <1>4, <1>5, <1>6, <1>7, <1>8, <1>9, <1>10, <1>11,
     <1>12, <1>13, <1>14, <1>15, <1>16, <1>17, <1>18, <1>19, <1>20, <1>21
     DEF Next, Stopped

-----------------------------------------------------------------------------
(* Frames.                                                                 *)

\* The steps of a frame through the chain, spelled out for the two chains.
LEMMA UpdateFlat ==
  ASSUME TypeOK, NEW sn \in [Kinds -> Nat], NEW c \in 1 .. Len(Outputs)
  PROVE  (\A i \in 1 .. Len(Outputs) :
            /\ i < c => sn[Outputs[i]] = sn["stats"] + 1
            /\ i >= c => sn[Outputs[i]] = sn["stats"])
         <=> /\ 1 < c => sn["console"] = sn["stats"] + 1
             /\ 1 >= c => sn["console"] = sn["stats"]
             /\ args.write /\ 2 < c => sn["pcap"] = sn["stats"] + 1
             /\ args.write /\ 2 >= c => sn["pcap"] = sn["stats"]
<1>1. CASE args.write
  <2>1. 1 .. 3 = {1, 2, 3}
    OBVIOUS
  <2>2. /\ Len(Outputs) = 3
        /\ Outputs[1] = "console" /\ Outputs[2] = "pcap" /\ Outputs[3] = "stats"
    BY <1>1, OutputsFacts DEF TypeOK
  <2> QED
    BY <1>1, <2>1, <2>2 DEF Kinds
<1>2. CASE ~args.write
  <2>1. 1 .. 2 = {1, 2}
    OBVIOUS
  <2>2. /\ Len(Outputs) = 2
        /\ Outputs[1] = "console" /\ Outputs[2] = "stats"
    BY <1>2, OutputsFacts DEF TypeOK
  <2> QED
    BY <1>2, <2>1, <2>2 DEF Kinds
<1> QED
  BY <1>1, <1>2

LEMMA FramesInit == Init => FramesInv
<1> SUFFICES ASSUME Init PROVE FramesInv
  OBVIOUS
<1>1. seen \in [Kinds -> Nat] /\ args \in Args
  BY DEF Init
<1>2. seen["console"] = 0 /\ seen["pcap"] = 0 /\ seen["stats"] = 0
  BY DEF Init, Kinds
<1>3. OutputsInStep
  BY <1>1, <1>2, InStepFlat DEF OutputsInStep
<1>4. left <= MaxFrames /\ left \in Nat
  BY SessionAssumption DEF Init
<1> QED
  BY <1>1, <1>2, <1>3, <1>4 DEF Init, FramesInv, Even, Before

\* What a step that consumes no frame has to keep.
LEMMA FramesKept ==
  ASSUME TypeOK, FramesInv, args' = args, Outputs' = Outputs,
         seen' = seen, left' = left, disk' <= seen["pcap"],
         pc' # "update", pc' \in Before => pc \in Before,
         pc' = "next" => Even,
         Even \/ Broken(exc') \/ exc' = "Abort" \/ Broken(masked')
  PROVE  FramesInv'
<1>1. OutputsInStep' /\ (Even <=> Even')
  BY DEF FramesInv, OutputsInStep, Even
<1> QED
  BY <1>1 DEF FramesInv, Broken

LEMMA FramesNext ==
  ASSUME TypeOK, FramesInv, StatusInv, SignalInv, [Next]_vars
  PROVE  FramesInv'
<1> USE ArgsFixed
<1>0. /\ disk <= seen["pcap"] /\ seen \in [Kinds -> Nat]
      /\ seen["console"] \in Nat /\ seen["pcap"] \in Nat /\ seen["stats"] \in Nat
      /\ left \in Nat /\ MaxFrames \in Nat
  BY SessionAssumption DEF TypeOK, FramesInv, Kinds
<1>30. pc # "update" => Even \/ Broken(exc) \/ exc = "Abort" \/ Broken(masked)
  BY DEF FramesInv
<1>31. pc \in Before => Even
  BY <1>0 DEF FramesInv, Even, Kinds
<1>1. CASE CheckArgs
  BY <1>1, <1>0, <1>31, FramesKept DEF CheckArgs, Before
<1>2. CASE BuildOutputs
  BY <1>2, <1>0, <1>31, FramesKept DEF BuildOutputs, Before
<1>3. CASE BuildOutputsFails
  BY <1>3, <1>0, <1>31, FramesKept DEF BuildOutputsFails, Before
<1>4. CASE Drive
  BY <1>4, <1>0, <1>31, FramesKept DEF Drive, Before
<1>5. CASE NextFrame
  <2>1. Even /\ OutputsInStep /\ seen["console"] + left <= MaxFrames
    BY <1>5 DEF NextFrame, FramesInv
  <2>2. /\ left' = left - 1 /\ left > 0 /\ seen' = seen /\ cur' = 1
        /\ pc' = "update" /\ disk' = disk
    BY <1>5 DEF NextFrame
  <2>3. seen["stats"] + left' < MaxFrames
    BY <1>0, <2>1, <2>2 DEF Even
  <2>4. 1 \in 1 .. Len(Outputs)
    BY OutputsFacts DEF TypeOK
  <2>5. \A i \in 1 .. Len(Outputs) :
          /\ i < 1 => seen[Outputs[i]] = seen["stats"] + 1
          /\ i >= 1 => seen[Outputs[i]] = seen["stats"]
    BY <1>0, <2>1, <2>4, UpdateFlat DEF Even
  <2>6. OutputsInStep'
    BY <2>1, <2>2 DEF OutputsInStep
  <2> QED
    BY <1>0, <2>1, <2>2, <2>3, <2>5, <2>6 DEF FramesInv, Before
<1>6. CASE EndOfFile
  <2>1. Even
    BY <1>6 DEF EndOfFile, FramesInv
  <2> QED
    BY <1>6, <1>0, <2>1, FramesKept DEF EndOfFile, Before
<1>7. CASE SourceFails
  <2>1. Even
    BY <1>7 DEF SourceFails, FramesInv
  <2> QED
    BY <1>7, <1>0, <2>1, FramesKept DEF SourceFails, Before
<1>8. CASE Cancel
  <2>1. Even
    BY <1>8 DEF Cancel, FramesInv
  <2> QED
    BY <1>8, <1>0, <2>1, FramesKept DEF Cancel, Before
<1>9. CASE Update
  <2>1. /\ seen["stats"] + left < MaxFrames
        /\ 1 < cur => seen["console"] = seen["stats"] + 1
        /\ 1 >= cur => seen["console"] = seen["stats"]
        /\ args.write /\ 2 < cur => seen["pcap"] = seen["stats"] + 1
        /\ args.write /\ 2 >= cur => seen["pcap"] = seen["stats"]
        /\ ~args.write => seen["pcap"] = 0
    BY <1>9, <1>0, UpdateFlat DEF Update, FramesInv, TypeOK
  <2>2. /\ seen' = [seen EXCEPT ![Outputs[cur]] = @ + 1] /\ left' = left
        /\ IF Outputs[cur] = "pcap" THEN disk' \in {disk, seen["pcap"], seen["pcap"] + 1}
                                    ELSE disk' = disk
        /\ IF cur < Len(Outputs) THEN cur' = cur + 1 /\ pc' = "update"
                                 ELSE pc' = "next"
    BY <1>9 DEF Update
  <2>3. /\ cur \in 1 .. Len(Outputs) /\ disk \in Nat /\ args.write \in BOOLEAN
        /\ Len(Outputs) \in {2, 3} /\ (Len(Outputs) = 3 <=> args.write)
        /\ Outputs[1] = "console" /\ Outputs[Len(Outputs)] = "stats"
        /\ Len(Outputs) = 3 => Outputs[2] = "pcap"
    BY SessionAssumption, OutputsFacts DEF TypeOK
  <2>4. CASE cur = 1
    <3>1. Outputs[cur] = "console" /\ cur < Len(Outputs)
      BY <2>3, <2>4
    <3>2. /\ seen'["console"] = seen["stats"] + 1 /\ seen'["pcap"] = seen["pcap"]
          /\ seen'["stats"] = seen["stats"] /\ seen' \in [Kinds -> Nat]
          /\ cur' = 2 /\ pc' = "update" /\ disk' = disk
      BY <1>0, <2>1, <2>2, <2>4, <3>1 DEF Kinds
    <3>3. OutputsInStep'
      <4>1. /\ seen'["console"] - seen'["stats"] \in {0, 1}
            /\ args.write => /\ seen'["console"] - seen'["pcap"] \in {0, 1}
                             /\ seen'["pcap"] - seen'["stats"] \in {0, 1}
        BY <1>0, <2>1, <2>3, <2>4, <3>2
      <4> QED
        BY <3>2, <4>1, InStepFlat DEF OutputsInStep, TypeOK
    <3>4. cur' \in 1 .. Len(Outputs)
      BY <2>3, <2>4, <3>1, <3>2
    <3>5. \A i \in 1 .. Len(Outputs) :
            /\ i < cur' => seen'[Outputs[i]] = seen'["stats"] + 1
            /\ i >= cur' => seen'[Outputs[i]] = seen'["stats"]
      BY <1>0, <2>1, <2>3, <2>4, <3>2, <3>4, UpdateFlat, SMTT(30)
    <3> QED
      <4>1. seen'["console"] + left' <= MaxFrames /\ seen'["stats"] + left' < MaxFrames
        BY <1>0, <2>1, <2>2, <3>2
      <4> QED
        BY <1>0, <2>1, <3>2, <3>3, <3>5, <4>1 DEF FramesInv, Before
  <2>5. CASE cur = 2 /\ Len(Outputs) = 3
    <3>1. Outputs[cur] = "pcap" /\ cur < Len(Outputs)
      BY <2>3, <2>5
    <3>2. /\ seen'["console"] = seen["stats"] + 1 /\ seen'["pcap"] = seen["stats"] + 1
          /\ seen'["stats"] = seen["stats"] /\ seen' \in [Kinds -> Nat]
          /\ cur' = 3 /\ pc' = "update"
      BY <1>0, <2>1, <2>2, <2>3, <2>5, <3>1 DEF Kinds
    <3>3. OutputsInStep'
      <4>1. /\ seen'["console"] - seen'["stats"] \in {0, 1}
            /\ args.write => /\ seen'["console"] - seen'["pcap"] \in {0, 1}
                             /\ seen'["pcap"] - seen'["stats"] \in {0, 1}
        BY <1>0, <2>1, <2>3, <2>5, <3>2
      <4> QED
        BY <3>2, <4>1, InStepFlat DEF OutputsInStep, TypeOK
    <3>4. cur' \in 1 .. Len(Outputs)
      BY <2>3, <2>5, <3>1, <3>2
    <3>5. \A i \in 1 .. Len(Outputs) :
            /\ i < cur' => seen'[Outputs[i]] = seen'["stats"] + 1
            /\ i >= cur' => seen'[Outputs[i]] = seen'["stats"]
      BY <1>0, <2>1, <2>3, <2>5, <3>2, <3>4, UpdateFlat
    <3>6. disk' <= seen'["pcap"]
      BY <1>0, <2>1, <2>2, <2>3, <2>5, <3>1, <3>2
    <3> QED
      <4>1. seen'["console"] + left' <= MaxFrames /\ seen'["stats"] + left' < MaxFrames
        BY <1>0, <2>1, <2>2, <3>2, SMTT(30)
      <4> QED
        BY <2>3, <2>5, <3>2, <3>3, <3>5, <3>6, <4>1 DEF FramesInv, Before
  <2>6. CASE cur = Len(Outputs)
    <3>1. Outputs[cur] = "stats" /\ ~(cur < Len(Outputs))
      BY <2>3, <2>6
    <3>2. /\ seen'["console"] = seen["stats"] + 1 /\ seen'["pcap"] = seen["pcap"]
          /\ seen'["stats"] = seen["stats"] + 1 /\ seen' \in [Kinds -> Nat]
          /\ pc' = "next" /\ disk' = disk
      BY <1>0, <2>1, <2>2, <2>3, <2>6, <3>1, SMTT(30) DEF Kinds
    <3>3. Even'
      BY <1>0, <2>1, <2>3, <2>6, <3>2 DEF Even
    <3>4. OutputsInStep'
      <4>1. /\ seen'["console"] - seen'["stats"] \in {0, 1}
            /\ args.write => /\ seen'["console"] - seen'["pcap"] \in {0, 1}
                             /\ seen'["pcap"] - seen'["stats"] \in {0, 1}
        BY <1>0, <3>2, <3>3 DEF Even
      <4> QED
        BY <3>2, <4>1, InStepFlat DEF OutputsInStep, TypeOK
    <3> QED
      BY <1>0, <2>1, <2>2, <3>2, <3>3, <3>4 DEF FramesInv, Before
  <2> QED
    BY <2>3, <2>4, <2>5, <2>6
<1>10. CASE UpdateFails
  BY <1>10, <1>0, FramesKept DEF UpdateFails, Before, Broken
<1>11. CASE Undrive
  BY <1>11, <1>0, <1>30, FramesKept DEF Undrive, Before
<1>12. CASE HandleException
  BY <1>12, <1>0, <1>30, FramesKept DEF HandleException, Before
<1>13. CASE RestoreSignal
  BY <1>13, <1>0, <1>30, FramesKept DEF RestoreSignal, Before
<1>14. CASE CloseOutput
  BY <1>14, <1>0, <1>30, FramesKept DEF CloseOutput, Before
<1>15. CASE CloseFails
  BY <1>15, <1>0, FramesKept DEF CloseFails, Before, Broken
<1>16. CASE Report
  BY <1>16, <1>0, <1>30, FramesKept DEF Report, Before
<1>17. CASE Sigterm
  <2>1. CASE pc' = pc
    <3>1. OutputsInStep' /\ (Even <=> Even')
      BY <1>17 DEF Sigterm, FramesInv, OutputsInStep, Even
    <3> QED
      BY <1>17, <2>1, <3>1 DEF Sigterm, FramesInv, Broken
  <2>2. CASE pc' = "killed"
    <3>1. pc # "update" /\ disp = "default"
      BY <1>17, <2>2 DEF Sigterm, SignalInv, Looping, Running
    <3> QED
      BY <1>17, <2>2, <3>1, <1>0, <1>30, FramesKept DEF Sigterm, Before
  <2> QED
    BY <1>17, <2>1, <2>2 DEF Sigterm
<1>18. CASE SigintInRun
  <2>1. CASE pc \in Looping
    <3>1. OutputsInStep' /\ (Even <=> Even')
      BY <1>18 DEF SigintInRun, FramesInv, OutputsInStep, Even
    <3> QED
      BY <1>18, <2>1, <3>1 DEF SigintInRun, FramesInv, Broken, Looping
  <2>2. CASE pc \in {"driven", "teardown"}
    <3>1. masked = "none"
      BY <1>18, <2>2 DEF SigintInRun, StatusInv
    <3>2. masked' = exc /\ (Even \/ Broken(exc))
      BY <1>18, <2>2, <3>1, <1>30 DEF SigintInRun, StatusInv, Broken
    <3> QED
      BY <1>18, <2>2, <3>1, <3>2, <1>0, FramesKept DEF SigintInRun, Before
  <2> QED
    BY <1>18, <2>1, <2>2 DEF SigintInRun, Looping
<1>19. CASE SigintInHandler
  BY <1>19, <1>0, FramesKept DEF SigintInHandler, Before, Broken
<1>20. CASE SigintOutside
  BY <1>20, <1>0, <1>30, FramesKept DEF SigintOutside, Before
<1>21. CASE UNCHANGED vars
  <2>1. OutputsInStep' /\ (Even <=> Even')
    BY <1>21 DEF vars, FramesInv, OutputsInStep, Even
  <2> QED
    BY <1>21, <2>1 DEF vars, FramesInv, Broken
<1> QED
  BY <1>1, <1>2, <1>3, <1>4, <1>5, <1>6, <1>7, <1>8, <1>9, <1>10, <1>11,
     <1>12, <1>13, <1>14, <1>15, <1>16, <1>17, <1>18, <1>19, <1>20, <1>21
     DEF Next, Stopped

-----------------------------------------------------------------------------
(* Exit status and diagnostics.                                            *)

LEMMA StatusInit == Init => StatusInv
  BY DEF Init, StatusInv, ZeroIffSummary, Before, Looping, Finally

LEMMA StatusNext ==
  ASSUME TypeOK, StatusInv, [Next]_vars
  PROVE  StatusInv'
<1> USE DEF StatusInv, ZeroIffSummary, ReportStats, Before, Looping, Finally
<1>1. CASE CheckArgs
  BY <1>1 DEF CheckArgs
<1>2. CASE BuildOutputs
  BY <1>2 DEF BuildOutputs
<1>3. CASE BuildOutputsFails
  BY <1>3 DEF BuildOutputsFails
<1>4. CASE Drive
  BY <1>4 DEF Drive
<1>5. CASE NextFrame
  BY <1>5 DEF NextFrame
<1>6. CASE EndOfFile
  BY <1>6 DEF EndOfFile
<1>7. CASE SourceFails
  BY <1>7 DEF SourceFails
<1>8. CASE Cancel
  BY <1>8 DEF Cancel
<1>9. CASE Update
  BY <1>9 DEF Update
<1>10. CASE UpdateFails
  BY <1>10 DEF UpdateFails
<1>11. CASE Undrive
  BY <1>11 DEF Undrive
<1>12. CASE HandleException
  BY <1>12 DEF HandleException
<1>13. CASE RestoreSignal
  BY <1>13 DEF RestoreSignal
<1>14. CASE CloseOutput
  BY <1>14 DEF CloseOutput
<1>15. CASE CloseFails
  BY <1>15 DEF CloseFails
<1>16. CASE Report
  BY <1>16 DEF Report, TypeOK, Raised, Caught
<1>17. CASE Sigterm
  BY <1>17 DEF Sigterm, Running
<1>18. CASE SigintInRun
  BY <1>18 DEF SigintInRun
<1>19. CASE SigintInHandler
  BY <1>19 DEF SigintInHandler
<1>20. CASE SigintOutside
  BY <1>20 DEF SigintOutside
<1>21. CASE UNCHANGED vars
  BY <1>21 DEF vars
<1> QED
  BY <1>1, <1>2, <1>3, <1>4, <1>5, <1>6, <1>7, <1>8, <1>9, <1>10, <1>11,
     <1>12, <1>13, <1>14, <1>15, <1>16, <1>17, <1>18, <1>19, <1>20, <1>21
     DEF Next, Stopped

-----------------------------------------------------------------------------
(* The SIGTERM disposition, and the argument checks.                       *)

LEMMA SignalInit == Init => SignalInv
  BY DEF Init, SignalInv, Before, Looping

LEMMA SignalNext ==
  ASSUME SignalInv, [Next]_vars
  PROVE  SignalInv'
<1>0. Previous' = Previous
  BY ArgsFixed DEF Previous
<1> USE <1>0 DEF SignalInv, Before, Looping
<1>1. CASE CheckArgs \/ BuildOutputs \/ BuildOutputsFails \/ Drive
  BY <1>1 DEF CheckArgs, BuildOutputs, BuildOutputsFails, Drive
<1>2. CASE NextFrame \/ EndOfFile \/ SourceFails \/ Cancel \/ Update \/ UpdateFails
  BY <1>2 DEF NextFrame, EndOfFile, SourceFails, Cancel, Update, UpdateFails
<1>3. CASE Undrive \/ HandleException \/ RestoreSignal
  BY <1>3 DEF Undrive, HandleException, RestoreSignal
<1>4. CASE CloseOutput \/ CloseFails \/ Report
  BY <1>4 DEF CloseOutput, CloseFails, Report
<1>5. CASE Sigterm \/ SigintInRun \/ SigintInHandler \/ SigintOutside
  BY <1>5 DEF Sigterm, SigintInRun, SigintInHandler, SigintOutside
<1>6. CASE UNCHANGED vars
  BY <1>6 DEF vars
<1> QED
  BY <1>1, <1>2, <1>3, <1>4, <1>5, <1>6 DEF Next, Stopped

LEMMA ArgsInit == Init => ArgsInv
  BY DEF Init, ArgsInv, ReplayedFileIntact

\* Only CheckArgs lets a run past the argument checks, and only a run past
\* them opens the -w file.
LEMMA ArgsNext ==
  ASSUME TypeOK, ArgsInv, [Next]_vars
  PROVE  ArgsInv'
<1>0. args' = args /\ (UsageError <=> UsageError')
  BY ArgsFixed DEF UsageError, SameFile
<1> USE <1>0 DEF ArgsInv, ReplayedFileIntact
<1>1. CASE CheckArgs
  BY <1>1 DEF CheckArgs
<1>2. CASE BuildOutputs
  <2>1. args.mode = "replay" /\ args.write => args.paths = "distinct"
    BY <1>2 DEF BuildOutputs, UsageError, SameFile, TypeOK, Args, Aliases
  <2> QED
    BY <1>2, <2>1 DEF BuildOutputs
<1>3. CASE BuildOutputsFails \/ Drive
  BY <1>3 DEF BuildOutputsFails, Drive
<1>4. CASE NextFrame \/ EndOfFile \/ SourceFails \/ Cancel \/ Update \/ UpdateFails
  BY <1>4 DEF NextFrame, EndOfFile, SourceFails, Cancel, Update, UpdateFails
<1>5. CASE Undrive \/ HandleException \/ RestoreSignal
  BY <1>5 DEF Undrive, HandleException, RestoreSignal
<1>6. CASE CloseOutput \/ CloseFails \/ Report
  BY <1>6 DEF CloseOutput, CloseFails, Report
<1>7. CASE Sigterm \/ SigintInRun \/ SigintInHandler \/ SigintOutside
  BY <1>7 DEF Sigterm, SigintInRun, SigintInHandler, SigintOutside
<1>8. CASE UNCHANGED vars
  BY <1>8 DEF vars
<1> QED
  BY <1>1, <1>2, <1>3, <1>4, <1>5, <1>6, <1>7, <1>8 DEF Next, Stopped

-----------------------------------------------------------------------------
(* Closing.                                                                *)

LEMMA CloseInit == Init => CloseInv
  BY DEF Init, CloseInv, Before, Looping

LEMMA CloseNext ==
  ASSUME TypeOK, FramesInv, StatusInv, CloseInv, [Next]_vars
  PROVE  CloseInv'
<1> USE ArgsFixed DEF Before, Looping
<1>1. CASE CheckArgs \/ BuildOutputs \/ BuildOutputsFails \/ Drive
  BY <1>1 DEF CheckArgs, BuildOutputs, BuildOutputsFails, Drive, CloseInv, StatusInv
<1>2. CASE NextFrame \/ EndOfFile \/ SourceFails \/ Cancel \/ Update \/ UpdateFails
  BY <1>2 DEF NextFrame, EndOfFile, SourceFails, Cancel, Update, UpdateFails,
              CloseInv, StatusInv
<1>3. CASE Undrive \/ HandleException
  BY <1>3 DEF Undrive, HandleException, CloseInv, StatusInv
<1>4. CASE RestoreSignal
  BY <1>4 DEF RestoreSignal, CloseInv, ClosedUpTo, StatusInv
<1>5. CASE CloseOutput
  <2>1. /\ ClosedUpTo(cur - 1) /\ cur \in 1 .. Len(Outputs) /\ Len(Outputs) \in Nat
        /\ "summary" \notin printed /\ ("pcap" \in closed => disk = seen["pcap"])
    BY <1>5, OutputsFacts DEF CloseOutput, CloseInv, StatusInv, TypeOK
  <2>2. /\ closed' = closed \cup {Outputs[cur]} /\ seen' = seen /\ printed' = printed
        /\ disk' = IF Outputs[cur] = "pcap" THEN seen["pcap"] ELSE disk
        /\ IF cur < Len(Outputs) THEN cur' = cur + 1 /\ pc' = "close"
                                 ELSE pc' = "report" /\ cur' = cur
    BY <1>5 DEF CloseOutput
  <2>3. \A i \in 1 .. cur :
          /\ Outputs[i] \in closed'
          /\ Outputs[i] = "pcap" => disk' = seen'["pcap"]
    <3> SUFFICES ASSUME NEW i \in 1 .. cur
                 PROVE  /\ Outputs[i] \in closed'
                        /\ Outputs[i] = "pcap" => disk' = seen'["pcap"]
      OBVIOUS
    <3>1. CASE i = cur
      BY <2>2, <3>1
    <3>2. CASE i # cur
      <4>1. i \in 1 .. cur - 1
        BY <2>1, <3>2
      <4> QED
        BY <2>1, <2>2, <4>1 DEF ClosedUpTo
    <3> QED
      BY <3>1, <3>2
  <2>4. "pcap" \in closed' => disk' = seen'["pcap"]
    BY <2>1, <2>2
  <2>5. CASE cur < Len(Outputs)
    <3>1. cur' - 1 = cur
      BY <2>1, <2>2, <2>5
    <3> QED
      BY <2>1, <2>2, <2>3, <2>4, <2>5, <3>1 DEF CloseInv, ClosedUpTo
  <2>6. CASE ~(cur < Len(Outputs))
    <3>1. cur = Len(Outputs)
      BY <2>1, <2>6
    <3> QED
      BY <2>1, <2>2, <2>3, <2>4, <2>6, <3>1 DEF CloseInv, ClosedUpTo
  <2> QED
    BY <2>5, <2>6
<1>6. CASE CloseFails
  BY <1>6 DEF CloseFails, CloseInv, StatusInv
<1>7. CASE Report
  BY <1>7 DEF Report, CloseInv, ClosedUpTo
<1>8. CASE Sigterm
  BY <1>8 DEF Sigterm, Running, CloseInv, ClosedUpTo
<1>9. CASE SigintInRun
  BY <1>9 DEF SigintInRun, CloseInv, StatusInv
<1>10. CASE SigintInHandler \/ SigintOutside
  BY <1>10 DEF SigintInHandler, SigintOutside, CloseInv, StatusInv
<1>11. CASE UNCHANGED vars
  BY <1>11 DEF vars, CloseInv, ClosedUpTo
<1> QED
  BY <1>1, <1>2, <1>3, <1>4, <1>5, <1>6, <1>7, <1>8, <1>9, <1>10, <1>11
     DEF Next, Stopped

-----------------------------------------------------------------------------
(* The theorems.                                                           *)

LEMMA SessionInvariant == Spec => []SessionInv
<1>1. Init => SessionInv
  BY TypeInit, FramesInit, StatusInit, SignalInit, CloseInit, ArgsInit
     DEF SessionInv
<1>2. SessionInv /\ [Next]_vars => SessionInv'
  BY TypeNext, FramesNext, StatusNext, SignalNext, CloseNext, ArgsNext
     DEF SessionInv
<1> QED
  BY <1>1, <1>2, PTL DEF Spec

\* Every variable keeps its type: no output consumes more frames than the
\* source had, and no more records reach the -w file than were written to it.
THEOREM SessionTypes == Spec => []TypeOK
<1>1. SessionInv => TypeOK
  BY DEF SessionInv
<1> QED
  BY <1>1, SessionInvariant, PTL

\* However signals fall between the steps of main(), the summary is printed
\* only when every output is closed, has every frame counted and the -w file
\* holds them all, unless a Ctrl-C took the place of an output's exception.
THEOREM SummaryIsTrue == Spec => []SummaryMatchesFile
<1>1. SessionInv => SummaryMatchesFile
  <2> SUFFICES ASSUME SessionInv, "summary" \in printed,
                      masked \notin {"Other", "Value"}
               PROVE  /\ \A i \in 1 .. Len(Outputs) :
                           Outputs[i] \in closed /\ seen[Outputs[i]] = seen["stats"]
                      /\ args.write => disk = seen["stats"]
    BY DEF SummaryMatchesFile
  <2>1. pc = "exit" /\ ~Broken(exc) /\ exc # "Abort" /\ ~Broken(masked)
    BY DEF SessionInv, StatusInv, ReportStats, Broken
  <2>2. Even
    BY <2>1 DEF SessionInv, FramesInv
  <2>3. ClosedUpTo(Len(Outputs))
    BY DEF SessionInv, CloseInv
  <2>4. args \in Args
    BY DEF SessionInv, TypeOK
  <2>5. /\ Len(Outputs) \in {2, 3} /\ (Len(Outputs) = 3 <=> args.write)
        /\ Outputs[1] = "console" /\ Outputs[Len(Outputs)] = "stats"
        /\ Len(Outputs) = 3 => Outputs[2] = "pcap"
    BY <2>4, OutputsFacts
  <2>6. ASSUME NEW i \in 1 .. Len(Outputs)
        PROVE  Outputs[i] \in closed /\ seen[Outputs[i]] = seen["stats"]
    <3>1. i = 1 \/ i = Len(Outputs) \/ (i = 2 /\ Len(Outputs) = 3)
      BY <2>5
    <3> QED
      BY <2>2, <2>3, <2>5, <3>1 DEF ClosedUpTo, Even
  <2>7. ASSUME args.write PROVE disk = seen["stats"]
    <3>1. 2 \in 1 .. Len(Outputs) /\ Outputs[2] = "pcap"
      BY <2>5, <2>7
    <3> QED
      BY <2>2, <2>3, <2>7, <3>1 DEF ClosedUpTo, Even
  <2> QED
    BY <2>6, <2>7
<1> QED
  BY <1>1, SessionInvariant, PTL

\* main() leaves with status 0 exactly when it has printed the summary.
THEOREM ZeroMeansSummary == Spec => []ZeroIffSummary
<1>1. SessionInv => ZeroIffSummary
  BY DEF SessionInv, StatusInv
<1> QED
  BY <1>1, SessionInvariant, PTL

\* A failing update ends the run: no output is ever more than one frame
\* behind another, nor ahead of one before it in the chain.
THEOREM ChainInStep == Spec => []OutputsInStep
<1>1. SessionInv => OutputsInStep
  BY DEF SessionInv, FramesInv
<1> QED
  BY <1>1, SessionInvariant, PTL

\* The caller's SIGTERM disposition is back whenever main() has returned,
\* exited or raised, unless a Ctrl-C struck inside the finally clause.
THEOREM DispositionGivenBack == Spec => []DispositionRestored
<1>1. SessionInv => DispositionRestored
  BY DEF SessionInv, SignalInv, DispositionRestored
<1> QED
  BY <1>1, SessionInvariant, PTL

\* While the capture lasts, before it and once the -w file is closed, a
\* SIGTERM costs no record: only from _drive's finally clause, which puts it
\* at its default, to the writer's close() can it kill with a full buffer.
THEOREM SigtermCostsNothingElsewhere == Spec => SigtermLosesOnlyAtTheEnd
<1>1. SessionInv /\ [Next]_vars =>
        [pc' = "killed" /\ disk # seen["pcap"] =>
           \/ pc \in {"teardown", "restore"}
           \/ pc = "close" /\ "pcap" \notin closed]_vars
  <2> SUFFICES ASSUME SessionInv, Next, ~UNCHANGED vars, pc' = "killed",
                      pc \notin {"teardown", "restore"},
                      pc = "close" => "pcap" \in closed
               PROVE  disk = seen["pcap"]
    OBVIOUS
  <2>1. Sigterm
    <3>1. pc # "killed"
      BY DEF Next, Stopped, CheckArgs, BuildOutputs, BuildOutputsFails, Drive,
             NextFrame, EndOfFile, SourceFails, Cancel, Update, UpdateFails,
             Undrive, HandleException, RestoreSignal, CloseOutput, CloseFails,
             Report, Sigterm, SigintInRun, SigintInHandler, SigintOutside, Running
    <3> QED
      BY <3>1 DEF Next, Stopped, CheckArgs, BuildOutputs, BuildOutputsFails, Drive,
             NextFrame, EndOfFile, SourceFails, Cancel, Update, UpdateFails,
             Undrive, HandleException, RestoreSignal, CloseOutput, CloseFails,
             Report, SigintInRun, SigintInHandler, SigintOutside
  <2>2. Running /\ disp = "default"
    BY <2>1 DEF Sigterm, Running
  <2>3. pc \in Before \cup {"close", "report"}
    BY <2>2 DEF Running, SessionInv, TypeOK, SignalInv, Before, Looping
  <2>4. disk \in Nat /\ disk <= seen["pcap"] /\ args \in Args
    BY SessionAssumption DEF SessionInv, TypeOK, FramesInv
  <2>5. CASE pc \in Before
    <3>1. seen["pcap"] = 0
      BY <2>5 DEF SessionInv, FramesInv, Kinds
    <3> QED
      BY <2>4, <3>1
  <2>6. CASE pc = "close"
    BY <2>6 DEF SessionInv, CloseInv
  <2>7. CASE pc = "report"
    <3>1. CASE args.write
      <4>1. Len(Outputs) = 3 /\ Outputs[2] = "pcap"
        BY <2>4, <3>1, OutputsFacts
      <4>2. 2 \in 1 .. Len(Outputs)
        BY <4>1
      <4> QED
        BY <2>7, <4>1, <4>2 DEF SessionInv, CloseInv, ClosedUpTo
    <3>2. CASE ~args.write
      <4>1. seen["pcap"] = 0
        BY <3>2 DEF SessionInv, FramesInv
      <4> QED
        BY <2>4, <4>1
    <3> QED
      BY <3>1, <3>2
  <2> QED
    BY <2>3, <2>5, <2>6, <2>7
<1> QED
  BY <1>1, SessionInvariant, PTL DEF Spec, SigtermLosesOnlyAtTheEnd

\* -w never truncates the capture that is being replayed.
THEOREM ReplayNeverTruncated == Spec => []ReplayedFileIntact
<1>1. SessionInv => ReplayedFileIntact
  BY DEF SessionInv, ArgsInv
<1> QED
  BY <1>1, SessionInvariant, PTL
=============================================================================
