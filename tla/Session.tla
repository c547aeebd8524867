------------------------------ MODULE Session ------------------------------
(***************************************************************************)
(* One invocation of main() (cli.py): argument checks, the chain of        *)
(* outputs, the capture or replay under asyncio.run(_drive(...)), the      *)
(* exception handlers, and the finally clause that restores SIGTERM,       *)
(* closes the outputs and reports; with the -w file (PcapWriter, pcap.py), *)
(* whose records sit in a buffer until it is flushed.                      *)
(*                                                                         *)
(* How frames reach run() is the subject of Capture; here a source yields  *)
(* frames, ends or raises.  Signals arrive at any point.                   *)
(***************************************************************************)
EXTENDS Naturals, Sequences, FiniteSets

CONSTANT
  MaxFrames    \* frames the source can yield

ASSUME SessionAssumption == MaxFrames \in Nat \ {0}

VARIABLES
  args,      \* the command line, what its paths name, the caller's SIGTERM
  pc,        \* where main() is
  cur,       \* the output whose turn it is
  left,      \* frames the source has not yielded
  seen,      \* frames each output has consumed
  disk,      \* records of the -w file that have left the buffer
  closed,    \* outputs closed
  disp,      \* the SIGTERM disposition in force
  cancel,    \* signals that have asked the capture to stop
  exc,       \* the exception that came out of asyncio.run
  masked,    \* the exception a Ctrl-C took the place of
  code,      \* exit status
  printed,   \* diagnostics on stderr
  intact     \* the replayed file still has its contents

vars == <<args, masked, pc, cur, left, seen, disk, closed, disp, cancel, exc, code,
          printed, intact>>

Kinds == {"console", "pcap", "stats"}

\* The output chain in the order of _build_outputs: StatsCollector is last.
Outputs == IF args.write THEN <<"console", "pcap", "stats">>
                         ELSE <<"console", "stats">>

\* Exceptions: PermissionError, ValueError, KeyboardInterrupt, CancelledError,
\* everything main() does not catch, and a KeyboardInterrupt in a handler.
Caught  == {"Permission", "Value", "Interrupt", "Cancelled"}
Raised  == Caught \cup {"Other", "Abort"}

\* Paths: they differ, they name one inode through different spellings, or
\* they are one spelling of a file that does not exist.
Aliases == {"distinct", "same_inode", "same_missing"}

Args == {a \in [mode : {"live", "replay"}, write : BOOLEAN, paths : Aliases,
                iface : BOOLEAN, filter : {"none", "good", "bad"},
                sigterm : {"default", "handler"}] :
           a.paths # "distinct" => a.mode = "replay" /\ a.write}

\* previous_sigterm_handler: what signal.getsignal finds.
Previous == args.sigterm

Init ==
  /\ args \in Args
  /\ pc = "args"
  /\ cur = 1
  /\ left \in 0 .. MaxFrames
  /\ seen = [k \in Kinds |-> 0]
  /\ disk = 0
  /\ closed = {}
  /\ disp = Previous
  /\ cancel = {}
  /\ exc = "none" /\ masked = "none"
  /\ code = 0
  /\ printed = {}
  /\ intact = TRUE

-----------------------------------------------------------------------------
(* Before the capture.                                                     *)

\* Mutant of _same_file: comparing the spellings alone.
SameFileBySpelling == args.paths = "same_missing"

\* _same_file: os.path.samefile, or the spellings if a path does not exist.
SameFile == args.paths \in {"same_inode", "same_missing"}

\* _validate_args and _resolve_filter_program end in parser.error: exit 2.
UsageError ==
  \/ args.mode = "replay" /\ (args.iface \/ args.filter # "none")
  \/ args.mode = "replay" /\ args.write /\ SameFile
  \/ args.filter = "bad"

CheckArgs ==
  /\ pc = "args"
  /\ IF UsageError THEN pc' = "exit" /\ code' = 2
                   ELSE pc' = "outputs" /\ UNCHANGED code
  /\ UNCHANGED <<args, masked, cur, left, seen, disk, closed, disp, cancel,
                 exc, printed, intact>>

\* _build_outputs: opening the -w target truncates it.
BuildOutputs ==
  /\ pc = "outputs"
  /\ pc' = "banner"
  /\ intact' = (args.write => args.paths = "distinct")
  /\ UNCHANGED <<args, masked, cur, left, seen, disk, closed, disp, cancel,
                 exc, code, printed>>

BuildOutputsFails ==
  /\ pc = "outputs"
  /\ args.write
  /\ pc' = "exit"
  /\ code' = 1
  /\ printed' = {"cannot_open"}
  /\ UNCHANGED <<args, masked, cur, left, seen, disk, closed, disp, cancel,
                 exc, intact>>

\* Mutant of Drive: the SIGTERM handler is not installed.
DriveUnarmed ==
  /\ pc = "banner"
  /\ pc' = "next"
  /\ UNCHANGED <<args, masked, cur, left, seen, disk, closed, disp, cancel,
                 exc, code, printed, intact>>

\* asyncio.run starts _drive, which installs the SIGTERM handler.
Drive ==
  /\ pc = "banner"
  /\ pc' = "next"
  /\ disp' = "armed"
  /\ UNCHANGED <<args, masked, cur, left, seen, disk, closed, cancel, exc,
                 code, printed, intact>>

-----------------------------------------------------------------------------
(* run(): each frame goes to every output in turn.                         *)

\* Mutant of NextFrame: the source is read past its end.
NextFramePastEnd ==
  /\ pc = "next"
  /\ left' = left - 1
  /\ pc' = "update"
  /\ cur' = 1
  /\ UNCHANGED <<args, masked, seen, disk, closed, disp, cancel, exc, code,
                 printed, intact>>

NextFrame ==
  /\ pc = "next"
  /\ left > 0
  /\ left' = left - 1
  /\ pc' = "update"
  /\ cur' = 1
  /\ UNCHANGED <<args, masked, seen, disk, closed, disp, cancel, exc, code,
                 printed, intact>>

\* read_captures has yielded every record.
EndOfFile ==
  /\ pc = "next"
  /\ args.mode = "replay"
  /\ left = 0
  /\ pc' = "driven"
  /\ UNCHANGED <<args, masked, cur, left, seen, disk, closed, disp, cancel,
                 exc, code, printed, intact>>

\* Opening a socket or the replayed file is refused; the file is foreign or
\* corrupt; a socket or the file fails otherwise.
SourceFails ==
  /\ pc = "next"
  /\ exc' \in (IF seen["stats"] = 0 THEN {"Permission", "Other"} ELSE {"Other"})
              \cup (IF args.mode = "replay" THEN {"Value"} ELSE {})
  /\ pc' = "driven"
  /\ UNCHANGED <<args, masked, cur, left, seen, disk, closed, disp, cancel,
                 code, printed, intact>>

\* Mutant of Cancel: the cancellation is taken up in the middle of a frame.
CancelAnywhere ==
  /\ pc \in {"next", "update"}
  /\ cancel # {}
  /\ exc' = IF "SIGINT" \in cancel THEN "Interrupt" ELSE "Cancelled"
  /\ pc' = "driven"
  /\ UNCHANGED <<args, masked, cur, left, seen, disk, closed, disp, cancel,
                 code, printed, intact>>

\* A cancellation takes effect where run() awaits its source.  Runner turns
\* the one SIGINT caused into KeyboardInterrupt.
Cancel ==
  /\ pc = "next"
  /\ cancel # {}
  /\ exc' = IF "SIGINT" \in cancel THEN "Interrupt" ELSE "Cancelled"
  /\ pc' = "driven"
  /\ UNCHANGED <<args, masked, cur, left, seen, disk, closed, disp, cancel,
                 code, printed, intact>>

\* output.update(frame); PcapWriter.write appends a record to the buffer,
\* which may be flushed on the way.
Update ==
  /\ pc = "update"
  /\ LET k == Outputs[cur] IN
       /\ seen' = [seen EXCEPT ![k] = @ + 1]
       /\ IF k = "pcap" THEN disk' \in {disk, seen[k], seen[k] + 1}
                        ELSE UNCHANGED disk
  /\ IF cur < Len(Outputs) THEN cur' = cur + 1 /\ UNCHANGED pc
                           ELSE pc' = "next" /\ UNCHANGED cur
  /\ UNCHANGED <<args, masked, left, closed, disp, cancel, exc, code, printed,
                 intact>>

\* Mutant of UpdateFails: a failing output is skipped and the run goes on.
UpdateSkips ==
  /\ pc = "update"
  /\ Outputs[cur] # "stats"
  /\ cur' = cur + 1
  /\ UNCHANGED <<args, masked, pc, left, seen, disk, closed, disp, cancel,
                 exc, code, printed, intact>>

\* The terminal or the pipe is gone, the disk is full, or the text cannot be
\* encoded.  StatsCollector.update does no I/O.
UpdateFails ==
  /\ pc = "update"
  /\ Outputs[cur] # "stats"
  /\ exc' \in {"Other", "Value"}
  /\ pc' = "driven"
  /\ UNCHANGED <<args, masked, cur, left, seen, disk, closed, disp, cancel,
                 code, printed, intact>>

-----------------------------------------------------------------------------
(* After the capture.                                                      *)

\* _drive's finally: remove_signal_handler resets SIGTERM to SIG_DFL.
Undrive ==
  /\ pc = "driven"
  /\ disp' = "default"
  /\ pc' = "teardown"
  /\ UNCHANGED <<args, masked, cur, left, seen, disk, closed, cancel, exc,
                 code, printed, intact>>

ReportStats == exc \in {"none", "Interrupt", "Cancelled"}

\* main()'s except clauses: only PermissionError and ValueError are errors
\* with a message and exit status 1.
HandleException ==
  /\ pc = "teardown"
  /\ pc' = "restore"
  /\ code' = IF exc \in {"Permission", "Value"} THEN 1 ELSE code
  /\ printed' = printed \cup (IF exc = "Permission" THEN {"sudo_hint"}
                              ELSE IF exc = "Value" THEN {"error"} ELSE {})
  /\ UNCHANGED <<args, masked, cur, left, seen, disk, closed, disp, cancel,
                 exc, intact>>

\* Mutant of RestoreSignal: SIGTERM keeps what remove_signal_handler left.
RestoreNothing ==
  /\ pc = "restore"
  /\ pc' = "close"
  /\ cur' = 1
  /\ UNCHANGED <<args, masked, left, seen, disk, closed, disp, cancel, exc,
                 code, printed, intact>>

RestoreSignal ==
  /\ pc = "restore"
  /\ disp' = Previous
  /\ pc' = "close"
  /\ cur' = 1
  /\ UNCHANGED <<args, masked, left, seen, disk, closed, cancel, exc, code,
                 printed, intact>>

\* Mutant of CloseOutput: the pcap file is closed but what its buffer holds
\* is not written.
CloseUnflushed ==
  /\ pc = "close"
  /\ closed' = closed \cup {Outputs[cur]}
  /\ IF cur < Len(Outputs) THEN cur' = cur + 1 /\ UNCHANGED pc
                           ELSE pc' = "report" /\ UNCHANGED cur
  /\ UNCHANGED <<args, masked, left, seen, disk, disp, cancel, exc, code,
                 printed, intact>>

CloseOutput ==
  /\ pc = "close"
  /\ closed' = closed \cup {Outputs[cur]}
  /\ disk' = IF Outputs[cur] = "pcap" THEN seen["pcap"] ELSE disk
  /\ IF cur < Len(Outputs) THEN cur' = cur + 1 /\ UNCHANGED pc
                           ELSE pc' = "report" /\ UNCHANGED cur
  /\ UNCHANGED <<args, masked, left, seen, disp, cancel, exc, code, printed,
                 intact>>

\* The last flush of the pcap file fails: the exception leaves the finally
\* clause, and neither the outputs behind it nor the report are reached.
CloseFails ==
  /\ pc = "close"
  /\ Outputs[cur] = "pcap"
  /\ exc' = "Other"
  /\ pc' = "exit"
  /\ code' = 1
  /\ UNCHANGED <<args, masked, cur, left, seen, disk, closed, disp, cancel,
                 printed, intact>>

\* Mutant of Report: the summary is printed whatever happened.
ReportAlways ==
  /\ pc = "report"
  /\ printed' = printed \cup {"summary"}
  /\ code' = IF exc = "Other" THEN 1 ELSE IF exc = "Abort" THEN 130 ELSE code
  /\ pc' = "exit"
  /\ UNCHANGED <<args, masked, cur, left, seen, disk, closed, disp, cancel,
                 exc, intact>>

\* stats.report(), then return; an exception main() did not catch goes on to
\* the interpreter, which prints a traceback and exits with status 1, or 130
\* when it is a KeyboardInterrupt.
Report ==
  /\ pc = "report"
  /\ printed' = IF ReportStats THEN printed \cup {"summary"} ELSE printed
  /\ code' = IF exc = "Other" THEN 1 ELSE IF exc = "Abort" THEN 130 ELSE code
  /\ pc' = "exit"
  /\ UNCHANGED <<args, masked, cur, left, seen, disk, closed, disp, cancel,
                 exc, intact>>

-----------------------------------------------------------------------------
(* Signals.                                                                *)

Running == pc \notin {"exit", "interrupted", "killed"}

\* SIGTERM with _drive's handler cancels the task; it comes too late once
\* the task is done.  By default it kills the process on the spot.
Sigterm ==
  /\ Running
  /\ \/ disp = "armed" /\ cancel' = cancel \cup {"SIGTERM"} /\ UNCHANGED pc
     \/ disp = "default" /\ pc' = "killed" /\ UNCHANGED cancel
  /\ UNCHANGED <<args, masked, cur, left, seen, disk, closed, disp, exc, code,
                 printed, intact>>

\* Ctrl-C while asyncio.run lasts: the first cancels the main task.  If that
\* is done already, KeyboardInterrupt replaces what asyncio.run would raise.
SigintInRun ==
  /\ pc \in {"next", "update", "driven", "teardown"}
  /\ "SIGINT" \notin cancel
  /\ cancel' = cancel \cup {"SIGINT"}
  /\ IF pc \in {"driven", "teardown"}
     THEN exc' = "Interrupt" /\ masked' = exc
     ELSE UNCHANGED <<exc, masked>>
  /\ UNCHANGED <<args, pc, cur, left, seen, disk, closed, disp, code, printed,
                 intact>>

\* Ctrl-C inside an except clause, at its call of print(), before report_stats
\* is set: the finally clause still runs, then the exception goes on.
SigintInHandler ==
  /\ pc = "teardown"
  /\ exc \in Caught
  /\ exc' = "Abort"
  /\ pc' = "restore"
  /\ UNCHANGED <<args, masked, cur, left, seen, disk, closed, disp, cancel,
                 code, printed, intact>>

\* Ctrl-C before the try or inside the finally clause: KeyboardInterrupt
\* leaves main() at once; the interpreter flushes the open file as it exits.
SigintOutside ==
  /\ pc \in {"args", "outputs", "banner", "restore", "close", "report"}
  /\ pc' = "interrupted"
  /\ code' = 130
  /\ disk' = seen["pcap"]
  /\ UNCHANGED <<args, masked, cur, left, seen, closed, disp, cancel, exc,
                 printed, intact>>

Stopped == ~Running /\ UNCHANGED vars

Next ==
  \/ CheckArgs \/ BuildOutputs \/ BuildOutputsFails \/ Drive
  \/ NextFrame \/ EndOfFile \/ SourceFails \/ Cancel \/ Update \/ UpdateFails
  \/ Undrive \/ HandleException \/ RestoreSignal \/ CloseOutput \/ CloseFails
  \/ Report
  \/ Sigterm \/ SigintInRun \/ SigintInHandler \/ SigintOutside
  \/ Stopped

Spec == Init /\ [][Next]_vars

-----------------------------------------------------------------------------
(* Properties.                                                             *)

\* Every variable has its type.
TypeOK ==
  /\ args \in Args
  /\ pc \in {"args", "outputs", "banner", "next", "update", "driven",
             "teardown", "restore", "close", "report", "exit", "interrupted",
             "killed"}
  /\ cur \in 1 .. Len(Outputs)
  /\ left \in 0 .. MaxFrames
  /\ seen \in [Kinds -> 0 .. MaxFrames]
  /\ disk \in 0 .. MaxFrames
  /\ closed \subseteq Kinds
  /\ disp \in {"default", "handler", "armed"}
  /\ cancel \subseteq {"SIGINT", "SIGTERM"}
  /\ exc \in Raised \cup {"none"} /\ masked \in Raised \cup {"none"}
  /\ code \in {0, 1, 2, 130}
  /\ printed \subseteq {"cannot_open", "sudo_hint", "error", "summary"}
  /\ intact \in BOOLEAN

\* A summary is printed only when it is true of the files: every output is
\* closed, each saw every frame counted, and the -w file holds them all
\* (but for a Ctrl-C that hides an error: see CrashNotDisguised).
SummaryMatchesFile ==
  "summary" \in printed /\ masked \notin {"Other", "Value"} =>
    /\ \A i \in 1 .. Len(Outputs) :
         Outputs[i] \in closed /\ seen[Outputs[i]] = seen["stats"]
    /\ args.write => disk = seen["stats"]

\* main() leaves with status 0 exactly when it has printed the summary: no
\* crash passes for a clean run, and no clean run goes unreported.
ZeroIffSummary == pc = "exit" => (code = 0 <=> "summary" \in printed)

\* An output never falls more than one frame behind another, and never runs
\* ahead of one before it in the chain: a failing update ends the run.
OutputsInStep ==
  \A i, j \in 1 .. Len(Outputs) : i < j =>
    seen[Outputs[i]] - seen[Outputs[j]] \in {0, 1}

\* main() gives the caller's SIGTERM disposition back however it ends, unless
\* a Ctrl-C strikes inside the finally clause itself.
DispositionRestored == pc = "exit" => disp = Previous

\* The capture being replayed is never truncated by -w.
ReplayedFileIntact == args.mode = "replay" => intact

\* "Only for the duration of the capture: a service manager's SIGTERM should
\* stop the run cleanly ... instead of ... unflushed output" (main): a SIGTERM
\* costs records of the -w file only between _drive's finally clause, which
\* drops the handler, and the writer's close(), and never before or after.
SigtermLosesOnlyAtTheEnd ==
  [][pc' = "killed" /\ disk # seen["pcap"] =>
       \/ pc \in {"teardown", "restore"}
       \/ pc = "close" /\ "pcap" \notin closed]_vars

-----------------------------------------------------------------------------
(* What the documentation says and the code does not keep.                 *)

\* "never while an unexpected exception is still propagating, where a summary
\* ... would disguise the crash" (main): an error that ended the run is never
\* followed by the summary and status 0.
CrashNotDisguised == "summary" \in printed => masked # "Other"
=============================================================================
