---------------------------------- MODULE Scan ----------------------------------
(***************************************************************************)
(* The middle of `evaluate` (crates/cli/src/main.rs): the collection loop  *)
(* of `gather_signals`, which counts its answers on the progress indicator *)
(* while the indicator's ticker draws on another thread; then the end of   *)
(* the indicator and the report.  Composes Gather and ProgressLine, which  *)
(* share the counter.                                                      *)
(***************************************************************************)
EXTENDS Gather, Sequences

CONSTANT MaxFrames  \* bound on redraws while the loop runs

VARIABLES main, ticker, aborted, read, drawn, frames

lineVars == <<main, ticker, aborted, read, drawn, frames>>
scanVars == <<vars, lineVars>>

Line == INSTANCE ProgressLine WITH Total <- N, done <- progress

ScanInit == Init /\ Line!Init

\* The loop is one task; every answer it takes is counted at once.
Loop ==
  \/ (Start \/ EndFill) /\ UNCHANGED lineVars
  \/ \E d \in Deps : Take(d) /\ Line!Inc

\* `progress.finish()` follows the loop, the report follows `finish`.
Report == pc = "done" /\ Line!Finish /\ UNCHANGED vars

Tick == Line!Ticker /\ UNCHANGED vars

ScanNext == Loop \/ Report \/ Tick

ScanSpec == ScanInit /\ [][ScanNext]_scanVars

\* The loop and the report are one task, which the executor polls when it can go
\* on; every provider call ends, for their HTTP clients have timeouts.  Nothing
\* is assumed of the ticker.
FairScan ==
  /\ ScanSpec
  /\ WF_scanVars((Start \/ EndFill) /\ UNCHANGED lineVars)
  /\ WF_scanVars(\E d \in Deps : Take(d) /\ Line!Inc)
  /\ WF_scanVars(Report)
-----------------------------------------------------------------------------
\* The type invariant of the indicator's part.
LineTypeOK == Line!TypeOK

\* The number on the line never goes back and never exceeds the answers taken,
\* though it is read before the lock of stderr is, on another thread.
CountNeverGoesBack == Line!CountNeverGoesBack

\* After the line was cleared the ticker draws once more at most: a redraw that
\* was being polled goes on to its end.
AtMostOneLateFrame == Line!AtMostOneLateFrame

\* The scan ends with its report, whatever the limit given (0 too) and however
\* the ticker is scheduled.
Reports == <>(main = "over")
=============================================================================
