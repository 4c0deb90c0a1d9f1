----------------------------- MODULE ProgressLine -----------------------------
(***************************************************************************)
(* The progress indicator (crates/cli/src/progress.rs): a ticker task that *)
(* redraws one line of stderr, on another thread than the loop that counts *)
(* completions, stops the ticker and lets the report follow.               *)
(*                                                                         *)
(* Aborting a Tokio task takes effect at its next await: a poll that has   *)
(* begun goes on to its end.  Module Scan composes the actions with the    *)
(* loop.                                                                   *)
(***************************************************************************)
EXTENDS Integers, Sequences

CONSTANTS
  Total,     \* units of work
  MaxFrames  \* bound on redraws while the work goes on

VARIABLES
  done,     \* the counter, Inner::done
  main,     \* "working", "clearing", "reporting", "over"
  ticker,   \* "asleep" at its await, "counting", "drawing", "gone"
  aborted,
  read,     \* the counter as the ticker read it
  drawn,    \* what was written to stderr: redraws, the clearing, the report
  frames

vars == <<done, main, ticker, aborted, read, drawn, frames>>

Draw(n) == [what |-> "frame", count |-> n]
Clear == [what |-> "clear", count |-> 0]
Report == [what |-> "report", count |-> 0]

Init ==
  /\ done = 0 /\ main = "working" /\ ticker = "asleep" /\ aborted = FALSE
  /\ read = 0 /\ drawn = <<>> /\ frames = 0

\* The loop has collected one more answer.
Inc ==
  /\ main = "working"
  /\ done' = done + 1
  /\ UNCHANGED <<main, ticker, aborted, read, drawn, frames>>

\* finish(): first the abort ...
Abort ==
  /\ main = "working"
  /\ aborted' = TRUE
  /\ main' = "clearing"
  /\ UNCHANGED <<done, ticker, read, drawn, frames>>

\* ... then the line is cleared, under the lock of stderr ...
ClearLine ==
  /\ main = "clearing"
  /\ drawn' = Append(drawn, Clear)
  /\ main' = "reporting"
  /\ UNCHANGED <<done, ticker, aborted, read, frames>>

\* ... and the output of the command begins.
StartReport ==
  /\ main = "reporting"
  /\ drawn' = Append(drawn, Report)
  /\ main' = "over"
  /\ UNCHANGED <<done, ticker, aborted, read, frames>>

\* Defect: the ticker is not aborted.
WakeDeaf ==
  /\ ticker = "asleep"
  /\ frames < MaxFrames
  /\ ticker' = "counting"
  /\ UNCHANGED <<done, main, aborted, read, drawn, frames>>

\* The interval elapses: the task is polled, or dropped if it was aborted.
Wake ==
  /\ ticker = "asleep"
  /\ frames < MaxFrames \/ aborted
  /\ ticker' = IF aborted THEN "gone" ELSE "counting"
  /\ UNCHANGED <<done, main, aborted, read, drawn, frames>>

\* Defect: what is left is shown instead of what is done.
CountDown ==
  /\ ticker = "counting"
  /\ read' = Total - done
  /\ ticker' = "drawing"
  /\ UNCHANGED <<done, main, aborted, drawn, frames>>

\* redraw: the counter is read before the lock is taken ...
Count ==
  /\ ticker = "counting"
  /\ read' = done
  /\ ticker' = "drawing"
  /\ UNCHANGED <<done, main, aborted, drawn, frames>>

\* ... and the line written, in one piece, under the lock.
Redraw ==
  /\ ticker = "drawing"
  /\ drawn' = Append(drawn, Draw(read))
  /\ frames' = frames + 1
  /\ ticker' = "asleep"
  /\ UNCHANGED <<done, main, aborted, read>>

Finish == Abort \/ ClearLine \/ StartReport
Ticker == Wake \/ Count \/ Redraw
-----------------------------------------------------------------------------
TypeOK ==
  /\ done \in 0 .. Total /\ read \in 0 .. Total /\ frames \in 0 .. MaxFrames
  /\ main \in {"working", "clearing", "reporting", "over"}
  /\ ticker \in {"asleep", "counting", "drawing", "gone"}
  /\ aborted \in BOOLEAN
  /\ \A i \in DOMAIN drawn : drawn[i] \in {Draw(n) : n \in 0 .. Total} \cup {Clear, Report}

\* The count on the line never goes back and never exceeds the work done.
CountNeverGoesBack ==
  \A i, j \in DOMAIN drawn :
    i < j /\ drawn[i].what = "frame" /\ drawn[j].what = "frame" =>
      drawn[i].count <= drawn[j].count /\ drawn[j].count <= done

\* The ticker outlives its abort by one redraw at most.
AtMostOneLateFrame ==
  \A i, j, k \in DOMAIN drawn :
    drawn[i] = Clear /\ i < j /\ j < k => drawn[j].what # "frame" \/ drawn[k].what # "frame"
=============================================================================
