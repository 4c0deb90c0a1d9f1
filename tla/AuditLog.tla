------------------------------- MODULE AuditLog -------------------------------
(***************************************************************************)
(* The append-only audit log (crates/core/src/audit.rs): runs of the tool, *)
(* possibly at the same time, append a `run` record and one `decision`     *)
(* record per dependency to one file.                                      *)
(*                                                                         *)
(* A record is written as a sequence of small pieces (the tokens of        *)
(* serde_json, the newline last) through a BufWriter, which hands its      *)
(* buffer to the operating system when the next piece does not fit, and at *)
(* the end.  Every such write goes to the end of the file in one step      *)
(* (O_APPEND).                                                             *)
(***************************************************************************)
EXTENDS Integers, Sequences, SequencesExt, FiniteSets

CONSTANTS
  Runs,      \* processes that append to the log
  Sizes,     \* how many records a run may have, the `run` record first
  Pieces,    \* pieces per record, the last of them its newline
  Capacity   \* pieces the buffer of the BufWriter holds

ASSUME AuditAssumption ==
  /\ Sizes \subseteq Nat \ {0}
  /\ Pieces \in Nat \ {0}
  /\ Capacity \in Nat \ {0}

VARIABLES
  records,  \* per run, how many records it has
  file,     \* the log: a sequence of pieces
  buffer,   \* per run, what its BufWriter holds
  written,  \* per run, how many pieces it has produced
  state     \* per run: "ready", "writing", "done", "dead"

logVars == <<records, file, buffer, written, state>>

Total(p) == records[p] * Pieces

\* The n-th piece of a run: which run, record and position in the record.
Piece(p, n) == [run |-> p, record |-> (n - 1) \div Pieces, part |-> ((n - 1) % Pieces) + 1]

LogInit ==
  /\ records \in [Runs -> Sizes]
  /\ file = <<>>
  /\ buffer = [p \in Runs |-> <<>>]
  /\ written = [p \in Runs |-> 0]
  /\ state = [p \in Runs |-> "ready"]

\* The log is opened to append, created if need be.
Open(p) ==
  /\ state[p] = "ready"
  /\ state' = [state EXCEPT ![p] = "writing"]
  /\ UNCHANGED <<records, file, buffer, written>>

\* Defects: a full buffer is dropped; there is no buffer.
Piecewise(p, room, out, rest) ==
  /\ state[p] = "writing"
  /\ written[p] < Total(p)
  /\ LET piece == Piece(p, written[p] + 1)
     IN IF Len(buffer[p]) < room
        THEN buffer' = [buffer EXCEPT ![p] = Append(@, piece)] /\ UNCHANGED file
        ELSE file' = file \o out /\ buffer' = [buffer EXCEPT ![p] = rest \o <<piece>>]
  /\ written' = [written EXCEPT ![p] = @ + 1]
  /\ UNCHANGED <<records, state>>
PutDropping(p) == Piecewise(p, Capacity, <<>>, <<>>)
PutUnbuffered(p) == Piecewise(p, 1, buffer[p], <<>>)

\* write_records produces the next piece; a full buffer is written out first.
Put(p) ==
  /\ state[p] = "writing"
  /\ written[p] < Total(p)
  /\ LET piece == Piece(p, written[p] + 1)
     IN IF Len(buffer[p]) < Capacity
        THEN /\ buffer' = [buffer EXCEPT ![p] = Append(@, piece)]
             /\ UNCHANGED file
        ELSE /\ file' = file \o buffer[p]
             /\ buffer' = [buffer EXCEPT ![p] = <<piece>>]
  /\ written' = [written EXCEPT ![p] = @ + 1]
  /\ UNCHANGED <<records, state>>

\* The final flush.
Finish(p) ==
  /\ state[p] = "writing"
  /\ written[p] = Total(p)
  /\ file' = file \o buffer[p]
  /\ buffer' = [buffer EXCEPT ![p] = <<>>]
  /\ state' = [state EXCEPT ![p] = "done"]
  /\ UNCHANGED <<records, written>>

\* The process is killed: its buffer is gone, what is in the file stays there.
Die(p) ==
  /\ state[p] = "writing"
  /\ state' = [state EXCEPT ![p] = "dead"]
  /\ buffer' = [buffer EXCEPT ![p] = <<>>]
  /\ UNCHANGED <<records, file, written>>

LogNext == \E p \in Runs : Open(p) \/ Put(p) \/ Finish(p) \/ Die(p)

LogSpec == LogInit /\ [][LogNext]_logVars
-----------------------------------------------------------------------------
\* How many of the first i pieces of the log are of a run.
Upto(p, i) == Cardinality({j \in 1 .. i : file[j].run = p})

InLog(p) == Upto(p, Len(file))

AnyPiece == [run : Runs, record : Nat, part : 1 .. Pieces]

\* The type invariant.
LogTypeOK ==
  /\ records \in [Runs -> Sizes] /\ file \in Seq(AnyPiece) /\ buffer \in [Runs -> Seq(AnyPiece)]
  /\ written \in [Runs -> Nat] /\ state \in [Runs -> {"ready", "writing", "done", "dead"}]
  /\ \A p \in Runs : Len(buffer[p]) <= Capacity /\ written[p] <= Total(p)

\* What a run has in the log is, in order and with no gap, the beginning of what
\* it produced, whatever the other runs write and whenever it dies; of a run
\* that ended it is all.
EachRunInOrder ==
  \A p \in Runs :
    /\ \A i \in DOMAIN file : file[i].run = p => file[i] = Piece(p, Upto(p, i))
    /\ state[p] = "writing" =>
         /\ written[p] = InLog(p) + Len(buffer[p])
         /\ \A j \in DOMAIN buffer[p] : buffer[p][j] = Piece(p, InLog(p) + j)
    /\ state[p] = "done" => InLog(p) = Total(p)

\* Pieces i and i + 1 of the log are of one record, or a record ends between them.
LineIntact(i) ==
  \/ file[i].part = Pieces
  \/ file[i + 1] = Piece(file[i].run, file[i].record * Pieces + file[i].part + 1)

\* A run whose records all fit in the buffer is written in one piece, whoever
\* else is writing or dies.  When every run is such a run every line is whole.
SmallRunsWhole ==
  /\ \A p \in Runs : Total(p) <= Capacity =>
       \A i \in DOMAIN file : file[i].run = p =>
         file[i] = Piece(p, Total(p)) \/ (i < Len(file) /\ file[i + 1].run = p /\ LineIntact(i))
  /\ (\A p \in Runs : Total(p) <= Capacity) => \A i \in 1 .. (Len(file) - 1) : LineIntact(i)

\* The module's comment: "concurrent runs interleave at line boundaries, never
\* mid-record".
NeverMidRecord == \A i \in 1 .. (Len(file) - 1) : LineIntact(i)
=============================================================================
