------------------------------ MODULE HgBlame ------------------------------
(***************************************************************************)
(* hgcmd's BlameFile: a Python process and two pipes.  The process prints   *)
(* one JSON value at its end; the code decodes it, then reads the errors    *)
(* to their end, then waits for the process.  A process that writes to a    *)
(* full pipe stands still.                                                 *)
(***************************************************************************)
EXTENDS Integers, Sequences, FiniteSets, SequencesExt

CONSTANTS PipeSize,   \* writes that a pipe takes
          JsonSize,   \* writes that make up the JSON value
          MaxErrors   \* the greatest number of writes to stderr

ASSUME BlameAssumption == PipeSize \in Nat \ {0} /\ JsonSize \in Nat \ {0} /\ MaxErrors \in Nat

VARIABLES
  todo,        \* the writes the process has yet to make, in order
  status,      \* its exit status: "ok" or "failed"
  process,     \* "none", "runs", "exited", "reaped"
  pipe,        \* pipe["out"], pipe["err"]: writes in the pipe
  decoded,     \* writes of the JSON value that the decoder has read
  blamePc,     \* where BlameFile is
  blameErr     \* what it returns for an error: "none" if it is nil

blameVars == <<todo, status, process, pipe, decoded, blamePc, blameErr>>

Count(s, x) == Cardinality({i \in DOMAIN s : s[i] = x})

\* What the process may write: complaints, then the value or a part of it, then
\* complaints.
Scripts ==
  LET Run(x, k) == [i \in 1 .. k |-> x]
  IN  {Run("err", w[1]) \o Run("out", w[2]) \o Run("err", w[3]) :
         w \in (0 .. MaxErrors) \X (0 .. JsonSize) \X (0 .. MaxErrors)}

BlameInit ==
  /\ todo = << >> /\ status = "ok" /\ process = "none"
  /\ pipe = [f \in {"out", "err"} |-> 0]
  /\ decoded = 0 /\ blamePc = "idle" /\ blameErr = "none"

-----------------------------------------------------------------------------
(* The process.                                                            *)

\* hg_repo_annotate.py writes its value last; what Python or hg complain of goes
\* to stderr before or after it.
ProcessWrites ==
  /\ process = "runs" /\ todo # << >>
  /\ pipe[Head(todo)] < PipeSize
  /\ pipe' = [pipe EXCEPT ![Head(todo)] = @ + 1]
  /\ todo' = Tail(todo)
  /\ UNCHANGED <<status, process, decoded, blamePc, blameErr>>

ProcessExits ==
  /\ process = "runs" /\ todo = << >>
  /\ process' = "exited"
  /\ UNCHANGED <<todo, status, pipe, decoded, blamePc, blameErr>>

-----------------------------------------------------------------------------
(* BlameFile.                                                              *)

\* StdoutPipe, StderrPipe and Start, any of which may fail: no process then.  A
\* process that succeeds will have written the whole value.
StartAnnotate ==
  /\ blamePc = "idle"
  /\ \/ /\ status' \in {"ok", "failed"}
        /\ todo' \in {s \in Scripts : status' = "ok" => Count(s, "out") = JsonSize}
        /\ process' = "runs" /\ blamePc' = "decode"
        /\ UNCHANGED blameErr
     \/ /\ blamePc' = "returned" /\ blameErr' = "start"
        /\ UNCHANGED <<todo, status, process>>
  /\ UNCHANGED <<pipe, decoded>>

Ended(f) == process # "runs" /\ pipe[f] = 0

\* The decoder reads until it has a value, or fails at the end of the output.
DecodeReads ==
  /\ blamePc = "decode" /\ pipe["out"] > 0 /\ decoded < JsonSize
  /\ pipe' = [pipe EXCEPT !["out"] = @ - 1]
  /\ decoded' = decoded + 1
  /\ UNCHANGED <<todo, status, process, blamePc, blameErr>>

\* Plausible bug: the errors are read to their end before the value.
DecodeAtExit == process = "exited" /\ (decoded = JsonSize \/ pipe["out"] = 0)

\* The decoder has its value, or has come to the end of the output without one.
Decoded == decoded = JsonSize \/ Ended("out")

\* A whole value may not be what the code decodes it into.
DecodeEnds ==
  /\ blamePc = "decode" /\ Decoded
  /\ blamePc' = "stderr"
  /\ blameErr' \in (IF decoded = JsonSize THEN {"none", "json"} ELSE {"json"})
  /\ UNCHANGED <<todo, status, process, pipe, decoded>>

\* ioutil.ReadAll(stderr)
ErrorsRead ==
  /\ blamePc = "stderr" /\ pipe["err"] > 0
  /\ pipe' = [pipe EXCEPT !["err"] = @ - 1]
  /\ UNCHANGED <<todo, status, process, decoded, blamePc, blameErr>>

ErrorsEnd ==
  /\ blamePc = "stderr" /\ Ended("err")
  /\ blamePc' = "wait"
  /\ UNCHANGED <<todo, status, process, pipe, decoded, blameErr>>

\* Plausible bug: after a decoder's error the process is not waited for.
WaitUnlessJson ==
  /\ blamePc = "wait" /\ process = "exited"
  /\ process' = IF blameErr = "json" THEN process ELSE "reaped"
  /\ blamePc' = "returned"
  /\ blameErr' = IF blameErr = "none" /\ status = "failed" THEN "exit" ELSE blameErr
  /\ UNCHANGED <<todo, status, pipe, decoded>>

\* cmd.Wait: its error is returned unless the decoder's is.
WaitReturns ==
  /\ blamePc = "wait" /\ process = "exited"
  /\ process' = "reaped"
  /\ blamePc' = "returned"
  /\ blameErr' = IF blameErr = "none" /\ status = "failed" THEN "exit" ELSE blameErr
  /\ UNCHANGED <<todo, status, pipe, decoded>>

-----------------------------------------------------------------------------
(* Properties.                                                             *)

BlameTypeOK ==
  /\ todo \in Seq({"out", "err"}) /\ status \in {"ok", "failed"}
  /\ process \in {"none", "runs", "exited", "reaped"}
  /\ pipe \in [{"out", "err"} -> 0 .. PipeSize]
  /\ decoded \in 0 .. JsonSize
  /\ blamePc \in {"idle", "decode", "stderr", "wait", "returned"}
  /\ blameErr \in {"none", "start", "json", "exit"}

\* Hunks are returned only when the process has written the whole value and
\* ended well, and when BlameFile has returned no process is left behind, not
\* even a zombie: it decodes, reads and waits in an order in which each of the
\* three can fail on its own.
HunksFromGoodExit ==
  blamePc = "returned" =>
    /\ process \in {"none", "reaped"}
    /\ blameErr = "none" => status = "ok" /\ decoded = JsonSize

\* The complaints that come before the decoder can be done: all of them when the
\* value will not be whole.
ErrorsBeforeValue ==
  LET outs   == {i \in DOMAIN todo : todo[i] = "out"}
      whole  == decoded + pipe["out"] + Cardinality(outs) = JsonSize
  IN  pipe["err"] + Cardinality({i \in DOMAIN todo :
        todo[i] = "err" /\ (whole => \E j \in outs : i < j)})

\* stderr is read only once stdout has been decoded, so BlameFile ends as long as
\* what the process complains of before then fits in a pipe.
BlameReturns ==
  blamePc = "decode" /\ ErrorsBeforeValue <= PipeSize ~> blamePc = "returned"
=============================================================================
