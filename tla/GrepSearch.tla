----------------------------- MODULE GrepSearch -----------------------------
(***************************************************************************)
(* vcs/gitcmd/repo.go, Search: git grep writes matches and their context   *)
(* to a pipe; a goroutine reads them, puts lines together into results,    *)
(* stops at the limit, kills git grep and waits for it; Search takes the   *)
(* outcome from a channel, kills again, and returns.                       *)
(*                                                                         *)
(* A line of a file is a number: a file's lines are consecutive, and there *)
(* is a gap between two files.  The text of a line is left out.            *)
(***************************************************************************)
EXTENDS Integers, Sequences, FiniteSets

CONSTANTS NumFiles,    \* the files of the tree
          NumLines,    \* lines of each
          Contexts,    \* the values of opt.ContextLines
          Limits,      \* the values of opt.N
          Offsets,     \* the values of opt.Offset
          PipeSize     \* lines the pipe holds before git grep has to wait

ASSUME SizesAssumption == NumFiles \in Nat /\ NumLines \in Nat /\ PipeSize \in Nat \ {0}
ASSUME OptionsAssumption == Contexts \subseteq Nat /\ Limits \subseteq Nat /\ Offsets \subseteq Nat

Line == {f * (NumLines + 1) + l : f \in 1 .. NumFiles, l \in 1 .. NumLines}
FileOf(x) == (x - 1) \div (NumLines + 1)

\* The lines that git grep prints: the hits and those around them.  With context it
\* prints a separator between lines that do not follow one another.
Separator == 0

Shown(h, k) == {x \in Line : \E y \in h : FileOf(x) = FileOf(y) /\ y - k <= x /\ x <= y + k}

\* A result: the first and the last line that went into it.
Result == [start : Line, end : Line]
NoResult == [start |-> 0, end |-> 0]

VARIABLES
  hits, context, limit, offset0,   \* the tree's matches, and the options
  git,       \* the git grep process
  unwritten, \* the lines it has not written
  written,   \* what it has written last, a separator before there is anything
  pipe,      \* the output in the pipe
  reader,    \* where the goroutine is
  r,         \* the result it is putting together
  offset,    \* opt.Offset, which it counts down
  res,       \* the results so far
  reaped,    \* cmd.Wait has collected the process
  outcome,   \* the error the goroutine has for errc, and then Search's
  main       \* where Search is

input == <<hits, context, limit, offset0>>
process == <<git, unwritten, written, pipe, reaped>>
parse == <<r, offset, res>>
vars == <<input, process, parse, reader, outcome, main>>

TypeOK ==
  /\ hits \subseteq Line /\ context \in Contexts /\ limit \in Limits /\ offset0 \in Offsets
  /\ git \in {"none", "running", "ok", "nomatch", "failed", "killed"}
  /\ unwritten \subseteq Line /\ written \in Line \cup {Separator}
  /\ pipe \in Seq(Line \cup {Separator}) /\ Len(pipe) <= PipeSize
  /\ reader \in {"none", "read", "kill", "wait", "send", "gone"}
  /\ r \in Result \cup {NoResult}
  /\ offset \in Nat
  /\ res \in Seq(Result)
  /\ reaped \in BOOLEAN
  /\ outcome \in {"none", "nil", "start", "read", "kill", "status"}
  /\ main \in {"start", "receive", "kill", "returned"}

Init ==
  /\ hits \in SUBSET Line
  /\ context \in Contexts /\ limit \in Limits /\ offset0 \in Offsets
  /\ git = "none" /\ unwritten = {} /\ written = Separator /\ pipe = << >> /\ reaped = FALSE
  /\ reader = "none" /\ r = NoResult /\ offset = offset0 /\ res = << >>
  /\ outcome = "none" /\ main = "start"

-----------------------------------------------------------------------------
(* The process.                                                            *)

Start ==
  /\ main = "start"
  /\ git' = "running" /\ unwritten' = Shown(hits, context)
  /\ main' = "receive" /\ reader' = "read"
  /\ UNCHANGED <<input, written, pipe, reaped, parse, outcome>>

\* An unsafe argument, an unknown query type, no pipe, or no process.
StartFails ==
  /\ main = "start"
  /\ main' = "returned" /\ outcome' = "start"
  /\ UNCHANGED <<input, process, parse, reader>>

\* In the order of the lines.
GitWrites ==
  /\ git = "running" /\ Len(pipe) < PipeSize
  /\ \E next \in unwritten :
       /\ \A x \in unwritten : next <= x
       /\ \/ /\ context > 0 /\ written # Separator /\ next # written + 1
             /\ written' = Separator /\ UNCHANGED unwritten
          \/ /\ context = 0 \/ written = Separator \/ next = written + 1
             /\ written' = next /\ unwritten' = unwritten \ {next}
  /\ pipe' = Append(pipe, written')
  /\ UNCHANGED <<input, git, reaped, parse, reader, outcome, main>>

\* It ends when it has written everything, or with an error before that; not
\* while it is blocked on a full pipe.
GitExits ==
  /\ git = "running"
  /\ \/ unwritten = {} /\ git' = IF hits = {} THEN "nomatch" ELSE "ok"
     \/ Len(pipe) < PipeSize /\ git' = "failed"
  /\ UNCHANGED <<input, unwritten, written, pipe, reaped, parse, reader, outcome, main>>

-----------------------------------------------------------------------------
(* The goroutine.                                                          *)

\* A plausible bug: a result is counted off whether it is kept or not.
CountOffAlways(rr) ==
  IF rr = NoResult THEN UNCHANGED <<res, offset>>
  ELSE /\ offset' = offset - 1
       /\ res' = IF offset = 0 THEN Append(res, rr) ELSE res

\* addResult counts a result off against the offset, or keeps it.
CountOff(rr) ==
  IF rr = NoResult THEN UNCHANGED <<res, offset>>
  ELSE IF offset = 0 THEN res' = Append(res, rr) /\ UNCHANGED offset
  ELSE offset' = offset - 1 /\ UNCHANGED res

\* A plausible bug: the limit is compared before the result is added.
AddResultLate(rr) ==
  CountOff(rr) /\ reader' = IF Len(res) = limit THEN "kill" ELSE "read"

\* ... and the loop ends when there are N.
AddResult(rr) ==
  CountOff(rr) /\ reader' = IF Len(res') = limit THEN "kill" ELSE "read"

\* A line of the output: a separator ends the result, and so does a line of
\* another file, which begins the next; when that ends the loop, it is lost.
ReadSeparator ==
  /\ Head(pipe) = Separator
  /\ AddResult(r)
  /\ r' = NoResult

ReadSameFile ==
  /\ Head(pipe) # Separator /\ r # NoResult /\ FileOf(r.start) = FileOf(Head(pipe))
  /\ r' = [r EXCEPT !.end = Head(pipe)]
  /\ UNCHANGED <<res, offset, reader>>

ReadNewResult ==
  /\ Head(pipe) # Separator
  /\ r # NoResult => FileOf(r.start) # FileOf(Head(pipe))
  /\ IF r = NoResult THEN UNCHANGED <<res, offset, reader>> ELSE AddResult(r)
  /\ r' = IF reader' = "kill" THEN NoResult
          ELSE [start |-> Head(pipe), end |-> Head(pipe)]

ReadLine ==
  /\ reader = "read" /\ pipe # << >>
  /\ ReadSeparator \/ ReadSameFile \/ ReadNewResult
  /\ pipe' = Tail(pipe)
  /\ UNCHANGED <<input, git, unwritten, written, reaped, outcome, main>>

\* The end of the output: the last result has no separator after it.
ReadEOF ==
  /\ reader = "read" /\ pipe = << >> /\ git # "running"
  /\ CountOff(r)
  /\ r' = NoResult
  /\ reader' = "kill"
  /\ UNCHANGED <<input, process, outcome, main>>

ReadFails ==
  /\ reader = "read"
  /\ reader' = "send" /\ outcome' = "read"
  /\ UNCHANGED <<input, process, parse, main>>

\* A plausible bug: the goroutine waits for git grep without killing it.
KillSkipped ==
  /\ reader = "kill"
  /\ reader' = "wait"
  /\ UNCHANGED <<input, process, parse, outcome, main>>

Kill ==
  /\ reader = "kill"
  /\ git' = IF git = "running" THEN "killed" ELSE git
  /\ reader' = "wait"
  /\ UNCHANGED <<input, unwritten, written, pipe, reaped, parse, outcome, main>>

\* Killing a process that has already ended may be an error.
KillFails ==
  /\ reader = "kill" /\ git # "running"
  /\ reader' = "send" /\ outcome' = "kill"
  /\ UNCHANGED <<input, process, parse, main>>

\* A plausible bug: any exit status counts as "no match".
WaitIgnoringStatus ==
  /\ reader = "wait" /\ git # "running"
  /\ reaped' = TRUE
  /\ outcome' = "nil"
  /\ reader' = "send"
  /\ UNCHANGED <<input, git, unwritten, written, pipe, parse, main>>

\* A killed process and "no match" are no errors.
Wait ==
  /\ reader = "wait" /\ git # "running"
  /\ reaped' = TRUE
  /\ outcome' = IF git = "failed" THEN "status" ELSE "nil"
  /\ reader' = "send"
  /\ UNCHANGED <<input, git, unwritten, written, pipe, parse, main>>

\* The channel has no buffer: both sides meet.
SendReceive ==
  /\ reader = "send" /\ main = "receive"
  /\ reader' = "gone" /\ main' = "kill"
  /\ UNCHANGED <<input, process, parse, outcome>>

\* A plausible bug: Search leaves the killing to the goroutine.
ReturnWithoutKill ==
  /\ main = "kill"
  /\ main' = "returned"
  /\ UNCHANGED <<input, process, parse, reader, outcome>>

KillAndReturn ==
  /\ main = "kill"
  /\ git' = IF git = "running" THEN "killed" ELSE git
  /\ main' = "returned"
  /\ UNCHANGED <<input, unwritten, written, pipe, reaped, parse, reader, outcome>>

-----------------------------------------------------------------------------
GitStep == GitWrites \/ GitExits

ReaderStep ==
  ReadLine \/ ReadEOF \/ ReadFails \/ Kill \/ KillFails \/ Wait \/ SendReceive

MainStep == Start \/ StartFails \/ KillAndReturn

Next == GitStep \/ ReaderStep \/ MainStep

Spec == Init /\ [][Next]_vars

\* git grep goes on while it can write, and both goroutines are scheduled.
FairSpec == Spec /\ WF_vars(GitStep) /\ WF_vars(ReaderStep) /\ WF_vars(MainStep)

-----------------------------------------------------------------------------
(* Properties.                                                             *)

\* The matches of the tree with their context: the stretches of consecutive
\* lines among those that git grep shows, numbered from 0 in their order.
Starts == {x \in Shown(hits, context) : x - 1 \notin Shown(hits, context)}

Matches ==
  {m \in Result : /\ m.start \in Starts /\ m.start <= m.end
                  /\ m.start .. m.end \subseteq Shown(hits, context)
                  /\ m.end + 1 \notin Shown(hits, context)}

Number(m) == Cardinality({x \in Starts : x < m.start})

\* s is the matches from that number on, in their order, as many as there are up
\* to count.
IsPage(s, from, count) ==
  /\ Len(s) <= count
  /\ \A i \in 1 .. Len(s) : s[i] \in Matches /\ Number(s[i]) = from + i - 1
  /\ Len(s) < count => \A m \in Matches : Number(m) < from + Len(s)

\* With context lines, Search returns matches Offset .. Offset+N-1, all of them
\* if there are fewer, each with its whole line range: the line that shows
\* that a result is complete belongs to the next one, at every boundary
\* between files, stretches and pages.
PageOfMatches ==
  main = "returned" /\ outcome = "nil" /\ context > 0 /\ limit > 0 /\ git # "failed"
    => IsPage(res, offset0, limit)

\* Search does not return with git grep still running, or, if it returns no
\* error, with a process that nobody has waited for, or with its goroutine
\* still there.
NothingRunsOn ==
  main = "returned" =>
    /\ git # "running"
    /\ outcome = "nil" => reaped
    /\ reader \in {"none", "gone"}

\* A git grep that failed before Search had its N results is an error of Search,
\* not an empty or a short list: the kill does not hide it.
FailureReported ==
  main = "returned" /\ git = "failed" /\ Len(res) # limit => outcome # "nil"

\* Search returns, also when it has its N results and git grep is blocked on a
\* full pipe that nobody reads any more.
SearchReturns == <>(main = "returned")
=============================================================================
