----------------------------- MODULE SshServer -----------------------------
(***************************************************************************)
(* vcs/ssh/server.go: the accept loop and Close, and for each connection   *)
(* the handler of its channel, the three goroutines that copy its stdin,   *)
(* stdout and stderr, and the git-upload-pack process.                     *)
(*                                                                         *)
(* A client opens one channel.  Output is counted in chunks; stderr has    *)
(* none, so its copy ends with the process.                                *)
(***************************************************************************)
EXTENDS Naturals

CONSTANTS Conn,      \* the connections clients make
          OutLen,    \* chunks of output of a process
          PipeSize   \* chunks its stdout pipe holds

ASSUME SizesAssumption == OutLen \in Nat /\ PipeSize \in Nat \ {0}

VARIABLES
  listener,  \* the listening socket
  closed,    \* the flag that Close sets
  closer,    \* where Close is
  loop,      \* where the accept loop is
  cause,     \* why Accept failed, as far as the system knows (history)
  logged,    \* what the loop has logged such a failure for (history)
  s          \* s[c]: the session of connection c

serverVars == <<listener, closed, closer, loop, cause, logged>>
vars == <<serverVars, s>>

Session == [
  client  : {"none", "open", "eof", "gone"},  \* eof: it sends nothing any more
  handler : {"none", "queued", "handshake", "requests", "attach", "start",
             "copying", "wait", "status", "returned"},
  ch      : BOOLEAN,                           \* our side of the channel is open
  proc    : {"none", "running", "exited", "reaped"},
  written : 0 .. OutLen,                       \* chunks the process has written
  pipe    : 0 .. PipeSize,                     \* chunks in its stdout pipe
  sent    : 0 .. OutLen,                       \* chunks the client has been sent
  in      : {"none", "copying", "done"},       \* the goroutine that copies stdin
  out     : {"none", "copying", "done"},       \* ... stdout
  err     : {"none", "copying", "done"},       \* ... stderr
  pipes   : {"none", "open", "closed"},        \* our ends of the pipes
  status  : BOOLEAN]                           \* the exit status has been sent

NoSession == [client |-> "none", handler |-> "none", ch |-> FALSE, proc |-> "none",
              written |-> 0, pipe |-> 0, sent |-> 0, in |-> "none", out |-> "none",
              err |-> "none", pipes |-> "none", status |-> FALSE]

TypeOK ==
  /\ listener \in {"none", "open", "closed"}
  /\ closed \in BOOLEAN
  /\ closer \in {"idle", "flagged", "returned"}
  /\ loop \in {"none", "accept", "error", "stopped"}
  /\ cause \in {"none", "other", "closed"} /\ logged \in {"none", "other", "closed"}
  /\ s \in [Conn -> Session]

Init ==
  /\ listener = "none" /\ closed = FALSE /\ closer = "idle"
  /\ loop = "none" /\ cause = "none" /\ logged = "none"
  /\ s = [c \in Conn |-> NoSession]

-----------------------------------------------------------------------------
(* Start, the accept loop, Close.                                          *)

Start ==
  /\ loop = "none"
  /\ listener' = "open" /\ loop' = "accept"
  /\ UNCHANGED <<closed, closer, cause, logged, s>>

Accept(c) ==
  /\ loop = "accept" /\ listener = "open" /\ s[c].handler = "queued"
  /\ s' = [s EXCEPT ![c].handler = "handshake"]
  /\ UNCHANGED serverVars

\* Accept fails because the socket is closed, or now and then for another reason.
AcceptFails ==
  /\ loop = "accept"
  /\ cause' = IF listener = "closed" THEN "closed" ELSE "other"
  /\ loop' = "error"
  /\ UNCHANGED <<listener, closed, closer, logged, s>>

\* A plausible bug: any failure is tried again.
CheckClosedNever ==
  /\ loop = "error"
  /\ loop' = "accept" /\ logged' = cause
  /\ UNCHANGED <<listener, closed, closer, cause, s>>

\* The loop looks at the flag, under its mutex; it logs and goes on without it.
CheckClosed ==
  /\ loop = "error"
  /\ IF closed THEN loop' = "stopped" /\ UNCHANGED logged
     ELSE loop' = "accept" /\ logged' = cause
  /\ UNCHANGED <<listener, closed, closer, cause, s>>

\* Close sets the flag under the mutex, ...
CloseFlag ==
  /\ closer = "idle" /\ loop # "none"
  /\ closed' = TRUE /\ closer' = "flagged"
  /\ UNCHANGED <<listener, loop, cause, logged, s>>

\* A plausible bug: the listener is closed first.
CloseListenerFirst ==
  /\ closer # "returned" /\ listener = "open"
  /\ listener' = "closed"
  /\ closer' = IF closed THEN "returned" ELSE closer
  /\ UNCHANGED <<closed, loop, cause, logged, s>>

\* ... then closes the listener.  Connections that are open stay open.
CloseListener ==
  /\ closer = "flagged"
  /\ listener' = "closed" /\ closer' = "returned"
  /\ UNCHANGED <<closed, loop, cause, logged, s>>

-----------------------------------------------------------------------------
(* The client.                                                             *)

Connect(c) ==
  /\ s[c].client = "none" /\ listener = "open"
  /\ s' = [s EXCEPT ![c].client = "open", ![c].handler = "queued"]
  /\ UNCHANGED serverVars

ClientEOF(c) ==
  /\ s[c].client = "open" /\ s[c].handler \notin {"queued", "handshake"}
  /\ s' = [s EXCEPT ![c].client = "eof"]
  /\ UNCHANGED serverVars

ClientLeaves(c) ==
  /\ s[c].client \in {"open", "eof"}
  /\ s' = [s EXCEPT ![c].client = "gone"]
  /\ UNCHANGED serverVars

-----------------------------------------------------------------------------
(* handleConn and handleChannel.                                           *)

\* A plausible bug: the channel is not closed on return.
ReturnedLeavingOpen(x) == [x EXCEPT !.handler = "returned"]

\* Every return runs the deferred ch.Close.
Returned(x) == [x EXCEPT !.handler = "returned", !.ch = FALSE]

\* The handler's steps with their outcomes: the session after the step.
Handshake(x) ==
  {y \in {[x EXCEPT !.handler = "requests", !.ch = TRUE], Returned(x)} :
     x.handler = "handshake" /\ (x.client = "gone" => y.handler = "returned")}

\* An exec request, good or not; the requests end when the client leaves.  A
\* request is well formed: it has the four bytes of the command's length, which
\* the code skips without looking (of a shorter one it would panic).
Request(x) ==
  {y \in {[x EXCEPT !.handler = "attach"], Returned(x)} :
     x.handler = "requests" /\ (x.client = "gone" => y.handler = "returned")}

\* attachCmd makes the pipes and starts the copying goroutines, or fails.
Attach(x) ==
  {y \in {[x EXCEPT !.handler = "start", !.pipes = "open",
                    !.in = "copying", !.out = "copying", !.err = "copying"],
          Returned(x)} : x.handler = "attach"}

\* cmd.Start; when it fails it closes the pipes.
StartCmd(x) ==
  {y \in {[x EXCEPT !.handler = "copying", !.proc = "running"],
          Returned([x EXCEPT !.pipes = "closed"])} : x.handler = "start"}

\* Plausible bugs: nobody waits for the copies; stdin's is waited for as well.
CopiesSkipped(x) == x.handler = "copying"
CopiesAll(x) == x.handler = "copying" /\ x.out = "done" /\ x.err = "done" /\ x.in = "done"

\* done.Wait(): the copies of stdout and stderr have ended.
CopiesDone(x) == x.handler = "copying" /\ x.out = "done" /\ x.err = "done"

AwaitCopies(x) == {y \in {[x EXCEPT !.handler = "wait"]} : CopiesDone(x)}

\* A plausible bug: a session whose client has left is given up.
WaitUnlessGone(x) ==
  {y \in {[x EXCEPT !.handler = "status", !.proc = "reaped", !.pipes = "closed"],
          Returned(x)} :
     /\ x.handler = "wait" /\ (y.handler = "returned") = (x.client = "gone")
     /\ x.client # "gone" => x.proc = "exited"}

\* cmd.Wait: collects the process, and closes the pipes.
WaitCmd(x) ==
  {y \in {[x EXCEPT !.handler = "status", !.proc = "reaped", !.pipes = "closed", !.pipe = 0]} :
     x.handler = "wait" /\ x.proc = "exited"}

\* The exit status is sent, or there is none to send, or sending it fails.
SendStatus(x) ==
  {y \in {Returned([x EXCEPT !.status = TRUE]), Returned(x)} :
     x.handler = "status" /\ (x.client = "gone" => ~y.status)}

Handler(c) ==
  /\ s' \in {[s EXCEPT ![c] = y] :
               y \in Handshake(s[c]) \cup Attach(s[c]) \cup StartCmd(s[c])
                     \cup AwaitCopies(s[c]) \cup WaitCmd(s[c]) \cup SendStatus(s[c])}
  /\ UNCHANGED serverVars

\* Unlike the other steps it waits for the client.
HandlerRequest(c) ==
  /\ s' \in {[s EXCEPT ![c] = y] : y \in Request(s[c])}
  /\ UNCHANGED serverVars

-----------------------------------------------------------------------------
(* The process and the copying goroutines.                                 *)

ProcWrites(c) ==
  /\ s[c].proc = "running" /\ s[c].written < OutLen /\ s[c].pipe < PipeSize
  /\ s' = [s EXCEPT ![c].written = @ + 1, ![c].pipe = @ + 1]
  /\ UNCHANGED serverVars

\* The process ends once it has written everything, or fails before that; not
\* while it is blocked on a full pipe.
ProcExits(c) ==
  /\ s[c].proc = "running"
  /\ s[c].written = OutLen \/ s[c].pipe < PipeSize
  /\ s' = [s EXCEPT ![c].proc = "exited"]
  /\ UNCHANGED serverVars

\* A plausible bug: the end of the output is taken for a chunk.
CopyOutPastEnd(c) ==
  /\ s[c].out = "copying" /\ s[c].pipes = "open"
  /\ s' = [s EXCEPT ![c].pipe = @ - 1]
  /\ UNCHANGED serverVars

\* A chunk goes to the client; when that fails the copy is over.
CopyOut(c) ==
  /\ s[c].out = "copying" /\ s[c].pipes = "open" /\ s[c].pipe > 0
  /\ s' = [s EXCEPT ![c].pipe = @ - 1,
                    ![c].sent = IF s[c].client # "gone" THEN @ + 1 ELSE @,
                    ![c].out = IF s[c].client # "gone" THEN @ ELSE "done"]
  /\ UNCHANGED serverVars

\* The end of the output: the process is gone, or the pipe is closed.
Ended(x) == x.pipes = "closed" \/ x.proc \in {"exited", "reaped"}

CopyOutEnds(c) ==
  /\ s[c].out = "copying" /\ Ended(s[c]) /\ (s[c].pipe = 0 \/ s[c].pipes = "closed")
  /\ s' = [s EXCEPT ![c].out = "done"]
  /\ UNCHANGED serverVars

CopyErrEnds(c) ==
  /\ s[c].err = "copying" /\ Ended(s[c])
  /\ s' = [s EXCEPT ![c].err = "done"]
  /\ UNCHANGED serverVars

\* The copy of stdin ends when the client sends no more or the channel is closed.
CopyInEnds(c) ==
  /\ s[c].in = "copying" /\ (s[c].client # "open" \/ ~s[c].ch)
  /\ s' = [s EXCEPT ![c].in = "done"]
  /\ UNCHANGED serverVars

-----------------------------------------------------------------------------
LoopStep == (\E c \in Conn : Accept(c)) \/ CheckClosed

Copying(c) == CopyOut(c) \/ CopyOutEnds(c)

ProcStep(c) == ProcWrites(c) \/ ProcExits(c)

Next ==
  \/ Start \/ LoopStep \/ AcceptFails \/ CloseFlag \/ CloseListener
  \/ \E c \in Conn :
       \/ Connect(c) \/ ClientEOF(c) \/ ClientLeaves(c)
       \/ Handler(c) \/ HandlerRequest(c)
       \/ ProcStep(c) \/ Copying(c) \/ CopyErrEnds(c) \/ CopyInEnds(c)

\* Goroutines are scheduled, Accept fails on a closed socket, and a process
\* goes on while it can write.  A client that is there reads what it is sent and
\* gives the process the input it asks for; it need not end its side, nor leave.
Fairness ==
  /\ WF_vars(LoopStep) /\ WF_vars(AcceptFails /\ listener = "closed")
  /\ WF_vars(CloseListener)
  /\ \A c \in Conn : /\ WF_vars(Handler(c)) /\ WF_vars(ProcStep(c))
                     /\ WF_vars(Copying(c)) /\ WF_vars(CopyErrEnds(c))
                     /\ WF_vars(CopyInEnds(c))

FairSpec == Init /\ [][Next]_vars /\ Fairness

-----------------------------------------------------------------------------
(* Properties.                                                             *)

\* The exit status is the last thing a client gets: when it has been sent, so
\* has everything that the process wrote.
StatusComesLast ==
  \A c \in Conn : s[c].status /\ s[c].client # "gone" => s[c].sent = s[c].written

\* A handler that has started a process does not return before the process has
\* ended and has been waited for.
ProcessReaped ==
  \A c \in Conn : s[c].handler = "returned" => s[c].proc \in {"none", "reaped"}

\* The accept loop never takes a Close for a failure to be logged and tried
\* again, whatever the order in which its goroutine and Close run.
CloseNotLogged == logged # "closed"

\* After Close the accept loop ends.
LoopEnds == closer = "returned" ~> loop = "stopped"

\* A session whose process has started comes to its end while its client is
\* there, also when the client never ends its side of the channel.
SessionEnds ==
  \A c \in Conn :
    s[c].handler = "copying" ~> s[c].handler = "returned" \/ s[c].client = "gone"

\* No goroutine of a session outlives its handler for ever, however it ended.
CopiesEnd ==
  \A c \in Conn :
    s[c].handler = "returned" ~>
      "copying" \notin {s[c].in, s[c].out, s[c].err}
=============================================================================
