-------------------------- MODULE SshServer_proof --------------------------
(***************************************************************************)
(* Proofs about SshServer: for any number of connections, any length of     *)
(* output and any size of pipe.                                            *)
(***************************************************************************)
EXTENDS SshServer, TLAPS

\* The handler has not started a process.
Early == {"none", "queued", "handshake", "requests", "attach", "start"}

\* It is between Start and Wait.
Running == {"copying", "wait"}

\* What of a session goes together.  While the client is there, nothing is lost
\* between the process, the pipe and the client, and the copy of the output is
\* done only when the process has ended and the pipe is empty.
SessionInv(x) ==
  /\ x \in Session
  /\ x.client = "none" => x.handler = "none"
  /\ x.handler \in Early =>
       x.proc = "none" /\ x.out # "done" /\ x.pipe = 0 /\ x.pipes # "closed"
  /\ x.handler = "start" => x.pipes = "open"
  /\ x.handler \in Running => x.proc \in {"running", "exited"} /\ x.pipes = "open"
  /\ x.handler = "wait" => x.out = "done"
  /\ x.handler = "status" => x.proc = "reaped" /\ x.pipe = 0
  /\ x.handler = "returned" => x.proc \in {"none", "reaped"}
  /\ x.client # "gone" => x.written = x.sent + x.pipe
  /\ x.handler \in Running /\ x.out = "done" /\ x.client # "gone" =>
       x.proc = "exited" /\ x.pipe = 0
  /\ x.status => x.handler = "returned" /\ (x.client # "gone" => x.pipe = 0)

-----------------------------------------------------------------------------
(* The handler's steps.                                                    *)

LEMMA NoSessionInv == SessionInv(NoSession)
BY SizesAssumption DEF SessionInv, NoSession, Session, Early, Running

LEMMA HandshakeKeeps ==
  ASSUME NEW x, SessionInv(x), NEW y \in Handshake(x) PROVE SessionInv(y)
BY DEF SessionInv, Handshake, Returned, Session, Early, Running

LEMMA RequestKeeps ==
  ASSUME NEW x, SessionInv(x), NEW y \in Request(x) PROVE SessionInv(y)
<1>1. x.handler = "requests"
  BY DEF Request
<1>2. CASE y = [x EXCEPT !.handler = "attach"]
  BY <1>1, <1>2 DEF SessionInv, Session, Early, Running
<1>3. CASE y = Returned(x)
  BY <1>1, <1>3 DEF SessionInv, Returned, Session, Early, Running
<1>. QED
  BY <1>2, <1>3 DEF Request

LEMMA AttachKeeps ==
  ASSUME NEW x, SessionInv(x), NEW y \in Attach(x) PROVE SessionInv(y)
<1>1. x.handler = "attach"
  BY DEF Attach
<1>2. CASE y = Returned(x)
  BY <1>1, <1>2 DEF SessionInv, Returned, Session, Early, Running
<1>3. CASE y # Returned(x)
  BY <1>1, <1>3 DEF SessionInv, Attach, Session, Early, Running
<1>. QED
  BY <1>2, <1>3

LEMMA StartCmdKeeps ==
  ASSUME NEW x, SessionInv(x), NEW y \in StartCmd(x) PROVE SessionInv(y)
<1>1. x \in Session /\ x.handler = "start"
  BY DEF SessionInv, StartCmd
<1>2. CASE y = [x EXCEPT !.handler = "copying", !.proc = "running"]
  <2>1. /\ y \in Session /\ y.handler = "copying" /\ y.proc = "running"
        /\ y.client = x.client /\ y.out = x.out /\ y.pipes = x.pipes
        /\ y.pipe = x.pipe /\ y.written = x.written /\ y.sent = x.sent /\ y.status = x.status
    BY <1>1, <1>2 DEF Session
  <2>. QED
    BY <1>1, <2>1 DEF SessionInv, Early, Running
<1>3. CASE y = Returned([x EXCEPT !.pipes = "closed"])
  <2>1. /\ y \in Session /\ y.handler = "returned"
        /\ y.client = x.client /\ y.proc = x.proc
        /\ y.pipe = x.pipe /\ y.written = x.written /\ y.sent = x.sent /\ y.status = x.status
    BY <1>1, <1>3 DEF Session, Returned
  <2>. QED
    BY <1>1, <2>1 DEF SessionInv, Early, Running
<1>. QED
  BY <1>2, <1>3 DEF StartCmd

LEMMA AwaitCopiesKeeps ==
  ASSUME NEW x, SessionInv(x), NEW y \in AwaitCopies(x) PROVE SessionInv(y)
<1>1. y = [x EXCEPT !.handler = "wait"] /\ x.handler = "copying" /\ x.out = "done"
  BY DEF AwaitCopies, CopiesDone
<1>2. x \in Session
  BY DEF SessionInv
<1>3. /\ y \in Session /\ y.handler = "wait"
      /\ y.client = x.client /\ y.proc = x.proc /\ y.out = x.out /\ y.pipes = x.pipes
      /\ y.pipe = x.pipe /\ y.written = x.written /\ y.sent = x.sent /\ y.status = x.status
  BY <1>1, <1>2 DEF Session
<1>. QED
  BY <1>1, <1>3 DEF SessionInv, Early, Running

LEMMA WaitCmdKeeps ==
  ASSUME NEW x, SessionInv(x), NEW y \in WaitCmd(x) PROVE SessionInv(y)
<1>1. /\ y = [x EXCEPT !.handler = "status", !.proc = "reaped", !.pipes = "closed", !.pipe = 0]
      /\ x.handler = "wait" /\ x.proc = "exited"
  BY DEF WaitCmd
<1>2. x \in Session
  BY DEF SessionInv
<1>3. /\ y.handler = "status" /\ y.proc = "reaped" /\ y.pipe = 0
      /\ y.client = x.client /\ y.written = x.written /\ y.sent = x.sent /\ y.status = x.status
  BY <1>1, <1>2 DEF Session
<1>5. y \in Session
  <2>. DEFINE a == [x EXCEPT !.handler = "status"]
              b == [a EXCEPT !.proc = "reaped"]
              d == [b EXCEPT !.pipes = "closed"]
  <2>1. a \in Session
    BY <1>2 DEF Session
  <2>2. b \in Session
    BY <2>1 DEF Session
  <2>3. d \in Session
    BY <2>2 DEF Session
  <2>4. [d EXCEPT !.pipe = 0] \in Session
    <3>. HIDE DEF d
    <3>1. 0 \in 0 .. PipeSize
      BY SizesAssumption
    <3>. QED
      BY <2>3, <3>1 DEF Session
  <2>. QED
    BY <1>1, <2>4
<1>4. x.client # "gone" => x.pipe = 0
  BY <1>1 DEF SessionInv, Running
<1>. QED
  BY <1>1, <1>3, <1>4, <1>5 DEF SessionInv, Early, Running

LEMMA SendStatusKeeps ==
  ASSUME NEW x, SessionInv(x), NEW y \in SendStatus(x) PROVE SessionInv(y)
BY DEF SessionInv, SendStatus, Returned, Session, Early, Running

-----------------------------------------------------------------------------
(* The steps of the client, the process and the copying goroutines.        *)

LEMMA AcceptedKeeps ==
  ASSUME NEW x, SessionInv(x), x.handler = "queued"
  PROVE  SessionInv([x EXCEPT !.handler = "handshake"])
BY DEF SessionInv, Session, Early, Running

LEMMA ConnectKeeps ==
  ASSUME NEW x, SessionInv(x), x.client = "none"
  PROVE  SessionInv([x EXCEPT !.client = "open", !.handler = "queued"])
BY DEF SessionInv, Session, Early, Running

LEMMA ClientKeeps ==
  ASSUME NEW x, SessionInv(x), NEW to \in {"eof", "gone"}, x.client \in {"open", "eof"}
  PROVE  SessionInv([x EXCEPT !.client = to])
BY DEF SessionInv, Session, Early, Running

LEMMA WriteKeeps ==
  ASSUME NEW x, SessionInv(x), x.proc = "running", x.written < OutLen, x.pipe < PipeSize
  PROVE  SessionInv([x EXCEPT !.written = @ + 1, !.pipe = @ + 1])
<1>. DEFINE a == [x EXCEPT !.written = x.written + 1]
            y == [a EXCEPT !.pipe = a.pipe + 1]
<1>1. x \in Session /\ x.written \in Nat /\ x.pipe \in Nat /\ x.sent \in Nat
  BY SizesAssumption DEF SessionInv, Session
<1>2. x.written + 1 \in 0 .. OutLen /\ x.pipe + 1 \in 0 .. PipeSize
  BY <1>1, SizesAssumption
<1>3. a \in Session /\ a.pipe = x.pipe
  BY <1>1, <1>2 DEF Session
<1>4. y \in Session
  <2>. HIDE DEF a
  <2>. QED
    BY <1>2, <1>3 DEF Session
<1>5. /\ y.written = x.written + 1 /\ y.pipe = x.pipe + 1 /\ y.sent = x.sent
      /\ y.client = x.client /\ y.handler = x.handler /\ y.proc = x.proc
      /\ y.out = x.out /\ y.pipes = x.pipes /\ y.status = x.status
  BY <1>1 DEF Session
<1>6. SessionInv(y)
  <2>. HIDE DEF y
  <2>. QED
    BY <1>1, <1>4, <1>5 DEF SessionInv, Early, Running
<1>7. y = [x EXCEPT !.written = @ + 1, !.pipe = @ + 1]
  BY <1>1 DEF Session
<1>. QED
  BY <1>6, <1>7

LEMMA ExitKeeps ==
  ASSUME NEW x, SessionInv(x), x.proc = "running"
  PROVE  SessionInv([x EXCEPT !.proc = "exited"])
BY DEF SessionInv, Session, Early, Running

LEMMA CopyKeeps ==
  ASSUME NEW x, SessionInv(x), x.out = "copying", x.pipes = "open", x.pipe > 0
  PROVE  SessionInv([x EXCEPT !.pipe = @ - 1,
                              !.sent = IF x.client # "gone" THEN @ + 1 ELSE @,
                              !.out = IF x.client # "gone" THEN @ ELSE "done"])
<1>. DEFINE n == IF x.client # "gone" THEN x.sent + 1 ELSE x.sent
            o == IF x.client # "gone" THEN x.out ELSE "done"
            a == [x EXCEPT !.pipe = x.pipe - 1]
            b == [a EXCEPT !.sent = n]
            y == [b EXCEPT !.out = o]
<1>1. /\ x \in Session /\ x.written \in 0 .. OutLen /\ x.pipe \in 0 .. PipeSize
      /\ x.sent \in 0 .. OutLen /\ x.out \in {"none", "copying", "done"}
  BY DEF SessionInv, Session
<1>2. x.client # "gone" => x.written = x.sent + x.pipe
  BY DEF SessionInv
<1>3. x.pipe - 1 \in 0 .. PipeSize /\ n \in 0 .. OutLen
  BY <1>1, <1>2, SizesAssumption
<1>4. o \in {"none", "copying", "done"}
  BY <1>1
<1>5. y \in Session
  <2>. HIDE DEF n, o
  <2>1. a \in Session
    BY <1>1, <1>3 DEF Session
  <2>2. b \in Session
    <3>. HIDE DEF a
    <3>. QED
      BY <2>1, <1>3 DEF Session
  <2>. HIDE DEF b
  <2>. QED
    BY <2>2, <1>4 DEF Session
<1>6. /\ y.written = x.written /\ y.pipe = x.pipe - 1 /\ y.sent = n /\ y.out = o
      /\ y.client = x.client /\ y.handler = x.handler /\ y.proc = x.proc
      /\ y.pipes = x.pipes /\ y.status = x.status
  <2>. HIDE DEF n, o
  <2>. QED
    BY <1>1 DEF Session
<1>7. SessionInv(y)
  <2>. HIDE DEF y
  <2>. QED
    BY <1>1, <1>2, <1>5, <1>6 DEF SessionInv, Early, Running
<1>8. y = [x EXCEPT !.pipe = @ - 1,
                    !.sent = IF x.client # "gone" THEN @ + 1 ELSE @,
                    !.out = IF x.client # "gone" THEN @ ELSE "done"]
  BY <1>1 DEF Session
<1>. QED
  BY <1>7, <1>8

LEMMA CopyEndKeeps ==
  ASSUME NEW x, SessionInv(x), x.out = "copying", Ended(x), x.pipe = 0 \/ x.pipes = "closed"
  PROVE  SessionInv([x EXCEPT !.out = "done"])
BY DEF SessionInv, Ended, Session, Early, Running

LEMMA OtherCopiesKeep ==
  ASSUME NEW x, SessionInv(x)
  PROVE  SessionInv([x EXCEPT !.err = "done"]) /\ SessionInv([x EXCEPT !.in = "done"])
BY DEF SessionInv, Session, Early, Running

-----------------------------------------------------------------------------
(* All sessions.                                                           *)

SessionsInv == s \in [Conn -> Session] /\ \A c \in Conn : SessionInv(s[c])

LEMMA OneSession ==
  ASSUME SessionsInv, NEW c \in Conn, NEW y, SessionInv(y), s' = [s EXCEPT ![c] = y]
  PROVE  SessionsInv'
<1>1. y \in Session
  BY DEF SessionInv
<1>2. s' \in [Conn -> Session]
  BY <1>1 DEF SessionsInv
<1>3. ASSUME NEW d \in Conn PROVE SessionInv(s'[d])
  <2>1. s'[d] = IF d = c THEN y ELSE s[d]
    BY DEF SessionsInv
  <2>. QED
    BY <2>1 DEF SessionsInv
<1>. QED
  BY <1>2, <1>3 DEF SessionsInv

LEMMA HandlerKeeps ==
  ASSUME SessionsInv, NEW c \in Conn, Handler(c) \/ HandlerRequest(c)
  PROVE  SessionsInv'
<1>1. PICK y \in Handshake(s[c]) \cup Request(s[c]) \cup Attach(s[c]) \cup StartCmd(s[c])
                \cup AwaitCopies(s[c]) \cup WaitCmd(s[c]) \cup SendStatus(s[c]) :
           s' = [s EXCEPT ![c] = y]
  BY DEF Handler, HandlerRequest
<1>2. SessionInv(s[c])
  BY DEF SessionsInv
<1>3. SessionInv(y)
  BY <1>2, HandshakeKeeps, RequestKeeps, AttachKeeps, StartCmdKeeps, AwaitCopiesKeeps,
     WaitCmdKeeps, SendStatusKeeps
<1>. QED
  BY <1>1, <1>3, OneSession

LEMMA ConnStepKeeps ==
  ASSUME SessionsInv, NEW c \in Conn,
         \/ Accept(c) \/ Connect(c) \/ ClientEOF(c) \/ ClientLeaves(c)
         \/ Handler(c) \/ HandlerRequest(c) \/ ProcStep(c) \/ Copying(c)
         \/ CopyErrEnds(c) \/ CopyInEnds(c)
  PROVE  SessionsInv' /\ UNCHANGED serverVars
<1>1. SessionInv(s[c])
  BY DEF SessionsInv
<1>2. UNCHANGED serverVars
  BY DEF Accept, Connect, ClientEOF, ClientLeaves, Handler, HandlerRequest, ProcStep,
         ProcWrites, ProcExits, Copying, CopyOut, CopyOutEnds, CopyErrEnds, CopyInEnds
<1>3. CASE Accept(c)
  <2>1. SessionInv([s[c] EXCEPT !.handler = "handshake"])
    BY <1>1, <1>3, AcceptedKeeps DEF Accept
  <2>2. s' = [s EXCEPT ![c] = [s[c] EXCEPT !.handler = "handshake"]]
    BY <1>3 DEF Accept
  <2>. QED
    BY <1>2, <2>1, <2>2, OneSession
<1>4. CASE Connect(c)
  <2>1. SessionInv([s[c] EXCEPT !.client = "open", !.handler = "queued"])
    BY <1>1, <1>4, ConnectKeeps DEF Connect
  <2>2. s' = [s EXCEPT ![c] = [s[c] EXCEPT !.client = "open", !.handler = "queued"]]
    BY <1>4 DEF Connect, SessionsInv
  <2>. QED
    BY <1>2, <2>1, <2>2, OneSession
<1>5. CASE ClientEOF(c) \/ ClientLeaves(c)
  <2>1. PICK to \in {"eof", "gone"} :
          s' = [s EXCEPT ![c] = [s[c] EXCEPT !.client = to]]
    BY <1>5 DEF ClientEOF, ClientLeaves
  <2>2. SessionInv([s[c] EXCEPT !.client = to])
    BY <1>1, <1>5, ClientKeeps DEF ClientEOF, ClientLeaves
  <2>. QED
    BY <1>2, <2>1, <2>2, OneSession
<1>6. CASE Handler(c) \/ HandlerRequest(c)
  BY <1>2, <1>6, HandlerKeeps
<1>7. CASE ProcWrites(c)
  <2>1. SessionInv([s[c] EXCEPT !.written = @ + 1, !.pipe = @ + 1])
    BY <1>1, <1>7, WriteKeeps DEF ProcWrites
  <2>2. s' = [s EXCEPT ![c] = [s[c] EXCEPT !.written = @ + 1, !.pipe = @ + 1]]
    BY <1>7 DEF ProcWrites, SessionsInv
  <2>. QED
    BY <1>2, <2>1, <2>2, OneSession
<1>8. CASE ProcExits(c)
  <2>1. SessionInv([s[c] EXCEPT !.proc = "exited"])
    BY <1>1, <1>8, ExitKeeps DEF ProcExits
  <2>2. s' = [s EXCEPT ![c] = [s[c] EXCEPT !.proc = "exited"]]
    BY <1>8 DEF ProcExits
  <2>. QED
    BY <1>2, <2>1, <2>2, OneSession
<1>9. CASE CopyOut(c)
  <2>. DEFINE y == [s[c] EXCEPT !.pipe = @ - 1,
                                !.sent = IF s[c].client # "gone" THEN @ + 1 ELSE @,
                                !.out = IF s[c].client # "gone" THEN @ ELSE "done"]
  <2>1. SessionInv(y)
    BY <1>1, <1>9, CopyKeeps DEF CopyOut
  <2>2. s' = [s EXCEPT ![c] = y]
    BY <1>9 DEF CopyOut, SessionsInv
  <2>. HIDE DEF y
  <2>. QED
    BY <1>2, <2>1, <2>2, OneSession
<1>10. CASE CopyOutEnds(c)
  <2>1. SessionInv([s[c] EXCEPT !.out = "done"])
    BY <1>1, <1>10, CopyEndKeeps DEF CopyOutEnds
  <2>2. s' = [s EXCEPT ![c] = [s[c] EXCEPT !.out = "done"]]
    BY <1>10 DEF CopyOutEnds
  <2>. QED
    BY <1>2, <2>1, <2>2, OneSession
<1>11. CASE CopyErrEnds(c)
  <2>1. s' = [s EXCEPT ![c] = [s[c] EXCEPT !.err = "done"]]
    BY <1>11 DEF CopyErrEnds
  <2>. QED
    BY <1>1, <1>2, <2>1, OtherCopiesKeep, OneSession
<1>12. CASE CopyInEnds(c)
  <2>1. s' = [s EXCEPT ![c] = [s[c] EXCEPT !.in = "done"]]
    BY <1>12 DEF CopyInEnds
  <2>. QED
    BY <1>1, <1>2, <2>1, OtherCopiesKeep, OneSession
<1>. QED
  BY <1>2, <1>3, <1>4, <1>5, <1>6, <1>7, <1>8, <1>9, <1>10, <1>11, <1>12
     DEF ProcStep, Copying

-----------------------------------------------------------------------------
(* The server: what of the listener, the flag and the loop goes together.  *)

\* Close sets its flag before it closes the listener, so that a failure which
\* the closed listener causes is always seen with the flag set.
ServerInv ==
  /\ listener \in {"none", "open", "closed"}
  /\ closed \in BOOLEAN
  /\ closer \in {"idle", "flagged", "returned"}
  /\ loop \in {"none", "accept", "error", "stopped"}
  /\ cause \in {"none", "other", "closed"} /\ logged \in {"none", "other", "closed"}
  /\ closer = "flagged" \/ listener = "closed" \/ cause = "closed" => closed
  /\ logged # "closed"

IInv == ServerInv /\ SessionsInv

LEMMA IInvInit == Init => IInv
BY NoSessionInv DEF Init, IInv, ServerInv, SessionsInv, SessionInv

LEMMA ServerStepKeeps ==
  ASSUME ServerInv,
         Start \/ CheckClosed \/ AcceptFails \/ CloseFlag \/ CloseListener
  PROVE  ServerInv' /\ UNCHANGED s
<1>1. CASE Start
  BY <1>1 DEF Start, ServerInv
<1>2. CASE CheckClosed
  BY <1>2 DEF CheckClosed, ServerInv
<1>3. CASE AcceptFails
  BY <1>3 DEF AcceptFails, ServerInv
<1>4. CASE CloseFlag
  BY <1>4 DEF CloseFlag, ServerInv
<1>5. CASE CloseListener
  BY <1>5 DEF CloseListener, ServerInv
<1>. QED
  BY <1>1, <1>2, <1>3, <1>4, <1>5

LEMMA IInvStep == IInv /\ [Next]_vars => IInv'
<1>. SUFFICES ASSUME IInv, [Next]_vars PROVE IInv'
  OBVIOUS
<1>1. ASSUME UNCHANGED s PROVE SessionsInv'
  BY <1>1 DEF IInv, SessionsInv
<1>2. ASSUME UNCHANGED serverVars PROVE ServerInv'
  BY <1>2 DEF IInv, ServerInv, serverVars
<1>3. CASE UNCHANGED vars
  BY <1>1, <1>2, <1>3 DEF vars, IInv
<1>4. CASE Start \/ CheckClosed \/ AcceptFails \/ CloseFlag \/ CloseListener
  BY <1>1, <1>4, ServerStepKeeps DEF IInv
<1>5. CASE \E c \in Conn :
             \/ Accept(c) \/ Connect(c) \/ ClientEOF(c) \/ ClientLeaves(c)
             \/ Handler(c) \/ HandlerRequest(c) \/ ProcStep(c) \/ Copying(c)
             \/ CopyErrEnds(c) \/ CopyInEnds(c)
  BY <1>2, <1>5, ConnStepKeeps DEF IInv
<1>. QED
  BY <1>3, <1>4, <1>5 DEF Next, LoopStep

LEMMA IInvAlways == FairSpec => []IInv
BY IInvInit, IInvStep, PTL DEF FairSpec

-----------------------------------------------------------------------------
(* What the server promises.                                               *)

\* Every session keeps to its type, whatever its client does: the pipe holds no
\* more than its size and the client is sent no more than the process writes.
THEOREM SshTypeOK == FairSpec => []TypeOK
<1>1. IInv => TypeOK
  BY DEF IInv, ServerInv, SessionsInv, TypeOK
<1>. QED
  BY <1>1, IInvAlways, PTL

\* handleChannel waits for the copy of the output before it sends the exit
\* status: a client that gets a status has been sent all that the process wrote.
THEOREM SshStatusComesLast == FairSpec => []StatusComesLast
<1>1. IInv => StatusComesLast
  <2>1. ASSUME NEW x, SessionInv(x), x.status, x.client # "gone"
        PROVE  x.sent = x.written
    <3>1. x.sent \in Nat /\ x.pipe = 0 /\ x.written = x.sent + x.pipe
      BY <2>1, SizesAssumption DEF SessionInv, Session
    <3>. QED
      BY <3>1
  <2>. QED
    BY <2>1 DEF IInv, SessionsInv, StatusComesLast
<1>. QED
  BY <1>1, IInvAlways, PTL

\* handleChannel leaves no process behind that it has started, on any return.
THEOREM SshProcessReaped == FairSpec => []ProcessReaped
<1>1. IInv => ProcessReaped
  BY DEF IInv, SessionsInv, SessionInv, ProcessReaped
<1>. QED
  BY <1>1, IInvAlways, PTL

\* The accept loop never logs and retries a failure that Close has caused.
THEOREM SshCloseNotLogged == FairSpec => []CloseNotLogged
<1>1. IInv => CloseNotLogged
  BY DEF IInv, ServerInv, CloseNotLogged
<1>. QED
  BY <1>1, IInvAlways, PTL
=============================================================================
