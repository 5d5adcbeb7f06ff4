-------------------------- MODULE GrepSearch_proof --------------------------
(***************************************************************************)
(* Proofs about GrepSearch: for any tree, any options and any size of pipe. *)
(* First the process, the goroutine and the caller, to whom the results     *)
(* themselves do not matter; then the types; then the results.              *)
(***************************************************************************)
EXTENDS GrepSearch, FiniteSetTheorems, TLAPS

\* The goroutine still reads, kills or waits.
Working == {"read", "kill", "wait"}

\* Caller and goroutine: one runs as long as the other needs it.
Stages ==
  /\ main \in {"start", "receive", "kill", "returned"}
  /\ main = "start" => reader = "none" /\ git = "none"
  /\ main = "receive" => reader \in Working \cup {"send"}
  /\ main = "kill" => reader = "gone"
  /\ main = "returned" =>
       git # "running" /\ (reader = "gone" \/ (reader = "none" /\ outcome = "start"))

\* No outcome before the goroutine is done; no error only from a process that
\* has ended, not failed, and been waited for.
Outcomes ==
  /\ main = "start" \/ reader \in Working => outcome = "none"
  /\ outcome = "nil" => reaped /\ git \notin {"running", "failed"}

\* While the goroutine has not killed and waited, there is a process.
Process == reader \in Working \cup {"send", "gone"} => git # "none"

IInv == Stages /\ Outcomes /\ Process

LEMMA IInvInit == Init => IInv
BY DEF Init, IInv, Stages, Outcomes, Process, Working

\* A step of the loop leaves the goroutine reading or about to kill.
LEMMA ReadLineStays ==
  ASSUME ReadLine
  PROVE  /\ reader = "read" /\ reader' \in {"read", "kill"}
         /\ UNCHANGED <<git, reaped, outcome, main>>
<1>1. CASE ReadSeparator
  BY <1>1 DEF ReadLine, ReadSeparator, AddResult
<1>2. CASE ReadSameFile
  BY <1>2 DEF ReadLine, ReadSameFile
<1>3. CASE ReadNewResult
  BY <1>3 DEF ReadLine, ReadNewResult, AddResult
<1>. QED
  BY <1>1, <1>2, <1>3 DEF ReadLine

LEMMA GitStepKeeps == ASSUME IInv, GitStep PROVE IInv'
<1>. USE DEF IInv, Stages, Outcomes, Process, Working
<1>1. CASE GitWrites
  BY <1>1 DEF GitWrites
<1>2. CASE GitExits
  <2>1. /\ git = "running" /\ git' \in {"nomatch", "ok", "failed"}
        /\ UNCHANGED <<reaped, reader, outcome, main>>
    BY <1>2 DEF GitExits
  <2>. QED
    BY <2>1
<1>. QED
  BY <1>1, <1>2 DEF GitStep

LEMMA ReaderStepKeeps == ASSUME IInv, ReaderStep PROVE IInv'
<1>. USE DEF IInv, Stages, Outcomes, Process, Working
<1>1. CASE ReadLine
  BY <1>1, ReadLineStays
<1>2. CASE ReadEOF
  BY <1>2 DEF ReadEOF, process
<1>3. CASE ReadFails
  BY <1>3 DEF ReadFails, process
<1>4. CASE Kill
  BY <1>4 DEF Kill
<1>5. CASE KillFails
  BY <1>5 DEF KillFails, process
<1>6. CASE Wait
  BY <1>6 DEF Wait
<1>7. CASE SendReceive
  BY <1>7 DEF SendReceive, process
<1>. QED
  BY <1>1, <1>2, <1>3, <1>4, <1>5, <1>6, <1>7 DEF ReaderStep

LEMMA MainStepKeeps == ASSUME IInv, MainStep PROVE IInv'
<1>. USE DEF IInv, Stages, Outcomes, Process, Working
<1>1. CASE Start
  BY <1>1 DEF Start
<1>2. CASE StartFails
  BY <1>2 DEF StartFails, process
<1>3. CASE KillAndReturn
  <2>1. /\ main = "kill" /\ main' = "returned" /\ git' # "running"
        /\ git' = git \/ (git = "running" /\ git' = "killed")
        /\ reaped' = reaped /\ reader' = reader /\ outcome' = outcome
    BY <1>3 DEF KillAndReturn
  <2>. QED
    BY <2>1
<1>. QED
  BY <1>1, <1>2, <1>3 DEF MainStep

LEMMA IInvStep == IInv /\ [Next]_vars => IInv'
<1>. SUFFICES ASSUME IInv, [Next]_vars PROVE IInv'
  OBVIOUS
<1>1. CASE UNCHANGED vars
  BY <1>1 DEF vars, process, IInv, Stages, Outcomes, Process
<1>. QED
  BY <1>1, GitStepKeeps, ReaderStepKeeps, MainStepKeeps DEF Next

LEMMA IInvAlways == Spec => []IInv
BY IInvInit, IInvStep, PTL DEF Spec

\* However Search ends, it has killed git grep or seen it end, and its goroutine
\* is gone; without an error the process has been waited for.
THEOREM NothingLeftRunning == Spec => []NothingRunsOn
<1>1. IInv => NothingRunsOn
  BY DEF IInv, Stages, Outcomes, NothingRunsOn
<1>. QED
  BY <1>1, IInvAlways, PTL

\* The kills of Search and its goroutine hide no failure of git grep.
THEOREM FailureNotHidden == Spec => []FailureReported
<1>1. IInv => FailureReported
  BY DEF IInv, Outcomes, FailureReported
<1>. QED
  BY <1>1, IInvAlways, PTL
-----------------------------------------------------------------------------
(* Lines, and the types.                                                   *)

LEMMA Products == ASSUME NEW a \in Nat, NEW b \in Nat PROVE a * b \in Nat
  OBVIOUS

LEMMA Commutes == ASSUME NEW a \in Int, NEW b \in Int PROVE a * b = b * a
  OBVIOUS

LEMMA LineIs == ASSUME NEW x \in Line PROVE x \in Nat /\ x > 0
<1>1. PICK f \in 1 .. NumFiles, l \in 1 .. NumLines : x = f * (NumLines + 1) + l
  BY DEF Line
<1>2. f * (NumLines + 1) \in Nat
  BY SizesAssumption, Products
<1>. QED
  BY <1>1, <1>2, SizesAssumption

\* Two multiples of a number that are less than it apart are the same.
LEMMA Multiples ==
  ASSUME NEW a \in Int, NEW b \in Int, NEW m \in Nat \ {0}, a * m - b * m < m, b * m - a * m < m
  PROVE  a = b
<1>1. ASSUME NEW c \in Int, NEW d \in Int, c >= d + 1 PROVE c * m - d * m >= m
  <2>1. (c - d - 1) * m \in Nat
    BY <1>1, Products
  <2>2. (c - d - 1) * m = c * m - d * m - m
    OBVIOUS
  <2>3. c * m \in Int /\ d * m \in Int
    OBVIOUS
  <2>. QED
    BY <2>1, <2>2, <2>3
<1>. QED
  BY <1>1

LEMMA FileIs ==
  ASSUME NEW f \in 1 .. NumFiles, NEW l \in 1 .. NumLines
  PROVE  FileOf(f * (NumLines + 1) + l) = f
<1>. DEFINE m == NumLines + 1
            y == (f * m + l) - 1
<1>1. m \in Nat \ {0} /\ f * m \in Nat /\ y \in Nat
  BY SizesAssumption, Products
<1>2. y \div m \in Int /\ y = m * (y \div m) + (y % m) /\ y % m \in 0 .. m - 1
  BY <1>1
<1>3. m * (y \div m) = (y \div m) * m
  <2>1. m \in Int /\ (y \div m) \in Int
    BY <1>1, <1>2
  <2>. HIDE DEF m, y
  <2>. QED
    BY <2>1, Commutes
<1>4. l - 1 \in 0 .. m - 1
  BY SizesAssumption
<1>5. y \div m = f
  <2>. DEFINE q == y \div m
  <2>1. q \in Int /\ q * m \in Int /\ f * m \in Int
    BY <1>1, <1>2
  <2>2. f * m + (l - 1) = q * m + (y % m)
    <3>1. y = f * m + (l - 1)
      BY <1>1
    <3>. QED
      BY <1>2, <1>3, <3>1
  <2>3. q * m - f * m < m /\ f * m - q * m < m
    <3>. SUFFICES ASSUME NEW a \in Int, NEW b \in Int, NEW c \in 0 .. m - 1, NEW d \in 0 .. m - 1,
                         a + c = b + d
                  PROVE  b - a < m /\ a - b < m
      BY <1>2, <1>4, <2>1, <2>2
    <3>. QED
      BY <1>1
  <2>. QED
    BY <1>1, <2>1, <2>3, Multiples
<1>6. FileOf(f * m + l) = y \div m
  BY Zenon DEF FileOf
<1>. QED
  BY <1>5, <1>6

\* A line and the one after it are of one file.
LEMMA SameFile == ASSUME NEW x \in Line, x + 1 \in Line PROVE FileOf(x + 1) = FileOf(x)
<1>1. PICK f \in 1 .. NumFiles, l \in 1 .. NumLines : x = f * (NumLines + 1) + l
  BY DEF Line
<1>2. PICK g \in 1 .. NumFiles, k \in 1 .. NumLines : x + 1 = g * (NumLines + 1) + k
  BY DEF Line
<1>. DEFINE m == NumLines + 1
<1>3. m \in Nat \ {0} /\ f * m \in Int /\ g * m \in Int
  BY SizesAssumption, Products
<1>4. f * m - g * m < m /\ g * m - f * m < m
  BY <1>1, <1>2, <1>3, SizesAssumption
<1>5. f = g
  BY <1>3, <1>4, Multiples
<1>6. FileOf(x) = f /\ FileOf(x + 1) = g
  BY <1>1, <1>2, FileIs
<1>. QED
  BY <1>5, <1>6

LEMMA AppendIs ==
  ASSUME NEW S, NEW s \in Seq(S), NEW e \in S
  PROVE  /\ Append(s, e) \in Seq(S) /\ Len(Append(s, e)) = Len(s) + 1
         /\ \A i \in 1 .. Len(s) : Append(s, e)[i] = s[i]
         /\ Append(s, e)[Len(s) + 1] = e
  OBVIOUS

LEMMA TailIs ==
  ASSUME NEW S, NEW s \in Seq(S), s # << >>
  PROVE  /\ Len(s) \in Nat \ {0} /\ Head(s) = s[1] /\ Head(s) \in S
         /\ Tail(s) \in Seq(S) /\ Len(Tail(s)) = Len(s) - 1
         /\ \A i \in 1 .. Len(s) - 1 : Tail(s)[i] = s[i + 1]
  OBVIOUS

LEMMA ShownIs == Shown(hits, context) \subseteq Line
BY DEF Shown

LEMMA CountOffTyped ==
  ASSUME TypeOK, NEW rr \in Result \cup {NoResult}, CountOff(rr)
  PROVE  res' \in Seq(Result) /\ offset' \in Nat
BY AppendIs DEF TypeOK, CountOff

LEMMA ReadLineTyped == ASSUME TypeOK, ReadLine PROVE TypeOK'
<1>1. /\ pipe \in Seq(Line \cup {Separator}) /\ pipe # << >> /\ pipe' = Tail(pipe)
      /\ UNCHANGED <<input, git, unwritten, written, reaped, outcome, main>> /\ reader = "read"
  BY DEF TypeOK, ReadLine
<1>2. pipe' \in Seq(Line \cup {Separator}) /\ Head(pipe) \in Line \cup {Separator} /\ Len(pipe') <= PipeSize
  BY <1>1, TailIs, SizesAssumption DEF TypeOK
<1>3. CASE ReadSeparator
  <2>1. res' \in Seq(Result) /\ offset' \in Nat
    BY <1>3, CountOffTyped DEF ReadSeparator, AddResult, TypeOK
  <2>. QED
    BY <1>1, <1>2, <1>3, <2>1 DEF TypeOK, ReadSeparator, AddResult, input
<1>4. CASE ReadSameFile
  <2>1. r \in Result /\ Head(pipe) \in Line
    BY <1>2, <1>4 DEF ReadSameFile, TypeOK
  <2>2. r' \in Result
    BY <1>4, <2>1 DEF ReadSameFile, Result
  <2>. QED
    BY <1>1, <1>2, <1>4, <2>2 DEF TypeOK, ReadSameFile, input
<1>5. CASE ReadNewResult
  <2>1. Head(pipe) \in Line
    BY <1>2, <1>5 DEF ReadNewResult
  <2>2. r' \in Result \cup {NoResult}
    BY <1>5, <2>1 DEF ReadNewResult, Result
  <2>3. CASE r = NoResult
    BY <1>1, <1>2, <1>5, <2>2, <2>3 DEF TypeOK, ReadNewResult, input
  <2>4. CASE r # NoResult
    <3>1. res' \in Seq(Result) /\ offset' \in Nat
      BY <1>5, <2>4, CountOffTyped DEF ReadNewResult, AddResult, TypeOK
    <3>. QED
      BY <1>1, <1>2, <1>5, <2>2, <2>4, <3>1 DEF TypeOK, ReadNewResult, AddResult, input
  <2>. QED
    BY <2>3, <2>4
<1>. QED
  BY <1>3, <1>4, <1>5 DEF ReadLine

LEMMA GitStepTyped == ASSUME TypeOK, GitStep PROVE TypeOK'
<1>1. CASE GitWrites
  <2>1. /\ unwritten' \subseteq unwritten /\ written' \in Line \cup {Separator}
        /\ pipe' = Append(pipe, written') /\ Len(pipe) < PipeSize
        /\ UNCHANGED <<input, git, reaped, parse, reader, outcome, main>>
    BY <1>1 DEF GitWrites, TypeOK
  <2>2. pipe' \in Seq(Line \cup {Separator}) /\ Len(pipe') = Len(pipe) + 1 /\ Len(pipe) \in Nat
    BY <2>1, AppendIs DEF TypeOK
  <2>. QED
    BY <2>1, <2>2, SizesAssumption DEF TypeOK, input, parse
<1>2. CASE GitExits
  BY <1>2 DEF GitExits, TypeOK, input, parse
<1>. QED
  BY <1>1, <1>2 DEF GitStep

LEMMA TypeOKInit == Init => TypeOK
<1>. SUFFICES ASSUME Init PROVE TypeOK
  OBVIOUS
<1>1. pipe = << >> /\ res = << >> /\ offset = offset0 /\ offset0 \in Nat /\ Len(pipe) = 0
  BY OptionsAssumption DEF Init
<1>2. /\ hits \subseteq Line /\ context \in Contexts /\ limit \in Limits /\ offset0 \in Offsets
      /\ unwritten = {} /\ written = Separator /\ r = NoResult
  BY DEF Init
<1>3. git = "none" /\ reaped = FALSE /\ reader = "none" /\ outcome = "none" /\ main = "start"
  BY DEF Init
<1>4. pipe \in Seq(Line \cup {Separator}) /\ Len(pipe) <= PipeSize
  BY <1>1, SizesAssumption
<1>5. res \in Seq(Result)
  BY <1>1
<1>. QED
  BY <1>1, <1>2, <1>3, <1>4, <1>5 DEF TypeOK

LEMMA TypeOKNext == TypeOK /\ [Next]_vars => TypeOK'
<1>. SUFFICES ASSUME TypeOK, [Next]_vars PROVE TypeOK'
  OBVIOUS
<1>1. CASE ReadLine
  BY <1>1, ReadLineTyped
<1>2. CASE ReadEOF
  <2>1. res' \in Seq(Result) /\ offset' \in Nat
    BY <1>2, CountOffTyped DEF ReadEOF, TypeOK
  <2>. QED
    BY <1>2, <2>1 DEF ReadEOF, TypeOK, input, process
<1>3. CASE ReadFails \/ Kill \/ KillFails \/ Wait \/ SendReceive
  BY <1>3 DEF ReadFails, Kill, KillFails, Wait, SendReceive, TypeOK, input, process, parse
<1>4. CASE MainStep
  BY <1>4, ShownIs DEF MainStep, Start, StartFails, KillAndReturn, TypeOK, input, process, parse
<1>5. CASE UNCHANGED vars
  BY <1>5 DEF vars, TypeOK, input, process, parse
<1>. QED
  BY <1>1, <1>2, <1>3, <1>4, <1>5, GitStepTyped DEF Next, ReaderStep

\* The types of the variables: the offset is not counted below zero, and what is
\* put together or kept is a result.
THEOREM SearchTypes == Spec => []TypeOK
BY TypeOKInit, TypeOKNext, PTL DEF Spec

-----------------------------------------------------------------------------
(* The results.                                                            *)

Shows == Shown(hits, context)

\* The lines that the goroutine has not read, and the matches' first lines among
\* those that it has.
Piped == {pipe[i] : i \in 1 .. Len(pipe)} \ {Separator}
Rest == unwritten \cup Piped
Begun == Starts \ Rest

\* How many results have been counted, off or kept.
Counted == (offset0 - offset) + Len(res)

\* What the goroutine has read last, as git grep wrote it.
Read == IF r = NoResult THEN Separator ELSE r.end

\* What git grep writes after a: the next line, a separator where that is not shown,
\* and after a separator a line that begins a match.
Follows(a, b) ==
  /\ a # Separator /\ b # Separator => b = a + 1
  /\ a # Separator /\ b = Separator => a + 1 \notin Shows
  /\ a = Separator => b # Separator /\ b - 1 \notin Shows

\* What is unwritten is what comes after what is written.
Writing ==
  /\ unwritten \subseteq Shows
  /\ \A x \in Shows, y \in unwritten : x > y => x \in unwritten
  /\ written # Separator => written \in Shows /\ \A x \in Shows : x > written <=> x \in unwritten
  /\ written = Separator =>
       \A x \in unwritten : (\A y \in unwritten : x <= y) => x - 1 \notin Shows

\* The lines in the pipe are in order, before those not written, and none is left out.
InOrder ==
  /\ \A i \in 1 .. Len(pipe) : pipe[i] # Separator =>
       /\ pipe[i] \in Shows
       /\ \A y \in unwritten : pipe[i] < y
       /\ \A x \in Shows : x > pipe[i] => x \in Rest
  /\ \A i, j \in 1 .. Len(pipe) :
       i < j /\ pipe[i] # Separator /\ pipe[j] # Separator => pipe[i] < pipe[j]

\* From what is read to what is written one thing follows the other.
Chained ==
  /\ IF pipe = << >> THEN written = Read ELSE written = pipe[Len(pipe)] /\ Follows(Read, pipe[1])
  /\ \A i \in 1 .. Len(pipe) - 1 : Follows(pipe[i], pipe[i + 1])

\* The result that is put together begins the first match that is not counted.
Gathered ==
  r # NoResult =>
    /\ r.start \in Starts /\ r.start <= r.end /\ r.start .. r.end \subseteq Shows
    /\ FileOf(r.start) = FileOf(r.end)
    /\ \A x \in Shows : x > r.end <=> x \in Rest
    /\ Number(r) = Counted

\* What is kept are the matches from the offset on.
Kept == \A i \in 1 .. Len(res) : res[i] \in Matches /\ Number(res[i]) = offset0 + i - 1

Tallied ==
  /\ IsFiniteSet(Begun) /\ Cardinality(Begun) = Counted + (IF r = NoResult THEN 0 ELSE 1)
  /\ offset <= offset0 /\ (offset > 0 => Len(res) = 0)
  /\ Kept

Reading == Writing /\ InOrder /\ Chained /\ Gathered /\ Tallied /\ Len(res) < limit

\* Only what has been written is passed on, only a process that has written all of
\* it ends well, and only a goroutine that has stopped reading kills it.
Running ==
  /\ main = "start" => pipe = << >> /\ written = Separator /\ r = NoResult /\ offset = offset0 /\ res = << >>
  /\ git \in {"ok", "nomatch"} => unwritten = {}
  /\ git = "killed" => reader # "read"

\* While the goroutine reads, the results are in order, and when it has stopped without
\* an error they are the page.
Pages ==
  /\ reader = "read" => Reading
  /\ reader \in {"kill", "wait", "send", "gone"} /\ outcome \in {"none", "nil"} =>
       git = "failed" \/ IsPage(res, offset0, limit)

PageInv == Running /\ (context > 0 /\ limit > 0 => Pages)

\* The tree and the options stay as they are.
LEMMA InputStays ==
  ASSUME UNCHANGED input
  PROVE  Shows' = Shows /\ Starts' = Starts /\ Matches' = Matches /\ \A m : Number(m)' = Number(m)
BY DEF input, Shows, Starts, Matches, Number

LEMMA ShowsAre == ASSUME NEW x \in Shows PROVE x \in Line /\ x \in Nat /\ x > 0 /\ x # Separator
BY ShownIs, LineIs DEF Shows, Separator

LEMMA RestIs ==
  ASSUME NEW x
  PROVE  x \in Rest <=> x \in unwritten \/ (x # Separator /\ \E i \in 1 .. Len(pipe) : pipe[i] = x)
BY DEF Rest, Piped

LEMMA AppendRest ==
  ASSUME TypeOK, NEW e \in Line \cup {Separator}, pipe' = Append(pipe, e),
         IF e = Separator THEN unwritten' = unwritten
         ELSE e \in unwritten /\ unwritten' = unwritten \ {e}
  PROVE  Rest' = Rest
<1>1. /\ Len(pipe') = Len(pipe) + 1 /\ Len(pipe) \in Nat /\ pipe'[Len(pipe) + 1] = e
      /\ \A i \in 1 .. Len(pipe) : pipe'[i] = pipe[i]
  BY AppendIs DEF TypeOK
<1>2. Piped' = Piped \cup ({e} \ {Separator})
  <2>1. ASSUME NEW x \in Piped PROVE x \in Piped'
    BY <1>1 DEF Piped
  <2>2. e # Separator => e \in Piped'
    BY <1>1 DEF Piped
  <2>3. ASSUME NEW x \in Piped' PROVE x \in Piped \cup ({e} \ {Separator})
    <3>1. PICK i \in 1 .. Len(pipe) + 1 : x = pipe'[i] /\ x # Separator
      BY <1>1 DEF Piped
    <3>2. CASE i = Len(pipe) + 1
      BY <1>1, <3>1, <3>2
    <3>3. CASE i # Len(pipe) + 1
      BY <1>1, <3>1, <3>3 DEF Piped
    <3>. QED
      BY <3>2, <3>3
  <2>. QED
    BY <2>1, <2>2, <2>3
<1>. QED
  BY <1>2 DEF Rest

-----------------------------------------------------------------------------
(* A step of git grep.                                                     *)

LEMMA GitWritesFollows ==
  ASSUME TypeOK, context > 0, Reading, GitWrites
  PROVE  /\ written' \in Line \cup {Separator} /\ pipe' = Append(pipe, written')
         /\ Rest' = Rest /\ Follows(written, written') /\ Writing'
         /\ IF written' = Separator THEN unwritten' = unwritten
            ELSE /\ written' \in unwritten /\ unwritten' = unwritten \ {written'}
                 /\ \A y \in unwritten : written' <= y
<1>. USE DEF Reading
<1>1. UNCHANGED input /\ pipe' = Append(pipe, written') /\ Shows' = Shows
  BY InputStays DEF GitWrites
<1>2. PICK next \in unwritten :
        /\ \A x \in unwritten : next <= x
        /\ \/ /\ written # Separator /\ next # written + 1
              /\ written' = Separator /\ UNCHANGED unwritten
           \/ /\ written = Separator \/ next = written + 1
              /\ written' = next /\ unwritten' = unwritten \ {next}
  BY DEF GitWrites
<1>3. next \in Shows /\ next \in Nat /\ next # Separator /\ next \in Line /\ unwritten \subseteq Shows
  BY ShowsAre DEF Writing
<1>4. CASE /\ written # Separator /\ next # written + 1
           /\ written' = Separator /\ UNCHANGED unwritten
  <2>1. written \in Nat /\ next > written
    BY <1>3, <1>4, ShowsAre DEF Writing
  <2>2. written + 1 \notin Shows
    BY <1>2, <1>3, <1>4, <2>1 DEF Writing
  <2>3. next - 1 \notin Shows
    <3>1. ASSUME next - 1 \in Shows PROVE FALSE
      <4>1. next - 1 > written
        BY <1>3, <1>4, <2>1
      <4>2. next - 1 \in unwritten
        BY <1>4, <3>1, <4>1 DEF Writing
      <4>. QED
        BY <1>2, <1>3, <4>2
    <3>. QED
      BY <3>1
  <2>4. Writing'
    <3>1. ASSUME NEW x \in unwritten, \A y \in unwritten : x <= y PROVE x - 1 \notin Shows
      <4>1. x \in Nat /\ x <= next /\ next <= x
        BY <1>2, <1>3, <3>1, ShowsAre
      <4>. QED
        BY <1>3, <2>3, <4>1
    <3>. QED
      BY <1>1, <1>4, <3>1 DEF Writing
  <2>5. Rest' = Rest
    BY <1>1, <1>4, AppendRest
  <2>. QED
    BY <1>1, <1>4, <2>2, <2>4, <2>5 DEF Follows
<1>5. CASE /\ written = Separator \/ next = written + 1
           /\ written' = next /\ unwritten' = unwritten \ {next}
  <2>1. Follows(written, next)
    BY <1>2, <1>3, <1>5 DEF Follows, Writing
  <2>2. Writing'
    <3>1. unwritten' \subseteq Shows /\ next \in Shows /\ written' # Separator
      BY <1>3, <1>5
    <3>2. ASSUME NEW x \in Shows PROVE x > next <=> x \in unwritten'
      <4>1. x \in Nat
        BY ShowsAre
      <4>2. x > next => x \in unwritten
        BY DEF Writing
      <4>3. x \in unwritten => next <= x
        BY <1>2
      <4>. QED
        BY <1>3, <1>5, <4>1, <4>2, <4>3
    <3>3. ASSUME NEW x \in Shows, NEW y \in unwritten', x > y PROVE x \in unwritten'
      <4>1. x \in Nat /\ y \in Nat /\ y > next
        BY <1>3, <1>5, <3>2, <3>3, ShowsAre
      <4>. QED
        BY <1>3, <3>2, <3>3, <4>1
    <3>. QED
      BY <1>1, <1>5, <3>1, <3>2, <3>3 DEF Writing
  <2>3. Rest' = Rest
    BY <1>1, <1>3, <1>5, AppendRest
  <2>. QED
    BY <1>1, <1>2, <1>3, <1>5, <2>1, <2>2, <2>3
<1>. QED
  BY <1>2, <1>4, <1>5

LEMMA GitWritesReading ==
  ASSUME TypeOK, context > 0, Reading, GitWrites
  PROVE  Reading'
<1>1. /\ UNCHANGED <<input, parse>> /\ Shows' = Shows /\ Starts' = Starts /\ Matches' = Matches
      /\ \A m : Number(m)' = Number(m)
  BY InputStays DEF GitWrites
<1>2. r' = r /\ res' = res /\ offset' = offset /\ offset0' = offset0 /\ limit' = limit
  BY <1>1 DEF input, parse
<1>. DEFINE e == written'
            n == Len(pipe)
<1>3. /\ e \in Line \cup {Separator} /\ pipe' = Append(pipe, e)
      /\ Rest' = Rest /\ Follows(written, e) /\ Writing'
      /\ IF e = Separator THEN unwritten' = unwritten
         ELSE e \in unwritten /\ unwritten' = unwritten \ {e} /\ \A y \in unwritten : e <= y
  BY GitWritesFollows
<1>. HIDE DEF e
<1>4. /\ Len(pipe') = n + 1 /\ n \in Nat /\ pipe'[n + 1] = e
      /\ \A i \in 1 .. n : pipe'[i] = pipe[i]
  BY <1>3, AppendIs DEF TypeOK
<1>5. unwritten \subseteq Shows /\ \A x \in Shows : x \in Nat /\ x # Separator
  BY ShowsAre DEF Reading, Writing
<1>6. Counted' = Counted /\ Read' = Read /\ Begun' = Begun
  BY <1>1, <1>2, <1>3 DEF Counted, Read, Begun
<1>7. InOrder'
  <2>1. ASSUME NEW i \in 1 .. n + 1, pipe'[i] # Separator
        PROVE  /\ pipe'[i] \in Shows /\ \A y \in unwritten' : pipe'[i] < y
               /\ \A x \in Shows : x > pipe'[i] => x \in Rest
    <3>1. CASE i = n + 1
      <4>1. e \in unwritten /\ unwritten' = unwritten \ {e} /\ \A y \in unwritten : e <= y
        BY <1>3, <1>4, <2>1, <3>1
      <4>2. \A x \in Shows : x > e => x \in Rest
        BY <4>1 DEF Reading, Writing, Rest
      <4>3. \A y \in unwritten' : e < y
        BY <1>5, <4>1
      <4>. QED
        BY <1>4, <1>5, <3>1, <4>1, <4>2, <4>3
    <3>2. CASE i # n + 1
      <4>1. i \in 1 .. n /\ pipe'[i] = pipe[i] /\ unwritten' \subseteq unwritten
        BY <1>3, <1>4, <3>2
      <4>. QED
        BY <2>1, <4>1 DEF Reading, InOrder
    <3>. QED
      BY <3>1, <3>2
  <2>2. ASSUME NEW i \in 1 .. n + 1, NEW k \in 1 .. n + 1, i < k,
               pipe'[i] # Separator, pipe'[k] # Separator
        PROVE  pipe'[i] < pipe'[k]
    <3>1. i \in 1 .. n /\ pipe'[i] = pipe[i]
      BY <1>4, <2>2
    <3>2. CASE k = n + 1
      <4>1. e \in unwritten
        BY <1>3, <1>4, <2>2, <3>2
      <4>. QED
        BY <1>4, <2>2, <3>1, <3>2, <4>1 DEF Reading, InOrder
    <3>3. CASE k # n + 1
      <4>1. k \in 1 .. n /\ pipe'[k] = pipe[k]
        BY <1>4, <3>3
      <4>. QED
        BY <2>2, <3>1, <4>1 DEF Reading, InOrder
    <3>. QED
      BY <3>2, <3>3
  <2>. QED
    BY <1>1, <1>3, <1>4, <2>1, <2>2 DEF InOrder
<1>8. Chained'
  <2>1. \A a, b : Follows(a, b)' <=> Follows(a, b)
    BY <1>1 DEF Follows
  <2>2. pipe' # << >> /\ e = pipe'[Len(pipe')]
    BY <1>3, <1>4 DEF TypeOK
  <2>3. Follows(Read, pipe'[1])
    <3>1. CASE n = 0
      <4>1. pipe = << >>
        BY <3>1 DEF TypeOK
      <4>. QED
        BY <1>3, <1>4, <3>1, <4>1 DEF Reading, Chained
    <3>2. CASE n # 0
      <4>1. pipe # << >> /\ pipe'[1] = pipe[1]
        BY <1>4, <3>2
      <4>. QED
        BY <4>1 DEF Reading, Chained
    <3>. QED
      BY <3>1, <3>2
  <2>4. ASSUME NEW i \in 1 .. n PROVE Follows(pipe'[i], pipe'[i + 1])
    <3>1. CASE i = n
      <4>1. pipe # << >> /\ pipe[n] = written
        BY <3>1 DEF Reading, Chained
      <4>. QED
        BY <1>3, <1>4, <3>1, <4>1
    <3>2. CASE i # n
      <4>1. i \in 1 .. Len(pipe) - 1 /\ pipe'[i] = pipe[i] /\ pipe'[i + 1] = pipe[i + 1]
        BY <1>4, <3>2
      <4>. QED
        BY <4>1 DEF Reading, Chained
    <3>. QED
      BY <3>1, <3>2
  <2>5. \A i \in 1 .. Len(pipe') - 1 : Follows(pipe'[i], pipe'[i + 1])
    BY <1>4, <2>4
  <2>. QED
    BY <1>6, <2>1, <2>2, <2>3, <2>5 DEF Chained, e
<1>9. Gathered'
  BY <1>1, <1>2, <1>3, <1>6 DEF Reading, Gathered
<1>10. Tallied'
  BY <1>1, <1>2, <1>6 DEF Reading, Tallied, Kept
<1>. QED
  BY <1>2, <1>3, <1>7, <1>8, <1>9, <1>10 DEF Reading

-----------------------------------------------------------------------------
(* A step of the goroutine's loop.                                         *)

\* What is left of the pipe when one thing has been read from it.
LEMMA TailReading ==
  ASSUME TypeOK, Reading, pipe # << >>, pipe' = Tail(pipe), UNCHANGED <<input, unwritten, written>>
  PROVE  /\ Head(pipe) = pipe[1] /\ Len(pipe) \in Nat \ {0}
         /\ Writing' /\ InOrder'
         /\ Rest' = Rest \ ({pipe[1]} \ {Separator})
         /\ \A i \in 1 .. Len(pipe') - 1 : Follows(pipe'[i], pipe'[i + 1])
         /\ IF pipe' = << >> THEN written' = pipe[1]
            ELSE written' = pipe'[Len(pipe')] /\ Follows(pipe[1], pipe'[1])
         /\ pipe[1] # Separator =>
              pipe[1] \in Rest /\ \A x \in Shows : x > pipe[1] <=> x \in Rest'
<1>. DEFINE n == Len(pipe)
            b == pipe[1]
<1>1. /\ n \in Nat \ {0} /\ Head(pipe) = b /\ pipe' \in Seq(Line \cup {Separator}) /\ Len(pipe') = n - 1
      /\ \A i \in 1 .. n - 1 : pipe'[i] = pipe[i + 1]
  BY TailIs DEF TypeOK
<1>2. Shows' = Shows /\ unwritten' = unwritten /\ written' = written
  BY InputStays
<1>3. \A x \in Shows : x \in Nat /\ x # Separator
  BY ShowsAre
<1>4. /\ \A i \in 1 .. n : pipe[i] # Separator =>
            /\ pipe[i] \in Shows
            /\ \A y \in unwritten : pipe[i] < y
            /\ \A x \in Shows : x > pipe[i] => x \in Rest
      /\ \A i, k \in 1 .. n :
            i < k /\ pipe[i] # Separator /\ pipe[k] # Separator => pipe[i] < pipe[k]
      /\ unwritten \subseteq Shows
  BY DEF Reading, InOrder, Writing
<1>. HIDE DEF b
<1>5. Writing'
  BY <1>2 DEF Reading, Writing
<1>6. Rest' = Rest \ ({b} \ {Separator})
  <2>1. ASSUME NEW x \in Rest' PROVE x \in Rest /\ x \notin {b} \ {Separator}
    <3>1. CASE x \in unwritten
      <4>1. b # Separator => b < x
        BY <1>1, <1>4, <3>1 DEF b
      <4>2. b # Separator => b \in Nat
        BY <1>1, <1>3, <1>4 DEF b
      <4>. QED
        BY <1>3, <1>4, <3>1, <4>1, <4>2 DEF Rest
    <3>2. CASE x \notin unwritten
      <4>1. PICK i \in 1 .. n - 1 : x = pipe'[i] /\ x # Separator
        BY <1>1, <1>2, <2>1, <3>2 DEF Rest, Piped
      <4>2. x = pipe[i + 1] /\ i + 1 \in 1 .. n /\ 1 < i + 1
        BY <1>1, <4>1
      <4>3. x \in Rest
        BY <4>1, <4>2, RestIs
      <4>4. b # Separator => b < x /\ b \in Nat /\ x \in Nat
        BY <1>1, <1>3, <1>4, <4>1, <4>2 DEF b
      <4>. QED
        BY <4>3, <4>4
    <3>. QED
      BY <3>1, <3>2
  <2>2. ASSUME NEW x \in Rest, x \notin {b} \ {Separator} PROVE x \in Rest'
    <3>1. CASE x \in unwritten
      BY <1>2, <3>1 DEF Rest
    <3>2. CASE x \notin unwritten
      <4>1. PICK i \in 1 .. n : x = pipe[i] /\ x # Separator
        BY <3>2, <2>2 DEF Rest, Piped
      <4>2. i # 1
        BY <2>2, <4>1 DEF b
      <4>3. i - 1 \in 1 .. n - 1 /\ pipe'[i - 1] = x
        BY <1>1, <4>1, <4>2
      <4>. QED
        BY <1>1, <4>1, <4>3 DEF Rest, Piped
    <3>. QED
      BY <3>1, <3>2
  <2>. QED
    BY <2>1, <2>2
<1>7. InOrder'
  <2>1. ASSUME NEW i \in 1 .. n - 1, pipe'[i] # Separator
        PROVE  /\ pipe'[i] \in Shows /\ \A y \in unwritten : pipe'[i] < y
               /\ \A x \in Shows : x > pipe'[i] => x \in Rest'
    <3>1. pipe'[i] = pipe[i + 1] /\ i + 1 \in 1 .. n /\ 1 < i + 1
      BY <1>1
    <3>2. pipe'[i] \in Shows /\ \A y \in unwritten : pipe'[i] < y
      BY <1>4, <2>1, <3>1
    <3>3. ASSUME NEW x \in Shows, x > pipe'[i] PROVE x \in Rest'
      <4>1. x \in Rest
        BY <1>4, <2>1, <3>1, <3>3
      <4>2. b # Separator => b < pipe'[i] /\ b \in Nat
        BY <1>1, <1>3, <1>4, <2>1, <3>1 DEF b
      <4>. QED
        BY <1>3, <1>6, <3>2, <3>3, <4>1, <4>2
    <3>. QED
      BY <3>2, <3>3
  <2>2. ASSUME NEW i \in 1 .. n - 1, NEW k \in 1 .. n - 1, i < k,
               pipe'[i] # Separator, pipe'[k] # Separator
        PROVE  pipe'[i] < pipe'[k]
    <3>1. pipe'[i] = pipe[i + 1] /\ i + 1 \in 1 .. n /\ pipe'[k] = pipe[k + 1] /\ k + 1 \in 1 .. n
          /\ i + 1 < k + 1
      BY <1>1, <2>2
    <3>. QED
      BY <1>4, <2>2, <3>1
  <2>. QED
    BY <1>1, <1>2, <2>1, <2>2 DEF InOrder
<1>8. ASSUME NEW i \in 1 .. Len(pipe') - 1 PROVE Follows(pipe'[i], pipe'[i + 1])
  <2>1. i + 1 \in 1 .. Len(pipe) - 1 /\ pipe'[i] = pipe[i + 1] /\ pipe'[i + 1] = pipe[(i + 1) + 1]
    BY <1>1
  <2>. QED
    BY <2>1 DEF Reading, Chained
<1>9. IF pipe' = << >> THEN written' = b ELSE written' = pipe'[Len(pipe')] /\ Follows(b, pipe'[1])
  <2>1. written = pipe[n]
    BY DEF Reading, Chained
  <2>2. CASE n = 1
    <3>1. pipe' = << >>
      BY <1>1, <2>2
    <3>. QED
      BY <1>2, <2>1, <2>2, <3>1 DEF b
  <2>3. CASE n # 1
    <3>1. 1 \in 1 .. Len(pipe) - 1 /\ pipe' # << >> /\ pipe'[1] = pipe[1 + 1] /\ pipe'[n - 1] = pipe[n]
      BY <1>1, <2>3
    <3>2. Follows(pipe[1], pipe[1 + 1])
      BY <3>1 DEF Reading, Chained
    <3>. QED
      BY <1>1, <1>2, <2>1, <3>1, <3>2 DEF b
  <2>. QED
    BY <2>2, <2>3
<1>10. ASSUME b # Separator
       PROVE  b \in Rest /\ \A x \in Shows : x > b <=> x \in Rest'
  <2>1. 1 \in 1 .. n /\ b = pipe[1] /\ b \in Shows
    BY <1>1, <1>4, <1>10 DEF b
  <2>2. b \in Rest
    BY <1>10, <2>1, RestIs
  <2>3. ASSUME NEW x \in Shows, x > b PROVE x \in Rest'
    BY <1>3, <1>4, <1>6, <2>1, <2>3
  <2>4. ASSUME NEW x \in Shows, x \in Rest' PROVE x > b
    <3>1. CASE x \in unwritten
      BY <1>3, <1>4, <1>10, <2>1, <3>1
    <3>2. CASE x \notin unwritten
      <4>1. PICK i \in 1 .. n - 1 : x = pipe'[i] /\ x # Separator
        BY <1>1, <1>2, <2>4, <3>2 DEF Rest, Piped
      <4>2. x = pipe[i + 1] /\ i + 1 \in 1 .. n /\ 1 < i + 1
        BY <1>1, <4>1
      <4>. QED
        BY <1>3, <1>4, <1>10, <2>1, <4>1, <4>2
    <3>. QED
      BY <3>1, <3>2
  <2>. QED
    BY <2>2, <2>3, <2>4
<1>. QED
  BY <1>1, <1>5, <1>6, <1>7, <1>8, <1>9, <1>10 DEF b

\* A result that no shown line follows is the next match to count.
LEMMA GatheredIsMatch ==
  ASSUME TypeOK, Reading, r # NoResult, r.end + 1 \notin Shows
  PROVE  r \in Matches /\ Number(r) = Counted
BY DEF TypeOK, Reading, Gathered, Matches, Shows

LEMMA CountOffCounts ==
  ASSUME TypeOK, Reading, UNCHANGED input, r \in Matches, Number(r) = Counted, CountOff(r)
  PROVE  /\ offset' <= offset0' /\ (offset' > 0 => Len(res') = 0)
         /\ Kept'
         /\ Counted' = Counted + 1 /\ Len(res') \in Nat /\ Len(res') <= limit'
<1>1. /\ Matches' = Matches /\ (\A m : Number(m)' = Number(m))
      /\ offset0' = offset0 /\ limit' = limit
  BY InputStays DEF input
<1>2. /\ offset \in Nat /\ offset0 \in Nat /\ limit \in Nat /\ res \in Seq(Result) /\ Len(res) \in Nat
  BY OptionsAssumption DEF TypeOK
<1>3. r \in Result /\ r # NoResult
  <2>1. r \in Result /\ r.start \in Line
    BY DEF Matches, Result
  <2>. QED
    BY <2>1, LineIs DEF NoResult
<1>4. /\ offset <= offset0 /\ (offset > 0 => Len(res) = 0) /\ Len(res) < limit
      /\ \A i \in 1 .. Len(res) : res[i] \in Matches /\ Number(res[i]) = offset0 + i - 1
  BY DEF Reading, Tallied, Kept
<1>5. CASE offset = 0
  <2>1. res' = Append(res, r) /\ offset' = 0
    BY <1>3, <1>5 DEF CountOff
  <2>2. /\ Len(res') = Len(res) + 1 /\ res'[Len(res) + 1] = r
        /\ \A i \in 1 .. Len(res) : res'[i] = res[i]
    BY <1>2, <1>3, <2>1, AppendIs
  <2>3. Counted = offset0 + Len(res) /\ Counted' = offset0 + Len(res) + 1
    BY <1>1, <1>2, <1>5, <2>1, <2>2 DEF Counted
  <2>4. ASSUME NEW i \in 1 .. Len(res') PROVE res'[i] \in Matches /\ Number(res'[i]) = offset0 + i - 1
    <3>1. CASE i = Len(res) + 1
      BY <1>2, <2>2, <2>3, <3>1
    <3>2. CASE i # Len(res) + 1
      <4>1. i \in 1 .. Len(res)
        BY <1>2, <2>2, <3>2
      <4>. QED
        BY <1>4, <2>2, <4>1
    <3>. QED
      BY <3>1, <3>2
  <2>5. offset' <= offset0' /\ (offset' > 0 => Len(res') = 0) /\ Len(res') \in Nat /\ Len(res') <= limit'
    BY <1>1, <1>2, <1>4, <2>1, <2>2
  <2>6. Counted' = Counted + 1
    BY <1>2, <2>3
  <2>7. Kept'
    BY <1>1, <2>4 DEF Kept
  <2>. QED
    BY <2>5, <2>6, <2>7
<1>6. CASE offset # 0
  <2>1. res' = res /\ offset' = offset - 1
    BY <1>3, <1>6 DEF CountOff
  <2>2. Counted' = Counted + 1
    BY <1>1, <1>2, <1>6, <2>1 DEF Counted
  <2>3. offset' <= offset0' /\ (offset' > 0 => Len(res') = 0) /\ Len(res') \in Nat /\ Len(res') <= limit'
    BY <1>1, <1>2, <1>4, <1>6, <2>1
  <2>4. Kept'
    BY <1>1, <1>4, <2>1 DEF Kept
  <2>. QED
    BY <2>2, <2>3, <2>4
<1>. QED
  BY <1>5, <1>6

LEMMA ReadSeparatorReads ==
  ASSUME TypeOK, Reading, ReadLine, ReadSeparator
  PROVE  IF reader' = "kill" THEN IsPage(res, offset0, limit)' ELSE Reading'
<1>1. UNCHANGED <<input, unwritten, written>> /\ pipe # << >> /\ pipe' = Tail(pipe)
  BY DEF ReadLine
<1>2. /\ Writing' /\ InOrder' /\ pipe[1] = Separator /\ Rest' = Rest
      /\ \A i \in 1 .. Len(pipe') - 1 : Follows(pipe'[i], pipe'[i + 1])
      /\ IF pipe' = << >> THEN written' = Separator
         ELSE written' = pipe'[Len(pipe')] /\ Follows(Separator, pipe'[1])
  BY <1>1, TailReading DEF ReadSeparator
<1>3. r' = NoResult /\ CountOff(r) /\ reader' = IF Len(res') = limit THEN "kill" ELSE "read"
  BY DEF ReadSeparator, AddResult
<1>4. Follows(Read, Separator)
  BY <1>1, <1>2 DEF Reading, Chained
<1>5. r # NoResult /\ r.end + 1 \notin Shows
  <2>1. r # NoResult
    BY <1>4 DEF Follows, Read
  <2>2. r.end \in Line
    BY <2>1 DEF TypeOK, Result
  <2>3. r.end # Separator
    BY <2>2, LineIs DEF Separator
  <2>. QED
    BY <1>4, <2>1, <2>3 DEF Follows, Read
<1>6. /\ offset' <= offset0' /\ (offset' > 0 => Len(res') = 0)
      /\ Kept'
      /\ Counted' = Counted + 1 /\ Len(res') \in Nat /\ Len(res') <= limit'
  BY <1>1, <1>3, <1>5, GatheredIsMatch, CountOffCounts
<1>7. limit \in Nat /\ limit' = limit
  BY <1>1, OptionsAssumption DEF TypeOK, input
<1>8. CASE reader' = "kill"
  <2>1. Len(res') = limit'
    BY <1>3, <1>7, <1>8
  <2>. QED
    BY <1>6, <1>7, <1>8, <2>1 DEF IsPage, Kept
<1>9. CASE reader' # "kill"
  <2>1. Begun' = Begun
    BY <1>1, <1>2, InputStays DEF Begun
  <2>2. IsFiniteSet(Begun') /\ Cardinality(Begun') = Counted' + (IF r' = NoResult THEN 0 ELSE 1)
    <3>1. IsFiniteSet(Begun) /\ Cardinality(Begun) = Counted + 1
      BY <1>5 DEF Reading, Tallied
    <3>2. Counted + 1 = Counted' + 0
      BY <1>6, <3>1, FS_CardinalityType
    <3>. QED
      BY <1>3, <2>1, <3>1, <3>2
  <2>3. Tallied'
    BY <1>6, <2>2 DEF Tallied
  <2>4. Gathered'
    BY <1>3 DEF Gathered
  <2>5. Chained'
    <3>1. \A a, b : Follows(a, b)' <=> Follows(a, b)
      BY <1>1, InputStays DEF Follows
    <3>2. Read' = Separator
      BY <1>3 DEF Read
    <3>. QED
      BY <1>2, <3>1, <3>2 DEF Chained
  <2>6. Len(res') < limit'
    BY <1>3, <1>6, <1>7, <1>9
  <2>. QED
    BY <1>2, <1>9, <2>3, <2>4, <2>5, <2>6 DEF Reading
<1>. QED
  BY <1>8, <1>9

\* A line that is read without a separator before it is of the file of the result
\* that is put together, so this ends only at a separator, or with the output.
LEMMA ReadLineOf ==
  ASSUME TypeOK, Reading, pipe # << >>, pipe[1] # Separator, r # NoResult
  PROVE  pipe[1] = r.end + 1 /\ r.end \in Shows /\ FileOf(r.start) = FileOf(pipe[1])
<1>1. r \in Result /\ r.start \in Line /\ r.end \in Line /\ r.end # Separator
  BY LineIs DEF TypeOK, Result, Separator
<1>2. pipe[1] = r.end + 1
  BY <1>1 DEF Reading, Chained, Follows, Read
<1>3. r.start \in Nat /\ r.end \in Nat /\ r.end \in r.start .. r.end /\ FileOf(r.start) = FileOf(r.end)
  BY <1>1, LineIs DEF Reading, Gathered
<1>4. r.end \in Shows
  BY <1>3 DEF Reading, Gathered
<1>5. Len(pipe) \in Nat \ {0}
  BY DEF TypeOK
<1>6. pipe[1] \in Line
  BY <1>5, ShowsAre DEF Reading, InOrder
<1>. QED
  BY <1>1, <1>2, <1>3, <1>4, <1>6, SameFile

LEMMA ReadSameFileReads ==
  ASSUME TypeOK, Reading, ReadLine, ReadSameFile
  PROVE  Reading'
<1>. DEFINE b == pipe[1]
<1>1. /\ UNCHANGED <<input, unwritten, written>> /\ pipe # << >> /\ pipe' = Tail(pipe)
      /\ Shows' = Shows /\ Starts' = Starts /\ Matches' = Matches /\ \A m : Number(m)' = Number(m)
  BY InputStays DEF ReadLine
<1>2. /\ Writing' /\ InOrder' /\ Head(pipe) = b /\ b # Separator /\ Rest' = Rest \ {b}
      /\ \A i \in 1 .. Len(pipe') - 1 : Follows(pipe'[i], pipe'[i + 1])
      /\ IF pipe' = << >> THEN written' = b
         ELSE written' = pipe'[Len(pipe')] /\ Follows(b, pipe'[1])
      /\ b \in Rest /\ \A x \in Shows : x > b <=> x \in Rest'
  BY <1>1, TailReading DEF ReadSameFile
<1>. HIDE DEF b
<1>3. /\ r # NoResult /\ r' = [r EXCEPT !.end = b] /\ res' = res /\ offset' = offset
      /\ offset0' = offset0 /\ limit' = limit
  BY <1>1, <1>2 DEF ReadSameFile, input
<1>4. b = r.end + 1 /\ r.end \in Shows /\ FileOf(r.start) = FileOf(b)
  BY <1>1, <1>2, <1>3, ReadLineOf DEF b
<1>5. /\ r \in Result /\ r.start \in Line /\ r.start \in Nat /\ r.start > 0 /\ r.end \in Nat
      /\ r.start \in Starts /\ r.start <= r.end /\ r.start .. r.end \subseteq Shows
      /\ Number(r) = Counted
  BY <1>3, LineIs DEF TypeOK, Result, Reading, Gathered
<1>6. b \in Shows
  BY <1>1, <1>2 DEF Reading, InOrder, b, TypeOK
<1>7. r'.start = r.start /\ r'.end = b /\ r' # NoResult
  <2>1. r'.start = r.start /\ r'.end = b
    BY <1>3, <1>5 DEF Result
  <2>. QED
    BY <1>5, <2>1 DEF NoResult
<1>8. Begun' = Begun
  <2>1. b \notin Starts
    BY <1>4, <1>5 DEF Starts, Shows
  <2>. QED
    BY <1>1, <1>2, <2>1 DEF Begun
<1>9. Counted' = Counted
  BY <1>3 DEF Counted
<1>10. Tallied'
  BY <1>1, <1>3, <1>7, <1>8, <1>9 DEF Reading, Tallied, Kept
<1>11. Gathered'
  <2>1. (Number(r))' = Counted'
    <3>1. Number(r)' = Number(r)
      BY <1>1, <1>7 DEF Number
    <3>. QED
      BY <1>5, <1>9, <3>1
  <2>2. r.start <= b /\ r.start .. b \subseteq Shows
    BY <1>4, <1>5, <1>6
  <2>. QED
    BY <1>1, <1>2, <1>4, <1>5, <1>7, <2>1, <2>2 DEF Gathered
<1>12. Chained'
  <2>1. \A c, d : Follows(c, d)' <=> Follows(c, d)
    BY <1>1 DEF Follows
  <2>2. Read' = b
    BY <1>7 DEF Read
  <2>. QED
    BY <1>2, <2>1, <2>2 DEF Chained
<1>. QED
  BY <1>2, <1>3, <1>10, <1>11, <1>12 DEF Reading

LEMMA ReadNewResultReads ==
  ASSUME TypeOK, Reading, ReadLine, ReadNewResult
  PROVE  reader' = "read" /\ Reading'
<1>. DEFINE b == pipe[1]
<1>1. /\ UNCHANGED <<input, unwritten, written>> /\ pipe # << >> /\ pipe' = Tail(pipe) /\ reader = "read"
      /\ Shows' = Shows /\ Starts' = Starts /\ Matches' = Matches /\ \A m : Number(m)' = Number(m)
  BY InputStays DEF ReadLine
<1>2. /\ Writing' /\ InOrder' /\ Head(pipe) = b /\ b # Separator /\ Rest' = Rest \ {b}
      /\ \A i \in 1 .. Len(pipe') - 1 : Follows(pipe'[i], pipe'[i + 1])
      /\ IF pipe' = << >> THEN written' = b
         ELSE written' = pipe'[Len(pipe')] /\ Follows(b, pipe'[1])
      /\ b \in Rest /\ \A x \in Shows : x > b <=> x \in Rest'
  BY <1>1, TailReading DEF ReadNewResult
<1>. HIDE DEF b
<1>3. r = NoResult
  <2>1. ASSUME r # NoResult PROVE FALSE
    <3>1. FileOf(r.start) = FileOf(b)
      BY <1>1, <1>2, <2>1, ReadLineOf DEF b
    <3>. QED
      BY <1>2, <2>1, <3>1 DEF ReadNewResult
  <2>. QED
    BY <2>1
<1>4. /\ res' = res /\ offset' = offset /\ reader' = "read" /\ r' = [start |-> b, end |-> b]
      /\ offset0' = offset0 /\ limit' = limit
  BY <1>1, <1>2, <1>3 DEF ReadNewResult, input
<1>5. b \in Shows /\ b \in Nat /\ b > 0
  <2>1. b \in Shows
    BY <1>1, <1>2 DEF Reading, InOrder, b, TypeOK
  <2>. QED
    BY <2>1, ShowsAre
<1>6. b \in Starts
  <2>1. Follows(Separator, b)
    BY <1>1, <1>3 DEF Reading, Chained, Read, b
  <2>. QED
    BY <1>5, <2>1 DEF Follows, Starts, Shows
<1>7. Begun' = Begun \cup {b} /\ b \notin Begun
  BY <1>1, <1>2, <1>6 DEF Begun
<1>8. r'.start = b /\ r'.end = b /\ r' # NoResult
  BY <1>4, <1>5 DEF NoResult
<1>9. Counted' = Counted
  BY <1>4 DEF Counted
<1>10. IsFiniteSet(Begun) /\ Cardinality(Begun) = Counted
  <2>1. IsFiniteSet(Begun) /\ Cardinality(Begun) = Counted + 0
    BY <1>3 DEF Reading, Tallied
  <2>2. Counted \in Int
    BY OptionsAssumption DEF Counted, TypeOK
  <2>. QED
    BY <2>1, <2>2
<1>11. Tallied'
  <2>1. IsFiniteSet(Begun') /\ Cardinality(Begun') = Counted' + 1
    BY <1>7, <1>9, <1>10, FS_AddElement
  <2>. QED
    BY <1>1, <1>4, <1>8, <2>1 DEF Reading, Tallied, Kept
<1>12. Gathered'
  <2>1. {x \in Starts : x < b} = Begun
    <3>1. \A x \in Starts : x \in Shows /\ x \in Nat
      BY ShowsAre DEF Starts, Shows
    <3>2. ASSUME NEW x \in Starts PROVE x < b <=> x \notin Rest
      BY <1>2, <1>5, <3>1
    <3>. QED
      BY <3>2 DEF Begun
  <2>2. (Number(r))' = Counted'
    BY <1>1, <1>8, <1>9, <1>10, <2>1 DEF Number
  <2>3. b .. b = {b} /\ b <= b
    BY <1>5
  <2>. QED
    BY <1>1, <1>2, <1>5, <1>6, <1>8, <2>2, <2>3 DEF Gathered
<1>13. Chained'
  <2>1. \A c, d : Follows(c, d)' <=> Follows(c, d)
    BY <1>1 DEF Follows
  <2>2. Read' = b
    BY <1>8 DEF Read
  <2>. QED
    BY <1>2, <2>1, <2>2 DEF Chained
<1>. QED
  BY <1>2, <1>4, <1>11, <1>12, <1>13 DEF Reading

LEMMA ReadLineReads ==
  ASSUME TypeOK, Reading, ReadLine
  PROVE  IF reader' = "kill" THEN IsPage(res, offset0, limit)' ELSE Reading'
<1>1. CASE ReadSeparator
  BY <1>1, ReadSeparatorReads
<1>2. CASE ReadSameFile
  BY <1>2, ReadSameFileReads DEF ReadSameFile, ReadLine
<1>3. CASE ReadNewResult
  BY <1>3, ReadNewResultReads
<1>. QED
  BY <1>1, <1>2, <1>3 DEF ReadLine

\* When the output ends, and git grep has written it all, every match has begun.
LEMMA ReadEOFReads ==
  ASSUME TypeOK, Reading, ReadEOF, unwritten = {}
  PROVE  IsPage(res, offset0, limit)'
<1>1. pipe = << >> /\ CountOff(r) /\ UNCHANGED input
  BY DEF ReadEOF
<1>2. /\ Matches' = Matches /\ Starts' = Starts /\ (\A m : Number(m)' = Number(m))
      /\ offset0' = offset0 /\ limit' = limit
  BY <1>1, InputStays DEF input
<1>3. Begun = Starts
  BY <1>1 DEF Begun, Rest, Piped
<1>4. /\ offset \in Nat /\ offset0 \in Nat /\ limit \in Nat /\ res \in Seq(Result) /\ Len(res) \in Nat
  BY OptionsAssumption DEF TypeOK
<1>5. /\ IsFiniteSet(Starts) /\ Cardinality(Starts) = Counted' /\ Kept'
      /\ offset' \in Nat /\ (offset' > 0 => Len(res') = 0) /\ Len(res') \in Nat /\ Len(res') <= limit'
  <2>1. CASE r = NoResult
    <3>1. res' = res /\ offset' = offset
      BY <1>1, <2>1 DEF CountOff
    <3>2. IsFiniteSet(Starts) /\ Cardinality(Starts) = Counted + 0 /\ Kept
      BY <1>3, <2>1 DEF Reading, Tallied
    <3>3. Counted' = Counted + 0
      BY <1>2, <1>4, <3>1 DEF Counted
    <3>4. Kept'
      BY <1>2, <3>1, <3>2 DEF Kept
    <3>. QED
      BY <1>2, <1>4, <3>1, <3>2, <3>3, <3>4 DEF Reading, Tallied
  <2>2. CASE r # NoResult
    <3>1. r.end + 1 \notin Shows
      <4>1. r.end \in Nat
        BY <2>2, LineIs DEF TypeOK, Result
      <4>2. Rest = {}
        BY <1>1 DEF Rest, Piped
      <4>. QED
        BY <2>2, <4>1, <4>2 DEF Reading, Gathered
    <3>2. /\ (offset' > 0 => Len(res') = 0) /\ Kept'
          /\ Counted' = Counted + 1 /\ Len(res') \in Nat /\ Len(res') <= limit'
      BY <1>1, <2>2, <3>1, GatheredIsMatch, CountOffCounts
    <3>3. offset' \in Nat
      BY <1>1, <2>2, CountOffTyped DEF TypeOK
    <3>4. IsFiniteSet(Starts) /\ Cardinality(Starts) = Counted + 1
      BY <1>3, <2>2 DEF Reading, Tallied
    <3>. QED
      BY <3>2, <3>3, <3>4
  <2>. QED
    BY <2>1, <2>2
<1>6. ASSUME NEW m \in Matches PROVE Number(m) < Cardinality(Starts) /\ Number(m) \in Nat
  <2>. DEFINE before == {x \in Starts : x < m.start}
  <2>1. m.start \in Starts /\ m.start \in Nat
    BY LineIs DEF Matches, Result
  <2>2. before \subseteq Starts /\ before # Starts
    BY <2>1
  <2>. HIDE DEF before
  <2>3. /\ IsFiniteSet(before) /\ Cardinality(before) <= Cardinality(Starts)
        /\ Cardinality(before) # Cardinality(Starts)
    BY <1>5, <2>2, FS_Subset
  <2>4. Cardinality(before) \in Nat /\ Cardinality(Starts) \in Nat
    BY <1>5, <2>3, FS_CardinalityType
  <2>. QED
    BY <2>3, <2>4 DEF Number, before
<1>7. Len(res') < limit' => \A m \in Matches : Number(m) < offset0 + Len(res')
  <2>1. ASSUME NEW m \in Matches, Len(res') < limit' PROVE Number(m) < offset0 + Len(res')
    <3>1. Counted' = (offset0 - offset') + Len(res')
      BY <1>2 DEF Counted
    <3>. QED
      BY <1>4, <1>5, <1>6, <3>1
  <2>. QED
    BY <2>1
<1>. QED
  BY <1>2, <1>5, <1>7 DEF IsPage, Kept

-----------------------------------------------------------------------------
(* All the steps.                                                          *)

LEMMA PageInvInit == Init => PageInv
BY DEF Init, PageInv, Running, Pages

LEMMA StartReads ==
  ASSUME TypeOK, Running, limit > 0, Start
  PROVE  Reading'
<1>1. /\ UNCHANGED input /\ unwritten' = Shows /\ written' = Separator /\ pipe' = << >>
      /\ r' = NoResult /\ offset' = offset0 /\ res' = << >>
      /\ offset0' = offset0 /\ limit' = limit
      /\ Shows' = Shows /\ Starts' = Starts
  BY InputStays DEF Start, Running, Shows, parse, input
<1>2. Len(pipe') = 0 /\ Len(res') = 0 /\ offset0 \in Nat /\ limit \in Nat
  BY <1>1, OptionsAssumption DEF TypeOK
<1>3. Rest' = Shows
  BY <1>1, <1>2, ShowsAre DEF Rest, Piped
<1>4. Begun' = {}
  BY <1>1, <1>3 DEF Begun, Starts, Shows
<1>5. Writing'
  <2>1. ASSUME NEW x \in Shows, \A y \in Shows : x <= y PROVE x - 1 \notin Shows
    <3>1. x \in Nat /\ ~ (x <= x - 1)
      BY ShowsAre
    <3>. QED
      BY <2>1, <3>1
  <2>. QED
    BY <1>1, <2>1 DEF Writing
<1>6. InOrder'
  BY <1>2 DEF InOrder
<1>7. Chained'
  BY <1>1, <1>2 DEF Chained, Read
<1>8. Gathered'
  BY <1>1 DEF Gathered
<1>9. Tallied'
  <2>1. IsFiniteSet(Begun') /\ Cardinality(Begun') = 0
    BY <1>4, FS_EmptySet
  <2>2. Counted' = 0
    BY <1>1, <1>2 DEF Counted
  <2>. QED
    BY <1>1, <1>2, <2>1, <2>2 DEF Tallied, Kept
<1>. QED
  BY <1>1, <1>2, <1>5, <1>6, <1>7, <1>8, <1>9 DEF Reading

\* What the pages depend on beyond the process, the pipe and the reader.
LEMMA ReadingStays ==
  ASSUME UNCHANGED <<input, unwritten, written, pipe, parse>>
  PROVE  Reading' <=> Reading
<1>1. /\ Shows' = Shows /\ Starts' = Starts /\ Matches' = Matches /\ (\A m : Number(m)' = Number(m))
      /\ offset0' = offset0 /\ limit' = limit /\ r' = r /\ offset' = offset /\ res' = res
      /\ unwritten' = unwritten /\ written' = written /\ pipe' = pipe
  BY InputStays DEF input, parse
<1>2. Rest' = Rest /\ Begun' = Begun /\ Counted' = Counted /\ Read' = Read
  BY <1>1 DEF Rest, Piped, Begun, Counted, Read
<1>3. \A a, b : Follows(a, b)' <=> Follows(a, b)
  BY <1>1 DEF Follows
<1>4. Writing' <=> Writing
  BY <1>1 DEF Writing
<1>5. InOrder' <=> InOrder
  BY <1>1, <1>2 DEF InOrder
<1>6. Chained' <=> Chained
  BY <1>1, <1>2, <1>3 DEF Chained
<1>7. Gathered' <=> Gathered
  BY <1>1, <1>2 DEF Gathered
<1>8. Tallied' <=> Tallied
  BY <1>1, <1>2 DEF Tallied, Kept
<1>. QED
  BY <1>1, <1>4, <1>5, <1>6, <1>7, <1>8 DEF Reading

LEMMA PageStays ==
  ASSUME UNCHANGED <<input, parse>>
  PROVE  IsPage(res, offset0, limit)' <=> IsPage(res, offset0, limit)
<1>1. /\ Matches' = Matches /\ (\A m : Number(m)' = Number(m))
      /\ offset0' = offset0 /\ limit' = limit /\ res' = res
  BY InputStays DEF input, parse
<1>. QED
  BY <1>1 DEF IsPage

LEMMA RunningKept ==
  ASSUME TypeOK, IInv, Running, [Next]_vars
  PROVE  Running'
<1>. USE DEF Running, IInv, Stages, Working
<1>1. CASE GitWrites
  BY <1>1 DEF GitWrites
<1>2. CASE GitExits
  BY <1>2 DEF GitExits
<1>3. CASE ReadLine
  BY <1>3 DEF ReadLine
<1>4. CASE ReadEOF \/ ReadFails \/ Kill \/ KillFails \/ Wait \/ SendReceive
  BY <1>4 DEF ReadEOF, ReadFails, Kill, KillFails, Wait, SendReceive, process
<1>5. CASE MainStep
  BY <1>5 DEF MainStep, Start, StartFails, KillAndReturn, process
<1>6. CASE UNCHANGED vars
  BY <1>6 DEF vars, process, parse, input
<1>. QED
  BY <1>1, <1>2, <1>3, <1>4, <1>5, <1>6 DEF Next, GitStep, ReaderStep

LEMMA PagesKept ==
  ASSUME TypeOK, IInv, Running, Pages, context > 0, limit > 0, [Next]_vars
  PROVE  Pages'
<1>1. CASE GitWrites
  <2>1. reader = "read" => Reading'
    BY <1>1, GitWritesReading DEF Pages
  <2>2. /\ IsPage(res, offset0, limit)' <=> IsPage(res, offset0, limit)
        /\ git' = git /\ reader' = reader /\ outcome' = outcome
    BY <1>1, PageStays DEF GitWrites
  <2>. QED
    BY <2>1, <2>2 DEF Pages
<1>2. CASE GitExits
  <2>1. /\ Reading' <=> Reading
        /\ IsPage(res, offset0, limit)' <=> IsPage(res, offset0, limit)
        /\ git = "running" /\ reader' = reader /\ outcome' = outcome
    BY <1>2, ReadingStays, PageStays DEF GitExits
  <2>. QED
    BY <2>1 DEF Pages
<1>3. CASE ReadLine
  <2>1. /\ reader = "read" /\ reader' \in {"read", "kill"}
        /\ IF reader' = "kill" THEN IsPage(res, offset0, limit)' ELSE Reading'
    BY <1>3, ReadLineStays, ReadLineReads DEF Pages
  <2>. QED
    BY <2>1 DEF Pages
<1>4. CASE ReadEOF
  <2>1. reader = "read" /\ git # "running" /\ git' = git /\ reader' = "kill"
    BY <1>4 DEF ReadEOF, process
  <2>2. git \in {"ok", "nomatch", "failed"}
    BY <2>1 DEF TypeOK, IInv, Process, Working, Running
  <2>3. git # "failed" => IsPage(res, offset0, limit)'
    BY <1>4, <2>1, <2>2, ReadEOFReads DEF Running, Pages
  <2>. QED
    BY <2>1, <2>3 DEF Pages
<1>5. CASE ReadFails
  BY <1>5 DEF ReadFails, Pages
<1>6. CASE Kill \/ KillFails \/ Wait \/ SendReceive
  <2>1. /\ IsPage(res, offset0, limit)' <=> IsPage(res, offset0, limit)
        /\ reader \in {"kill", "wait", "send"} /\ reader' \in {"wait", "send", "gone"}
        /\ git = "failed" => git' = "failed"
        /\ outcome' \in {"none", "nil"} => outcome \in {"none", "nil"}
    <3>1. UNCHANGED <<input, parse>>
      BY <1>6 DEF Kill, KillFails, Wait, SendReceive
    <3>2. outcome' \in {"none", "nil"} => outcome \in {"none", "nil"}
      BY <1>6 DEF Kill, KillFails, Wait, SendReceive, IInv, Outcomes, Working
    <3>. QED
      BY <1>6, <3>1, <3>2, PageStays DEF Kill, KillFails, Wait, SendReceive, process
  <2>. QED
    BY <2>1 DEF Pages
<1>7. CASE Start
  <2>1. Reading' /\ reader' = "read"
    BY <1>7, StartReads DEF Start
  <2>. QED
    BY <2>1 DEF Pages
<1>8. CASE StartFails
  BY <1>8 DEF StartFails, Pages, IInv, Stages
<1>9. CASE KillAndReturn
  <2>1. IsPage(res, offset0, limit)' <=> IsPage(res, offset0, limit)
    BY <1>9, PageStays DEF KillAndReturn
  <2>2. /\ reader = "gone" /\ reader' = "gone" /\ outcome' = outcome
        /\ git = "failed" => git' = "failed"
    BY <1>9 DEF KillAndReturn, IInv, Stages
  <2>. QED
    BY <2>1, <2>2 DEF Pages
<1>10. CASE UNCHANGED vars
  <2>1. /\ Reading' <=> Reading
        /\ IsPage(res, offset0, limit)' <=> IsPage(res, offset0, limit)
        /\ git' = git /\ reader' = reader /\ outcome' = outcome
    BY <1>10, ReadingStays, PageStays DEF vars, process
  <2>. QED
    BY <2>1 DEF Pages
<1>. QED
  BY <1>1, <1>2, <1>3, <1>4, <1>5, <1>6, <1>7, <1>8, <1>9, <1>10
     DEF Next, GitStep, ReaderStep, MainStep

LEMMA PageInvNext == TypeOK /\ IInv /\ PageInv /\ [Next]_vars => PageInv'
<1>. SUFFICES ASSUME TypeOK, IInv, PageInv, [Next]_vars PROVE PageInv'
  OBVIOUS
<1>1. context' = context /\ limit' = limit
  BY DEF Next, GitStep, GitWrites, GitExits, ReaderStep, ReadLine, ReadEOF, ReadFails, Kill, KillFails,
         Wait, SendReceive, MainStep, Start, StartFails, KillAndReturn, vars, input
<1>2. Running'
  BY RunningKept DEF PageInv
<1>. QED
  BY <1>1, <1>2, PagesKept DEF PageInv

\* With context lines, what Search returns without an error is the page that was asked
\* for: the matches from the offset on, all of their lines, N of them or else all there
\* are; the limit does not cut the last one off, and nothing is counted twice or lost
\* at a boundary between files.
THEOREM PagesAreRight == Spec => []PageOfMatches
<1>1. TypeOK /\ IInv /\ PageInv => PageOfMatches
  BY DEF TypeOK, IInv, Stages, PageInv, Pages, PageOfMatches
<1>. QED
  BY <1>1, SearchTypes, IInvAlways, PageInvInit, PageInvNext, PTL DEF Spec
=============================================================================
