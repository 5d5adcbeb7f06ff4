----------------------------- MODULE RemoteAuth -----------------------------
(***************************************************************************)
(* vcs/gitcmd/repo.go, Clone and UpdateEverything: the temporary files that *)
(* carry the SSH key and the HTTPS password to git, from the step that     *)
(* makes each to the deferred call that removes it.                        *)
(*                                                                         *)
(* Every step of making them may fail, and an early return runs only the   *)
(* deferred calls registered by then, the last one first.  A key file that *)
(* cannot be removed ends the process (log.Fatalf), and with it every      *)
(* other call, none of whose deferred calls run.                           *)
(*                                                                         *)
(* Temporary names are unique, so a file is named by its call and purpose. *)
(* UpdateEverything's lock is GitcmdRepo's subject; here it is absent.     *)
(***************************************************************************)
EXTENDS Naturals, Sequences, FiniteSets

CONSTANTS Call,    \* the calls of Clone and UpdateEverything, by any goroutines
          Opts     \* the remote options the calls may be given

\* What a call makes on disk.  A script and the password are in the directory
\* of their kind; "keyBytes" is the content of the key file.
KeyFiles == {"key", "keyBytes"}
SshFiles == {"sshDir", "sshScript"}
PassFiles == {"passDir", "password", "askScript"}
File == KeyFiles \cup SshFiles \cup PassFiles

ASSUME OptsAssumption == Opts \subseteq SUBSET {"ssh", "https"}

VARIABLES
  alive,     \* the process runs
  opt,       \* opt[c]: which of opt.SSH and opt.HTTPS are set
  pc,        \* pc[c]: the step the call is at
  files,     \* files[c]: what is on disk of what the call has made
  deferred,  \* deferred[c]: the registered removals, the next to run first
  env,       \* env[c]: the variable that tells git which program to ask, if any
  \* History variables: no action reads them.
  fault,     \* fault[c]: the step of making the files that failed, if one did
  stuck      \* stuck[c]: what could not be removed

vars == <<alive, opt, pc, files, deferred, env, fault, stuck>>

\* The steps, in the order of the code, and what each one makes.
MakeSteps == {"key", "keyBytes", "sshDir", "sshScript", "passDir", "password", "askScript"}
Label == {"start", "git", "running", "return", "returned", "dead"} \cup MakeSteps

TypeOK ==
  /\ alive \in BOOLEAN
  /\ opt \in [Call -> SUBSET {"ssh", "https"}]
  /\ pc \in [Call -> Label]
  /\ files \in [Call -> SUBSET File]
  /\ deferred \in [Call -> Seq({"key", "sshScript", "sshDir", "askScript", "passDir"})]
  /\ env \in [Call -> {"none", "GIT_SSH", "GIT_ASKPASS"}]
  /\ fault \in [Call -> MakeSteps \cup {"none"}]
  /\ stuck \in [Call -> SUBSET File]

Init ==
  /\ alive = TRUE
  /\ opt \in [Call -> Opts]
  /\ pc = [c \in Call |-> "start"]
  /\ files = [c \in Call |-> {}]
  /\ deferred = [c \in Call |-> << >>]
  /\ env = [c \in Call |-> "none"]
  /\ fault = [c \in Call |-> "none"]
  /\ stuck = [c \in Call |-> {}]

-----------------------------------------------------------------------------
GoTo(c, l) == pc' = [pc EXCEPT ![c] = l]

\* Where the HTTPS part begins, or the git command if there is none.
AfterSSH(c) == IF "https" \in opt[c] THEN "passDir" ELSE "git"

\* A plausible bug: what is deferred is the removal of what could not be made.
DeferredOnErrorOfStep(f) == <<f>>

\* A plausible bug: the key's removal is deferred only after the error check.
DeferredOnErrorLate(f) == << >>

\* The removals that are registered when step f fails: the key's is deferred
\* before the error check, the others after it.  TempFile failing leaves no key.
DeferredOnError(f) ==
  IF f \in {"keyBytes", "sshDir", "sshScript"} THEN <<"key">> ELSE << >>

\* A plausible bug: the key file's removal is registered last, so it runs first.
DeferredOnSuccessSwapped(f) ==
  IF f = "sshScript" THEN <<"key", "sshDir", "sshScript">>
  ELSE IF f = "askScript" THEN <<"passDir", "askScript">> ELSE << >>

\* A plausible bug: only the script is removed, not its directory.
DeferredOnSuccessNoDir(f) ==
  IF f = "sshScript" THEN <<"sshScript", "key">>
  ELSE IF f = "askScript" THEN <<"askScript">> ELSE << >>

\* The removals registered once the last step of a kind has succeeded.
DeferredOnSuccess(f) ==
  IF f = "sshScript" THEN <<"sshDir", "sshScript", "key">>
  ELSE IF f = "askScript" THEN <<"passDir", "askScript">> ELSE << >>

Start(c) ==
  /\ pc[c] = "start"
  /\ GoTo(c, IF "ssh" \in opt[c] THEN "key" ELSE AfterSSH(c))
  /\ UNCHANGED <<alive, opt, files, deferred, env, fault, stuck>>

\* makeGitSSHWrapper: TempFile, write the key, then gitSSHWrapper: TempDir and
\* write the script.  makeGitPassHelper: TempDir, password, script.
NextStep(c) ==
  CASE pc[c] = "key"       -> "keyBytes"
    [] pc[c] = "keyBytes"  -> "sshDir"
    [] pc[c] = "sshDir"    -> "sshScript"
    [] pc[c] = "sshScript" -> AfterSSH(c)
    [] pc[c] = "passDir"   -> "password"
    [] pc[c] = "password"  -> "askScript"
    [] pc[c] = "askScript" -> "git"

\* cmd.Env is set after each kind, to a list of its own: the second replaces
\* the first.
EnvAfter(c) ==
  IF pc[c] = "sshScript" THEN "GIT_SSH"
  ELSE IF pc[c] = "askScript" THEN "GIT_ASKPASS" ELSE env[c]

\* A plausible bug: a missing "defer", so RemoveAll runs at once.
MakeNotDeferred(c) ==
  /\ pc[c] \in MakeSteps
  /\ files' = [files EXCEPT ![c] = IF pc[c] = "sshScript" THEN @ \ SshFiles
                                   ELSE @ \cup {pc[c]}]
  /\ deferred' = [deferred EXCEPT ![c] = DeferredOnSuccess(pc[c]) \o @]
  /\ env' = [env EXCEPT ![c] = EnvAfter(c)]
  /\ GoTo(c, NextStep(c))
  /\ UNCHANGED <<alive, opt, fault, stuck>>

Make(c) ==
  /\ pc[c] \in MakeSteps
  /\ files' = [files EXCEPT ![c] = @ \cup {pc[c]}]
  /\ deferred' = [deferred EXCEPT ![c] = DeferredOnSuccess(pc[c]) \o @]
  /\ env' = [env EXCEPT ![c] = EnvAfter(c)]
  /\ GoTo(c, NextStep(c))
  /\ UNCHANGED <<alive, opt, fault, stuck>>

\* The step fails; a write or the chmod after it may leave the file behind.
MakeFails(c) ==
  /\ pc[c] \in MakeSteps
  /\ \/ UNCHANGED files
     \/ /\ pc[c] \in {"keyBytes", "sshScript", "password", "askScript"}
        /\ files' = [files EXCEPT ![c] = @ \cup {pc[c]}]
  /\ deferred' = [deferred EXCEPT ![c] = DeferredOnError(pc[c]) \o @]
  /\ fault' = [fault EXCEPT ![c] = pc[c]]
  /\ GoTo(c, "return")
  /\ UNCHANGED <<alive, opt, env, stuck>>

\* git clone or git remote update: it runs the program that env names.
RunGit(c) ==
  /\ pc[c] = "git"
  /\ GoTo(c, "running")
  /\ UNCHANGED <<alive, opt, files, deferred, env, fault, stuck>>

\* The command ends, in whatever way; parsing its output and opening the clone
\* change nothing here.
GitEnds(c) ==
  /\ pc[c] = "running"
  /\ GoTo(c, "return")
  /\ UNCHANGED <<alive, opt, files, deferred, env, fault, stuck>>

\* What a deferred removal takes away: RemoveAll a directory with what is in
\* it, Remove the one file.
Contents(f) ==
  CASE f = "key"       -> KeyFiles
    [] f = "sshDir"    -> SshFiles
    [] f = "passDir"   -> PassFiles
    [] f = "sshScript" -> {"sshScript"}
    [] f = "askScript" -> {"askScript"}

Remove(c) ==
  /\ pc[c] = "return" /\ deferred[c] # << >>
  /\ files' = [files EXCEPT ![c] = @ \ Contents(Head(deferred[c]))]
  /\ deferred' = [deferred EXCEPT ![c] = Tail(@)]
  /\ UNCHANGED <<alive, opt, pc, env, fault, stuck>>

\* The error of these removals is dropped.
RemoveFails(c) ==
  /\ pc[c] = "return" /\ deferred[c] # << >> /\ Head(deferred[c]) # "key"
  /\ stuck' = [stuck EXCEPT ![c] = @ \cup (files[c] \cap Contents(Head(deferred[c])))]
  /\ deferred' = [deferred EXCEPT ![c] = Tail(@)]
  /\ UNCHANGED <<alive, opt, pc, files, env, fault>>

\* log.Fatalf: the process exits without running any deferred call.
RemoveKeyFails(c) ==
  /\ pc[c] = "return" /\ deferred[c] # << >> /\ Head(deferred[c]) = "key"
  /\ alive' = FALSE
  /\ GoTo(c, "dead")
  /\ UNCHANGED <<opt, files, deferred, env, fault, stuck>>

Return(c) ==
  /\ pc[c] = "return" /\ deferred[c] = << >>
  /\ GoTo(c, "returned")
  /\ UNCHANGED <<alive, opt, files, deferred, env, fault, stuck>>

Step(c) ==
  \/ Start(c) \/ Make(c) \/ MakeFails(c) \/ RunGit(c) \/ GitEnds(c)
  \/ Remove(c) \/ RemoveFails(c) \/ RemoveKeyFails(c) \/ Return(c)

Next == alive /\ \E c \in Call : Step(c)

Spec == Init /\ [][Next]_vars

-----------------------------------------------------------------------------
(* Properties.                                                             *)

\* The key file does not outlive its call, whichever step failed: a call that
\* has returned has removed it.
KeyRemovedOnReturn ==
  \A c \in Call : pc[c] = "returned" => files[c] \cap KeyFiles = {}

\* A call whose files were all made leaves nothing behind, however git ended,
\* but what the system refused to remove.
GitCallLeavesNothing ==
  \A c \in Call :
    pc[c] = "returned" /\ fault[c] = "none" => files[c] \subseteq stuck[c]

\* While git runs, the program that its environment names, and the key or the
\* password that the program reads, are on disk.
GitFindsHelper ==
  \A c \in Call :
    pc[c] = "running" =>
      /\ env[c] = "GIT_SSH" => KeyFiles \cup SshFiles \subseteq files[c]
      /\ env[c] = "GIT_ASKPASS" => PassFiles \subseteq files[c]

\* A call that ends the process because its key file cannot be removed has
\* removed all the rest first: the key's removal was registered before the
\* others, so it runs after them.
FatalLeavesOnlyKey ==
  \A c \in Call :
    pc[c] = "dead" /\ fault[c] = "none" => files[c] \subseteq KeyFiles \cup stuck[c]

\* What script.go:15 and the comments of makeGitSSHWrapper and makeGitPassHelper
\* ask of the caller: everything is removed once the call is over.
NothingLeft ==
  \A c \in Call : pc[c] = "returned" => files[c] \subseteq stuck[c]
=============================================================================
