------------------------------ MODULE Program ------------------------------
(***************************************************************************)
(* Programs around the library: the command line tool (cmd/go-vcs), which   *)
(* finds a repository above its directory, opens it and makes the calls of  *)
(* one subcommand, and other programs, which open, trace and call as they   *)
(* like.  What they call of a git repository takes the course that GitRepo  *)
(* gives it, while another goroutine or process updates the repository.     *)
(***************************************************************************)
EXTENDS GitRepo, Handles

CONSTANTS Me,         \* the caller whose program this is
          Users,      \* the programs: what they are, import and call
          Places      \* what lies at and above the tool's directory

VARIABLES
  user,      \* the program
  subcmd, nargs, args,   \* the tool's arguments
  toolPc,    \* where the tool is
  step,      \* the steps of the subcommand that it has made
  ids,       \* the commit IDs that it has resolved
  outcome    \* how it has ended

toolVars == <<user, subcmd, nargs, args, toolPc, step, ids, outcome>>
vars == <<gitVars, handleVars, toolVars>>

Others == Callers \ {Me}

ASSUME ProgramAssumption ==
  /\ Me \in Callers
  /\ \A u \in Users : Closed(u.imports) /\ u.asks \in BOOLEAN /\ u.kind \in {"tool", "library"}
  /\ \A u \in Users : u.kind = "tool" => u.imports = Packages /\ ~u.asks
  /\ \A d \in Places : d \in Seq(SUBSET {"git", "hg"})

-----------------------------------------------------------------------------
(* The tool.                                                               *)

\* A subcommand: how many arguments it takes, and what it does once the repository
\* is open: it resolves an argument or HEAD, asserts an interface, gets a commit or
\* a file system, updates, or makes a call of which only the error matters.
Subcommand(arity, steps) == [arity |-> arity, steps |-> steps]

Commands ==
  [ gitCloneMirror   |-> Subcommand({2}, <<"call">>),
    updateEverything |-> Subcommand({1}, <<"HEAD", "GetCommit", "RemoteUpdater", "Update",
                                           "HEAD", "GetCommit">>),
    show             |-> Subcommand({1}, <<"arg1", "GetCommit">>),
    grep             |-> Subcommand({2}, <<"arg1", "Searcher", "call">>) ]

FileCommands ==
  [ showFile |-> Subcommand({2}, <<"arg1", "FileSystem", "call">>),
    readDir  |-> Subcommand({2}, <<"arg1", "FileSystem", "call">>),
    log      |-> Subcommand({0}, <<"HEAD", "call">>) ]

\* Blame does not look how many arguments it has.
CompareCommands ==
  [ blame    |-> Subcommand(0 .. 3, <<"arg1", "Blamer", "call">>),
    diff     |-> Subcommand({2}, <<"arg1", "arg2", "Differ", "call">>),
    diffstat |-> Subcommand({2}, <<"arg1", "arg2", "Differ", "call", "call">>) ]

ListCommands ==
  [ branches   |-> Subcommand({0, 1}, <<"call">>),
    tags       |-> Subcommand({0}, <<"call">>),
    history    |-> Subcommand({1}, <<"HEAD", "call">>),
    committers |-> Subcommand({0, 1, 2}, <<"call">>),
    fileLister |-> Subcommand({1}, <<"FileLister", "arg1", "call">>) ]

Subcmds ==
  DOMAIN Commands \cup DOMAIN FileCommands \cup DOMAIN CompareCommands \cup DOMAIN ListCommands

Subcommands ==
  [c \in Subcmds |-> CASE c \in DOMAIN Commands        -> Commands[c]
                      [] c \in DOMAIN FileCommands    -> FileCommands[c]
                      [] c \in DOMAIN CompareCommands -> CompareCommands[c]
                      [] c \in DOMAIN ListCommands    -> ListCommands[c]]

Script == Subcommands[subcmd].steps

WellCalled == nargs \in Subcommands[subcmd].arity

\* The nearest directory that has a repository, git before hg.
FromDir(dirs) ==
  LET at == {i \in DOMAIN dirs : dirs[i] # {}}
      i  == CHOOSE j \in at : \A k \in at : j <= k
  IN  IF at = {} THEN "none" ELSE IF "git" \in dirs[i] THEN "git" ELSE "hg"

Ends(how) == toolPc' = "ended" /\ outcome' = how

\* The tool's kind of repository, once it has a handle.
Vcs == VcsOf(handle.pkg)

\* main: the number of arguments, then the search, then Open, each of which can
\* be fatal.
ToolOpens ==
  /\ user.kind = "tool" /\ toolPc = "start" /\ imported = inited /\ subcmd # "gitCloneMirror"
  /\ IF WellCalled /\ (subcmd = "blame" => nargs >= 2)
     THEN \E dirs \in Places :
            \/ /\ FromDir(dirs) = "none"
               /\ Ends("fatal") /\ UNCHANGED handleVars
            \/ /\ FromDir(dirs) # "none"
               /\ Get(openers, FromDir(dirs))
               /\ IF handle' = NoHandle THEN Ends("fatal")
                  ELSE toolPc' = "run" /\ UNCHANGED outcome
     ELSE /\ Ends(IF subcmd = "blame" THEN "panic" ELSE "fatal")
          /\ UNCHANGED handleVars
  /\ UNCHANGED <<gitVars, user, subcmd, nargs, args, step, ids>>

ToolClones ==
  /\ user.kind = "tool" /\ toolPc = "start" /\ imported = inited /\ subcmd = "gitCloneMirror"
  /\ IF WellCalled
     THEN Get(cloners, "git") /\ Ends(IF handle' = NoHandle THEN "fatal" ELSE "ok")
     ELSE Ends("fatal") /\ UNCHANGED handleVars
  /\ UNCHANGED <<gitVars, user, subcmd, nargs, args, step, ids>>

Todo == Script[step + 1]
Doing == toolPc = "run" /\ step < Len(Script)

SpecOf(what) ==
  CASE what = "arg1" -> args[1] [] what = "arg2" -> args[2] [] what = "HEAD" -> SpecName("HEAD")

LastId == ids[Len(ids)]

\* A type assertion of an interface that the handle does not offer panics, but
\* that of file-lister, which looks.
ToolAsserts ==
  /\ Doing /\ Todo \in Interfaces
  /\ IF Todo \in handle.offers THEN step' = step + 1 /\ UNCHANGED <<toolPc, outcome>>
     ELSE Ends(IF subcmd = "fileLister" THEN "ok" ELSE "panic") /\ UNCHANGED step
  /\ UNCHANGED <<gitVars, handleVars, user, subcmd, nargs, args, ids>>

ToolCalls ==
  /\ Doing /\ Todo = "call"
  /\ \/ step' = step + 1 /\ UNCHANGED <<toolPc, outcome>>
     \/ Ends("fatal") /\ UNCHANGED step
  /\ UNCHANGED <<gitVars, handleVars, user, subcmd, nargs, args, ids>>

\* Of a git repository: GitRepo's call, ...
ToolAsks ==
  /\ Doing /\ Vcs = "git" /\ Todo \in {"arg1", "arg2", "HEAD", "GetCommit", "FileSystem", "Update"}
  /\ Ask(Me, CASE Todo \in {"GetCommit", "FileSystem"} -> About(Todo, LastId)
               [] Todo = "Update" -> Update
               [] OTHER -> Resolve("ResolveRevision", SpecOf(Todo)))
  /\ toolPc' = "await"
  /\ UNCHANGED <<handleVars, user, subcmd, nargs, args, step, ids, outcome>>

\* ... and its answer; an error is fatal.
ToolIsAnswered ==
  /\ toolPc = "await" /\ pc[Me] = "done"
  /\ IF answer[Me].err = "none"
     THEN /\ toolPc' = "run" /\ step' = step + 1
          /\ ids' = IF call[Me].op = "ResolveRevision" THEN Append(ids, answer[Me].id) ELSE ids
          /\ UNCHANGED outcome
     ELSE Ends("fatal") /\ UNCHANGED <<step, ids>>
  /\ UNCHANGED <<gitVars, handleVars, user, subcmd, nargs, args>>

\* Of an hg repository, where a bookmark, a tag or a branch may be called HEAD,
\* and anything may fail.
ToolAsksHg ==
  /\ Doing /\ Vcs = "hg" /\ Todo \in {"arg1", "arg2", "HEAD", "GetCommit", "FileSystem", "Update"}
  /\ \/ /\ step' = step + 1
        /\ ids' = IF Todo \in {"arg1", "arg2", "HEAD"} THEN Append(ids, 0) ELSE ids
        /\ UNCHANGED <<toolPc, outcome>>
     \/ Ends("fatal") /\ UNCHANGED <<step, ids>>
  /\ UNCHANGED <<gitVars, handleVars, user, subcmd, nargs, args>>

ToolDone ==
  /\ toolPc = "run" /\ step = Len(Script)
  /\ Ends("ok")
  /\ UNCHANGED <<gitVars, handleVars, user, subcmd, nargs, args, step, ids>>

-----------------------------------------------------------------------------
(* Other programs, and the whole.                                          *)

Init ==
  /\ GitInit /\ HandlesInit
  /\ user \in Users /\ imported = user.imports
  /\ user.kind = "tool" => ~sameHandle
  /\ \/ /\ user.kind = "library"
        /\ subcmd = "show" /\ nargs = 0 /\ args = << >>
     \/ /\ user.kind = "tool"
        /\ subcmd \in Subcmds /\ nargs \in 0 .. 3
        /\ args \in [1 .. 2 -> {SpecName("HEAD"), Dashed}]
  /\ toolPc = "start" /\ step = 0 /\ ids = << >> /\ outcome = "none"

StartUp ==
  /\ \E pkg \in Packages : InitPackage(pkg)
  /\ UNCHANGED <<gitVars, toolVars>>

LibraryGets ==
  /\ user.kind = "library"
  /\ \E v \in {"git", "hg"} : Get(openers, v) \/ Get(cloners, v)
  /\ UNCHANGED <<gitVars, toolVars>>

LibraryTraces ==
  /\ user.kind = "library" /\ ~user.asks /\ Trace
  /\ UNCHANGED <<gitVars, toolVars>>

LibraryAsks ==
  /\ user.kind = "library" /\ user.asks /\ handle.pkg = "git" /\ pc[Me] = "idle"
  /\ \E k \in Requests : Ask(Me, k)
  /\ UNCHANGED <<handleVars, toolVars>>

\* Whoever else has the repository updates it, once.
OtherUpdates ==
  /\ handle.pkg = "git" /\ (user.asks \/ toolPc \in {"run", "await"})
  /\ \E p \in Others : pc[p] = "idle" /\ Ask(p, Update)
  /\ UNCHANGED <<handleVars, toolVars>>

GitGoesOn ==
  /\ \E p \in Callers : GitStep(p)
  /\ UNCHANGED <<handleVars, toolVars>>

Next ==
  \/ StartUp \/ LibraryGets \/ LibraryTraces \/ LibraryAsks \/ OtherUpdates \/ GitGoesOn
  \/ ToolOpens \/ ToolClones \/ ToolAsserts \/ ToolCalls \/ ToolAsks \/ ToolIsAnswered
  \/ ToolAsksHg \/ ToolDone

Spec == Init /\ [][Next]_vars

-----------------------------------------------------------------------------
(* Properties.                                                             *)

TypeOK ==
  /\ GitTypeOK /\ HandlesTypeOK
  /\ toolPc \in {"start", "run", "await", "ended"} /\ step \in 0 .. Len(Script)
  /\ outcome \in {"none", "ok", "fatal", "panic"}

\* The tool panics in two cases only: blame without its arguments, and grep of an
\* hg repository.  In every other case it works with a native handle, in whatever
\* order the packages were initialised; and the empty ID that ResolveRevision
\* returns for an argument with a dash is an error by the time a commit or a file
\* of it is to be shown.
ToolEnds ==
  user.kind = "tool" =>
    /\ outcome = "panic" <=>
         /\ toolPc = "ended"
         /\ \/ subcmd = "blame" /\ handle = NoHandle /\ nargs < 2
            \/ subcmd = "grep" /\ handle.pkg = "hg" /\ Len(ids) = 1 /\ step = 1
    /\ handle # NoHandle /\ subcmd # "gitCloneMirror" => handle.pkg \in {"git", "hg"}
    /\ outcome = "ok" /\ subcmd \in {"show", "showFile", "readDir"} => ids[1] # Empty
=============================================================================
