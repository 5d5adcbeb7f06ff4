------------------------------ MODULE Handles ------------------------------
(***************************************************************************)
(* How a program gets a repository handle, and what it can do with it:      *)
(* packages register openers and cloners in their init functions            *)
(* (open_clone.go), Open and Clone look them up, and the tracer wraps a     *)
(* handle (util/tracer).  A handle is the package it is of and the optional *)
(* interfaces that a type assertion finds on it.                           *)
(***************************************************************************)
EXTENDS Integers, Sequences, FiniteSets, TLC

Packages == {"gitcmd", "git", "hgcmd", "hg"}

\* Go runs the init functions of a package after those of its imports.
Imports(pkg) == CASE pkg = "git" -> {"gitcmd"} [] pkg = "hg" -> {"hgcmd"} [] OTHER -> {}

VcsOf(pkg) == IF pkg \in {"git", "gitcmd"} THEN "git" ELSE "hg"

\* The optional interfaces, in the order in which the tracer looks for them.
Optional ==
  <<"Blamer", "Differ", "CrossRepoDiffer", "FileLister", "Merger", "CrossRepoMerger",
    "RemoteUpdater", "Searcher", "CrossRepo">>

Interfaces == {Optional[i] : i \in 1 .. Len(Optional)}

\* git's Repository has gitcmd's methods, and hg's those of hgcmd.
Offers(pkg) ==
  IF VcsOf(pkg) = "git" THEN Interfaces ELSE {"Blamer", "Differ", "RemoteUpdater"}

CONSTANT MaxWrapped   \* a bound: how often a handle is wrapped, and wrapped again

ASSUME HandlesAssumption == MaxWrapped \in Nat

VARIABLES
  imported,   \* the packages of the program
  inited,     \* those whose init functions have run
  openers,    \* the package that opens each kind of repository
  cloners,    \* the package that clones it
  handle,     \* the handle that the program has
  wrapped     \* how many times it is wrapped

handleVars == <<imported, inited, openers, cloners, handle, wrapped>>

NoHandle == [pkg |-> "none", offers |-> {}]
Nothing == [v \in {} |-> "none"]

\* What a program imports it imports with all that that imports.
Closed(pkgs) == pkgs \subseteq Packages /\ \A pkg \in pkgs : Imports(pkg) \subseteq pkgs

HandlesInit ==
  /\ inited = {} /\ openers = Nothing /\ cloners = Nothing
  /\ handle = NoHandle /\ wrapped = 0

-----------------------------------------------------------------------------

\* A plausible bug: the first registration stays.
RegisterOnce(table, v, pkg) == table @@ (v :> pkg)

\* RegisterOpener and RegisterCloner overwrite; they panic for an empty name or no
\* function, which no package gives them.
Register(table, v, pkg) ==
  [w \in DOMAIN table \cup {v} |-> IF w = v THEN pkg ELSE table[w]]

\* All four register an opener, and those that run the commands a cloner.
InitPackage(pkg) ==
  /\ pkg \in imported \ inited /\ Imports(pkg) \subseteq inited
  /\ inited' = inited \cup {pkg}
  /\ openers' = Register(openers, VcsOf(pkg), pkg)
  /\ cloners' = IF pkg \in {"gitcmd", "hgcmd"} THEN Register(cloners, VcsOf(pkg), pkg) ELSE cloners
  /\ UNCHANGED <<imported, handle, wrapped>>

\* The package that v is looked up to be of; "unsupported" is UnsupportedVCSError.
Lookup(table, v) == IF v \in DOMAIN table THEN table[v] ELSE "unsupported"

\* Open, or Clone: the opener or cloner may fail.  A cloner opens what it has
\* cloned with its own package's Open.
Get(table, v) ==
  /\ imported = inited /\ handle = NoHandle
  /\ \/ Lookup(table, v) = "unsupported" /\ UNCHANGED handle
     \/ /\ Lookup(table, v) # "unsupported"
        /\ handle' \in {NoHandle, [pkg |-> table[v], offers |-> Offers(table[v])]}
  /\ UNCHANGED <<imported, inited, openers, cloners, wrapped>>

\* A plausible bug: an interface that is missing is wrapped all the same.
WrapAnyway(s) == IF "Blamer" \in s THEN Interfaces \ {"CrossRepo"} ELSE {}

\* tracer.Wrap's cases are prefixes of the list: it takes the longest of which the
\* repository has every interface.
Wrap(s) ==
  {Optional[i] : i \in {j \in 1 .. Len(Optional) : \A k \in 1 .. j : Optional[k] \in s}}

Trace ==
  /\ handle # NoHandle /\ wrapped < MaxWrapped
  /\ handle' = [pkg |-> handle.pkg, offers |-> Wrap(handle.offers)]
  /\ wrapped' = wrapped + 1
  /\ UNCHANGED <<imported, inited, openers, cloners>>

-----------------------------------------------------------------------------

HandlesTypeOK ==
  /\ inited \subseteq imported /\ imported \subseteq Packages
  /\ DOMAIN cloners \subseteq DOMAIN openers
  /\ handle.pkg \in inited \cup {"none"} /\ wrapped \in Nat

\* A traced handle offers no interface that the handle underneath lacks, so that
\* no call through it is a call of nil, however often it is wrapped.  A handle of
\* git keeps all of its interfaces, those of cross-repository calls included, and
\* a handle of hg keeps Blamer and Differ.  (The comments of Wrap promise that it
\* keeps RemoteUpdater too; the cases of its switch do not.)
TracedHandleWorks ==
  handle # NoHandle =>
    /\ handle.offers \subseteq Offers(handle.pkg)
    /\ {"Blamer", "Differ"} \subseteq handle.offers
    /\ VcsOf(handle.pkg) = "git" => handle.offers = Interfaces
=============================================================================
