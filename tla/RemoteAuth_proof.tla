-------------------------- MODULE RemoteAuth_proof --------------------------
(***************************************************************************)
(* Proofs about RemoteAuth, for any number of calls in one process and any *)
(* options.                                                                *)
(*                                                                         *)
(* The argument: whatever is on disk is either being made, by a step that  *)
(* the call has not finished, or will be taken away by a deferred removal  *)
(* that is registered, or could not be removed, or was left by an error    *)
(* and is not the key; and the removal of the key is always the last.      *)
(***************************************************************************)
EXTENDS RemoteAuth, TLAPS

\* What the call has made of the kind it is making now.
Pending(l) ==
  IF l = "keyBytes" THEN {"key"}
  ELSE IF l = "sshDir" THEN KeyFiles
  ELSE IF l = "sshScript" THEN KeyFiles \cup {"sshDir"}
  ELSE IF l = "password" THEN {"passDir"}
  ELSE IF l = "askScript" THEN {"passDir", "password"} ELSE {}

\* A registered removal takes f away.
Covered(c, f) == \E i \in 1 .. Len(deferred[c]) : f \in Contents(deferred[c][i])

Accounted(c) ==
  \A f \in files[c] \ stuck[c] :
    f \in Pending(pc[c]) \/ Covered(c, f) \/ (fault[c] # "none" /\ f \notin KeyFiles)

KeyLast(c) ==
  \A i \in 1 .. Len(deferred[c]) : deferred[c][i] = "key" => i = Len(deferred[c])

\* The key's removal is registered before that of anything else, and before
\* the steps that come after the SSH part begin.
KeyFirst(c) ==
  pc[c] \in {"start", "key", "keyBytes", "sshDir", "sshScript"} => deferred[c] = << >>

\* A call dies with the key's removal as the next to run.
DeadAtKey(c) == pc[c] = "dead" => deferred[c] # << >> /\ Head(deferred[c]) = "key"

AuthInv ==
  /\ TypeOK
  /\ \A c \in Call :
       /\ Accounted(c) /\ KeyLast(c) /\ KeyFirst(c) /\ DeadAtKey(c)
       /\ stuck[c] \cap KeyFiles = {}
       /\ pc[c] = "returned" => deferred[c] = << >>

\* The files that a program the environment names needs are there until the
\* deferred removals begin.
HelperInv ==
  \A c \in Call :
    pc[c] \in MakeSteps \cup {"start", "git", "running"} =>
      /\ Pending(pc[c]) \subseteq files[c]
      /\ env[c] = "GIT_SSH" => KeyFiles \cup SshFiles \subseteq files[c]
      /\ env[c] = "GIT_ASKPASS" => PassFiles \subseteq files[c]

Removal == {"key", "sshScript", "sshDir", "askScript", "passDir"}

-----------------------------------------------------------------------------
\* Registering removals in front of those that are there covers what they do
\* and what those did.
LEMMA Pushed ==
  ASSUME NEW s \in Seq(Removal), NEW t \in Seq(Removal)
  PROVE  /\ t \o s \in Seq(Removal) /\ Len(t \o s) = Len(t) + Len(s)
         /\ \A i \in 1 .. Len(t) : (t \o s)[i] = t[i]
         /\ \A i \in 1 .. Len(s) : (t \o s)[Len(t) + i] = s[i]
         /\ s = << >> => t \o s = t
         /\ t = << >> => t \o s = s
  OBVIOUS

LEMMA Popped ==
  ASSUME NEW s \in Seq(Removal), s # << >>
  PROVE  /\ Tail(s) \in Seq(Removal) /\ Len(Tail(s)) = Len(s) - 1 /\ Len(s) >= 1
         /\ Head(s) = s[1] /\ Head(s) \in Removal
         /\ \A i \in 1 .. Len(Tail(s)) : Tail(s)[i] = s[i + 1]
  OBVIOUS

LEMMA Removals ==
  /\ \A f \in MakeSteps :
       DeferredOnError(f) \in Seq(Removal) /\ DeferredOnSuccess(f) \in Seq(Removal)
  /\ Contents("key") = KeyFiles
  /\ \A f \in Removal : Contents(f) \subseteq File /\ (f # "key" => Contents(f) \cap KeyFiles = {})
  /\ Contents("sshDir") = SshFiles /\ Contents("passDir") = PassFiles
  BY DEF MakeSteps, DeferredOnError, DeferredOnSuccess, Removal, Contents, KeyFiles, SshFiles,
     PassFiles, File

LEMMA Steps ==
  ASSUME NEW c \in Call, pc[c] \in MakeSteps
  PROVE  /\ NextStep(c) \in Label
         /\ NextStep(c) \in MakeSteps \cup {"git"}
         /\ pc[c] \in {"passDir", "password", "askScript"}
              => NextStep(c) \in {"password", "askScript", "git"}
         /\ pc[c] = "sshScript" => NextStep(c) \in {"passDir", "git"}
         /\ Pending(NextStep(c)) \subseteq Pending(pc[c]) \cup {pc[c]}
         /\ pc[c] \notin {"sshScript", "askScript"}
              => Pending(NextStep(c)) = Pending(pc[c]) \cup {pc[c]}
  BY DEF MakeSteps, NextStep, AfterSSH, Label, Pending, KeyFiles

LEMMA TypeStep ==
  ASSUME TypeOK, [Next]_vars
  PROVE  TypeOK'
  <1>1. CASE UNCHANGED vars
    BY <1>1 DEF vars, TypeOK
  <1>2. ASSUME NEW c \in Call, Step(c) PROVE TypeOK'
    <2>1. MakeSteps \subseteq Label /\ MakeSteps \subseteq File
      BY DEF MakeSteps, Label, File, KeyFiles, SshFiles, PassFiles
    <2>2. deferred[c] \in Seq(Removal)
      BY DEF TypeOK, Removal
    <2>3. pc' \in [Call -> Label]
      <3>1. AfterSSH(c) \in Label
        BY DEF AfterSSH, Label, MakeSteps
      <3>2. PICK l \in Label : pc' = [pc EXCEPT ![c] = l]
        <4>1. CASE Start(c)
          <5>1. "key" \in Label
            BY DEF Label, MakeSteps
          <5> QED BY <3>1, <4>1, <5>1 DEF Start, GoTo
        <4>2. CASE Make(c)
          BY <4>2, Steps DEF Make, GoTo
        <4>3. CASE MakeFails(c) \/ RunGit(c) \/ GitEnds(c) \/ RemoveKeyFails(c) \/ Return(c)
          BY <4>3 DEF MakeFails, RunGit, GitEnds, RemoveKeyFails, Return, GoTo, Label
        <4>4. CASE Remove(c) \/ RemoveFails(c)
          <5>1. pc = [pc EXCEPT ![c] = pc[c]] /\ pc[c] \in Label
            BY DEF TypeOK
          <5>2. UNCHANGED pc
            BY <4>4 DEF Remove, RemoveFails
          <5> QED BY <5>1, <5>2
        <4> QED BY <1>2, <4>1, <4>2, <4>3, <4>4 DEF Step
      <3> QED BY <3>2 DEF TypeOK
    <2>4. deferred' \in [Call -> Seq(Removal)]
      <3>1. PICK s \in Seq(Removal) : deferred' = [deferred EXCEPT ![c] = s]
        <4>1. CASE Make(c)
          BY <2>2, <4>1, Removals, Pushed DEF Make
        <4>2. CASE MakeFails(c)
          BY <2>2, <4>2, Removals, Pushed DEF MakeFails
        <4>3. CASE Remove(c) \/ RemoveFails(c)
          BY <2>2, <4>3, Popped DEF Remove, RemoveFails
        <4>4. CASE UNCHANGED deferred
          <5>1. deferred = [deferred EXCEPT ![c] = deferred[c]]
            BY DEF TypeOK
          <5> QED BY <2>2, <4>4, <5>1
        <4> QED
          BY <1>2, <4>1, <4>2, <4>3, <4>4 DEF Step, Start, RunGit, GitEnds, RemoveKeyFails, Return
      <3> QED BY <3>1 DEF TypeOK, Removal
    <2>5. files' \in [Call -> SUBSET File] /\ stuck' \in [Call -> SUBSET File]
      <3>1. CASE Make(c) \/ MakeFails(c) \/ Remove(c)
        <4>1. files \in [Call -> SUBSET File] /\ stuck' = stuck
          BY <3>1 DEF TypeOK, Make, MakeFails, Remove
        <4>2. \/ UNCHANGED files
              \/ pc[c] \in File /\ files' = [files EXCEPT ![c] = @ \cup {pc[c]}]
              \/ files' = [files EXCEPT ![c] = @ \ Contents(Head(deferred[c]))]
          BY <2>1, <3>1 DEF Make, MakeFails, Remove
        <4> QED BY <4>1, <4>2 DEF TypeOK
      <3>2. CASE RemoveFails(c)
        BY <3>2 DEF TypeOK, RemoveFails
      <3>3. CASE UNCHANGED <<files, stuck>>
        BY <3>3 DEF TypeOK
      <3> QED
        BY <1>2, <3>1, <3>2, <3>3 DEF Step, Start, RunGit, GitEnds, RemoveKeyFails, Return
    <2>6. /\ alive' \in BOOLEAN /\ opt' = opt
          /\ env' \in [Call -> {"none", "GIT_SSH", "GIT_ASKPASS"}]
          /\ fault' \in [Call -> MakeSteps \cup {"none"}]
      BY <1>2 DEF TypeOK, Step, Start, Make, MakeFails, RunGit, GitEnds, Remove,
         RemoveFails, RemoveKeyFails, Return, EnvAfter
    <2> QED BY <2>3, <2>4, <2>5, <2>6 DEF TypeOK, Removal
  <1> QED BY <1>1, <1>2 DEF Next

-----------------------------------------------------------------------------
LEMMA OtherCalls ==
  ASSUME TypeOK, NEW c \in Call, NEW q \in Call, q # c, Step(c)
  PROVE  /\ pc'[q] = pc[q] /\ files'[q] = files[q] /\ deferred'[q] = deferred[q]
         /\ env'[q] = env[q] /\ fault'[q] = fault[q] /\ stuck'[q] = stuck[q]
  BY DEF TypeOK, Step, Start, Make, MakeFails, RunGit, GitEnds, Remove, RemoveFails,
     RemoveKeyFails, Return, GoTo

\* The part of AuthInv that is about one call.
AuthOf(c) ==
  /\ Accounted(c) /\ KeyLast(c) /\ KeyFirst(c) /\ DeadAtKey(c)
  /\ stuck[c] \cap KeyFiles = {}
  /\ pc[c] = "returned" => deferred[c] = << >>

LEMMA MakeStep ==
  ASSUME AuthInv, NEW c \in Call, Make(c)
  PROVE  AuthOf(c)'
  <1> DEFINE s == deferred[c]
             t == DeferredOnSuccess(pc[c])
  <1>1. /\ pc[c] \in MakeSteps /\ pc'[c] = NextStep(c) /\ files'[c] = files[c] \cup {pc[c]}
        /\ deferred'[c] = t \o s /\ UNCHANGED <<fault, stuck>>
    BY DEF Make, GoTo, AuthInv, TypeOK
  <1>2. s \in Seq(Removal) /\ t \in Seq(Removal) /\ AuthOf(c)
    BY <1>1, Removals DEF AuthInv, TypeOK, Removal, AuthOf
  <1>3. /\ pc'[c] \in MakeSteps \cup {"git"}
        /\ pc[c] \in {"passDir", "password", "askScript"}
             => pc'[c] \in {"password", "askScript", "git"}
        /\ pc[c] = "sshScript" => pc'[c] \in {"passDir", "git"}
    BY <1>1, Steps
  <1>4. \A f : Covered(c, f) => Covered(c, f)'
    <2> SUFFICES ASSUME NEW i \in 1 .. Len(s) PROVE
                 \E j \in 1 .. Len(t \o s) : (t \o s)[j] = s[i]
      BY <1>1 DEF Covered
    <2>1. Len(t) \in Nat /\ Len(s) \in Nat /\ Len(t \o s) = Len(t) + Len(s)
      BY <1>2, Pushed
    <2>3. Len(t) + i \in 1 .. Len(t \o s)
      BY <2>1
    <2> QED BY <1>2, <2>3, Pushed
  <1>5. Accounted(c)'
    <2> SUFFICES ASSUME NEW f \in files'[c] \ stuck'[c]
                 PROVE  f \in Pending(pc'[c]) \/ Covered(c, f)'
                        \/ (fault[c] # "none" /\ f \notin KeyFiles)
      BY <1>1 DEF Accounted
    <2>1. f \in Pending(pc[c]) \cup {pc[c]} \/ Covered(c, f)
          \/ (fault[c] # "none" /\ f \notin KeyFiles)
      BY <1>1, <1>2 DEF AuthOf, Accounted
    <2>2. CASE pc[c] \notin {"sshScript", "askScript"}
      BY <1>1, <1>4, <2>1, <2>2, Steps
    <2>3. CASE pc[c] = "sshScript"
      <3>1. t = <<"sshDir", "sshScript", "key">>
        BY <2>3 DEF DeferredOnSuccess
      <3>2. Pending(pc[c]) \cup {pc[c]} = KeyFiles \cup SshFiles
        BY <2>3 DEF Pending, SshFiles, KeyFiles
      <3>3. f \in KeyFiles \cup SshFiles => Covered(c, f)'
        <4>1. 1 \in 1 .. Len(t \o s) /\ 3 \in 1 .. Len(t \o s)
              /\ (t \o s)[1] = "sshDir" /\ (t \o s)[3] = "key"
          BY <1>2, <3>1, Pushed
        <4> QED BY <1>1, <4>1, Removals DEF Covered
      <3> QED BY <1>4, <2>1, <3>2, <3>3
    <2>4. CASE pc[c] = "askScript"
      <3>1. t = <<"passDir", "askScript">>
        BY <2>4 DEF DeferredOnSuccess
      <3>2. Pending(pc[c]) \cup {pc[c]} = PassFiles
        BY <2>4 DEF Pending, PassFiles
      <3>3. f \in PassFiles => Covered(c, f)'
        <4>1. 1 \in 1 .. Len(t \o s) /\ (t \o s)[1] = "passDir"
          BY <1>2, <3>1, Pushed
        <4> QED BY <1>1, <4>1, Removals DEF Covered
      <3> QED BY <1>4, <2>1, <3>2, <3>3
    <2> QED BY <2>2, <2>3, <2>4
  <1>6. KeyLast(c)' /\ KeyFirst(c)'
    <2>1. CASE pc[c] = "sshScript"
      <3>1. s = << >> /\ t = <<"sshDir", "sshScript", "key">>
        BY <1>2, <2>1 DEF AuthOf, KeyFirst, DeferredOnSuccess
      <3>2. deferred'[c] = <<"sshDir", "sshScript", "key">>
        BY <1>1, <1>2, <3>1, Pushed
      <3> QED BY <1>3, <2>1, <3>2 DEF KeyLast, KeyFirst
    <2>2. CASE pc[c] = "askScript"
      <3>1. t = <<"passDir", "askScript">>
        BY <2>2 DEF DeferredOnSuccess
      <3>2. \A i \in 1 .. Len(t \o s) : i \in 1 .. 2 \/ (i - 2 \in 1 .. Len(s) /\ i = 2 + (i - 2))
        BY <1>2, <3>1, Pushed
      <3>3. \A i \in 1 .. Len(t \o s) :
              (t \o s)[i] = "key" => i - 2 \in 1 .. Len(s) /\ s[i - 2] = "key"
        BY <1>2, <3>1, <3>2, Pushed
      <3>4. KeyLast(c)'
        BY <1>1, <1>2, <3>1, <3>3, Pushed DEF KeyLast, AuthOf
      <3> QED BY <1>3, <2>2, <3>4 DEF KeyFirst
    <2>3. CASE pc[c] \notin {"sshScript", "askScript"}
      <3>1. deferred'[c] = s
        BY <1>1, <1>2, <2>3, Pushed DEF DeferredOnSuccess
      <3>2. KeyLast(c)'
        BY <1>2, <3>1 DEF AuthOf, KeyLast
      <3>3. pc'[c] \in {"start", "key", "keyBytes", "sshDir", "sshScript"}
              => pc[c] \in {"key", "keyBytes", "sshDir"}
        BY <1>1, <1>3, <2>3 DEF MakeSteps
      <3> QED BY <1>2, <3>1, <3>2, <3>3 DEF AuthOf, KeyFirst
    <2> QED BY <2>1, <2>2, <2>3
  <1>7. DeadAtKey(c)' /\ pc'[c] # "returned"
    BY <1>3 DEF DeadAtKey, MakeSteps
  <1> QED BY <1>1, <1>2, <1>5, <1>6, <1>7 DEF AuthOf

LEMMA MakeFailsStep ==
  ASSUME AuthInv, NEW c \in Call, MakeFails(c)
  PROVE  AuthOf(c)'
  <1> DEFINE s == deferred[c]
             t == DeferredOnError(pc[c])
  <1>1. /\ pc[c] \in MakeSteps /\ pc'[c] = "return" /\ fault'[c] # "none"
        /\ files'[c] \subseteq files[c] \cup {pc[c]}
        /\ deferred'[c] = t \o s /\ UNCHANGED stuck
        /\ pc[c] = "key" => files'[c] = files[c]
    BY DEF MakeFails, GoTo, AuthInv, TypeOK, MakeSteps
  <1>2. s \in Seq(Removal) /\ t \in Seq(Removal) /\ AuthOf(c)
    BY <1>1, Removals DEF AuthInv, TypeOK, Removal, AuthOf
  <1>3. CASE pc[c] \in {"keyBytes", "sshDir", "sshScript"}
    <2>1. deferred'[c] = <<"key">>
      <3>1. s = << >> /\ t = <<"key">>
        BY <1>2, <1>3 DEF AuthOf, KeyFirst, DeferredOnError
      <3> QED BY <1>1, <1>2, <3>1, Pushed
    <2>2. \A f \in KeyFiles : Covered(c, f)'
      BY <2>1, Removals DEF Covered
    <2> QED BY <1>1, <1>2, <2>1, <2>2 DEF AuthOf, Accounted, KeyLast, KeyFirst, DeadAtKey
  <1>4. CASE pc[c] \notin {"keyBytes", "sshDir", "sshScript"}
    <2>1. deferred'[c] = s
      BY <1>1, <1>2, <1>4, Pushed DEF DeferredOnError
    <2>2. \A f : Covered(c, f) => Covered(c, f)'
      BY <2>1 DEF Covered
    <2>3. Pending(pc[c]) \cap KeyFiles = {} /\ (pc[c] # "key" => pc[c] \notin KeyFiles)
      BY <1>1, <1>4 DEF Pending, KeyFiles, MakeSteps
    <2>4. Accounted(c)'
      BY <1>1, <1>2, <2>2, <2>3 DEF AuthOf, Accounted
    <2> QED BY <1>1, <1>2, <2>1, <2>4 DEF AuthOf, KeyLast, KeyFirst, DeadAtKey
  <1> QED BY <1>3, <1>4

LEMMA RemoveStep ==
  ASSUME AuthInv, NEW c \in Call, Remove(c) \/ RemoveFails(c)
  PROVE  AuthOf(c)'
  <1> DEFINE s == deferred[c]
  <1>1. /\ pc[c] = "return" /\ pc'[c] = "return" /\ s # << >> /\ deferred'[c] = Tail(s)
        /\ UNCHANGED fault
        /\ files'[c] \subseteq files[c] /\ stuck[c] \subseteq stuck'[c]
        /\ (files'[c] \ stuck'[c]) \cap Contents(Head(s)) = {}
    BY DEF Remove, RemoveFails, AuthInv, TypeOK
  <1>2. s \in Seq(Removal) /\ AuthOf(c)
    BY DEF AuthInv, TypeOK, Removal, AuthOf
  <1>3. stuck'[c] \cap KeyFiles = {}
    <2>1. CASE Remove(c)
      BY <1>2, <2>1 DEF Remove, AuthOf
    <2>2. CASE RemoveFails(c)
      <3>1. Contents(Head(s)) \cap KeyFiles = {}
        BY <1>1, <1>2, <2>2, Popped, Removals DEF RemoveFails
      <3>2. stuck'[c] = stuck[c] \cup (files[c] \cap Contents(Head(s)))
        BY <2>2 DEF RemoveFails, AuthInv, TypeOK
      <3> QED BY <1>2, <3>1, <3>2 DEF AuthOf
    <2> QED BY <2>1, <2>2
  <1>4. \A f : Covered(c, f) => Covered(c, f)' \/ f \in Contents(Head(s))
    <2> SUFFICES ASSUME NEW i \in 1 .. Len(s)
                 PROVE  s[i] = Head(s) \/ \E j \in 1 .. Len(Tail(s)) : Tail(s)[j] = s[i]
      BY <1>1 DEF Covered
    <2>1. CASE i = 1
      BY <1>1, <1>2, <2>1, Popped
    <2>2. CASE i # 1
      <3>1. i - 1 \in 1 .. Len(Tail(s)) /\ i = (i - 1) + 1
        BY <1>1, <1>2, <2>2, Popped
      <3> QED BY <1>1, <1>2, <3>1, Popped
    <2> QED BY <2>1, <2>2
  <1>5. Accounted(c)'
    <2>1. Pending(pc[c]) = {}
      BY <1>1 DEF Pending
    <2> QED BY <1>1, <1>2, <1>4, <2>1 DEF AuthOf, Accounted
  <1>6. KeyLast(c)'
    <2> SUFFICES ASSUME NEW i \in 1 .. Len(Tail(s)), Tail(s)[i] = "key"
                 PROVE  i = Len(Tail(s))
      BY <1>1 DEF KeyLast
    <2>1. i + 1 \in 1 .. Len(s) /\ s[i + 1] = "key"
      BY <1>1, <1>2, Popped
    <2> QED BY <1>1, <1>2, <2>1, Popped DEF AuthOf, KeyLast
  <1> QED BY <1>1, <1>3, <1>5, <1>6 DEF AuthOf, KeyFirst, DeadAtKey

\* The steps that leave the files and the removals alone.
LEMMA QuietStep ==
  ASSUME AuthInv, NEW c \in Call,
         Start(c) \/ RunGit(c) \/ GitEnds(c) \/ RemoveKeyFails(c) \/ Return(c)
  PROVE  AuthOf(c)'
  <1>1. UNCHANGED <<files, deferred, fault, stuck>> /\ AuthOf(c)
    BY DEF Start, RunGit, GitEnds, RemoveKeyFails, Return, AuthInv, AuthOf
  <1>2. /\ Pending(pc[c]) = {}
        /\ pc'[c] \in {"start", "key", "keyBytes", "sshDir", "sshScript"} => pc[c] = "start"
        /\ pc'[c] = "dead" => deferred[c] # << >> /\ Head(deferred[c]) = "key"
        /\ pc'[c] = "returned" => deferred[c] = << >>
    BY DEF Start, RunGit, GitEnds, RemoveKeyFails, Return, GoTo, AfterSSH, Pending, AuthInv,
       TypeOK
  <1>3. Accounted(c)' /\ KeyLast(c)'
    BY <1>1, <1>2 DEF AuthOf, Accounted, Covered, KeyLast
  <1> QED BY <1>1, <1>2, <1>3 DEF AuthOf, KeyFirst, DeadAtKey

LEMMA AuthStep ==
  ASSUME AuthInv, [Next]_vars
  PROVE  AuthInv'
  <1>1. CASE UNCHANGED vars
    BY <1>1 DEF vars, AuthInv, TypeOK, Accounted, Covered, KeyLast, KeyFirst, DeadAtKey
  <1>2. ASSUME NEW c \in Call, Step(c), NEW q \in Call PROVE AuthOf(q)'
    <2>1. CASE q = c
      BY <1>2, <2>1, MakeStep, MakeFailsStep, RemoveStep, QuietStep DEF Step
    <2>2. CASE q # c
      <3>1. /\ pc'[q] = pc[q] /\ files'[q] = files[q] /\ deferred'[q] = deferred[q]
            /\ fault'[q] = fault[q] /\ stuck'[q] = stuck[q]
        BY <1>2, <2>2, OtherCalls DEF AuthInv
      <3> QED
        BY <3>1 DEF AuthInv, AuthOf, Accounted, Covered, KeyLast, KeyFirst, DeadAtKey
    <2> QED BY <2>1, <2>2
  <1>3. TypeOK'
    BY TypeStep DEF AuthInv
  <1> QED BY <1>1, <1>2, <1>3 DEF Next, AuthInv, AuthOf

LEMMA AuthInit == Init => AuthInv /\ HelperInv
  <1> SUFFICES ASSUME Init PROVE AuthInv /\ HelperInv
    OBVIOUS
  <1>1. TypeOK
    <2>1. << >> \in Seq({"key", "sshScript", "sshDir", "askScript", "passDir"})
      OBVIOUS
    <2>2. opt \in [Call -> SUBSET {"ssh", "https"}]
      BY OptsAssumption DEF Init
    <2> QED BY <2>1, <2>2 DEF Init, TypeOK, Label
  <1>2. \A c \in Call : files[c] = {} /\ deferred[c] = << >> /\ pc[c] = "start"
                        /\ stuck[c] = {} /\ env[c] = "none"
    BY DEF Init
  <1>3. Pending("start") = {}
    BY DEF Pending
  <1> QED
    BY <1>1, <1>2, <1>3 DEF AuthInv, HelperInv, Accounted, KeyLast, KeyFirst, DeadAtKey

LEMMA HelperStep ==
  ASSUME AuthInv, HelperInv, [Next]_vars
  PROVE  HelperInv'
  <1>1. CASE UNCHANGED vars
    BY <1>1 DEF vars, HelperInv
  <1>2. ASSUME NEW c \in Call, Step(c), NEW q \in Call,
               pc'[q] \in MakeSteps \cup {"start", "git", "running"}
        PROVE  /\ Pending(pc'[q]) \subseteq files'[q]
               /\ env'[q] = "GIT_SSH" => KeyFiles \cup SshFiles \subseteq files'[q]
               /\ env'[q] = "GIT_ASKPASS" => PassFiles \subseteq files'[q]
    <2>1. CASE q # c
      BY <1>2, <2>1, OtherCalls DEF AuthInv, HelperInv
    <2>2. CASE q = c /\ Make(c)
      <3>1. /\ pc[c] \in MakeSteps /\ pc'[c] = NextStep(c) /\ env'[c] = EnvAfter(c)
            /\ files'[c] = files[c] \cup {pc[c]}
        BY <2>2 DEF Make, GoTo, AuthInv, TypeOK
      <3>2. Pending(pc[c]) \cup {pc[c]} \subseteq files'[c]
        BY <3>1 DEF HelperInv
      <3>3. Pending(pc'[c]) \subseteq files'[c]
        BY <3>1, <3>2, Steps
      <3>4. \/ env'[c] = env[c]
            \/ env'[c] = "GIT_SSH" /\ pc[c] = "sshScript"
            \/ env'[c] = "GIT_ASKPASS" /\ pc[c] = "askScript"
        BY <3>1 DEF EnvAfter
      <3>5. /\ pc[c] = "sshScript" => KeyFiles \cup SshFiles \subseteq files'[c]
            /\ pc[c] = "askScript" => PassFiles \subseteq files'[c]
        BY <3>2 DEF Pending, SshFiles, PassFiles, KeyFiles
      <3> QED BY <2>2, <3>1, <3>3, <3>4, <3>5 DEF HelperInv
    <2>3. CASE q = c /\ (Start(c) \/ RunGit(c))
      <3>1. pc'[c] \in {"key", "passDir", "git", "running"} /\ UNCHANGED <<files, env>>
            /\ pc[c] \in {"start", "git"}
        BY <2>3 DEF Start, RunGit, GoTo, AfterSSH, AuthInv, TypeOK
      <3>2. Pending(pc'[c]) = {}
        BY <3>1 DEF Pending
      <3> QED BY <2>3, <3>1, <3>2 DEF HelperInv
    <2>4. CASE q = c /\ ~(Make(c) \/ Start(c) \/ RunGit(c))
      BY <1>2, <2>4 DEF Step, MakeFails, GitEnds, Remove, RemoveFails, RemoveKeyFails, Return,
         GoTo, AuthInv, TypeOK, MakeSteps
    <2> QED BY <2>1, <2>2, <2>3, <2>4
  <1> QED BY <1>1, <1>2 DEF Next, HelperInv

LEMMA AuthInvariant == Spec => [](AuthInv /\ HelperInv)
  <1>1. Init => AuthInv /\ HelperInv
    BY AuthInit
  <1>2. AuthInv /\ HelperInv /\ [Next]_vars => (AuthInv /\ HelperInv)'
    BY AuthStep, HelperStep
  <1> QED BY <1>1, <1>2, PTL DEF Spec

\* Clone and UpdateEverything never return with the key file still on disk,
\* whatever step of making the files failed and however git ended.
THEOREM KeyNeverLeft == Spec => []KeyRemovedOnReturn
  <1>1. AuthInv => KeyRemovedOnReturn
    <2> SUFFICES ASSUME AuthInv, NEW c \in Call, pc[c] = "returned"
                 PROVE  files[c] \cap KeyFiles = {}
      BY DEF KeyRemovedOnReturn
    <2>1. \A f : ~Covered(c, f)
      BY DEF AuthInv, Covered
    <2>2. Pending("returned") = {}
      BY DEF Pending
    <2> QED BY <2>1, <2>2 DEF AuthInv, Accounted
  <1> QED BY <1>1, AuthInvariant, PTL

\* When all the files could be made, a call leaves nothing that the system did
\* not refuse to remove.
THEOREM GitCallCleansUp == Spec => []GitCallLeavesNothing
  <1>1. AuthInv => GitCallLeavesNothing
    <2> SUFFICES ASSUME AuthInv, NEW c \in Call, pc[c] = "returned", fault[c] = "none"
                 PROVE  files[c] \subseteq stuck[c]
      BY DEF GitCallLeavesNothing
    <2>1. \A f : ~Covered(c, f)
      BY DEF AuthInv, Covered
    <2>2. Pending("returned") = {}
      BY DEF Pending
    <2> QED BY <2>1, <2>2 DEF AuthInv, Accounted
  <1> QED BY <1>1, AuthInvariant, PTL

\* A process that exits because the key file cannot be removed leaves nothing
\* else of that call: the key's removal is the last to run.
THEOREM FatalRemovesTheRest == Spec => []FatalLeavesOnlyKey
  <1>1. AuthInv => FatalLeavesOnlyKey
    <2> SUFFICES ASSUME AuthInv, NEW c \in Call, pc[c] = "dead", fault[c] = "none",
                        NEW f \in files[c] \ stuck[c]
                 PROVE  f \in KeyFiles
      BY DEF FatalLeavesOnlyKey
    <2>1. deferred[c] \in Seq(Removal) /\ deferred[c] # << >> /\ Head(deferred[c]) = "key"
      BY DEF AuthInv, DeadAtKey, TypeOK, Removal
    <2>2. Len(deferred[c]) = 1 /\ deferred[c][1] = "key"
      <3>1. 1 \in 1 .. Len(deferred[c]) /\ deferred[c][1] = "key"
        BY <2>1, Popped
      <3> QED BY <3>1 DEF AuthInv, KeyLast
    <2>3. Pending("dead") = {}
      BY DEF Pending
    <2>4. Covered(c, f)
      BY <2>3 DEF AuthInv, Accounted
    <2> QED BY <2>2, <2>4, Removals DEF Covered
  <1> QED BY <1>1, AuthInvariant, PTL

\* The program that git is told to run, and the secret it reads, are on disk
\* for as long as git runs.
THEOREM HelperThere == Spec => []GitFindsHelper
  <1>1. HelperInv => GitFindsHelper
    BY DEF HelperInv, GitFindsHelper
  <1> QED BY <1>1, AuthInvariant, PTL

\* The types of the variables: what is registered for removal and what is on disk are
\* files that the calls make, and a call is at a label of the code.
THEOREM AuthTypes == Spec => []TypeOK
  <1>1. AuthInv => TypeOK
    BY DEF AuthInv
  <1> QED BY <1>1, AuthInvariant, PTL
=============================================================================
