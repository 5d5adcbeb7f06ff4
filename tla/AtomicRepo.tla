----------------------------- MODULE AtomicRepo -----------------------------
(***************************************************************************)
(* What a repository handle promises its concurrent callers: an edit of    *)
(* the branch heads happens at once, as far as any call can tell, and all  *)
(* that one call reads is the branch heads at one moment of the call.      *)
(***************************************************************************)
CONSTANTS Proc,    \* the goroutines
          Dir,     \* the repositories' directories
          NoDir,   \* where[p] of a goroutine that is in no call
          RefMap   \* the values the branch heads of a directory can take

VARIABLES refs,    \* refs[d]: the branch heads of directory d
          where,   \* where[p]: the directory p's call is about
          obs      \* obs[p]: what p's call has read: nothing, or the branch heads at one moment

aVars == <<refs, where, obs>>

AInit ==
  /\ refs \in [Dir -> RefMap]
  /\ where = [p \in Proc |-> NoDir]
  /\ obs = [p \in Proc |-> {}]

Begin(p) ==
  /\ where[p] = NoDir
  /\ \E d \in Dir : where' = [where EXCEPT ![p] = d]
  /\ UNCHANGED <<refs, obs>>

Read(p) ==
  /\ where[p] # NoDir
  /\ obs[p] = {}
  /\ obs' = [obs EXCEPT ![p] = {refs[where[p]]}]
  /\ UNCHANGED <<refs, where>>

Edit(p) ==
  /\ where[p] # NoDir
  /\ \E m \in RefMap : refs' = [refs EXCEPT ![where[p]] = m]
  /\ UNCHANGED obs
  /\ where' = [where EXCEPT ![p] = NoDir]

End(p) ==
  /\ where[p] # NoDir
  /\ where' = [where EXCEPT ![p] = NoDir]
  /\ obs' = [obs EXCEPT ![p] = {}]
  /\ UNCHANGED refs

ANext == \E p \in Proc : Begin(p) \/ Read(p) \/ Edit(p) \/ End(p)

AtomicSpec == AInit /\ [][ANext]_aVars
=============================================================================
