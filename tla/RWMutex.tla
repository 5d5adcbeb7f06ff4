------------------------------ MODULE RWMutex ------------------------------
(***************************************************************************)
(* Go's sync.RWMutex, as gitcmd's Repository uses it for editLock.  It is  *)
(* the standard library's, so it is modelled from its published contract   *)
(* and marked external.                                                    *)
(*                                                                         *)
(* Two features of it decide what the callers may do:                      *)
(*   - a writer that has called Lock turns away every later RLock, even    *)
(*     one of a goroutine that already holds the lock for reading;         *)
(*   - Unlock hands the lock to all the readers turned away meanwhile,     *)
(*     before the next writer can get in.                                  *)
(***************************************************************************)
EXTENDS Naturals

CONSTANTS Proc,     \* the goroutines
          Handle,   \* the Repository handles: each has one editLock
          NoProc    \* no writer

ASSUME NoProcAssumption == NoProc \notin Proc

VARIABLES readers,  \* readers[h][p]: how many read locks of h goroutine p holds
          blocked,  \* blocked[h]: the goroutines turned away by RLock
          writer,   \* writer[h]: the goroutine in Lock, or past it
          active    \* active[h]: that goroutine has the lock

lockVars == <<readers, blocked, writer, active>>

LockTypeOK ==
  /\ readers \in [Handle -> [Proc -> Nat]]
  /\ blocked \in [Handle -> SUBSET Proc]
  /\ writer \in [Handle -> Proc \cup {NoProc}]
  /\ active \in [Handle -> BOOLEAN]

LockInit ==
  /\ readers = [h \in Handle |-> [p \in Proc |-> 0]]
  /\ blocked = [h \in Handle |-> {}]
  /\ writer = [h \in Handle |-> NoProc]
  /\ active = [h \in Handle |-> FALSE]

(* RLock with no writer about.                                             *)
RLock(p, h) ==
  /\ writer[h] = NoProc
  /\ readers' = [readers EXCEPT ![h][p] = @ + 1]
  /\ UNCHANGED <<blocked, writer, active>>

(* RLock turned away: p sleeps until an Unlock hands it the lock.          *)
RLockBlocks(p, h) ==
  /\ writer[h] # NoProc
  /\ blocked' = [blocked EXCEPT ![h] = @ \cup {p}]
  /\ UNCHANGED <<readers, writer, active>>

RUnlock(p, h) ==
  /\ readers[h][p] > 0
  /\ readers' = [readers EXCEPT ![h][p] = @ - 1]
  /\ UNCHANGED <<blocked, writer, active>>

(* Lock, first half: one writer at a time passes the inner mutex, and from *)
(* then on it turns readers away.                                          *)
LockAnnounce(p, h) ==
  /\ writer[h] = NoProc
  /\ writer' = [writer EXCEPT ![h] = p]
  /\ UNCHANGED <<readers, blocked, active>>

(* Lock, second half: the last reader has left.                            *)
LockAcquire(p, h) ==
  /\ writer[h] = p
  /\ ~active[h]
  /\ \A q \in Proc : readers[h][q] = 0
  /\ active' = [active EXCEPT ![h] = TRUE]
  /\ UNCHANGED <<readers, blocked, writer>>

Unlock(p, h) ==
  /\ writer[h] = p
  /\ active[h]
  /\ readers' = [readers EXCEPT ![h] =
                   [q \in Proc |-> IF q \in blocked[h] THEN @[q] + 1 ELSE @[q]]]
  /\ blocked' = [blocked EXCEPT ![h] = {}]
  /\ writer' = [writer EXCEPT ![h] = NoProc]
  /\ active' = [active EXCEPT ![h] = FALSE]
=============================================================================
