------------------------------- MODULE FifoQueue -------------------------------
(***************************************************************************)
(* What the task store promises the people who submit tasks, without       *)
(* Redis: one first-in first-out queue, one worker, interrupted work back  *)
(* at the front, and no start of ordinary work while maintenance owns the  *)
(* queue.  TaskStore implements it under the mapping at its end.           *)
(***************************************************************************)
EXTENDS Sequences, FiniteSets, SequencesExt

CONSTANT Jobs

VARIABLES waiting,     (* jobs in the order in which they will be started    *)
          started,     (* jobs started and not finished                      *)
          maintenance  (* whether maintenance owns the queue                 *)

qvars == <<waiting, started, maintenance>>

QInit == waiting = <<>> /\ started = {} /\ maintenance \in BOOLEAN

(* A job enters at the back, unless it is already in the system.            *)
Admit(j) ==
  /\ ~Contains(waiting, j) /\ j \notin started
  /\ waiting' = Append(waiting, j)
  /\ UNCHANGED <<started, maintenance>>

(* The job at the front starts, never while maintenance owns the queue.     *)
Start ==
  /\ ~maintenance
  /\ waiting # <<>>
  /\ started' = started \cup {Head(waiting)}
  /\ waiting' = Tail(waiting)
  /\ UNCHANGED maintenance

Finish(j) ==
  /\ j \in started
  /\ started' = started \ {j}
  /\ UNCHANGED <<waiting, maintenance>>

(* A restart puts interrupted jobs back at the front.                       *)
Recover ==
  /\ started # {}
  /\ \E order \in SetToSeqs(started) : waiting' = order \o waiting
  /\ started' = {}
  /\ UNCHANGED maintenance

(* Maintenance takes the queue only when nothing is started.                *)
Freeze ==
  /\ ~maintenance
  /\ started = {}
  /\ maintenance' = TRUE
  /\ UNCHANGED <<waiting, started>>

Thaw ==
  /\ maintenance
  /\ maintenance' = FALSE
  /\ UNCHANGED <<waiting, started>>

QNext ==
  \/ \E j \in Jobs : Admit(j) \/ Finish(j)
  \/ Start \/ Recover \/ Freeze \/ Thaw

QSpec == QInit /\ [][QNext]_qvars
==============================================================================
