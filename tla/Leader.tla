------------------------------ MODULE Leader ------------------------------
(***************************************************************************)
(* The single-instance guard (leader.py) and the duties it protects        *)
(* (main.py: lifespan, _start_leader_duties, _stop_leader_duties,          *)
(* _standby_promote), for a fleet of processes and one Postgres advisory   *)
(* lock.  The lock belongs to a server session: it goes when the session   *)
(* ends, and the process is not told.  A duty's loop awaits its work in an *)
(* executor thread (run_once, the recompute, retention); cancelling the    *)
(* loop does not stop the thread, which then runs on by itself.            *)
(***************************************************************************)
EXTENDS Naturals, FiniteSets

CONSTANTS
  Proc,        \* processes
  Nobody,      \* the lock is free
  MaxStarts,   \* bound: starts of one process
  MaxTroubles  \* bound: calls that fail, sessions that are lost

ASSUME LeaderAssumption == Nobody \notin Proc /\ MaxStarts \in Nat /\ MaxTroubles \in Nat

Duty == {"analysis", "housekeeping", "notifications", "ingestion"}

VARIABLES
  stage,     \* "down", "boot", "standby", "leading", "unwind", "giveUp",
             \* "zombie" (serving, standby task dead), "stop", "unlock", "exit"
  hasConn,   \* leader._conn is set
  lock,      \* who the server says holds the lock
  duties,    \* the leader duties whose loops run
  awaited,   \* processes in which a loop awaits a pass in a thread
  leftBehind, \* processes in which a pass outlives its cancelled loop
  dutiesFlag, \* _leader_duties_started
  starts, troubles,
  lostSession, closeRaised   \* read by properties only

passVars == <<awaited, leftBehind>>
leaderVars == <<stage, hasConn, lock, duties, awaited, leftBehind, dutiesFlag, starts,
                troubles, lostSession, closeRaised>>

LeaderInit(on) ==
  /\ stage = [p \in Proc |-> "down"]
  /\ hasConn = [p \in Proc |-> FALSE]
  /\ lock = Nobody
  /\ duties = [p \in Proc |-> {}]
  /\ awaited = {} /\ leftBehind = {}
  /\ dutiesFlag = [p \in Proc |-> FALSE]
  /\ starts = [p \in Proc |-> IF on THEN 0 ELSE MaxStarts]
  /\ troubles = 0
  /\ lostSession = FALSE /\ closeRaised = {}

Trouble == troubles < MaxTroubles /\ troubles' = troubles + 1
NoTrouble == UNCHANGED troubles

Boot(p) ==
  /\ stage[p] = "down"
  /\ starts[p] < MaxStarts
  /\ starts' = [starts EXCEPT ![p] = @ + 1]
  /\ stage' = [stage EXCEPT ![p] = "boot"]
  /\ UNCHANGED <<hasConn, lock, duties, passVars, dutiesFlag, troubles, lostSession, closeRaised>>

\* The process is gone, its threads and its session with it.
Gone(p) ==
  /\ stage' = [stage EXCEPT ![p] = "down"]
  /\ hasConn' = [hasConn EXCEPT ![p] = FALSE]
  /\ duties' = [duties EXCEPT ![p] = {}]
  /\ awaited' = awaited \ {p} /\ leftBehind' = leftBehind \ {p}
  /\ dutiesFlag' = [dutiesFlag EXCEPT ![p] = FALSE]
  /\ lock' = IF lock = p THEN Nobody ELSE lock
  /\ closeRaised' = closeRaised \ {p}

\* try_acquire wins the lock and _start_leader_duties runs, with no await in
\* between: all duties start unless one raises, and no loop has its first turn
\* before the failed start is unwound.
Promote(p) ==
  /\ lock = Nobody
  /\ \/ /\ NoTrouble
        /\ lock' = p
        /\ hasConn' = [hasConn EXCEPT ![p] = TRUE]
        /\ dutiesFlag' = [dutiesFlag EXCEPT ![p] = TRUE]
        /\ duties' = [duties EXCEPT ![p] = Duty]
        /\ stage' = [stage EXCEPT ![p] = "leading"]
        /\ UNCHANGED <<passVars, closeRaised>>
     \/ /\ Trouble
        /\ stage[p] = "standby"
        /\ lock' = p
        /\ hasConn' = [hasConn EXCEPT ![p] = TRUE]
        /\ dutiesFlag' = [dutiesFlag EXCEPT ![p] = TRUE]
        /\ \E some \in SUBSET Duty \ {Duty} : duties' = [duties EXCEPT ![p] = some]
        /\ stage' = [stage EXCEPT ![p] = "unwind"]
        /\ UNCHANGED <<passVars, closeRaised>>
     \/ Trouble /\ stage[p] = "boot" /\ Gone(p)   \* lifespan re-raises
  /\ UNCHANGED <<starts, lostSession>>

\* lifespan: a lock held elsewhere makes a standby; a failed probe ends startup.
BootProbe(p) ==
  /\ stage[p] = "boot"
  /\ \/ Promote(p)
     \/ /\ lock # Nobody /\ NoTrouble
        /\ stage' = [stage EXCEPT ![p] = "standby"]
        /\ UNCHANGED <<hasConn, lock, duties, passVars, dutiesFlag, starts, lostSession, closeRaised>>
     \/ Trouble /\ Gone(p) /\ UNCHANGED <<starts, lostSession>>

\* A probe that raises leaves the standby task running.
ProbeRaises(p) == "standby"

\* broken: a standby never asks for the lock again
StandbyIdles(p) == stage[p] = "standby" /\ UNCHANGED leaderVars
\* _standby_promote: one turn of the loop.
StandbyProbe(p) ==
  /\ stage[p] = "standby"
  /\ \/ Promote(p)
     \/ /\ lock # Nobody /\ NoTrouble /\ UNCHANGED leaderVars
     \/ /\ Trouble
        /\ stage' = [stage EXCEPT ![p] = ProbeRaises(p)]
        /\ UNCHANGED <<hasConn, lock, duties, passVars, dutiesFlag, starts, lostSession, closeRaised>>

\* A loop has its turn and hands a pass to the executor; the pass comes back.
BeginPass(p) ==
  /\ stage[p] \in {"leading", "stop"}
  /\ duties[p] = Duty /\ p \notin awaited
  /\ awaited' = awaited \cup {p}
  /\ UNCHANGED <<stage, hasConn, lock, duties, leftBehind, dutiesFlag, starts, troubles,
                 lostSession, closeRaised>>

PassEnds(p) ==
  /\ \/ p \in awaited /\ awaited' = awaited \ {p} /\ UNCHANGED leftBehind
     \/ p \in leftBehind /\ leftBehind' = leftBehind \ {p} /\ UNCHANGED awaited
  /\ UNCHANGED <<stage, hasConn, lock, duties, dutiesFlag, starts, troubles,
                 lostSession, closeRaised>>

\* _stop_leader_duties: nothing to do if the flag is not set.  The loops are
\* cancelled and the ingestion tasks awaited; a pass in a thread is awaited by
\* nobody any more and goes on.
StopDuties(p) ==
  /\ duties' = [duties EXCEPT ![p] = IF dutiesFlag[p] THEN {} ELSE @]
  /\ awaited' = IF dutiesFlag[p] THEN awaited \ {p} ELSE awaited
  /\ leftBehind' = IF dutiesFlag[p] /\ p \in awaited THEN leftBehind \cup {p} ELSE leftBehind
  /\ dutiesFlag' = [dutiesFlag EXCEPT ![p] = FALSE]

\* release: _conn is cleared, the unlock may fail, closing the session frees
\* the lock in any case.
Release(p) ==
  /\ hasConn' = [hasConn EXCEPT ![p] = FALSE]
  /\ lock' = IF lock = p THEN Nobody ELSE lock

\* The failed promotion is unwound, then the lock released.
Unwind(p) ==
  /\ stage[p] = "unwind"
  /\ StopDuties(p)
  /\ stage' = [stage EXCEPT ![p] = "giveUp"]
  /\ UNCHANGED <<hasConn, lock, starts, troubles, lostSession, closeRaised>>

\* A close that raises leaves the except branch and ends the standby task.
GiveUp(p) ==
  /\ stage[p] = "giveUp"
  /\ Release(p)
  /\ \/ /\ NoTrouble
        /\ stage' = [stage EXCEPT ![p] = "standby"]
        /\ UNCHANGED closeRaised
     \/ /\ Trouble
        /\ stage' = [stage EXCEPT ![p] = "zombie"]
        /\ closeRaised' = closeRaised \cup {p}
  /\ UNCHANGED <<duties, passVars, dutiesFlag, starts, lostSession>>

\* Shutdown cancels the standby task wherever it waits.
Shutdown(p) ==
  /\ stage[p] \in {"standby", "leading", "unwind", "giveUp", "zombie"}
  /\ stage' = [stage EXCEPT ![p] = "stop"]
  /\ UNCHANGED <<hasConn, lock, duties, passVars, dutiesFlag, starts, troubles, lostSession,
                 closeRaised>>

\* release, then shutdown_executor, which waits for the threads.
ReleaseAndExit(p) ==
  \/ /\ stage[p] = "unlock"
     /\ Release(p)
     /\ stage' = [stage EXCEPT ![p] = "exit"]
     /\ UNCHANGED <<duties, passVars, dutiesFlag, starts, troubles, lostSession, closeRaised>>
  \/ /\ stage[p] = "exit" /\ p \notin leftBehind
     /\ Gone(p)
     /\ UNCHANGED <<starts, troubles, lostSession>>
ShutdownStep(p) ==
  \/ /\ stage[p] = "stop"
     /\ StopDuties(p)
     /\ stage' = [stage EXCEPT ![p] = "unlock"]
     /\ UNCHANGED <<hasConn, lock, starts, troubles, lostSession, closeRaised>>
  \/ ReleaseAndExit(p)
\* broken: the lock is released before the duties are stopped
ShutdownUnlocksFirst(p) ==
  \/ /\ stage[p] = "stop"
     /\ Release(p)
     /\ stage' = [stage EXCEPT ![p] = "unlock"]
     /\ UNCHANGED <<duties, passVars, dutiesFlag, starts, troubles, lostSession, closeRaised>>
  \/ /\ stage[p] = "unlock"
     /\ Gone(p)
     /\ UNCHANGED <<starts, troubles, lostSession>>
\* The end of lifespan: the duties first, then the lock, the threads and the process.
FinishShutdown(p) == ShutdownStep(p)

Crash(p) ==
  /\ stage[p] # "down"
  /\ Trouble
  /\ Gone(p)
  /\ UNCHANGED <<starts, lostSession>>

\* The server drops the session; nothing in the process looks at it again.
LoseSession ==
  /\ lock # Nobody
  /\ Trouble
  /\ lock' = Nobody
  /\ lostSession' = TRUE
  /\ UNCHANGED <<stage, hasConn, duties, passVars, dutiesFlag, starts, closeRaised>>

LeaderStep(p) ==
  Boot(p) \/ BootProbe(p) \/ StandbyProbe(p) \/ Unwind(p) \/ GiveUp(p) \/ FinishShutdown(p)

LeaderNext ==
  \/ LoseSession
  \/ \E p \in Proc :
       LeaderStep(p) \/ BeginPass(p) \/ PassEnds(p) \/ Shutdown(p) \/ Crash(p)

\* Every process that is up goes on; the operator starts one that is down.
LeaderFairness == \A p \in Proc : WF_leaderVars(LeaderStep(p))
LeaderSpec == LeaderInit(TRUE) /\ [][LeaderNext]_leaderVars /\ LeaderFairness

-----------------------------------------------------------------------------
LeaderTypeOK ==
  /\ stage \in [Proc -> {"down", "boot", "standby", "leading", "unwind", "giveUp",
                         "zombie", "stop", "unlock", "exit"}]
  /\ hasConn \in [Proc -> BOOLEAN] /\ dutiesFlag \in [Proc -> BOOLEAN]
  /\ lock \in Proc \cup {Nobody}
  /\ duties \in [Proc -> SUBSET Duty]
  /\ awaited \subseteq Proc /\ leftBehind \subseteq Proc
  /\ starts \in [Proc -> 0..MaxStarts] /\ troubles \in 0..MaxTroubles
  /\ lostSession \in BOOLEAN /\ closeRaised \subseteq Proc

\* leader.py: unless a lock session was lost on the server, the loops of the
\* duties run in one process at most, also while one is shutting down or unwinding
\* a failed promotion and another one probes.
OneLeader ==
  lostSession \/ Cardinality({p \in Proc : duties[p] # {}}) <= 1

\* run_once_async, shutdown_executor: a pass in a process that does not hold the
\* lock is one whose loop was cancelled, and only a process on its way out has one:
\* a failed promotion leaves none behind, and nobody leads or stands by with one.
WorkUnderLock ==
  /\ lostSession \/ awaited \subseteq {lock}
  /\ \A p \in leftBehind : stage[p] \in {"unlock", "exit"}

\* _standby_promote: no do-nothing leader and no silent permanent standby: a
\* process that serves and neither leads nor probes holds no lock, and it only
\* exists when closing the released session raised.
NoIdleLeader ==
  \A p \in Proc :
    /\ lock = p => stage[p] \notin {"standby", "zombie"}
    /\ stage[p] = "zombie" => p \in closeRaised

\* The lock stands for the duties: who runs their loops holds it alone, who holds it
\* runs them, and all that can run on without it is a pass left behind.
LeadershipSound == LeaderTypeOK /\ OneLeader /\ WorkUnderLock /\ NoIdleLeader

\* _standby_promote: failed probes and failed promotions are retried: a process
\* that stays a standby for ever does so only because another one holds the
\* lock for good.
StandbyLeads ==
  \A p \in Proc :
    <>[](stage[p] = "standby") => <>[](\E q \in Proc \ {p} : lock = q)
=============================================================================
