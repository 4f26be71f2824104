------------------------- MODULE ServicesLiveProofs -------------------------
(***************************************************************************)
(* Proofs about the long-running work: reconnection (ingestion/resilience  *)
(* and the chain-sync loop), the leader guard, the WebSocket feed, the     *)
(* operator's backfills (api/backfill.py, ingestion/address_backfill.py),  *)
(* the sidecar's Kupo history (service/history.py) and job queue           *)
(* (service/scheduler.py, jobs.py), and the contract_anomaly poller        *)
(* (tasks/notifications.py).                                               *)
(***************************************************************************)
EXTENDS MCServicesLive, DataLemmas

-----------------------------------------------------------------------------
(* The leader guard                                                        *)

\* Who holds the lock leads or is on its way out.
LockUsed == \A p \in Proc : lock = p => stage[p] \in {"leading", "unwind", "giveUp", "stop", "unlock"}

\* Who runs a duty has the flag that stops it, and holds the lock as long as no
\* session was lost.
DutiesGuarded ==
  \A p \in Proc : duties[p] # {} =>
    /\ dutiesFlag[p]
    /\ stage[p] \in {"leading", "unwind", "stop"}
    /\ lostSession \/ lock = p

ZombieExcused == \A p \in Proc : stage[p] = "zombie" => p \in closeRaised

\* A pass is awaited by the loops of a whole promotion, and left behind by a
\* process that stops.
PassesGuarded ==
  /\ \A p \in awaited : duties[p] = Duty /\ stage[p] \in {"leading", "stop"}
  /\ \A p \in leftBehind : stage[p] \in {"unlock", "exit"}

LeaderInv == LeaderTypeOK /\ LockUsed /\ DutiesGuarded /\ PassesGuarded /\ ZombieExcused

\* A process that is gone runs nothing and holds nothing.
LEMMA GonePreserves ==
  ASSUME LeaderInv, NEW p \in Proc, Gone(p), UNCHANGED <<starts, lostSession>>,
         troubles' \in 0..MaxTroubles
  PROVE  LeaderInv'
<1>1. LeaderTypeOK'
  BY DEF LeaderInv, LeaderTypeOK, Gone
<1>2. LockUsed' /\ DutiesGuarded' /\ ZombieExcused'
  BY LeaderAssumption DEF LeaderInv, LeaderTypeOK, LockUsed, DutiesGuarded, ZombieExcused, Gone
<1>3. PassesGuarded'
  BY DEF LeaderInv, LeaderTypeOK, PassesGuarded, Gone
<1>. QED BY <1>1, <1>2, <1>3 DEF LeaderInv

\* try_acquire and _start_leader_duties: the duties start under the free lock.
LEMMA PromotePreserves ==
  ASSUME LeaderInv, NEW p \in Proc, stage[p] \in {"boot", "standby"}, Promote(p)
  PROVE  LeaderInv'
<1>1. CASE Trouble /\ stage[p] = "boot" /\ Gone(p)
  <2>1. troubles' \in 0..MaxTroubles /\ UNCHANGED <<starts, lostSession>>
    BY <1>1, LeaderAssumption DEF Promote, Trouble, LeaderInv, LeaderTypeOK
  <2>. QED BY <1>1, <2>1, GonePreserves
<1>2. CASE ~(Trouble /\ stage[p] = "boot" /\ Gone(p))
  <2>1. /\ lock = Nobody /\ lock' = p /\ UNCHANGED <<awaited, leftBehind, closeRaised, starts, lostSession>>
        /\ hasConn' = [hasConn EXCEPT ![p] = TRUE]
        /\ dutiesFlag' = [dutiesFlag EXCEPT ![p] = TRUE]
        /\ \E some \in SUBSET Duty : duties' = [duties EXCEPT ![p] = some]
        /\ \E s \in {"leading", "unwind"} : stage' = [stage EXCEPT ![p] = s]
    BY <1>2 DEF Promote, passVars
  <2>2. troubles' \in 0..MaxTroubles
    BY <1>2, LeaderAssumption DEF Promote, Trouble, NoTrouble, LeaderInv, LeaderTypeOK
  <2>3. LeaderTypeOK'
    BY <2>1, <2>2 DEF LeaderInv, LeaderTypeOK
  <2>4. LockUsed' /\ DutiesGuarded' /\ ZombieExcused'
    BY <2>1, LeaderAssumption DEF LeaderInv, LeaderTypeOK, LockUsed, DutiesGuarded, ZombieExcused
  <2>5. PassesGuarded'
    <3>1. p \notin awaited /\ p \notin leftBehind
      BY DEF LeaderInv, PassesGuarded
    <3>. QED BY <2>1, <3>1 DEF LeaderInv, LeaderTypeOK, PassesGuarded
  <2>. QED BY <2>3, <2>4, <2>5 DEF LeaderInv
<1>. QED BY <1>1, <1>2

\* Every step of the guard keeps the duties under the lock.
LEMMA LeaderInductive == LeaderInv /\ [LeaderNext]_leaderVars => LeaderInv'
<1>. SUFFICES ASSUME LeaderInv, [LeaderNext]_leaderVars PROVE LeaderInv'
  OBVIOUS
<1>. USE LeaderAssumption DEF LeaderInv, LeaderTypeOK, LockUsed, DutiesGuarded, PassesGuarded,
       ZombieExcused, Trouble, NoTrouble, passVars
<1>1. ASSUME NEW p \in Proc, Boot(p) PROVE LeaderInv'
  BY <1>1 DEF Boot
<1>2. ASSUME NEW p \in Proc, BootProbe(p) PROVE LeaderInv'
  <2>1. CASE Promote(p)
    BY <1>2, <2>1, PromotePreserves DEF BootProbe
  <2>2. CASE Trouble /\ Gone(p) /\ UNCHANGED <<starts, lostSession>>
    BY <2>2, GonePreserves
  <2>3. CASE ~Promote(p) /\ ~(Trouble /\ Gone(p) /\ UNCHANGED <<starts, lostSession>>)
    <3>1. /\ stage[p] = "boot" /\ stage' = [stage EXCEPT ![p] = "standby"]
          /\ UNCHANGED <<hasConn, lock, duties, passVars, dutiesFlag, starts, troubles, lostSession,
                         closeRaised>>
      BY <1>2, <2>3 DEF BootProbe
    <3>. QED BY <3>1
  <2>. QED BY <2>1, <2>2, <2>3
<1>3. ASSUME NEW p \in Proc, StandbyProbe(p) PROVE LeaderInv'
  <2>1. CASE Promote(p)
    BY <1>3, <2>1, PromotePreserves DEF StandbyProbe
  <2>2. CASE UNCHANGED leaderVars
    BY <2>2 DEF leaderVars
  <2>3. CASE ~Promote(p) /\ ~UNCHANGED leaderVars
    <3>1. /\ Trouble /\ stage[p] = "standby" /\ stage' = [stage EXCEPT ![p] = "standby"]
          /\ UNCHANGED <<hasConn, lock, duties, passVars, dutiesFlag, starts, lostSession, closeRaised>>
      BY <1>3, <2>3 DEF StandbyProbe, ProbeRaises
    <3>. QED BY <3>1
  <2>. QED BY <2>1, <2>2, <2>3
<1>4. ASSUME NEW p \in Proc, Unwind(p) PROVE LeaderInv'
  BY <1>4 DEF Unwind, StopDuties
<1>5. ASSUME NEW p \in Proc, GiveUp(p) PROVE LeaderInv'
  BY <1>5 DEF GiveUp, Release
<1>6. ASSUME NEW p \in Proc, FinishShutdown(p) PROVE LeaderInv'
  <2>1. CASE stage[p] = "stop"
    <3>1. /\ StopDuties(p) /\ stage' = [stage EXCEPT ![p] = "unlock"]
          /\ UNCHANGED <<hasConn, lock, starts, troubles, lostSession, closeRaised>>
      BY <1>6, <2>1 DEF FinishShutdown, ShutdownStep, ReleaseAndExit
    <3>2. p \in awaited => dutiesFlag[p]
      BY DEF Duty
    <3>. HIDE DEF LeaderTypeOK, LockUsed, DutiesGuarded, PassesGuarded, ZombieExcused
    <3>3. LeaderTypeOK'
      BY <3>1 DEF StopDuties, LeaderTypeOK
    <3>4. LockUsed' /\ ZombieExcused'
      BY <3>1, <2>1 DEF LeaderTypeOK, LockUsed, ZombieExcused
    <3>5. DutiesGuarded'
      BY <3>1, <2>1 DEF StopDuties, LeaderTypeOK, DutiesGuarded
    <3>6. PassesGuarded'
      BY <3>1, <3>2, <2>1 DEF StopDuties, LeaderTypeOK, PassesGuarded
    <3>. QED BY <3>3, <3>4, <3>5, <3>6
  <2>2. CASE stage[p] = "unlock"
    <3>1. /\ Release(p) /\ stage' = [stage EXCEPT ![p] = "exit"]
          /\ UNCHANGED <<duties, passVars, dutiesFlag, starts, troubles, lostSession, closeRaised>>
      BY <1>6, <2>2 DEF FinishShutdown, ShutdownStep, ReleaseAndExit
    <3>. HIDE DEF LeaderTypeOK, LockUsed, DutiesGuarded, PassesGuarded, ZombieExcused
    <3>2. LeaderTypeOK'
      BY <3>1 DEF Release, LeaderTypeOK
    <3>3. LockUsed' /\ ZombieExcused'
      BY <3>1, <2>2 DEF Release, LeaderTypeOK, LockUsed, ZombieExcused
    <3>4. DutiesGuarded' /\ PassesGuarded'
      BY <3>1, <2>2 DEF Release, LeaderTypeOK, DutiesGuarded, PassesGuarded
    <3>. QED BY <3>2, <3>3, <3>4
  <2>3. CASE stage[p] = "exit"
    BY <1>6, <2>3, GonePreserves DEF FinishShutdown, ShutdownStep, ReleaseAndExit
  <2>. QED BY <1>6, <2>1, <2>2, <2>3 DEF FinishShutdown, ShutdownStep, ReleaseAndExit
<1>7. ASSUME NEW p \in Proc, Shutdown(p) PROVE LeaderInv'
  BY <1>7 DEF Shutdown
<1>8. ASSUME NEW p \in Proc, Crash(p) PROVE LeaderInv'
  BY <1>8, GonePreserves DEF Crash
<1>9. CASE LoseSession
  BY <1>9 DEF LoseSession
<1>10. CASE UNCHANGED leaderVars
  BY <1>10 DEF leaderVars
<1>11. ASSUME NEW p \in Proc, BeginPass(p) PROVE LeaderInv'
  BY <1>11 DEF BeginPass
<1>12. ASSUME NEW p \in Proc, PassEnds(p) PROVE LeaderInv'
  BY <1>12 DEF PassEnds
<1>. QED
  BY <1>1, <1>2, <1>3, <1>4, <1>5, <1>6, <1>7, <1>8, <1>9, <1>10, <1>11, <1>12
  DEF LeaderNext, LeaderStep

\* Nobody leads at the start, whether the component runs or not.
LEMMA LeaderInitially == ASSUME NEW on \in BOOLEAN, LeaderInit(on) PROVE LeaderInv
<1>1. starts \in [Proc -> 0..MaxStarts] /\ troubles \in 0..MaxTroubles
  BY LeaderAssumption DEF LeaderInit
<1>2. LeaderTypeOK
  BY <1>1 DEF LeaderInit, LeaderTypeOK
<1>3. LockUsed /\ DutiesGuarded /\ PassesGuarded /\ ZombieExcused
  BY LeaderAssumption DEF LeaderInit, LockUsed, DutiesGuarded, PassesGuarded, ZombieExcused
<1>. QED BY <1>2, <1>3 DEF LeaderInv

\* The duties under the lock are run by one process at most.
LEMMA LeaderInvSound == LeaderInv => LeadershipSound
<1>. SUFFICES ASSUME LeaderInv PROVE LeadershipSound
  OBVIOUS
<1>1. OneLeader
  <2>. SUFFICES ASSUME ~lostSession PROVE Cardinality({p \in Proc : duties[p] # {}}) <= 1
    BY DEF OneLeader
  <2>1. {p \in Proc : duties[p] # {}} \in SUBSET {lock}
    BY DEF LeaderInv, DutiesGuarded
  <2>2. IsFiniteSet({lock}) /\ Cardinality({lock}) = 1
    BY FS_Singleton
  <2>. QED BY <2>1, <2>2, FS_Subset
<1>2. NoIdleLeader
  BY DEF LeaderInv, LockUsed, ZombieExcused, NoIdleLeader
<1>3. WorkUnderLock
  BY DEF LeaderInv, LeaderTypeOK, DutiesGuarded, PassesGuarded, WorkUnderLock, Duty
<1>. QED BY <1>1, <1>2, <1>3 DEF LeaderInv, LeadershipSound

\* leader.py, for any fleet: unless a lock session was lost on the server the duty
\* loops run in at most one process, what runs in a process without the lock is a
\* pass its cancelled loop left behind on the way out, whoever holds the lock is on
\* its way in or out of leading, and a standby dies only when closing a released
\* session raised.
THEOREM OneLeaderAtATime == LeaderSpec => []LeadershipSound
<1>1. LeaderInit(TRUE) => LeaderInv
  BY LeaderInitially
<1>. QED BY <1>1, LeaderInductive, LeaderInvSound, PTL DEF LeaderSpec

-----------------------------------------------------------------------------
(* The live feed                                                           *)

FeedTypes ==
  /\ sock \in [Client -> {"off", "accept", "open", "broken"}]
  /\ list \in {"router", "main"}
  /\ active \in [{"router", "main"} -> SUBSET Client]
  /\ queue \in [Client -> Seq(Nat)]
  /\ subscribed \subseteq Client
  /\ sender \in [Client -> {"none", "waits", "sends", "dead"}]
  /\ put \in [Client -> Nat] /\ got \in [Client -> Nat]

\* q is the unbroken run of the last payloads up to n, all newer than g.
RunOf(q, n, g) ==
  /\ g + Len(q) <= n
  /\ \A i \in 1..Len(q) : q[i] = n - (Len(q) - i)

\* Every queue that counts is such a run, and as long as the code lets it be.
QueuesRun == \A c \in subscribed : RunOf(queue[c], put[c], got[c])

\* Who connected to the leader is in main's list.
LeaderClientsListed ==
  \A c \in subscribed \ early : list = "main" /\ c \in active["main"]

FeedInv == FeedTypes /\ QueuesRun /\ NoZombie /\ LeaderClientsListed /\ LeaderClientsReached

\* _enqueue keeps a run a run, whether it drops the oldest payload or not.
LEMMA EnqueueRun ==
  ASSUME NEW q \in Seq(Nat), NEW n \in Nat, NEW g \in Nat
  PROVE  /\ Enqueue(q, n + 1) \in Seq(Nat)
         /\ RunOf(q, n, g) => RunOf(Enqueue(q, n + 1), n + 1, g)
<1>0. Len(q) \in Nat
  BY LenProperties
<1>. DEFINE e == Enqueue(q, n + 1)
            drop == IF Len(q) < QueueSize THEN 0 ELSE 1
<1>1. /\ e \in Seq(Nat) /\ Len(e) = Len(q) + 1 - drop
      /\ \A i \in 1..(Len(q) + 1 - drop) : e[i] = IF i = Len(q) + 1 - drop THEN n + 1 ELSE q[i + drop]
  <2>1. CASE Len(q) < QueueSize
    <3>1. e = Append(q, n + 1) /\ drop = 0
      BY <2>1 DEF Enqueue
    <3>. QED BY <3>1, SMTT(60)
  <2>2. CASE ~(Len(q) < QueueSize)
    <3>1. e = Append(Tail(q), n + 1) /\ drop = 1 /\ q # <<>>
      BY <2>2, FeedAssumption DEF Enqueue
    <3>. DEFINE t == Tail(q)
    <3>2. t \in Seq(Nat) /\ Len(t) = Len(q) - 1 /\ \A i \in 1..Len(t) : t[i] = q[i + 1]
      BY <3>1
    <3>. HIDE DEF t
    <3>3. /\ Append(t, n + 1) \in Seq(Nat) /\ Len(Append(t, n + 1)) = Len(q)
          /\ \A i \in 1..Len(q) : Append(t, n + 1)[i] = IF i = Len(q) THEN n + 1 ELSE q[i + 1]
      BY <3>2
    <3>4. e = Append(t, n + 1) /\ Len(q) + 1 - drop = Len(q)
      BY <1>0, <3>1 DEF t
    <3>. HIDE DEF e, drop
    <3>. QED BY <3>1, <3>3, <3>4
  <2>. QED BY <2>1, <2>2
<1>2. drop \in 0..1
  OBVIOUS
<1>. HIDE DEF e, drop
<1>3. ASSUME RunOf(q, n, g) PROVE RunOf(e, n + 1, g)
  <2>1. ASSUME NEW i \in 1..Len(e) PROVE e[i] = (n + 1) - (Len(e) - i)
    <3>1. CASE i = Len(e)
      <4>1. i = Len(q) + 1 - drop /\ i \in 1..(Len(q) + 1 - drop)
        BY <1>1, <3>1
      <4>2. e[i] = n + 1 /\ i \in Nat
        BY <1>1, <4>1
      <4>. QED BY <3>1, <4>2
    <3>2. CASE i # Len(e)
      <4>1. i + drop \in 1..Len(q) /\ e[i] = q[i + drop]
        BY <1>0, <1>1, <1>2, <3>2
      <4>2. q[i + drop] = n - (Len(q) - (i + drop))
        BY <1>3, <4>1 DEF RunOf
      <4>. QED BY <1>0, <1>1, <1>2, <4>1, <4>2
    <3>. QED BY <3>1, <3>2
  <2>2. g + Len(e) <= n + 1
    BY <1>0, <1>1, <1>2, <1>3 DEF RunOf
  <2>. QED BY <2>1, <2>2 DEF RunOf
<1>. QED BY <1>1, <1>3 DEF e

\* What a sender takes is the oldest of the run, and the rest is newer.
LEMMA TakeRun ==
  ASSUME NEW q \in Seq(Nat), NEW n \in Nat, NEW g \in Nat, q # <<>>
  PROVE  /\ Head(q) \in Nat /\ Tail(q) \in Seq(Nat)
         /\ RunOf(q, n, g) => RunOf(Tail(q), n, Head(q))
<1>. DEFINE t == Tail(q)
<1>1. t \in Seq(Nat) /\ Len(t) = Len(q) - 1 /\ (\A i \in 1..Len(t) : t[i] = q[i + 1])
      /\ Head(q) = q[1] /\ Head(q) \in Nat /\ Len(q) >= 1
  OBVIOUS
<1>. HIDE DEF t
<1>2. ASSUME RunOf(q, n, g) PROVE RunOf(t, n, q[1])
  <2>1. q[1] = n - (Len(q) - 1)
    BY <1>1, <1>2 DEF RunOf
  <2>2. \A i \in 1..Len(t) : t[i] = n - (Len(t) - i)
    BY <1>1, <1>2 DEF RunOf
  <2>. QED BY <1>1, <2>1, <2>2 DEF RunOf
<1>. QED BY <1>1, <1>2 DEF t

\* Connecting, broadcasting, sending, failing and leaving keep the feed sound.
LEMMA FeedInductive == FeedInv /\ [FeedNext]_feedVars => FeedInv'
<1>. SUFFICES ASSUME FeedInv, [FeedNext]_feedVars PROVE FeedInv'
  OBVIOUS
<1>. USE DEF FeedInv, FeedTypes, QueuesRun, NoZombie, LeaderClientsListed, LeaderClientsReached
<1>1. CASE Broadcast
  <2>1. CASE active["main"] = {}
    BY <1>1, <2>1 DEF Broadcast
  <2>2. CASE active["main"] # {}
    <3>1. /\ queue' = [c \in Client |-> IF c \in subscribed THEN Enqueue(queue[c], put[c] + 1) ELSE queue[c]]
          /\ put' = [c \in Client |-> IF c \in subscribed THEN put[c] + 1 ELSE put[c]]
          /\ UNCHANGED <<sock, list, active, subscribed, sender, got, early, skipped>>
      BY <1>1, <2>2 DEF Broadcast
    <3>2. \A c \in Client : Enqueue(queue[c], put[c] + 1) \in Seq(Nat)
      BY EnqueueRun
    <3>3. FeedTypes'
      BY <3>1, <3>2
    <3>4. QueuesRun'
      BY <3>1, EnqueueRun
    <3>. QED BY <3>1, <3>3, <3>4
  <2>. QED BY <2>1, <2>2
<1>2. CASE TakeMainList
  BY <1>2 DEF TakeMainList
<1>3. ASSUME NEW c \in Client, Handshake(c) PROVE FeedInv'
  BY <1>3 DEF Handshake
<1>4. ASSUME NEW c \in Client, Accepted(c) PROVE FeedInv'
  <2>1. /\ sock' \in [Client -> {"off", "accept", "open", "broken"}]
        /\ active' \in [{"router", "main"} -> SUBSET Client]
        /\ sender' \in [Client -> {"none", "waits", "sends", "dead"}]
        /\ put' \in [Client -> Nat] /\ got' \in [Client -> Nat]
    BY <1>4 DEF Accepted, Listed
  <2>2. <<>> \in Seq(Nat) /\ Len(<<>>) = 0
    BY EmptySeq
  <2>3. queue' \in [Client -> Seq(Nat)]
    BY <1>4, <2>2 DEF Accepted
  <2>4. QueuesRun'
    BY <1>4, <2>2 DEF Accepted, RunOf
  <2>5. NoZombie' /\ LeaderClientsListed' /\ LeaderClientsReached'
    BY <1>4 DEF Accepted, Listed
  <2>. QED BY <1>4, <2>1, <2>3, <2>4, <2>5 DEF Accepted
<1>5. ASSUME NEW c \in Client, Ping(c) PROVE FeedInv'
  <2>1. /\ queue' = [queue EXCEPT ![c] = Enqueue(queue[c], put[c] + 1)]
        /\ put' = [put EXCEPT ![c] = put[c] + 1]
        /\ UNCHANGED <<sock, list, active, subscribed, sender, got, early, skipped>>
    BY <1>5 DEF Ping
  <2>2. Enqueue(queue[c], put[c] + 1) \in Seq(Nat)
    BY EnqueueRun
  <2>3. FeedTypes'
    BY <2>1, <2>2
  <2>4. QueuesRun'
    BY <2>1, EnqueueRun
  <2>. QED BY <2>1, <2>3, <2>4
<1>6. ASSUME NEW c \in Client, SenderTakes(c) PROVE FeedInv'
  <2>1. /\ queue' = [queue EXCEPT ![c] = Tail(queue[c])] /\ queue[c] # <<>>
        /\ got' = [got EXCEPT ![c] = Head(queue[c])]
        /\ sender' = [sender EXCEPT ![c] = "sends"]
        /\ UNCHANGED <<sock, list, active, subscribed, put, early, skipped>>
    BY <1>6 DEF SenderTakes
  <2>2. Head(queue[c]) \in Nat /\ Tail(queue[c]) \in Seq(Nat)
    BY <2>1, TakeRun
  <2>3. FeedTypes'
    BY <2>1, <2>2
  <2>4. QueuesRun'
    BY <2>1, TakeRun
  <2>. QED BY <2>1, <2>3, <2>4
<1>7. ASSUME NEW c \in Client, SenderSent(c) PROVE FeedInv'
  BY <1>7 DEF SenderSent
<1>8. ASSUME NEW c \in Client, SenderFails(c) PROVE FeedInv'
  BY <1>8 DEF SenderFails, Cleanup
<1>9. ASSUME NEW c \in Client, Disconnected(c) PROVE FeedInv'
  BY <1>9 DEF Disconnected, Cleanup
<1>10. CASE UNCHANGED feedVars
  BY <1>10 DEF feedVars
<1>. QED BY <1>1, <1>2, <1>3, <1>4, <1>5, <1>6, <1>7, <1>8, <1>9, <1>10 DEF FeedNext

\* Nobody is connected at the start.
LEMMA FeedInitially == ASSUME NEW on \in BOOLEAN, FeedInit(on) PROVE FeedInv
  BY EmptySeq DEF FeedInit, FeedInv, FeedTypes, QueuesRun, NoZombie, LeaderClientsListed, LeaderClientsReached

\* A run newer than what was sent is what the clients are promised.
LEMMA FeedInvSound == FeedInv => FeedSound
<1>. SUFFICES ASSUME FeedInv, NEW c \in subscribed, NEW i \in DOMAIN queue[c]
              PROVE  queue[c][i] = put[c] - (Len(queue[c]) - i) /\ queue[c][i] > got[c]
  BY DEF FeedInv, FeedSound, FeedInOrder
<1>1. queue[c] \in Seq(Nat) /\ put[c] \in Nat /\ got[c] \in Nat /\ RunOf(queue[c], put[c], got[c])
  BY DEF FeedInv, FeedTypes, QueuesRun
<1>2. Len(queue[c]) \in Nat /\ i \in 1..Len(queue[c])
  BY <1>1, LenProperties
<1>. QED BY <1>1, <1>2 DEF RunOf

\* routers/websocket.py, for any clients, queue size and number of payloads: a registered
\* client's queue is the unbroken run of the latest payloads, newer than what it was
\* sent; it has a sender that lives; and a client of the leader is never passed over.
THEOREM FeedIsSound == FeedSpec => []FeedSound
<1>1. FeedInit(TRUE) => FeedInv
  BY FeedInitially
<1>. QED BY <1>1, FeedInductive, FeedInvSound, PTL DEF FeedSpec

-----------------------------------------------------------------------------
(* The reconnect loop                                                      *)

\* min(x, n), the form of every ceiling of the loop, is one of the two and exceeds neither.
LEMMA AtMostIs ==
  ASSUME NEW x \in Nat, NEW n \in Nat
  PROVE  AtMost(x, n) \in Nat /\ AtMost(x, n) <= x /\ AtMost(x, n) <= n /\ AtMost(x, n) \in {x, n}
  BY DEF AtMost

\* The rest is counted as far as any wait goes.
LEMMA MaxRestIs == MaxRest \in Nat /\ MaxRest >= Base /\ MaxRest >= MaxDelay /\ MaxRest >= Cooldown
<1>1. \E n \in {Base, MaxDelay, Cooldown} : \A k \in {Base, MaxDelay, Cooldown} : k <= n
  BY ReconnectAssumption
<1>. QED BY <1>1, ReconnectAssumption DEF MaxRest

\* _exponent_ceiling, for any base and ceiling: the smallest exponent that reaches the
\* ceiling exists.
LEMMA CeilingReached ==
  ASSUME Base < MaxDelay
  PROVE  ExponentCeiling \in Nat /\ Base * 2^ExponentCeiling >= MaxDelay
<1>. DEFINE E == {e \in 0..MaxDelay : Base * 2^e >= MaxDelay}
<1>0. Base \in Nat /\ Base >= 1 /\ MaxDelay \in Nat
  BY ReconnectAssumption
<1>1. MaxDelay \in E
  <2>1. 2^MaxDelay \in Nat /\ MaxDelay < 2^MaxDelay
    BY <1>0, PowerStep, PowerAbove
  <2>2. 1 * 2^MaxDelay <= Base * 2^MaxDelay
    BY <1>0, <2>1
  <2>. QED BY <1>0, <2>1, <2>2
<1>2. PICK e \in E : \A d \in E : e <= d
  <2>. HIDE DEF E
  <2>1. E \in SUBSET Nat
    BY <1>0 DEF E
  <2>. QED BY <1>1, <2>1, LeastNat
<1>3. \A d \in 0..(e - 1) : Base * 2^d < MaxDelay
  <2>. TAKE d \in 0..(e - 1)
  <2>1. d \in 0..MaxDelay /\ d \notin E /\ d \in Nat
    BY <1>0, <1>2
  <2>2. 2^d \in Nat
    BY <2>1, PowerStep
  <2>. QED BY <1>0, <2>1, <2>2
<1>4. \E x \in 0..MaxDelay : Base * 2^x >= MaxDelay /\ \A d \in 0..(x - 1) : Base * 2^d < MaxDelay
  BY <1>2, <1>3
<1>5. ~(MaxDelay <= Base)
  BY <1>0
<1>6. ExponentCeiling \in 0..MaxDelay /\ Base * 2^ExponentCeiling >= MaxDelay
  BY <1>4, <1>5 DEF ExponentCeiling
<1>. QED BY <1>0, <1>6

\* ExponentialBackoff.wait, for every attempt, base and ceiling: capping the exponent,
\* which keeps 2 ** attempt from overflowing, gives the delay of the uncapped doubling.
THEOREM CapIsExact == \A n \in Nat : Delay(n) = AtMost(Base * 2^n, MaxDelay)
<1>. TAKE n \in Nat
<1>0. Base \in Nat /\ Base >= 1 /\ MaxDelay \in Nat
  BY ReconnectAssumption
<1>1. 2^n \in Nat /\ 2^n >= 1 /\ 2^0 = 1
  BY PowerStep, PowerAbove
<1>2. Base * 2^n \in Nat /\ Base * 1 <= Base * 2^n
  BY <1>0, <1>1
<1>3. CASE MaxDelay <= Base
  <2>1. ExponentCeiling = 0
    BY <1>3 DEF ExponentCeiling
  <2>2. Delay(n) = AtMost(Base * 2^0, MaxDelay)
    BY <2>1 DEF Delay, AtMost
  <2>3. Base * 2^0 = Base
    BY <1>0, <1>1
  <2>4. Delay(n) = MaxDelay
    BY <1>0, <1>3, <2>2, <2>3 DEF AtMost
  <2>5. ~(Base * 2^n < MaxDelay)
    BY <1>0, <1>2, <1>3
  <2>. QED BY <2>4, <2>5 DEF AtMost
<1>4. CASE Base < MaxDelay
  <2>. DEFINE c == ExponentCeiling
  <2>1. c \in Nat /\ Base * 2^c >= MaxDelay /\ 2^c \in Nat
    BY <1>4, CeilingReached, PowerStep
  <2>. HIDE DEF c
  <2>2. CASE n < c
    BY <2>2 DEF Delay, AtMost, c
  <2>3. CASE ~(n < c)
    <3>1. 2^c <= 2^n
      BY <2>1, <2>3, PowerMono
    <3>2. Base * 2^c <= Base * 2^n
      BY <1>0, <1>1, <2>1, <3>1
    <3>3. ~(Base * 2^n < MaxDelay) /\ ~(Base * 2^c < MaxDelay)
      BY <1>0, <1>2, <2>1, <3>2
    <3>4. Delay(n) = AtMost(Base * 2^c, MaxDelay)
      BY <2>3 DEF Delay, AtMost, c
    <3>. QED BY <3>3, <3>4 DEF AtMost
  <2>. QED BY <2>2, <2>3
<1>. QED BY <1>0, <1>3, <1>4

\* A later attempt waits at least as long, and the first one Base or the ceiling.
LEMMA DelayGrows ==
  ASSUME NEW n \in Nat, NEW m \in 0..n
  PROVE  /\ Delay(n) \in Nat /\ Delay(n) <= MaxDelay
         /\ Delay(n) >= AtMost(Base * 2^m, MaxDelay) /\ Delay(n) >= AtMost(Base, MaxDelay)
<1>0. Base \in Nat /\ Base >= 1 /\ MaxDelay \in Nat /\ m \in Nat /\ m <= n
  BY ReconnectAssumption
<1>1. 2^n \in Nat /\ 2^m \in Nat /\ 2^m <= 2^n /\ 1 <= 2^n
  BY <1>0, PowerStep, PowerMono, PowerAbove
<1>2. Base * 2^n \in Nat /\ Base * 2^m \in Nat /\ Base * 2^m <= Base * 2^n /\ Base <= Base * 2^n
  <2>1. Base * 1 <= Base * 2^n /\ Base * 2^m <= Base * 2^n
    BY <1>0, <1>1
  <2>2. Base * 2^n \in Nat /\ Base * 2^m \in Nat
    BY <1>0, <1>1
  <2>. QED BY <1>0, <2>1, <2>2
<1>3. Delay(n) = AtMost(Base * 2^n, MaxDelay)
  BY CapIsExact
<1>. DEFINE x == Base * 2^n
            y == Base * 2^m
<1>. HIDE DEF x, y
<1>4. x \in Nat /\ y \in Nat /\ y <= x /\ Base <= x /\ Delay(n) = AtMost(x, MaxDelay)
  BY <1>2, <1>3 DEF x, y
<1>5. Delay(n) \in Nat /\ Delay(n) <= MaxDelay /\ Delay(n) >= AtMost(y, MaxDelay) /\ Delay(n) >= AtMost(Base, MaxDelay)
  BY <1>0, <1>4 DEF AtMost
<1>. QED BY <1>5 DEF y

LoopTypes ==
  /\ ReconnectTypeOK
  /\ failures \in Seq(0..(Window + 1)) /\ Len(failures) <= MaxStreak
  /\ streak = failures

\* A closed breaker has seen too few failures to open, an open one opened no earlier
\* than the last attempt ended, and a half open one has cooled down.
BreakerCounts ==
  /\ breaker = "CLOSED" => Len(failures) < Threshold
  /\ breaker = "OPEN" => rpc \notin {"connect", "session"} /\ openedAge <= restAge
  /\ breaker = "HALF_OPEN" => rpc \in {"connect", "session", "stopped"} /\ restAge >= Cooldown

\* The backoff sleeps out its delay before the loop goes on.
DelaySlept ==
  /\ rpc = "backoff" => restAge + timer >= Delay(attempt)
  /\ rpc \in {"start", "gate", "poll", "close", "crashed"} => restAge >= AtMost(Base, MaxDelay)
  /\ rpc = "close" => attempt >= 1

LoopInv == LoopTypes /\ BreakerCounts /\ DelaySlept /\ CapChangesNoWait

\* Ages of a sequence of failures stay ages.
LEMMA AgedSeq ==
  ASSUME NEW s \in Seq(0..(Window + 1))
  PROVE  Aged(s) \in Seq(0..(Window + 1)) /\ Len(Aged(s)) = Len(s)
<1>1. Len(s) \in Nat /\ DOMAIN s = 1..Len(s) /\ \A i \in 1..Len(s) : s[i] \in 0..(Window + 1)
  BY LenProperties, ElementOfSeq
<1>2. ASSUME NEW i \in 1..Len(s) PROVE AtMost(s[i] + 1, Window + 1) \in 0..(Window + 1)
  <2>1. s[i] \in Nat /\ Window \in Nat
    BY <1>1, ReconnectAssumption
  <2>. QED BY <2>1 DEF AtMost
<1>3. Aged(s) = [i \in 1..Len(s) |-> AtMost(s[i] + 1, Window + 1)]
  BY <1>1 DEF Aged
<1>. QED BY <1>1, <1>2, <1>3

\* The failures in the window are failures, no more than there were.
LEMMA InWindowSeq ==
  ASSUME NEW s \in Seq(0..(Window + 1))
  PROVE  InWindow(s) \in Seq(0..(Window + 1)) /\ Len(InWindow(s)) \in 0..Len(s)
<1>. DEFINE S == 0..(Window + 1)
            K == 0..Window
            k == Keep(s, K)
<1>. HIDE DEF S, K, k
<1>1. s \in Seq(S)
  BY DEF S
<1>2. k \in Seq(S \cap K) /\ Len(k) <= Len(s)
  BY <1>1, KeepType DEF k
<1>3. k \in Seq(S)
  BY <1>2, SeqMonotonic, S \cap K \subseteq S
<1>4. Len(k) \in Nat /\ Len(s) \in Nat
  BY <1>1, <1>3, LenProperties
<1>. QED BY <1>2, <1>3, <1>4 DEF InWindow, k, K, S

\* Every element of a sequence of ages is an age (CircuitBreaker._failures).
LEMMA AgesOf ==
  ASSUME NEW s \in Seq(0..(Window + 1))
  PROVE  \A i \in DOMAIN s : s[i] \in 0..(Window + 1)
BY LenProperties, ElementOfSeq

\* Gates, polls, attempts, failures, waits, crashes and the passing of time keep the
\* breaker's count and the slept delay.
LEMMA LoopInductive == LoopInv /\ [ReconnectNext]_reconnectVars => LoopInv'
<1>. SUFFICES ASSUME LoopInv, [ReconnectNext]_reconnectVars PROVE LoopInv'
  OBVIOUS
<1>0. /\ Base \in Nat /\ Base >= 1 /\ MaxDelay \in Nat /\ MaxDelay >= 1 /\ Threshold \in Nat /\ Threshold >= 1
      /\ Poll \in Nat /\ StableReset \in Nat /\ SupBase \in Nat /\ SupBase >= 1 /\ SupMax \in Nat /\ SupMax >= 1
      /\ MaxAttempt \in Nat /\ MaxAttempt >= 1 /\ Jitter \in Nat /\ Window \in Nat /\ Cooldown \in Nat
      /\ SupStable \in Nat /\ MaxStreak \in Nat
      /\ MaxRest \in Nat /\ MaxRest >= MaxDelay /\ MaxRest >= Cooldown
  BY ReconnectAssumption, MaxRestIs
<1>t. /\ rpc \in {"start", "gate", "poll", "connect", "session", "backoff", "close", "crashed", "stopped"}
      /\ breaker \in {"CLOSED", "OPEN", "HALF_OPEN"}
      /\ timer \in Nat /\ openedAge \in 0..Cooldown /\ attempt \in 0..MaxAttempt
      /\ sessionAge \in 0..StableReset
      /\ supDelay \in 1..(IF SupMax > SupBase THEN SupMax ELSE SupBase) /\ runAge \in 0..SupStable
      /\ restAge \in 0..MaxRest
      /\ failures \in Seq(0..(Window + 1)) /\ Len(failures) <= MaxStreak /\ streak = failures
  BY DEF LoopInv, LoopTypes, ReconnectTypeOK
<1>m. AtMost(Base, MaxDelay) \in Nat /\ AtMost(Base, MaxDelay) <= MaxDelay
  BY <1>0, AtMostIs
<1>l. Len(failures) \in Nat /\ Len(<<>>) = 0 /\ <<>> \in Seq(0..(Window + 1))
  BY <1>t, LenProperties, EmptySeq
<1>1. CASE Gate
  <2>1. /\ rpc \in {"start", "gate"} /\ rpc' \in {"connect", "poll"}
        /\ UNCHANGED <<failures, openedAge, attempt, supDelay, restAge, streak>>
        /\ timer' \in Nat /\ runAge' \in 0..SupStable /\ sessionAge' \in 0..StableReset
        /\ breaker' = IF CanAttempt /\ breaker = "OPEN" THEN "HALF_OPEN" ELSE breaker
        /\ rpc' = IF CanAttempt THEN "connect" ELSE "poll"
    BY <1>0, <1>t, <1>1 DEF Gate
  <2>2. LoopTypes'
    BY <2>1 DEF LoopInv, LoopTypes, ReconnectTypeOK
  <2>3. BreakerCounts'
    BY <1>0, <1>t, <2>1 DEF LoopInv, BreakerCounts, CanAttempt
  <2>4. DelaySlept' /\ CapChangesNoWait'
    BY <2>1 DEF LoopInv, DelaySlept, CapChangesNoWait
  <2>. QED BY <2>2, <2>3, <2>4 DEF LoopInv
<1>2. CASE Connected
  BY <1>2 DEF Connected, LoopInv, LoopTypes, ReconnectTypeOK, BreakerCounts, DelaySlept, CapChangesNoWait
<1>3. CASE Fails
  <2>. DEFINE kept == InWindow(Append(failures, 0))
  <2>1. kept \in Seq(0..(Window + 1)) /\ Len(kept) \in Nat /\ Len(kept) <= MaxStreak
    <3>1. Append(failures, 0) \in Seq(0..(Window + 1)) /\ Len(Append(failures, 0)) = Len(failures) + 1
      BY <1>0, <1>t
    <3>2. Len(failures) < MaxStreak
      BY <1>3 DEF Fails
    <3>. DEFINE a == Append(failures, 0)
    <3>3. a \in Seq(0..(Window + 1)) /\ Len(a) = Len(failures) + 1
      BY <3>1
    <3>. HIDE DEF a
    <3>4. InWindow(a) \in Seq(0..(Window + 1)) /\ Len(InWindow(a)) \in 0..Len(a)
      BY <3>3, InWindowSeq
    <3>5. Len(InWindow(a)) \in Nat /\ Len(InWindow(a)) <= MaxStreak
      BY <1>0, <1>l, <3>2, <3>3, <3>4
    <3>. QED BY <3>4, <3>5 DEF a
  <2>. HIDE DEF kept
  <2>2. /\ rpc \in {"connect", "session"} /\ rpc' = "backoff" /\ restAge' = 0
        /\ UNCHANGED <<sessionAge, supDelay, runAge>>
    BY <1>3 DEF Fails
  <2>3. \/ breaker' = "CLOSED" /\ failures' = <<>> /\ attempt' = 0 /\ openedAge' = openedAge /\ streak' = <<>>
        \/ /\ failures' = kept /\ streak' = kept /\ attempt' = attempt
           /\ IF breaker = "HALF_OPEN" \/ Len(kept) >= Threshold
              THEN breaker' = "OPEN" /\ openedAge' = 0
              ELSE breaker' = breaker /\ openedAge' = openedAge
    BY <1>t, <1>3 DEF Fails, SelfHeals, RecordFailure, kept
  <2>4. attempt' \in 0..MaxAttempt
    BY <1>0, <1>t, <2>3
  <2>5. Delay(attempt') \in Nat
    BY <1>0, <2>4, DelayGrows
  <2>6. timer' \in Nat /\ timer' >= Delay(attempt')
    <3>. DEFINE d == Delay(attempt')
                w == (d * Jitter) \div 100
    <3>1. d \in Nat
      BY <2>5
    <3>. HIDE DEF d
    <3>2. d * Jitter \in Nat
      BY <1>0, <3>1
    <3>3. w \in Nat
      BY <3>2
    <3>4. \E j \in 0..w : timer' = d + j
      BY <1>3 DEF Fails, d
    <3>. HIDE DEF w
    <3>5. timer' \in Nat /\ timer' >= d
      BY <3>1, <3>3, <3>4
    <3>. QED BY <3>5 DEF d
  <2>7. LoopTypes'
    <3>1. failures' \in Seq(0..(Window + 1)) /\ Len(failures') <= MaxStreak /\ streak' = failures'
      <4>1. (failures' = <<>> /\ streak' = <<>>) \/ (failures' = kept /\ streak' = kept)
        BY <2>3
      <4>2. CASE failures' = <<>> /\ streak' = <<>>
        <5>1. 0 <= MaxStreak
          BY <1>0
        <5>. QED BY <1>l, <4>2, <5>1, Zenon
      <4>3. CASE failures' = kept /\ streak' = kept
        BY <2>1, <4>3
      <4>. QED BY <4>1, <4>2, <4>3
    <3>2. breaker' \in {"CLOSED", "OPEN", "HALF_OPEN"} /\ openedAge' \in 0..Cooldown /\ restAge' \in 0..MaxRest
      BY <1>0, <1>t, <2>2, <2>3
    <3>3. \A i \in DOMAIN failures' : failures'[i] \in 0..(Window + 1)
      BY <3>1, AgesOf
    <3>. QED BY <1>t, <2>2, <2>4, <2>6, <3>1, <3>2, <3>3 DEF LoopTypes, ReconnectTypeOK
  <2>8. BreakerCounts'
    BY <1>0, <1>t, <1>l, <2>1, <2>2, <2>3 DEF LoopInv, BreakerCounts
  <2>9. DelaySlept' /\ CapChangesNoWait'
    BY <2>2, <2>5, <2>6 DEF DelaySlept, CapChangesNoWait
  <2>. QED BY <2>7, <2>8, <2>9 DEF LoopInv
<1>4. CASE Wake
  <2>1. /\ timer = 0 /\ UNCHANGED <<timer, breaker, failures, openedAge, sessionAge, runAge, restAge, streak>>
        /\ \/ rpc = "poll" /\ rpc' = "gate" /\ attempt' = attempt
           \/ rpc = "backoff" /\ rpc' = "close" /\ attempt' = AtMost(attempt + 1, MaxAttempt)
           \/ rpc = "crashed" /\ rpc' = "start" /\ attempt' = attempt
    BY <1>4 DEF Wake
  <2>2. supDelay' \in 1..(IF SupMax > SupBase THEN SupMax ELSE SupBase)
    BY <1>0, <1>t, <1>4 DEF Wake, SupervisorDoubles, AtMost
  <2>3. attempt' \in 0..MaxAttempt /\ (rpc' = "close" => attempt' >= 1)
    BY <1>0, <1>t, <2>1 DEF AtMost
  <2>4. LoopTypes'
    BY <2>1, <2>2, <2>3 DEF LoopInv, LoopTypes, ReconnectTypeOK
  <2>5. BreakerCounts'
    BY <2>1 DEF LoopInv, BreakerCounts
  <2>6. ASSUME rpc' = "close"
        PROVE  restAge >= AtMost(Base * 2^(attempt' - 1), MaxDelay) /\ restAge >= AtMost(Base, MaxDelay)
    <3>. DEFINE m == attempt' - 1
    <3>1. attempt \in Nat /\ m \in 0..attempt
      BY <1>0, <1>t, <2>1, <2>6 DEF AtMost
    <3>. HIDE DEF m
    <3>2. /\ Delay(attempt) \in Nat /\ Delay(attempt) >= AtMost(Base * 2^m, MaxDelay)
          /\ Delay(attempt) >= AtMost(Base, MaxDelay)
      BY <3>1, DelayGrows
    <3>3. restAge >= Delay(attempt)
      BY <1>0, <1>t, <2>1, <2>6, <3>2 DEF LoopInv, DelaySlept
    <3>4. AtMost(Base * 2^m, MaxDelay) \in Nat
      <4>1. m \in Nat
        BY <3>1
      <4>2. 2^m \in Nat
        BY <4>1, PowerStep
      <4>3. Base * 2^m \in Nat
        BY <1>0, <4>2
      <4>. QED BY <1>0, <4>3, AtMostIs
    <3>5. restAge \in Nat
      BY <1>0, <1>t
    <3>. QED BY <1>m, <3>2, <3>3, <3>4, <3>5 DEF m
  <2>7. DelaySlept'
    BY <2>1, <2>3, <2>6 DEF LoopInv, DelaySlept
  <2>8. CapChangesNoWait'
    BY <2>1, <2>6 DEF CapChangesNoWait
  <2>. QED BY <2>4, <2>5, <2>7, <2>8 DEF LoopInv
<1>5. CASE Close
  BY <1>5 DEF Close, LoopInv, LoopTypes, ReconnectTypeOK, BreakerCounts, DelaySlept, CapChangesNoWait
<1>6. CASE CloseRaises
  <2>1. SupervisedDelay \in 1..(IF SupMax > SupBase THEN SupMax ELSE SupBase)
    BY <1>0, <1>t DEF SupervisedDelay
  <2>2. SupervisedDelay \in Nat
    BY <1>0, <2>1
  <2>. QED BY <1>6, <2>1, <2>2 DEF CloseRaises, LoopInv, LoopTypes, ReconnectTypeOK, BreakerCounts,
              DelaySlept, CapChangesNoWait
<1>7. CASE Disconnect
  BY <1>7 DEF Disconnect, LoopInv, LoopTypes, ReconnectTypeOK, BreakerCounts, DelaySlept, CapChangesNoWait
<1>8. CASE Tick
  <2>1. /\ rpc \in {"poll", "connect", "session", "backoff", "crashed"}
        /\ timer' = IF timer = 0 THEN 0 ELSE timer - 1
        /\ failures' = Aged(failures) /\ streak' = Aged(streak)
        /\ openedAge' = AtMost(openedAge + 1, Cooldown)
        /\ restAge' = IF rpc \in {"connect", "session"} THEN restAge ELSE AtMost(restAge + 1, MaxRest)
        /\ UNCHANGED <<rpc, breaker, attempt, supDelay>>
    BY <1>8 DEF Tick
  <2>2. failures' \in Seq(0..(Window + 1)) /\ Len(failures') = Len(failures) /\ streak' = failures'
    BY <1>t, <2>1, AgedSeq
  <2>3. /\ timer' \in Nat /\ openedAge' \in 0..Cooldown /\ restAge' \in 0..MaxRest
        /\ sessionAge' \in 0..StableReset /\ runAge' \in 0..SupStable
    BY <1>0, <1>t, <1>8, <2>1 DEF Tick, AtMost
  <2>4. LoopTypes'
    <3>1. \A i \in DOMAIN failures' : failures'[i] \in 0..(Window + 1)
      BY <2>2, AgesOf
    <3>. QED BY <1>t, <2>1, <2>2, <2>3, <3>1 DEF LoopTypes, ReconnectTypeOK
  <2>5. restAge' >= restAge /\ (breaker = "OPEN" => openedAge' <= restAge')
    BY <1>0, <1>t, <2>1 DEF LoopInv, BreakerCounts, AtMost
  <2>6. BreakerCounts'
    BY <1>0, <1>t, <2>1, <2>2, <2>3, <2>5 DEF LoopInv, BreakerCounts
  <2>7. rpc = "backoff" => restAge' + timer' >= Delay(attempt)
    <3>1. Delay(attempt) \in Nat /\ Delay(attempt) <= MaxDelay
      BY <1>0, <1>t, DelayGrows, SMTT(60)
    <3>. QED BY <1>0, <1>t, <2>1, <3>1 DEF LoopInv, DelaySlept, AtMost
  <2>8. DelaySlept' /\ CapChangesNoWait'
    BY <1>0, <1>t, <1>m, <2>1, <2>3, <2>5, <2>7, SMTT(60) DEF LoopInv, DelaySlept, CapChangesNoWait
  <2>. QED BY <2>4, <2>6, <2>8 DEF LoopInv
<1>9. CASE UNCHANGED reconnectVars
  BY <1>9 DEF reconnectVars, LoopInv, LoopTypes, ReconnectTypeOK, BreakerCounts, DelaySlept, CapChangesNoWait
<1>. QED BY <1>1, <1>2, <1>3, <1>4, <1>5, <1>6, <1>7, <1>8, <1>9 DEF ReconnectNext, LoopStep

\* A loop that has just been started has rested and counted no failure.
LEMMA LoopInitially == ASSUME NEW on \in BOOLEAN, ReconnectInit(on) PROVE LoopInv
<1>0. /\ Base \in Nat /\ MaxDelay \in Nat /\ Threshold \in Nat /\ Threshold >= 1 /\ StableReset \in Nat
      /\ SupBase \in Nat /\ SupBase >= 1 /\ SupMax \in Nat /\ MaxAttempt \in Nat /\ Cooldown \in Nat
      /\ Window \in Nat /\ SupStable \in Nat /\ MaxStreak \in Nat /\ MaxRest \in Nat /\ MaxRest >= MaxDelay
  BY ReconnectAssumption, MaxRestIs
<1>1. failures = <<>> /\ streak = failures /\ restAge = MaxRest /\ rpc \in {"start", "stopped"}
  BY DEF ReconnectInit
<1>2. failures \in Seq(0..(Window + 1)) /\ Len(failures) = 0
  BY <1>1, EmptySeq
<1>3. \A i \in DOMAIN failures : failures[i] \in 0..(Window + 1)
  BY <1>2, AgesOf
<1>4. 0 <= MaxStreak /\ 0 < Threshold
  BY <1>0
<1>5. /\ timer \in Nat /\ openedAge \in 0..Cooldown /\ attempt \in 0..MaxAttempt /\ sessionAge \in 0..StableReset
      /\ supDelay \in 1..(IF SupMax > SupBase THEN SupMax ELSE SupBase) /\ runAge \in 0..SupStable
      /\ restAge \in 0..MaxRest
  BY <1>0, <1>1 DEF ReconnectInit
<1>6. LoopTypes
  BY <1>1, <1>2, <1>3, <1>4, <1>5 DEF ReconnectInit, LoopTypes, ReconnectTypeOK
<1>7. BreakerCounts
  BY <1>2, <1>4 DEF ReconnectInit, BreakerCounts
<1>8. DelaySlept /\ CapChangesNoWait
  <2>1. restAge >= AtMost(Base, MaxDelay)
    BY <1>0, <1>1, AtMostIs
  <2>. QED BY <1>1, <2>1 DEF DelaySlept, CapChangesNoWait
<1>. QED BY <1>6, <1>7, <1>8 DEF LoopInv

\* What the runs check of the loop follows from its invariant.
LEMMA LoopInvSound == LoopInv => AttemptsPaced
<1>. SUFFICES ASSUME LoopInv PROVE AttemptsPaced
  OBVIOUS
<1>1. ReconnectTypeOK /\ CapChangesNoWait /\ failures \in Seq(0..(Window + 1)) /\ streak = failures
  BY DEF LoopInv, LoopTypes
<1>2. Len(failures) \in Nat /\ Threshold \in Nat
  BY <1>1, LenProperties, ReconnectAssumption
<1>3. breaker \in {"CLOSED", "OPEN", "HALF_OPEN"}
  BY <1>1 DEF ReconnectTypeOK
<1>4. ASSUME rpc = "connect", Len(streak) >= Threshold PROVE restAge >= Cooldown
  <2>1. breaker # "CLOSED" /\ breaker # "OPEN"
    BY <1>1, <1>2, <1>4 DEF LoopInv, BreakerCounts
  <2>. QED BY <1>3, <2>1 DEF LoopInv, BreakerCounts
<1>. QED BY <1>1, <1>4 DEF AttemptsPaced, OutageRests

\* run_with_reconnect, CircuitBreaker and ExponentialBackoff, for every threshold, window,
\* cooldown, delay and jitter: once Threshold attempts in a row died quickly within the
\* window the next one comes only after the whole cooldown, and the loop goes on only
\* after the wait the uncapped doubling asks for.
THEOREM AttemptsArePaced == ReconnectSpec => []AttemptsPaced
<1>1. ReconnectInit(TRUE) => LoopInv
  BY LoopInitially
<1>. QED BY <1>1, LoopInductive, LoopInvSound, PTL DEF ReconnectSpec

\* One step of the loop is a step of the paced retrier, or none.
LEMMA LoopStepPaced == LoopInv /\ [ReconnectNext]_reconnectVars => [Retrier!Next]_(Retrier!retryVars)
<1>. DEFINE m == AtMost(Base, MaxDelay)
            Link == IF rpc = "stopped" THEN "stopped"
                    ELSE IF rpc \in {"connect", "session"} THEN "busy" ELSE "resting"
            Rested == AtMost(restAge, m)
<1>a. Link = "resting" /\ Rested < m /\ Rested' = Rested + 1 /\ Link' = Link => Retrier!Rest
  BY DEF Retrier!Rest
<1>b. Link = "resting" /\ Rested = m /\ Link' = "busy" /\ Rested' = Rested => Retrier!Try
  BY DEF Retrier!Try
<1>c. Link = "busy" /\ Link' = "resting" /\ Rested' = 0 => Retrier!Lose
  BY DEF Retrier!Lose
<1>d. Link # "stopped" /\ Link' = "stopped" /\ Rested' = Rested => Retrier!Stop
  BY DEF Retrier!Stop
<1>e. Link' = Link /\ Rested' = Rested => UNCHANGED Retrier!retryVars
  BY DEF Retrier!retryVars
<1>f. [Retrier!Next]_(Retrier!retryVars)
      <=> Retrier!Rest \/ Retrier!Try \/ Retrier!Lose \/ Retrier!Stop \/ UNCHANGED Retrier!retryVars
  BY DEF Retrier!Next
<1>. HIDE DEF Link, Rested
<1>. SUFFICES ASSUME LoopInv, [ReconnectNext]_reconnectVars
     PROVE  \/ Link = "resting" /\ Rested < m /\ Rested' = Rested + 1 /\ Link' = Link
            \/ Link = "resting" /\ Rested = m /\ Link' = "busy" /\ Rested' = Rested
            \/ Link = "busy" /\ Link' = "resting" /\ Rested' = 0
            \/ Link # "stopped" /\ Link' = "stopped" /\ Rested' = Rested
            \/ Link' = Link /\ Rested' = Rested
  BY <1>a, <1>b, <1>c, <1>d, <1>e, <1>f
<1>. USE DEF Link, Rested
<1>0. m \in Nat /\ restAge \in Nat /\ MaxRest \in Nat /\ MaxRest >= m /\ restAge <= MaxRest
  <2>1. Base \in Nat /\ MaxDelay \in Nat /\ MaxRest \in Nat /\ MaxRest >= MaxDelay
    BY MaxRestIs, ReconnectAssumption
  <2>2. m \in Nat /\ m <= MaxDelay
    BY <2>1, AtMostIs
  <2>3. restAge \in 0..MaxRest
    BY DEF LoopInv, LoopTypes, ReconnectTypeOK
  <2>. QED BY <2>1, <2>2, <2>3
<1>s. rpc \in {"start", "gate"} => restAge >= m
  BY DEF LoopInv, DelaySlept
<1>. HIDE DEF m
<1>1. CASE Gate
  <2>1. rpc \in {"start", "gate"} /\ restAge' = restAge /\ rpc' \in {"connect", "poll"}
    BY <1>1 DEF Gate
  <2>2. Rested = m
    BY <1>0, <1>s, <2>1 DEF AtMost
  <2>. QED BY <2>1, <2>2 DEF m
<1>2. CASE Connected
  BY <1>2 DEF Connected, m
<1>3. CASE Fails
  <2>1. AtMost(0, m) = 0
    BY <1>0 DEF AtMost
  <2>. QED BY <1>3, <2>1 DEF Fails, m
<1>4. CASE Wake
  BY <1>4 DEF Wake, m
<1>5. CASE Close
  BY <1>5 DEF Close, m
<1>6. CASE CloseRaises
  BY <1>6 DEF CloseRaises, m
<1>7. CASE Disconnect
  BY <1>7 DEF Disconnect, m
<1>8. CASE Tick
  <2>1. /\ rpc \in {"poll", "connect", "session", "backoff", "crashed"} /\ rpc' = rpc
        /\ restAge' = IF rpc \in {"connect", "session"} THEN restAge ELSE AtMost(restAge + 1, MaxRest)
    BY <1>8 DEF Tick
  <2>2. CASE rpc \in {"connect", "session"}
    BY <2>1, <2>2 DEF m
  <2>3. CASE rpc \notin {"connect", "session"}
    <3>1. AtMost(restAge', m) = IF restAge < m THEN AtMost(restAge, m) + 1 ELSE AtMost(restAge, m)
      BY <1>0, <2>1, <2>3 DEF AtMost
    <3>2. restAge < m => AtMost(restAge, m) < m
      BY DEF AtMost
    <3>. QED BY <2>1, <2>3, <3>1, <3>2 DEF m
  <2>. QED BY <2>2, <2>3
<1>9. CASE UNCHANGED reconnectVars
  BY <1>9 DEF reconnectVars, m
<1>. QED BY <1>1, <1>2, <1>3, <1>4, <1>5, <1>6, <1>7, <1>8, <1>9 DEF ReconnectNext, LoopStep

\* run_with_reconnect and _supervised implement the paced retrier, but for its fairness:
\* between the end of one attempt and the next the dependency is left alone for the base
\* delay at least, through open breakers, crashes of the loop and supervisor restarts.
THEOREM LoopRefinesRetrier == ReconnectSpec => Retrier!Init /\ [][Retrier!Next]_(Retrier!retryVars)
<1>1. ReconnectInit(TRUE) => LoopInv
  BY LoopInitially
<1>2. ReconnectInit(TRUE) => Retrier!Init
  <2>1. AtMost(MaxRest, AtMost(Base, MaxDelay)) = AtMost(Base, MaxDelay)
    BY MaxRestIs, AtMostIs, ReconnectAssumption DEF AtMost
  <2>. QED BY <2>1 DEF ReconnectInit, Retrier!Init
<1>. QED BY <1>1, <1>2, LoopInductive, LoopStepPaced, PTL DEF ReconnectSpec

-----------------------------------------------------------------------------
(* The operator's backfill                                                 *)

Scanning == {"none", "audit", "kupo", "scan"}
ScanRecord == [at : Scanning, needed : SUBSET (1..Slots), seen : SUBSET (1..Slots),
               anchor : Nat, head : Nat, drops : Nat, degraded : BOOLEAN]
ReportRecord == [complete : BOOLEAN, requested : SUBSET (1..Slots), missing : SUBSET (1..Slots)]

BackfillTypes ==
  /\ job \in [Address -> {"none", "running", "done", "failed"}]
  /\ scan \in [Address -> ScanRecord]
  /\ report \in [Address -> ReportRecord]

\* The job table lists as running exactly the scans under way, within the limit.
TableTrue ==
  /\ \A a \in Address : job[a] = "running" <=> scan[a].at # "none"
  /\ IsFiniteSet(JobsRunning) /\ Cardinality(JobsRunning) <= MaxConcurrent

\* What a walk has seen is stored, and a walk that is not degraded has passed by no
\* target that it could have seen.
WalkTrue ==
  \A a \in Address : scan[a].at = "scan" =>
    LET s == scan[a] IN
    /\ s.needed # {}
    /\ s.seen \subseteq stored
    /\ ~s.degraded =>
         /\ \A n \in s.needed : s.anchor < n
         /\ \A n \in s.needed : n <= s.head => n \in s.seen \cup Orphaned \cup Unparseable

BackfillInv == BackfillTypes /\ TableTrue /\ WalkTrue /\ ReportTrue

-----------------------------------------------------------------------------
(* The sidecar's Kupo history                                              *)

KupoTypes ==
  /\ kupoMarker \in [set : BOOLEAN, done : BOOLEAN, seen : Nat, attempts : Nat,
                     flag : {"unset", "no_job", "gave_up"}]
  /\ kupoCap \in Nat
  /\ kupoStep \in [at : {"off", "idle", "ask", "trigger", "accepted", "refused"}, attempts : Nat]
  /\ hostJob \in [state : {"none", "running", "done", "failed"}, ours : BOOLEAN, bounded : BOOLEAN,
                  complete : BOOLEAN]
  /\ scans \in Nat /\ landed \in BOOLEAN /\ lent \in BOOLEAN /\ unmarked \in Nat

\* The scans the host was driven through are the triggers the marker counts, those a
\* restart lost and the one that is about to be marked.
ScansCounted ==
  /\ kupoMarker.attempts <= MaxTriggers
  /\ kupoStep.attempts <= kupoMarker.attempts
  /\ kupoStep.at = "ask" => kupoStep.attempts = kupoMarker.attempts
  /\ kupoStep.at \in {"trigger", "accepted", "refused"} => kupoStep.attempts < MaxTriggers
  /\ kupoStep.at = "trigger" => scans <= unmarked + kupoStep.attempts
  /\ kupoStep.at \in {"accepted", "refused"} => scans <= unmarked + kupoStep.attempts + 1
  /\ kupoStep.at \in {"off", "idle", "ask"} => scans <= unmarked + kupoMarker.attempts

\* While the sidecar follows a job, a bounded job that ended complete is one of its own, or
\* one an operator bounded since.
FollowsOwnJob ==
  /\ kupoStep.at = "ask" => MustAsk
  /\ kupoStep.at \in {"trigger", "accepted", "refused"} =>
       ~(kupoMarker.done /\ kupoMarker.seen >= kupoCap)
  /\ Following /\ Adoptable => landed \/ lent

KupoInv == KupoTypes /\ ScansCounted /\ FollowsOwnJob /\ OwnScanAdopted

-----------------------------------------------------------------------------
(* The sidecar's job queue                                                 *)

RegistryRow == [status : {"absent", "pending", "processing", "done", "failed"},
                cov : {"unknown", "low", "high"}, drift : BOOLEAN, fit : BOOLEAN]
JobRecord == [target : Contract, kind : {"onboard", "classify"}, auto : BOOLEAN, fitted : BOOLEAN]
ListedRow == [target : Contract, kind : {"onboard", "classify", "skip"}]

WorkerRecord == [id : JobId \cup {NoJobId},
                 at : {"idle", "begin", "history", "owing", "ready", "closing"}]
FeedRecord == [at : {"off", "idle", "list", "visit"}, busy : SUBSET Contract,
               rows : Seq(ListedRow), sent : Nat]

JobsTypes ==
  /\ registry \in [Contract -> RegistryRow]
  /\ fitAge \in [Contract -> Nat] /\ autoAge \in [Contract -> Nat]
  /\ recent \in Seq(Contract)
  /\ \A i, j \in DOMAIN recent : recent[i] = recent[j] => i = j
  /\ jobRow \in [JobId -> JobRecord \cup {NoJobRow}]
  /\ worker \in WorkerRecord
  /\ worker.at # "idle" => worker.id \in Nonterminal
  /\ feed \in FeedRecord

\* A contract's fit by the feed, within the interval, stands on its row.
FitStands(c) == registry[c].fit /\ registry[c].status = "done" /\ fitAge[c] <= autoAge[c]

\* A contract the feed fitted within the interval has that fit on its row, or a row that
\* no tick acts on.
RowAllowed(c) ==
  autoAge[c] < Interval => registry[c].status \in {"processing", "failed"} \/ FitStands(c)

\* Its open job is the feed's own: the one that made the fit, or a classification under it.
JobAllowed(i) ==
  autoAge[jobRow[i].target] < Interval =>
    /\ jobRow[i].auto
    /\ jobRow[i].kind = "onboard" => jobRow[i].fitted
    /\ jobRow[i].kind = "classify" => FitStands(jobRow[i].target)

\* A job that made a fit found enough transactions, and would again.
FitOnRow ==
  /\ \A c \in Contract : RowAllowed(c)
  /\ \A i \in Nonterminal : JobAllowed(i)
  /\ \A i \in Nonterminal : jobRow[i].fitted => jobRow[i].target \in enough

\* The listing of a tick holds each contract once; a job the feed queued was either seen
\* busy by the tick, or its contract is no longer ahead; and what the tick decided of a
\* contract ahead respects the feed's last fit.
ListingTrue ==
  /\ feed.at = "list" => feed.rows = <<>>
  /\ \A i, j \in DOMAIN feed.rows : feed.rows[i].target = feed.rows[j].target => i = j
  /\ \A i \in Nonterminal : jobRow[i].auto /\ feed.at \in {"list", "visit"} =>
       \/ jobRow[i].target \in feed.busy
       \/ feed.at = "visit" /\ \A k \in DOMAIN feed.rows : feed.rows[k].target # jobRow[i].target
  /\ \A k \in DOMAIN feed.rows :
       LET r == feed.rows[k] IN
       feed.at = "visit" /\ r.target \notin feed.busy /\ autoAge[r.target] < Interval =>
         r.kind # "onboard" /\ (r.kind = "classify" => FitStands(r.target))

JobsInv == JobsTypes /\ OneJobPerContract /\ FitOnRow /\ ListingTrue

-----------------------------------------------------------------------------
(* The contract_anomaly poller                                             *)

Sending == poll.at \in {"send", "claim"}

PollRecord(S) == [at : {"off", "rest", "loop", "send", "claim"}, left : Seq(S), tried : Nat]

PollerTypes ==
  /\ anomalyClaim \in [Flaggable -> 0..4]
  /\ sentAt \in [Flaggable -> [1..4 -> Nat]] /\ unguarded \in [Flaggable -> [1..4 -> Nat]]
  /\ \E S : poll \in PollRecord(S) /\ \A x \in S : x.rank \in 1..4
  /\ Sending => poll.left # <<>>

\* A band the claim table does not cover was sent no more often than it could not
\* guard, and once more while the claim of a send is still to be written.
SentAreClaimed ==
  /\ \A tx \in Flaggable, r \in 1..4 :
       poll.at = "send" /\ Head(poll.left).tx = tx /\ Head(poll.left).rank = r
         => sentAt[tx][r] <= unguarded[tx][r]
  /\ \A tx \in Flaggable, r \in 1..4 :
       sentAt[tx][r] <= unguarded[tx][r] +
         (IF \/ anomalyClaim[tx] >= r
             \/ poll.at = "claim" /\ Head(poll.left).tx = tx /\ Head(poll.left).rank = r
          THEN 1 ELSE 0)

PollerInv == PollerTypes /\ SentAreClaimed

-----------------------------------------------------------------------------
(* The backfill keeps its invariant                                        *)

\* The earliest and the latest target of a walk exist (address_backfill.py, min and max
\* over the points Kupo lists).
LEMMA TargetEnds ==
  ASSUME NEW S \in SUBSET (1..Slots), S # {}
  PROVE  /\ Earliest(S) \in S /\ \A k \in S : Earliest(S) <= k
         /\ Latest(S) \in S /\ \A k \in S : k <= Latest(S)
<1>0. Slots \in Nat
  BY BackfillAssumption
<1>1. \E n \in S : \A k \in S : n <= k
  BY <1>0, LeastNat
<1>2. \E n \in S : \A k \in S : k <= n
  <2>. DEFINE T == {Slots - k : k \in S}
  <2>1. T \in SUBSET Nat /\ T # {}
    <3>1. \A k \in S : Slots - k \in Nat
      BY <1>0
    <3>. QED BY <3>1
  <2>2. PICK x \in T : \A y \in T : x <= y
    <3>. HIDE DEF T
    <3>. QED BY <2>1, LeastNat
  <2>3. PICK n \in S : x = Slots - n
    OBVIOUS
  <2>4. ASSUME NEW k \in S PROVE k <= n
    <3>1. Slots - n <= Slots - k
      BY <2>2, <2>3
    <3>. QED BY <1>0, <3>1
  <2>. QED BY <2>4
<1>. QED BY <1>1, <1>2 DEF Earliest, Latest

\* A step of the job table that changes no entry's being running keeps the table true.
LEMMA TableKept ==
  ASSUME BackfillTypes, TableTrue, NEW a \in Address,
         scan' \in [Address -> ScanRecord],
         \A b \in Address \ {a} : job'[b] = "running" <=> job[b] = "running",
         \A b \in Address \ {a} : scan'[b] = scan[b],
         job[a] = "running",
         job'[a] = "running" <=> scan'[a].at # "none"
  PROVE  TableTrue'
<1>1. JobsRunning' = IF job'[a] = "running" THEN JobsRunning ELSE JobsRunning \ {a}
  BY DEF JobsRunning
<1>2. IsFiniteSet(JobsRunning) /\ Cardinality(JobsRunning) <= MaxConcurrent /\ a \in JobsRunning
  BY DEF TableTrue, JobsRunning
<1>3. IsFiniteSet(JobsRunning \ {a}) /\ Cardinality(JobsRunning \ {a}) = Cardinality(JobsRunning) - 1
      /\ Cardinality(JobsRunning) \in Nat /\ MaxConcurrent \in Nat
  BY <1>2, FS_RemoveElement, FS_CardinalityType, BackfillAssumption
<1>4. IsFiniteSet(JobsRunning') /\ Cardinality(JobsRunning') <= MaxConcurrent
  BY <1>1, <1>2, <1>3
<1>. QED BY <1>4 DEF TableTrue

\* Every step of a backfill keeps its job table, its walk and its reports true.
LEMMA BackfillInductive == BackfillInv /\ [BackfillNext]_backfillVars => BackfillInv'
<1>. SUFFICES ASSUME BackfillInv, [BackfillNext]_backfillVars PROVE BackfillInv'
  OBVIOUS
<1>0. Slots \in Nat /\ Orphaned \subseteq 1..Slots /\ Unparseable \subseteq 1..Slots /\ MaxConcurrent \in Nat
  BY BackfillAssumption
<1>t. BackfillTypes /\ TableTrue /\ WalkTrue /\ ReportTrue
  BY DEF BackfillInv
<1>u. CASE UNCHANGED backfillVars
  <2>1. UNCHANGED <<job, scan, report, stored>>
    BY <1>u DEF backfillVars
  <2>2. BackfillTypes' /\ WalkTrue' /\ ReportTrue'
    BY <1>t, <2>1 DEF BackfillTypes, WalkTrue, ReportTrue
  <2>3. JobsRunning' = JobsRunning
    BY <2>1 DEF JobsRunning
  <2>4. TableTrue'
    BY <1>t, <2>1, <2>3 DEF TableTrue
  <2>. QED BY <2>2, <2>4 DEF BackfillInv
<1>1. ASSUME NEW a \in Address, StartBackfill(a) PROVE BackfillInv'
  <2>1. /\ scan[a].at = "none" /\ a \notin JobsRunning /\ Cardinality(JobsRunning) < MaxConcurrent
        /\ job' = [job EXCEPT ![a] = "running"] /\ report' = [report EXCEPT ![a] = NoReport]
        /\ scan' = [scan EXCEPT ![a].at = "audit"] /\ stored' = stored
    BY <1>1 DEF StartBackfill, Reserve
  <2>2. BackfillTypes'
    BY <1>0, <1>t, <2>1 DEF BackfillTypes, NoReport, ReportRecord, ScanRecord, Scanning
  <2>3. JobsRunning' = JobsRunning \cup {a}
    BY <1>t, <2>1 DEF JobsRunning, BackfillTypes
  <2>4. IsFiniteSet(JobsRunning') /\ Cardinality(JobsRunning') <= MaxConcurrent
    <3>1. IsFiniteSet(JobsRunning)
      BY <1>t DEF TableTrue
    <3>2. Cardinality(JobsRunning) \in Nat /\ IsFiniteSet(JobsRunning \cup {a})
          /\ Cardinality(JobsRunning \cup {a}) = Cardinality(JobsRunning) + 1
      BY <2>1, <3>1, FS_CardinalityType, FS_AddElement
    <3>. QED BY <1>0, <2>1, <2>3, <3>2
  <2>5. \A b \in Address : job'[b] = "running" <=> scan'[b].at # "none"
    BY <1>t, <2>1 DEF TableTrue, BackfillTypes, ScanRecord
  <2>6. TableTrue'
    BY <2>4, <2>5 DEF TableTrue
  <2>7. WalkTrue'
    BY <1>t, <2>1 DEF WalkTrue, BackfillTypes, ScanRecord
  <2>8. ReportTrue'
    BY <1>t, <2>1 DEF ReportTrue, BackfillTypes
  <2>. QED BY <2>2, <2>6, <2>7, <2>8 DEF BackfillInv
<1>2. ASSUME NEW a \in Address, AuditRaises(a) PROVE BackfillInv'
  <2>1. /\ scan[a].at = "audit" /\ job' = [job EXCEPT ![a] = "none"] /\ scan' = [scan EXCEPT ![a] = NoScan]
        /\ UNCHANGED <<report, stored>>
    BY <1>2 DEF AuditRaises
  <2>2. NoScan \in ScanRecord /\ NoScan.at = "none"
    BY DEF NoScan, ScanRecord, Scanning
  <2>3. BackfillTypes'
    BY <1>t, <2>1, <2>2 DEF BackfillTypes
  <2>4. TableTrue'
    BY <1>t, <2>1, <2>2, <2>3, TableKept DEF TableTrue, BackfillTypes
  <2>5. WalkTrue'
    BY <1>t, <2>1, <2>2 DEF WalkTrue, BackfillTypes
  <2>6. ReportTrue'
    BY <1>t, <2>1 DEF ReportTrue, BackfillTypes
  <2>. QED BY <2>3, <2>4, <2>5, <2>6 DEF BackfillInv
<1>3. ASSUME NEW a \in Address, AuditWritten(a) PROVE BackfillInv'
  <2>. DEFINE jobs == [job EXCEPT ![a] = "running"]
  <2>1. /\ scan[a].at = "audit" /\ scan' = [scan EXCEPT ![a].at = "kupo"]
        /\ job' = [b \in Address |-> IF b \in Evicted(jobs) THEN "none" ELSE jobs[b]]
        /\ UNCHANGED <<report, stored>>
    BY <1>3 DEF AuditWritten
  <2>2. job[a] = "running" /\ jobs = job
    BY <1>t, <2>1 DEF TableTrue, BackfillTypes
  <2>3. \A b \in Address : job'[b] = job[b] \/ (job'[b] = "none" /\ job[b] \in {"done", "failed"})
    BY <2>1, <2>2 DEF Evicted
  <2>4. BackfillTypes'
    <3>1. job' \in [Address -> {"none", "running", "done", "failed"}]
      BY <1>t, <2>1, <2>2 DEF BackfillTypes
    <3>2. scan' \in [Address -> ScanRecord]
      BY <1>t, <2>1, SMTT(60) DEF BackfillTypes, ScanRecord, Scanning
    <3>. QED BY <1>t, <2>1, <3>1, <3>2 DEF BackfillTypes
  <2>5. TableTrue'
    <3>1. /\ \A b \in Address : job'[b] = "running" <=> job[b] = "running"
          /\ scan'[a].at # "none" /\ \A b \in Address \ {a} : scan'[b] = scan[b]
      BY <1>t, <2>1, <2>3, ZenonT(60) DEF BackfillTypes, ScanRecord
    <3>2. scan' \in [Address -> ScanRecord]
      BY <2>4 DEF BackfillTypes
    <3>. QED BY <1>t, <2>2, <3>1, <3>2, TableKept
  <2>6. WalkTrue'
    BY <1>t, <2>1 DEF WalkTrue, BackfillTypes, ScanRecord
  <2>7. ReportTrue'
    BY <1>t, <2>1, <2>3 DEF ReportTrue
  <2>. QED BY <2>4, <2>5, <2>6, <2>7 DEF BackfillInv
<1>4. ASSUME NEW a \in Address, NEW status \in {"done", "failed"}, NEW rep \in ReportRecord,
             scan[a].at # "none", Finish(a, status, rep), stored' = stored,
             status = "done" => /\ rep.requested \ rep.missing \subseteq stored
                                /\ rep.complete => rep.missing \subseteq Orphaned \cup Unparseable
      PROVE  BackfillInv'
  <2>1. job[a] = "running"
    BY <1>t, <1>4 DEF TableTrue
  <2>2. /\ job' = [job EXCEPT ![a] = status] /\ report' = [report EXCEPT ![a] = rep]
        /\ scan' = [scan EXCEPT ![a] = NoScan]
    BY <1>t, <1>4, <2>1 DEF Finish, BackfillTypes
  <2>3. NoScan \in ScanRecord /\ NoScan.at = "none"
    BY DEF NoScan, ScanRecord, Scanning
  <2>4. BackfillTypes'
    BY <1>t, <1>4, <2>2, <2>3 DEF BackfillTypes
  <2>5. TableTrue'
    BY <1>t, <2>1, <2>2, <2>3, <2>4, TableKept DEF BackfillTypes
  <2>6. WalkTrue'
    BY <1>t, <1>4, <2>2, <2>3 DEF WalkTrue, BackfillTypes
  <2>7. ReportTrue'
    BY <1>t, <1>4, <2>2 DEF ReportTrue, BackfillTypes
  <2>. QED BY <2>4, <2>5, <2>6, <2>7 DEF BackfillInv
<1>5. ASSUME NEW a \in Address, BackfillFails(a) PROVE BackfillInv'
  BY <1>4, <1>5 DEF BackfillFails, NoReport, ReportRecord
<1>6. ASSUME NEW a \in Address, AskKupo(a) PROVE BackfillInv'
  <2>1. scan[a].at = "kupo" /\ stored' = stored
    BY <1>6 DEF AskKupo
  <2>2. PICK needed \in SUBSET (1..Slots), caveat \in BOOLEAN, anchored \in BOOLEAN :
          IF needed = {}
          THEN Finish(a, "done", [complete |-> TRUE, requested |-> {}, missing |-> {}])
          ELSE /\ LET from == IF anchored THEN Earliest(needed) - 1 ELSE Earliest(needed) IN
                    scan' = [scan EXCEPT ![a] =
                      [at |-> "scan", needed |-> needed, seen |-> {}, anchor |-> from,
                       head |-> from, drops |-> 0, degraded |-> caveat \/ ~anchored]]
               /\ UNCHANGED <<job, report>>
    BY <1>6 DEF AskKupo
  <2>3. CASE needed = {}
    BY <1>4, <2>1, <2>2, <2>3 DEF ReportRecord
  <2>4. CASE needed # {}
    <3>. DEFINE from == IF anchored THEN Earliest(needed) - 1 ELSE Earliest(needed)
                s == [at |-> "scan", needed |-> needed, seen |-> {}, anchor |-> from,
                      head |-> from, drops |-> 0, degraded |-> caveat \/ ~anchored]
    <3>1. Earliest(needed) \in needed /\ \A k \in needed : Earliest(needed) <= k
      BY <2>4, TargetEnds
    <3>2. from \in Nat /\ (anchored => \A n \in needed : from < n)
      <4>. DEFINE e == Earliest(needed)
      <4>1. e \in Nat /\ e >= 1 /\ \A n \in needed : n \in Nat /\ e <= n
        <5>1. \A n \in needed : n \in Nat /\ n >= 1
          BY <1>0
        <5>. HIDE DEF from
        <5>. QED BY <3>1, <5>1
      <4>. HIDE DEF e
      <4>2. from = (IF anchored THEN e - 1 ELSE e)
        BY DEF e
      <4>. HIDE DEF from
      <4>3. from \in Nat /\ (anchored => from < e)
        BY <4>1, <4>2
      <4>. QED BY <4>1, <4>3
    <3>3. scan' = [scan EXCEPT ![a] = s] /\ UNCHANGED <<job, report>>
      BY <2>2, <2>4
    <3>. HIDE DEF from
    <3>4. s \in ScanRecord
      BY <3>2 DEF ScanRecord, Scanning
    <3>5. BackfillTypes'
      BY <1>t, <3>3, <3>4 DEF BackfillTypes
    <3>6. job[a] = "running" /\ s.at # "none"
      BY <1>t, <2>1 DEF TableTrue
    <3>7. TableTrue'
      BY <1>t, <3>3, <3>5, <3>6, TableKept DEF BackfillTypes
    <3>8. ASSUME NEW n \in needed, ~s.degraded PROVE from < n /\ ~(n <= from)
      <4>1. from < n
        BY <3>2, <3>8
      <4>. QED BY <1>0, <3>2, <4>1
    <3>9. WalkTrue'
      BY <1>t, <2>1, <2>4, <3>3, <3>8 DEF WalkTrue, BackfillTypes
    <3>10. ReportTrue'
      BY <1>t, <2>1, <3>3 DEF ReportTrue
    <3>. QED BY <3>5, <3>7, <3>9, <3>10 DEF BackfillInv
  <2>. QED BY <2>3, <2>4
<1>7. ASSUME NEW a \in Address, NextBlock(a) PROVE BackfillInv'
  <2>. DEFINE s == scan[a]
              new == Ingested(s) \ s.seen
  <2>1. /\ s.at = "scan" /\ UNCHANGED <<job, report>> /\ stored' = stored \cup (new \ Unparseable)
        /\ scan' = [scan EXCEPT ![a].head = s.head + 1, ![a].seen = s.seen \cup new]
    BY <1>7 DEF NextBlock
  <2>2. new \subseteq s.needed /\ new \cap Unparseable = {} /\ s \in ScanRecord
    BY <1>t DEF Ingested, BackfillTypes
  <2>3. /\ scan'[a].head = s.head + 1 /\ scan'[a].seen = s.seen \cup new /\ scan'[a].needed = s.needed
        /\ scan'[a].at = "scan" /\ scan'[a].anchor = s.anchor /\ scan'[a].degraded = s.degraded
        /\ \A b \in Address \ {a} : scan'[b] = scan[b]
    BY <1>t, <2>1, <2>2 DEF BackfillTypes, ScanRecord
  <2>4. scan' \in [Address -> ScanRecord]
    <3>. DEFINE z == [s EXCEPT !.head = s.head + 1, !.seen = s.seen \cup new]
    <3>1. s.head + 1 \in Nat /\ s.seen \cup new \in SUBSET (1..Slots)
      BY <2>2 DEF ScanRecord
    <3>2. z \in ScanRecord
      <4>. HIDE DEF s, new
      <4>. QED BY <2>2, <3>1 DEF ScanRecord
    <3>3. scan' = [scan EXCEPT ![a] = z]
      BY <1>t, <2>1, <2>2 DEF BackfillTypes, ScanRecord
    <3>. HIDE DEF z
    <3>. QED BY <1>t, <3>2, <3>3 DEF BackfillTypes
  <2>5. BackfillTypes'
    BY <1>t, <2>1, <2>4 DEF BackfillTypes
  <2>6. TableTrue'
    <3>1. job[a] = "running"
      BY <1>t, <2>1 DEF TableTrue
    <3>. QED BY <1>t, <2>1, <2>3, <2>4, <3>1, TableKept
  <2>7. ASSUME NEW n \in s.needed, ~s.degraded, n <= s.head + 1
        PROVE  n \in s.seen \cup new \cup Orphaned \cup Unparseable
    <3>1. CASE n = s.head + 1
      BY <2>7, <3>1 DEF Ingested
    <3>2. CASE n # s.head + 1
      <4>1. n <= s.head
        BY <1>0, <2>2, <2>7, <3>2 DEF ScanRecord
      <4>. QED BY <1>t, <2>1, <2>7, <4>1 DEF WalkTrue
    <3>. QED BY <3>1, <3>2
  <2>8. s.seen \cup new \subseteq stored' /\ stored \subseteq stored'
    BY <1>t, <2>1, <2>2 DEF WalkTrue
  <2>9. WalkTrue'
    <3>. HIDE DEF new
    <3>1. ASSUME NEW b \in Address \ {a}, scan'[b].at = "scan"
          PROVE /\ scan'[b].needed # {} /\ scan'[b].seen \subseteq stored'
                /\ ~scan'[b].degraded =>
                     /\ \A n \in scan'[b].needed : scan'[b].anchor < n
                     /\ \A n \in scan'[b].needed : n <= scan'[b].head => n \in scan'[b].seen \cup Orphaned \cup Unparseable
      BY <1>t, <2>3, <2>8, <3>1 DEF WalkTrue
    <3>2. /\ scan'[a].needed # {} /\ scan'[a].seen \subseteq stored'
          /\ ~scan'[a].degraded =>
               /\ \A n \in scan'[a].needed : scan'[a].anchor < n
               /\ \A n \in scan'[a].needed : n <= scan'[a].head => n \in scan'[a].seen \cup Orphaned \cup Unparseable
      BY <1>t, <2>1, <2>3, <2>7, <2>8 DEF WalkTrue
    <3>. QED BY <3>1, <3>2 DEF WalkTrue
  <2>10. ReportTrue'
    BY <1>t, <2>1, <2>8 DEF ReportTrue
  <2>. QED BY <2>5, <2>6, <2>9, <2>10 DEF BackfillInv
<1>8. ASSUME NEW a \in Address, Dropped(a) PROVE BackfillInv'
  <2>. DEFINE s == scan[a]
  <2>1. /\ s.at = "scan" /\ UNCHANGED <<job, report, stored>>
        /\ scan' = [scan EXCEPT ![a].drops = @ + 1, ![a].head = s.anchor]
    BY <1>8 DEF Dropped
  <2>2. s \in ScanRecord
    BY <1>t DEF BackfillTypes
  <2>3. /\ scan'[a].head = s.anchor /\ scan'[a].seen = s.seen /\ scan'[a].needed = s.needed
        /\ scan'[a].at = "scan" /\ scan'[a].anchor = s.anchor /\ scan'[a].degraded = s.degraded
        /\ \A b \in Address \ {a} : scan'[b] = scan[b]
    BY <1>t, <2>1, <2>2 DEF BackfillTypes, ScanRecord
  <2>4. scan' \in [Address -> ScanRecord]
    <3>. DEFINE z == [s EXCEPT !.drops = @ + 1, !.head = s.anchor]
    <3>1. s.drops + 1 \in Nat /\ s.anchor \in Nat
      BY <2>2 DEF ScanRecord
    <3>2. z \in ScanRecord
      <4>. HIDE DEF s
      <4>. QED BY <2>2, <3>1 DEF ScanRecord
    <3>3. scan' = [scan EXCEPT ![a] = z]
      BY <1>t, <2>1, <2>2 DEF BackfillTypes, ScanRecord
    <3>. HIDE DEF z
    <3>. QED BY <1>t, <3>2, <3>3 DEF BackfillTypes
  <2>5. BackfillTypes'
    BY <1>t, <2>1, <2>4 DEF BackfillTypes
  <2>6. TableTrue'
    <3>1. job[a] = "running"
      BY <1>t, <2>1 DEF TableTrue
    <3>. QED BY <1>t, <2>1, <2>3, <2>4, <3>1, TableKept
  <2>7. ASSUME NEW n \in s.needed, s.anchor < n PROVE ~(n <= s.anchor)
    BY <1>0, <2>2, <2>7 DEF ScanRecord
  <2>8. WalkTrue'
    BY <1>t, <2>1, <2>3, <2>7, ZenonT(60) DEF WalkTrue
  <2>9. ReportTrue'
    BY <1>t, <2>1 DEF ReportTrue
  <2>. QED BY <2>5, <2>6, <2>8, <2>9 DEF BackfillInv
<1>9. ASSUME NEW a \in Address, BackfillDone(a) PROVE BackfillInv'
  <2>. DEFINE s == scan[a]
              rep == [complete |-> ~s.degraded, requested |-> s.needed, missing |-> s.needed \ s.seen]
  <2>1. s.at = "scan" /\ WalkOver(s) /\ Finish(a, "done", rep) /\ stored' = stored
    BY <1>9 DEF BackfillDone
  <2>2. s \in ScanRecord
    BY <1>t DEF BackfillTypes
  <2>3. rep \in ReportRecord
    BY <2>2 DEF ReportRecord, ScanRecord
  <2>4. s.needed \ (s.needed \ s.seen) \subseteq stored
    BY <1>t, <2>1 DEF WalkTrue
  <2>5. ASSUME ~s.degraded, NEW n \in s.needed \ s.seen PROVE n \in Orphaned \cup Unparseable
    <3>1. s.head > Latest(s.needed)
      BY <2>1, <2>5 DEF WalkOver
    <3>2. s.needed \in SUBSET (1..Slots) /\ s.needed # {} /\ s.head \in Nat
      BY <1>t, <2>1, <2>2 DEF WalkTrue, ScanRecord
    <3>3. Latest(s.needed) \in s.needed /\ n <= Latest(s.needed)
      BY <3>2, TargetEnds
    <3>4. n <= s.head
      BY <1>0, <3>1, <3>2, <3>3
    <3>. QED BY <1>t, <2>1, <2>5, <3>4 DEF WalkTrue
  <2>6. /\ rep.requested \ rep.missing \subseteq stored
        /\ rep.complete => rep.missing \subseteq Orphaned \cup Unparseable
    BY <2>4, <2>5
  <2>. HIDE DEF rep
  <2>. QED BY <1>4, <2>1, <2>3, <2>6
<1>. QED
  <2>1. CASE BackfillNext
    BY <2>1, <1>1, <1>2, <1>3, <1>5, <1>6, <1>7, <1>8, <1>9 DEF BackfillNext, ScanStep
  <2>. QED BY <2>1, <1>u

\* The empty job table is sound.
LEMMA BackfillInitially == ASSUME NEW on \in BOOLEAN, BackfillInit(on) PROVE BackfillInv
<1>1. BackfillTypes
  BY DEF BackfillInit, BackfillTypes, NoScan, NoReport, ScanRecord, ReportRecord, Scanning
<1>2. JobsRunning = {}
  BY DEF BackfillInit, JobsRunning
<1>3. IsFiniteSet(JobsRunning) /\ Cardinality(JobsRunning) = 0 /\ MaxConcurrent \in Nat
  BY <1>2, FS_EmptySet, BackfillAssumption
<1>4. TableTrue
  BY <1>3 DEF BackfillInit, TableTrue, NoScan
<1>5. WalkTrue /\ ReportTrue
  BY DEF BackfillInit, WalkTrue, ReportTrue, NoScan
<1>. QED BY <1>1, <1>4, <1>5 DEF BackfillInv

\* The job table's invariant bounds the scans.
LEMMA BackfillInvSound == BackfillInv => ScansBounded /\ ReportTrue
<1>. SUFFICES ASSUME BackfillInv PROVE ScansBounded /\ ReportTrue
  OBVIOUS
<1>1. {a \in Address : scan[a].at # "none"} = JobsRunning
  BY DEF BackfillInv, TableTrue, JobsRunning
<1>. QED BY <1>1 DEF BackfillInv, TableTrue, ScansBounded

-----------------------------------------------------------------------------
(* The Kupo history keeps its invariant                                    *)

\* The ceiling of the count, by where the attempt is.
LEMMA ScansAllowed ==
  ASSUME KupoTypes, ScansCounted
  PROVE  scans <= unmarked + MaxTriggers
<1>1. kupoMarker.attempts \in Nat /\ kupoStep.attempts \in Nat /\ scans \in Nat /\ unmarked \in Nat /\ MaxTriggers \in Nat
      /\ kupoStep.at \in {"off", "idle", "ask", "trigger", "accepted", "refused"}
  BY KupoAssumption DEF KupoTypes
<1>. QED BY <1>1 DEF ScansCounted

\* Attempts, answers, triggers, restarts, other people's jobs and raised caps keep the
\* count of the host's scans and the sidecar's knowledge of its own.
LEMMA KupoInductive == KupoInv /\ [KupoNext]_kupoVars => KupoInv'
<1>. SUFFICES ASSUME KupoInv, [KupoNext]_kupoVars PROVE KupoInv'
  OBVIOUS
<1>0. MaxTriggers \in Nat
  BY KupoAssumption
<1>. USE DEF followVars, ghostVars, boundVars, kupoVars
<1>t. /\ kupoMarker \in [set : BOOLEAN, done : BOOLEAN, seen : Nat, attempts : Nat,
                         flag : {"unset", "no_job", "gave_up"}]
      /\ kupoCap \in Nat
      /\ kupoStep \in [at : {"off", "idle", "ask", "trigger", "accepted", "refused"}, attempts : Nat]
      /\ hostJob \in [state : {"none", "running", "done", "failed"}, ours : BOOLEAN, bounded : BOOLEAN,
                      complete : BOOLEAN]
      /\ scans \in Nat /\ landed \in BOOLEAN /\ lent \in BOOLEAN /\ unmarked \in Nat
  BY DEF KupoInv, KupoTypes
<1>c. ScansCounted /\ FollowsOwnJob /\ OwnScanAdopted
  BY DEF KupoInv
<1>f. /\ kupoMarker.attempts \in Nat /\ kupoStep.attempts \in Nat /\ kupoMarker.seen \in Nat
      /\ kupoStep.at \in {"off", "idle", "ask", "trigger", "accepted", "refused"}
      /\ \A p : LET z == [kupoStep EXCEPT !.at = p] IN z.at = p /\ z.attempts = kupoStep.attempts
  BY <1>t
<1>k. /\ kupoMarker.attempts <= MaxTriggers /\ kupoStep.attempts <= kupoMarker.attempts
      /\ kupoStep.at = "ask" => kupoStep.attempts = kupoMarker.attempts
      /\ kupoStep.at \in {"trigger", "accepted", "refused"} => kupoStep.attempts < MaxTriggers
      /\ kupoStep.at = "trigger" => scans <= unmarked + kupoStep.attempts
      /\ kupoStep.at \in {"accepted", "refused"} => scans <= unmarked + kupoStep.attempts + 1
      /\ kupoStep.at \in {"off", "idle", "ask"} => scans <= unmarked + kupoMarker.attempts
  BY <1>c DEF ScansCounted
<1>h. \A s \in {"none", "running"}, o, b \in BOOLEAN :
        [state |-> s, ours |-> o, bounded |-> b, complete |-> FALSE]
          \in [state : {"none", "running", "done", "failed"}, ours : BOOLEAN, bounded : BOOLEAN, complete : BOOLEAN]
  OBVIOUS
<1>1. CASE BeginAttempt
  <2>1. kupoStep.at = "idle" /\ ~(kupoMarker.done /\ kupoMarker.seen >= kupoCap) /\ UNCHANGED <<kupoCap, hostJob>>
    BY <1>1 DEF BeginAttempt
  <2>2. Attempts \in Nat /\ Attempts <= kupoMarker.attempts /\ (Reopened => Attempts = 0)
        /\ (~Reopened => Attempts = kupoMarker.attempts)
    BY <1>t DEF Attempts
  <2>3. scans' \in Nat /\ landed' \in BOOLEAN /\ lent' \in BOOLEAN /\ unmarked' \in Nat /\ scans' <= unmarked' + Attempts
    <3>1. CASE Reopened
      <4>1. scans' = 0 /\ landed' = FALSE /\ lent' = FALSE /\ unmarked' = 0
        BY <1>1, <3>1 DEF BeginAttempt
      <4>2. landed' \in BOOLEAN /\ lent' \in BOOLEAN
        BY <4>1, Zenon
      <4>3. scans' \in Nat /\ unmarked' \in Nat /\ scans' <= unmarked' + Attempts
        BY <2>2, <4>1
      <4>. QED BY <4>2, <4>3
    <3>2. CASE ~Reopened
      BY <1>1, <1>t, <1>c, <2>1, <2>2, <3>2 DEF BeginAttempt, ScansCounted
    <3>. QED BY <3>1, <3>2
  <2>4. Reopened => kupoMarker.done
    BY DEF Reopened
  <2>5. CASE MustAsk
    <3>1. kupoStep' = [at |-> "ask", attempts |-> Attempts] /\ kupoMarker' = kupoMarker
          /\ ~Reopened /\ UNCHANGED <<landed, lent>>
      BY <1>1, <2>4, <2>5 DEF BeginAttempt, MustAsk
    <3>2. KupoTypes' /\ ScansCounted'
      <4>1. KupoTypes'
        BY <1>t, <1>c, <2>1, <2>2, <2>3, <3>1 DEF KupoTypes
      <4>2. ScansCounted'
        BY <1>f, <1>k, <1>t, <1>c, <2>1, <2>2, <2>3, <3>1 DEF ScansCounted
      <4>. QED BY <4>1, <4>2
    <3>3. FollowsOwnJob' /\ OwnScanAdopted'
      BY <1>c, <2>1, <2>5, <3>1 DEF FollowsOwnJob, OwnScanAdopted, MustAsk, Following, Adoptable
    <3>. QED BY <3>2, <3>3 DEF KupoInv
  <2>6. CASE ~MustAsk /\ Attempts >= MaxTriggers
    <3>1. kupoMarker' = [set |-> TRUE, done |-> TRUE, seen |-> kupoCap, attempts |-> Attempts,
                         flag |-> "gave_up"] /\ kupoStep' = kupoStep
      BY <1>1, <2>6 DEF BeginAttempt, Mark
    <3>2. KupoTypes' /\ kupoStep.attempts <= Attempts
      BY <1>0, <1>t, <1>c, <2>1, <2>2, <2>3, <2>6, <3>1 DEF KupoTypes, ScansCounted
    <3>3. ScansCounted'
      BY <1>f, <1>k, <1>0, <1>t, <1>c, <2>1, <2>2, <2>3, <3>1, <3>2 DEF ScansCounted
    <3>4. FollowsOwnJob' /\ OwnScanAdopted'
      BY <2>1, <3>1 DEF FollowsOwnJob, OwnScanAdopted, MustAsk, Following
    <3>. QED BY <3>2, <3>3, <3>4 DEF KupoInv
  <2>7. CASE ~MustAsk /\ ~(Attempts >= MaxTriggers)
    <3>1. kupoStep' = [at |-> "trigger", attempts |-> Attempts] /\ kupoMarker' = kupoMarker
      BY <1>1, <2>7 DEF BeginAttempt
    <3>2. KupoTypes' /\ ScansCounted'
      <4>1. KupoTypes'
        BY <1>0, <1>t, <1>c, <2>1, <2>2, <2>3, <2>7, <3>1 DEF KupoTypes
      <4>2. ScansCounted'
        BY <1>f, <1>k, <1>0, <1>t, <1>c, <2>1, <2>2, <2>3, <2>7, <3>1 DEF ScansCounted
      <4>. QED BY <4>1, <4>2
    <3>3. FollowsOwnJob' /\ OwnScanAdopted'
      BY <2>1, <2>7, <3>1 DEF FollowsOwnJob, OwnScanAdopted, MustAsk, Following
    <3>. QED BY <3>2, <3>3 DEF KupoInv
  <2>. QED BY <2>5, <2>6, <2>7
<1>2. CASE NoAnswer \/ Deferred \/ Conflict
  <2>1. kupoStep.at \in {"ask", "trigger"} /\ kupoStep' = [at |-> "idle", attempts |-> 0]
        /\ UNCHANGED <<kupoMarker, kupoCap, hostJob, scans, landed, lent, unmarked>>
    BY <1>2 DEF NoAnswer, Deferred, Conflict, Rest
  <2>2. KupoTypes' /\ ScansCounted'
    <3>1. KupoTypes'
      BY <1>0, <1>t, <1>c, <2>1 DEF KupoTypes
    <3>2. ScansCounted'
      BY <1>f, <1>k, <1>0, <1>t, <1>c, <2>1 DEF ScansCounted
    <3>. QED BY <3>1, <3>2
  <2>3. FollowsOwnJob' /\ OwnScanAdopted'
    BY <1>c, <2>1 DEF FollowsOwnJob, OwnScanAdopted, MustAsk, Following, Adoptable
  <2>. QED BY <2>2, <2>3 DEF KupoInv
<1>3. CASE Answered
  <2>1. kupoStep.at = "ask" /\ UNCHANGED <<kupoCap, hostJob, scans, landed, lent, unmarked>> /\ MustAsk
    BY <1>3, <1>c DEF Answered, FollowsOwnJob
  <2>2. CASE Adoptable
    <3>1. /\ kupoMarker' = [set |-> TRUE, done |-> TRUE, seen |-> kupoCap, attempts |-> kupoMarker.attempts,
                            flag |-> "unset"]
          /\ kupoStep' = [at |-> "idle", attempts |-> 0]
      BY <1>3, <2>2 DEF Answered, Mark, Rest
    <3>2. KupoTypes' /\ ScansCounted'
      <4>1. KupoTypes'
        BY <1>0, <1>t, <1>c, <2>1, <3>1 DEF KupoTypes
      <4>2. ScansCounted'
        BY <1>f, <1>k, <1>0, <1>t, <1>c, <2>1, <3>1 DEF ScansCounted
      <4>. QED BY <4>1, <4>2
    <3>3. landed \/ lent
      BY <1>c, <2>1, <2>2 DEF FollowsOwnJob, Following
    <3>4. FollowsOwnJob' /\ OwnScanAdopted'
      BY <2>1, <3>1, <3>3 DEF FollowsOwnJob, OwnScanAdopted, MustAsk, Following
    <3>. QED BY <3>2, <3>4 DEF KupoInv
  <2>3. CASE ~Adoptable /\ kupoStep.attempts >= MaxTriggers
    <3>1. /\ kupoMarker' = [set |-> TRUE, done |-> TRUE, seen |-> kupoCap, attempts |-> kupoStep.attempts,
                            flag |-> "gave_up"]
          /\ kupoStep' = [at |-> "idle", attempts |-> 0]
      BY <1>3, <2>3 DEF Answered, Mark, Rest
    <3>2. KupoTypes' /\ ScansCounted'
      <4>1. KupoTypes'
        BY <1>0, <1>t, <1>c, <2>1, <3>1 DEF KupoTypes
      <4>2. ScansCounted'
        BY <1>f, <1>k, <1>0, <1>t, <1>c, <2>1, <3>1 DEF ScansCounted
      <4>. QED BY <4>1, <4>2
    <3>3. FollowsOwnJob' /\ OwnScanAdopted'
      BY <2>1, <3>1 DEF FollowsOwnJob, OwnScanAdopted, MustAsk, Following
    <3>. QED BY <3>2, <3>3 DEF KupoInv
  <2>4. CASE ~Adoptable /\ ~(kupoStep.attempts >= MaxTriggers)
    <3>1. kupoStep' = [kupoStep EXCEPT !.at = "trigger"] /\ kupoMarker' = kupoMarker
      BY <1>3, <2>4 DEF Answered
    <3>2. KupoTypes' /\ ScansCounted'
      <4>1. KupoTypes'
        BY <1>0, <1>t, <1>c, <2>1, <2>4, <3>1 DEF KupoTypes
      <4>2. ScansCounted'
        BY <1>f, <1>k, <1>0, <1>t, <1>c, <2>1, <2>4, <3>1 DEF ScansCounted
      <4>. QED BY <4>1, <4>2
    <3>3. FollowsOwnJob' /\ OwnScanAdopted'
      BY <1>c, <1>t, <2>1, <3>1 DEF FollowsOwnJob, OwnScanAdopted, MustAsk, Following, Adoptable
    <3>. QED BY <3>2, <3>3 DEF KupoInv
  <2>. QED BY <2>2, <2>3, <2>4
<1>4. CASE HostAccepts \/ Refused
  <2>1. /\ kupoStep.at = "trigger" /\ UNCHANGED <<kupoMarker, kupoCap, landed, lent, unmarked>>
        /\ \/ kupoStep' = [kupoStep EXCEPT !.at = "refused"] /\ UNCHANGED <<hostJob, scans>>
           \/ /\ kupoStep' = [kupoStep EXCEPT !.at = "accepted"] \/ kupoStep' = [kupoStep EXCEPT !.at = "refused"]
              /\ hostJob' = [state |-> "running", ours |-> TRUE, bounded |-> TRUE, complete |-> FALSE]
              /\ scans' = scans + 1
    BY <1>4 DEF HostAccepts, Refused, StartHostJob
  <2>2. KupoTypes'
    <3>1. kupoStep' \in [at : {"off", "idle", "ask", "trigger", "accepted", "refused"}, attempts : Nat]
      BY <1>t, <2>1
    <3>2. hostJob' \in [state : {"none", "running", "done", "failed"}, ours : BOOLEAN, bounded : BOOLEAN, complete : BOOLEAN]
      <4>1. \/ hostJob' = hostJob
            \/ hostJob' = [state |-> "running", ours |-> TRUE, bounded |-> TRUE, complete |-> FALSE]
        BY <2>1
      <4>. QED BY <1>t, <1>h, <4>1
    <3>3. scans' \in Nat
      BY <1>t, <2>1
    <3>. QED BY <1>t, <2>1, <3>1, <3>2, <3>3 DEF KupoTypes
  <2>3. ScansCounted'
    BY <1>f, <1>k, <1>0, <1>t, <1>c, <2>1 DEF ScansCounted
  <2>4. FollowsOwnJob' /\ OwnScanAdopted'
    BY <1>t, <1>c, <2>1 DEF FollowsOwnJob, OwnScanAdopted, MustAsk, Following, Adoptable
  <2>. QED BY <2>2, <2>3, <2>4 DEF KupoInv
<1>5. CASE MarkTrigger
  <2>1. /\ kupoStep.at \in {"accepted", "refused"} /\ kupoStep' = [at |-> "idle", attempts |-> 0]
        /\ kupoMarker' = [set |-> TRUE, done |-> FALSE, seen |-> 0, attempts |-> kupoStep.attempts + 1,
                          flag |-> IF kupoStep.at = "refused" THEN "no_job" ELSE "unset"]
        /\ UNCHANGED <<kupoCap, hostJob, scans, landed, lent, unmarked>>
    BY <1>5 DEF MarkTrigger, Mark, Rest
  <2>2. KupoTypes'
    BY <1>t, <2>1 DEF KupoTypes
  <2>3. ScansCounted'
    BY <1>f, <1>k, <1>0, <1>t, <1>c, <2>1 DEF ScansCounted
  <2>4. FollowsOwnJob' /\ OwnScanAdopted'
    BY <1>c, <2>1 DEF FollowsOwnJob, OwnScanAdopted, MustAsk, Following, Adoptable
  <2>. QED BY <2>2, <2>3, <2>4 DEF KupoInv
<1>6. CASE HostJobEnds
  <2>1. PICK s \in {"done", "failed"}, c \in BOOLEAN :
          /\ hostJob' = [hostJob EXCEPT !.state = s, !.complete = c]
          /\ landed' = (landed \/ (c /\ hostJob.ours))
          /\ lent' = (lent \/ (c /\ hostJob.bounded /\ ~hostJob.ours /\ Following))
    BY <1>6 DEF HostJobEnds
  <2>2. UNCHANGED <<kupoMarker, kupoCap, kupoStep, scans, unmarked>>
    BY <1>6 DEF HostJobEnds
  <2>3. landed' \in BOOLEAN /\ lent' \in BOOLEAN /\ (landed \/ lent => landed' \/ lent')
        /\ (c /\ hostJob.bounded /\ Following => landed' \/ lent')
    BY <2>1, Zenon
  <2>4. KupoTypes'
    BY <1>t, <2>1, <2>2, <2>3 DEF KupoTypes
  <2>5. ScansCounted'
    BY <1>f, <1>k, <1>c, <2>2 DEF ScansCounted
  <2>6. Following' /\ Adoptable' => landed' \/ lent'
    <3>1. Following' <=> Following
      BY <2>2 DEF Following, MustAsk
    <3>. QED BY <1>t, <2>1, <2>3, <3>1 DEF Adoptable
  <2>7. FollowsOwnJob' /\ OwnScanAdopted'
    BY <1>c, <2>2, <2>3, <2>6 DEF FollowsOwnJob, OwnScanAdopted, MustAsk, Following
  <2>. QED BY <2>4, <2>5, <2>7 DEF KupoInv
<1>7. CASE ForeignJob \/ HostRestarts
  <2>1. UNCHANGED <<kupoMarker, kupoCap, kupoStep, scans, landed, lent, unmarked>>
        /\ \/ hostJob' = NoJob
           \/ \E bounded \in BOOLEAN :
                hostJob' = [state |-> "running", ours |-> FALSE, bounded |-> bounded, complete |-> FALSE]
    BY <1>7 DEF ForeignJob, HostRestarts
  <2>2. KupoTypes' /\ ScansCounted'
    <3>1. KupoTypes'
      <4>1. hostJob' \in [state : {"none", "running", "done", "failed"}, ours : BOOLEAN, bounded : BOOLEAN, complete : BOOLEAN]
        BY <1>h, <2>1 DEF NoJob
      <4>. QED BY <1>t, <2>1, <4>1 DEF KupoTypes
    <3>2. ScansCounted'
      BY <1>f, <1>k, <1>t, <1>c, <2>1 DEF ScansCounted
    <3>. QED BY <3>1, <3>2
  <2>3. ~Adoptable'
    BY <2>1 DEF Adoptable, NoJob
  <2>4. FollowsOwnJob' /\ OwnScanAdopted'
    BY <1>c, <2>1, <2>3 DEF FollowsOwnJob, OwnScanAdopted, MustAsk, Following
  <2>. QED BY <2>2, <2>4 DEF KupoInv
<1>8. CASE SidecarRestarts
  <2>1. /\ kupoStep.at # "idle" /\ kupoStep' = [at |-> "idle", attempts |-> 0]
        /\ unmarked' = IF kupoStep.at \in {"accepted", "refused"} THEN unmarked + 1 ELSE unmarked
        /\ UNCHANGED <<kupoMarker, kupoCap, hostJob, scans, landed, lent>>
    BY <1>8 DEF SidecarRestarts, Rest
  <2>2. KupoTypes'
    BY <1>t, <2>1 DEF KupoTypes
  <2>3. ScansCounted'
    BY <1>f, <1>k, <1>0, <1>t, <1>c, <2>1 DEF ScansCounted
  <2>4. FollowsOwnJob' /\ OwnScanAdopted'
    BY <1>c, <2>1 DEF FollowsOwnJob, OwnScanAdopted, MustAsk, Following, Adoptable
  <2>. QED BY <2>2, <2>3, <2>4 DEF KupoInv
<1>9. CASE RaiseKupoCap
  <2>1. kupoStep.at = "idle" /\ kupoCap' = kupoCap + 1
        /\ UNCHANGED <<kupoMarker, kupoStep, hostJob, scans, landed, lent, unmarked>>
    BY <1>9 DEF RaiseKupoCap
  <2>2. KupoTypes' /\ ScansCounted'
    <3>1. KupoTypes'
      BY <1>t, <1>c, <2>1 DEF KupoTypes
    <3>2. ScansCounted'
      BY <1>f, <1>k, <1>t, <1>c, <2>1 DEF ScansCounted
    <3>. QED BY <3>1, <3>2
  <2>3. kupoMarker.seen >= kupoCap' => kupoMarker.seen >= kupoCap
    BY <1>t, <2>1
  <2>4. FollowsOwnJob' /\ OwnScanAdopted'
    BY <1>c, <2>1, <2>3 DEF FollowsOwnJob, OwnScanAdopted, MustAsk, Following, Adoptable
  <2>. QED BY <2>2, <2>4 DEF KupoInv
<1>10. CASE UNCHANGED kupoVars
  BY <1>10 DEF KupoInv, KupoTypes, ScansCounted, FollowsOwnJob, OwnScanAdopted, MustAsk, Following, Adoptable
<1>. QED BY <1>1, <1>2, <1>3, <1>4, <1>5, <1>6, <1>7, <1>8, <1>9, <1>10 DEF KupoNext, KupoTick, KupoRefit

\* A history that was never asked for is sound.
LEMMA KupoInitially == ASSUME NEW on \in BOOLEAN, KupoInit(on) PROVE KupoInv
<1>1. MaxTriggers \in Nat /\ MaxCap \in Nat
  BY KupoAssumption
<1>2. KupoTypes
  BY <1>1 DEF KupoInit, KupoTypes, NeverMarked, NoJob
<1>3. ScansCounted
  BY <1>1 DEF KupoInit, ScansCounted, NeverMarked
<1>4. FollowsOwnJob /\ OwnScanAdopted
  BY DEF KupoInit, FollowsOwnJob, OwnScanAdopted, MustAsk, Following, NeverMarked
<1>. QED BY <1>2, <1>3, <1>4 DEF KupoInv

\* What the runs check of the history follows.
LEMMA KupoInvSound == KupoInv => HostScansBounded /\ OwnScanAdopted
<1>. SUFFICES ASSUME KupoInv PROVE HostScansBounded /\ OwnScanAdopted
  OBVIOUS
<1>1. scans <= unmarked + MaxTriggers
  BY ScansAllowed DEF KupoInv
<1>2. scans \in Nat /\ unmarked \in Nat /\ MaxTriggers \in Nat
  BY KupoAssumption DEF KupoInv, KupoTypes
<1>. QED BY <1>1, <1>2 DEF KupoInv, HostScansBounded

-----------------------------------------------------------------------------
(* The poller keeps its invariant                                          *)

\* A finding carries one of the four bands (resolve, score_to_band).
LEMMA RanksAre == ASSUME NEW score PROVE RankOf(score) \in 1..4
BY DEF RankOf

\* Counting one more alert of a transaction at a band leaves the others.
LEMMA CountBumped ==
  ASSUME NEW f \in [Flaggable -> [1..4 -> Nat]], NEW tx, NEW r \in 1..4
  PROVE  LET g == [f EXCEPT ![tx][r] = @ + 1]
         IN  /\ g \in [Flaggable -> [1..4 -> Nat]]
             /\ \A t \in Flaggable, q \in 1..4 :
                  g[t][q] = IF tx = t /\ r = q THEN f[t][q] + 1 ELSE f[t][q]
<1>1. CASE tx \in Flaggable
  <2>. DEFINE row == [f[tx] EXCEPT ![r] = @ + 1]
  <2>1. f[tx] \in [1..4 -> Nat]
    BY <1>1
  <2>2. row \in [1..4 -> Nat] /\ \A q \in 1..4 : row[q] = IF r = q THEN f[tx][q] + 1 ELSE f[tx][q]
    BY <2>1
  <2>3. [f EXCEPT ![tx][r] = @ + 1] = [f EXCEPT ![tx] = row]
    OBVIOUS
  <2>. HIDE DEF row
  <2>. QED BY <1>1, <2>2, <2>3
<1>2. CASE tx \notin Flaggable
  <2>1. [f EXCEPT ![tx][r] = @ + 1] = f
    BY <1>2
  <2>. QED BY <1>2, <2>1
<1>. QED BY <1>1, <1>2

\* A tick that goes on to its next finding, or to its end, keeps the rest of the listing.
LEMMA PollMoves ==
  ASSUME PollerTypes, poll.left # <<>>, NEW p \in {"loop", "send", "claim"}, NEW n \in {0, 1}
  PROVE  LET kept == [poll EXCEPT !.at = p]
             next == [Drops(n) EXCEPT !.at = p]
         IN  /\ kept.at = p /\ kept.left = poll.left
             /\ next.at = p
             /\ \E S : kept \in PollRecord(S) /\ \A x \in S : x.rank \in 1..4
             /\ \E S : next \in PollRecord(S) /\ \A x \in S : x.rank \in 1..4
             /\ Head(poll.left).rank \in 1..4
<1>1. PICK S : poll \in PollRecord(S) /\ \A x \in S : x.rank \in 1..4
  BY DEF PollerTypes
<1>2. poll.left \in Seq(S) /\ poll.left # <<>> /\ poll.tried \in Nat
  BY <1>1 DEF PollRecord
<1>3. Head(poll.left) \in S /\ Tail(poll.left) \in Seq(S)
  BY <1>2, HeadTailProperties
<1>4. poll.tried + n \in Nat
  BY <1>2
<1>5. [poll EXCEPT !.at = p] \in PollRecord(S)
  BY <1>1 DEF PollRecord
<1>6. [Drops(n) EXCEPT !.at = p] \in PollRecord(S)
  BY <1>1, <1>3, <1>4 DEF PollRecord, Drops
<1>7. /\ [poll EXCEPT !.at = p].at = p /\ [poll EXCEPT !.at = p].left = poll.left
      /\ [Drops(n) EXCEPT !.at = p].at = p
  BY <1>1 DEF PollRecord, Drops
<1>8. Head(poll.left).rank \in 1..4
  BY <1>1, <1>3
<1>. QED BY <1>1, <1>5, <1>6, <1>7, <1>8

\* Listing, sending, claiming, failing, stopping and publishing keep the count of what
\* was sent at a band.
LEMMA PollerInductive == PollerInv /\ [PollerNext]_pollerVars => PollerInv'
<1>. SUFFICES ASSUME PollerInv, [PollerNext]_pollerVars PROVE PollerInv'
  OBVIOUS
<1>t. PollerTypes /\ SentAreClaimed
  BY DEF PollerInv
<1>p. PICK S : poll \in PollRecord(S) /\ \A x \in S : x.rank \in 1..4
  BY <1>t DEF PollerTypes
<1>f. /\ poll.at \in {"off", "rest", "loop", "send", "claim"} /\ poll.left \in Seq(S) /\ poll.tried \in Nat
      /\ [poll EXCEPT !.at = poll.at] = poll /\ Drops(0) = [Drops(0) EXCEPT !.at = poll.at]
  BY <1>p DEF PollRecord, Drops
<1>a. \A tx \in Flaggable, r \in 1..4 :
        /\ anomalyClaim[tx] \in 0..4 /\ sentAt[tx][r] \in Nat /\ unguarded[tx][r] \in Nat
        /\ sentAt[tx][r] <= unguarded[tx][r] + 1
        /\ ~(anomalyClaim[tx] >= r) /\ poll.at # "claim" => sentAt[tx][r] <= unguarded[tx][r]
  <2>. TAKE tx \in Flaggable, r \in 1..4
  <2>1. anomalyClaim[tx] \in 0..4 /\ sentAt[tx][r] \in Nat /\ unguarded[tx][r] \in Nat
    BY <1>t DEF PollerTypes
  <2>2. sentAt[tx][r] <= unguarded[tx][r] +
         (IF \/ anomalyClaim[tx] >= r
             \/ poll.at = "claim" /\ Head(poll.left).tx = tx /\ Head(poll.left).rank = r
          THEN 1 ELSE 0)
    BY <1>t DEF SentAreClaimed
  <2>. QED BY <2>1, <2>2
<1>b. \A tx \in Flaggable, r \in 1..4 :
        ~(anomalyClaim[tx] >= r) /\ ~(Head(poll.left).tx = tx /\ Head(poll.left).rank = r)
          => sentAt[tx][r] <= unguarded[tx][r]
  BY <1>t, <1>a DEF SentAreClaimed
<1>q. ASSUME UNCHANGED <<anomalyClaim, sentAt, unguarded>>, poll.at \in {"rest", "loop"},
             \E T : poll' \in PollRecord(T) /\ \A x \in T : x.rank \in 1..4,
             poll'.at \in {"rest", "loop"}
      PROVE  PollerInv'
  <2>1. PollerTypes'
    BY <1>q, <1>t DEF PollerTypes, Sending
  <2>2. SentAreClaimed'
    BY <1>a, <1>q DEF SentAreClaimed, Sending
  <2>. QED BY <2>1, <2>2 DEF PollerInv
<1>r. Resting \in PollRecord({}) /\ Resting.at = "rest"
  BY EmptySeq DEF Resting, PollRecord
<1>1. CASE BeginPoll
  <2>. DEFINE n == Cardinality(FlaggedSet)
              left == [i \in 1..n |-> LET tx == NewestFirst(FlaggedSet)[i]
                                      IN [tx |-> tx, rank |-> Resolve(Flagged(tx))]]
              T == {left[i] : i \in 1..n}
  <2>1. n \in Nat
    <3>1. FlaggedSet \subseteq Flaggable /\ IsFiniteSet(Flaggable)
      BY PollerAssumption DEF FlaggedSet
    <3>. QED BY <3>1, FS_Subset, FS_CardinalityType
  <2>2. poll' = [at |-> "loop", tried |-> 0, left |-> left] /\ poll.at = "rest"
        /\ UNCHANGED <<anomalyClaim, sentAt, unguarded>>
    BY <1>1 DEF BeginPoll
  <2>3. \A x \in T : x.rank \in 1..4
    BY RanksAre DEF Resolve
  <2>4. left \in Seq(T)
    <3>1. left = [i \in 1..n |-> left[i]] /\ \A i \in 1..n : left[i] \in T
      OBVIOUS
    <3>. HIDE DEF n, left, T
    <3>. QED BY <2>1, <3>1
  <2>. HIDE DEF n, left, T
  <2>5. poll' \in PollRecord(T) /\ poll'.at = "loop"
    BY <2>2, <2>4 DEF PollRecord
  <2>. QED BY <1>q, <2>2, <2>3, <2>5
<1>2. CASE SkipFinding
  <2>1. /\ poll.at = "loop" /\ poll.left # <<>> /\ poll' = Drops(0)
        /\ UNCHANGED <<anomalyClaim, sentAt, unguarded>>
    BY <1>2 DEF SkipFinding
  <2>2. poll' = [Drops(0) EXCEPT !.at = "loop"]
    BY <1>f, <2>1
  <2>3. poll'.at = "loop" /\ \E T : poll' \in PollRecord(T) /\ \A x \in T : x.rank \in 1..4
    BY <1>t, <2>1, <2>2, PollMoves
  <2>. QED BY <1>q, <2>1, <2>3
<1>3. CASE BeginSend
  <2>1. /\ poll.at = "loop" /\ poll.left # <<>> /\ poll' = [poll EXCEPT !.at = "send"]
        /\ anomalyClaim[Head(poll.left).tx] < Head(poll.left).rank
        /\ UNCHANGED <<anomalyClaim, sentAt, unguarded>>
    BY <1>3 DEF BeginSend
  <2>2. poll'.at = "send" /\ poll'.left = poll.left
        /\ \E T : poll' \in PollRecord(T) /\ \A x \in T : x.rank \in 1..4
    BY <1>t, <2>1, PollMoves
  <2>3. PollerTypes'
    BY <1>t, <2>1, <2>2 DEF PollerTypes, Sending
  <2>4. SentAreClaimed'
    BY <1>a, <2>1, <2>2, SMTT(60) DEF SentAreClaimed, Sending
  <2>. QED BY <2>3, <2>4 DEF PollerInv
<1>4. CASE Delivered
  <2>. DEFINE h == Head(poll.left)
  <2>1. /\ poll.at = "send" /\ poll.left # <<>> /\ poll' = [poll EXCEPT !.at = "claim"]
        /\ sentAt' = [sentAt EXCEPT ![h.tx][h.rank] = @ + 1]
        /\ UNCHANGED <<anomalyClaim, unguarded>>
    BY <1>4, <1>t DEF Delivered, PollerTypes, Sending
  <2>2. poll'.at = "claim" /\ poll'.left = poll.left /\ h.rank \in 1..4
        /\ \E T : poll' \in PollRecord(T) /\ \A x \in T : x.rank \in 1..4
    BY <1>t, <2>1, PollMoves
  <2>3. \A tx \in Flaggable, r \in 1..4 :
          h.tx = tx /\ h.rank = r => sentAt[tx][r] <= unguarded[tx][r]
    BY <1>t, <2>1 DEF SentAreClaimed
  <2>. HIDE DEF h
  <2>4. ASSUME NEW tx \in Flaggable, NEW r \in 1..4
        PROVE  sentAt'[tx][r] = IF h.tx = tx /\ h.rank = r THEN sentAt[tx][r] + 1 ELSE sentAt[tx][r]
    <3>1. sentAt \in [Flaggable -> [1..4 -> Nat]]
      BY <1>t DEF PollerTypes
    <3>2. \A t \in Flaggable, q \in 1..4 : [sentAt EXCEPT ![h.tx][h.rank] = @ + 1][t][q]
            = IF h.tx = t /\ h.rank = q THEN sentAt[t][q] + 1 ELSE sentAt[t][q]
      BY ONLY <2>2, <3>1, CountBumped
    <3>. QED BY <2>1, <3>2
  <2>5. sentAt' \in [Flaggable -> [1..4 -> Nat]]
    <3>1. sentAt \in [Flaggable -> [1..4 -> Nat]]
      BY <1>t DEF PollerTypes
    <3>2. [sentAt EXCEPT ![h.tx][h.rank] = @ + 1] \in [Flaggable -> [1..4 -> Nat]]
      BY ONLY <2>2, <3>1, CountBumped
    <3>. QED BY <2>1, <3>2
  <2>6. PollerTypes'
    BY <1>t, <2>1, <2>2, <2>5 DEF PollerTypes, Sending
  <2>7. ASSUME NEW tx \in Flaggable, NEW r \in 1..4
        PROVE  sentAt'[tx][r] <= unguarded[tx][r] +
                 (IF anomalyClaim[tx] >= r \/ (h.tx = tx /\ h.rank = r) THEN 1 ELSE 0)
    <3>1. CASE h.tx = tx /\ h.rank = r
      <4>2. sentAt[tx][r] <= unguarded[tx][r] /\ sentAt[tx][r] \in Nat /\ unguarded[tx][r] \in Nat
        BY <1>a, <2>3, <3>1
      <4>3. sentAt'[tx][r] = sentAt[tx][r] + 1
        BY <2>4, <3>1
      <4>. QED BY <3>1, <4>2, <4>3
    <3>2. CASE ~(h.tx = tx /\ h.rank = r)
      <4>1. /\ sentAt[tx][r] \in Nat /\ unguarded[tx][r] \in Nat /\ sentAt[tx][r] <= unguarded[tx][r] + 1
            /\ ~(anomalyClaim[tx] >= r) => sentAt[tx][r] <= unguarded[tx][r]
        BY <1>a, <2>1, SMTT(60)
      <4>2. sentAt'[tx][r] = sentAt[tx][r]
        BY <2>4, <3>2
      <4>. QED BY <3>2, <4>1, <4>2
    <3>. QED BY <3>1, <3>2
  <2>8. SentAreClaimed'
    BY <2>1, <2>2, <2>7 DEF SentAreClaimed, Sending, h
  <2>. QED BY <2>6, <2>8 DEF PollerInv
<1>5. CASE Undelivered
  <2>1. /\ poll.at = "send" /\ poll.left # <<>> /\ poll' = [Drops(1) EXCEPT !.at = "loop"]
        /\ UNCHANGED <<anomalyClaim, sentAt, unguarded>>
    BY <1>5, <1>t DEF Undelivered, PollerTypes, Sending
  <2>2. poll'.at = "loop" /\ \E T : poll' \in PollRecord(T) /\ \A x \in T : x.rank \in 1..4
    BY <1>t, <2>1, PollMoves
  <2>3. PollerTypes'
    BY <1>t, <2>1, <2>2 DEF PollerTypes, Sending
  <2>4. SentAreClaimed'
    BY <1>a, <2>1, <2>2, SMTT(60) DEF SentAreClaimed, Sending
  <2>. QED BY <2>3, <2>4 DEF PollerInv
<1>6. CASE RecordClaim
  <2>. DEFINE h == Head(poll.left)
  <2>1. /\ poll.at = "claim" /\ poll.left # <<>> /\ poll' = [Drops(1) EXCEPT !.at = "loop"]
        /\ anomalyClaim' = [anomalyClaim EXCEPT ![h.tx] = IF @ > h.rank THEN @ ELSE h.rank]
        /\ UNCHANGED <<sentAt, unguarded>>
    BY <1>6, <1>t DEF RecordClaim, PollerTypes, Sending
  <2>2. poll'.at = "loop" /\ h.rank \in 1..4
        /\ \E T : poll' \in PollRecord(T) /\ \A x \in T : x.rank \in 1..4
    BY <1>t, <2>1, PollMoves
  <2>4. \A tx \in Flaggable :
          /\ anomalyClaim'[tx] >= anomalyClaim[tx]
          /\ h.tx = tx => anomalyClaim'[tx] >= h.rank
    <3>. SUFFICES ASSUME NEW tx \in Flaggable
         PROVE  /\ anomalyClaim'[tx] >= anomalyClaim[tx]
                /\ h.tx = tx => anomalyClaim'[tx] >= h.rank
      OBVIOUS
    <3>1. anomalyClaim \in [Flaggable -> 0..4] /\ anomalyClaim[tx] \in 0..4
      BY <1>t DEF PollerTypes
    <3>. HIDE DEF h
    <3>2. CASE h.tx = tx
      BY <2>1, <2>2, <3>1, <3>2
    <3>3. CASE h.tx # tx
      BY <2>1, <3>1, <3>3
    <3>. QED BY <3>2, <3>3
  <2>. HIDE DEF h
  <2>5. anomalyClaim' \in [Flaggable -> 0..4]
    <3>1. h.rank \in 0..4 /\ anomalyClaim \in [Flaggable -> 0..4]
      BY <1>t, <2>2 DEF PollerTypes
    <3>. QED BY <2>1, <3>1
  <2>6. PollerTypes'
    BY <1>t, <2>1, <2>2, <2>5 DEF PollerTypes, Sending
  <2>7. ASSUME NEW tx \in Flaggable, NEW r \in 1..4
        PROVE  sentAt[tx][r] <= unguarded[tx][r] + (IF anomalyClaim'[tx] >= r THEN 1 ELSE 0)
    <3>1. CASE anomalyClaim'[tx] >= r
      BY <1>a, <3>1
    <3>2. CASE ~(anomalyClaim'[tx] >= r)
      <4>1. ~(anomalyClaim[tx] >= r) /\ ~(h.tx = tx /\ h.rank = r)
        <5>1. anomalyClaim[tx] \in 0..4 /\ anomalyClaim' \in [Flaggable -> 0..4]
          BY <1>a, <2>5
        <5>. QED BY <2>2, <2>4, <3>2, <5>1
      <4>. QED BY <1>a, <1>b, <3>2, <4>1 DEF h
    <3>. QED BY <3>1, <3>2
  <2>8. SentAreClaimed'
    BY <2>1, <2>2, <2>7 DEF SentAreClaimed, Sending
  <2>. QED BY <2>6, <2>8 DEF PollerInv
<1>7. CASE ClaimFails \/ StopPoller
  <2>. DEFINE h == Head(poll.left)
  <2>1. /\ Lost /\ UNCHANGED <<anomalyClaim, sentAt>>
        /\ \/ poll.at = "claim" /\ poll' = [Drops(1) EXCEPT !.at = "loop"]
           \/ poll' = Resting
    BY <1>7 DEF ClaimFails, StopPoller
  <2>2. poll'.at \in {"loop", "rest"} /\ \E T : poll' \in PollRecord(T) /\ \A x \in T : x.rank \in 1..4
    <3>1. CASE poll' = Resting
      BY <1>r, <3>1
    <3>2. CASE poll.at = "claim" /\ poll' = [Drops(1) EXCEPT !.at = "loop"]
      <4>1. poll.left # <<>>
        BY <1>t, <3>2 DEF PollerTypes, Sending
      <4>. QED BY <1>t, <3>2, <4>1, PollMoves
    <3>. QED BY <2>1, <3>1, <3>2
  <2>3. CASE poll.at # "claim"
    <3>1. unguarded' = unguarded
      BY <2>1, <2>3 DEF Lost
    <3>2. PollerTypes'
      BY <1>t, <2>1, <2>2, <3>1 DEF PollerTypes, Sending
    <3>3. SentAreClaimed'
      BY <1>a, <2>1, <2>2, <2>3, <3>1 DEF SentAreClaimed, Sending
    <3>. QED BY <3>2, <3>3 DEF PollerInv
  <2>4. CASE poll.at = "claim"
    <3>0. poll.left # <<>> /\ h.rank \in 1..4
      <4>1. poll.left # <<>>
        BY <1>t, <2>4 DEF PollerTypes, Sending
      <4>. QED BY <1>t, <4>1, PollMoves
    <3>1. unguarded' = [unguarded EXCEPT ![h.tx][h.rank] = @ + 1]
      BY <2>1, <2>4 DEF Lost, Unguard
    <3>. HIDE DEF h
    <3>2. unguarded' \in [Flaggable -> [1..4 -> Nat]]
      <4>1. unguarded \in [Flaggable -> [1..4 -> Nat]]
        BY <1>t DEF PollerTypes
      <4>2. [unguarded EXCEPT ![h.tx][h.rank] = @ + 1] \in [Flaggable -> [1..4 -> Nat]]
        BY ONLY <3>0, <4>1, CountBumped
      <4>. QED BY <3>1, <4>2
    <3>3. \A tx \in Flaggable, r \in 1..4 :
            unguarded'[tx][r] = IF h.tx = tx /\ h.rank = r THEN unguarded[tx][r] + 1 ELSE unguarded[tx][r]
      <4>1. unguarded \in [Flaggable -> [1..4 -> Nat]]
        BY <1>t DEF PollerTypes
      <4>2. \A tx \in Flaggable, r \in 1..4 : [unguarded EXCEPT ![h.tx][h.rank] = @ + 1][tx][r]
              = IF h.tx = tx /\ h.rank = r THEN unguarded[tx][r] + 1 ELSE unguarded[tx][r]
        BY ONLY <3>0, <4>1, CountBumped
      <4>. QED BY <3>1, <4>2
    <3>4. PollerTypes'
      BY <1>t, <2>1, <2>2, <3>2 DEF PollerTypes, Sending
    <3>5. ASSUME NEW tx \in Flaggable, NEW r \in 1..4
          PROVE  sentAt[tx][r] <= unguarded'[tx][r] + (IF anomalyClaim[tx] >= r THEN 1 ELSE 0)
      <4>1. CASE h.tx = tx /\ h.rank = r
        BY <1>a, <3>3, <4>1
      <4>2. CASE ~(h.tx = tx /\ h.rank = r)
        <5>1. ~(anomalyClaim[tx] >= r) => sentAt[tx][r] <= unguarded[tx][r]
          BY <1>b, <4>2 DEF h
        <5>. QED BY <1>a, <3>3, <4>2, <5>1
      <4>. QED BY <4>1, <4>2
    <3>6. SentAreClaimed'
      BY <2>1, <2>2, <3>5 DEF SentAreClaimed, Sending
    <3>. QED BY <3>4, <3>6 DEF PollerInv
  <2>. QED BY <2>3, <2>4
<1>8. CASE EndPoll
  <2>1. poll.at = "loop" /\ poll' = Resting /\ UNCHANGED <<anomalyClaim, sentAt, unguarded>>
    BY <1>8 DEF EndPoll
  <2>2. poll'.at = "rest" /\ \E T : poll' \in PollRecord(T) /\ \A x \in T : x.rank \in 1..4
    BY <1>r, <2>1
  <2>. QED BY <1>q, <2>1, <2>2
<1>9. CASE UNCHANGED <<anomalyClaim, sentAt, unguarded, poll>>
  BY <1>9, <1>t DEF PollerInv, PollerTypes, SentAreClaimed, Sending
<1>10. (\E tx \in Flaggable, t \in Target, v \in {"malicious", "anomaly", "benign"} :
          \E c \in IF v = "anomaly" THEN {50, 90} ELSE {90} : PublishVerdict(tx, t, v, c))
         => UNCHANGED <<anomalyClaim, sentAt, unguarded, poll>>
  BY DEF PublishVerdict
<1>11. UNCHANGED pollerVars => UNCHANGED <<anomalyClaim, sentAt, unguarded, poll>>
  BY DEF pollerVars
<1>12. CASE DeliverAnyway
  <2>. DEFINE h == Head(poll.left)
  <2>1. /\ poll.at = "loop" /\ poll.left # <<>> /\ poll' = [poll EXCEPT !.at = "send"]
        /\ unguarded' = [unguarded EXCEPT ![h.tx][h.rank] = @ + 1]
        /\ UNCHANGED <<anomalyClaim, sentAt>>
    BY <1>12 DEF DeliverAnyway, Unguard
  <2>2. poll'.at = "send" /\ poll'.left = poll.left /\ h.rank \in 1..4
        /\ \E T : poll' \in PollRecord(T) /\ \A x \in T : x.rank \in 1..4
    BY <1>t, <2>1, PollMoves
  <2>. HIDE DEF h
  <2>3. unguarded \in [Flaggable -> [1..4 -> Nat]]
    BY <1>t DEF PollerTypes
  <2>4. /\ [unguarded EXCEPT ![h.tx][h.rank] = @ + 1] \in [Flaggable -> [1..4 -> Nat]]
        /\ \A tx \in Flaggable, r \in 1..4 : [unguarded EXCEPT ![h.tx][h.rank] = @ + 1][tx][r]
             = IF h.tx = tx /\ h.rank = r THEN unguarded[tx][r] + 1 ELSE unguarded[tx][r]
    BY ONLY <2>2, <2>3, CountBumped
  <2>5. PollerTypes'
    BY <1>t, <2>1, <2>2, <2>4 DEF PollerTypes, Sending
  <2>6. ASSUME NEW tx \in Flaggable, NEW r \in 1..4
        PROVE  /\ h.tx = tx /\ h.rank = r => sentAt[tx][r] <= unguarded'[tx][r]
               /\ sentAt[tx][r] <= unguarded'[tx][r] + (IF anomalyClaim[tx] >= r THEN 1 ELSE 0)
    <3>1. unguarded'[tx][r] = IF h.tx = tx /\ h.rank = r THEN unguarded[tx][r] + 1 ELSE unguarded[tx][r]
      BY <2>1, <2>4
    <3>2. /\ sentAt[tx][r] \in Nat /\ unguarded[tx][r] \in Nat /\ sentAt[tx][r] <= unguarded[tx][r] + 1
          /\ ~(anomalyClaim[tx] >= r) => sentAt[tx][r] <= unguarded[tx][r]
      BY <1>a, <2>1, SMTT(60)
    <3>. QED BY <3>1, <3>2
  <2>7. SentAreClaimed'
    BY <2>1, <2>2, <2>6, Zenon DEF SentAreClaimed, h
  <2>. QED BY <2>5, <2>7 DEF PollerInv
<1>. QED BY <1>1, <1>2, <1>3, <1>4, <1>5, <1>6, <1>7, <1>8, <1>9, <1>10, <1>11, <1>12
     DEF PollerNext, PollTick

\* Nothing was sent at first.
LEMMA PollerInitially == ASSUME NEW on \in BOOLEAN, PollerInit(on) PROVE PollerInv
<1>1. /\ anomalyClaim = [tx \in Flaggable |-> 0] /\ sentAt = [tx \in Flaggable |-> [r \in 1..4 |-> 0]]
      /\ unguarded = sentAt /\ poll = [Resting EXCEPT !.at = IF on THEN "rest" ELSE "off"]
  BY DEF PollerInit
<1>2. poll \in PollRecord({}) /\ poll.at \in {"rest", "off"}
  BY <1>1, EmptySeq DEF Resting, PollRecord
<1>3. PollerTypes
  BY <1>1, <1>2 DEF PollerTypes, Sending
<1>4. SentAreClaimed
  BY <1>1, <1>2 DEF SentAreClaimed, Sending
<1>. QED BY <1>3, <1>4 DEF PollerInv

\* What the runs check of the poller follows.
LEMMA PollerInvSound == PollerInv => OneAlertPerBand
<1>. SUFFICES ASSUME PollerInv, NEW tx \in Flaggable, NEW r \in 1..4
     PROVE  sentAt[tx][r] <= 1 + unguarded[tx][r]
  BY DEF OneAlertPerBand
<1>1. sentAt[tx][r] \in Nat /\ unguarded[tx][r] \in Nat
  BY DEF PollerInv, PollerTypes
<1>2. \/ sentAt[tx][r] <= unguarded[tx][r] + 1
      \/ sentAt[tx][r] <= unguarded[tx][r] + 0
  BY DEF PollerInv, SentAreClaimed
<1>. QED BY <1>1, <1>2

-----------------------------------------------------------------------------
(* The job queue keeps its invariant                                       *)

\* create_job under enqueue_lock: a free id takes the job, and nothing else changes.
LEMMA EnqueueKeeps ==
  ASSUME JobsTypes, OneJobPerContract, NEW c \in Contract, c \notin Busy,
         NEW kind \in {"onboard", "classify"}, NEW auto \in BOOLEAN, EnqueueJob(c, kind, auto)
  PROVE  /\ jobRow' \in [JobId -> JobRecord \cup {NoJobRow}]
         /\ OneJobPerContract'
         /\ \E i \in JobId \ Nonterminal :
              /\ Nonterminal' = Nonterminal \cup {i}
              /\ jobRow'[i] = [target |-> c, kind |-> kind, auto |-> auto, fitted |-> FALSE]
              /\ \A j \in Nonterminal : jobRow'[j] = jobRow[j]
<1>. DEFINE r == [target |-> c, kind |-> kind, auto |-> auto, fitted |-> FALSE]
            i == CHOOSE j \in JobId : j \notin Nonterminal
<1>1. i \in JobId /\ i \notin Nonterminal
  <2>1. Nonterminal # JobId /\ Nonterminal \subseteq JobId
    BY DEF EnqueueJob, Nonterminal
  <2>2. \E j \in JobId : j \notin Nonterminal
    BY <2>1
  <2>. QED BY <2>2
<1>2. jobRow' = [jobRow EXCEPT ![i] = r]
  BY DEF EnqueueJob
<1>3. r \in JobRecord /\ r # NoJobRow
  <2>1. r \in JobRecord
    BY DEF JobRecord
  <2>2. r.kind # NoJobRow.kind
    BY DEF NoJobRow
  <2>. QED BY <2>1, <2>2
<1>. HIDE DEF r, i
<1>4. jobRow \in [JobId -> JobRecord \cup {NoJobRow}]
  BY DEF JobsTypes
<1>5. jobRow' \in [JobId -> JobRecord \cup {NoJobRow}] /\ jobRow'[i] = r
      /\ \A j \in JobId \ {i} : jobRow'[j] = jobRow[j]
  BY <1>1, <1>2, <1>3, <1>4
<1>6. Nonterminal' = Nonterminal \cup {i}
  BY <1>1, <1>3, <1>5 DEF Nonterminal
<1>7. \A j \in Nonterminal : j # i /\ jobRow'[j] = jobRow[j] /\ jobRow[j].target # c
  BY <1>1, <1>5 DEF Nonterminal, Busy
<1>8. r.target = c
  BY DEF r
<1>9. OneJobPerContract'
  BY <1>5, <1>6, <1>7, <1>8 DEF OneJobPerContract
<1>. QED BY <1>1, <1>5, <1>6, <1>7, <1>9 DEF r

\* The worker's job ends: its row is terminal, the others stay.
LEMMA JobDoneKeeps ==
  ASSUME JobsTypes, OneJobPerContract, worker.id \in Nonterminal, JobDone
  PROVE  /\ jobRow' \in [JobId -> JobRecord \cup {NoJobRow}]
         /\ OneJobPerContract' /\ worker' = Idling
         /\ Nonterminal' = Nonterminal \ {worker.id}
         /\ \A j \in Nonterminal' : jobRow'[j] = jobRow[j] /\ jobRow[j].target # Job.target
<1>1. jobRow \in [JobId -> JobRecord \cup {NoJobRow}] /\ worker.id \in JobId
  BY DEF JobsTypes, Nonterminal
<1>2. jobRow' = [jobRow EXCEPT ![worker.id] = NoJobRow] /\ worker' = Idling
  BY DEF JobDone
<1>3. jobRow' \in [JobId -> JobRecord \cup {NoJobRow}] /\ jobRow'[worker.id] = NoJobRow
      /\ \A j \in JobId \ {worker.id} : jobRow'[j] = jobRow[j]
  BY <1>1, <1>2
<1>4. Nonterminal' = Nonterminal \ {worker.id}
  BY <1>1, <1>3 DEF Nonterminal
<1>5. \A j \in Nonterminal' : j \in Nonterminal /\ jobRow'[j] = jobRow[j] /\ jobRow[j].target # Job.target
  BY <1>3, <1>4 DEF OneJobPerContract, Job, Nonterminal
<1>6. OneJobPerContract'
  BY <1>5 DEF OneJobPerContract
<1>. QED BY <1>2, <1>3, <1>4, <1>5, <1>6

\* save_contract: the row moves to the front of the listing, which holds it once.
LEMMA SaveRowKeeps ==
  ASSUME JobsTypes, NEW c \in Contract, NEW row \in RegistryRow, SaveRow(c, row)
  PROVE  /\ registry' \in [Contract -> RegistryRow] /\ registry' = [registry EXCEPT ![c] = row]
         /\ recent' \in Seq(Contract)
         /\ \A i, j \in DOMAIN recent' : recent'[i] = recent'[j] => i = j
<1>. DEFINE k == Keep(recent, Contract \ {c})
<1>1. recent \in Seq(Contract) /\ \A i, j \in 1..Len(recent) : recent[i] = recent[j] => i = j
  BY LenProperties, SMTT(60) DEF JobsTypes
<1>2. k \in Seq(Contract \cap (Contract \ {c}))
  BY <1>1, KeepType
<1>3. \A i, j \in 1..Len(k) : k[i] = k[j] => i = j
  BY <1>1, KeepDistinct
<1>4. registry' = [registry EXCEPT ![c] = row] /\ recent' = <<c>> \o k /\ registry \in [Contract -> RegistryRow]
  BY DEF SaveRow, JobsTypes
<1>. HIDE DEF k
<1>5. k \in Seq(Contract) /\ Len(k) \in Nat /\ \A i \in 1..Len(k) : k[i] # c
  BY <1>2, LenProperties, ElementOfSeq, SeqMonotonic
<1>6. <<c>> \in Seq(Contract) /\ Len(<<c>>) = 1 /\ <<c>>[1] = c
  OBVIOUS
<1>7. /\ recent' \in Seq(Contract) /\ Len(recent') = 1 + Len(k)
      /\ \A i \in 1..(1 + Len(k)) : recent'[i] = IF i <= 1 THEN <<c>>[i] ELSE k[i - 1]
  <2>1. (<<c>> \o k) \in Seq(Contract)
    BY <1>5, <1>6, ConcatProperties
  <2>2. Len(<<c>> \o k) = Len(<<c>>) + Len(k)
    BY <1>5, <1>6, ConcatProperties
  <2>3. \A i \in 1..(Len(<<c>>) + Len(k)) : (<<c>> \o k)[i] = IF i <= Len(<<c>>) THEN <<c>>[i] ELSE k[i - Len(<<c>>)]
    BY <1>5, <1>6, ConcatProperties
  <2>. QED BY <1>4, <1>6, <2>1, <2>2, <2>3
<1>8. ASSUME NEW i \in 1..(1 + Len(k)), NEW j \in 1..(1 + Len(k)), recent'[i] = recent'[j]
      PROVE  i = j
  <2>1. \A m \in 1..(1 + Len(k)) : (m = 1 /\ recent'[m] = c) \/ (m - 1 \in 1..Len(k) /\ recent'[m] = k[m - 1])
    BY <1>5, <1>6, <1>7
  <2>2. CASE i = 1
    BY <1>5, <1>8, <2>1, <2>2
  <2>3. CASE i # 1 /\ j = 1
    BY <1>5, <1>8, <2>1, <2>3
  <2>4. CASE i # 1 /\ j # 1
    <3>1. i - 1 \in 1..Len(k) /\ j - 1 \in 1..Len(k) /\ k[i - 1] = k[j - 1]
      BY <1>8, <2>1, <2>4
    <3>2. i - 1 = j - 1
      BY <1>3, <3>1
    <3>. QED BY <1>5, <3>2
  <2>. QED BY <2>2, <2>3, <2>4
<1>9. DOMAIN recent' = 1..(1 + Len(k))
  BY <1>7, LenProperties
<1>. QED BY <1>4, <1>7, <1>8, <1>9

\* A step that touches one contract c keeps what is known of the feed's fits and of its
\* listing, if it leaves c allowed: a recent fit of c by the feed either stays as it was,
\* or is in the hands of a job the feed queued, which no tick under way can queue again.
LEMMA OneContractTouched ==
  ASSUME JobsInv, JobsTypes', OneJobPerContract', UNCHANGED feed, enough \subseteq enough',
         NEW c \in Contract,
         \A d \in Contract \ {c} :
           autoAge'[d] = autoAge[d] /\ fitAge'[d] = fitAge[d] /\ registry'[d] = registry[d],
         \A j \in Nonterminal' : jobRow'[j].target # c => j \in Nonterminal /\ jobRow'[j] = jobRow[j],
         \A j \in Nonterminal' : jobRow'[j].target = c =>
           /\ jobRow'[j].auto => j \in Nonterminal /\ jobRow[j].auto /\ jobRow[j].target = c
           /\ jobRow'[j].fitted => c \in enough',
         autoAge'[c] < Interval =>
           /\ RowAllowed(c)' /\ \A j \in Nonterminal' : jobRow'[j].target = c => JobAllowed(j)'
           /\ \/ autoAge'[c] = autoAge[c] /\ fitAge'[c] = fitAge[c] /\ registry'[c] = registry[c]
              \/ \E j \in Nonterminal : jobRow[j].auto /\ jobRow[j].target = c
  PROVE  JobsInv'
<1>t. JobsTypes /\ FitOnRow /\ ListingTrue
  BY DEF JobsInv
<1>j. \A j \in Nonterminal' : jobRow'[j].target \in Contract
  BY DEF JobsTypes, Nonterminal, JobRecord
<1>1. FitOnRow'
  <2>1. ASSUME NEW d \in Contract PROVE RowAllowed(d)'
    <3>1. CASE d = c
      BY <3>1 DEF RowAllowed
    <3>2. CASE d # c
      <4>1. RowAllowed(d)
        BY <1>t DEF FitOnRow
      <4>. QED BY <3>2, <4>1 DEF RowAllowed, FitStands
    <3>. QED BY <3>1, <3>2
  <2>2. ASSUME NEW j \in Nonterminal' PROVE JobAllowed(j)'
    <3>1. CASE jobRow'[j].target = c
      BY <3>1 DEF JobAllowed
    <3>2. CASE jobRow'[j].target # c
      <4>1. j \in Nonterminal /\ jobRow'[j] = jobRow[j] /\ jobRow[j].target \in Contract \ {c}
        BY <1>j, <3>2
      <4>2. JobAllowed(j)
        BY <1>t, <4>1 DEF FitOnRow
      <4>. QED BY <4>1, <4>2 DEF JobAllowed, FitStands
    <3>. QED BY <3>1, <3>2
  <2>3. ASSUME NEW j \in Nonterminal', jobRow'[j].fitted PROVE jobRow'[j].target \in enough'
    <3>1. CASE jobRow'[j].target = c
      BY <2>3, <3>1
    <3>2. CASE jobRow'[j].target # c
      BY <1>t, <2>3, <3>2 DEF FitOnRow
    <3>. QED BY <3>1, <3>2
  <2>. QED BY <2>1, <2>2, <2>3 DEF FitOnRow
<1>2. ListingTrue'
  <2>1. \A i \in Nonterminal' : jobRow'[i].auto =>
          i \in Nonterminal /\ jobRow[i].auto /\ jobRow[i].target = jobRow'[i].target
    OBVIOUS
  <2>2. ASSUME NEW k \in DOMAIN feed.rows, feed.at = "visit", feed.rows[k].target \notin feed.busy,
               autoAge'[feed.rows[k].target] < Interval
        PROVE  /\ feed.rows[k].kind # "onboard"
               /\ feed.rows[k].kind = "classify" => FitStands(feed.rows[k].target)'
    <3>1. feed.rows[k].target \in Contract
      <4>1. feed.rows \in Seq(ListedRow)
        BY <1>t DEF JobsTypes, FeedRecord
      <4>2. feed.rows[k] \in ListedRow
        BY <4>1, LenProperties, ElementOfSeq
      <4>. QED BY <4>2 DEF ListedRow
    <3>. DEFINE d == feed.rows[k].target
    <3>2. autoAge'[d] = autoAge[d] /\ fitAge'[d] = fitAge[d] /\ registry'[d] = registry[d]
      <4>1. CASE d # c
        BY <3>1, <4>1
      <4>2. CASE d = c
        <5>1. ~ \E j \in Nonterminal : jobRow[j].auto /\ jobRow[j].target = c
          BY <1>t, <2>2, <4>2 DEF ListingTrue
        <5>. QED BY <2>2, <4>2, <5>1
      <4>. QED BY <4>1, <4>2
    <3>3. /\ feed.rows[k].kind # "onboard"
          /\ feed.rows[k].kind = "classify" => FitStands(d)
      BY <1>t, <2>2, <3>2 DEF ListingTrue
    <3>. QED BY <3>2, <3>3 DEF FitStands
  <2>. QED BY <1>t, <2>1, <2>2 DEF ListingTrue
<1>. QED BY <1>1, <1>2 DEF JobsInv

\* The API, the feed, the worker, crashes and the clock keep one job per contract and the
\* feed's knowledge of its last fits.
LEMMA JobsInductive == JobsInv /\ [JobsNext]_jobsVars => JobsInv'
<1>. SUFFICES ASSUME JobsInv, [JobsNext]_jobsVars PROVE JobsInv'
  OBVIOUS
<1>0. Interval \in Nat /\ PerTick \in Nat /\ NoJobId \notin JobId
  BY JobsAssumption
<1>t. JobsTypes /\ OneJobPerContract /\ FitOnRow /\ ListingTrue
  BY DEF JobsInv
<1>y. /\ registry \in [Contract -> RegistryRow] /\ fitAge \in [Contract -> Nat] /\ autoAge \in [Contract -> Nat]
      /\ recent \in Seq(Contract) /\ \A i, j \in DOMAIN recent : recent[i] = recent[j] => i = j
      /\ jobRow \in [JobId -> JobRecord \cup {NoJobRow}]
      /\ worker \in WorkerRecord /\ (worker.at # "idle" => worker.id \in Nonterminal)
      /\ feed \in FeedRecord
  BY <1>t DEF JobsTypes
<1>j. \A i \in Nonterminal : /\ jobRow[i] \in JobRecord /\ jobRow[i].target \in Contract
                             /\ jobRow[i].kind \in {"onboard", "classify"} /\ jobRow[i].auto \in BOOLEAN
  BY <1>y DEF Nonterminal, JobRecord
<1>a. Absent \in RegistryRow
      /\ \A s \in {"absent", "pending", "processing", "done", "failed"} : [Absent EXCEPT !.status = s] \in RegistryRow
  BY DEF Absent, RegistryRow
<1>d. Idling \in WorkerRecord /\ Idling.at = "idle"
  BY DEF Idling, WorkerRecord
<1>f. \A c \in Contract : c \notin Busy => \A j \in Nonterminal : jobRow[j].target # c
  BY DEF Busy
<1>. USE DEF rowVars, queueVars, worldVars, ghostAges, jobBounds
<1>1. ASSUME NEW c \in Contract, AddContract(c) PROVE JobsInv'
  <2>1. /\ c \notin Busy /\ SaveRow(c, [Absent EXCEPT !.status = "pending"])
        /\ fitAge' = [fitAge EXCEPT ![c] = Interval] /\ autoAge' = [autoAge EXCEPT ![c] = Interval]
        /\ EnqueueJob(c, "onboard", FALSE) /\ UNCHANGED <<worker, feed, enough>>
    BY <1>1 DEF AddContract
  <2>2. /\ registry' \in [Contract -> RegistryRow]
        /\ registry' = [registry EXCEPT ![c] = [Absent EXCEPT !.status = "pending"]]
        /\ recent' \in Seq(Contract) /\ \A i, j \in DOMAIN recent' : recent'[i] = recent'[j] => i = j
    BY <1>t, <1>a, <2>1, SaveRowKeeps
  <2>3. jobRow' \in [JobId -> JobRecord \cup {NoJobRow}] /\ OneJobPerContract'
    BY <1>t, <2>1, EnqueueKeeps
  <2>4. PICK i \in JobId \ Nonterminal :
          /\ Nonterminal' = Nonterminal \cup {i}
          /\ jobRow'[i] = [target |-> c, kind |-> "onboard", auto |-> FALSE, fitted |-> FALSE]
          /\ \A j \in Nonterminal : jobRow'[j] = jobRow[j]
    BY <1>t, <2>1, EnqueueKeeps
  <2>5. autoAge' \in [Contract -> Nat] /\ fitAge' \in [Contract -> Nat] /\ autoAge'[c] = Interval
        /\ \A d \in Contract \ {c} : autoAge'[d] = autoAge[d] /\ fitAge'[d] = fitAge[d] /\ registry'[d] = registry[d]
    BY <1>0, <1>y, <2>1, <2>2
  <2>6. JobsTypes'
    BY <1>y, <2>1, <2>2, <2>3, <2>4, <2>5 DEF JobsTypes
  <2>7. /\ ~(autoAge'[c] < Interval)
        /\ \A j \in Nonterminal' : jobRow'[j].target = c => ~jobRow'[j].auto /\ ~jobRow'[j].fitted
        /\ \A j \in Nonterminal' : jobRow'[j].target # c => j \in Nonterminal /\ jobRow'[j] = jobRow[j]
    BY <1>0, <1>f, <2>1, <2>4, <2>5
  <2>. QED BY <2>1, <2>3, <2>5, <2>6, <2>7, OneContractTouched
<1>2. ASSUME NEW c \in Contract, ClassifyNew(c) PROVE JobsInv'
  <2>1. /\ c \notin Busy /\ autoAge' = [autoAge EXCEPT ![c] = Interval]
        /\ EnqueueJob(c, "classify", FALSE) /\ UNCHANGED <<registry, fitAge, recent, worker, feed, enough>>
    BY <1>2 DEF ClassifyNew
  <2>3. jobRow' \in [JobId -> JobRecord \cup {NoJobRow}] /\ OneJobPerContract'
    BY <1>t, <2>1, EnqueueKeeps
  <2>4. PICK i \in JobId \ Nonterminal :
          /\ Nonterminal' = Nonterminal \cup {i}
          /\ jobRow'[i] = [target |-> c, kind |-> "classify", auto |-> FALSE, fitted |-> FALSE]
          /\ \A j \in Nonterminal : jobRow'[j] = jobRow[j]
    BY <1>t, <2>1, EnqueueKeeps
  <2>5. autoAge' \in [Contract -> Nat] /\ autoAge'[c] = Interval
        /\ \A d \in Contract \ {c} : autoAge'[d] = autoAge[d]
    BY <1>0, <1>y, <2>1
  <2>6. JobsTypes'
    BY <1>y, <2>1, <2>3, <2>4, <2>5 DEF JobsTypes
  <2>7. /\ ~(autoAge'[c] < Interval)
        /\ \A j \in Nonterminal' : jobRow'[j].target = c => ~jobRow'[j].auto /\ ~jobRow'[j].fitted
        /\ \A j \in Nonterminal' : jobRow'[j].target # c => j \in Nonterminal /\ jobRow'[j] = jobRow[j]
    BY <1>0, <1>f, <2>1, <2>4, <2>5
  <2>. QED BY <2>1, <2>3, <2>5, <2>6, <2>7, OneContractTouched
<1>3. ASSUME NEW c \in Contract, DeleteContract(c) PROVE JobsInv'
  <2>1. /\ registry' = [registry EXCEPT ![c] = Absent] /\ c \notin Busy
        /\ fitAge' = [fitAge EXCEPT ![c] = Interval] /\ autoAge' = [autoAge EXCEPT ![c] = Interval]
        /\ recent' = Keep(recent, Contract \ {c}) /\ UNCHANGED <<jobRow, worker, feed, enough>>
    BY <1>3 DEF DeleteContract
  <2>2. recent' \in Seq(Contract) /\ \A i, j \in DOMAIN recent' : recent'[i] = recent'[j] => i = j
    <3>. DEFINE k == Keep(recent, Contract \ {c})
    <3>1. k \in Seq(Contract \cap (Contract \ {c}))
      BY <1>y, KeepType
    <3>2. \A i, j \in 1..Len(recent) : recent[i] = recent[j] => i = j
      BY <1>y, LenProperties, SMTT(60)
    <3>3. \A i, j \in 1..Len(k) : k[i] = k[j] => i = j
      BY <1>y, <3>2, KeepDistinct
    <3>. HIDE DEF k
    <3>4. k \in Seq(Contract) /\ DOMAIN k = 1..Len(k)
      BY <3>1, SeqMonotonic, LenProperties
    <3>. QED BY <2>1, <3>3, <3>4 DEF k
  <2>3. registry' \in [Contract -> RegistryRow] /\ fitAge' \in [Contract -> Nat] /\ autoAge' \in [Contract -> Nat]
        /\ autoAge'[c] = Interval
        /\ \A d \in Contract \ {c} : autoAge'[d] = autoAge[d] /\ fitAge'[d] = fitAge[d] /\ registry'[d] = registry[d]
    BY <1>0, <1>a, <1>y, <2>1
  <2>4. Nonterminal' = Nonterminal /\ OneJobPerContract'
    BY <1>t, <2>1 DEF Nonterminal, OneJobPerContract
  <2>5. JobsTypes'
    BY <1>y, <2>1, <2>2, <2>3, <2>4 DEF JobsTypes
  <2>6. /\ ~(autoAge'[c] < Interval)
        /\ \A j \in Nonterminal' : jobRow'[j].target # c /\ jobRow'[j] = jobRow[j]
    BY <1>0, <1>f, <2>1, <2>3, <2>4
  <2>. QED BY <2>1, <2>3, <2>4, <2>5, <2>6, OneContractTouched
\* A step of the feed that queues nothing, or a step of the world.
<1>n. ASSUME UNCHANGED <<registry, fitAge, autoAge, recent, jobRow>>, enough \subseteq enough',
             worker' \in WorkerRecord, worker'.at # "idle" => worker'.id \in Nonterminal,
             feed' \in FeedRecord, ListingTrue'
      PROVE  JobsInv'
  <2>1. Nonterminal' = Nonterminal /\ OneJobPerContract'
    BY <1>t, <1>n DEF Nonterminal, OneJobPerContract
  <2>2. JobsTypes'
    BY <1>y, <1>n, <2>1 DEF JobsTypes
  <2>3. FitOnRow'
    <3>1. \A c \in Contract : RowAllowed(c)'
      BY <1>t, <1>n DEF FitOnRow, RowAllowed, FitStands
    <3>2. \A i \in Nonterminal' : JobAllowed(i)'
      BY <1>t, <1>n, <2>1 DEF FitOnRow, JobAllowed, FitStands
    <3>. QED BY <1>t, <1>n, <2>1, <3>1, <3>2 DEF FitOnRow
  <2>. QED BY <1>n, <2>1, <2>2, <2>3 DEF JobsInv
<1>m. ASSUME UNCHANGED <<registry, fitAge, autoAge, jobRow, feed>> PROVE ListingTrue'
  <2>1. Nonterminal' = Nonterminal
    BY <1>m DEF Nonterminal
  <2>2. \A c \in Contract : FitStands(c)' <=> FitStands(c)
    BY <1>m DEF FitStands
  <2>. QED BY <1>t, <1>m, <2>1 DEF ListingTrue, FitStands
<1>e. /\ <<>> \in Seq(ListedRow) /\ DOMAIN <<>> = {}
  BY EmptySeq
<1>4. CASE ReadBusy
  <2>1. feed' = [at |-> "list", busy |-> Busy, rows |-> <<>>, sent |-> 0]
        /\ UNCHANGED <<registry, fitAge, autoAge, recent, jobRow, worker, enough>>
    BY <1>4 DEF ReadBusy
  <2>2. Busy \subseteq Contract /\ \A i \in Nonterminal : jobRow[i].target \in Busy
    BY <1>j DEF Busy
  <2>3. Nonterminal' = Nonterminal
    BY <2>1 DEF Nonterminal
  <2>4. feed'.at = "list" /\ feed'.busy = Busy /\ feed'.rows = <<>>
    BY <2>1
  <2>5. feed' \in FeedRecord
    BY <1>e, <2>1, <2>2 DEF FeedRecord
  <2>6. ListingTrue'
    BY <1>e, <2>1, <2>2, <2>3, <2>4 DEF ListingTrue
  <2>. QED BY <1>n, <1>y, <2>1, <2>5, <2>6
<1>5. CASE ListRows
  <2>1. feed.at = "list" /\ feed' = [feed EXCEPT !.at = "visit", !.rows = Listing]
        /\ UNCHANGED <<registry, fitAge, autoAge, recent, jobRow, worker, enough>>
    BY <1>5 DEF ListRows
  <2>2. feed'.at = "visit" /\ feed'.busy = feed.busy /\ feed'.rows = Listing
    BY <1>y, <2>1 DEF FeedRecord
  <2>3. DOMAIN recent = 1..Len(recent) /\ Len(recent) \in Nat /\ \A k \in DOMAIN recent : recent[k] \in Contract
    BY <1>y, LenProperties, ElementOfSeq
  <2>4. DOMAIN Listing = DOMAIN recent
        /\ \A k \in DOMAIN recent :
             Listing[k] = [target |-> recent[k], kind |-> Decision(registry[recent[k]], fitAge[recent[k]])]
    BY DEF Listing
  <2>d. \A r, n : Decision(r, n) \in {"onboard", "classify", "skip"}
    BY DEF Decision
  <2>5. \A k \in DOMAIN recent : Listing[k] \in ListedRow
    BY <2>3, <2>4, <2>d DEF ListedRow
  <2>6. Listing \in Seq(ListedRow)
    <3>1. Listing = [k \in 1..Len(recent) |-> Listing[k]]
      BY <2>3, <2>4 DEF Listing
    <3>. QED BY <2>3, <2>5, <3>1
  <2>7. feed' \in FeedRecord
    BY <1>y, <2>1, <2>6 DEF FeedRecord
  <2>8. Nonterminal' = Nonterminal
    BY <2>1 DEF Nonterminal
  <2>9. ListingTrue'
    <3>1. \A i, j \in DOMAIN Listing : Listing[i].target = Listing[j].target => i = j
      BY <1>y, <2>4
    <3>2. \A i \in Nonterminal : jobRow[i].auto => jobRow[i].target \in feed.busy
      BY <1>t, <2>1 DEF ListingTrue
    <3>3. ASSUME NEW k \in DOMAIN Listing, autoAge[Listing[k].target] < Interval
          PROVE  Listing[k].kind # "onboard" /\ (Listing[k].kind = "classify" => FitStands(Listing[k].target))
      <4>. DEFINE c == recent[k]
      <4>1. c \in Contract /\ Listing[k].target = c /\ Listing[k].kind = Decision(registry[c], fitAge[c])
        BY <2>3, <2>4
      <4>. HIDE DEF c
      <4>2. autoAge[c] < Interval /\ (registry[c].status \in {"processing", "failed"} \/ FitStands(c))
        BY <1>t, <3>3, <4>1 DEF FitOnRow, RowAllowed
      <4>3. CASE registry[c].status \in {"processing", "failed"}
        BY <4>1, <4>3 DEF Decision
      <4>4. CASE FitStands(c)
        <5>1. fitAge[c] \in Nat /\ autoAge[c] \in Nat
          BY <1>y, <4>1
        <5>2. Throttled(registry[c], fitAge[c])
          BY <1>0, <4>2, <4>4, <5>1 DEF FitStands, Throttled
        <5>. QED BY <4>1, <4>4, <5>2 DEF Decision, FitStands
      <4>. QED BY <4>2, <4>3, <4>4
    <3>. QED BY <2>1, <2>2, <2>8, <3>1, <3>2, <3>3 DEF ListingTrue, FitStands
  <2>. QED BY <1>n, <1>y, <2>1, <2>7, <2>9
<1>6. CASE TickEnds \/ SidecarCrash
  <2>1. feed' = [at |-> "idle", busy |-> {}, rows |-> <<>>, sent |-> 0] /\ worker' \in {worker, Idling}
        /\ UNCHANGED <<registry, fitAge, autoAge, recent, jobRow, enough>>
    BY <1>6 DEF TickEnds, SidecarCrash
  <2>3. feed'.at = "idle" /\ feed'.rows = <<>> /\ feed' \in FeedRecord
    BY <1>e, <2>1 DEF FeedRecord
  <2>4. worker' \in WorkerRecord /\ (worker'.at # "idle" => worker'.id \in Nonterminal)
    BY <1>d, <1>y, <2>1
  <2>6. ListingTrue'
    BY <1>e, <2>3 DEF ListingTrue
  <2>. QED BY <1>n, <2>1, <2>3, <2>4, <2>6
<1>7. CASE TakeJob \/ HistoryStage
  <2>1. UNCHANGED <<registry, fitAge, autoAge, recent, jobRow, feed, enough>>
    BY <1>7 DEF TakeJob, HistoryStage
  <2>3. worker' \in WorkerRecord /\ (worker'.at # "idle" => worker'.id \in Nonterminal)
    <3>1. CASE TakeJob
      BY <1>d, <3>1 DEF TakeJob, Nonterminal, WorkerRecord
    <3>2. CASE HistoryStage
      <4>1. worker.at # "idle"
        BY <3>2 DEF HistoryStage
      <4>2. \E a \in {"owing", "ready"} : worker' = [worker EXCEPT !.at = a]
        BY <3>2 DEF HistoryStage
      <4>. QED BY <1>y, <4>1, <4>2 DEF WorkerRecord
    <3>. QED BY <1>7, <3>1, <3>2
  <2>. QED BY <1>m, <1>n, <1>y, <2>1, <2>3
\* The worker's job: the only one of its contract, and allowed.
<1>w. ASSUME worker.at # "idle"
      PROVE  /\ worker.id \in Nonterminal /\ Job.target \in Contract /\ Job \in JobRecord
             /\ \A j \in Nonterminal : jobRow[j].target = Job.target => j = worker.id
             /\ Job.fitted => Job.target \in enough
             /\ RowAllowed(Job.target)
             /\ autoAge[Job.target] < Interval =>
                  Job.auto /\ (Kind = "onboard" => Job.fitted) /\ (Kind = "classify" => FitStands(Job.target))
  <2>1. worker.id \in Nonterminal
    BY <1>y, <1>w
  <2>2. Job.target \in Contract /\ Job \in JobRecord
    BY <1>j, <2>1 DEF Job
  <2>3. \A j \in Nonterminal : jobRow[j].target = Job.target => j = worker.id
    BY <1>t, <2>1 DEF OneJobPerContract, Job
  <2>4. JobAllowed(worker.id) /\ RowAllowed(Job.target)
    BY <1>t, <2>1, <2>2 DEF FitOnRow
  <2>5. Job.fitted => Job.target \in enough
    BY <1>t, <2>1 DEF FitOnRow, Job
  <2>. QED BY <2>1, <2>2, <2>3, <2>4, <2>5 DEF JobAllowed, Job, Kind
\* A step of the worker that leaves every job open.
<1>o. ASSUME worker.at # "idle", NEW c \in Contract, c = Job.target,
             UNCHANGED jobRow, UNCHANGED feed, UNCHANGED enough, UNCHANGED autoAge,
             worker' \in WorkerRecord, worker'.at # "idle" => worker'.id \in Nonterminal,
             registry' \in [Contract -> RegistryRow], fitAge' \in [Contract -> Nat],
             recent' \in Seq(Contract), \A i, j \in DOMAIN recent' : recent'[i] = recent'[j] => i = j,
             \A d \in Contract \ {c} : fitAge'[d] = fitAge[d] /\ registry'[d] = registry[d],
             autoAge[c] < Interval => RowAllowed(c)' /\ (Kind = "classify" => FitStands(c)')
      PROVE  JobsInv'
  <2>1. Nonterminal' = Nonterminal /\ OneJobPerContract'
    BY <1>t, <1>o DEF Nonterminal, OneJobPerContract
  <2>2. JobsTypes'
    BY <1>y, <1>o, <2>1 DEF JobsTypes
  <2>3. /\ worker.id \in Nonterminal /\ jobRow[worker.id] = Job
        /\ \A j \in Nonterminal : jobRow[j].target = c => j = worker.id
        /\ Job.fitted => c \in enough
        /\ autoAge[c] < Interval => Job.auto /\ (Kind = "onboard" => Job.fitted)
    BY <1>o, <1>w DEF Job
  <2>4. jobRow' = jobRow /\ autoAge' = autoAge /\ enough' = enough /\ feed' = feed
    BY <1>o
  <2>5. ASSUME autoAge'[c] < Interval
        PROVE  /\ RowAllowed(c)' /\ \A j \in Nonterminal' : jobRow'[j].target = c => JobAllowed(j)'
               /\ \E j \in Nonterminal : jobRow[j].auto /\ jobRow[j].target = c
    <3>1. RowAllowed(c)' /\ (Kind = "classify" => FitStands(c)') /\ autoAge[c] < Interval
      BY <1>o, <2>4, <2>5
    <3>2. ASSUME NEW j \in Nonterminal', jobRow'[j].target = c PROVE JobAllowed(j)'
      <4>1. jobRow'[j] = Job /\ Kind = Job.kind
        BY <2>1, <2>3, <2>4, <3>2 DEF Kind
      <4>. QED BY <2>3, <3>1, <3>2, <4>1 DEF JobAllowed
    <3>. QED BY <1>o, <2>3, <3>1, <3>2
  <2>6. \A d \in Contract \ {c} :
           autoAge'[d] = autoAge[d] /\ fitAge'[d] = fitAge[d] /\ registry'[d] = registry[d]
    BY <1>o, <2>4
  <2>7. /\ \A j \in Nonterminal' : jobRow'[j].target # c => j \in Nonterminal /\ jobRow'[j] = jobRow[j]
        /\ \A j \in Nonterminal' : jobRow'[j].target = c =>
             /\ jobRow'[j].auto => j \in Nonterminal /\ jobRow[j].auto /\ jobRow[j].target = c
             /\ jobRow'[j].fitted => c \in enough'
    BY <2>1, <2>3, <2>4
  <2>. QED BY <2>1, <2>2, <2>4, <2>5, <2>6, <2>7, OneContractTouched
\* A step of the worker that closes its job.
<1>c. ASSUME worker.at # "idle", NEW c \in Contract, c = Job.target, JobDone,
             UNCHANGED feed, UNCHANGED enough, UNCHANGED autoAge, UNCHANGED fitAge,
             registry' \in [Contract -> RegistryRow],
             recent' \in Seq(Contract), \A i, j \in DOMAIN recent' : recent'[i] = recent'[j] => i = j,
             \A d \in Contract \ {c} : registry'[d] = registry[d],
             registry'[c] = registry[c] \/ (registry'[c].status = "failed" /\ Kind = "onboard")
      PROVE  JobsInv'
  <2>1. /\ jobRow' \in [JobId -> JobRecord \cup {NoJobRow}] /\ OneJobPerContract' /\ worker' = Idling
        /\ Nonterminal' = Nonterminal \ {worker.id}
        /\ \A j \in Nonterminal' : jobRow'[j] = jobRow[j] /\ jobRow[j].target # c
    BY <1>c, <1>t, <1>w, JobDoneKeeps
  <2>2. JobsTypes'
    BY <1>d, <1>y, <1>c, <2>1 DEF JobsTypes
  <2>3. ASSUME autoAge'[c] < Interval
        PROVE  /\ RowAllowed(c)'
               /\ \E j \in Nonterminal : jobRow[j].auto /\ jobRow[j].target = c
    <3>1. autoAge[c] < Interval /\ RowAllowed(c) /\ Job.auto /\ worker.id \in Nonterminal
      BY <1>c, <1>w, <2>3
    <3>2. RowAllowed(c)'
      BY <1>c, <3>1 DEF RowAllowed, FitStands
    <3>. QED BY <1>c, <3>1, <3>2 DEF Job
  <2>4. \A d \in Contract \ {c} :
           autoAge'[d] = autoAge[d] /\ fitAge'[d] = fitAge[d] /\ registry'[d] = registry[d]
    BY <1>c
  <2>. QED BY <1>c, <2>1, <2>2, <2>3, <2>4, OneContractTouched
<1>8. CASE BeginFit
  <2>c. PICK c \in Contract : c = Job.target
    BY <1>w, <1>8 DEF BeginFit
  <2>. DEFINE row == [Absent EXCEPT !.status = "processing"]
  <2>1. /\ worker.at = "begin" /\ Kind = "onboard" /\ SaveRow(c, row)
        /\ fitAge' = [fitAge EXCEPT ![c] = Interval] /\ worker' = [worker EXCEPT !.at = "history"]
        /\ UNCHANGED jobRow /\ UNCHANGED feed /\ UNCHANGED autoAge /\ UNCHANGED enough
    BY <1>8, <2>c DEF BeginFit
  <2>2. worker.id \in Nonterminal /\ row \in RegistryRow /\ row.status = "processing"
    BY <1>w, <1>a, <2>c, <2>1 DEF Absent
  <2>3. /\ registry' \in [Contract -> RegistryRow] /\ registry' = [registry EXCEPT ![c] = row]
        /\ recent' \in Seq(Contract) /\ \A i, j \in DOMAIN recent' : recent'[i] = recent'[j] => i = j
    BY <1>t, <2>1, <2>2, SaveRowKeeps
  <2>. HIDE DEF row
  <2>5. worker' \in WorkerRecord /\ worker'.id \in Nonterminal
    BY <1>y, <2>1, <2>2 DEF WorkerRecord
  <2>6. /\ fitAge' \in [Contract -> Nat] /\ registry'[c].status = "processing"
        /\ \A d \in Contract \ {c} : fitAge'[d] = fitAge[d] /\ registry'[d] = registry[d]
    <3>. QED BY <1>0, <1>y, <2>1, <2>2, <2>3
  <2>7. RowAllowed(c)'
    BY <2>6 DEF RowAllowed
  <2>. QED BY <1>o, <2>c, <2>1, <2>3, <2>5, <2>6, <2>7
<1>9. CASE TooFew
  <2>c. PICK c \in Contract : c = Job.target
    BY <1>w, <1>9 DEF TooFew
  <2>. DEFINE row == [Absent EXCEPT !.status = TooFewStatus]
  <2>1. /\ worker.at # "idle" /\ Kind = "onboard" /\ SaveRow(c, row) /\ c \notin enough
        /\ fitAge' = [fitAge EXCEPT ![c] = Interval] /\ worker' = [worker EXCEPT !.at = "closing"]
        /\ UNCHANGED jobRow /\ UNCHANGED feed /\ UNCHANGED autoAge /\ UNCHANGED enough
    BY <1>9, <2>c DEF TooFew, Closing
  <2>2. worker.id \in Nonterminal /\ row \in RegistryRow /\ ~(autoAge[c] < Interval)
    BY <1>w, <1>a, <2>c, <2>1 DEF TooFewStatus
  <2>3. /\ registry' \in [Contract -> RegistryRow] /\ registry' = [registry EXCEPT ![c] = row]
        /\ recent' \in Seq(Contract) /\ \A i, j \in DOMAIN recent' : recent'[i] = recent'[j] => i = j
    BY <1>t, <2>1, <2>2, SaveRowKeeps
  <2>. HIDE DEF row
  <2>5. worker' \in WorkerRecord /\ worker'.id \in Nonterminal
    BY <1>y, <2>1, <2>2 DEF WorkerRecord
  <2>6. /\ fitAge' \in [Contract -> Nat]
        /\ \A d \in Contract \ {c} : fitAge'[d] = fitAge[d] /\ registry'[d] = registry[d]
    <3>. QED BY <1>0, <1>y, <2>1, <2>2, <2>3
  <2>. QED BY <1>o, <2>c, <2>1, <2>2, <2>3, <2>5, <2>6
<1>10. CASE Classify
  <2>c. PICK c \in Contract : c = Job.target
    BY <1>w, <1>10 DEF Classify
  <2>1. /\ worker.at # "idle" /\ worker' = [worker EXCEPT !.at = "closing"] /\ Kind = "classify"
        /\ UNCHANGED jobRow /\ UNCHANGED feed /\ UNCHANGED autoAge /\ UNCHANGED enough /\ UNCHANGED fitAge
        /\ \/ UNCHANGED <<registry, recent>>
           \/ \E drift \in BOOLEAN :
                SaveRow(c, [registry[c] EXCEPT !.status = "done", !.drift = drift /\ registry[c].fit])
    BY <1>10, <2>c DEF Classify, Closing
  <2>2. worker.id \in Nonterminal
    BY <1>w, <2>c, <2>1
  <2>3. registry[c] \in RegistryRow
    BY <1>y, <2>2
  <2>4. PICK row \in RegistryRow :
          /\ row = registry[c] \/ (row.status = "done" /\ row.fit = registry[c].fit)
          /\ UNCHANGED <<registry, recent>> \/ SaveRow(c, row)
    <3>1. CASE UNCHANGED <<registry, recent>>
      BY <2>3, <3>1
    <3>2. CASE ~UNCHANGED <<registry, recent>>
      <4>1. PICK drift \in BOOLEAN : SaveRow(c, [registry[c] EXCEPT !.status = "done", !.drift = drift /\ registry[c].fit])
        BY <2>1, <3>2
      <4>. DEFINE b == drift /\ registry[c].fit
                  new == [registry[c] EXCEPT !.status = "done", !.drift = b]
      <4>2. b \in BOOLEAN
        BY Zenon
      <4>3. SaveRow(c, new)
        BY <4>1
      <4>. HIDE DEF b
      <4>4. new \in RegistryRow /\ new.status = "done" /\ new.fit = registry[c].fit
        BY <2>3, <4>2 DEF RegistryRow
      <4>. QED BY <4>3, <4>4
    <3>. QED BY <3>1, <3>2
  <2>5. /\ registry' \in [Contract -> RegistryRow]
        /\ \A d \in Contract \ {c} : registry'[d] = registry[d]
        /\ registry'[c] \in {registry[c], row}
        /\ recent' \in Seq(Contract) /\ \A i, j \in DOMAIN recent' : recent'[i] = recent'[j] => i = j
    <3>1. CASE UNCHANGED <<registry, recent>>
      BY <1>y, <3>1
    <3>2. CASE SaveRow(c, row)
      <4>1. /\ registry' \in [Contract -> RegistryRow] /\ registry' = [registry EXCEPT ![c] = row]
            /\ recent' \in Seq(Contract) /\ \A i, j \in DOMAIN recent' : recent'[i] = recent'[j] => i = j
        BY <1>t, <2>2, <3>2, SaveRowKeeps
      <4>. QED BY <1>y, <2>2, <4>1
    <3>. QED BY <2>4, <3>1, <3>2
  <2>6. worker' \in WorkerRecord /\ worker'.id \in Nonterminal
    BY <1>y, <2>1, <2>2 DEF WorkerRecord
  <2>7. autoAge[c] < Interval =>
          registry'[c].fit /\ registry'[c].status = "done" /\ fitAge'[c] <= autoAge'[c]
    <3>1. autoAge[c] < Interval => FitStands(c)
      BY <1>w, <2>c, <2>1
    <3>. QED BY <2>1, <2>4, <2>5, <3>1 DEF FitStands
  <2>8. autoAge[c] < Interval => RowAllowed(c)' /\ FitStands(c)'
    BY <2>7 DEF RowAllowed, FitStands
  <2>. QED BY <1>o, <2>c, <1>y, <2>1, <2>2, <2>5, <2>6, <2>8
<1>11. CASE CloseJob
  <2>1. worker.at # "idle" /\ JobDone /\ UNCHANGED <<registry, recent, fitAge, autoAge, feed, enough>>
    BY <1>11 DEF CloseJob
  <2>2. PICK c \in Contract : c = Job.target
    BY <1>w, <2>1
  <2>. QED BY <1>c, <1>y, <2>1, <2>2
<1>12. CASE PipelineFails
  <2>1. PICK rowWritten \in BOOLEAN, jobWritten \in BOOLEAN :
         /\ IF Kind = "onboard" /\ rowWritten
            THEN SaveRow(Job.target, [registry[Job.target] EXCEPT !.status = "failed"])
            ELSE UNCHANGED <<registry, recent>>
         /\ IF jobWritten THEN JobDone ELSE worker' = Idling /\ UNCHANGED queueVars
    BY <1>12 DEF PipelineFails
  <2>2. worker.at # "idle" /\ UNCHANGED <<fitAge, autoAge, feed, enough>>
    BY <1>12 DEF PipelineFails
  <2>3. PICK c \in Contract : c = Job.target
    BY <1>w, <2>2
  <2>. DEFINE row == [registry[c] EXCEPT !.status = "failed"]
  <2>4. row \in RegistryRow /\ row.status = "failed"
    <3>1. registry[c] \in RegistryRow
      BY <1>y
    <3>. QED BY <3>1 DEF RegistryRow
  <2>5. UNCHANGED <<registry, recent>> \/ (Kind = "onboard" /\ SaveRow(c, row))
    BY <2>1, <2>3
  <2>. HIDE DEF row
  <2>6. /\ registry' \in [Contract -> RegistryRow]
        /\ \A d \in Contract \ {c} : registry'[d] = registry[d]
        /\ registry'[c] = registry[c] \/ (registry'[c].status = "failed" /\ Kind = "onboard")
        /\ recent' \in Seq(Contract) /\ \A i, j \in DOMAIN recent' : recent'[i] = recent'[j] => i = j
    <3>1. CASE UNCHANGED <<registry, recent>>
      BY <1>y, <3>1
    <3>2. CASE Kind = "onboard" /\ SaveRow(c, row)
      <4>1. /\ registry' \in [Contract -> RegistryRow] /\ registry' = [registry EXCEPT ![c] = row]
            /\ recent' \in Seq(Contract) /\ \A i, j \in DOMAIN recent' : recent'[i] = recent'[j] => i = j
        BY <1>t, <2>4, <3>2, SaveRowKeeps
      <4>. QED BY <1>y, <2>4, <3>2, <4>1
    <3>. QED BY <2>5, <3>1, <3>2
  <2>7. CASE jobWritten
    <3>1. JobDone
      BY <2>1, <2>7
    <3>. QED BY <1>c, <2>2, <2>3, <2>6, <3>1
  <2>8. CASE ~jobWritten
    <3>1. worker' = Idling /\ UNCHANGED jobRow
      BY <2>1, <2>8
    <3>2. worker' \in WorkerRecord /\ worker'.at = "idle"
      BY <1>d, <3>1
    <3>3. ASSUME autoAge[c] < Interval PROVE RowAllowed(c)' /\ (Kind = "classify" => FitStands(c)')
      <4>1. RowAllowed(c) /\ (Kind = "classify" => FitStands(c))
        BY <1>w, <2>2, <2>3, <3>3
      <4>2. CASE registry'[c] = registry[c]
        BY <2>2, <4>1, <4>2 DEF RowAllowed, FitStands
      <4>3. CASE registry'[c].status = "failed" /\ Kind = "onboard"
        BY <4>3 DEF RowAllowed
      <4>. QED BY <2>6, <4>2, <4>3
    <3>4. UNCHANGED feed /\ UNCHANGED enough /\ UNCHANGED autoAge /\ fitAge' \in [Contract -> Nat]
          /\ \A d \in Contract \ {c} : fitAge'[d] = fitAge[d] /\ registry'[d] = registry[d]
      BY <1>y, <2>2, <2>6
    <3>. QED BY <1>o, <2>2, <2>3, <2>6, <3>1, <3>2, <3>3, <3>4
  <2>. QED BY <2>7, <2>8
<1>13. CASE Fit
  <2>0. worker.at # "idle" /\ UNCHANGED feed /\ UNCHANGED enough /\ Job.target \in enough
    BY <1>13 DEF Fit
  <2>c. PICK c \in Contract : c = Job.target
    BY <1>w, <2>0
  <2>1. PICK cov \in {"low", "high"} :
          SaveRow(c, [status |-> "done", cov |-> cov, drift |-> FALSE, fit |-> TRUE])
    BY <1>13, <2>c DEF Fit
  <2>. DEFINE row == [status |-> "done", cov |-> cov, drift |-> FALSE, fit |-> TRUE]
  <2>2. row \in RegistryRow /\ row.fit /\ row.status = "done"
    BY DEF RegistryRow
  <2>3. /\ fitAge' = [fitAge EXCEPT ![c] = 0]
        /\ autoAge' = [autoAge EXCEPT ![c] = IF Job.auto THEN 0 ELSE Interval]
        /\ jobRow' = [jobRow EXCEPT ![worker.id].fitted = TRUE]
        /\ worker' = [worker EXCEPT !.at = "closing"] /\ Kind = "onboard"
    BY <1>13, <2>c DEF Fit, Closing
  <2>4. /\ worker.id \in Nonterminal /\ worker.id \in JobId /\ Job = jobRow[worker.id] /\ Job \in JobRecord
        /\ \A j \in Nonterminal : jobRow[j].target = c => j = worker.id
    BY <1>w, <2>0, <2>c DEF Nonterminal, Job
  <2>5. /\ registry' \in [Contract -> RegistryRow] /\ registry' = [registry EXCEPT ![c] = row]
        /\ recent' \in Seq(Contract) /\ \A i, j \in DOMAIN recent' : recent'[i] = recent'[j] => i = j
    BY <1>t, <2>1, <2>2, SaveRowKeeps
  <2>. DEFINE open == [Job EXCEPT !.fitted = TRUE]
  <2>6. open \in JobRecord /\ open.target = c /\ open.auto = Job.auto /\ open.kind = "onboard" /\ open.fitted
        /\ open # NoJobRow
    BY <2>3, <2>4, <2>c DEF JobRecord, Kind, NoJobRow
  <2>7. jobRow' = [jobRow EXCEPT ![worker.id] = open]
    BY <2>3, <2>4
  <2>. HIDE DEF row, open
  <2>8. /\ jobRow' \in [JobId -> JobRecord \cup {NoJobRow}] /\ jobRow'[worker.id] = open
        /\ \A j \in JobId \ {worker.id} : jobRow'[j] = jobRow[j]
    BY <1>y, <2>4, <2>6, <2>7
  <2>9. Nonterminal' = Nonterminal
    BY <2>4, <2>6, <2>8 DEF Nonterminal
  <2>10. \A j \in Nonterminal : jobRow'[j].target = jobRow[j].target
    BY <2>4, <2>6, <2>8, <2>c DEF Nonterminal
  <2>11. OneJobPerContract'
    BY <1>t, <2>9, <2>10 DEF OneJobPerContract
  <2>12. worker' \in WorkerRecord /\ worker'.id \in Nonterminal
    BY <1>y, <2>0, <2>3, <2>4 DEF WorkerRecord
  <2>13. /\ fitAge' \in [Contract -> Nat] /\ autoAge' \in [Contract -> Nat] /\ fitAge'[c] = 0 /\ registry'[c] = row
         /\ autoAge'[c] = (IF Job.auto THEN 0 ELSE Interval)
         /\ \A d \in Contract \ {c} : autoAge'[d] = autoAge[d] /\ fitAge'[d] = fitAge[d] /\ registry'[d] = registry[d]
    BY <1>0, <1>y, <2>3, <2>5
  <2>14. JobsTypes'
    BY <1>y, <2>0, <2>5, <2>8, <2>9, <2>12, <2>13 DEF JobsTypes
  <2>15. ASSUME autoAge'[c] < Interval
         PROVE  /\ RowAllowed(c)' /\ \A j \in Nonterminal' : jobRow'[j].target = c => JobAllowed(j)'
                /\ \E j \in Nonterminal : jobRow[j].auto /\ jobRow[j].target = c
    <3>1. Job.auto
      BY <1>0, <2>13, <2>15
    <3>2. RowAllowed(c)'
      BY <2>2, <2>13, <3>1 DEF RowAllowed, FitStands
    <3>3. \A j \in Nonterminal' : jobRow'[j].target = c => jobRow'[j] = open
      BY <2>4, <2>8, <2>9, <2>10
    <3>4. \A j \in Nonterminal' : jobRow'[j].target = c => JobAllowed(j)'
      BY <2>6, <3>1, <3>3 DEF JobAllowed
    <3>. QED BY <2>4, <2>c, <3>1, <3>2, <3>4
  <2>16. /\ \A j \in Nonterminal' : jobRow'[j].target # c => j \in Nonterminal /\ jobRow'[j] = jobRow[j]
         /\ \A j \in Nonterminal' : jobRow'[j].target = c =>
              /\ jobRow'[j].auto => j \in Nonterminal /\ jobRow[j].auto /\ jobRow[j].target = c
              /\ jobRow'[j].fitted => c \in enough'
    <3>1. \A j \in Nonterminal : j \in JobId /\ (j = worker.id => jobRow[j] = Job /\ jobRow'[j] = open)
      BY <2>4, <2>8 DEF Nonterminal
    <3>. QED BY <2>0, <2>4, <2>6, <2>8, <2>9, <2>10, <2>c, <3>1
  <2>. QED BY <2>0, <2>11, <2>13, <2>14, <2>15, <2>16, OneContractTouched
<1>14. CASE Visit
  <2>. DEFINE seen == Head(feed.rows)
              kind == seen.kind
              goes == seen.target \notin feed.busy /\ kind # "skip" /\ StillFree(seen.target)
              c == seen.target
              rows == feed.rows
  <2>1. /\ feed.at = "visit" /\ rows # <<>>
        /\ IF goes THEN EnqueueJob(c, kind, TRUE) ELSE UNCHANGED jobRow
        /\ feed' = [feed EXCEPT !.rows = Tail(@), !.sent = IF goes THEN @ + 1 ELSE @]
        /\ UNCHANGED <<registry, fitAge, autoAge, recent, worker, enough>>
    BY <1>14 DEF Visit
  <2>2. rows \in Seq(ListedRow)
    BY <1>y DEF FeedRecord
  <2>3. /\ Len(rows) \in Nat \ {0} /\ DOMAIN rows = 1..Len(rows)
        /\ Tail(rows) \in Seq(ListedRow) /\ Len(Tail(rows)) = Len(rows) - 1
        /\ DOMAIN Tail(rows) = 1..(Len(rows) - 1)
        /\ \A k \in 1..(Len(rows) - 1) : k + 1 \in DOMAIN rows /\ Tail(rows)[k] = rows[k + 1]
    <3>1. Len(rows) \in Nat \ {0} /\ DOMAIN rows = 1..Len(rows)
      BY <2>1, <2>2, LenProperties, EmptySeq
    <3>2. Tail(rows) \in Seq(ListedRow) /\ Len(Tail(rows)) = Len(rows) - 1
      BY <2>1, <2>2, HeadTailProperties
    <3>3. DOMAIN Tail(rows) = 1..(Len(rows) - 1)
      BY <3>2, LenProperties
    <3>4. \A k \in 1..(Len(rows) - 1) : k + 1 \in 1..Len(rows)
      BY <3>1
    <3>5. \A k \in 1..(Len(rows) - 1) : Tail(rows)[k] = rows[k + 1]
      BY <2>1, <2>2, <3>2, HeadTailProperties
    <3>. QED BY <3>1, <3>2, <3>3, <3>4, <3>5
  <2>4. 1 \in DOMAIN rows /\ seen = rows[1] /\ seen \in ListedRow /\ c \in Contract
    <3>1. 1 \in DOMAIN rows
      BY <2>3
    <3>2. seen = rows[1] /\ seen \in ListedRow
      BY <2>1, <2>2, HeadTailProperties
    <3>. QED BY <3>1, <3>2 DEF ListedRow
  <2>5. /\ feed'.at = "visit" /\ feed'.busy = feed.busy /\ feed'.rows = Tail(rows)
        /\ feed' \in FeedRecord
    <3>1. \E n \in Nat : feed' = [feed EXCEPT !.rows = Tail(rows), !.sent = n]
      <4>1. feed.sent \in Nat
        BY <1>y DEF FeedRecord
      <4>2. feed.sent + 1 \in Nat
        BY <4>1
      <4>. QED BY <2>1, <4>1, <4>2
    <3>. QED BY <1>y, <2>1, <2>3, <3>1 DEF FeedRecord
  <2>l. /\ \A k, m \in DOMAIN rows : rows[k].target = rows[m].target => k = m
        /\ \A i \in Nonterminal : jobRow[i].auto =>
             \/ jobRow[i].target \in feed.busy
             \/ \A k \in DOMAIN rows : rows[k].target # jobRow[i].target
        /\ \A k \in DOMAIN rows : rows[k].target \notin feed.busy /\ autoAge[rows[k].target] < Interval =>
             rows[k].kind # "onboard" /\ (rows[k].kind = "classify" => FitStands(rows[k].target))
    BY <1>t, <2>1 DEF ListingTrue
  <2>6. /\ \A k, m \in DOMAIN feed'.rows : feed'.rows[k].target = feed'.rows[m].target => k = m
        /\ \A k \in DOMAIN feed'.rows : feed'.rows[k].target # c
        /\ \A k \in DOMAIN feed'.rows : feed'.rows[k].target \notin feed.busy /\ autoAge[feed'.rows[k].target] < Interval =>
             feed'.rows[k].kind # "onboard" /\ (feed'.rows[k].kind = "classify" => FitStands(feed'.rows[k].target))
        /\ \A k \in DOMAIN feed'.rows : \E m \in DOMAIN rows : feed'.rows[k] = rows[m]
    <3>0. DOMAIN feed'.rows = 1..(Len(rows) - 1)
          /\ \A k \in DOMAIN feed'.rows : k + 1 \in DOMAIN rows /\ feed'.rows[k] = rows[k + 1] /\ k \in Nat /\ k + 1 # 1
      BY <2>3, <2>5
    <3>. HIDE DEF rows, seen
    <3>1. ASSUME NEW k \in DOMAIN feed'.rows, NEW m \in DOMAIN feed'.rows, feed'.rows[k].target = feed'.rows[m].target
          PROVE  k = m
      <4>1. k + 1 = m + 1
        BY <2>l, <3>0, <3>1
      <4>. QED BY <3>0, <4>1
    <3>2. ASSUME NEW k \in DOMAIN feed'.rows PROVE feed'.rows[k].target # c
      BY <2>l, <2>4, <3>0
    <3>. QED BY <2>l, <3>0, <3>1, <3>2
  <2>. HIDE DEF rows, seen, kind, goes
  <2>7. CASE ~goes
    <3>1. UNCHANGED jobRow
      BY <2>1, <2>7
    <3>2. Nonterminal' = Nonterminal
      BY <3>1 DEF Nonterminal
    <3>3. ListingTrue'
      BY <2>1, <2>5, <2>6, <2>l, <3>1, <3>2 DEF ListingTrue, FitStands
    <3>. QED BY <1>n, <1>y, <2>1, <2>5, <3>1, <3>3
  <2>8. CASE goes
    <3>1. EnqueueJob(c, kind, TRUE) /\ c \notin Busy /\ c \notin feed.busy /\ kind # "skip"
      BY <2>1, <2>8 DEF goes, StillFree
    <3>2. kind \in {"onboard", "classify"}
      BY <2>4, <3>1 DEF kind, ListedRow
    <3>3. autoAge[c] < Interval => kind = "classify" /\ FitStands(c)
      BY <2>l, <2>4, <3>1, <3>2 DEF kind
    <3>4. jobRow' \in [JobId -> JobRecord \cup {NoJobRow}] /\ OneJobPerContract'
      BY <1>t, <2>4, <3>1, <3>2, EnqueueKeeps
    <3>5. PICK i \in JobId \ Nonterminal :
            /\ Nonterminal' = Nonterminal \cup {i}
            /\ jobRow'[i] = [target |-> c, kind |-> kind, auto |-> TRUE, fitted |-> FALSE]
            /\ \A j \in Nonterminal : jobRow'[j] = jobRow[j]
      BY <1>t, <2>4, <3>1, <3>2, EnqueueKeeps, ZenonT(60)
    <3>6. JobsTypes'
      BY <1>y, <2>1, <2>5, <3>4, <3>5 DEF JobsTypes
    <3>7. FitOnRow'
      <4>0. \A d \in Contract : FitStands(d)' <=> FitStands(d)
        BY <2>1 DEF FitStands
      <4>1. \A d \in Contract : RowAllowed(d)'
        BY <1>t, <2>1, <4>0 DEF FitOnRow, RowAllowed
      <4>2. ASSUME NEW j \in Nonterminal' PROVE JobAllowed(j)' /\ (jobRow'[j].fitted => jobRow'[j].target \in enough')
        <5>1. CASE j = i
          BY <2>1, <2>4, <3>3, <3>5, <4>0, <5>1 DEF JobAllowed
        <5>2. CASE j # i
          <6>1. j \in Nonterminal /\ jobRow'[j] = jobRow[j] /\ jobRow[j].target \in Contract
            BY <1>j, <3>5, <5>2
          <6>2. JobAllowed(j) /\ (jobRow[j].fitted => jobRow[j].target \in enough)
            BY <1>t, <6>1 DEF FitOnRow
          <6>. QED BY <2>1, <4>0, <6>1, <6>2 DEF JobAllowed
        <5>. QED BY <5>1, <5>2
      <4>. QED BY <4>1, <4>2 DEF FitOnRow
    <3>8. ListingTrue'
      <4>1. ASSUME NEW j \in Nonterminal', jobRow'[j].auto
            PROVE  \/ jobRow'[j].target \in feed.busy
                   \/ \A k \in DOMAIN feed'.rows : feed'.rows[k].target # jobRow'[j].target
        <5>1. CASE j = i
          BY <2>6, <3>5, <5>1
        <5>2. CASE j # i
          BY <2>6, <2>l, <3>5, <4>1, <5>2
        <5>. QED BY <5>1, <5>2
      <4>. QED BY <2>1, <2>5, <2>6, <4>1 DEF ListingTrue, FitStands
    <3>. QED BY <3>4, <3>6, <3>7, <3>8 DEF JobsInv
  <2>. QED BY <2>7, <2>8
<1>15. CASE OthersVisited
  <2>1. feed' = [feed EXCEPT !.sent = @ + 1] /\ UNCHANGED <<registry, fitAge, autoAge, recent, jobRow, worker, enough>>
    BY <1>15 DEF OthersVisited
  <2>2. feed' \in FeedRecord /\ feed'.at = feed.at /\ feed'.busy = feed.busy /\ feed'.rows = feed.rows
    <3>1. feed.sent \in Nat
      BY <1>y DEF FeedRecord
    <3>2. PICK n \in Nat : n = feed.sent + 1
      BY <3>1
    <3>3. feed' = [feed EXCEPT !.sent = n]
      BY <2>1, <3>2
    <3>. QED BY <1>y, <3>3 DEF FeedRecord
  <2>3. Nonterminal' = Nonterminal
    BY <2>1 DEF Nonterminal
  <2>4. ListingTrue'
    BY <1>t, <2>1, <2>2, <2>3 DEF ListingTrue, FitStands
  <2>. QED BY <1>n, <1>y, <2>1, <2>2, <2>4
<1>16. CASE ClockTicks
  <2>1. /\ fitAge' = [c \in Contract |-> Older(fitAge[c])] /\ autoAge' = [c \in Contract |-> Older(autoAge[c])]
        /\ UNCHANGED <<registry, recent, jobRow, worker, feed, enough>>
    BY <1>16 DEF ClockTicks
  <2>2. \A n \in Nat : Older(n) \in Nat /\ n <= Older(n) /\ (Older(n) < Interval => n < Interval)
    BY <1>0 DEF Older
  <2>3. \A m, n \in Nat : m <= n /\ n < Interval => Older(m) <= Older(n)
    BY <1>0 DEF Older
  <2>4. /\ fitAge' \in [Contract -> Nat] /\ autoAge' \in [Contract -> Nat]
        /\ \A c \in Contract : fitAge'[c] = Older(fitAge[c]) /\ autoAge'[c] = Older(autoAge[c])
    BY <1>y, <2>1, <2>2
  <2>5. \A c \in Contract : autoAge'[c] < Interval => autoAge[c] < Interval /\ (FitStands(c) => FitStands(c)')
    <3>1. SUFFICES ASSUME NEW c \in Contract, autoAge'[c] < Interval
                   PROVE  autoAge[c] < Interval /\ (FitStands(c) => FitStands(c)')
      OBVIOUS
    <3>2. fitAge[c] \in Nat /\ autoAge[c] \in Nat /\ autoAge[c] < Interval
      BY <1>y, <2>2, <2>4, <3>1
    <3>3. fitAge[c] <= autoAge[c] => fitAge'[c] <= autoAge'[c]
      BY <2>3, <2>4, <3>2
    <3>. QED BY <2>1, <3>2, <3>3 DEF FitStands
  <2>6. Nonterminal' = Nonterminal /\ OneJobPerContract'
    BY <1>t, <2>1 DEF Nonterminal, OneJobPerContract
  <2>7. JobsTypes'
    BY <1>y, <2>1, <2>4, <2>6 DEF JobsTypes
  <2>8. FitOnRow'
    <3>1. \A c \in Contract : RowAllowed(c)'
      BY <1>t, <2>1, <2>5 DEF FitOnRow, RowAllowed
    <3>2. \A i \in Nonterminal' : JobAllowed(i)'
      BY <1>j, <1>t, <2>1, <2>5, <2>6 DEF FitOnRow, JobAllowed
    <3>. QED BY <1>t, <2>1, <2>6, <3>1, <3>2 DEF FitOnRow
  <2>9. ListingTrue'
    <3>1. \A k \in DOMAIN feed.rows : feed.rows[k].target \in Contract
      <4>1. feed.rows \in Seq(ListedRow)
        BY <1>y DEF FeedRecord
      <4>2. \A k \in DOMAIN feed.rows : feed.rows[k] \in ListedRow
        BY <4>1, LenProperties, ElementOfSeq
      <4>. QED BY <4>2 DEF ListedRow
    <3>. QED BY <1>t, <2>1, <2>5, <2>6, <3>1 DEF ListingTrue
  <2>. QED BY <2>6, <2>7, <2>8, <2>9 DEF JobsInv
<1>17. ASSUME UNCHANGED jobsVars \/ \E c \in Contract : HistoryLands(c) \/ TxsArrive(c) PROVE JobsInv'
  <2>1. UNCHANGED <<registry, fitAge, autoAge, recent, jobRow, worker, feed>> /\ enough \subseteq enough'
    BY <1>17 DEF jobsVars, HistoryLands, TxsArrive
  <2>. QED BY <1>m, <1>n, <1>y, <2>1
<1>. QED BY <1>1, <1>2, <1>3, <1>4, <1>5, <1>6, <1>7, <1>8, <1>9, <1>10, <1>11, <1>12, <1>13,
            <1>14, <1>15, <1>16, <1>17 DEF JobsNext

\* A sidecar that starts with a watchlist, or stays off, has the invariant.
LEMMA JobsInitially == ASSUME NEW on \in BOOLEAN, JobsInit(on) PROVE JobsInv
<1>0. Interval \in Nat /\ IsFiniteSet(Contract)
  BY JobsAssumption
<1>1. registry \in [Contract -> RegistryRow]
  <2>1. Absent \in RegistryRow /\ [Absent EXCEPT !.status = "pending"] \in RegistryRow
    BY DEF Absent, RegistryRow
  <2>. QED BY <2>1 DEF JobsInit
<1>2. /\ fitAge \in [Contract -> Nat] /\ autoAge \in [Contract -> Nat]
      /\ \A c \in Contract : autoAge[c] = Interval
  BY <1>0 DEF JobsInit
<1>3. recent \in Seq(Contract) /\ \A i, j \in DOMAIN recent : recent[i] = recent[j] => i = j
  <2>1. CASE ~on
    <3>1. recent = <<>>
      BY <2>1 DEF JobsInit
    <3>. QED BY <3>1, EmptySeq
  <2>2. CASE on
    <3>. DEFINE n == Cardinality(Contract)
    <3>1. n \in Nat
      BY <1>0, FS_CardinalityType
    <3>2. ExistsBijection(1..n, Contract)
      BY <1>0, FS_CardinalityType
    <3>3. \E f \in [1..n -> Contract] : IsInjective(f)
      BY <3>2 DEF ExistsBijection, Bijection, Injection
    <3>4. recent = CHOOSE g \in [1..n -> Contract] : IsInjective(g)
      BY <2>2 DEF JobsInit, SetToSeq
    <3>5. recent \in [1..n -> Contract] /\ IsInjective(recent)
      BY <3>3, <3>4
    <3>6. DOMAIN recent = 1..n /\ recent \in Seq(Contract)
      BY <3>1, <3>5
    <3>. QED BY <3>5, <3>6 DEF IsInjective
  <2>. QED BY <2>1, <2>2
<1>4. Nonterminal = {} /\ jobRow \in [JobId -> JobRecord \cup {NoJobRow}]
  BY DEF JobsInit, Nonterminal
<1>5. worker \in WorkerRecord /\ worker.at = "idle"
  BY DEF JobsInit, Idling, WorkerRecord
<1>6. /\ feed \in FeedRecord
      /\ feed.rows = <<>> /\ feed.at \notin {"list", "visit"}
  <2>1. <<>> \in Seq(ListedRow)
    BY EmptySeq
  <2>2. \E a \in {"off", "idle"} : feed = [at |-> a, busy |-> {}, rows |-> <<>>, sent |-> 0]
    BY DEF JobsInit
  <2>. QED BY <2>1, <2>2 DEF FeedRecord
<1>7. JobsTypes
  BY <1>1, <1>2, <1>3, <1>4, <1>5, <1>6 DEF JobsTypes
<1>8. OneJobPerContract /\ FitOnRow
  BY <1>0, <1>2, <1>4 DEF OneJobPerContract, FitOnRow, RowAllowed
<1>9. ListingTrue
  BY <1>4, <1>6, EmptySeq DEF ListingTrue
<1>. QED BY <1>7, <1>8, <1>9 DEF JobsInv

\* The invariant is enough: no contract has two unfinished jobs, and the feed has no fit
\* under way within the interval of its last one.
LEMMA JobsInvSound == JobsInv => OneJobPerContract /\ RefitsThrottled
<1>. SUFFICES ASSUME JobsInv PROVE OneJobPerContract /\ RefitsThrottled
  OBVIOUS
<1>1. ASSUME NEW i \in Nonterminal, jobRow[i].kind = "onboard", ~jobRow[i].fitted
      PROVE  autoAge[jobRow[i].target] >= Interval
  <2>1. JobAllowed(i)
    BY DEF JobsInv, FitOnRow
  <2>2. ~(autoAge[jobRow[i].target] < Interval)
    BY <1>1, <2>1 DEF JobAllowed
  <2>3. autoAge[jobRow[i].target] \in Nat /\ Interval \in Nat
    BY JobsAssumption DEF JobsInv, JobsTypes, Nonterminal, JobRecord
  <2>. QED BY <2>2, <2>3
<1>. QED BY <1>1 DEF JobsInv, RefitsThrottled

-----------------------------------------------------------------------------
(* The four together                                                       *)

\* What the four components keep, each of its own state.
ServicesInv == BackfillInv /\ KupoInv /\ JobsInv /\ PollerInv

\* Every component starts with its own invariant, running or off.
LEMMA ServicesInitially == Init => ServicesInv
<1>. SUFFICES ASSUME NEW part \in {"reconnect", "leader", "feed", "backfill", "kupo", "jobs", "poller"},
                     BackfillInit(part = "backfill"), KupoInit(part = "kupo"),
                     JobsInit(part = "jobs"), PollerInit(part = "poller")
              PROVE  ServicesInv
  BY DEF Init
<1>1. /\ (part = "backfill") \in BOOLEAN /\ (part = "kupo") \in BOOLEAN
      /\ (part = "jobs") \in BOOLEAN /\ (part = "poller") \in BOOLEAN
  BY Zenon
<1>2. BackfillInv
  BY <1>1, BackfillInitially
<1>3. KupoInv
  BY <1>1, KupoInitially
<1>4. JobsInv
  BY <1>1, JobsInitially
<1>5. PollerInv
  BY <1>1, PollerInitially
<1>. QED BY <1>2, <1>3, <1>4, <1>5 DEF ServicesInv

\* A step of one component is a stutter of the others.
LEMMA ServicesInductive == ServicesInv /\ [Next]_allVars => ServicesInv'
<1>. SUFFICES ASSUME ServicesInv, [Next]_allVars PROVE ServicesInv'
  OBVIOUS
<1>1. [BackfillNext]_backfillVars /\ [KupoNext]_kupoVars /\ [JobsNext]_jobsVars /\ [PollerNext]_pollerVars
  BY DEF Next, allVars
<1>2. BackfillInv'
  BY <1>1, BackfillInductive DEF ServicesInv
<1>3. KupoInv'
  BY <1>1, KupoInductive DEF ServicesInv
<1>4. JobsInv'
  BY <1>1, JobsInductive DEF ServicesInv
<1>5. PollerInv'
  BY <1>1, PollerInductive DEF ServicesInv
<1>. QED BY <1>2, <1>3, <1>4, <1>5 DEF ServicesInv

\* No long-running work is started twice or beyond its limit (api/backfill.py,
\* service/history.py, jobs.py, service/scheduler.py, the poller), for any number of
\* addresses, targets, contracts and transactions, whatever requests race and whenever
\* the sidecar crashes: an alert repeats as often as its dedup check failed or its claim
\* was lost, a re-fit only in a job that died after its fit was saved.
THEOREM NothingIsDoneTwice == Spec => []NothingTwice
<1>1. ServicesInv => NothingTwice
  BY BackfillInvSound, KupoInvSound, JobsInvSound, PollerInvSound DEF ServicesInv, NothingTwice
<1>. QED BY <1>1, ServicesInitially, ServicesInductive, PTL DEF Spec

\* What is reported as done was done: a backfill's result lists what is stored, and a
\* history is complete only after a bounded scan, the sidecar's own or an operator's.
THEOREM ReportsAreHonest == Spec => []ReportsHonest
<1>1. ServicesInv => ReportsHonest
  BY BackfillInvSound, KupoInvSound DEF ServicesInv, ReportsHonest
<1>. QED BY <1>1, ServicesInitially, ServicesInductive, PTL DEF Spec
=============================================================================
