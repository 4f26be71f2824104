-------------------------- MODULE ServicesProofs ---------------------------
(***************************************************************************)
(* What the services of the host keep that share no state with each other: *)
(* the limiter's windows (rate_limit.py), sign-in and administration       *)
(* (auth/, api/auth.py, api/users.py), the learned baselines               *)
(* (analysis/baselines.py), the periodic report (notifications/reports.py) *)
(* and the sidecar's projection into the host's table (publish.py).        *)
(***************************************************************************)
EXTENDS Auth, RateLimiter, Baselines, Reports, Publish, DataLemmas

-----------------------------------------------------------------------------
(* The rate limiter                                                        *)

\* Ages under a key, oldest first, never more than max_requests of them.
WindowSorted(k) ==
  /\ windows[k] \in Seq(0..WindowTicks) /\ Len(windows[k]) <= MaxRequests
  /\ \A i, j \in 1..Len(windows[k]) : i <= j => windows[k][j] <= windows[k][i]

\* What was let through within the last window is what the window would hold after an
\* eviction: neither the eviction nor the cleanup task forgets a request too early.
WindowRemembers(k) == granted[k] = Live(windows[k])

\* A key that was told to wait waits until its oldest request expires.
WaitCoversOldest(k) ==
  retryIn[k] > 0 => windows[k] = <<>> \/ windows[k][1] + retryIn[k] >= WindowTicks

LimiterInv ==
  /\ windows \in [Key -> Seq(0..WindowTicks)] /\ granted \in [Key -> Seq(0..WindowTicks)]
  /\ retryIn \in [Key -> Nat]
  /\ \A k \in Key : WindowSorted(k) /\ WindowRemembers(k) /\ WaitCoversOldest(k)

-----------------------------------------------------------------------------
(* Sign-in and administration                                              *)

Stage == {"off", "idle", "revoke", "insert", "getUser", "create", "claim", "route", "write"}
Purpose == {"none", "login", "invite"}
RequestRecord ==
  [at : Stage, actor : User \cup {NoOne}, user : User \cup {NoOne}, tok : Token \cup {NoOne},
   ses : User \cup Nat \cup {NoOne}, purpose : Purpose, verb : Verb \cup {"none"}]
TokenRecord == [user : User, purpose : Purpose, left : 1..Redemptions]
SessionRecord == [user : User, from : Token \cup {NoOne}]

AuthTypes ==
  /\ role \in [User -> {"none", "Admin", "Reviewer"}]
  /\ DOMAIN token \subseteq Token /\ \A t \in DOMAIN token : token[t] \in TokenRecord
  /\ DOMAIN session \subseteq User \cup Nat /\ \A s \in DOMAIN session : session[s] \in SessionRecord
  /\ links \in 1..MaxLinks /\ logins \in Nat
  /\ req \in [Request -> RequestRecord]
  /\ minted \in [Token -> Nat] /\ before \in [Token -> SUBSET Token]
  /\ \A r \in Request : req[r].at \notin {"off", "idle"} => req[r].user \in User
  /\ \A r \in Request : req[r].at \in {"insert", "getUser", "create"} => req[r].tok \in 1..links

\* The requests that are redeeming a link: it is consumed, the session is not there yet.
Redeeming(t) == {r \in Request : req[r].at \in {"getUser", "create"} /\ req[r].tok = t}

\* A link that nobody has seen yet.
Unseen(t) ==
  /\ t \notin DOMAIN token /\ minted[t] = 0 /\ Redeeming(t) = {}
  /\ \A n \in Token : t \notin before[n]

\* A link is unseen until its insert, and one request inserts it.
LinksFresh ==
  /\ \A t \in Token : t > links => Unseen(t)
  /\ \A r \in Request : req[r].at = "insert" => Unseen(req[r].tok)
  /\ \A r, q \in Request :
       req[r].at = "insert" /\ req[q].at = "insert" /\ req[r].tok = req[q].tok => r = q

\* What a link still allows, what is being redeemed and what was minted fit its budget.
BudgetSplit ==
  \A t \in Token :
    /\ t \in DOMAIN token => minted[t] + Cardinality(Redeeming(t)) + token[t].left <= Redemptions
    /\ minted[t] + Cardinality(Redeeming(t)) <= Redemptions

\* A link about to be inserted has outlived those that were out when its issue began.
InsertRevokes ==
  \A r \in Request : req[r].at = "insert" =>
    \A t \in DOMAIN token :
      token[t].user = req[r].user /\ token[t].purpose = req[r].purpose => t \notin before[req[r].tok]

\* Who writes holds the lock, and unless it promotes leaves another admin behind.
WriterSafe ==
  \A r \in Request : req[r].at = "write" =>
    /\ adminLock = r /\ req[r].verb \in {"demote", "promote", "delete"}
    /\ req[r].verb # "promote" => \E o \in User \ {req[r].user} : role[o] = "Admin"

LinksInv == LinksFresh /\ BudgetSplit /\ InsertRevokes /\ OldLinkRevoked
AdminsInv == WriterSafe /\ AdminRemains
AuthInv == AuthTypes /\ LinksInv /\ AdminsInv

-----------------------------------------------------------------------------
(* The learned baselines                                                   *)

BaselineRow == [p50 : Nat, p99 : Nat, enough : BOOLEAN, set : BOOLEAN]

BaselineTypes ==
  /\ table \in [Scope -> BaselineRow] /\ inverted \in BOOLEAN
  /\ cached \in [Scope -> [row : BaselineRow, age : Nat]]
  /\ replaced \in [Scope -> Nat]
  /\ job \in [at : {"idle", "query", "filter", "insert", "next"}, todo : Seq(Scope),
              new : BaselineRow, stop : BOOLEAN, full : BOOLEAN]
  /\ job.at # "idle" => job.todo # <<>>
  /\ lookup \in [at : {"idle", "read"}, scope : Scope, row : BaselineRow]

\* A fresh entry that differs from the table was read before the last replacement, so
\* that the replacement is no older than the entry.
CacheDated ==
  \A s \in Scope : cached[s].age < Ttl =>
    cached[s].row = table[s] \/ replaced[s] <= cached[s].age

\* A row read a moment ago is the table's, or the table's was replaced a moment ago.
LookupDated ==
  lookup.at = "read" => lookup.row = table[lookup.scope] \/ replaced[lookup.scope] = 0

\* A row about to be inserted passed the guard against the row it replaces, unless the
\* guard saw a row that was replaced within the time to live.
InsertGuarded ==
  job.at = "insert" =>
    ~DriftHeld(table[Head(job.todo)], job.new) \/ replaced[Head(job.todo)] < Ttl

BaselineInv == BaselineTypes /\ CacheDated /\ LookupDated /\ InsertGuarded

-----------------------------------------------------------------------------
(* The periodic report                                                     *)

Building == report.at \in {"count", "anomalies", "csv", "dispatch", "mark"}

ReportTypes ==
  /\ today \in Nat /\ lastSent \in Nat \cup {Never} /\ lastTo \in Nat \cup {Never}
  /\ analyzed \in [Alert -> Nat \cup {Never}] /\ stamped \in [Alert -> Nat \cup {Never}]
  /\ stamps \in [Anomalous -> SUBSET Nat]
  /\ report \in [at : {"idle", "count", "anomalies", "csv", "dispatch", "mark"},
                 from : Int, to : Nat, body : SUBSET ((Alert \cup Anomalous) \X Nat)]
  /\ markLost \in BOOLEAN /\ reportFaults \in Nat

\* A boundary, a report that was sent and one that is being built end in the past, and an
\* insert is not later than InsertDelay.
OnTime ==
  /\ lastSent <= lastTo /\ lastTo <= today
  /\ \A tx \in Alert : stamped[tx] # Never => today <= stamped[tx] + InsertDelay
  /\ Building => lastSent <= report.to /\ report.to <= today

\* A report that is being built has read every score row of its window that was due at its
\* end, and so for the sidecar's findings.
BodyComplete ==
  /\ report.at \in {"anomalies", "csv", "dispatch"} =>
       \A tx \in Alert :
         (analyzed[tx] # Never /\ report.from <= analyzed[tx] /\ analyzed[tx] + InsertDelay < report.to) =>
           <<tx, analyzed[tx]>> \in report.body
  /\ report.at \in {"csv", "dispatch"} /\ reportFaults = 0 =>
       \A tx \in Anomalous : \A s \in stamps[tx] :
         (report.from <= s /\ s < report.to) => <<tx, s>> \in report.body

\* What was due at the end of the last report sent is in a report, or in a gap: the
\* boundary may lag behind that end.
SentComplete ==
  /\ \A tx \in Alert :
       (analyzed[tx] # Never /\ analyzed[tx] + InsertDelay < lastTo /\ analyzed[tx] \notin gaps) =>
         <<tx, analyzed[tx]>> \in reported
  /\ reportFaults = 0 =>
       \A tx \in Anomalous : \A s \in stamps[tx] \ gaps : s < lastTo => <<tx, s>> \in reported

\* The boundary is that of the last report, or it was lost, or is about to be written.
BoundaryKnown ==
  /\ report.at = "mark" => report.to = lastTo
  /\ lastTo # Never => lastSent = lastTo \/ markLost \/ report.at = "mark"

ReportInv ==
  ReportTypes /\ OnTime /\ BodyComplete /\ SentComplete /\ BoundaryKnown /\ ReportsPaced

-----------------------------------------------------------------------------
(* The limiter keeps its invariant                                         *)

\* The number of requests an eviction pops is determined by what it leaves.
LEMMA ExpiredIs ==
  ASSUME NEW s \in Seq(0..WindowTicks)
  PROVE  /\ Expired(s) \in 0..Len(s)
         /\ \A i \in 1..Expired(s) : s[i] >= WindowTicks
         /\ Expired(s) < Len(s) => s[Expired(s) + 1] < WindowTicks
         /\ \A n \in 0..Len(s) : (\A i \in 1..n : s[i] >= WindowTicks)
              /\ (n < Len(s) => s[n + 1] < WindowTicks) => Expired(s) = n
<1>. DEFINE P(n) == (\A i \in 1..n : s[i] >= WindowTicks) /\ (n < Len(s) => s[n + 1] < WindowTicks)
<1>0. WindowTicks \in Nat
  BY RateAssumption DEF WindowTicks
<1>1. Len(s) \in Nat /\ \A i \in 1..Len(s) : s[i] \in 0..WindowTicks
  BY LenProperties, ElementOfSeq
<1>2. \E n \in 0..Len(s) : P(n)
  <2>1. CASE \A i \in 1..Len(s) : s[i] >= WindowTicks
    BY <1>1, <2>1
  <2>2. CASE ~ \A i \in 1..Len(s) : s[i] >= WindowTicks
    <3>. DEFINE T == {i \in 1..Len(s) : ~(s[i] >= WindowTicks)}
    <3>1. T # {} /\ T \in SUBSET Nat
      BY <1>1, <2>2
    <3>2. PICK m \in T : \A j \in T : m <= j
      BY <3>1, LeastNat
    <3>3. m - 1 \in 0..Len(s) /\ m \in 1..Len(s) /\ s[m] < WindowTicks
      BY <1>0, <1>1, <3>2
    <3>4. \A i \in 1..(m - 1) : s[i] >= WindowTicks
      BY <1>1, <3>2, <3>3
    <3>5. P(m - 1)
      BY <3>3, <3>4
    <3>. QED BY <3>3, <3>5
  <2>. QED BY <2>1, <2>2
<1>3. \A m, n \in 0..Len(s) : P(m) /\ P(n) => ~(m < n)
  BY <1>0, <1>1
<1>4. \A m, n \in 0..Len(s) : P(m) /\ P(n) => m = n
  BY <1>1, <1>3
<1>5. Expired(s) = CHOOSE n \in 0..Len(s) : P(n)
  BY DEF Expired
<1>. HIDE DEF P
<1>6. Expired(s) \in 0..Len(s) /\ P(Expired(s))
  BY <1>2, <1>5
<1>7. \A n \in 0..Len(s) : P(n) => Expired(s) = n
  BY <1>4, <1>6
<1>. QED BY <1>6, <1>7 DEF P

\* What the eviction leaves.
LEMMA LiveIs ==
  ASSUME NEW s \in Seq(0..WindowTicks)
  PROVE  /\ Live(s) \in Seq(0..WindowTicks) /\ Len(Live(s)) = Len(s) - Expired(s)
         /\ \A i \in 1..Len(Live(s)) : Live(s)[i] = s[i + Expired(s)]
<1>. DEFINE e == Expired(s)
<1>1. e \in 0..Len(s) /\ Len(s) \in Nat
  BY ExpiredIs, LenProperties
<1>2. Live(s) = SubSeq(s, e + 1, Len(s))
  BY DEF Live
<1>. HIDE DEF e
<1>3. e + 1 \in Int /\ Len(s) \in Int /\ \A i \in (e + 1)..Len(s) : s[i] \in 0..WindowTicks
  <2>1. \A i \in 1..Len(s) : s[i] \in 0..WindowTicks
    BY ElementOfSeq
  <2>2. \A i \in (e + 1)..Len(s) : i \in 1..Len(s)
    BY <1>1
  <2>. QED BY <1>1, <2>1, <2>2
<1>4. /\ Live(s) \in Seq(0..WindowTicks)
      /\ Len(Live(s)) = IF e + 1 <= Len(s) THEN Len(s) - (e + 1) + 1 ELSE 0
      /\ \A i \in 1..(Len(s) - (e + 1) + 1) : Live(s)[i] = s[(e + 1) + i - 1]
  <2>. DEFINE m == e + 1
              n == Len(s)
  <2>1. m \in Int /\ n \in Int /\ \A i \in m..n : s[i] \in 0..WindowTicks
    BY <1>3
  <2>2. Live(s) = SubSeq(s, m, n)
    BY <1>2
  <2>. HIDE DEF m, n
  <2>3. /\ SubSeq(s, m, n) \in Seq(0..WindowTicks)
        /\ Len(SubSeq(s, m, n)) = IF m <= n THEN n - m + 1 ELSE 0
        /\ \A i \in 1..(n - m + 1) : SubSeq(s, m, n)[i] = s[m + i - 1]
    BY <2>1, SubSeqProperties
  <2>. QED BY <2>2, <2>3 DEF m, n
<1>5. Len(Live(s)) = Len(s) - e
  BY <1>1, <1>4
<1>6. ASSUME NEW i \in 1..Len(Live(s)) PROVE Live(s)[i] = s[i + e]
  <2>1. i \in 1..(Len(s) - (e + 1) + 1) /\ (e + 1) + i - 1 = i + e
    BY <1>1, <1>5
  <2>. QED BY <1>4, <2>1
<1>. QED BY <1>4, <1>5, <1>6 DEF e

\* Time passes for every request of a window alike.
LEMMA OlderIs ==
  ASSUME NEW s \in Seq(0..WindowTicks)
  PROVE  /\ Older(s) \in Seq(0..WindowTicks) /\ Len(Older(s)) = Len(s)
         /\ \A i \in 1..Len(s) : Older(s)[i] = IF s[i] < WindowTicks THEN s[i] + 1 ELSE s[i]
<1>. DEFINE o == Older(s)
<1>0. WindowTicks \in Nat
  BY RateAssumption DEF WindowTicks
<1>1. DOMAIN s = 1..Len(s) /\ Len(s) \in Nat /\ \A i \in 1..Len(s) : s[i] \in 0..WindowTicks
  BY LenProperties, ElementOfSeq
<1>2. o = [i \in 1..Len(s) |-> o[i]] /\ \A i \in 1..Len(s) : o[i] = IF s[i] < WindowTicks THEN s[i] + 1 ELSE s[i]
  BY <1>1 DEF Older
<1>. HIDE DEF o
<1>3. \A i \in 1..Len(s) : o[i] \in 0..WindowTicks
  BY <1>0, <1>1, <1>2
<1>4. o \in Seq(0..WindowTicks) /\ Len(o) = Len(s)
  BY <1>1, <1>2, <1>3
<1>. QED BY <1>2, <1>4 DEF o

\* Forgetting expired requests before time passes changes nothing of what is live after.
LEMMA LiveOfOlder ==
  ASSUME NEW s \in Seq(0..WindowTicks)
  PROVE  Live(Older(Live(s))) = Live(Older(s))
<1>. DEFINE W == WindowTicks
            v == Live(s)   e == Expired(s)
            o == Older(s)  p == Older(v)
            f == Expired(p)
<1>0. W \in Nat
  BY RateAssumption DEF WindowTicks
<1>1. /\ e \in 0..Len(s) /\ Len(s) \in Nat /\ \A i \in 1..e : s[i] >= W
      /\ \A i \in 1..Len(s) : s[i] \in 0..W
  BY ExpiredIs, LenProperties, ElementOfSeq
<1>2. v \in Seq(0..W) /\ Len(v) = Len(s) - e /\ \A i \in 1..Len(v) : v[i] = s[i + e]
  BY LiveIs
<1>3. o \in Seq(0..W) /\ Len(o) = Len(s) /\ \A i \in 1..Len(s) : o[i] = IF s[i] < W THEN s[i] + 1 ELSE s[i]
  BY OlderIs
<1>4. p \in Seq(0..W) /\ Len(p) = Len(v) /\ \A i \in 1..Len(v) : p[i] = IF v[i] < W THEN v[i] + 1 ELSE v[i]
  BY <1>2, OlderIs
<1>5. f \in 0..Len(p) /\ (\A i \in 1..f : p[i] >= W) /\ (f < Len(p) => p[f + 1] < W)
  BY <1>4, ExpiredIs
<1>6. Live(p) \in Seq(0..W) /\ Len(Live(p)) = Len(p) - f /\ \A i \in 1..Len(Live(p)) : Live(p)[i] = p[i + f]
  BY <1>4, LiveIs
<1>7. Live(o) \in Seq(0..W) /\ Len(Live(o)) = Len(o) - Expired(o)
      /\ \A i \in 1..Len(Live(o)) : Live(o)[i] = o[i + Expired(o)]
  BY <1>3, LiveIs
<1>x. \A n \in 0..Len(o) : (\A i \in 1..n : o[i] >= W) /\ (n < Len(o) => o[n + 1] < W) => Expired(o) = n
  BY <1>3, ExpiredIs
<1>. HIDE DEF W, v, e, o, p, f
<1>8. ASSUME NEW i \in 1..Len(p) PROVE i + e \in 1..Len(s) /\ p[i] = o[i + e]
  <2>1. i + e \in 1..Len(s) /\ i \in 1..Len(v)
    BY <1>1, <1>2, <1>4
  <2>2. v[i] = s[i + e] /\ p[i] = IF v[i] < W THEN v[i] + 1 ELSE v[i]
    BY <1>2, <1>4, <2>1
  <2>3. o[i + e] = IF s[i + e] < W THEN s[i + e] + 1 ELSE s[i + e]
    BY <1>3, <2>1
  <2>. QED BY <2>1, <2>2, <2>3
<1>9. \A i \in 1..e : o[i] >= W
  BY <1>0, <1>1, <1>3
<1>10. Expired(o) = e + f
  <2>1. e + f \in 0..Len(o)
    BY <1>1, <1>2, <1>3, <1>4, <1>5
  <2>2. ASSUME NEW i \in 1..(e + f) PROVE o[i] >= W
    <3>1. CASE i <= e
      BY <1>1, <1>5, <1>9, <3>1
    <3>2. CASE ~(i <= e)
      <4>1. i - e \in 1..f /\ i - e \in 1..Len(p) /\ (i - e) + e = i
        BY <1>1, <1>2, <1>4, <1>5, <3>2
      <4>2. p[i - e] >= W /\ p[i - e] = o[(i - e) + e]
        BY <1>5, <1>8, <4>1
      <4>. QED BY <4>1, <4>2
    <3>. QED BY <3>1, <3>2
  <2>3. ASSUME e + f < Len(o) PROVE o[(e + f) + 1] < W
    <3>1. f < Len(p) /\ f + 1 \in 1..Len(p) /\ (f + 1) + e = (e + f) + 1
      BY <1>1, <1>2, <1>3, <1>4, <1>5, <2>3
    <3>2. p[f + 1] < W /\ p[f + 1] = o[(f + 1) + e]
      BY <1>5, <1>8, <3>1
    <3>. QED BY <3>1, <3>2
  <2>. QED BY <1>x, <2>1, <2>2, <2>3
<1>11. Len(Live(o)) = Len(Live(p))
  BY <1>1, <1>2, <1>3, <1>4, <1>5, <1>6, <1>7, <1>10
<1>12. ASSUME NEW i \in 1..Len(Live(p)) PROVE Live(p)[i] = Live(o)[i]
  <2>1. i + f \in 1..Len(p) /\ (i + f) + e = i + (e + f)
    BY <1>1, <1>2, <1>4, <1>5, <1>6
  <2>2. Live(p)[i] = p[i + f] /\ p[i + f] = o[(i + f) + e] /\ Live(o)[i] = o[i + (e + f)]
    BY <1>6, <1>7, <1>8, <1>10, <1>11, <2>1
  <2>. QED BY <2>1, <2>2
<1>13. Live(p) = Live(o)
  BY <1>6, <1>7, <1>11, <1>12, SeqEqual
<1>. QED BY <1>13 DEF p, v, o

\* An eviction of a window whose oldest request is live pops nothing.
LEMMA LiveIdle ==
  ASSUME NEW s \in Seq(0..WindowTicks), s # <<>> => s[1] < WindowTicks
  PROVE  Live(s) = s
<1>1. Len(s) \in Nat /\ (Len(s) > 0 => s # <<>>)
  BY LenProperties, EmptySeq
<1>2. Expired(s) = 0
  <2>1. 0 \in 0..Len(s) /\ (\A i \in 1..0 : s[i] >= WindowTicks) /\ (0 < Len(s) => s[0 + 1] < WindowTicks)
    BY <1>1
  <2>. QED BY <2>1, ExpiredIs
<1>3. Live(s) \in Seq(0..WindowTicks) /\ Len(Live(s)) = Len(s) /\ \A i \in 1..Len(Live(s)) : Live(s)[i] = s[i + 0]
  BY <1>1, <1>2, LiveIs
<1>4. \A i \in 1..Len(Live(s)) : Live(s)[i] = s[i]
  BY <1>1, <1>3
<1>. QED BY <1>3, <1>4, SeqEqual

\* The oldest request an eviction leaves is live.
LEMMA LiveFirst ==
  ASSUME NEW s \in Seq(0..WindowTicks), Live(s) # <<>>
  PROVE  Len(Live(s)) >= 1 /\ Live(s)[1] < WindowTicks
<1>1. Live(s) \in Seq(0..WindowTicks) /\ Len(Live(s)) = Len(s) - Expired(s)
      /\ \A i \in 1..Len(Live(s)) : Live(s)[i] = s[i + Expired(s)]
  BY LiveIs
<1>2. Len(Live(s)) \in Nat \ {0}
  BY <1>1, LenProperties, EmptySeq
<1>3. Expired(s) \in 0..Len(s) /\ Len(s) \in Nat /\ (Expired(s) < Len(s) => s[Expired(s) + 1] < WindowTicks)
  BY ExpiredIs, LenProperties
<1>4. Live(s)[1] = s[1 + Expired(s)] /\ 1 + Expired(s) = Expired(s) + 1 /\ Expired(s) < Len(s)
  BY <1>1, <1>2, <1>3
<1>. QED BY <1>2, <1>3, <1>4

\* int(seconds) + 1, counted back in ticks, never falls short of the wait.
LEMMA RetryCovers ==
  ASSUME NEW a \in 0..WindowTicks
  PROVE  RetryAfter(a) * TicksPerSecond \in Nat /\ a + RetryAfter(a) * TicksPerSecond >= WindowTicks
<1>. DEFINE x == WindowTicks - a
            T == TicksPerSecond
            q == x \div T
<1>1. WindowTicks \in Nat /\ T \in Nat /\ T > 0 /\ x \in Nat
  BY RateAssumption DEF WindowTicks
<1>2. RetryAfter(a) = q + 1
  BY DEF RetryAfter
<1>. HIDE DEF x, T
<1>3. q \in Nat /\ x = T * q + (x % T) /\ x % T \in 0..(T - 1)
  BY <1>1
<1>. HIDE DEF q
<1>4. (q + 1) * T = T * q + T /\ T * q \in Nat
  BY <1>1, <1>3
<1>. QED BY <1>1, <1>2, <1>3, <1>4 DEF x, T

\* What an eviction leaves of a sorted window is sorted, and what is appended is newest.
LEMMA SortedKept ==
  ASSUME NEW s \in Seq(0..WindowTicks), \A i, j \in 1..Len(s) : i <= j => s[j] <= s[i]
  PROVE  /\ \A i, j \in 1..Len(Live(s)) : i <= j => Live(s)[j] <= Live(s)[i]
         /\ \A i, j \in 1..Len(Older(s)) : i <= j => Older(s)[j] <= Older(s)[i]
         /\ \A i, j \in 1..Len(Append(s, 0)) : i <= j => Append(s, 0)[j] <= Append(s, 0)[i]
<1>0. WindowTicks \in Nat /\ Len(s) \in Nat /\ \A i \in 1..Len(s) : s[i] \in 0..WindowTicks
  BY RateAssumption, LenProperties, ElementOfSeq DEF WindowTicks
<1>1. \A i, j \in 1..Len(Live(s)) : i <= j => Live(s)[j] <= Live(s)[i]
  <2>. DEFINE v == Live(s)  e == Expired(s)
  <2>1. e \in 0..Len(s) /\ Len(v) = Len(s) - e /\ \A i \in 1..Len(v) : v[i] = s[i + e]
    BY ExpiredIs, LiveIs
  <2>. HIDE DEF v, e
  <2>2. ASSUME NEW i \in 1..Len(v), NEW j \in 1..Len(v), i <= j PROVE v[j] <= v[i]
    <3>1. i + e \in 1..Len(s) /\ j + e \in 1..Len(s) /\ i + e <= j + e
      BY <1>0, <2>1, <2>2
    <3>2. s[j + e] <= s[i + e]
      BY <3>1
    <3>. QED BY <2>1, <3>2
  <2>. QED BY <2>2 DEF v
<1>2. \A i, j \in 1..Len(Older(s)) : i <= j => Older(s)[j] <= Older(s)[i]
  <2>. DEFINE o == Older(s)
  <2>1. Len(o) = Len(s) /\ \A i \in 1..Len(s) : o[i] = IF s[i] < WindowTicks THEN s[i] + 1 ELSE s[i]
    BY OlderIs
  <2>. HIDE DEF o
  <2>2. ASSUME NEW i \in 1..Len(o), NEW j \in 1..Len(o), i <= j PROVE o[j] <= o[i]
    <3>1. s[j] <= s[i] /\ s[i] \in 0..WindowTicks /\ s[j] \in 0..WindowTicks
      BY <1>0, <2>1, <2>2
    <3>2. o[i] = (IF s[i] < WindowTicks THEN s[i] + 1 ELSE s[i]) /\ o[j] = (IF s[j] < WindowTicks THEN s[j] + 1 ELSE s[j])
      BY <2>1, <2>2
    <3>. QED BY <1>0, <3>1, <3>2
  <2>. QED BY <2>2 DEF o
<1>3. \A i, j \in 1..Len(Append(s, 0)) : i <= j => Append(s, 0)[j] <= Append(s, 0)[i]
  <2>. DEFINE b == Append(s, 0)
  <2>1. Len(b) = Len(s) + 1 /\ b[Len(s) + 1] = 0 /\ \A i \in 1..Len(s) : b[i] = s[i]
    BY AppendProperties, <1>0
  <2>. HIDE DEF b
  <2>2. ASSUME NEW i \in 1..Len(b), NEW j \in 1..Len(b), i <= j PROVE b[j] <= b[i]
    <3>1. CASE j = Len(s) + 1
      BY <1>0, <2>1, <3>1
    <3>2. CASE j # Len(s) + 1
      <4>1. i \in 1..Len(s) /\ j \in 1..Len(s)
        BY <1>0, <2>1, <2>2, <3>2, SMTT(60)
      <4>. QED BY <2>1, <2>2, <4>1
    <3>. QED BY <3>1, <3>2
  <2>. QED BY <2>2 DEF b
<1>. QED BY <1>1, <1>2, <1>3

\* Checks, the cleanup task and the clock keep the windows true.
LEMMA LimiterInductive == LimiterInv /\ [RateNext]_rateVars => LimiterInv'
<1>. SUFFICES ASSUME LimiterInv, [RateNext]_rateVars PROVE LimiterInv'
  OBVIOUS
<1>0. WindowTicks \in Nat /\ 0 < WindowTicks /\ MaxRequests \in Nat /\ 0 < MaxRequests
  <2>1. {MaxRequests, WindowSeconds, TicksPerSecond} \subseteq Nat \ {0}
    BY RateAssumption
  <2>2. WindowSeconds \in Nat /\ WindowSeconds > 0 /\ TicksPerSecond \in Nat /\ TicksPerSecond > 0
    BY <2>1
  <2>3. WindowSeconds * TicksPerSecond \in Nat /\ 0 < WindowSeconds * TicksPerSecond
    BY <2>2
  <2>. QED BY <2>1, <2>3 DEF WindowTicks
<1>t. windows \in [Key -> Seq(0..WindowTicks)] /\ granted \in [Key -> Seq(0..WindowTicks)] /\ retryIn \in [Key -> Nat]
  BY DEF LimiterInv
<1>k. ASSUME NEW k \in Key
      PROVE  /\ windows[k] \in Seq(0..WindowTicks) /\ Len(windows[k]) \in Nat /\ Len(windows[k]) <= MaxRequests
             /\ \A i, j \in 1..Len(windows[k]) : i <= j => windows[k][j] <= windows[k][i]
             /\ granted[k] = Live(windows[k]) /\ retryIn[k] \in Nat
             /\ retryIn[k] > 0 => windows[k] = <<>> \/ windows[k][1] + retryIn[k] >= WindowTicks
  <2>1. WindowSorted(k) /\ WindowRemembers(k) /\ WaitCoversOldest(k)
    BY DEF LimiterInv
  <2>2. windows[k] \in Seq(0..WindowTicks) /\ retryIn[k] \in Nat
    BY <1>t
  <2>. QED BY <2>1, <2>2, LenProperties DEF WindowSorted, WindowRemembers, WaitCoversOldest
<1>e. <<>> \in Seq(0..WindowTicks) /\ Len(<<>>) = 0 /\ Live(<<>>) = <<>>
  <2>1. <<>> \in Seq(0..WindowTicks) /\ Len(<<>>) = 0
    BY EmptySeq
  <2>. QED BY <2>1, LiveIdle
<1>u. ASSUME NEW k \in Key, windows'[k] = windows[k], granted'[k] = granted[k], retryIn'[k] = retryIn[k]
      PROVE  WindowSorted(k)' /\ WindowRemembers(k)' /\ WaitCoversOldest(k)'
  BY <1>k, <1>u DEF WindowSorted, WindowRemembers, WaitCoversOldest
<1>1. ASSUME NEW k \in Key, Check(k) PROVE LimiterInv'
  <2>. DEFINE w == windows[k]
              v == Live(w)
  <2>1. /\ w \in Seq(0..WindowTicks) /\ Len(w) \in Nat /\ Len(w) <= MaxRequests
        /\ \A i, j \in 1..Len(w) : i <= j => w[j] <= w[i]
        /\ granted[k] = v
    BY <1>k
  <2>2. /\ v \in Seq(0..WindowTicks) /\ Len(v) \in Nat /\ Len(v) <= MaxRequests
        /\ \A i, j \in 1..Len(v) : i <= j => v[j] <= v[i]
    <3>1. v \in Seq(0..WindowTicks) /\ Len(v) = Len(w) - Expired(w) /\ Expired(w) \in 0..Len(w)
      BY <2>1, LiveIs, ExpiredIs
    <3>2. \A i, j \in 1..Len(v) : i <= j => v[j] <= v[i]
      BY <2>1, SortedKept
    <3>. HIDE DEF v, w
    <3>. QED BY <1>0, <2>1, <3>1, <3>2
  <2>3. v # <<>> => Len(v) >= 1 /\ v[1] < WindowTicks
    BY <2>1, LiveFirst
  <2>4. Live(v) = v
    BY <2>2, <2>3, LiveIdle
  <2>5. CASE Len(v) >= MaxRequests
    <3>1. /\ windows' = [windows EXCEPT ![k] = v] /\ UNCHANGED granted
          /\ retryIn' = [retryIn EXCEPT ![k] = RetryAfter(v[1]) * TicksPerSecond]
      BY <1>1, <2>5 DEF Check
    <3>. DEFINE x == RetryAfter(v[1]) * TicksPerSecond
    <3>2. x \in Nat /\ v[1] + x >= WindowTicks
      <4>1. 1 \in 1..Len(v)
        BY <1>0, <2>2, <2>5
      <4>2. v[1] \in 0..WindowTicks
        BY <2>2, <4>1, ElementOfSeq
      <4>. QED BY <4>2, RetryCovers
    <3>. HIDE DEF x, v, w
    <3>3. windows' \in [Key -> Seq(0..WindowTicks)] /\ retryIn' \in [Key -> Nat] /\ windows'[k] = v /\ retryIn'[k] = x
          /\ \A j \in Key \ {k} : windows'[j] = windows[j] /\ retryIn'[j] = retryIn[j]
      BY <1>t, <2>2, <3>1, <3>2 DEF x
    <3>4. WindowSorted(k)' /\ WindowRemembers(k)' /\ WaitCoversOldest(k)'
      BY <2>1, <2>2, <2>4, <3>1, <3>2, <3>3 DEF WindowSorted, WindowRemembers, WaitCoversOldest
    <3>5. \A j \in Key : WindowSorted(j)' /\ WindowRemembers(j)' /\ WaitCoversOldest(j)'
      BY <1>u, <3>1, <3>3, <3>4
    <3>. QED BY <1>t, <3>1, <3>3, <3>5 DEF LimiterInv
  <2>6. CASE ~(Len(v) >= MaxRequests)
    <3>1. /\ windows' = [windows EXCEPT ![k] = Append(v, 0)] /\ granted' = [granted EXCEPT ![k] = Append(granted[k], 0)]
          /\ retryIn' = [retryIn EXCEPT ![k] = 0]
      BY <1>1, <2>6 DEF Check
    <3>. DEFINE b == Append(v, 0)
    <3>2. b \in Seq(0..WindowTicks) /\ Len(b) = Len(v) + 1 /\ \A i, j \in 1..Len(b) : i <= j => b[j] <= b[i]
      <4>1. 0 \in 0..WindowTicks
        BY <1>0
      <4>2. b \in Seq(0..WindowTicks) /\ Len(b) = Len(v) + 1
        BY <2>2, <4>1, AppendProperties
      <4>. QED BY <2>2, <4>2, SortedKept
    <3>3. Live(b) = b
      <4>1. b[1] < WindowTicks
        <5>1. CASE v = <<>>
          BY <1>0, <1>e, <5>1
        <5>2. CASE v # <<>>
          <6>1. 1 \in 1..Len(v)
            BY <2>2, <2>3, <5>2
          <6>2. b[1] = v[1]
            BY <2>2, <6>1, AppendProperties
          <6>. QED BY <2>3, <5>2, <6>2
        <5>. QED BY <5>1, <5>2
      <4>. QED BY <3>2, <4>1, LiveIdle
    <3>4. granted' = [granted EXCEPT ![k] = b]
      BY <2>1, <3>1
    <3>. HIDE DEF b, v, w
    <3>5. /\ windows' \in [Key -> Seq(0..WindowTicks)] /\ retryIn' \in [Key -> Nat] /\ windows'[k] = b /\ retryIn'[k] = 0
          /\ granted' \in [Key -> Seq(0..WindowTicks)] /\ granted'[k] = b
          /\ \A j \in Key \ {k} : windows'[j] = windows[j] /\ retryIn'[j] = retryIn[j] /\ granted'[j] = granted[j]
      BY <1>t, <3>1, <3>2, <3>4 DEF b
    <3>6. Len(b) <= MaxRequests
      BY <1>0, <2>2, <2>6, <3>2
    <3>7. WindowSorted(k)' /\ WindowRemembers(k)' /\ WaitCoversOldest(k)'
      BY <3>2, <3>3, <3>5, <3>6 DEF WindowSorted, WindowRemembers, WaitCoversOldest
    <3>8. \A j \in Key : WindowSorted(j)' /\ WindowRemembers(j)' /\ WaitCoversOldest(j)'
      BY <1>u, <3>5, <3>7
    <3>. QED BY <3>5, <3>8 DEF LimiterInv
  <2>. QED BY <2>5, <2>6
<1>2. CASE RunCleanup
  <2>1. windows' = [k \in Key |-> IF Stale(windows[k]) THEN <<>> ELSE windows[k]] /\ UNCHANGED <<granted, retryIn>>
    BY <1>2 DEF RunCleanup
  <2>2. windows' \in [Key -> Seq(0..WindowTicks)]
    BY <1>t, <1>e, <2>1
  <2>3. ASSUME NEW k \in Key PROVE WindowSorted(k)' /\ WindowRemembers(k)' /\ WaitCoversOldest(k)'
    <3>1. CASE ~Stale(windows[k])
      BY <1>u, <2>1, <3>1
    <3>2. CASE Stale(windows[k])
      <4>. DEFINE w == windows[k]
      <4>1. windows'[k] = <<>> /\ granted'[k] = Live(w) /\ retryIn'[k] = retryIn[k]
        BY <1>k, <2>1, <3>2
      <4>2. Live(w) = <<>>
        <5>1. CASE w = <<>>
          BY <1>e, <5>1
        <5>2. CASE w # <<>>
          <6>1. w[Len(w)] >= WindowTicks /\ w \in Seq(0..WindowTicks) /\ Len(w) \in Nat
                /\ \A i, j \in 1..Len(w) : i <= j => w[j] <= w[i]
            BY <1>k, <3>2, <5>2 DEF Stale
          <6>. HIDE DEF w
          <6>2. \A i \in 1..Len(w) : w[i] \in 0..WindowTicks /\ Len(w) \in 1..Len(w) /\ i <= Len(w)
            <7>1. \A i \in 1..Len(w) : w[i] \in 0..WindowTicks
              BY <6>1, ElementOfSeq
            <7>2. \A i \in 1..Len(w) : Len(w) \in 1..Len(w) /\ i <= Len(w)
              BY <6>1
            <7>. QED BY <7>1, <7>2
          <6>3. \A i \in 1..Len(w) : w[i] >= WindowTicks
            BY <1>0, <6>1, <6>2
          <6>4. Expired(w) = Len(w)
            <7>1. Len(w) \in 0..Len(w) /\ ~(Len(w) < Len(w))
              BY <6>1
            <7>. QED BY <6>1, <6>3, <7>1, ExpiredIs
          <6>5. Live(w) \in Seq(0..WindowTicks) /\ Len(Live(w)) = Len(w) - Len(w)
            BY <6>1, <6>4, LiveIs
          <6>6. Len(Live(w)) = 0
            BY <6>1, <6>5
          <6>. QED BY <6>5, <6>6, EmptySeq
        <5>. QED BY <5>1, <5>2
      <4>. QED BY <1>0, <1>e, <4>1, <4>2 DEF WindowSorted, WindowRemembers, WaitCoversOldest
    <3>. QED BY <3>1, <3>2
  <2>. QED BY <1>t, <2>1, <2>2, <2>3 DEF LimiterInv
<1>3. CASE RateTick
  <2>1. /\ windows' = [k \in Key |-> Older(windows[k])] /\ granted' = [k \in Key |-> Live(Older(granted[k]))]
        /\ retryIn' = [k \in Key |-> IF retryIn[k] > 0 THEN retryIn[k] - 1 ELSE 0]
    BY <1>3 DEF RateTick
  <2>2. ASSUME NEW k \in Key
        PROVE  /\ windows'[k] \in Seq(0..WindowTicks) /\ granted'[k] \in Seq(0..WindowTicks) /\ retryIn'[k] \in Nat
               /\ WindowSorted(k)' /\ WindowRemembers(k)' /\ WaitCoversOldest(k)'
    <3>. DEFINE w == windows[k]
                o == Older(w)
    <3>1. /\ w \in Seq(0..WindowTicks) /\ Len(w) \in Nat /\ Len(w) <= MaxRequests
          /\ \A i, j \in 1..Len(w) : i <= j => w[j] <= w[i]
          /\ granted[k] = Live(w) /\ retryIn[k] \in Nat
          /\ retryIn[k] > 0 => w = <<>> \/ w[1] + retryIn[k] >= WindowTicks
      BY <1>k
    <3>2. windows'[k] = o /\ granted'[k] = Live(Older(Live(w))) /\ retryIn'[k] = IF retryIn[k] > 0 THEN retryIn[k] - 1 ELSE 0
      BY <2>1, <3>1
    <3>3. /\ o \in Seq(0..WindowTicks) /\ Len(o) = Len(w)
          /\ \A i \in 1..Len(w) : o[i] = IF w[i] < WindowTicks THEN w[i] + 1 ELSE w[i]
      BY <3>1, OlderIs
    <3>4. Live(Older(Live(w))) = Live(o) /\ Live(o) \in Seq(0..WindowTicks)
      BY <3>1, <3>3, LiveOfOlder, LiveIs
    <3>5. \A i, j \in 1..Len(o) : i <= j => o[j] <= o[i]
      BY <3>1, SortedKept
    <3>. HIDE DEF o, w
    <3>6. WindowSorted(k)' /\ WindowRemembers(k)'
      BY <3>1, <3>2, <3>3, <3>4, <3>5 DEF WindowSorted, WindowRemembers
    <3>7. WaitCoversOldest(k)'
      <4>1. SUFFICES ASSUME retryIn'[k] > 0, o # <<>> PROVE o[1] + retryIn'[k] >= WindowTicks
        BY <3>2 DEF WaitCoversOldest
      <4>2. Len(o) # 0
        BY <3>3, <4>1, EmptySeq
      <4>3. w # <<>> /\ 1 \in 1..Len(w)
        BY <3>1, <3>3, <4>2, EmptySeq
      <4>4. w[1] \in 0..WindowTicks /\ o[1] = (IF w[1] < WindowTicks THEN w[1] + 1 ELSE w[1])
        BY <3>1, <3>3, <4>3, ElementOfSeq
      <4>5. retryIn[k] > 0 /\ retryIn'[k] = retryIn[k] - 1
        BY <3>1, <3>2, <4>1
      <4>. QED BY <1>0, <3>1, <4>3, <4>4, <4>5
    <3>8. retryIn'[k] \in Nat
      BY <3>1, <3>2
    <3>. QED BY <3>2, <3>3, <3>4, <3>6, <3>7, <3>8
  <2>3. /\ windows' \in [Key -> Seq(0..WindowTicks)] /\ granted' \in [Key -> Seq(0..WindowTicks)]
        /\ retryIn' \in [Key -> Nat]
    BY <2>1, <2>2
  <2>. QED BY <2>2, <2>3 DEF LimiterInv
<1>4. CASE UNCHANGED rateVars
  <2>1. UNCHANGED <<windows, granted, retryIn>>
    BY <1>4 DEF rateVars
  <2>. QED BY <1>t, <1>u, <2>1 DEF LimiterInv
<1>. QED BY <1>1, <1>2, <1>3, <1>4 DEF RateNext

\* A limiter starts with empty windows.
LEMMA LimiterInitially == ASSUME NEW on \in BOOLEAN, RateInit(on) PROVE LimiterInv
<1>0. MaxRequests \in Nat /\ WindowTicks \in Nat
  BY RateAssumption DEF WindowTicks
<1>1. <<>> \in Seq(0..WindowTicks) /\ Len(<<>>) = 0 /\ Live(<<>>) = <<>>
  <2>1. <<>> \in Seq(0..WindowTicks) /\ Len(<<>>) = 0
    BY EmptySeq
  <2>. QED BY <2>1, LiveIdle
<1>2. \A k \in Key : windows[k] = <<>> /\ granted[k] = <<>> /\ retryIn[k] = 0
  BY DEF RateInit
<1>3. ASSUME NEW k \in Key PROVE WindowSorted(k) /\ WindowRemembers(k) /\ WaitCoversOldest(k)
  <2>1. windows[k] \in Seq(0..WindowTicks) /\ Len(windows[k]) = 0 /\ granted[k] = Live(windows[k])
    BY <1>1, <1>2
  <2>2. Len(windows[k]) <= MaxRequests /\ 1..Len(windows[k]) = {} /\ ~(retryIn[k] > 0)
    BY <1>0, <1>2, <2>1
  <2>. QED BY <2>1, <2>2 DEF WindowSorted, WindowRemembers, WaitCoversOldest
<1>. QED BY <1>1, <1>3 DEF RateInit, LimiterInv

\* What the invariant gives: the rate is held, and Retry-After is long enough.
LEMMA LimiterInvSound == LimiterInv => LimiterFair
<1>. SUFFICES ASSUME LimiterInv, NEW k \in Key
              PROVE  /\ Len(granted[k]) <= MaxRequests
                     /\ retryIn[k] > 0 =>
                          Cardinality({i \in DOMAIN windows[k] : windows[k][i] + retryIn[k] < WindowTicks}) < MaxRequests
  BY DEF LimiterFair, RateHeld, RetryAfterHonest
<1>. DEFINE w == windows[k]
            S == {i \in DOMAIN w : w[i] + retryIn[k] < WindowTicks}
<1>0. MaxRequests \in Nat /\ 0 < MaxRequests /\ WindowTicks \in Nat
  BY RateAssumption DEF WindowTicks
<1>1. w \in Seq(0..WindowTicks) /\ Len(w) <= MaxRequests /\ retryIn[k] \in Nat /\ granted[k] = Live(w)
      /\ (retryIn[k] > 0 => w = <<>> \/ w[1] + retryIn[k] >= WindowTicks)
  BY DEF LimiterInv, WindowSorted, WindowRemembers, WaitCoversOldest
<1>2. Len(w) \in Nat /\ DOMAIN w = 1..Len(w) /\ \A i \in 1..Len(w) : w[i] \in 0..WindowTicks
  BY <1>1, LenProperties, ElementOfSeq
<1>3. Len(granted[k]) <= MaxRequests
  <2>1. Len(Live(w)) = Len(w) - Expired(w) /\ Expired(w) \in 0..Len(w)
    BY <1>1, LiveIs, ExpiredIs
  <2>. QED BY <1>0, <1>1, <1>2, <2>1
<1>4. ASSUME retryIn[k] > 0 PROVE Cardinality(S) < MaxRequests
  <2>1. S \subseteq 2..Len(w)
    <3>1. 1 \notin S
      <4>1. CASE w = <<>>
        BY <4>1
      <4>2. CASE w # <<>>
        BY <1>0, <1>1, <1>2, <1>4, <4>2
      <4>. QED BY <4>1, <4>2
    <3>2. S \subseteq 1..Len(w)
      BY <1>2
    <3>. HIDE DEF S
    <3>. QED BY <1>2, <3>1, <3>2
  <2>2. IsFiniteSet(2..Len(w)) /\ Cardinality(2..Len(w)) = IF 2 > Len(w) THEN 0 ELSE Len(w) - 2 + 1
    <3>1. 2 \in Int /\ Len(w) \in Int
      BY <1>2
    <3>. QED BY <3>1, FS_Interval
  <2>3. IsFiniteSet(S) /\ Cardinality(S) <= Cardinality(2..Len(w)) /\ Cardinality(S) \in Nat
    <3>1. IsFiniteSet(S) /\ Cardinality(S) <= Cardinality(2..Len(w))
      BY <2>1, <2>2, FS_Subset
    <3>. QED BY <3>1, FS_CardinalityType
  <2>. HIDE DEF S
  <2>. QED BY <1>0, <1>1, <1>2, <2>2, <2>3
<1>. QED BY <1>3, <1>4

\* rate_limit.py, for any number of clients, any limit, any window and any clock: no
\* client gets more than max_requests through in a window, and one that waits as long
\* as it was told is let through.
THEOREM LimiterIsFair == RateSpec => []LimiterFair
<1>1. RateInit(TRUE) => LimiterInv
  BY LimiterInitially
<1>. QED BY <1>1, LimiterInductive, LimiterInvSound, PTL DEF RateSpec

-----------------------------------------------------------------------------
(* Sign-in and administration keep their invariant                         *)

\* A request moves on: what it was redeeming, and what it redeems now.
LEMMA RequestMoves ==
  ASSUME AuthTypes, NEW r \in Request, NEW x \in RequestRecord, Goes(r, x)
  PROVE  /\ req' \in [Request -> RequestRecord] /\ req'[r] = x
         /\ \A q \in Request \ {r} : req'[q] = req[q]
         /\ \A t \in Token : Redeeming(t)' = IF x.at \in {"getUser", "create"} /\ x.tok = t
                                             THEN Redeeming(t) \cup {r} ELSE Redeeming(t) \ {r}
<1>1. req' \in [Request -> RequestRecord] /\ req'[r] = x /\ \A q \in Request \ {r} : req'[q] = req[q]
  BY DEF AuthTypes, Goes
<1>. QED BY <1>1 DEF Redeeming

\* Counting the requests that redeem a link.
LEMMA RedeemingCount ==
  ASSUME NEW t, NEW r \in Request
  PROVE  /\ IsFiniteSet(Redeeming(t)) /\ Cardinality(Redeeming(t)) \in Nat
         /\ Cardinality(Redeeming(t) \cup {r}) = (IF r \in Redeeming(t) THEN Cardinality(Redeeming(t))
                                                  ELSE Cardinality(Redeeming(t)) + 1)
         /\ Cardinality(Redeeming(t) \ {r}) = (IF r \in Redeeming(t) THEN Cardinality(Redeeming(t)) - 1
                                               ELSE Cardinality(Redeeming(t)))
<1>1. Redeeming(t) \subseteq Request /\ IsFiniteSet(Request)
  BY AuthAssumption DEF Redeeming
<1>2. IsFiniteSet(Redeeming(t))
  BY <1>1, FS_Subset
<1>3. Cardinality(Redeeming(t)) \in Nat
  BY <1>2, FS_CardinalityType
<1>4. Cardinality(Redeeming(t) \cup {r}) = (IF r \in Redeeming(t) THEN Cardinality(Redeeming(t)) ELSE Cardinality(Redeeming(t)) + 1)
  BY <1>2, FS_AddElement
<1>5. Cardinality(Redeeming(t) \ {r}) = (IF r \in Redeeming(t) THEN Cardinality(Redeeming(t)) - 1 ELSE Cardinality(Redeeming(t)))
  BY <1>2, FS_RemoveElement
<1>. QED BY <1>2, <1>3, <1>4, <1>5

\* A step that only takes links away, while the requests that issue or redeem one stand
\* still, keeps what is known of the links.
LEMMA LinksKept ==
  ASSUME AuthTypes, LinksInv, UNCHANGED <<links, minted, before>>,
         DOMAIN token' \subseteq DOMAIN token, \A t \in DOMAIN token' : token'[t] = token[t],
         \A q \in Request : \/ req'[q] = req[q]
                            \/ /\ req[q].at \notin {"insert", "getUser", "create"}
                               /\ req'[q].at \notin {"insert", "getUser", "create"}
  PROVE  LinksInv'
<1>1. \A t \in Token : Redeeming(t)' = Redeeming(t)
  BY DEF Redeeming
<1>2. \A t \in Token : Unseen(t) => Unseen(t)'
  BY <1>1 DEF Unseen
<1>3. \A q \in Request : req'[q].at = "insert" => req'[q] = req[q] /\ req[q].tok \in Token
  <2>1. links \in 1..MaxLinks /\ MaxLinks \in Nat
    BY AuthAssumption DEF AuthTypes
  <2>2. \A n \in 1..links : n \in Token
    BY <2>1 DEF Token
  <2>. QED BY <2>2 DEF AuthTypes
<1>4. LinksFresh'
  BY <1>2, <1>3 DEF LinksInv, LinksFresh
<1>5. BudgetSplit'
  BY <1>1 DEF LinksInv, BudgetSplit
<1>6. InsertRevokes'
  BY <1>3 DEF LinksInv, InsertRevokes
<1>7. OldLinkRevoked'
  BY DEF LinksInv, OldLinkRevoked
<1>. QED BY <1>4, <1>5, <1>6, <1>7 DEF LinksInv

\* A step that takes the role from nobody and lets nobody write keeps an admin.
LEMMA AdminsKept ==
  ASSUME AdminsInv, UNCHANGED adminLock,
         \A u \in User : role[u] = "Admin" => role'[u] = "Admin",
         \A q \in Request : req'[q] = req[q] \/ req'[q].at # "write"
  PROVE  AdminsInv'
<1>1. AdminRemains'
  BY DEF AdminsInv, AdminRemains
<1>2. ASSUME NEW q \in Request, req'[q].at = "write"
      PROVE  /\ adminLock' = q /\ req'[q].verb \in {"demote", "promote", "delete"}
             /\ req'[q].verb # "promote" => \E o \in User \ {req'[q].user} : role'[o] = "Admin"
  <2>1. req'[q] = req[q]
    BY <1>2
  <2>. QED BY <1>2, <2>1 DEF AdminsInv, WriterSafe
<1>3. WriterSafe'
  BY <1>2 DEF WriterSafe
<1>. QED BY <1>1, <1>3 DEF AdminsInv

\* A request that moves on keeps the types when what it carries has them.
LEMMA TypesKept ==
  ASSUME AuthTypes, NEW r \in Request, NEW x \in RequestRecord, Goes(r, x),
         x.at \notin {"off", "idle"} => x.user \in User,
         x.at \in {"insert", "getUser", "create"} => x.tok \in 1..links',
         role' \in [User -> {"none", "Admin", "Reviewer"}],
         DOMAIN token' \subseteq Token, \A t \in DOMAIN token' : token'[t] \in TokenRecord,
         DOMAIN session' \subseteq User \cup Nat, \A s \in DOMAIN session' : session'[s] \in SessionRecord,
         links' \in 1..MaxLinks, links <= links', logins' \in Nat,
         minted' \in [Token -> Nat], before' \in [Token -> SUBSET Token]
  PROVE  AuthTypes'
<1>1. req' \in [Request -> RequestRecord] /\ req'[r] = x /\ \A q \in Request \ {r} : req'[q] = req[q]
  BY RequestMoves
<1>2. links \in Nat /\ links' \in Nat
  BY AuthAssumption DEF AuthTypes
<1>3. 1..links \subseteq 1..links'
  BY <1>2
<1>4. \A q \in Request : req'[q].at \notin {"off", "idle"} => req'[q].user \in User
  BY <1>1 DEF AuthTypes
<1>5. \A q \in Request : req'[q].at \in {"insert", "getUser", "create"} => req'[q].tok \in 1..links'
  BY <1>1, <1>3 DEF AuthTypes
<1>. QED BY <1>1, <1>4, <1>5 DEF AuthTypes

\* Requests that race, links that expire and the admin's lock keep the invariant.
LEMMA AuthInductive == AuthInv /\ [AuthNext]_authVars => AuthInv'
<1>. SUFFICES ASSUME AuthInv, [AuthNext]_authVars PROVE AuthInv'
  OBVIOUS
<1>0. /\ Redemptions \in Nat /\ Redemptions > 0 /\ MaxLinks \in Nat /\ NoOne \notin Request
  BY AuthAssumption
<1>t. AuthTypes /\ LinksInv /\ AdminsInv
  BY DEF AuthInv
<1>y. /\ role \in [User -> {"none", "Admin", "Reviewer"}]
      /\ DOMAIN token \subseteq Token /\ \A t \in DOMAIN token : token[t] \in TokenRecord
      /\ DOMAIN session \subseteq User \cup Nat /\ \A s \in DOMAIN session : session[s] \in SessionRecord
      /\ links \in 1..MaxLinks /\ links \in Nat /\ links <= links /\ logins \in Nat
      /\ req \in [Request -> RequestRecord]
      /\ minted \in [Token -> Nat] /\ before \in [Token -> SUBSET Token]
      /\ \A r \in Request : req[r].at \notin {"off", "idle"} => req[r].user \in User
      /\ \A r \in Request : req[r].at \in {"insert", "getUser", "create"} => req[r].tok \in 1..links
  BY <1>0, <1>t DEF AuthTypes
<1>l. LinksFresh /\ BudgetSplit /\ InsertRevokes /\ OldLinkRevoked
  BY <1>t DEF LinksInv
<1>n. 1..links \subseteq Token /\ Token \subseteq Nat
  BY <1>0, <1>y DEF Token
<1>i. Idle \in RequestRecord /\ Idle.at = "idle" /\ Idle.tok = NoOne
  BY DEF Idle, RequestRecord, Stage, Purpose
<1>m. ASSUME NEW r \in Request, NEW x \in RequestRecord, Goes(r, x),
             req[r].at \in {"idle", "revoke", "claim", "route"}, x.at \in {"idle", "revoke", "claim", "route"},
             x.at # "idle" => x.user \in User,
             role' \in [User -> {"none", "Admin", "Reviewer"}], \A u \in User : role[u] = "Admin" => role'[u] = "Admin",
             DOMAIN session' \subseteq User \cup Nat, \A s \in DOMAIN session' : session'[s] \in SessionRecord,
             UNCHANGED <<token, links, logins, minted, before, adminLock>>
      PROVE  AuthInv'
  <2>1. req'[r] = x /\ \A q \in Request \ {r} : req'[q] = req[q]
    BY <1>t, <1>m, RequestMoves
  <2>2. AuthTypes'
    <3>1. x.at \notin {"off", "idle"} => x.user \in User
      BY <1>m
    <3>2. ~(x.at \in {"insert", "getUser", "create"})
      BY <1>m
    <3>. QED BY <1>t, <1>y, <1>m, <3>1, <3>2, TypesKept
  <2>3. LinksInv'
    <3>1. \A q \in Request : \/ req'[q] = req[q]
                             \/ /\ req[q].at \notin {"insert", "getUser", "create"}
                                /\ req'[q].at \notin {"insert", "getUser", "create"}
      BY <1>m, <2>1
    <3>. QED BY <1>t, <1>m, <3>1, LinksKept
  <2>4. AdminsInv'
    <3>1. \A q \in Request : req'[q] = req[q] \/ req'[q].at # "write"
      BY <1>m, <2>1
    <3>. QED BY <1>t, <1>m, <3>1, AdminsKept
  <2>. QED BY <2>2, <2>3, <2>4 DEF AuthInv
<1>1. ASSUME NEW r \in Request, NEW u \in User, RequestLink(r, u) PROVE AuthInv'
  <2>. DEFINE x == [Idle EXCEPT !.at = "revoke", !.user = u, !.purpose = "login"]
  <2>1. x \in RequestRecord /\ x.at = "revoke" /\ x.user = u
    BY DEF Idle, RequestRecord, Stage, Purpose
  <2>2. Goes(r, x) /\ req[r].at = "idle" /\ UNCHANGED <<role, token, session, links, logins, adminLock, minted, before>>
    BY <1>1 DEF RequestLink, Arrives
  <2>. HIDE DEF x
  <2>. QED BY <1>m, <1>y, <2>1, <2>2
<1>2. ASSUME NEW r \in Request, NEW s \in DOMAIN session, NEW v \in Verb, NEW u \in User, LookupSession(r, s, v, u)
      PROVE  AuthInv'
  <2>. DEFINE x == [at |-> IF session[s].from # NoOne THEN "claim" ELSE "route",
                    actor |-> session[s].user, user |-> u, tok |-> session[s].from,
                    ses |-> s, purpose |-> "none", verb |-> v]
  <2>1. x \in RequestRecord /\ x.at \in {"claim", "route"} /\ x.user = u
    <3>1. session[s] \in SessionRecord /\ s \in User \cup Nat
      BY <1>y
    <3>2. session[s].user \in User /\ session[s].from \in Token \cup {NoOne}
      BY <3>1 DEF SessionRecord
    <3>. QED BY <3>1, <3>2 DEF RequestRecord, Stage, Purpose
  <2>2. Goes(r, x) /\ req[r].at = "idle" /\ UNCHANGED <<role, token, session, links, logins, adminLock, minted, before>>
    BY <1>2 DEF LookupSession, Arrives
  <2>. HIDE DEF x
  <2>. QED BY <1>m, <1>y, <2>1, <2>2
<1>3. ASSUME NEW r \in Request, ClaimSession(r) PROVE AuthInv'
  <2>. DEFINE x == [req[r] EXCEPT !.at = "route", !.tok = NoOne]
              s == req[r].ses
              kept == Drop(session, Siblings(req[r].tok, s))
  <2>1. x \in RequestRecord /\ x.at = "route" /\ x.user = req[r].user
    <3>1. req[r] \in RequestRecord
      BY <1>y
    <3>. QED BY <3>1 DEF RequestRecord, Stage
  <2>2. /\ Goes(r, x) /\ req[r].at = "claim" /\ UNCHANGED <<role, token, links, logins, adminLock, minted, before>>
        /\ session' = IF s \in DOMAIN kept THEN [kept EXCEPT ![s].from = NoOne] ELSE kept
    BY <1>3 DEF ClaimSession
  <2>3. DOMAIN kept \subseteq DOMAIN session /\ \A o \in DOMAIN kept : kept[o] = session[o]
    BY DEF Drop
  <2>. HIDE DEF x, s, kept
  <2>4. DOMAIN session' \subseteq User \cup Nat /\ \A o \in DOMAIN session' : session'[o] \in SessionRecord
    <3>1. \A o \in DOMAIN kept : kept[o] \in SessionRecord
      BY <1>y, <2>3
    <3>2. CASE s \notin DOMAIN kept
      BY <1>y, <2>2, <2>3, <3>1, <3>2
    <3>3. CASE s \in DOMAIN kept
      <4>. DEFINE z == [kept[s] EXCEPT !.from = NoOne]
      <4>1. z \in SessionRecord
        BY <3>1, <3>3 DEF SessionRecord
      <4>2. session' = [kept EXCEPT ![s] = z]
        BY <2>2, <3>3
      <4>. HIDE DEF z
      <4>3. DOMAIN session' = DOMAIN kept /\ \A o \in DOMAIN kept : session'[o] = IF o = s THEN z ELSE kept[o]
        BY <3>3, <4>2
      <4>. QED BY <1>y, <2>3, <3>1, <4>1, <4>3
    <3>. QED BY <3>2, <3>3
  <2>. QED BY <1>m, <1>y, <2>1, <2>2, <2>4
<1>4. ASSUME NEW r \in Request, Serve(r) PROVE AuthInv'
  <2>1. /\ Goes(r, Idle) /\ req[r].at = "route"
        /\ UNCHANGED <<role, token, session, links, logins, adminLock, minted, before>>
    BY <1>4 DEF Serve, Ends
  <2>. QED BY <1>i, <1>m, <1>y, <2>1
<1>5. ASSUME NEW r \in Request, CreateUser(r) PROVE AuthInv'
  <2>. DEFINE u == req[r].user
              x == [Idle EXCEPT !.at = "revoke", !.user = u, !.purpose = "invite"]
  <2>1. req[r].at = "route" /\ u \in User /\ UNCHANGED <<token, session, links, logins, adminLock, minted, before>>
    BY <1>5, <1>y DEF CreateUser
  <2>2. CASE Exists(u)
    <3>1. Goes(r, Idle) /\ UNCHANGED role
      BY <1>5, <2>2 DEF CreateUser, Ends
    <3>. QED BY <1>i, <1>m, <1>y, <2>1, <3>1
  <2>3. CASE ~Exists(u)
    <3>1. x \in RequestRecord /\ x.at = "revoke" /\ x.user = u
      BY <2>1 DEF Idle, RequestRecord, Stage, Purpose
    <3>2. Goes(r, x) /\ \E y \in {"Admin", "Reviewer"} : role' = [role EXCEPT ![u] = y]
      BY <1>5, <2>3 DEF CreateUser
    <3>3. role[u] = "none"
      BY <2>3 DEF Exists
    <3>. HIDE DEF x, u
    <3>4. role' \in [User -> {"none", "Admin", "Reviewer"}] /\ \A o \in User : role[o] = "Admin" => role'[o] = "Admin"
      BY <1>y, <2>1, <3>2, <3>3
    <3>. QED BY <1>m, <1>y, <2>1, <3>1, <3>2, <3>4
  <2>. QED BY <2>2, <2>3
<1>6. ASSUME NEW r \in Request, ResendInvite(r) PROVE AuthInv'
  <2>. DEFINE u == req[r].user
              x == [Idle EXCEPT !.at = "revoke", !.user = u, !.purpose = "invite"]
  <2>1. req[r].at = "route" /\ u \in User /\ UNCHANGED <<role, token, session, links, logins, adminLock, minted, before>>
    BY <1>6, <1>y DEF ResendInvite
  <2>2. x \in RequestRecord /\ x.at = "revoke" /\ x.user = u
    BY <2>1 DEF Idle, RequestRecord, Stage, Purpose
  <2>3. Goes(r, x) \/ Goes(r, Idle)
    BY <1>6 DEF ResendInvite, Ends
  <2>. HIDE DEF x, u
  <2>. QED BY <1>i, <1>m, <1>y, <2>1, <2>2, <2>3
<1>7. CASE Expire \/ \E r \in Request, s \in DOMAIN session : Logout(r, s)
  <2>1. /\ UNCHANGED <<role, links, logins, req, adminLock, minted, before>>
        /\ DOMAIN token' \subseteq DOMAIN token /\ \A t \in DOMAIN token' : token'[t] = token[t]
        /\ DOMAIN session' \subseteq DOMAIN session /\ \A s \in DOMAIN session' : session'[s] = session[s]
    BY <1>7 DEF Expire, Logout, Drop
  <2>2. AuthTypes'
    BY <1>t, <2>1 DEF AuthTypes
  <2>3. LinksInv'
    BY <1>t, <2>1, LinksKept
  <2>4. AdminsInv'
    BY <1>t, <2>1, AdminsKept
  <2>. QED BY <2>2, <2>3, <2>4 DEF AuthInv
<1>8. ASSUME NEW r \in Request, AdminCheck(r) PROVE AuthInv'
  <2>. DEFINE u == req[r].user
              x == [req[r] EXCEPT !.at = "write"]
              others == {o \in User \ {u} : role[o] = "Admin"}
  <2>1. /\ req[r].at = "route" /\ u \in User /\ req[r].verb \in {"demote", "promote", "delete"}
        /\ UNCHANGED <<role, token, session, links, logins, minted, before>>
    BY <1>8, <1>y DEF AdminCheck
  <2>2. \/ Goes(r, Idle) /\ UNCHANGED adminLock
        \/ /\ ~(role[u] = "Admin" /\ req[r].verb # "promote" /\ others = {})
           /\ adminLock = NoOne /\ adminLock' = r /\ Goes(r, x)
    BY <1>8 DEF AdminCheck, LockTaken, Ends
  <2>3. CASE Goes(r, Idle) /\ UNCHANGED adminLock
    BY <1>i, <1>m, <1>y, <2>1, <2>3
  <2>4. CASE /\ ~(role[u] = "Admin" /\ req[r].verb # "promote" /\ others = {})
             /\ adminLock = NoOne /\ adminLock' = r /\ Goes(r, x)
    <3>1. x \in RequestRecord /\ x.at = "write" /\ x.user = u /\ x.verb = req[r].verb
      <4>1. req[r] \in RequestRecord
        BY <1>y
      <4>. QED BY <4>1 DEF RequestRecord, Stage
    <3>2. req'[r] = x /\ \A q \in Request \ {r} : req'[q] = req[q]
      BY <1>t, <2>4, <3>1, RequestMoves
    <3>. HIDE DEF x
    <3>3. AuthTypes'
      BY <1>t, <1>y, <2>1, <2>4, <3>1, TypesKept
    <3>4. LinksInv'
      BY <1>t, <2>1, <3>1, <3>2, LinksKept
    <3>5. AdminRemains /\ WriterSafe
      BY <1>t DEF AdminsInv
    <3>6. req[r].verb # "promote" => \E o \in User \ {u} : role[o] = "Admin"
      BY <2>4, <3>5 DEF AdminRemains
    <3>7. \A q \in Request \ {r} : req[q].at # "write"
      BY <1>0, <2>4, <3>5 DEF WriterSafe
    <3>8. WriterSafe'
      BY <2>1, <2>4, <3>1, <3>2, <3>6, <3>7 DEF WriterSafe
    <3>9. AdminRemains'
      BY <2>1, <3>5 DEF AdminRemains
    <3>. QED BY <3>3, <3>4, <3>8, <3>9 DEF AuthInv, AdminsInv
  <2>. QED BY <2>2, <2>3, <2>4
<1>9. ASSUME NEW r \in Request, AdminWrite(r) PROVE AuthInv'
  <2>. DEFINE u == req[r].user
  <2>1. /\ req[r].at = "write" /\ u \in User /\ Goes(r, Idle) /\ adminLock' = (IF adminLock = r THEN NoOne ELSE adminLock)
        /\ UNCHANGED <<links, logins, minted, before>>
    BY <1>9, <1>y DEF AdminWrite, Ends
  <2>2. req'[r] = Idle /\ \A q \in Request \ {r} : req'[q] = req[q]
    BY <1>i, <1>t, <2>1, RequestMoves
  <2>3. WriterSafe /\ AdminRemains /\ adminLock = r
        /\ (req[r].verb # "promote" => \E o \in User \ {u} : role[o] = "Admin")
        /\ req[r].verb \in {"demote", "promote", "delete"}
    BY <1>t, <2>1 DEF AdminsInv, WriterSafe
  <2>4. /\ role' \in [User -> {"none", "Admin", "Reviewer"}]
        /\ DOMAIN token' \subseteq DOMAIN token /\ \A t \in DOMAIN token' : token'[t] = token[t]
        /\ DOMAIN session' \subseteq DOMAIN session /\ \A s \in DOMAIN session' : session'[s] = session[s]
        /\ \E o \in User : role'[o] = "Admin"
    <3>1. CASE ~Exists(u)
      <4>1. UNCHANGED <<role, token, session>>
        BY <1>9, <3>1 DEF AdminWrite
      <4>. QED BY <1>y, <2>3, <4>1 DEF AdminRemains
    <3>2. CASE Exists(u) /\ req[r].verb = "delete"
      <4>1. /\ role' = [role EXCEPT ![u] = "none"]
            /\ token' = Drop(token, {t \in DOMAIN token : token[t].user = u})
            /\ session' = Drop(session, {s \in DOMAIN session : session[s].user = u})
        BY <1>9, <3>2 DEF AdminWrite
      <4>2. PICK o \in User \ {u} : role[o] = "Admin"
        BY <2>3, <3>2
      <4>. HIDE DEF u
      <4>3. role' \in [User -> {"none", "Admin", "Reviewer"}] /\ role'[o] = "Admin"
        BY <1>y, <2>1, <4>1, <4>2
      <4>. QED BY <4>1, <4>3 DEF Drop
    <3>3. CASE Exists(u) /\ req[r].verb # "delete"
      <4>1. /\ role' = [role EXCEPT ![u] = IF req[r].verb = "demote" THEN "Reviewer" ELSE "Admin"]
            /\ UNCHANGED <<token, session>>
        BY <1>9, <3>3 DEF AdminWrite
      <4>2. \E o \in User : role'[o] = "Admin"
        <5>1. CASE req[r].verb = "promote"
          BY <1>y, <2>1, <4>1, <5>1
        <5>2. CASE req[r].verb # "promote"
          <6>1. PICK o \in User \ {u} : role[o] = "Admin"
            BY <2>3, <5>2
          <6>. QED BY <1>y, <2>1, <4>1, <6>1
        <5>. QED BY <5>1, <5>2
      <4>3. role' \in [User -> {"none", "Admin", "Reviewer"}]
        BY <1>y, <2>1, <4>1
      <4>. QED BY <4>1, <4>2, <4>3
    <3>. QED BY <3>1, <3>2, <3>3
  <2>5. AuthTypes'
    <3>1. DOMAIN token' \subseteq Token /\ \A t \in DOMAIN token' : token'[t] \in TokenRecord
      BY <1>y, <2>4
    <3>2. DOMAIN session' \subseteq User \cup Nat /\ \A s \in DOMAIN session' : session'[s] \in SessionRecord
      BY <1>y, <2>4
    <3>. QED BY <1>i, <1>t, <1>y, <2>1, <2>4, <3>1, <3>2, TypesKept
  <2>6. LinksInv'
    BY <1>i, <1>t, <2>1, <2>2, <2>4, LinksKept
  <2>7. WriterSafe'
    <3>1. \A q \in Request : req'[q].at # "write"
      BY <1>i, <2>2, <2>3 DEF WriterSafe
    <3>. QED BY <3>1 DEF WriterSafe
  <2>. QED BY <2>4, <2>5, <2>6, <2>7 DEF AuthInv, AdminsInv, AdminRemains
<1>10. ASSUME NEW r \in Request, IssueDelete(r) PROVE AuthInv'
  <2>. DEFINE n == links + 1
              gone == Revoked(req[r].user, req[r].purpose)
              x == [req[r] EXCEPT !.at = "insert", !.tok = n]
  <2>1. /\ req[r].at = "revoke" /\ links < MaxLinks /\ links' = n /\ Goes(r, x)
        /\ before' = [before EXCEPT ![n] = DOMAIN token] /\ token' = Drop(token, gone)
        /\ UNCHANGED <<role, session, logins, adminLock, minted>>
    BY <1>10 DEF IssueDelete
  <2>2. n \in Token /\ n \in 1..MaxLinks /\ links <= n /\ n > links /\ n \in 1..n
    BY <1>0, <1>y, <2>1 DEF Token
  <2>3. x \in RequestRecord /\ x.at = "insert" /\ x.tok = n /\ x.user = req[r].user /\ x.purpose = req[r].purpose
    <3>1. req[r] \in RequestRecord
      BY <1>y
    <3>. HIDE DEF n
    <3>. QED BY <2>2, <3>1 DEF RequestRecord, Stage
  <2>. HIDE DEF x
  <2>4. /\ req'[r] = x /\ \A q \in Request \ {r} : req'[q] = req[q]
    BY <1>t, <2>1, <2>3, RequestMoves
  <2>5. \A t \in Token : Redeeming(t)' = Redeeming(t)
    <3>1. \A t \in Token : Redeeming(t)' = Redeeming(t) \ {r}
      BY <1>t, <2>1, <2>3, RequestMoves
    <3>2. \A t \in Token : r \notin Redeeming(t)
      BY <2>1 DEF Redeeming
    <3>. QED BY <3>1, <3>2
  <2>6. /\ DOMAIN token' = DOMAIN token \ gone /\ \A t \in DOMAIN token' : token'[t] = token[t]
    BY <2>1 DEF Drop
  <2>7. /\ before' \in [Token -> SUBSET Token] /\ before'[n] = DOMAIN token
        /\ \A m \in Token \ {n} : before'[m] = before[m]
    BY <1>y, <2>1, <2>2
  <2>u. req[r].user \in User
    BY <1>y, <2>1
  <2>. HIDE DEF n
  <2>8. AuthTypes'
    BY <1>t, <1>y, <2>1, <2>2, <2>3, <2>6, <2>7, <2>u, TypesKept
  <2>9. \A t \in Token : Unseen(t) => Unseen(t)'
    BY <2>1, <2>5, <2>6, <2>7 DEF Unseen
  <2>10. LinksFresh'
    <3>1. \A t \in Token : t > links' => t > links
      BY <1>n, <1>y, <2>1, <2>2
    <3>2. \A q \in Request \ {r} : req[q].at = "insert" => req[q].tok \in Token /\ req[q].tok # n
      BY <1>n, <1>y, <2>2
    <3>3. Unseen(n)
      BY <1>l, <2>2 DEF LinksFresh
    <3>4. \A q \in Request : req'[q].at = "insert" => req'[q].tok \in Token /\ Unseen(req[q].tok)'
      <4>1. \A q \in Request : req'[q].at = "insert" =>
              \E t \in Token : t = req'[q].tok /\ Unseen(t)
        BY <1>l, <2>2, <2>3, <2>4, <3>2, <3>3 DEF LinksFresh
      <4>2. \A q \in Request : req'[q].at = "insert" =>
              \E t \in Token : t = req'[q].tok /\ Unseen(t)'
        BY <2>9, <4>1
      <4>. QED BY <4>2 DEF Unseen, Redeeming
    <3>5. \A t \in Token : t > links' => Unseen(t)'
      BY <1>l, <2>9, <3>1 DEF LinksFresh
    <3>6. \A p, q \in Request :
            req'[p].at = "insert" /\ req'[q].at = "insert" /\ req'[p].tok = req'[q].tok => p = q
      BY <1>l, <2>3, <2>4, <3>2 DEF LinksFresh
    <3>. QED BY <3>4, <3>5, <3>6 DEF LinksFresh
  <2>11. BudgetSplit'
    BY <1>l, <2>1, <2>5, <2>6 DEF BudgetSplit
  <2>12. InsertRevokes'
    <3>1. ASSUME NEW t \in DOMAIN token', token'[t].user = req[r].user, token'[t].purpose = req[r].purpose PROVE FALSE
      BY <2>6, <3>1 DEF Revoked
    <3>2. \A q \in Request \ {r} : req[q].at = "insert" => before'[req[q].tok] = before[req[q].tok]
      BY <1>n, <1>y, <2>2, <2>7
    <3>3. ASSUME NEW q \in Request, req'[q].at = "insert", NEW t \in DOMAIN token',
                 token'[t].user = req'[q].user, token'[t].purpose = req'[q].purpose
          PROVE  t \notin before'[req'[q].tok]
      <4>1. q # r
        BY <2>3, <2>4, <3>1, <3>3
      <4>2. req'[q] = req[q]
        BY <2>4, <4>1
      <4>. QED BY <1>l, <2>6, <3>2, <3>3, <4>1, <4>2 DEF InsertRevokes
    <3>. QED BY <3>3 DEF InsertRevokes
  <2>13. OldLinkRevoked'
    <3>1. n \notin DOMAIN token
      BY <1>l, <2>2 DEF LinksFresh, Unseen
    <3>2. \A t \in DOMAIN token' : t \in DOMAIN token /\ token'[t] = token[t] /\ before'[t] = before[t]
      BY <1>y, <2>6, <2>7, <3>1
    <3>. QED BY <1>l, <3>2 DEF OldLinkRevoked
  <2>14. AdminsInv'
    BY <1>t, <2>1, <2>3, <2>4, AdminsKept
  <2>. QED BY <2>8, <2>10, <2>11, <2>12, <2>13, <2>14 DEF AuthInv, LinksInv
<1>11. ASSUME NEW r \in Request, IssueInsert(r) PROVE AuthInv'
  <2>. DEFINE n == req[r].tok
              rec == [user |-> req[r].user, purpose |-> req[r].purpose, left |-> Redemptions]
  <2>1. /\ req[r].at = "insert" /\ Goes(r, Idle)
        /\ token' = (IF Exists(req[r].user) THEN Put(token, n, rec) ELSE token)
        /\ UNCHANGED <<role, session, links, logins, adminLock, minted, before>>
    BY <1>11 DEF IssueInsert, Ends
  <2>2. n \in 1..links /\ n \in Token /\ req[r].user \in User /\ rec \in TokenRecord /\ Unseen(n)
        /\ rec.left = Redemptions /\ rec.user = req[r].user /\ rec.purpose = req[r].purpose
    <3>1. n \in 1..links /\ req[r].user \in User /\ req[r].purpose \in Purpose
      BY <1>y, <2>1 DEF RequestRecord
    <3>2. rec \in TokenRecord
      BY <1>0, <3>1 DEF TokenRecord
    <3>. QED BY <1>l, <1>n, <2>1, <3>1, <3>2 DEF LinksFresh
  <2>. HIDE DEF rec
  <2>3. req'[r] = Idle /\ \A q \in Request \ {r} : req'[q] = req[q]
    BY <1>i, <1>t, <2>1, RequestMoves
  <2>4. \A t \in Token : Redeeming(t)' = Redeeming(t)
    <3>1. \A t \in Token : Redeeming(t)' = Redeeming(t) \ {r}
      BY <1>i, <1>t, <2>1, RequestMoves
    <3>2. \A t \in Token : r \notin Redeeming(t)
      BY <2>1 DEF Redeeming
    <3>. QED BY <3>1, <3>2
  <2>5. /\ DOMAIN token \subseteq DOMAIN token' /\ DOMAIN token' \subseteq DOMAIN token \cup {n}
        /\ \A t \in DOMAIN token : token'[t] = token[t]
        /\ n \in DOMAIN token' => token'[n] = rec
    BY <2>1, <2>2 DEF Put, Unseen
  <2>. HIDE DEF n
  <2>6. AuthTypes'
    <3>1. DOMAIN token' \subseteq Token /\ \A t \in DOMAIN token' : token'[t] \in TokenRecord
      BY <1>y, <2>2, <2>5
    <3>. QED BY <1>i, <1>t, <1>y, <2>1, <3>1, TypesKept
  <2>7. \A t \in Token \ {n} : Unseen(t) => Unseen(t)'
    BY <2>1, <2>4, <2>5 DEF Unseen
  <2>8. \A q \in Request : req'[q].at = "insert" => q # r /\ req'[q] = req[q] /\ req[q].tok \in Token \ {n} /\ Unseen(req[q].tok)
    <3>1. ASSUME NEW q \in Request, req'[q].at = "insert" PROVE q # r
      BY <1>i, <2>3, <3>1
    <3>2. ASSUME NEW q \in Request \ {r}, req[q].at = "insert" PROVE req[q].tok \in Token \ {n} /\ Unseen(req[q].tok)
      BY <1>l, <1>n, <1>y, <2>1, <3>2 DEF LinksFresh, n
    <3>. QED BY <2>3, <3>1, <3>2
  <2>9. LinksFresh'
    <3>1. \A t \in Token : t > links => t # n
      BY <1>n, <1>y, <2>2
    <3>2. \A t \in Token : t > links => Unseen(t)'
      BY <1>l, <2>7, <3>1 DEF LinksFresh
    <3>3. \A q \in Request : req'[q].at = "insert" => Unseen(req[q].tok)'
      <4>1. \A q \in Request : req'[q].at = "insert" => \E t \in Token : t = req'[q].tok /\ Unseen(t)'
        BY <2>7, <2>8
      <4>. QED BY <4>1 DEF Unseen, Redeeming
    <3>4. \A p, q \in Request :
            req'[p].at = "insert" /\ req'[q].at = "insert" /\ req'[p].tok = req'[q].tok => p = q
      BY <1>l, <2>8 DEF LinksFresh
    <3>. QED BY <2>1, <3>2, <3>3, <3>4 DEF LinksFresh
  <2>10. BudgetSplit'
    <3>1. minted[n] = 0 /\ Redeeming(n) = {} /\ Cardinality(Redeeming(n)) = 0
      BY <2>2, FS_EmptySet DEF Unseen
    <3>2. ASSUME NEW t \in Token, t \in DOMAIN token'
          PROVE  minted[t] + Cardinality(Redeeming(t)) + token'[t].left <= Redemptions
      <4>1. CASE t = n
        BY <1>0, <2>2, <2>5, <3>1, <3>2, <4>1
      <4>2. CASE t # n
        BY <1>l, <2>5, <3>2, <4>2 DEF BudgetSplit
      <4>. QED BY <4>1, <4>2
    <3>. QED BY <1>l, <2>1, <2>4, <3>2 DEF BudgetSplit
  <2>11. InsertRevokes'
    <3>1. ASSUME NEW q \in Request, req'[q].at = "insert", NEW t \in DOMAIN token',
                 token'[t].user = req'[q].user, token'[t].purpose = req'[q].purpose
          PROVE  t \notin before[req'[q].tok]
      <4>1. CASE t = n
        BY <2>2, <2>8, <3>1, <4>1 DEF Unseen
      <4>2. CASE t # n
        BY <1>l, <2>5, <2>8, <3>1, <4>2 DEF InsertRevokes
      <4>. QED BY <4>1, <4>2
    <3>. QED BY <2>1, <3>1 DEF InsertRevokes
  <2>12. OldLinkRevoked'
    <3>1. ASSUME NEW t \in DOMAIN token', NEW m \in DOMAIN token', t # m,
                 token'[t].user = token'[m].user, token'[t].purpose = token'[m].purpose
          PROVE  t \notin before[m]
      <4>1. CASE t = n
        BY <1>y, <2>2, <2>5, <3>1, <4>1 DEF Unseen
      <4>2. CASE t # n /\ m = n
        BY <1>l, <2>1, <2>2, <2>5, <3>1, <4>2 DEF InsertRevokes, n
      <4>3. CASE t # n /\ m # n
        BY <1>l, <2>5, <3>1, <4>3 DEF OldLinkRevoked
      <4>. QED BY <4>1, <4>2, <4>3
    <3>. QED BY <2>1, <3>1 DEF OldLinkRevoked
  <2>13. AdminsInv'
    BY <1>i, <1>t, <2>1, <2>3, AdminsKept
  <2>. QED BY <2>6, <2>9, <2>10, <2>11, <2>12, <2>13 DEF AuthInv, LinksInv
<1>12. ASSUME NEW r \in Request, NEW n \in Token, ConsumeToken(r, n) PROVE AuthInv'
  <2>. DEFINE x == [Idle EXCEPT !.at = "getUser", !.user = token[n].user, !.tok = n]
  <2>1. /\ req[r].at = "idle" /\ n \in DOMAIN token /\ token' = Consumed(n) /\ Goes(r, x)
        /\ UNCHANGED <<role, session, links, logins, adminLock, minted, before>>
    BY <1>12 DEF ConsumeToken, Arrives
  <2>2. token[n] \in TokenRecord /\ token[n].user \in User /\ token[n].left \in 1..Redemptions
    BY <1>y, <2>1 DEF TokenRecord
  <2>3. x \in RequestRecord /\ x.at = "getUser" /\ x.tok = n /\ x.user \in User
    BY <2>2 DEF Idle, RequestRecord, Stage, Purpose
  <2>. HIDE DEF x
  <2>4. req'[r] = x /\ \A q \in Request \ {r} : req'[q] = req[q]
    BY <1>t, <2>1, <2>3, RequestMoves
  <2>5. n \in 1..links
    <3>1. ~(n > links)
      BY <1>l, <2>1 DEF LinksFresh, Unseen
    <3>. QED BY <1>n, <1>y, <3>1 DEF Token
  <2>6. /\ DOMAIN token' \subseteq DOMAIN token /\ \A t \in DOMAIN token' \ {n} : token'[t] = token[t]
        /\ n \in DOMAIN token' => /\ token'[n] \in TokenRecord /\ token'[n].left = token[n].left - 1
                                  /\ token'[n].user = token[n].user /\ token'[n].purpose = token[n].purpose
    <3>1. CASE token[n].left = 1
      <4>1. token' = Drop(token, {n})
        BY <2>1, <3>1 DEF Consumed
      <4>. QED BY <4>1 DEF Drop
    <3>2. CASE token[n].left # 1
      <4>. DEFINE z == [token[n] EXCEPT !.left = token[n].left - 1]
      <4>1. token' = [token EXCEPT ![n] = z]
        BY <2>1, <3>2 DEF Consumed
      <4>2. token[n].left - 1 \in 1..Redemptions
        BY <1>0, <2>2, <3>2
      <4>3. z \in TokenRecord /\ z.left = token[n].left - 1 /\ z.user = token[n].user /\ z.purpose = token[n].purpose
        BY <2>2, <4>2 DEF TokenRecord
      <4>. HIDE DEF z
      <4>. QED BY <2>1, <4>1, <4>3
    <3>. QED BY <3>1, <3>2
  <2>7. \A t \in DOMAIN token' : token'[t] \in TokenRecord /\ token'[t].user = token[t].user /\ token'[t].purpose = token[t].purpose
    BY <1>y, <2>6
  <2>8. AuthTypes'
    <3>1. DOMAIN token' \subseteq Token
      BY <1>y, <2>6
    <3>. QED BY <1>t, <1>y, <2>1, <2>3, <2>5, <2>7, <3>1, TypesKept
  <2>9. Redeeming(n)' = Redeeming(n) \cup {r} /\ r \notin Redeeming(n)
        /\ \A t \in Token \ {n} : Redeeming(t)' = Redeeming(t)
    <3>1. \A t \in Token : r \notin Redeeming(t)
      BY <2>1 DEF Redeeming
    <3>2. \A t \in Token : Redeeming(t)' = IF t = n THEN Redeeming(t) \cup {r} ELSE Redeeming(t) \ {r}
      BY <1>t, <2>1, <2>3, RequestMoves
    <3>. QED BY <3>1, <3>2
  <2>10. \A t \in Token : Unseen(t) => Unseen(t)'
    BY <2>1, <2>6, <2>9 DEF Unseen
  <2>11. \A q \in Request : req'[q].at = "insert" => req'[q] = req[q] /\ req[q].tok \in Token
    BY <1>n, <1>y, <2>3, <2>4
  <2>12. LinksFresh'
    BY <1>l, <2>1, <2>10, <2>11 DEF LinksFresh
  <2>13. BudgetSplit'
    <3>1. Cardinality(Redeeming(n) \cup {r}) = Cardinality(Redeeming(n)) + 1 /\ Cardinality(Redeeming(n)) \in Nat
      BY <2>9, RedeemingCount
    <3>2. minted[n] + Cardinality(Redeeming(n)) + token[n].left <= Redemptions /\ minted[n] \in Nat
      BY <1>l, <1>y, <2>1 DEF BudgetSplit
    <3>3. /\ minted[n] + (Cardinality(Redeeming(n)) + 1) <= Redemptions
          /\ minted[n] + (Cardinality(Redeeming(n)) + 1) + (token[n].left - 1) <= Redemptions
      BY <1>0, <2>2, <3>1, <3>2
    <3>4. ASSUME NEW t \in Token
          PROVE  /\ t \in DOMAIN token' => minted'[t] + Cardinality(Redeeming(t)') + token'[t].left <= Redemptions
                 /\ minted'[t] + Cardinality(Redeeming(t)') <= Redemptions
      <4>1. CASE t = n
        BY <2>1, <2>6, <2>9, <3>1, <3>3, <4>1
      <4>2. CASE t # n
        BY <1>l, <2>1, <2>6, <2>9, <4>2 DEF BudgetSplit
      <4>. QED BY <4>1, <4>2
    <3>. QED BY <3>4 DEF BudgetSplit
  <2>14. InsertRevokes'
    BY <1>l, <2>1, <2>6, <2>7, <2>11 DEF InsertRevokes
  <2>15. OldLinkRevoked'
    BY <1>l, <2>1, <2>6, <2>7 DEF OldLinkRevoked
  <2>16. AdminsInv'
    BY <1>t, <2>1, <2>3, <2>4, AdminsKept
  <2>. QED BY <2>8, <2>12, <2>13, <2>14, <2>15, <2>16 DEF AuthInv, LinksInv
<1>f. ASSUME NEW r \in Request, NEW x \in RequestRecord, NEW n \in Token, Goes(r, x),
             req[r].at \in {"getUser", "create"}, req[r].tok = n,
             x = Idle \/ x = [req[r] EXCEPT !.at = "create"],
             minted'[n] = minted[n] \/ (x = Idle /\ minted'[n] = minted[n] + 1),
             minted' \in [Token -> Nat], \A t \in Token \ {n} : minted'[t] = minted[t],
             DOMAIN session' \subseteq User \cup Nat, \A s \in DOMAIN session' : session'[s] \in SessionRecord,
             logins' \in Nat, UNCHANGED <<role, token, links, adminLock, before>>
      PROVE  AuthInv'
  <2>0. req[r] \in RequestRecord /\ n \in 1..links /\ req[r].user \in User /\ n \in DOMAIN minted
    BY <1>f, <1>y
  <2>1. \/ x = Idle
        \/ x.at = "create" /\ x.tok = n /\ x.user \in User
    BY <1>f, <2>0 DEF RequestRecord
  <2>2. req'[r] = x /\ \A q \in Request \ {r} : req'[q] = req[q]
    BY <1>f, <1>t, RequestMoves
  <2>3. AuthTypes'
    <3>1. x.at \notin {"off", "idle"} => x.user \in User
      BY <1>i, <2>1
    <3>2. x.at \in {"insert", "getUser", "create"} => x.tok \in 1..links'
      BY <1>f, <1>i, <2>0, <2>1
    <3>. QED BY <1>f, <1>t, <1>y, <3>1, <3>2, TypesKept
  <2>4. r \in Redeeming(n) /\ Redeeming(n)' = (IF x = Idle THEN Redeeming(n) \ {r} ELSE Redeeming(n))
        /\ \A t \in Token \ {n} : Redeeming(t)' = Redeeming(t)
    <3>1. r \in Redeeming(n) /\ \A t \in Token \ {n} : r \notin Redeeming(t)
      BY <1>f DEF Redeeming
    <3>2. \A t \in Token : Redeeming(t)' = IF x.at \in {"getUser", "create"} /\ x.tok = t
                                           THEN Redeeming(t) \cup {r} ELSE Redeeming(t) \ {r}
      BY <1>f, <1>t, RequestMoves
    <3>3. x = Idle => x.at \notin {"getUser", "create"}
      BY <1>i
    <3>4. x # Idle => x.at = "create" /\ x.tok = n
      BY <2>1
    <3>. QED BY <3>1, <3>2, <3>3, <3>4
  <2>5. ~Unseen(n)
    BY <2>4 DEF Unseen
  <2>6. \A t \in Token : Unseen(t) => Unseen(t)'
    BY <1>f, <2>4, <2>5 DEF Unseen
  <2>7. \A q \in Request : req'[q].at = "insert" => req'[q] = req[q] /\ req[q].tok \in Token
    BY <1>i, <1>n, <1>y, <2>1, <2>2
  <2>8. LinksFresh'
    BY <1>f, <1>l, <2>6, <2>7 DEF LinksFresh
  <2>9. BudgetSplit'
    <3>1. /\ Cardinality(Redeeming(n)) \in Nat /\ Cardinality(Redeeming(n) \ {r}) = Cardinality(Redeeming(n)) - 1
      BY <2>4, RedeemingCount
    <3>2. minted'[n] + Cardinality(Redeeming(n)') <= minted[n] + Cardinality(Redeeming(n))
          /\ minted'[n] + Cardinality(Redeeming(n)') \in Nat /\ minted[n] + Cardinality(Redeeming(n)) \in Nat
      <4>1. minted[n] \in Nat /\ minted'[n] \in Nat
        BY <1>f, <1>y
      <4>2. Cardinality(Redeeming(n)) >= 1
        BY <2>4, <3>1, RedeemingCount, FS_RemoveElement, FS_CardinalityType, FS_EmptySet
      <4>3. CASE x = Idle
        <5>1. Cardinality(Redeeming(n)') = Cardinality(Redeeming(n)) - 1
          BY <2>4, <3>1, <4>3
        <5>. QED BY <1>f, <3>1, <4>1, <4>2, <5>1
      <4>4. CASE x # Idle
        <5>1. Cardinality(Redeeming(n)') = Cardinality(Redeeming(n)) /\ minted'[n] = minted[n]
          BY <1>f, <2>4, <4>4
        <5>. QED BY <3>1, <4>1, <5>1
      <4>. QED BY <4>3, <4>4
    <3>3. n \in DOMAIN token => token[n].left \in Nat
      BY <1>y DEF TokenRecord
    <3>4. ASSUME NEW t \in Token
          PROVE  /\ t \in DOMAIN token => minted'[t] + Cardinality(Redeeming(t)') + token[t].left <= Redemptions
                 /\ minted'[t] + Cardinality(Redeeming(t)') <= Redemptions
      <4>1. CASE t = n
        <5>1. /\ n \in DOMAIN token => minted[n] + Cardinality(Redeeming(n)) + token[n].left <= Redemptions
              /\ minted[n] + Cardinality(Redeeming(n)) <= Redemptions
          BY <1>l DEF BudgetSplit
        <5>. QED BY <1>0, <3>2, <3>3, <4>1, <5>1
      <4>2. CASE t # n
        BY <1>f, <1>l, <2>4, <4>2 DEF BudgetSplit
      <4>. QED BY <4>1, <4>2
    <3>. QED BY <1>f, <3>4 DEF BudgetSplit
  <2>10. InsertRevokes'
    BY <1>f, <1>l, <2>7 DEF InsertRevokes
  <2>11. OldLinkRevoked'
    BY <1>f, <1>l DEF OldLinkRevoked
  <2>12. AdminsInv'
    BY <1>f, <1>i, <1>t, <2>1, <2>2, AdminsKept
  <2>. QED BY <2>3, <2>8, <2>9, <2>10, <2>11, <2>12 DEF AuthInv, LinksInv
<1>13. ASSUME NEW r \in Request, GetUser(r) PROVE AuthInv'
  <2>. DEFINE x == [req[r] EXCEPT !.at = "create"]
  <2>1. /\ Goes(r, x) \/ Goes(r, Idle)
        /\ UNCHANGED <<role, token, session, links, logins, adminLock, minted, before>>
    BY <1>13 DEF GetUser, Ends
  <2>2. req[r].at = "getUser"
    BY <1>13 DEF GetUser
  <2>3. req[r].tok \in Token /\ x \in RequestRecord
    <3>1. req[r] \in RequestRecord /\ req[r].tok \in Token
      BY <1>n, <1>y, <2>2
    <3>. QED BY <3>1 DEF RequestRecord, Stage
  <2>4. CASE Goes(r, Idle)
    BY <1>f, <1>i, <1>y, <2>1, <2>2, <2>3, <2>4
  <2>5. CASE Goes(r, x)
    BY <1>f, <1>i, <1>y, <2>1, <2>2, <2>3, <2>5
  <2>. QED BY <2>1, <2>4, <2>5
<1>14. ASSUME NEW r \in Request, CreateSession(r) PROVE AuthInv'
  <2>. DEFINE n == req[r].tok
              u == req[r].user
              z == [user |-> u, from |-> n]
  <2>1. req[r].at = "create" /\ Goes(r, Idle) /\ UNCHANGED <<role, token, links, adminLock, before>>
    BY <1>14 DEF CreateSession, Ends
  <2>2. n \in Token /\ u \in User /\ z \in SessionRecord
    <3>1. n \in Token /\ u \in User
      BY <1>n, <1>y, <2>1
    <3>. QED BY <3>1 DEF SessionRecord
  <2>3. CASE Exists(u)
    <3>1. logins' = logins + 1 /\ session' = Put(session, logins', z) /\ minted' = [minted EXCEPT ![n] = @ + 1]
      BY <1>14, <2>3 DEF CreateSession
    <3>. HIDE DEF n, u, z
    <3>2. minted' \in [Token -> Nat] /\ minted'[n] = minted[n] + 1 /\ \A t \in Token \ {n} : minted'[t] = minted[t]
      BY <1>y, <2>2, <3>1
    <3>3. logins' \in Nat
      BY <1>y, <3>1
    <3>4. DOMAIN session' \subseteq User \cup Nat /\ \A s \in DOMAIN session' : session'[s] \in SessionRecord
      <4>1. DOMAIN session' = DOMAIN session \cup {logins'}
            /\ \A s \in DOMAIN session' : session'[s] = IF s = logins' THEN z ELSE session[s]
        BY <3>1 DEF Put
      <4>. QED BY <1>y, <2>2, <3>3, <4>1
    <3>5. req[r].tok = n
      BY DEF n
    <3>. QED BY <1>f, <1>i, <2>1, <2>2, <3>2, <3>3, <3>4, <3>5
  <2>4. CASE ~Exists(u)
    <3>1. UNCHANGED <<session, logins, minted>>
      BY <1>14, <2>4 DEF CreateSession
    <3>. QED BY <1>f, <1>i, <1>y, <2>1, <2>2, <3>1
  <2>. QED BY <2>3, <2>4
<1>15. CASE UNCHANGED authVars
  <2>1. UNCHANGED <<role, token, session, links, logins, req, adminLock, minted, before>>
    BY <1>15 DEF authVars
  <2>2. AuthTypes'
    BY <1>t, <2>1 DEF AuthTypes
  <2>3. LinksInv'
    BY <1>t, <2>1, LinksKept
  <2>4. AdminsInv'
    BY <1>t, <2>1, AdminsKept
  <2>. QED BY <2>2, <2>3, <2>4 DEF AuthInv
<1>. QED BY <1>1, <1>2, <1>3, <1>4, <1>5, <1>6, <1>7, <1>8, <1>9, <1>10, <1>11, <1>12, <1>13,
            <1>14, <1>15 DEF AuthNext

\* The first admins, one of them with a link out, have the invariant.
LEMMA AuthInitially == ASSUME NEW on \in BOOLEAN, AuthInit(on) PROVE AuthInv
<1>0. /\ Redemptions \in Nat \ {0} /\ MaxLinks \in Nat \ {0} /\ FirstAdmin \subseteq User /\ FirstLinked \in FirstAdmin
  BY AuthAssumption
<1>1. 1 \in Token /\ 1 \in 1..MaxLinks
  BY <1>0 DEF Token
<1>2. PICK a \in {"off", "idle"} : req = [r \in Request |-> [Idle EXCEPT !.at = a]]
  BY DEF AuthInit
<1>3. req \in [Request -> RequestRecord] /\ \A r \in Request : req[r].at \in {"off", "idle"}
  <2>1. [Idle EXCEPT !.at = a] \in RequestRecord /\ [Idle EXCEPT !.at = a].at = a
    BY DEF Idle, RequestRecord, Stage, Purpose
  <2>. QED BY <1>2, <2>1
<1>4. DOMAIN token = {1} /\ token[1] \in TokenRecord /\ token[1].left = Redemptions
  <2>1. DOMAIN token = {1} /\ token[1] = [user |-> FirstLinked, purpose |-> "login", left |-> Redemptions]
    BY DEF AuthInit
  <2>. QED BY <1>0, <2>1 DEF TokenRecord, Purpose
<1>5. DOMAIN session \subseteq User \cup Nat /\ \A s \in DOMAIN session : session[s] \in SessionRecord
  <2>1. DOMAIN session = FirstAdmin /\ \A s \in FirstAdmin : session[s] = [user |-> s, from |-> NoOne]
    BY DEF AuthInit
  <2>. QED BY <1>0, <2>1 DEF SessionRecord
<1>6. minted \in [Token -> Nat] /\ before \in [Token -> SUBSET Token] /\ links = 1 /\ logins = 0
      /\ \A t \in Token : minted[t] = 0 /\ before[t] = {}
  BY DEF AuthInit
<1>7. role \in [User -> {"none", "Admin", "Reviewer"}] /\ role[FirstLinked] = "Admin"
  BY <1>0 DEF AuthInit
<1>8. AuthTypes
  BY <1>1, <1>3, <1>4, <1>5, <1>6, <1>7 DEF AuthTypes
<1>9. \A t \in Token : Redeeming(t) = {} /\ Cardinality(Redeeming(t)) = 0
  <2>1. \A t \in Token : Redeeming(t) = {}
    BY <1>3 DEF Redeeming
  <2>. QED BY <2>1, FS_EmptySet
<1>10. LinksFresh
  BY <1>3, <1>4, <1>6, <1>9 DEF LinksFresh, Unseen
<1>11. BudgetSplit
  BY <1>0, <1>4, <1>6, <1>9 DEF BudgetSplit
<1>12. InsertRevokes /\ OldLinkRevoked /\ WriterSafe
  BY <1>3, <1>4 DEF InsertRevokes, OldLinkRevoked, WriterSafe
<1>13. AdminRemains
  BY <1>0, <1>7 DEF AdminRemains
<1>. QED BY <1>8, <1>10, <1>11, <1>12, <1>13 DEF AuthInv, LinksInv, AdminsInv

\* What the invariant gives: an admin remains, budgets hold, replaced links are dead.
LEMMA AuthInvSound == AuthInv => AuthSound
<1>. SUFFICES ASSUME AuthInv PROVE AuthSound
  OBVIOUS
<1>1. \A t \in Token : minted[t] \in Nat
  BY DEF AuthInv, AuthTypes
<1>2. ASSUME NEW t \in Token PROVE minted[t] <= Redemptions
  <2>1. CASE Request = {}
    <3>1. Redeeming(t) = {}
      BY <2>1 DEF Redeeming
    <3>2. Cardinality(Redeeming(t)) = 0
      BY <3>1, FS_EmptySet
    <3>. QED BY <1>1, <3>2, AuthAssumption DEF AuthInv, LinksInv, BudgetSplit
  <2>2. CASE Request # {}
    <3>1. Cardinality(Redeeming(t)) \in Nat
      BY <2>2, RedeemingCount
    <3>2. minted[t] + Cardinality(Redeeming(t)) <= Redemptions
      BY DEF AuthInv, LinksInv, BudgetSplit
    <3>. QED BY <1>1, <3>1, <3>2, AuthAssumption
  <2>. QED BY <2>1, <2>2
<1>. QED BY <1>2 DEF AuthInv, LinksInv, AdminsInv, AuthSound, BudgetHeld

\* For any number of users, requests and links: however demotions and deletions of
\* admins race an admin remains, a link mints no more sessions than its budget, and a
\* link dies when a newer one is requested (api/users.py, auth/tokens.py).
THEOREM AuthIsSound == AuthSpec => []AuthSound
<1>1. AuthInit(TRUE) => AuthInv
  BY AuthInitially
<1>. QED BY <1>1, AuthInductive, AuthInvSound, PTL DEF AuthSpec

-----------------------------------------------------------------------------
(* The baselines keep their invariant                                      *)

\* The scope a recompute is at is the first one it has not done.
LEMMA ScopeAtHand ==
  ASSUME BaselineTypes, job.at # "idle"
  PROVE  Head(job.todo) \in Scope /\ Tail(job.todo) \in Seq(Scope)
<1>1. job.todo \in Seq(Scope) /\ job.todo # <<>>
  BY DEF BaselineTypes
<1>. QED BY <1>1

\* The order a recompute takes the scopes in, the global one first, is a sequence.
LEMMA ScopesInOrder ==
  ASSUME NEW order \in [1..Cardinality(Script) -> Script]
  PROVE  <<"global">> \o order \in Seq(Scope) /\ <<"global">> \o order # <<>>
<1>1. Cardinality(Script) \in Nat
  BY BaselinesAssumption, FS_CardinalityType
<1>2. order \in Seq(Script)
  BY <1>1, IsASeq
<1>3. order \in Seq(Scope) /\ <<"global">> \in Seq(Scope) /\ <<"global">> # <<>>
  BY <1>2 DEF Scope
<1>4. Len(<<"global">> \o order) = 1 + Len(order) /\ Len(order) \in Nat
  BY <1>3
<1>. HIDE DEF Scope
<1>5. <<"global">> \o order \in Seq(Scope)
  BY <1>3
<1>6. <<"global">> \o order # <<>>
  BY <1>4
<1>. QED BY <1>5, <1>6

\* The rows a percentile query yields, and the empty row, are rows.
LEMMA RowsTyped ==
         /\ Missing \in BaselineRow /\ NoEntry \in [row : BaselineRow, age : Nat]
         /\ NoEntry.age = Ttl /\ Ttl \in Nat
         /\ \A r \in Readings, b \in BOOLEAN :
              [p50 |-> r.p50, p99 |-> r.p99, enough |-> b, set |-> TRUE] \in BaselineRow
         /\ \A row \in BaselineRow : Stored(row) \in [row : BaselineRow, age : Nat]
<1>1. Missing \in BaselineRow
  BY DEF Missing, BaselineRow
<1>2. Ttl \in Nat
  BY BaselinesAssumption
<1>3. NoEntry \in [row : BaselineRow, age : Nat] /\ NoEntry.age = Ttl
  BY <1>1, <1>2 DEF NoEntry
<1>4. \A r \in Readings, b \in BOOLEAN :
        [p50 |-> r.p50, p99 |-> r.p99, enough |-> b, set |-> TRUE] \in BaselineRow
  BY BaselinesAssumption DEF BaselineRow
<1>5. \A row \in BaselineRow : Stored(row) \in [row : BaselineRow, age : Nat]
  BY DEF Stored
<1>. QED BY <1>1, <1>2, <1>3, <1>4, <1>5

\* Every operation of the baselines keeps the types.
LEMMA BaselineTypesKept ==
  ASSUME BaselineTypes, [BaselinesNext]_baselineVars
  PROVE  BaselineTypes'
<1>. DEFINE Entry == [row : BaselineRow, age : Nat]
            Run == [at : {"idle", "query", "filter", "insert", "next"}, todo : Seq(Scope),
                    new : BaselineRow, stop : BOOLEAN, full : BOOLEAN]
            Read == [at : {"idle", "read"}, scope : Scope, row : BaselineRow]
            RunOk(j) == j \in Run /\ (j.at # "idle" => j.todo # <<>>)
<1>0. /\ table \in [Scope -> BaselineRow] /\ inverted \in BOOLEAN /\ cached \in [Scope -> Entry]
      /\ replaced \in [Scope -> Nat] /\ RunOk(job) /\ lookup \in Read
  BY DEF BaselineTypes
<1>1. /\ Missing \in BaselineRow /\ NoEntry \in Entry
      /\ \A r \in Readings, b \in BOOLEAN :
           [p50 |-> r.p50, p99 |-> r.p99, enough |-> b, set |-> TRUE] \in BaselineRow
      /\ \A row \in BaselineRow : Stored(row) \in Entry
  BY RowsTyped
<1>2. "global" \in Scope
  BY DEF Scope
<1>3. RunOk(NoRun) /\ NoLookup \in Read
  <2>1. NoRun \in Run /\ NoRun.at = "idle"
    BY <1>1 DEF NoRun
  <2>2. NoLookup \in Read
    BY <1>1, <1>2 DEF NoLookup
  <2>. QED BY <2>1, <2>2
<1>4. job.at # "idle" => Head(job.todo) \in Scope /\ Tail(job.todo) \in Seq(Scope)
  BY ScopeAtHand
<1>5. inverted' \in BOOLEAN
  BY <1>0 DEF BaselinesNext, baselineVars, BeginLookup, EndLookup, StartRecompute,
     QueryPercentiles, FilterDrifted, InsertBaselines, InsertRaises, NextScope, RestartTask,
     RestartProcess, PassTick
<1>. SUFFICES /\ table' \in [Scope -> BaselineRow] /\ cached' \in [Scope -> Entry]
              /\ replaced' \in [Scope -> Nat] /\ RunOk(job') /\ lookup' \in Read
  BY <1>5 DEF BaselineTypes
<1>6. CASE UNCHANGED baselineVars
  BY <1>0, <1>6 DEF baselineVars
<1>7. ASSUME NEW s \in Scope, BeginLookup(s)
      PROVE  /\ table' \in [Scope -> BaselineRow] /\ cached' \in [Scope -> Entry]
             /\ replaced' \in [Scope -> Nat] /\ RunOk(job') /\ lookup' \in Read
  <2>1. table' = table /\ replaced' = replaced /\ job' = job
    BY <1>7 DEF BeginLookup
  <2>2. cached' \in [Scope -> Entry]
    BY <1>0, <1>1, <1>7 DEF BeginLookup
  <2>3. table[s] \in BaselineRow
    BY <1>0
  <2>4. lookup' \in Read
    BY <1>0, <1>7, <2>3 DEF BeginLookup
  <2>. QED BY <1>0, <2>1, <2>2, <2>4
<1>8. CASE EndLookup
  <2>1. table' = table /\ replaced' = replaced /\ job' = job /\ lookup' = NoLookup
    BY <1>8 DEF EndLookup
  <2>2. Stored(lookup.row) \in Entry /\ lookup.scope \in Scope
    BY <1>0, <1>1
  <2>3. cached' \in [Scope -> Entry]
    BY <1>0, <1>8, <2>2 DEF EndLookup
  <2>. QED BY <1>0, <1>3, <2>1, <2>3
<1>9. CASE StartRecompute
  <2>1. table' = table /\ replaced' = replaced /\ cached' = cached /\ lookup' = lookup
    BY <1>9 DEF StartRecompute
  <2>2. PICK order \in [1..Cardinality(Script) -> Script] :
          job' = [NoRun EXCEPT !.at = "query", !.todo = <<"global">> \o order, !.full = TRUE]
    BY <1>9 DEF StartRecompute
  <2>. DEFINE list == <<"global">> \o order
  <2>3. list \in Seq(Scope) /\ list # <<>>
    BY ScopesInOrder
  <2>. HIDE DEF list
  <2>4. job' = [NoRun EXCEPT !.at = "query", !.todo = list, !.full = TRUE]
    BY <2>2 DEF list
  <2>5. job' = [at |-> "query", todo |-> list, new |-> Missing, stop |-> FALSE, full |-> TRUE]
    BY <2>4 DEF NoRun
  <2>6. RunOk(job')
    BY <1>1, <2>3, <2>5
  <2>. QED BY <1>0, <2>1, <2>6
<1>10. CASE QueryPercentiles
  <2>1. table' = table /\ replaced' = replaced /\ cached' = cached /\ lookup' = lookup
    BY <1>10 DEF QueryPercentiles
  <2>2. CASE job' = [job EXCEPT !.at = "next"]
    <3>1. RunOk(job')
      BY <1>0, <1>10, <2>2 DEF QueryPercentiles
    <3>. QED BY <1>0, <2>1, <3>1
  <2>3. CASE job' # [job EXCEPT !.at = "next"]
    <3>1. PICK r \in Readings, b \in BOOLEAN :
            job' = [job EXCEPT !.at = "filter",
                      !.new = [p50 |-> r.p50, p99 |-> r.p99, enough |-> b, set |-> TRUE]]
      BY <1>10, <2>3 DEF QueryPercentiles
    <3>. DEFINE row == [p50 |-> r.p50, p99 |-> r.p99, enough |-> b, set |-> TRUE]
    <3>2. row \in BaselineRow
      BY <1>1
    <3>. HIDE DEF row
    <3>3. job' = [job EXCEPT !.at = "filter", !.new = row]
      BY <3>1 DEF row
    <3>4. job.todo # <<>>
      BY <1>10 DEF QueryPercentiles
    <3>5. RunOk(job')
      BY <1>0, <3>2, <3>3, <3>4
    <3>. QED BY <1>0, <2>1, <3>5
  <2>. QED BY <2>2, <2>3
<1>11. CASE FilterDrifted
  <2>. DEFINE s == Head(job.todo)
  <2>1. table' = table /\ replaced' = replaced /\ lookup' = lookup
    BY <1>11 DEF FilterDrifted
  <2>2. s \in Scope /\ job.at = "filter" /\ job.todo # <<>>
    BY <1>0, <1>4, <1>11 DEF FilterDrifted
  <2>3. Stored(table[s]) \in Entry
    BY <1>0, <1>1, <2>2
  <2>4. \E e \in {cached[s], Stored(table[s])} : cached' = [cached EXCEPT ![s] = e]
    BY <1>11 DEF FilterDrifted, CacheSeen
  <2>5. \E a \in {"next", "insert"} : job' = [job EXCEPT !.at = a]
    BY <1>11 DEF FilterDrifted
  <2>. HIDE DEF s
  <2>6. cached' \in [Scope -> Entry]
    BY <1>0, <2>2, <2>3, <2>4
  <2>7. RunOk(job')
    BY <1>0, <2>2, <2>5
  <2>. QED BY <1>0, <2>1, <2>6, <2>7
<1>12. ASSUME job.at = "insert", Replace(Head(job.todo), job.new)
       PROVE  table' \in [Scope -> BaselineRow] /\ replaced' \in [Scope -> Nat]
  <2>1. Head(job.todo) \in Scope /\ job.new \in BaselineRow
    BY <1>0, <1>4, <1>12
  <2>. QED BY <1>0, <1>12, <2>1 DEF Replace
<1>13. ASSUME job.at = "insert" PROVE RunOk([job EXCEPT !.at = "next"])
  BY <1>0, <1>13
<1>14. CASE InsertBaselines
  <2>1. table' \in [Scope -> BaselineRow] /\ replaced' \in [Scope -> Nat] /\ RunOk(job')
    BY <1>12, <1>13, <1>14 DEF InsertBaselines
  <2>2. cached' \in [Scope -> Entry] /\ lookup' = lookup
    BY <1>1, <1>14 DEF InsertBaselines
  <2>. QED BY <1>0, <2>1, <2>2
<1>15. CASE InsertRaises
  <2>1. cached' = cached /\ lookup' = lookup
    BY <1>15 DEF InsertRaises
  <2>2. table' \in [Scope -> BaselineRow] /\ replaced' \in [Scope -> Nat]
    BY <1>0, <1>12, <1>15 DEF InsertRaises
  <2>3. job' = NoRun \/ job' = [job EXCEPT !.at = "next"]
    BY <1>15 DEF InsertRaises
  <2>4. RunOk(job')
    BY <1>3, <1>13, <1>15, <2>3 DEF InsertRaises
  <2>. QED BY <1>0, <2>1, <2>2, <2>4
<1>16. CASE NextScope
  <2>1. table' = table /\ replaced' = replaced /\ cached' = cached /\ lookup' = lookup
    BY <1>16 DEF NextScope
  <2>2. CASE Len(job.todo) = 1 \/ job.stop
    BY <1>0, <1>3, <1>16, <2>1, <2>2 DEF NextScope
  <2>3. CASE ~(Len(job.todo) = 1 \/ job.stop)
    <3>1. job.todo \in Seq(Scope) /\ job.todo # <<>> /\ Tail(job.todo) \in Seq(Scope)
      BY <1>0, <1>4, <1>16 DEF NextScope
    <3>2. Tail(job.todo) # <<>>
      <4>1. Len(job.todo) \in Nat /\ Len(job.todo) # 1 /\ Len(job.todo) # 0
        BY <2>3, <3>1, EmptySeq
      <4>2. Len(Tail(job.todo)) = Len(job.todo) - 1
        BY <3>1, HeadTailProperties
      <4>3. Len(Tail(job.todo)) # 0
        BY <4>1, <4>2
      <4>. QED BY <4>3, EmptySeq
    <3>3. job' = [job EXCEPT !.at = "query", !.todo = Tail(job.todo), !.new = Missing]
      BY <1>16, <2>3 DEF NextScope
    <3>4. RunOk(job')
      BY <1>0, <1>1, <3>1, <3>2, <3>3
    <3>. QED BY <1>0, <2>1, <3>4
  <2>. QED BY <2>2, <2>3
<1>20. ASSUME NEW row PROVE RunOk(Bootstrap(row))
  <2>1. <<"global">> \in Seq(Scope) /\ <<"global">> # <<>>
    BY <1>2
  <2>. DEFINE list == <<"global">>
  <2>. HIDE DEF list
  <2>2. list \in Seq(Scope) /\ list # <<>>
    BY <2>1 DEF list
  <2>3. ASSUME NEW r, r = [NoRun EXCEPT !.at = "query", !.todo = list] PROVE RunOk(r)
    <3>1. r = [at |-> "query", todo |-> list, new |-> Missing, stop |-> FALSE, full |-> FALSE]
      BY <2>3 DEF NoRun
    <3>. QED BY <1>1, <2>2, <3>1
  <2>4. \/ Bootstrap(row) = NoRun
        \/ Bootstrap(row) = [NoRun EXCEPT !.at = "query", !.todo = list]
    BY DEF Bootstrap, list
  <2>. QED BY <1>3, <2>3, <2>4
<1>21. "global" \in Scope /\ Stored(table["global"]) \in Entry
  BY <1>0, <1>1 DEF Scope
<1>17. CASE RestartTask
  <2>1. table' = table /\ replaced' = replaced /\ lookup' = lookup
    BY <1>17 DEF RestartTask
  <2>2. \E e \in {cached["global"], Stored(table["global"])} :
            cached' = [cached EXCEPT !["global"] = e]
    BY <1>17 DEF RestartTask, CacheSeen
  <2>3. cached' \in [Scope -> Entry]
    BY <1>0, <1>21, <2>2
  <2>. DEFINE boot == Bootstrap(Seen("global"))
  <2>4. RunOk(boot)
    BY <1>20
  <2>5. job' = boot \/ (job' = [job EXCEPT !.stop = TRUE] /\ job.at # "idle")
    BY <1>17 DEF RestartTask
  <2>. HIDE DEF boot
  <2>6. RunOk(job')
    BY <1>0, <2>4, <2>5
  <2>. QED BY <1>0, <2>1, <2>3, <2>6
<1>18. CASE RestartProcess
  <2>1. table' = table /\ replaced' = replaced /\ lookup' = NoLookup
    BY <1>18 DEF RestartProcess
  <2>2. cached' = [s \in Scope |-> IF s = "global" THEN Stored(table[s]) ELSE NoEntry]
    BY <1>18 DEF RestartProcess
  <2>3. cached' \in [Scope -> Entry]
    BY <1>1, <1>21, <2>2
  <2>4. job' = Bootstrap(table["global"])
    BY <1>18 DEF RestartProcess
  <2>5. RunOk(job')
    BY <1>20, <2>4
  <2>. QED BY <1>0, <1>3, <2>1, <2>3, <2>5
<1>19. CASE PassTick
  <2>1. table' = table /\ job' = job /\ lookup' = lookup
    BY <1>19 DEF PassTick
  <2>2. RecomputeTicks \in Nat /\ Ttl \in Nat
    BY BaselinesAssumption
  <2>3. replaced' \in [Scope -> Nat]
    BY <1>0, <1>19, <2>2 DEF PassTick
  <2>4. \A s \in Scope :
          [cached[s] EXCEPT !.age = IF @ < Ttl THEN @ + 1 ELSE @] \in Entry
    <3>1. ASSUME NEW s \in Scope
          PROVE  [cached[s] EXCEPT !.age = IF @ < Ttl THEN @ + 1 ELSE @] \in Entry
      <4>1. cached[s] \in Entry
        BY <1>0
      <4>2. (IF cached[s].age < Ttl THEN cached[s].age + 1 ELSE cached[s].age) \in Nat
        BY <2>2, <4>1
      <4>. QED BY <4>1, <4>2
    <3>. QED BY <3>1
  <2>5. cached' = [s \in Scope |-> [cached[s] EXCEPT !.age = IF @ < Ttl THEN @ + 1 ELSE @]]
    BY <1>19 DEF PassTick
  <2>6. cached' \in [Scope -> Entry]
    BY <2>4, <2>5
  <2>. QED BY <1>0, <2>1, <2>3, <2>6
<1>. QED BY <1>6, <1>7, <1>8, <1>9, <1>10, <1>11, <1>14, <1>15, <1>16, <1>17, <1>18, <1>19
         DEF BaselinesNext

\* An entry is dated by the replacement of its row: the cache is cleared after an insert,
\* stored to from a row that was read in the same moment, and ages with the table.
LEMMA CacheDatedKept ==
  ASSUME BaselineInv, [BaselinesNext]_baselineVars
  PROVE  CacheDated'
<1>. DEFINE Dated(s) == cached[s].age < Ttl => cached[s].row = table[s] \/ replaced[s] <= cached[s].age
<1>0. /\ table \in [Scope -> BaselineRow] /\ cached \in [Scope -> [row : BaselineRow, age : Nat]]
      /\ replaced \in [Scope -> Nat] /\ lookup.scope \in Scope
      /\ \A s \in Scope : cached[s].age \in Nat /\ replaced[s] \in Nat
  BY DEF BaselineInv, BaselineTypes
<1>1. NoEntry.age = Ttl /\ Ttl \in Nat
  BY RowsTyped
<1>2. \A s \in Scope : Dated(s)
  BY DEF BaselineInv, CacheDated
<1>. SUFFICES ASSUME NEW s \in Scope PROVE Dated(s)'
  BY DEF CacheDated
<1>3. CASE cached' = cached /\ table' = table /\ replaced' = replaced
  BY <1>2, <1>3
<1>4. ASSUME NEW t \in Scope, BeginLookup(t) PROVE Dated(s)'
  <2>1. table' = table /\ replaced' = replaced
    BY <1>4 DEF BeginLookup
  <2>2. cached'[s] = cached[s] \/ cached'[s] = NoEntry
    BY <1>0, <1>4 DEF BeginLookup
  <2>. QED BY <1>1, <1>2, <2>1, <2>2
<1>5. CASE EndLookup
  <2>1. table' = table /\ replaced' = replaced /\ lookup.at = "read"
    BY <1>5 DEF EndLookup
  <2>2. cached'[s] = IF s = lookup.scope THEN Stored(lookup.row) ELSE cached[s]
    BY <1>0, <1>5 DEF EndLookup
  <2>3. s = lookup.scope => lookup.row = table[s] \/ replaced[s] = 0
    BY <2>1 DEF BaselineInv, LookupDated
  <2>. QED BY <1>2, <2>1, <2>2, <2>3 DEF Stored
<1>6. CASE FilterDrifted
  <2>1. table' = table /\ replaced' = replaced
    BY <1>6 DEF FilterDrifted
  <2>2. cached'[s] = cached[s] \/ cached'[s] = Stored(table[s])
    BY <1>0, <1>6 DEF FilterDrifted, CacheSeen
  <2>. QED BY <1>2, <2>1, <2>2 DEF Stored
<1>7. CASE InsertBaselines
  <2>1. cached'[s] = NoEntry
    BY <1>7 DEF InsertBaselines
  <2>. QED BY <1>1, <2>1
<1>8. CASE InsertRaises
  <2>1. cached' = cached
    BY <1>8 DEF InsertRaises
  <2>2. CASE table' = table /\ replaced' = replaced
    BY <1>3, <2>1, <2>2
  <2>3. CASE Replace(Head(job.todo), job.new)
    <3>1. (table'[s] = table[s] /\ replaced'[s] = replaced[s]) \/ replaced'[s] = 0
      BY <1>0, <2>3 DEF Replace
    <3>. QED BY <1>0, <1>2, <2>1, <3>1
  <2>. QED BY <1>8, <2>2, <2>3 DEF InsertRaises
<1>9. CASE RestartProcess \/ RestartTask
  <2>1. table' = table /\ replaced' = replaced
    BY <1>9 DEF RestartProcess, RestartTask
  <2>2. cached'[s] \in {cached[s], NoEntry, Stored(table[s])}
    BY <1>0, <1>9 DEF RestartProcess, RestartTask, CacheSeen
  <2>. QED BY <1>1, <1>2, <2>1, <2>2 DEF Stored
<1>10. CASE PassTick
  <2>1. table' = table
    BY <1>10 DEF PassTick
  <2>2. RecomputeTicks \in Nat
    BY BaselinesAssumption
  <2>3. replaced'[s] = replaced[s] \/ replaced'[s] = replaced[s] + 1
    BY <1>10 DEF PassTick
  <2>4. cached'[s] = [cached[s] EXCEPT !.age = IF @ < Ttl THEN @ + 1 ELSE @]
    BY <1>10 DEF PassTick
  <2>5. /\ cached'[s].row = cached[s].row
        /\ cached'[s].age = IF cached[s].age < Ttl THEN cached[s].age + 1 ELSE cached[s].age
    BY <1>0, <2>4
  <2>. QED BY <1>0, <1>1, <1>2, <2>1, <2>3, <2>5
<1>11. CASE UNCHANGED baselineVars
  BY <1>3, <1>11 DEF baselineVars
<1>12. CASE StartRecompute \/ QueryPercentiles \/ NextScope
  BY <1>3, <1>12 DEF StartRecompute, QueryPercentiles, NextScope
<1>. QED BY <1>4, <1>5, <1>6, <1>7, <1>8, <1>9, <1>10, <1>11, <1>12 DEF BaselinesNext

\* A scoring thread between its read and its store holds the table's row, or one that
\* was replaced a moment ago: no tick passes while it holds it.
LEMMA LookupDatedKept ==
  ASSUME BaselineInv, [BaselinesNext]_baselineVars
  PROVE  LookupDated'
<1>0. /\ table \in [Scope -> BaselineRow] /\ replaced \in [Scope -> Nat] /\ lookup.scope \in Scope
      /\ lookup.at = "read" => lookup.row = table[lookup.scope] \/ replaced[lookup.scope] = 0
  BY DEF BaselineInv, BaselineTypes, LookupDated
<1>1. CASE UNCHANGED baselineVars
  BY <1>0, <1>1 DEF baselineVars, LookupDated
<1>2. ASSUME NEW s \in Scope, BeginLookup(s) PROVE LookupDated'
  <2>1. table' = table /\ replaced' = replaced
    BY <1>2 DEF BeginLookup
  <2>2. lookup' = lookup \/ lookup' = [at |-> "read", scope |-> s, row |-> table[s]]
    BY <1>2 DEF BeginLookup
  <2>. QED BY <1>0, <2>1, <2>2 DEF LookupDated
<1>3. CASE EndLookup \/ RestartProcess
  <2>1. lookup'.at = "idle"
    BY <1>3 DEF EndLookup, RestartProcess, NoLookup
  <2>. QED BY <2>1 DEF LookupDated
<1>4. CASE StartRecompute \/ QueryPercentiles \/ FilterDrifted \/ NextScope \/ RestartTask
  BY <1>0, <1>4 DEF StartRecompute, QueryPercentiles, FilterDrifted, NextScope, RestartTask, LookupDated
<1>5. CASE InsertBaselines \/ InsertRaises
  <2>1. lookup' = lookup
    BY <1>5 DEF InsertBaselines, InsertRaises
  <2>2. (table' = table /\ replaced' = replaced) \/ Replace(Head(job.todo), job.new)
    BY <1>5 DEF InsertBaselines, InsertRaises
  <2>3. \/ table'[lookup.scope] = table[lookup.scope] /\ replaced'[lookup.scope] = replaced[lookup.scope]
        \/ replaced'[lookup.scope] = 0
    BY <1>0, <2>2 DEF Replace
  <2>. QED BY <1>0, <2>1, <2>3 DEF LookupDated
<1>6. CASE PassTick
  BY <1>6 DEF PassTick, LookupDated
<1>. QED BY <1>1, <1>2, <1>3, <1>4, <1>5, <1>6 DEF BaselinesNext

\* The row a run is about to insert passed the drift guard: against the row it replaces,
\* or against a cached one that was replaced within the time to live.
LEMMA InsertGuardedKept ==
  ASSUME BaselineInv, [BaselinesNext]_baselineVars
  PROVE  InsertGuarded'
<1>0. /\ job.at = "insert" => ~DriftHeld(table[Head(job.todo)], job.new) \/ replaced[Head(job.todo)] < Ttl
      /\ \A s \in Scope : cached[s].age \in Nat /\ replaced[s] \in Nat
      /\ Ttl \in Nat
  BY RowsTyped DEF BaselineInv, BaselineTypes, InsertGuarded
<1>1. CASE UNCHANGED <<table, inverted, replaced, job>>
  BY <1>0, <1>1 DEF InsertGuarded, DriftHeld, P99Hold, P50Hold
<1>2. CASE job'.at # "insert"
  BY <1>2 DEF InsertGuarded
<1>3. (\E s \in Scope : BeginLookup(s)) \/ EndLookup \/ UNCHANGED baselineVars => InsertGuarded'
  BY <1>1 DEF BeginLookup, EndLookup, baselineVars
<1>4. StartRecompute \/ QueryPercentiles \/ InsertBaselines \/ InsertRaises \/ NextScope
        \/ RestartProcess => InsertGuarded'
  <2>1. job \in [at : {"idle", "query", "filter", "insert", "next"}, todo : Seq(Scope),
                 new : BaselineRow, stop : BOOLEAN, full : BOOLEAN]
    BY DEF BaselineInv, BaselineTypes
  <2>2. StartRecompute \/ RestartProcess => job'.at # "insert"
    <3>1. ASSUME NEW list PROVE [NoRun EXCEPT !.at = "query", !.todo = list].at # "insert"
      BY DEF NoRun
    <3>2. ASSUME NEW list
          PROVE  [NoRun EXCEPT !.at = "query", !.todo = list, !.full = TRUE].at # "insert"
      BY DEF NoRun
    <3>3. StartRecompute => job'.at # "insert"
      BY <3>2 DEF StartRecompute
    <3>4. NoRun.at # "insert"
      BY DEF NoRun
    <3>5. RestartProcess => job'.at # "insert"
      BY <3>1, <3>4 DEF RestartProcess, Bootstrap
    <3>. QED BY <3>3, <3>5
  <2>3. QueryPercentiles => job'.at # "insert"
    BY <2>1 DEF QueryPercentiles
  <2>4. InsertBaselines \/ InsertRaises => job'.at # "insert"
    BY <2>1 DEF InsertBaselines, InsertRaises, NoRun
  <2>5. NextScope => job'.at # "insert"
    <3>1. NextScope => job' = NoRun \/ \E list, row :
             job' = [job EXCEPT !.at = "query", !.todo = list, !.new = row]
      BY DEF NextScope
    <3>2. ASSUME NEW list, NEW row
          PROVE  [job EXCEPT !.at = "query", !.todo = list, !.new = row].at # "insert"
      BY <2>1
    <3>3. NoRun.at # "insert"
      BY DEF NoRun
    <3>. QED BY <3>1, <3>2, <3>3
  <2>. QED BY <1>2, <2>2, <2>3, <2>4, <2>5
<1>5. CASE FilterDrifted
  <2>. DEFINE s == Head(job.todo)
              prior == Seen(s)
  <2>1. s \in Scope
    BY <1>5, ScopeAtHand DEF BaselineInv, FilterDrifted
  <2>2. UNCHANGED <<table, inverted, replaced>>
    BY <1>5 DEF FilterDrifted
  <2>3. job \in [at : {"idle", "query", "filter", "insert", "next"}, todo : Seq(Scope),
                 new : BaselineRow, stop : BOOLEAN, full : BOOLEAN]
    BY DEF BaselineInv, BaselineTypes
  <2>4. job' = [job EXCEPT !.at = IF DriftHeld(prior, job.new) THEN "next" ELSE "insert"]
    BY <1>5 DEF FilterDrifted
  <2>5. /\ job'.todo = job.todo /\ job'.new = job.new
        /\ job'.at = "insert" => ~DriftHeld(prior, job.new)
    BY <2>3, <2>4
  <2>6. cached[s].age < Ttl => cached[s].row = table[s] \/ replaced[s] <= cached[s].age
    BY <2>1 DEF BaselineInv, CacheDated
  <2>7. prior = table[s] \/ replaced[s] < Ttl
    BY <1>0, <2>1, <2>6 DEF Seen, Fresh
  <2>8. job'.at = "insert" => ~DriftHeld(table[s], job.new) \/ replaced[s] < Ttl
    BY <2>5, <2>7
  <2>. QED BY <2>2, <2>5, <2>8 DEF InsertGuarded, DriftHeld, P99Hold, P50Hold
<1>6. CASE RestartTask
  <2>1. UNCHANGED <<table, inverted, replaced>>
    BY <1>6 DEF RestartTask
  <2>2. job \in [at : {"idle", "query", "filter", "insert", "next"}, todo : Seq(Scope),
                 new : BaselineRow, stop : BOOLEAN, full : BOOLEAN]
    BY DEF BaselineInv, BaselineTypes
  <2>3. \A row : Bootstrap(row).at # "insert"
    <3>1. NoRun.at # "insert"
      BY DEF NoRun
    <3>2. ASSUME NEW list PROVE [NoRun EXCEPT !.at = "query", !.todo = list].at # "insert"
      BY DEF NoRun
    <3>. QED BY <3>1, <3>2 DEF Bootstrap
  <2>4. \/ job'.at # "insert"
        \/ job'.at = job.at /\ job'.todo = job.todo /\ job'.new = job.new
    BY <1>6, <2>2, <2>3 DEF RestartTask
  <2>. QED BY <1>0, <1>2, <2>1, <2>4 DEF InsertGuarded, DriftHeld, P99Hold, P50Hold
<1>7. CASE PassTick
  BY <1>2, <1>7 DEF PassTick
<1>. QED BY <1>3, <1>4, <1>5, <1>6, <1>7 DEF BaselinesNext

\* Every operation of the baselines keeps their invariant.
LEMMA BaselineInductive == BaselineInv /\ [BaselinesNext]_baselineVars => BaselineInv'
<1>. SUFFICES ASSUME BaselineInv, [BaselinesNext]_baselineVars PROVE BaselineInv'
  OBVIOUS
<1>1. BaselineTypes'
  BY BaselineTypesKept DEF BaselineInv
<1>. QED BY <1>1, CacheDatedKept, LookupDatedKept, InsertGuardedKept DEF BaselineInv

\* No baseline, no cached row and no run at the start.
LEMMA BaselineInitially == BaselinesInit(TRUE) => BaselineInv
<1>. SUFFICES ASSUME BaselinesInit(TRUE) PROVE BaselineInv
  OBVIOUS
<1>1. Missing \in BaselineRow /\ NoEntry \in [row : BaselineRow, age : Nat] /\ NoEntry.age = Ttl
      /\ Ttl \in Nat
  BY RowsTyped
<1>2. "global" \in Scope /\ RecomputeTicks + 1 \in Nat
  BY BaselinesAssumption DEF Scope
<1>3. table \in [Scope -> BaselineRow] /\ cached \in [Scope -> [row : BaselineRow, age : Nat]]
  BY <1>1 DEF BaselinesInit
<1>4. replaced \in [Scope -> Nat] /\ inverted \in BOOLEAN
  BY <1>2 DEF BaselinesInit
<1>5. job.at = "idle" /\ job \in [at : {"idle", "query", "filter", "insert", "next"},
        todo : Seq(Scope), new : BaselineRow, stop : BOOLEAN, full : BOOLEAN]
  BY <1>1 DEF BaselinesInit, NoRun
<1>6. lookup.at = "idle" /\ lookup \in [at : {"idle", "read"}, scope : Scope, row : BaselineRow]
  BY <1>1, <1>2 DEF BaselinesInit, NoLookup
<1>7. BaselineTypes
  BY <1>3, <1>4, <1>5, <1>6 DEF BaselineTypes
<1>8. CacheDated
  BY <1>1 DEF BaselinesInit, CacheDated
<1>. QED BY <1>5, <1>6, <1>7, <1>8 DEF BaselineInv, LookupDated, InsertGuarded

\* A fresh entry that is not the table's row is younger than the time to live, and its
\* replacement no older.
LEMMA BaselineInvSound == BaselineInv => LookupFresh
<1>. SUFFICES ASSUME BaselineInv, NEW s \in Scope, Fresh(cached[s]),
                     cached[s].row # table[s]
              PROVE  replaced[s] < Ttl
  BY DEF LookupFresh
<1>1. cached[s].age \in Nat /\ replaced[s] \in Nat /\ Ttl \in Nat
  BY RowsTyped DEF BaselineInv, BaselineTypes
<1>2. cached[s].age < Ttl /\ replaced[s] <= cached[s].age
  BY DEF Fresh, BaselineInv, CacheDated
<1>. QED BY <1>1, <1>2

\* For any number of scripts, any readings and any time to live: no lookup is answered
\* with a row that was replaced a time to live ago or longer, also when a thread stored a
\* row it read before the cache was cleared (db/clickhouse.py, get_baseline).
THEOREM LookupsAreFresh == BaselinesSpec => []LookupFresh
<1>. QED BY BaselineInitially, BaselineInductive, BaselineInvSound, PTL DEF BaselinesSpec

\* A percentile that rises or falls by more than the threshold is one the drift check
\* reports, in integers where the code computes in floats.
LEMMA DriftSeen ==
  ASSUME NEW old \in Nat, NEW new \in Nat
  PROVE  /\ Rises(old, new) => CheckDrift(old, new) /\ new > old
         /\ Falls(old, new) => CheckDrift(old, new) /\ old > new
<1>. DEFINE d == DriftPct * old
<1>1. d \in Nat /\ DriftPct \in Nat
  BY BaselinesAssumption
<1>2. (100 + DriftPct) * old = 100 * old + d /\ (100 - DriftPct) * old = 100 * old - d
  BY <1>1
<1>. HIDE DEF d
<1>3. ASSUME Rises(old, new) PROVE CheckDrift(old, new) /\ new > old
  <2>1. 100 * new > 100 * old + d
    BY <1>2, <1>3 DEF Rises
  <2>2. new > old /\ 100 * (new - old) > d
    BY <1>1, <2>1
  <2>. QED BY <2>2 DEF CheckDrift, d
<1>4. ASSUME Falls(old, new) PROVE CheckDrift(old, new) /\ old > new
  <2>1. 100 * new < 100 * old - d
    BY <1>2, <1>4 DEF Falls
  <2>2. old > new /\ old # 0 /\ ~(new > old) /\ 100 * (old - new) > d
    BY <1>1, <2>1
  <2>. QED BY <2>2 DEF CheckDrift, d
<1>. QED BY <1>3, <1>4

\* The table changes where a run inserts, and nowhere else.
LEMMA TableMoves ==
  ASSUME BaselineTypes, [BaselinesNext]_baselineVars, NEW s \in Scope, table'[s] # table[s]
  PROVE  job.at = "insert" /\ s = Head(job.todo) /\ table'[s] = job.new
<1>1. table \in [Scope -> BaselineRow]
  BY DEF BaselineTypes
<1>2. CASE InsertBaselines \/ InsertRaises
  <2>1. job.at = "insert" /\ Replace(Head(job.todo), job.new)
    BY <1>2 DEF InsertBaselines, InsertRaises
  <2>. QED BY <1>1, <2>1 DEF Replace
<1>3. CASE ~(InsertBaselines \/ InsertRaises)
  <2>1. table' = table
    BY <1>3 DEF BaselinesNext, baselineVars, BeginLookup, EndLookup, StartRecompute,
       QueryPercentiles, FilterDrifted, NextScope, RestartTask, RestartProcess, PassTick
  <2>. QED BY <2>1, SMTT(60)
<1>. QED BY <1>2, <1>3

\* The guard a row passed bounds the step the table takes.
LEMMA DriftStep == BaselineInv /\ [BaselinesNext]_baselineVars => DriftGuarded
<1>. SUFFICES ASSUME BaselineInv, [BaselinesNext]_baselineVars, NEW s \in Scope,
                     table[s].set, table'[s] # table[s], table[s].p99 > 0, replaced[s] >= Ttl
              PROVE  WithinDrift(table[s], table'[s])
  BY DEF DriftGuarded
<1>. DEFINE old == table[s]
            new == job.new
<1>1. job.at = "insert" /\ s = Head(job.todo) /\ table'[s] = new
  BY TableMoves DEF BaselineInv
<1>2. replaced[s] \in Nat /\ Ttl \in Nat /\ old \in BaselineRow /\ new \in BaselineRow
  BY RowsTyped DEF BaselineInv, BaselineTypes
<1>3. ~DriftHeld(old, new)
  BY <1>1, <1>2 DEF BaselineInv, InsertGuarded
<1>. HIDE DEF old, new
<1>4. old.set /\ old.p99 > 0 /\ old.p99 \in Nat /\ old.p50 \in Nat /\ new.p99 \in Nat /\ new.p50 \in Nat
  BY <1>2 DEF BaselineRow, old
<1>5. ~P99Hold(old, new) /\ ~P50Hold(old, new)
  BY <1>3, <1>4 DEF DriftHeld
<1>6. ~Rises(old.p99, new.p99) /\ (inverted => ~Falls(old.p99, new.p99))
  BY <1>4, <1>5, DriftSeen DEF P99Hold
<1>7. ~Rises(old.p50, new.p50) /\ (inverted => ~Falls(old.p50, new.p50))
  BY <1>4, <1>5, DriftSeen DEF P50Hold
<1>. QED BY <1>1, <1>6, <1>7 DEF WithinDrift, old

\* For any threshold, any readings and any time to live: a row that stood for the time to
\* live is replaced only by one within the threshold, whatever the cache held when the
\* guard read it, however often an insert failed or the process restarted
\* (analysis/baselines.py, _filter_drifted).
THEOREM DriftIsBounded == BaselinesSpec => DriftBounded
<1>. QED BY BaselineInitially, BaselineInductive, DriftStep, PTL DEF BaselinesSpec, DriftBounded

-----------------------------------------------------------------------------
(* The reports keep their invariant                                        *)

\* The bounds of the report schedule, as the proofs use them.
LEMMA ReportBounds ==
  /\ Interval \in Nat /\ Interval > 0 /\ WindowDays \in Nat /\ InsertDelay \in Nat
  /\ Never = -1
BY ReportsAssumption DEF Never

\* What a report tick does to the report it builds.
LEMMA ReportTick ==
  ASSUME ReportTypes
  PROVE  /\ CountScores => report' = [at |-> "anomalies", from |-> report.from, to |-> report.to,
              body |-> {<<tx, analyzed[tx]>> : tx \in {x \in Alert : InScores(x)}}]
         /\ CountAnomalies => report' = [at |-> "csv", from |-> report.from, to |-> report.to,
              body |-> report.body \cup UNION {{tx} \X StampsInWindow(tx) : tx \in Anomalous}]
         /\ AnomaliesUnreadable => report' =
              [at |-> "csv", from |-> report.from, to |-> report.to, body |-> report.body]
         /\ ReadCsv => report' =
              [at |-> "dispatch", from |-> report.from, to |-> report.to, body |-> report.body]
         /\ DispatchReport => report' =
              [at |-> "mark", from |-> report.from, to |-> report.to, body |-> report.body]
<1>. DEFINE With(a, b) == [at |-> a, from |-> report.from, to |-> report.to, body |-> b]
<1>1. report \in [at : {"idle", "count", "anomalies", "csv", "dispatch", "mark"},
                  from : Int, to : Nat, body : SUBSET ((Alert \cup Anomalous) \X Nat)]
  BY DEF ReportTypes
<1>2. ASSUME NEW a, NEW b PROVE [report EXCEPT !.at = a, !.body = b] = With(a, b)
  <2>1. DOMAIN report = {"at", "from", "to", "body"}
    BY <1>1
  <2>2. DOMAIN [report EXCEPT !.at = a, !.body = b] = {"at", "from", "to", "body"}
    BY <2>1
  <2>. DEFINE w == With(a, b)
              z == [report EXCEPT !.at = a, !.body = b]
  <2>3. z.at = w.at /\ z.from = w.from /\ z.to = w.to /\ z.body = w.body
    BY <1>1
  <2>4. z = [x \in {"at", "from", "to", "body"} |-> z[x]]
    BY <2>2
  <2>5. w = [x \in {"at", "from", "to", "body"} |-> w[x]]
    OBVIOUS
  <2>. HIDE DEF z, w
  <2>6. z = w
    BY <2>3, <2>4, <2>5
  <2>. QED BY <2>6 DEF z, w
<1>3. \A a : [report EXCEPT !.at = a] = With(a, report.body)
  BY <1>1
<1>. HIDE DEF With
<1>4. CountScores => report' =
        With("anomalies", {<<tx, analyzed[tx]>> : tx \in {x \in Alert : InScores(x)}})
  BY <1>2 DEF CountScores
<1>5. CountAnomalies => report' =
        With("csv", report.body \cup UNION {{tx} \X StampsInWindow(tx) : tx \in Anomalous})
  <2>. DEFINE found == UNION {{tx} \X StampsInWindow(tx) : tx \in Anomalous}
  <2>1. CountAnomalies => report' = [report EXCEPT !.at = "csv", !.body = report.body \cup found]
    BY DEF CountAnomalies
  <2>. HIDE DEF found
  <2>2. CountAnomalies => report' = With("csv", report.body \cup found)
    BY <1>2, <2>1
  <2>. QED BY <2>2 DEF found
<1>6. AnomaliesUnreadable => report' = With("csv", report.body)
  BY <1>3 DEF AnomaliesUnreadable
<1>7. ReadCsv => report' = With("dispatch", report.body)
  BY <1>3 DEF ReadCsv
<1>8. DispatchReport => report' = With("mark", report.body)
  BY <1>3 DEF DispatchReport
<1>. QED BY <1>4, <1>5, <1>6, <1>7, <1>8 DEF With

\* Every operation of the reports keeps the type of the report that is being built.
LEMMA ReportTyped ==
  ASSUME ReportTypes, [ReportsNext]_reportVars
  PROVE  report' \in [at : {"idle", "count", "anomalies", "csv", "dispatch", "mark"},
                      from : Int, to : Nat, body : SUBSET ((Alert \cup Anomalous) \X Nat)]
<1>. DEFINE Pairs == (Alert \cup Anomalous) \X Nat
            Tick == [at : {"idle", "count", "anomalies", "csv", "dispatch", "mark"},
                     from : Int, to : Nat, body : SUBSET Pairs]
<1>0. /\ today \in Nat /\ report \in Tick /\ analyzed \in [Alert -> Nat \cup {Never}]
      /\ stamps \in [Anomalous -> SUBSET Nat]
  BY DEF ReportTypes
<1>1. report.from \in Int /\ report.to \in Nat /\ report.body \in SUBSET Pairs
  BY <1>0
<1>2. CASE report' = report
  BY <1>0, <1>2
<1>3. CASE BeginReport
  <2>1. today - WindowDays \in Int
    BY <1>0, ReportBounds
  <2>. QED BY <1>0, <1>3, <2>1 DEF BeginReport
<1>4. CASE CountScores
  <2>1. {<<tx, analyzed[tx]>> : tx \in {x \in Alert : InScores(x)}} \in SUBSET Pairs
    BY <1>0 DEF InScores
  <2>. QED BY <1>1, <1>4, <2>1, ReportTick
<1>5. CASE CountAnomalies
  <2>1. UNION {{tx} \X StampsInWindow(tx) : tx \in Anomalous} \in SUBSET Pairs
    <3>1. ASSUME NEW tx \in Anomalous PROVE {tx} \X StampsInWindow(tx) \subseteq Pairs
      BY <1>0 DEF StampsInWindow
    <3>. HIDE DEF Pairs
    <3>. QED BY <3>1
  <2>2. report.body \cup UNION {{tx} \X StampsInWindow(tx) : tx \in Anomalous} \in SUBSET Pairs
    BY <1>1, <2>1
  <2>. QED BY <1>1, <1>5, <2>2, ReportTick
<1>6. CASE AnomaliesUnreadable \/ ReadCsv \/ DispatchReport
  BY <1>1, <1>6, ReportTick
<1>7. CASE MarkReportSent \/ ReportAborted
  BY <1>7 DEF MarkReportSent, ReportAborted, NoReport
<1>8. (\E tx \in Alert : StampScore(tx) \/ InsertScore(tx)) \/ (\E tx \in Anomalous : PublishFinding(tx))
        \/ SetRoutes \/ PassDay \/ UNCHANGED reportVars => report' = report
  BY DEF StampScore, InsertScore, PublishFinding, SetRoutes, PassDay, reportVars
<1>. QED BY <1>2, <1>3, <1>4, <1>5, <1>6, <1>7, <1>8 DEF ReportsNext

\* Every operation of the reports keeps the types.
LEMMA ReportTypesKept ==
  ASSUME ReportTypes, [ReportsNext]_reportVars
  PROVE  ReportTypes'
<1>. DEFINE Stamp == Nat \cup {Never}
<1>0. /\ today \in Nat /\ lastSent \in Stamp /\ lastTo \in Stamp
      /\ analyzed \in [Alert -> Stamp] /\ stamped \in [Alert -> Stamp]
      /\ stamps \in [Anomalous -> SUBSET Nat] /\ report.to \in Nat
      /\ markLost \in BOOLEAN /\ reportFaults \in Nat
  BY DEF ReportTypes
<1>1. today' = today \/ today' = today + 1
  BY DEF ReportsNext, reportVars, BeginReport, CountScores, CountAnomalies,
     AnomaliesUnreadable, ReadCsv, DispatchReport, MarkReportSent, ReportAborted, StampScore,
     InsertScore, PublishFinding, SetRoutes, PassDay
<1>2. reportFaults' = reportFaults \/ reportFaults' = reportFaults + 1
  BY DEF ReportsNext, reportVars, BeginReport, CountScores, CountAnomalies,
     AnomaliesUnreadable, ReadCsv, DispatchReport, MarkReportSent, ReportAborted, StampScore,
     InsertScore, PublishFinding, SetRoutes, PassDay
<1>3. lastTo' \in {lastTo, report.to} /\ lastSent' \in {lastSent, report.to}
  BY DEF ReportsNext, reportVars, reportGhosts, BeginReport, CountScores, CountAnomalies,
     AnomaliesUnreadable, ReadCsv, DispatchReport, MarkReportSent, ReportAborted, StampScore,
     InsertScore, PublishFinding, SetRoutes, PassDay
<1>4. markLost' \in BOOLEAN
  <2>1. CASE ReportAborted
    <3>1. markLost' = (markLost \/ report.at = "mark")
      BY <2>1 DEF ReportAborted
    <3>. QED BY <3>1, Zenon
  <2>2. CASE ~ReportAborted
    <3>1. markLost' = markLost \/ markLost' = FALSE
      BY <2>2 DEF ReportsNext, reportVars, reportGhosts, BeginReport, CountScores,
         CountAnomalies, AnomaliesUnreadable, ReadCsv, DispatchReport, MarkReportSent, StampScore,
         InsertScore, PublishFinding, SetRoutes, PassDay
    <3>. QED BY <1>0, <3>1
  <2>. QED BY <2>1, <2>2
<1>5. /\ analyzed' \in [Alert -> Stamp] /\ stamped' \in [Alert -> Stamp]
      /\ stamps' \in [Anomalous -> SUBSET Nat]
  <2>1. CASE \E tx \in Alert : StampScore(tx) \/ InsertScore(tx)
    <3>1. PICK tx \in Alert : StampScore(tx) \/ InsertScore(tx)
      BY <2>1
    <3>2. stamps' = stamps
      BY <3>1 DEF StampScore, InsertScore
    <3>. QED BY <1>0, <3>1, <3>2 DEF StampScore, InsertScore
  <2>2. CASE \E tx \in Anomalous : PublishFinding(tx)
    <3>1. PICK tx \in Anomalous : PublishFinding(tx)
      BY <2>2
    <3>. DEFINE new == {s \in stamps[tx] : \A r \in stamps[tx] : s <= r} \cup {today}
    <3>2. new \in SUBSET Nat
      BY <1>0
    <3>3. stamps' = [stamps EXCEPT ![tx] = new] /\ analyzed' = analyzed /\ stamped' = stamped
      BY <3>1 DEF PublishFinding
    <3>. HIDE DEF new
    <3>. QED BY <1>0, <3>2, <3>3
  <2>3. CASE analyzed' = analyzed /\ stamped' = stamped /\ stamps' = stamps
    BY <1>0, <2>3
  <2>. QED BY <2>1, <2>2, <2>3 DEF ReportsNext, reportVars, reportData, BeginReport, CountScores,
         CountAnomalies, AnomaliesUnreadable, ReadCsv, DispatchReport, MarkReportSent,
         ReportAborted, SetRoutes, PassDay
<1>6. today' \in Nat /\ reportFaults' \in Nat
  BY <1>0, <1>1, <1>2
<1>7. lastTo' \in Stamp /\ lastSent' \in Stamp
  BY <1>0, <1>3
<1>. QED BY <1>4, <1>5, <1>6, <1>7, ReportTyped DEF ReportTypes

\* The boundary only moves to the end of the report that was just sent, and nothing but
\* the clock moves a stamped row towards its bound.
LEMMA OnTimeKept ==
  ASSUME ReportTypes, OnTime, BoundaryKnown, [ReportsNext]_reportVars
  PROVE  OnTime'
<1>0. /\ today \in Nat /\ lastSent \in Nat \cup {Never} /\ report.to \in Nat
      /\ lastTo \in Nat \cup {Never} /\ stamped \in [Alert -> Nat \cup {Never}]
  BY DEF ReportTypes
<1>1. /\ lastSent <= lastTo /\ lastTo <= today
      /\ \A tx \in Alert : stamped[tx] # Never => today <= stamped[tx] + InsertDelay
      /\ Building => lastSent <= report.to /\ report.to <= today
  BY DEF OnTime
<1>2. CASE UNCHANGED <<today, lastSent, lastTo, stamped, report>>
  BY <1>1, <1>2 DEF OnTime, Building
<1>3. CASE BeginReport
  <2>1. UNCHANGED <<today, lastSent, lastTo, stamped>> /\ report'.to = today
    BY <1>3 DEF BeginReport, reportData, reportGhosts
  <2>. QED BY <1>0, <1>1, <2>1, ReportBounds DEF OnTime
<1>4. CASE CountScores \/ CountAnomalies \/ AnomaliesUnreadable \/ ReadCsv
  <2>1. UNCHANGED <<today, lastSent, lastTo, stamped>>
    BY <1>4 DEF CountScores, CountAnomalies, AnomaliesUnreadable, ReadCsv, reportData, reportGhosts
  <2>2. Building
    BY <1>4 DEF CountScores, CountAnomalies, AnomaliesUnreadable, ReadCsv, Building
  <2>3. report'.to = report.to
    BY <1>4, ReportTick
  <2>. QED BY <1>1, <2>1, <2>2, <2>3 DEF OnTime
<1>5. CASE DispatchReport
  <2>1. UNCHANGED <<today, lastSent, stamped>> /\ lastTo' = report.to /\ Building
    BY <1>5 DEF DispatchReport, reportData, Building
  <2>2. report'.to = report.to
    BY <1>5, ReportTick
  <2>. QED BY <1>1, <2>1, <2>2 DEF OnTime
<1>6. CASE MarkReportSent \/ ReportAborted
  <2>1. UNCHANGED <<today, stamped, lastTo>> /\ report'.at = "idle"
    BY <1>6 DEF MarkReportSent, ReportAborted, reportData, reportGhosts, NoReport
  <2>2. lastSent' = lastSent \/ lastSent' = lastTo
    BY <1>6 DEF MarkReportSent, ReportAborted, BoundaryKnown
  <2>3. lastSent' <= lastTo
    BY <1>0, <1>1, <2>2, ReportBounds
  <2>. QED BY <1>1, <2>1, <2>3 DEF OnTime, Building
<1>7. ASSUME NEW tx \in Alert, StampScore(tx) \/ InsertScore(tx) PROVE OnTime'
  <2>1. UNCHANGED <<today, lastSent, lastTo, report>>
    BY <1>7 DEF StampScore, InsertScore, reportGhosts
  <2>2. \A x \in Alert : stamped'[x] \in {stamped[x], today, Never}
    BY <1>0, <1>7 DEF StampScore, InsertScore
  <2>3. \A x \in Alert : stamped'[x] # Never => today <= stamped'[x] + InsertDelay
    BY <1>0, <1>1, <2>2, ReportBounds
  <2>. QED BY <1>1, <2>1, <2>3 DEF OnTime, Building
<1>8. (\E tx \in Anomalous : PublishFinding(tx)) \/ SetRoutes \/ UNCHANGED reportVars =>
        UNCHANGED <<today, lastSent, lastTo, stamped, report>>
  BY DEF PublishFinding, SetRoutes, reportData, reportGhosts, reportVars
<1>9. CASE PassDay
  <2>1. UNCHANGED <<lastSent, lastTo, stamped, report>> /\ today' = today + 1
    BY <1>9 DEF PassDay, reportData, reportGhosts
  <2>2. \A tx \in Alert : stamped[tx] # Never => today' <= stamped[tx] + InsertDelay
    BY <1>0, <1>9, <2>1, ReportBounds DEF PassDay
  <2>3. lastTo <= today' /\ (Building => report.to <= today')
    BY <1>0, <1>1, <2>1, ReportBounds
  <2>4. Building' <=> Building
    BY <2>1 DEF Building
  <2>. HIDE DEF Building
  <2>. QED BY <1>1, <2>1, <2>2, <2>3, <2>4 DEF OnTime
<1>. QED BY <1>2, <1>3, <1>4, <1>5, <1>6, <1>7, <1>8, <1>9 DEF ReportsNext

\* The boundary in the table is that of the last report sent, unless its write failed.
LEMMA BoundaryKept ==
  ASSUME ReportTypes, BoundaryKnown, [ReportsNext]_reportVars
  PROVE  BoundaryKnown'
<1>1. /\ report.at = "mark" => report.to = lastTo
      /\ lastTo # Never => lastSent = lastTo \/ markLost \/ report.at = "mark"
  BY DEF BoundaryKnown
<1>2. CASE BeginReport
  <2>1. UNCHANGED <<lastTo, lastSent, markLost>> /\ report.at = "idle" /\ report'.at = "count"
    BY <1>2 DEF BeginReport, reportGhosts
  <2>. QED BY <1>1, <2>1 DEF BoundaryKnown
<1>3. CASE CountScores \/ CountAnomalies \/ AnomaliesUnreadable \/ ReadCsv
  <2>1. UNCHANGED <<lastTo, lastSent, markLost>> /\ report.at \in {"count", "anomalies", "csv"}
    BY <1>3 DEF CountScores, CountAnomalies, AnomaliesUnreadable, ReadCsv, reportGhosts
  <2>2. report'.at # "mark"
    BY <1>3, ReportTick
  <2>. QED BY <1>1, <2>1, <2>2 DEF BoundaryKnown
<1>4. CASE DispatchReport
  <2>1. lastTo' = report.to
    BY <1>4 DEF DispatchReport
  <2>2. report'.at = "mark" /\ report'.to = report.to
    BY <1>4, ReportTick
  <2>. QED BY <2>1, <2>2 DEF BoundaryKnown
<1>5. CASE MarkReportSent
  <2>1. lastTo' = lastTo /\ lastSent' = report.to /\ report.at = "mark" /\ report'.at = "idle"
    BY <1>5 DEF MarkReportSent, reportGhosts, NoReport
  <2>. QED BY <1>1, <2>1 DEF BoundaryKnown
<1>6. CASE ReportAborted
  <2>1. /\ lastTo' = lastTo /\ lastSent' = lastSent /\ report'.at = "idle"
        /\ markLost' = (markLost \/ report.at = "mark")
    BY <1>6 DEF ReportAborted, NoReport
  <2>. QED BY <1>1, <2>1 DEF BoundaryKnown
<1>7. (\E tx \in Alert : StampScore(tx) \/ InsertScore(tx)) \/ (\E tx \in Anomalous : PublishFinding(tx))
        \/ SetRoutes \/ PassDay \/ UNCHANGED reportVars => UNCHANGED <<lastTo, lastSent, markLost, report>>
  BY DEF StampScore, InsertScore, PublishFinding, SetRoutes, PassDay, reportVars, reportGhosts
<1>8. CASE UNCHANGED <<lastTo, lastSent, markLost, report>>
  BY <1>1, <1>8 DEF BoundaryKnown
<1>. QED BY <1>2, <1>3, <1>4, <1>5, <1>6, <1>7, <1>8 DEF ReportsNext

\* A report is begun when the boundary is an interval old, and its end does not move.
LEMMA PacedKept ==
  ASSUME ReportTypes, BoundaryKnown, ReportsPaced, [ReportsNext]_reportVars
  PROVE  ReportsPaced'
<1>0. today \in Nat /\ lastSent \in Nat \cup {Never} /\ lastTo \in Nat \cup {Never}
  BY DEF ReportTypes
<1>1. (report.at \notin {"idle", "off", "mark"} /\ lastTo # Never) =>
        (report.to >= lastTo + Interval \/ markLost)
  BY DEF ReportsPaced
<1>2. CASE BeginReport
  <2>1. UNCHANGED <<lastTo, lastSent, markLost>> /\ report.at = "idle" /\ report'.to = today
    BY <1>2 DEF BeginReport, reportGhosts
  <2>2. lastTo # Never => lastSent = lastTo \/ markLost
    BY <2>1 DEF BoundaryKnown
  <2>3. lastSent = Never \/ today >= lastSent + Interval
    BY <1>0, <1>2, ReportBounds DEF BeginReport, NotDue
  <2>. QED BY <2>1, <2>2, <2>3 DEF ReportsPaced
<1>3. CASE CountScores \/ CountAnomalies \/ AnomaliesUnreadable \/ ReadCsv
  <2>1. UNCHANGED <<lastTo, markLost>> /\ report.at \in {"count", "anomalies", "csv"}
    BY <1>3 DEF CountScores, CountAnomalies, AnomaliesUnreadable, ReadCsv, reportGhosts
  <2>2. report'.to = report.to
    BY <1>3, ReportTick
  <2>. QED BY <1>1, <2>1, <2>2 DEF ReportsPaced
<1>4. CASE DispatchReport \/ MarkReportSent \/ ReportAborted
  <2>1. report'.at \in {"idle", "mark"}
    BY <1>4, ReportTick DEF MarkReportSent, ReportAborted, NoReport
  <2>. QED BY <2>1 DEF ReportsPaced
<1>5. (\E tx \in Alert : StampScore(tx) \/ InsertScore(tx)) \/ (\E tx \in Anomalous : PublishFinding(tx))
        \/ SetRoutes \/ PassDay \/ UNCHANGED reportVars => UNCHANGED <<lastTo, markLost, report>>
  BY DEF StampScore, InsertScore, PublishFinding, SetRoutes, PassDay, reportVars, reportGhosts
<1>6. CASE UNCHANGED <<lastTo, markLost, report>>
  BY <1>1, <1>6 DEF ReportsPaced
<1>. QED BY <1>2, <1>3, <1>4, <1>5, <1>6 DEF ReportsNext

\* A stage of a report that only goes on keeps what it has read; the two stages that read
\* find what their window holds.
LEMMA BodyStages ==
  ASSUME ReportInv, CountScores \/ CountAnomalies \/ AnomaliesUnreadable \/ ReadCsv
  PROVE  BodyComplete'
<1>0. ReportTypes /\ BodyComplete
  BY DEF ReportInv
<1>1. /\ report.to \in Nat /\ report.from \in Int /\ reportFaults \in Nat
      /\ analyzed \in [Alert -> Nat \cup {Never}] /\ stamps \in [Anomalous -> SUBSET Nat]
  BY <1>0 DEF ReportTypes
<1>2. UNCHANGED <<analyzed, stamps>>
  BY DEF CountScores, CountAnomalies, AnomaliesUnreadable, ReadCsv, reportData
<1>3. CASE CountScores
  <2>1. /\ report'.at = "anomalies" /\ report'.to = report.to /\ report'.from = report.from
        /\ report'.body = {<<tx, analyzed[tx]>> : tx \in {x \in Alert : InScores(x)}}
    BY <1>0, <1>3, ReportTick
  <2>2. ASSUME NEW tx \in Alert, analyzed[tx] # Never, report.from <= analyzed[tx],
               analyzed[tx] + InsertDelay < report.to
        PROVE  <<tx, analyzed[tx]>> \in report'.body
    <3>1. analyzed[tx] \in Nat
      BY <1>1, <2>2
    <3>2. InScores(tx)
      BY <1>1, <2>2, <3>1, ReportBounds DEF InScores
    <3>. QED BY <2>1, <3>2
  <2>. QED BY <1>2, <2>1, <2>2 DEF BodyComplete
<1>4. CASE CountAnomalies
  <2>. DEFINE found == UNION {{tx} \X StampsInWindow(tx) : tx \in Anomalous}
  <2>1. /\ report.at = "anomalies" /\ report'.at = "csv" /\ report'.to = report.to
        /\ report'.from = report.from /\ report'.body = report.body \cup found
    BY <1>0, <1>4, ReportTick DEF CountAnomalies
  <2>2. ASSUME NEW tx \in Anomalous, NEW s \in stamps[tx], report.from <= s, s < report.to
        PROVE  <<tx, s>> \in report'.body
    <3>1. s \in Nat
      BY <1>1
    <3>2. s \in StampsInWindow(tx)
      BY <1>1, <2>2, <3>1 DEF StampsInWindow
    <3>3. <<tx, s>> \in found
      BY <3>2
    <3>. HIDE DEF found
    <3>. QED BY <2>1, <3>3
  <2>. HIDE DEF found
  <2>3. \A tx \in Alert :
          (analyzed[tx] # Never /\ report.from <= analyzed[tx] /\ analyzed[tx] + InsertDelay < report.to) =>
            <<tx, analyzed[tx]>> \in report'.body
    BY <1>0, <2>1 DEF BodyComplete
  <2>. QED BY <1>2, <2>1, <2>2, <2>3 DEF BodyComplete
<1>5. CASE AnomaliesUnreadable \/ ReadCsv
  <2>1. /\ report.at \in {"anomalies", "csv"} /\ report'.at \in {"csv", "dispatch"}
        /\ report'.to = report.to /\ report'.from = report.from /\ report'.body = report.body
    BY <1>0, <1>5, ReportTick DEF AnomaliesUnreadable, ReadCsv
  <2>2. reportFaults' = 0 => reportFaults = 0 /\ report.at = "csv"
    BY <1>1, <1>5 DEF AnomaliesUnreadable, ReadCsv
  <2>. QED BY <1>0, <1>2, <2>1, <2>2 DEF BodyComplete
<1>. QED BY <1>3, <1>4, <1>5

\* A row inserted or a finding published while a report is built is stamped too late to
\* be due in it.
LEMMA LateArrivals ==
  ASSUME ReportInv, (\E tx \in Alert : StampScore(tx) \/ InsertScore(tx))
                      \/ (\E tx \in Anomalous : PublishFinding(tx))
  PROVE  /\ UNCHANGED <<today, lastTo, gaps, report, reported, reportFaults>>
         /\ \A tx \in Alert : analyzed'[tx] = analyzed[tx] \/ analyzed'[tx] + InsertDelay >= today
         /\ \A tx \in Anomalous : stamps'[tx] \subseteq stamps[tx] \cup {today}
<1>0. /\ today \in Nat /\ analyzed \in [Alert -> Nat \cup {Never}]
      /\ stamped \in [Alert -> Nat \cup {Never}] /\ stamps \in [Anomalous -> SUBSET Nat]
  BY DEF ReportInv, ReportTypes
<1>1. \A tx \in Alert : stamped[tx] # Never => today <= stamped[tx] + InsertDelay
  BY DEF ReportInv, OnTime
<1>2. UNCHANGED <<today, lastTo, gaps, report, reported, reportFaults>>
  BY DEF StampScore, InsertScore, PublishFinding, reportGhosts
<1>3. ASSUME NEW t \in Alert, StampScore(t) PROVE analyzed' = analyzed /\ stamps' = stamps
  BY <1>3 DEF StampScore
<1>4. ASSUME NEW t \in Alert, InsertScore(t)
      PROVE  stamps' = stamps /\ \A tx \in Alert :
               analyzed'[tx] = analyzed[tx] \/ analyzed'[tx] + InsertDelay >= today
  <2>1. stamped[t] # Never /\ analyzed' = [analyzed EXCEPT ![t] = stamped[t]] /\ stamps' = stamps
    BY <1>4 DEF InsertScore
  <2>2. stamped[t] + InsertDelay >= today
    BY <1>0, <1>1, <2>1, ReportBounds
  <2>. QED BY <1>0, <2>1, <2>2
<1>5. ASSUME NEW t \in Anomalous, PublishFinding(t)
      PROVE  analyzed' = analyzed /\ \A tx \in Anomalous : stamps'[tx] \subseteq stamps[tx] \cup {today}
  <2>1. analyzed' = analyzed
    BY <1>5 DEF PublishFinding
  <2>2. stamps' = [stamps EXCEPT ![t] = {s \in stamps[t] : \A r \in stamps[t] : s <= r} \cup {today}]
    BY <1>5 DEF PublishFinding
  <2>. QED BY <1>0, <2>1, <2>2
<1>. QED BY <1>2, <1>3, <1>4, <1>5

\* What a report has read stays complete while it is built.
LEMMA BodyKept ==
  ASSUME ReportInv, [ReportsNext]_reportVars
  PROVE  BodyComplete'
<1>0. ReportTypes /\ OnTime /\ BodyComplete
  BY DEF ReportInv
<1>1. CASE UNCHANGED <<analyzed, stamps, report, reportFaults>>
  BY <1>0, <1>1 DEF BodyComplete
<1>2. SetRoutes \/ PassDay \/ UNCHANGED reportVars => UNCHANGED <<analyzed, stamps, report, reportFaults>>
  BY DEF SetRoutes, PassDay, reportVars, reportData
<1>3. BeginReport \/ DispatchReport \/ MarkReportSent \/ ReportAborted =>
        report'.at \in {"idle", "count", "mark"}
  BY <1>0, ReportTick DEF BeginReport, MarkReportSent, ReportAborted, NoReport
<1>4. CASE report'.at \in {"idle", "count", "mark"}
  BY <1>4 DEF BodyComplete
<1>5. CASE (\E tx \in Alert : StampScore(tx) \/ InsertScore(tx))
             \/ (\E tx \in Anomalous : PublishFinding(tx))
  <2>1. /\ UNCHANGED <<today, report, reportFaults>>
        /\ \A tx \in Alert : analyzed'[tx] = analyzed[tx] \/ analyzed'[tx] + InsertDelay >= today
        /\ \A tx \in Anomalous : stamps'[tx] \subseteq stamps[tx] \cup {today}
    BY <1>5, LateArrivals
  <2>2. today \in Nat /\ report.to \in Nat /\ (Building => report.to <= today)
    BY <1>0 DEF ReportTypes, OnTime
  <2>3. analyzed' \in [Alert -> Nat \cup {Never}] /\ stamps' \in [Anomalous -> SUBSET Nat]
    <3>1. ReportTypes'
      BY <1>0, ReportTypesKept
    <3>. QED BY <3>1 DEF ReportTypes
  <2>4. ASSUME report.at \in {"anomalies", "csv", "dispatch"}, NEW tx \in Alert,
               analyzed'[tx] # Never, report.from <= analyzed'[tx],
               analyzed'[tx] + InsertDelay < report.to
        PROVE  <<tx, analyzed'[tx]>> \in report.body
    <3>1. report.to <= today
      BY <2>2, <2>4 DEF Building
    <3>2. analyzed'[tx] = analyzed[tx]
      BY <2>1, <2>2, <2>3, <2>4, <3>1, ReportBounds
    <3>. QED BY <1>0, <2>4, <3>2 DEF BodyComplete
  <2>5. ASSUME report.at \in {"csv", "dispatch"}, reportFaults = 0, NEW tx \in Anomalous,
               NEW s \in stamps'[tx], report.from <= s, s < report.to
        PROVE  <<tx, s>> \in report.body
    <3>1. report.to <= today
      BY <2>2, <2>5 DEF Building
    <3>2. s \in Nat /\ s # today
      BY <2>2, <2>3, <2>5, <3>1
    <3>3. s \in stamps[tx]
      BY <2>1, <2>5, <3>2
    <3>. QED BY <1>0, <2>5, <3>3 DEF BodyComplete
  <2>6. report' = report /\ reportFaults' = reportFaults
    BY <2>1
  <2>. QED BY <2>4, <2>5, <2>6 DEF BodyComplete
<1>. QED BY <1>1, <1>2, <1>3, <1>4, <1>5, BodyStages DEF ReportsNext

\* A report is sent with all its window held; what lies before its window was due at the
\* end of the last one, or in the gap between the two.
LEMMA SentByDispatch ==
  ASSUME ReportInv, DispatchReport
  PROVE  SentComplete'
<1>0. ReportTypes /\ OnTime /\ BodyComplete /\ SentComplete
  BY DEF ReportInv
<1>1. /\ report.to \in Nat /\ report.from \in Int /\ lastTo \in Nat \cup {Never}
      /\ analyzed \in [Alert -> Nat \cup {Never}] /\ stamps \in [Anomalous -> SUBSET Nat]
  BY <1>0 DEF ReportTypes
<1>2. /\ report.at = "dispatch" /\ lastTo' = report.to /\ reported' = reported \cup report.body
      /\ UNCHANGED <<analyzed, stamps, reportFaults>>
  BY DEF DispatchReport, reportData
<1>3. gaps' = gaps \cup ((lastTo - InsertDelay)..(report.from - 1))
  BY DEF DispatchReport
<1>4. ASSUME NEW day \in Nat, day \notin gaps', ~(report.from <= day)
      PROVE  day \notin gaps /\ day + InsertDelay < lastTo
  BY <1>1, <1>3, <1>4, ReportBounds
<1>5. ASSUME NEW tx \in Alert, analyzed[tx] # Never, analyzed[tx] + InsertDelay < report.to,
             analyzed[tx] \notin gaps'
      PROVE  <<tx, analyzed[tx]>> \in reported'
  <2>1. analyzed[tx] \in Nat
    BY <1>1, <1>5
  <2>2. CASE report.from <= analyzed[tx]
    <3>1. <<tx, analyzed[tx]>> \in report.body
      BY <1>0, <1>2, <1>5, <2>2 DEF BodyComplete
    <3>. QED BY <1>2, <3>1
  <2>3. CASE ~(report.from <= analyzed[tx])
    <3>1. analyzed[tx] \notin gaps /\ analyzed[tx] + InsertDelay < lastTo
      BY <1>4, <1>5, <2>1, <2>3
    <3>2. <<tx, analyzed[tx]>> \in reported
      BY <1>0, <1>5, <3>1 DEF SentComplete
    <3>. QED BY <1>2, <3>2
  <2>. QED BY <2>2, <2>3
<1>6. ASSUME reportFaults = 0, NEW tx \in Anomalous, NEW s \in stamps[tx], s \notin gaps', s < report.to
      PROVE  <<tx, s>> \in reported'
  <2>1. s \in Nat
    BY <1>1
  <2>2. CASE report.from <= s
    <3>1. <<tx, s>> \in report.body
      BY <1>0, <1>2, <1>6, <2>2 DEF BodyComplete
    <3>. QED BY <1>2, <3>1
  <2>3. CASE ~(report.from <= s)
    <3>1. s \notin gaps /\ s < lastTo
      BY <1>1, <1>4, <1>6, <2>1, <2>3, ReportBounds
    <3>2. <<tx, s>> \in reported
      BY <1>0, <1>6, <3>1 DEF SentComplete
    <3>. QED BY <1>2, <3>2
  <2>. QED BY <2>2, <2>3
<1>. QED BY <1>2, <1>5, <1>6 DEF SentComplete

\* What was due at the end of the last report stays told: a row that comes later is
\* stamped later.
LEMMA SentKept ==
  ASSUME ReportInv, [ReportsNext]_reportVars
  PROVE  SentComplete'
<1>0. ReportTypes /\ OnTime /\ SentComplete
  BY DEF ReportInv
<1>1. today \in Nat /\ lastTo \in Nat \cup {Never} /\ lastTo <= today /\ reportFaults \in Nat
  BY <1>0 DEF ReportTypes, OnTime
<1>2. BeginReport \/ CountScores \/ CountAnomalies \/ AnomaliesUnreadable \/ ReadCsv
        \/ MarkReportSent \/ ReportAborted \/ SetRoutes \/ PassDay \/ UNCHANGED reportVars =>
          /\ UNCHANGED <<analyzed, stamps, lastTo, gaps, reported>>
          /\ reportFaults' \in {reportFaults, reportFaults + 1}
  BY DEF BeginReport, CountScores, CountAnomalies, AnomaliesUnreadable, ReadCsv, MarkReportSent,
     ReportAborted, SetRoutes, PassDay, reportVars, reportData, reportGhosts
<1>3. CASE UNCHANGED <<analyzed, stamps, lastTo, gaps, reported>>
             /\ reportFaults' \in {reportFaults, reportFaults + 1}
  <2>1. reportFaults' = 0 => reportFaults = 0
    BY <1>1, <1>3
  <2>. QED BY <1>0, <1>3, <2>1 DEF SentComplete
<1>4. CASE (\E tx \in Alert : StampScore(tx) \/ InsertScore(tx))
             \/ (\E tx \in Anomalous : PublishFinding(tx))
  <2>1. /\ UNCHANGED <<lastTo, gaps, reported, reportFaults>>
        /\ \A tx \in Alert : analyzed'[tx] = analyzed[tx] \/ analyzed'[tx] + InsertDelay >= today
        /\ \A tx \in Anomalous : stamps'[tx] \subseteq stamps[tx] \cup {today}
    BY <1>4, LateArrivals
  <2>2. analyzed' \in [Alert -> Nat \cup {Never}] /\ stamps' \in [Anomalous -> SUBSET Nat]
    <3>1. ReportTypes'
      BY <1>0, ReportTypesKept
    <3>. QED BY <3>1 DEF ReportTypes
  <2>3. ASSUME NEW tx \in Alert, analyzed'[tx] # Never, analyzed'[tx] + InsertDelay < lastTo,
               analyzed'[tx] \notin gaps
        PROVE  <<tx, analyzed'[tx]>> \in reported
    <3>1. analyzed'[tx] = analyzed[tx]
      BY <1>1, <2>1, <2>2, <2>3, ReportBounds
    <3>. QED BY <1>0, <2>3, <3>1 DEF SentComplete
  <2>4. ASSUME reportFaults = 0, NEW tx \in Anomalous, NEW s \in stamps'[tx], s \notin gaps, s < lastTo
        PROVE  <<tx, s>> \in reported
    <3>1. s \in Nat /\ s # today
      BY <1>1, <2>2, <2>4, ReportBounds
    <3>2. s \in stamps[tx]
      BY <2>1, <2>4, <3>1
    <3>. QED BY <1>0, <2>4, <3>2 DEF SentComplete
  <2>5. lastTo' = lastTo /\ gaps' = gaps /\ reported' = reported /\ reportFaults' = reportFaults
    BY <2>1
  <2>. QED BY <2>3, <2>4, <2>5 DEF SentComplete
<1>. QED BY <1>2, <1>3, <1>4, SentByDispatch DEF ReportsNext

\* Every operation of the reports keeps their invariant.
LEMMA ReportInductive == ReportInv /\ [ReportsNext]_reportVars => ReportInv'
<1>. SUFFICES ASSUME ReportInv, [ReportsNext]_reportVars PROVE ReportInv'
  OBVIOUS
<1>1. ReportTypes /\ OnTime /\ BoundaryKnown /\ ReportsPaced
  BY DEF ReportInv
<1>2. ReportTypes' /\ OnTime' /\ BoundaryKnown' /\ ReportsPaced'
  BY <1>1, ReportTypesKept, OnTimeKept, BoundaryKept, PacedKept
<1>. QED BY <1>2, BodyKept, SentKept DEF ReportInv

\* Nothing is scored, sent or being built at the start.
LEMMA ReportInitially == ReportsInit(TRUE) => ReportInv
<1>. SUFFICES ASSUME ReportsInit(TRUE) PROVE ReportInv
  OBVIOUS
<1>1. /\ today = 0 /\ lastSent = Never /\ lastTo = Never /\ markLost = FALSE /\ reportFaults = 0
      /\ analyzed = [tx \in Alert |-> Never] /\ stamped = [tx \in Alert |-> Never]
      /\ stamps = [tx \in Anomalous |-> {}]
      /\ report = [at |-> "idle", from |-> 0, to |-> 0, body |-> {}]
  BY DEF ReportsInit, NoReport
<1>2. ReportTypes
  <2>1. analyzed \in [Alert -> Nat \cup {Never}] /\ stamped \in [Alert -> Nat \cup {Never}]
    BY <1>1
  <2>2. stamps \in [Anomalous -> SUBSET Nat]
    BY <1>1
  <2>3. report \in [at : {"idle", "count", "anomalies", "csv", "dispatch", "mark"},
                    from : Int, to : Nat, body : SUBSET ((Alert \cup Anomalous) \X Nat)]
    BY <1>1
  <2>. QED BY <1>1, <2>1, <2>2, <2>3 DEF ReportTypes
<1>3. OnTime
  BY <1>1, ReportBounds DEF OnTime, Building
<1>4. BodyComplete /\ BoundaryKnown
  BY <1>1 DEF BodyComplete, BoundaryKnown
<1>5. SentComplete /\ ReportsPaced
  BY <1>1 DEF SentComplete, ReportsPaced
<1>. QED BY <1>2, <1>3, <1>4, <1>5 DEF ReportInv

\* For any number of alerts and findings, any interval and any window, and however late a
\* report comes: an alert behind the boundary is in a report, or on a day that lies between
\* the windows of two consecutive reports, and reports come an interval apart unless a
\* boundary was lost (tasks/notifications.py, notifications/reports.py).
THEOREM ReportsAreRight == ReportsSpec => []ReportsRight
<1>1. ReportInv => ReportsRight
  <2>. SUFFICES ASSUME ReportInv PROVE NoAlertUnreported /\ ReportsPaced
    BY DEF ReportsRight
  <2>1. /\ lastSent \in Nat \cup {Never} /\ lastTo \in Nat \cup {Never} /\ lastSent <= lastTo
        /\ analyzed \in [Alert -> Nat \cup {Never}] /\ stamps \in [Anomalous -> SUBSET Nat]
        /\ SentComplete
    BY DEF ReportInv, ReportTypes, OnTime
  <2>2. ASSUME NEW n \in Int, n < lastSent PROVE n < lastTo
    BY <2>1, <2>2, ReportBounds
  <2>3. \A tx \in Alert : analyzed[tx] + InsertDelay \in Int
    BY <2>1, ReportBounds
  <2>4. \A tx \in Anomalous : \A s \in stamps[tx] : s \in Int
    BY <2>1
  <2>5. NoAlertUnreported
    BY <2>1, <2>2, <2>3, <2>4 DEF SentComplete, NoAlertUnreported
  <2>. QED BY <2>5 DEF ReportInv
<1>. QED BY <1>1, ReportInitially, ReportInductive, PTL DEF ReportsSpec

-----------------------------------------------------------------------------
(* The projection of the sidecar (service/publish.py)                      *)

PassStage ==
  {"idle", "version", "select", "online", "resolve", "batch", "labels", "retract",
   "window", "tombstone", "votes", "scores"}
PassRecord ==
  [at : PassStage, ver : Nat, online : SUBSET AnyTx,
   batch : UNION {[D -> Positive] : D \in SUBSET AnyTx}, labels : SUBSET AnyTx,
   stale : SUBSET AnyTx]

PublishTypes ==
  /\ host \subseteq AnyTx
  /\ fit \in [of : [AnyTx -> {"out", "noise", "cluster"}], votes : SUBSET AnyTx, run : Nat]
  /\ frozen \in [run : Nat, verdict : {"none", "malicious", "benign"}]
  /\ classified \in [AnyTx -> [run : Nat, verdict : {"normal", "anomaly", "malicious", "benign"}]]
  /\ tag \in [AnyTx -> [label : {"none", "malicious", "benign"},
                        source : {"none", "cluster", "manual_tx"}]]
  /\ shown \in [AnyTx -> [ver : Nat, verdict : {"normal", "malicious", "anomaly"}]]
  /\ pass \in [PassThread -> PassRecord]
  /\ calm \in {"off", "no", "pass", "settled"}

\* What a pass carries and what the host is shown, the host has.
OnlyKnown ==
  /\ \A t \in PassThread : pass[t].online \subseteq host /\ DOMAIN pass[t].batch \subseteq host
  /\ \A x \in AnyTx : shown[x].verdict \in Positive => x \in host

Midway(t) == pass[t].at \notin {"idle", "version"}

\* While a pass is alone no other has taken its version, and after it none has.
Alone ==
  /\ calm = "pass" => \A t, u \in PassThread : Midway(t) /\ Midway(u) => t = u
  /\ calm = "settled" => \A t \in PassThread : ~Midway(t)

OnlineVerdict(x) == IF x \in Labelled("malicious") THEN "malicious" ELSE classified[x].verdict

Retracting == {"retract", "window", "tombstone"}

\* What a pass that is alone has read is still so, its version is the newest, and what
\* it wrote so far is what the host is shown.
Advances(t) ==
  LET p == pass[t] IN
  /\ \A x \in AnyTx : shown[x].ver <= p.ver
  /\ p.at \in {"online", "resolve", "batch", "labels"} \cup Retracting =>
       p.online = HostKnownOnly(OnlineFlagged)
  /\ p.at \in {"resolve", "batch"} =>
       \A x \in p.online : shown[x].verdict = OnlineVerdict(x)
  /\ p.at \in {"batch", "labels"} \cup Retracting =>
       p.batch = [x \in HostKnownOnly(BatchFlagged) |-> BatchVerdict(x)]
  /\ p.at \in {"labels"} \cup Retracting =>
       \A x \in p.online \cup DOMAIN p.batch : shown[x].verdict = CurrentFinding(x)
  /\ p.at \in Retracting =>
       /\ p.labels = Labelled("malicious") \cap host
       /\ \A x \in p.labels : shown[x].verdict = CurrentFinding(x)
  /\ p.at = "window" => p.stale = StaleRows(p)
  /\ p.at = "tombstone" => p.stale = StaleRows(p) \cap Windowed

Advancing == calm = "pass" => \A t \in PassThread : Midway(t) => Advances(t)

PublishInv == PublishTypes /\ OnlyKnown /\ Alone /\ Advancing /\ PassReconciles

\* A transaction that carries the newest version exists, so _reconciliation_version is
\* above every version on the table.
LEMMA NewestVersion ==
  ASSUME PublishTypes, NEW now \in Nat
  PROVE  /\ ReconciliationVersion(now) \in Nat
         /\ \A x \in AnyTx : shown[x].ver < ReconciliationVersion(now)
<1>. DEFINE T == {n \in Nat : n + 1 <= LastTx =>
                    \E y \in 1..(n + 1) : \A x \in 1..(n + 1) : shown[x].ver <= shown[y].ver}
<1>0. LastTx \in Nat \ {0} /\ \A x \in 1..LastTx : shown[x].ver \in Nat
  BY PublishAssumption DEF PublishTypes, AnyTx
<1>1. 0 \in T
  <2>1. 1..(0 + 1) = {1}
    OBVIOUS
  <2>2. 0 + 1 <= LastTx => 1 \in 1..LastTx
    BY <1>0
  <2>. QED BY <1>0, <2>1, <2>2
<1>2. ASSUME NEW n \in Nat, n \in T PROVE n + 1 \in T
  <2>. SUFFICES ASSUME (n + 1) + 1 <= LastTx
                PROVE  \E y \in 1..((n + 1) + 1) :
                         \A x \in 1..((n + 1) + 1) : shown[x].ver <= shown[y].ver
    OBVIOUS
  <2>1. n + 1 <= LastTx
    BY <1>0
  <2>2. PICK y \in 1..(n + 1) : \A x \in 1..(n + 1) : shown[x].ver <= shown[y].ver
    BY <1>2, <2>1
  <2>. DEFINE m == (n + 1) + 1
  <2>3. /\ m \in 1..m /\ y \in 1..m /\ shown[m].ver \in Nat /\ shown[y].ver \in Nat
        /\ \A x \in 1..m : x = m \/ x \in 1..(n + 1)
    BY <1>0
  <2>4. CASE shown[m].ver <= shown[y].ver
    <3>1. \A x \in 1..m : shown[x].ver <= shown[y].ver
      BY <2>2, <2>3, <2>4
    <3>. QED BY <2>3, <3>1
  <2>5. CASE ~(shown[m].ver <= shown[y].ver)
    <3>1. \A x \in 1..m : shown[x].ver \in Nat
      BY <1>0
    <3>2. \A x \in 1..m : shown[x].ver <= shown[m].ver
      BY <2>2, <2>3, <2>5, <3>1
    <3>. QED BY <2>3, <3>2
  <2>. QED BY <2>4, <2>5
<1>3. LastTx - 1 \in T
  <2>. HIDE DEF T
  <2>1. LastTx - 1 \in Nat
    BY <1>0
  <2>. QED BY <1>1, <1>2, <2>1, NatSetInduction
<1>4. PICK y \in AnyTx : \A x \in AnyTx : shown[x].ver <= shown[y].ver
  <2>1. (LastTx - 1) + 1 = LastTx /\ LastTx <= LastTx
    BY <1>0
  <2>. QED BY <1>3, <2>1 DEF AnyTx
<1>5. \E v \in {shown[x].ver : x \in AnyTx} : \A x \in AnyTx : shown[x].ver <= v
  BY <1>4
<1>6. LatestVersion \in {shown[x].ver : x \in AnyTx} /\ \A x \in AnyTx : shown[x].ver <= LatestVersion
  BY <1>5 DEF LatestVersion
<1>7. LatestVersion \in Nat /\ \A x \in AnyTx : shown[x].ver \in Nat
  BY <1>0, <1>6 DEF AnyTx
<1>. QED BY <1>6, <1>7 DEF ReconciliationVersion

\* The verdicts a transaction can have (compute_verdicts).
LEMMA VerdictTypes ==
  ASSUME PublishTypes, NEW x \in AnyTx
  PROVE  /\ DominantVerdict \in {"malicious", "benign", "none"}
         /\ BatchVerdict(x) \in {"malicious", "benign", "anomaly", "normal"}
<1>1. DominantVerdict \in {"malicious", "benign", "none"}
  BY DEF DominantVerdict
<1>2. tag[x].label \in {"none", "malicious", "benign"}
  BY DEF PublishTypes
<1>. QED BY <1>1, <1>2 DEF BatchVerdict

\* Which of the three paths of a pass surfaces a finding, and with what verdict: the
\* batch copy, else the online copy, else the label; what none of them holds is none.
LEMMA FindingPaths ==
  ASSUME PublishTypes, NEW x \in AnyTx
  PROVE  /\ x \in HostKnownOnly(BatchFlagged) =>
              BatchVerdict(x) \in Positive /\ CurrentFinding(x) = BatchVerdict(x)
         /\ x \in HostKnownOnly(OnlineFlagged) =>
              /\ OnlineVerdict(x) \in Positive
              /\ x \notin BatchFlagged => CurrentFinding(x) = OnlineVerdict(x)
         /\ x \in Labelled("malicious") \cap host => CurrentFinding(x) = "malicious"
         /\ CurrentFinding(x) \in Positive \cup {"none"}
         /\ CurrentFinding(x) # "none" =>
              x \in HostKnownOnly(BatchFlagged) \cup HostKnownOnly(OnlineFlagged)
                    \cup (Labelled("malicious") \cap host)
<1>1. tag[x].label \in {"none", "malicious", "benign"}
  BY DEF PublishTypes
<1>2. tag[x].label # "none" => BatchVerdict(x) = tag[x].label
  BY DEF BatchVerdict
<1>3. \A l : x \in Labelled(l) <=> tag[x].label = l
  BY DEF Labelled
<1>. DEFINE b == BatchVerdict(x)
            c == classified[x].verdict
            r == classified[x].run
<1>4. x \in BatchFlagged <=> fit.of[x] # "out" /\ b \in Positive
  BY DEF BatchFlagged
<1>5. x \in OnlineFlagged <=> /\ r # 0
                              /\ \/ c \in Positive /\ tag[x].label # "benign"
                                 \/ tag[x].label = "malicious"
  BY <1>3 DEF OnlineFlagged
<1>6. CurrentFinding(x) =
        IF x \notin host \/ tag[x].label = "benign" THEN "none"
        ELSE IF tag[x].label = "malicious" THEN "malicious"
        ELSE IF fit.of[x] # "out" /\ b \in Positive THEN b
        ELSE IF r # 0 /\ c \in Positive THEN c
        ELSE "none"
  BY DEF CurrentFinding
<1>7. OnlineVerdict(x) = IF tag[x].label = "malicious" THEN "malicious" ELSE c
  BY <1>3 DEF OnlineVerdict
<1>8. (x \in HostKnownOnly(BatchFlagged) <=> x \in BatchFlagged /\ x \in host)
      /\ (x \in HostKnownOnly(OnlineFlagged) <=> x \in OnlineFlagged /\ x \in host)
  BY DEF HostKnownOnly
<1>. HIDE DEF b, c, r
<1>9. CASE x \notin host
  BY <1>9, <1>6, <1>8
<1>10. CASE x \in host /\ tag[x].label = "benign"
  BY <1>10, <1>2, <1>3, <1>4, <1>5, <1>6, <1>8 DEF Positive, b
<1>11. CASE x \in host /\ tag[x].label = "malicious"
  BY <1>11, <1>2, <1>3, <1>4, <1>5, <1>6, <1>7, <1>8 DEF Positive, b
<1>12. CASE x \in host /\ tag[x].label = "none"
  BY <1>12, <1>3, <1>4, <1>5, <1>6, <1>7, <1>8 DEF Positive, b
<1>. QED BY <1>1, <1>9, <1>10, <1>11, <1>12

\* The verdicts read only the host's index, the fit, the classifications and the labels.
LEMMA ViewKept ==
  ASSUME UNCHANGED <<host, fit, classified, tag>>
  PROVE  /\ HostKnownOnly(OnlineFlagged)' = HostKnownOnly(OnlineFlagged)
         /\ HostKnownOnly(BatchFlagged)' = HostKnownOnly(BatchFlagged)
         /\ Labelled("malicious")' = Labelled("malicious")
         /\ \A x : BatchVerdict(x)' = BatchVerdict(x)
         /\ \A x : OnlineVerdict(x)' = OnlineVerdict(x)
         /\ \A x : CurrentFinding(x)' = CurrentFinding(x)
         /\ Windowed' = Windowed
<1>1. \A l : Labelled(l)' = Labelled(l)
  BY DEF Labelled
<1>2. DominantVerdict' = DominantVerdict
  BY DEF DominantVerdict, Propagating, ClusterMembers
<1>3. \A x : BatchVerdict(x)' = BatchVerdict(x)
  BY <1>2 DEF BatchVerdict
<1>4. \A x : OnlineVerdict(x)' = OnlineVerdict(x)
  BY <1>1 DEF OnlineVerdict
<1>5. \A x : CurrentFinding(x)' = CurrentFinding(x)
  BY <1>3 DEF CurrentFinding
<1>6. BatchFlagged' = BatchFlagged
  BY <1>3 DEF BatchFlagged
<1>7. OnlineFlagged' = OnlineFlagged
  BY <1>1 DEF OnlineFlagged
<1>8. Windowed' = Windowed
  BY DEF Windowed, Held
<1>. QED BY <1>1, <1>3, <1>4, <1>5, <1>6, <1>7, <1>8 DEF HostKnownOnly

\* What an insert leaves on FINAL; one with the newest version replaces every row it has.
LEMMA InsertedRows ==
  ASSUME PublishTypes, NEW rows, NEW ver \in Nat, shown' = Upserted(rows, ver),
         \A x \in AnyTx \cap DOMAIN rows : rows[x] \in {"normal", "malicious", "anomaly"}
  PROVE  /\ shown' \in [AnyTx -> [ver : Nat, verdict : {"normal", "malicious", "anomaly"}]]
         /\ \A x \in AnyTx : \/ shown'[x] = shown[x]
                             \/ x \in DOMAIN rows /\ shown'[x].verdict = rows[x]
         /\ (\A x \in AnyTx : shown[x].ver <= ver) =>
              /\ \A x \in AnyTx : shown'[x].ver <= ver
              /\ \A x \in AnyTx : x \in DOMAIN rows => shown'[x].verdict = rows[x]
              /\ \A x \in AnyTx : x \notin DOMAIN rows => shown'[x] = shown[x]
<1>. DEFINE Row == [ver : Nat, verdict : {"normal", "malicious", "anomaly"}]
<1>1. shown' = [x \in AnyTx |-> IF x \in DOMAIN rows /\ ver >= shown[x].ver
                                THEN [ver |-> ver, verdict |-> rows[x]] ELSE shown[x]]
  BY DEF Upserted
<1>2. ASSUME NEW x \in AnyTx
      PROVE  /\ shown[x] \in Row /\ shown[x].ver \in Nat
             /\ shown'[x] \in Row
             /\ shown'[x] = shown[x] \/ (x \in DOMAIN rows /\ shown'[x].verdict = rows[x])
             /\ shown[x].ver <= ver =>
                  /\ shown'[x].ver <= ver
                  /\ x \in DOMAIN rows => shown'[x].verdict = rows[x]
                  /\ x \notin DOMAIN rows => shown'[x] = shown[x]
  <2>1. shown[x] \in Row /\ shown[x].ver \in Nat
    BY DEF PublishTypes
  <2>2. CASE x \in DOMAIN rows /\ ver >= shown[x].ver
    <3>1. shown'[x] = [ver |-> ver, verdict |-> rows[x]]
      BY <1>1, <2>2
    <3>2. rows[x] \in {"normal", "malicious", "anomaly"}
      BY <2>2
    <3>. QED BY <2>1, <2>2, <3>1, <3>2
  <2>3. CASE ~(x \in DOMAIN rows /\ ver >= shown[x].ver)
    <3>1. shown'[x] = shown[x]
      BY <1>1, <2>3
    <3>. QED BY <2>1, <2>3, <3>1
  <2>. QED BY <2>2, <2>3
<1>3. shown' \in [AnyTx -> Row]
  <2>1. \A x \in AnyTx : shown'[x] \in Row
    BY <1>2
  <2>2. shown' = [x \in AnyTx |-> shown'[x]]
    BY <1>1
  <2>. HIDE DEF Row
  <2>. QED BY <2>1, <2>2
<1>. QED BY <1>2, <1>3

\* A step of a pass that is alone keeps the others out of it.
LEMMA AloneStep ==
  ASSUME PublishInv, NEW t \in PassThread, Midway(t), Midway(t)', calm' = calm,
         \A u \in PassThread \ {t} : pass'[u] = pass[u],
         calm = "pass" => Advances(t)'
  PROVE  Alone' /\ Advancing' /\ PassReconciles'
<1>1. calm # "settled"
  BY DEF PublishInv, Alone
<1>2. \A u \in PassThread \ {t} : Midway(u)' <=> Midway(u)
  BY DEF Midway
<1>3. CASE calm = "pass"
  <2>1. \A u \in PassThread : Midway(u) => u = t
    BY <1>3 DEF PublishInv, Alone
  <2>2. \A u \in PassThread : Midway(u)' => u = t
    BY <1>2, <2>1
  <2>. QED BY <1>3, <2>2 DEF Alone, Advancing, PassReconciles
<1>4. CASE calm # "pass"
  BY <1>1, <1>4 DEF Alone, Advancing, PassReconciles
<1>. QED BY <1>3, <1>4

\* A step that is not a pass's marks the projection as no longer reconciled.
LEMMA CalmBroken ==
  ASSUME calm' = "no" PROVE Alone' /\ Advancing' /\ PassReconciles'
BY DEF Alone, Advancing, PassReconciles

\* The selection of the online copy: what it selects is what is flagged now.
LEMMA SelectOnlineKeeps ==
  ASSUME PublishInv, NEW t \in PassThread, SelectOnline(t)
  PROVE  PublishInv'
<1>t. PublishTypes /\ OnlyKnown
  BY DEF PublishInv
<1>1. /\ pass[t].at = "select" /\ UNCHANGED <<host, fit, frozen, classified, tag, shown, calm, budget>>
      /\ pass' = [pass EXCEPT ![t].at = "online", ![t].online = HostKnownOnly(OnlineFlagged)]
  BY DEF SelectOnline
<1>. DEFINE On == HostKnownOnly(OnlineFlagged)
<1>2. On \subseteq host /\ On \subseteq AnyTx
  BY DEF HostKnownOnly, OnlineFlagged
<1>. HIDE DEF On
<1>3. pass \in [PassThread -> PassRecord]
  BY <1>t DEF PublishTypes
<1>4. /\ pass'[t].at = "online" /\ pass'[t].ver = pass[t].ver /\ pass'[t].online = On
      /\ pass'[t].batch = pass[t].batch
      /\ \A u \in PassThread \ {t} : pass'[u] = pass[u]
  BY <1>1, <1>3 DEF PassRecord, On
<1>5. pass' \in [PassThread -> PassRecord]
  BY <1>1, <1>2, <1>3, ZenonT(90) DEF PassRecord, PassStage, On
<1>6. PublishTypes'
  BY <1>t, <1>1, <1>5 DEF PublishTypes, AnyTx
<1>7. OnlyKnown'
  BY <1>t, <1>1, <1>2, <1>4 DEF OnlyKnown
<1>8. calm = "pass" => Advances(t)'
  <2>. SUFFICES ASSUME calm = "pass" PROVE Advances(t)'
    OBVIOUS
  <2>1. \A x \in AnyTx : shown[x].ver <= pass[t].ver
    BY <1>1 DEF PublishInv, Advancing, Advances, Midway, Retracting
  <2>2. On' = On
    BY <1>1, ViewKept DEF On
  <2>. QED BY <1>1, <1>4, <2>1, <2>2 DEF Advances, On, AnyTx, Retracting
<1>9. Midway(t) /\ Midway(t)'
  BY <1>1, <1>4 DEF Midway
<1>. QED BY <1>1, <1>4, <1>6, <1>7, <1>8, <1>9, AloneStep DEF PublishInv

\* The selection of the batch copy (compute_verdicts over the canonical run).
LEMMA SelectBatchKeeps ==
  ASSUME PublishInv, NEW t \in PassThread, SelectBatch(t)
  PROVE  PublishInv'
<1>t. PublishTypes /\ OnlyKnown
  BY DEF PublishInv
<1>. DEFINE B == [x \in HostKnownOnly(BatchFlagged) |-> BatchVerdict(x)]
<1>1. /\ pass[t].at = "resolve" /\ UNCHANGED <<host, fit, frozen, classified, tag, shown, calm, budget>>
      /\ pass' = [pass EXCEPT ![t].at = "batch", ![t].batch = B]
  BY DEF SelectBatch
<1>2. /\ DOMAIN B \subseteq host /\ DOMAIN B \subseteq AnyTx
      /\ B \in UNION {[D -> Positive] : D \in SUBSET AnyTx}
  <2>1. DOMAIN B = HostKnownOnly(BatchFlagged)
    OBVIOUS
  <2>2. DOMAIN B \subseteq host /\ DOMAIN B \subseteq AnyTx
    BY <2>1 DEF HostKnownOnly, BatchFlagged
  <2>3. \A x \in HostKnownOnly(BatchFlagged) : BatchVerdict(x) \in Positive
    BY DEF HostKnownOnly, BatchFlagged
  <2>4. B \in [DOMAIN B -> Positive]
    BY <2>1, <2>3
  <2>. HIDE DEF B
  <2>. QED BY <2>2, <2>4
<1>3. pass \in [PassThread -> PassRecord]
  BY <1>t DEF PublishTypes
<1>4. calm = "pass" =>
        /\ \A x \in AnyTx : shown[x].ver <= pass[t].ver
        /\ pass[t].online = HostKnownOnly(OnlineFlagged)
        /\ \A x \in pass[t].online : shown[x].verdict = OnlineVerdict(x)
  BY <1>1 DEF PublishInv, Advancing, Advances, Midway, Retracting
<1>5. B' = B
  BY <1>1, ViewKept
<1>. HIDE DEF B
<1>6. /\ pass'[t].at = "batch" /\ pass'[t].ver = pass[t].ver /\ pass'[t].online = pass[t].online
      /\ pass'[t].batch = B
      /\ \A u \in PassThread \ {t} : pass'[u] = pass[u]
  BY <1>1, <1>3 DEF PassRecord
<1>7. pass' \in [PassThread -> PassRecord]
  BY <1>1, <1>2, <1>3, ZenonT(90) DEF PassRecord, PassStage
<1>8. PublishTypes'
  BY <1>t, <1>1, <1>7 DEF PublishTypes, AnyTx
<1>9. OnlyKnown'
  BY <1>t, <1>1, <1>2, <1>6 DEF OnlyKnown
<1>10. calm = "pass" => Advances(t)'
  <2>. SUFFICES ASSUME calm = "pass" PROVE Advances(t)'
    OBVIOUS
  <2>1. HostKnownOnly(OnlineFlagged)' = HostKnownOnly(OnlineFlagged)
        /\ \A x : OnlineVerdict(x)' = OnlineVerdict(x)
    BY <1>1, ViewKept
  <2>2. pass'[t].batch = [x \in HostKnownOnly(BatchFlagged)' |-> BatchVerdict(x)']
    BY <1>5, <1>6 DEF B
  <2>. QED BY <1>1, <1>4, <1>6, <2>1, <2>2 DEF Advances, AnyTx, Retracting
<1>11. Midway(t) /\ Midway(t)'
  BY <1>1, <1>6 DEF Midway
<1>. QED BY <1>1, <1>6, <1>8, <1>9, <1>10, <1>11, AloneStep DEF PublishInv

\* The online insert: alone, its pinned set is what it selected, so all of it is shown.
LEMMA InsertOnlineKeeps ==
  ASSUME PublishInv, NEW t \in PassThread, InsertOnline(t)
  PROVE  PublishInv'
<1>t. PublishTypes /\ OnlyKnown
  BY DEF PublishInv
<1>. DEFINE S == pass[t].online \cap OnlineFlagged
            rows == OnlineRows(S)
<1>1. /\ pass[t].at = "online" /\ UNCHANGED <<host, fit, frozen, classified, tag, calm, budget>>
      /\ pass' = [pass EXCEPT ![t].at = "resolve"]
      /\ shown' = Upserted(rows, pass[t].ver)
  BY DEF InsertOnline
<1>2. /\ S \subseteq host /\ S \subseteq AnyTx /\ DOMAIN rows = S
      /\ \A x \in S : rows[x] = OnlineVerdict(x) /\ OnlineVerdict(x) \in Positive
  <2>1. S \subseteq host /\ S \subseteq AnyTx /\ DOMAIN rows = S
    BY <1>t DEF OnlyKnown, OnlineFlagged, OnlineRows
  <2>2. \A x \in S : rows[x] = OnlineVerdict(x)
    BY DEF OnlineRows, OnlineVerdict
  <2>3. \A x \in S : OnlineVerdict(x) \in Positive
    BY DEF OnlineFlagged, OnlineVerdict, Positive
  <2>. QED BY <2>1, <2>2, <2>3
<1>3. pass \in [PassThread -> PassRecord]
  BY <1>t DEF PublishTypes
<1>4. calm = "pass" =>
        /\ \A x \in AnyTx : shown[x].ver <= pass[t].ver
        /\ pass[t].online = HostKnownOnly(OnlineFlagged)
        /\ S = pass[t].online
  BY <1>1 DEF PublishInv, Advancing, Advances, Midway, HostKnownOnly, Retracting
<1>. HIDE DEF S, rows
<1>5. /\ pass'[t].at = "resolve" /\ pass'[t].ver = pass[t].ver /\ pass'[t].online = pass[t].online
      /\ pass'[t].batch = pass[t].batch
      /\ \A u \in PassThread \ {t} : pass'[u] = pass[u]
  BY <1>1, <1>3 DEF PassRecord
<1>6. pass' \in [PassThread -> PassRecord]
  BY <1>1, <1>3 DEF PassRecord, PassStage
<1>7. /\ shown' \in [AnyTx -> [ver : Nat, verdict : {"normal", "malicious", "anomaly"}]]
      /\ \A x \in AnyTx : shown'[x] = shown[x] \/ x \in S
      /\ calm = "pass" =>
           /\ \A x \in AnyTx : shown'[x].ver <= pass[t].ver
           /\ \A x \in AnyTx : x \in S => shown'[x].verdict = rows[x]
  <2>1. pass[t].ver \in Nat
    BY <1>3 DEF PassRecord
  <2>2. \A x \in AnyTx \cap DOMAIN rows : rows[x] \in {"normal", "malicious", "anomaly"}
    BY <1>2 DEF Positive
  <2>. QED BY <1>t, <1>1, <1>2, <1>4, <2>1, <2>2, InsertedRows
<1>8. PublishTypes'
  BY <1>t, <1>1, <1>6, <1>7 DEF PublishTypes, AnyTx
<1>9. OnlyKnown'
  <2>1. \A x \in AnyTx : shown'[x].verdict \in Positive => x \in host
    BY <1>t, <1>2, <1>7 DEF OnlyKnown
  <2>2. \A u \in PassThread : pass'[u].online = pass[u].online /\ pass'[u].batch = pass[u].batch
    BY <1>5
  <2>. QED BY <1>t, <1>1, <2>1, <2>2 DEF OnlyKnown, AnyTx
<1>10. calm = "pass" => Advances(t)'
  <2>. SUFFICES ASSUME calm = "pass" PROVE Advances(t)'
    OBVIOUS
  <2>1. HostKnownOnly(OnlineFlagged)' = HostKnownOnly(OnlineFlagged)
        /\ \A x : OnlineVerdict(x)' = OnlineVerdict(x)
    BY <1>1, ViewKept
  <2>2. \A x \in pass[t].online : shown'[x].verdict = OnlineVerdict(x)'
    BY <1>2, <1>4, <1>7, <2>1
  <2>3. \A x \in AnyTx : shown'[x].ver <= pass'[t].ver
    BY <1>5, <1>7
  <2>. QED BY <1>4, <1>5, <2>1, <2>2, <2>3 DEF Advances, AnyTx, Retracting
<1>11. Midway(t) /\ Midway(t)'
  BY <1>1, <1>5 DEF Midway
<1>. QED BY <1>1, <1>5, <1>8, <1>9, <1>10, <1>11, AloneStep DEF PublishInv

\* The batch insert overwrites the online rows it shares, as a current finding does.
LEMMA InsertBatchKeeps ==
  ASSUME PublishInv, NEW t \in PassThread, InsertBatch(t)
  PROVE  PublishInv'
<1>t. PublishTypes /\ OnlyKnown
  BY DEF PublishInv
<1>. DEFINE rows == pass[t].batch
            D == DOMAIN rows
<1>1. /\ pass[t].at = "batch" /\ UNCHANGED <<host, fit, frozen, classified, tag, calm, budget>>
      /\ pass' = [pass EXCEPT ![t].at = "labels"]
      /\ shown' = Upserted(rows, pass[t].ver)
  BY DEF InsertBatch
<1>3. pass \in [PassThread -> PassRecord]
  BY <1>t DEF PublishTypes
<1>2. D \subseteq host /\ D \subseteq AnyTx /\ \A x \in D : rows[x] \in Positive
  <2>1. rows \in UNION {[E -> Positive] : E \in SUBSET AnyTx}
    BY <1>3 DEF PassRecord
  <2>2. PICK E \in SUBSET AnyTx : rows \in [E -> Positive]
    BY <2>1
  <2>. QED BY <1>t, <2>2 DEF OnlyKnown
<1>4. calm = "pass" =>
        /\ \A x \in AnyTx : shown[x].ver <= pass[t].ver
        /\ pass[t].online = HostKnownOnly(OnlineFlagged)
        /\ \A x \in pass[t].online : shown[x].verdict = OnlineVerdict(x)
        /\ rows = [x \in HostKnownOnly(BatchFlagged) |-> BatchVerdict(x)]
  BY <1>1 DEF PublishInv, Advancing, Advances, Midway, Retracting
<1>5. /\ pass'[t].at = "labels" /\ pass'[t].ver = pass[t].ver /\ pass'[t].online = pass[t].online
      /\ pass'[t].batch = rows
      /\ \A u \in PassThread \ {t} : pass'[u] = pass[u]
  BY <1>1, <1>3 DEF PassRecord
<1>. HIDE DEF rows, D
<1>6. pass' \in [PassThread -> PassRecord]
  BY <1>1, <1>3 DEF PassRecord, PassStage
<1>7. /\ shown' \in [AnyTx -> [ver : Nat, verdict : {"normal", "malicious", "anomaly"}]]
      /\ \A x \in AnyTx : shown'[x] = shown[x] \/ x \in D
      /\ calm = "pass" =>
           /\ \A x \in AnyTx : shown'[x].ver <= pass[t].ver
           /\ \A x \in AnyTx : x \in D => shown'[x].verdict = rows[x]
           /\ \A x \in AnyTx : x \notin D => shown'[x] = shown[x]
  <2>1. pass[t].ver \in Nat
    BY <1>3 DEF PassRecord
  <2>2. \A x \in AnyTx \cap DOMAIN rows : rows[x] \in {"normal", "malicious", "anomaly"}
    BY <1>2 DEF Positive, D
  <2>. QED BY <1>t, <1>1, <1>2, <1>4, <2>1, <2>2, InsertedRows DEF D
<1>8. PublishTypes'
  BY <1>t, <1>1, <1>6, <1>7 DEF PublishTypes, AnyTx
<1>9. OnlyKnown'
  <2>1. \A x \in AnyTx : shown'[x].verdict \in Positive => x \in host
    BY <1>t, <1>2, <1>7 DEF OnlyKnown
  <2>2. \A u \in PassThread : pass'[u].online = pass[u].online /\ pass'[u].batch = pass[u].batch
    BY <1>5 DEF rows
  <2>. QED BY <1>t, <1>1, <2>1, <2>2 DEF OnlyKnown, AnyTx
<1>10. calm = "pass" => Advances(t)'
  <2>. SUFFICES ASSUME calm = "pass" PROVE Advances(t)'
    OBVIOUS
  <2>1. /\ HostKnownOnly(OnlineFlagged)' = HostKnownOnly(OnlineFlagged)
        /\ HostKnownOnly(BatchFlagged)' = HostKnownOnly(BatchFlagged)
        /\ \A x : BatchVerdict(x)' = BatchVerdict(x) /\ CurrentFinding(x)' = CurrentFinding(x)
    BY <1>1, ViewKept
  <2>2. ASSUME NEW x \in pass[t].online \cup D PROVE shown'[x].verdict = CurrentFinding(x)
    <3>1. D = HostKnownOnly(BatchFlagged) /\ pass[t].online \subseteq AnyTx
      BY <1>3, <1>4 DEF D, PassRecord
    <3>2. x \in AnyTx
      BY <1>2, <3>1
    <3>3. CASE x \in D
      <4>1. rows[x] = BatchVerdict(x)
        BY <1>4, <3>1, <3>3
      <4>. QED BY <1>t, <1>7, <3>1, <3>2, <3>3, <4>1, FindingPaths
    <3>4. CASE x \notin D
      <4>1. x \in HostKnownOnly(OnlineFlagged) /\ shown'[x].verdict = OnlineVerdict(x)
        BY <1>4, <1>7, <3>2, <3>4
      <4>2. x \notin BatchFlagged
        BY <3>1, <3>4, <4>1 DEF HostKnownOnly
      <4>. QED BY <1>t, <3>2, <4>1, <4>2, FindingPaths
    <3>. QED BY <3>3, <3>4
  <2>3. \A x \in AnyTx : shown'[x].ver <= pass'[t].ver
    BY <1>5, <1>7
  <2>4. pass'[t].batch = [x \in HostKnownOnly(BatchFlagged)' |-> BatchVerdict(x)']
    BY <1>4, <1>5, <2>1
  <2>5. \A x \in pass'[t].online \cup DOMAIN pass'[t].batch : shown'[x].verdict = CurrentFinding(x)'
    BY <1>5, <2>1, <2>2 DEF D
  <2>. QED BY <1>4, <1>5, <2>1, <2>3, <2>4, <2>5 DEF Advances, AnyTx, Retracting
<1>11. Midway(t) /\ Midway(t)'
  BY <1>1, <1>5 DEF Midway
<1>. QED BY <1>1, <1>5, <1>8, <1>9, <1>10, <1>11, AloneStep DEF PublishInv

\* The label path adds the labelled transactions neither copy has.
LEMMA PublishLabelsKeeps ==
  ASSUME PublishInv, NEW t \in PassThread, PublishLabels(t)
  PROVE  PublishInv'
<1>t. PublishTypes /\ OnlyKnown
  BY DEF PublishInv
<1>. DEFINE p == pass[t]
            fresh == FreshlyLabelled(p)
            L == fresh \cup (Labelled("malicious") \cap (p.online \cup DOMAIN p.batch))
            rows == [x \in fresh |-> "malicious"]
<1>1. /\ p.at = "labels" /\ UNCHANGED <<host, fit, frozen, classified, tag, calm, budget>>
      /\ pass' = [pass EXCEPT ![t].at = "retract", ![t].labels = L]
      /\ shown' = Upserted(rows, p.ver)
  BY DEF PublishLabels
<1>2. /\ fresh \subseteq host /\ fresh \subseteq AnyTx /\ L = Labelled("malicious") \cap host
      /\ L \subseteq AnyTx /\ DOMAIN rows = fresh
      /\ L \subseteq fresh \cup p.online \cup DOMAIN p.batch
  BY <1>t DEF FreshlyLabelled, HostKnownOnly, OnlyKnown, Labelled
<1>3. pass \in [PassThread -> PassRecord]
  BY <1>t DEF PublishTypes
<1>4. calm = "pass" =>
        /\ \A x \in AnyTx : shown[x].ver <= p.ver
        /\ p.online = HostKnownOnly(OnlineFlagged)
        /\ p.batch = [x \in HostKnownOnly(BatchFlagged) |-> BatchVerdict(x)]
        /\ \A x \in p.online \cup DOMAIN p.batch : shown[x].verdict = CurrentFinding(x)
  BY <1>1 DEF PublishInv, Advancing, Advances, Midway, Retracting
<1>5. \A x \in AnyTx \cap DOMAIN rows : rows[x] = "malicious"
  OBVIOUS
<1>. HIDE DEF fresh, L, rows
<1>6. /\ pass'[t].at = "retract" /\ pass'[t].ver = p.ver /\ pass'[t].online = p.online
      /\ pass'[t].batch = p.batch /\ pass'[t].labels = L
      /\ \A u \in PassThread \ {t} : pass'[u] = pass[u]
  BY <1>1, <1>3 DEF PassRecord
<1>7. pass' \in [PassThread -> PassRecord]
  <2>1. L \in SUBSET AnyTx
    BY <1>2
  <2>2. pass' = [pass EXCEPT ![t].at = "retract", ![t].labels = L]
    BY <1>1
  <2>. QED BY <1>3, <2>1, <2>2, ZenonT(90) DEF PassRecord, PassStage
<1>8. /\ shown' \in [AnyTx -> [ver : Nat, verdict : {"normal", "malicious", "anomaly"}]]
      /\ \A x \in AnyTx : shown'[x] = shown[x] \/ x \in fresh
      /\ calm = "pass" =>
           /\ \A x \in AnyTx : shown'[x].ver <= p.ver
           /\ \A x \in AnyTx : x \in fresh => shown'[x].verdict = rows[x]
           /\ \A x \in AnyTx : x \notin fresh => shown'[x] = shown[x]
  <2>1. p.ver \in Nat
    BY <1>3 DEF PassRecord
  <2>2. \A x \in AnyTx \cap DOMAIN rows : rows[x] \in {"normal", "malicious", "anomaly"}
    BY <1>5
  <2>. HIDE DEF p
  <2>. QED BY <1>t, <1>1, <1>2, <1>4, <2>1, <2>2, InsertedRows
<1>9. PublishTypes'
  BY <1>t, <1>1, <1>7, <1>8 DEF PublishTypes, AnyTx
<1>10. OnlyKnown'
  <2>1. \A x \in AnyTx : shown'[x].verdict \in Positive => x \in host
    BY <1>t, <1>2, <1>8 DEF OnlyKnown
  <2>2. \A u \in PassThread : pass'[u].online = pass[u].online /\ pass'[u].batch = pass[u].batch
    BY <1>6
  <2>. QED BY <1>t, <1>1, <2>1, <2>2 DEF OnlyKnown, AnyTx
<1>11. calm = "pass" => Advances(t)'
  <2>. SUFFICES ASSUME calm = "pass" PROVE Advances(t)'
    OBVIOUS
  <2>1. /\ HostKnownOnly(OnlineFlagged)' = HostKnownOnly(OnlineFlagged)
        /\ HostKnownOnly(BatchFlagged)' = HostKnownOnly(BatchFlagged)
        /\ Labelled("malicious")' = Labelled("malicious")
        /\ \A x : BatchVerdict(x)' = BatchVerdict(x) /\ CurrentFinding(x)' = CurrentFinding(x)
    BY <1>1, ViewKept
  <2>2. ASSUME NEW x \in p.online \cup DOMAIN p.batch \cup L PROVE shown'[x].verdict = CurrentFinding(x)
    <3>1. x \in AnyTx
      <4>1. p.online \subseteq AnyTx
        BY <1>3 DEF PassRecord
      <4>2. DOMAIN p.batch = HostKnownOnly(BatchFlagged)
        BY <1>4
      <4>3. DOMAIN p.batch \subseteq AnyTx
        BY <4>2 DEF HostKnownOnly, BatchFlagged
      <4>. QED BY <1>2, <4>1, <4>3
    <3>2. CASE x \in fresh
      <4>1. x \in Labelled("malicious") \cap host
        BY <3>2, <1>2 DEF L
      <4>2. shown'[x].verdict = "malicious"
        BY <1>2, <1>5, <1>8, <3>1, <3>2
      <4>. QED BY <1>t, <3>1, <4>1, <4>2, FindingPaths
    <3>3. CASE x \notin fresh
      <4>1. x \in p.online \cup DOMAIN p.batch
        BY <1>2, <3>3
      <4>. QED BY <1>4, <1>8, <3>1, <3>3, <4>1
    <3>. QED BY <3>2, <3>3
  <2>3. \A x \in AnyTx : shown'[x].ver <= pass'[t].ver
    BY <1>6, <1>8
  <2>4. pass'[t].batch = [x \in HostKnownOnly(BatchFlagged)' |-> BatchVerdict(x)']
    BY <1>4, <1>6, <2>1
  <2>5. \A x \in pass'[t].online \cup DOMAIN pass'[t].batch \cup pass'[t].labels :
          shown'[x].verdict = CurrentFinding(x)'
    BY <1>6, <2>1, <2>2
  <2>6. pass'[t].labels = Labelled("malicious")' \cap host'
    BY <1>1, <1>2, <1>6, <2>1
  <2>. QED BY <1>4, <1>6, <2>1, <2>3, <2>4, <2>5, <2>6 DEF Advances, AnyTx, Retracting
<1>12. Midway(t) /\ Midway(t)'
  BY <1>1, <1>6 DEF Midway
<1>. QED BY <1>1, <1>6, <1>9, <1>10, <1>11, <1>12, AloneStep DEF PublishInv

\* A thread between two passes carries nothing.
LEMMA RestingTyped ==
  /\ Resting \in PassRecord /\ Resting.at = "idle" /\ Resting.online = {}
  /\ DOMAIN Resting.batch = {}
<1>1. [x \in {} |-> "none"] \in [{} -> Positive]
  OBVIOUS
<1>2. [x \in {} |-> "none"] \in UNION {[D -> Positive] : D \in SUBSET AnyTx}
  BY <1>1
<1>. QED BY <1>2 DEF Resting, PassRecord, PassStage

\* What a pass that retracts and is alone knows.
LEMMA RetractKnows ==
  ASSUME PublishInv, NEW t \in PassThread, pass[t].at \in Retracting, calm = "pass"
  PROVE  /\ \A x \in AnyTx : shown[x].ver <= pass[t].ver
         /\ pass[t].online = HostKnownOnly(OnlineFlagged)
         /\ pass[t].batch = [x \in HostKnownOnly(BatchFlagged) |-> BatchVerdict(x)]
         /\ pass[t].labels = Labelled("malicious") \cap host
         /\ \A x \in KeepRows(pass[t]) : shown[x].verdict = CurrentFinding(x)
         /\ pass[t].at = "window" => pass[t].stale = StaleRows(pass[t])
         /\ pass[t].at = "tombstone" => pass[t].stale = StaleRows(pass[t]) \cap Windowed
<1>1. Advances(t)
  BY DEF PublishInv, Advancing, Midway, Retracting
<1>. QED BY <1>1 DEF Advances, KeepRows

\* The end of a pass that left what it kept and took down what it did not keep, inside
\* the window: what is shown are the current findings.
LEMMA PassEndKeeps ==
  ASSUME PublishInv, NEW t \in PassThread, pass[t].at \in Retracting, PassEnds(t),
         UNCHANGED <<host, fit, frozen, classified, tag>>,
         shown' \in [AnyTx -> [ver : Nat, verdict : {"normal", "malicious", "anomaly"}]],
         \A x \in AnyTx : shown'[x] = shown[x] \/ shown'[x].verdict = "normal",
         calm = "pass" =>
           \A x \in AnyTx : IF x \in KeepRows(pass[t]) THEN shown'[x] = shown[x]
                            ELSE x \in Windowed => shown'[x].verdict \notin Positive
  PROVE  PublishInv'
<1>t. PublishTypes /\ OnlyKnown
  BY DEF PublishInv
<1>1. pass' = [pass EXCEPT ![t] = Resting] /\ calm' = IF calm = "pass" THEN "settled" ELSE "no"
  BY DEF PassEnds
<1>2. pass \in [PassThread -> PassRecord]
  BY <1>t DEF PublishTypes
<1>3. /\ pass'[t] = Resting /\ \A u \in PassThread \ {t} : pass'[u] = pass[u]
      /\ pass' \in [PassThread -> PassRecord]
  BY <1>1, <1>2, RestingTyped
<1>4. PublishTypes'
  BY <1>t, <1>1, <1>3 DEF PublishTypes, AnyTx
<1>5. OnlyKnown'
  <2>1. \A x \in AnyTx : shown'[x].verdict \in Positive => x \in host
    BY <1>t DEF OnlyKnown, Positive
  <2>2. \A u \in PassThread : pass'[u].online \subseteq host /\ DOMAIN pass'[u].batch \subseteq host
    BY <1>t, <1>3, RestingTyped DEF OnlyKnown
  <2>. QED BY <2>1, <2>2 DEF OnlyKnown, AnyTx
<1>6. Alone' /\ Advancing'
  <2>1. calm' # "pass"
    BY <1>1
  <2>2. calm = "pass" => \A u \in PassThread : ~Midway(u)'
    BY <1>3, RestingTyped DEF PublishInv, Alone, Midway, Retracting
  <2>. QED BY <1>1, <2>1, <2>2 DEF Alone, Advancing
<1>7. PassReconciles'
  <2>. SUFFICES ASSUME calm = "pass", NEW x \in AnyTx
                PROVE  /\ x \in Windowed' => Surfaced(x)' = CurrentFinding(x)'
                       /\ CurrentFinding(x)' # "none" => Surfaced(x)' = CurrentFinding(x)'
    BY <1>1 DEF PassReconciles, AnyTx
  <2>1. CurrentFinding(x)' = CurrentFinding(x) /\ Windowed' = Windowed
    BY ViewKept
  <2>2. CurrentFinding(x) # "none" => x \in KeepRows(pass[t])
    <3>1. /\ pass[t].online = HostKnownOnly(OnlineFlagged)
          /\ DOMAIN pass[t].batch = HostKnownOnly(BatchFlagged)
          /\ pass[t].labels = Labelled("malicious") \cap host
      BY RetractKnows
    <3>. QED BY <1>t, <3>1, FindingPaths DEF KeepRows
  <2>3. CASE x \in KeepRows(pass[t])
    <3>1. shown'[x].verdict = CurrentFinding(x)
      BY <2>3, RetractKnows
    <3>2. CurrentFinding(x) \in Positive \cup {"none"}
      BY <1>t, FindingPaths
    <3>3. shown'[x].verdict # "none"
      OBVIOUS
    <3>. QED BY <2>1, <3>1, <3>2, <3>3 DEF Surfaced
  <2>4. CASE x \notin KeepRows(pass[t])
    <3>1. CurrentFinding(x) = "none"
      BY <2>2, <2>4
    <3>2. x \in Windowed => shown'[x].verdict \notin Positive
      BY <2>4
    <3>. QED BY <2>1, <3>1, <3>2 DEF Surfaced
  <2>. QED BY <2>3, <2>4
<1>. QED BY <1>4, <1>5, <1>6, <1>7 DEF PublishInv

\* A read of the retraction that goes on carries what there is to take down.
LEMMA RetractGoesOn ==
  ASSUME PublishInv, NEW t \in PassThread, NEW at, NEW stale \in SUBSET AnyTx,
         \/ pass[t].at = "retract" /\ at = "window" /\ stale = StaleRows(pass[t])
         \/ pass[t].at = "window" /\ at = "tombstone" /\ stale = pass[t].stale \cap Windowed,
         pass' = [pass EXCEPT ![t].at = at, ![t].stale = stale],
         UNCHANGED <<host, fit, frozen, classified, tag, shown, calm>>
  PROVE  PublishInv'
<1>t. PublishTypes /\ OnlyKnown
  BY DEF PublishInv
<1>1. pass \in [PassThread -> PassRecord] /\ at \in {"window", "tombstone"}
  BY <1>t DEF PublishTypes
<1>2. /\ pass'[t].at = at /\ pass'[t].ver = pass[t].ver /\ pass'[t].online = pass[t].online
      /\ pass'[t].batch = pass[t].batch /\ pass'[t].labels = pass[t].labels
      /\ pass'[t].stale = stale
      /\ \A u \in PassThread \ {t} : pass'[u] = pass[u]
  BY <1>1 DEF PassRecord
<1>3. pass' \in [PassThread -> PassRecord]
  <2>1. at \in PassStage
    BY <1>1 DEF PassStage
  <2>. QED BY <1>1, <2>1, ZenonT(90) DEF PassRecord
<1>4. PublishTypes'
  BY <1>t, <1>3 DEF PublishTypes, AnyTx
<1>5. OnlyKnown'
  BY <1>t, <1>2 DEF OnlyKnown, AnyTx
<1>6. calm = "pass" => Advances(t)'
  <2>. SUFFICES ASSUME calm = "pass" PROVE Advances(t)'
    OBVIOUS
  <2>1. pass[t].at \in Retracting
    BY DEF Retracting
  <2>2. /\ \A x \in AnyTx : shown[x].ver <= pass[t].ver
        /\ pass[t].online = HostKnownOnly(OnlineFlagged)
        /\ pass[t].batch = [x \in HostKnownOnly(BatchFlagged) |-> BatchVerdict(x)]
        /\ pass[t].labels = Labelled("malicious") \cap host
        /\ \A x \in KeepRows(pass[t]) : shown[x].verdict = CurrentFinding(x)
        /\ at = "window" => stale = StaleRows(pass[t])
        /\ at = "tombstone" => stale = StaleRows(pass[t]) \cap Windowed
    BY <2>1, RetractKnows
  <2>3. /\ HostKnownOnly(OnlineFlagged)' = HostKnownOnly(OnlineFlagged)
        /\ HostKnownOnly(BatchFlagged)' = HostKnownOnly(BatchFlagged)
        /\ Labelled("malicious")' = Labelled("malicious") /\ Windowed' = Windowed
        /\ \A x : BatchVerdict(x)' = BatchVerdict(x) /\ CurrentFinding(x)' = CurrentFinding(x)
    BY ViewKept
  <2>4. StaleRows(pass[t])' = StaleRows(pass[t])
    BY <1>2 DEF StaleRows, KeepRows, AnyTx
  <2>5. pass'[t].batch = [x \in HostKnownOnly(BatchFlagged)' |-> BatchVerdict(x)']
    BY <1>2, <2>2, <2>3
  <2>6. \A x \in pass'[t].online \cup DOMAIN pass'[t].batch \cup pass'[t].labels :
          shown'[x].verdict = CurrentFinding(x)'
    BY <1>2, <2>2, <2>3 DEF KeepRows
  <2>7. \A x \in AnyTx : shown'[x].ver <= pass'[t].ver
    BY <1>2, <2>2
  <2>. QED BY <1>1, <1>2, <2>2, <2>3, <2>4, <2>5, <2>6, <2>7 DEF Advances, AnyTx, Retracting
<1>7. Midway(t) /\ Midway(t)'
  BY <1>1, <1>2 DEF Midway
<1>. QED BY <1>2, <1>4, <1>5, <1>6, <1>7, AloneStep DEF PublishInv

\* The two reads of the retraction go on, or there is nothing to take down.
LEMMA RetractReadsKeep ==
  ASSUME PublishInv, NEW t \in PassThread, SelectStale(t) \/ WindowStale(t)
  PROVE  PublishInv'
<1>t. PublishTypes
  BY DEF PublishInv
<1>1. UNCHANGED <<host, fit, frozen, classified, tag, shown>>
  BY DEF SelectStale, WindowStale
<1>2. CASE PassEnds(t)
  <2>1. /\ pass[t].at \in Retracting
        /\ calm = "pass" => StaleRows(pass[t]) \cap Windowed = {}
    <3>1. CASE SelectStale(t)
      <4>1. pass[t].at = "retract"
        BY <3>1 DEF SelectStale
      <4>2. pass'[t].at # "window"
        BY <1>2, <1>t, RestingTyped DEF PassEnds, PublishTypes
      <4>3. StaleRows(pass[t]) = {}
        BY <1>t, <3>1, <4>2 DEF SelectStale, PublishTypes, PassRecord
      <4>. QED BY <4>1, <4>3 DEF Retracting
    <3>2. CASE WindowStale(t)
      <4>1. pass[t].at = "window" /\ pass[t].at \in Retracting
        BY <3>2 DEF WindowStale, Retracting
      <4>2. pass'[t].at # "tombstone"
        BY <1>2, <1>t, RestingTyped DEF PassEnds, PublishTypes
      <4>3. pass[t].stale \cap Windowed = {}
        BY <1>t, <3>2, <4>2 DEF WindowStale, PublishTypes, PassRecord
      <4>. QED BY <4>1, <4>3, RetractKnows
    <3>. QED BY <3>1, <3>2
  <2>2. ASSUME calm = "pass", NEW x \in AnyTx, x \notin KeepRows(pass[t]), x \in Windowed
        PROVE  shown[x].verdict \notin Positive
    BY <2>1, <2>2 DEF StaleRows
  <2>3. shown' \in [AnyTx -> [ver : Nat, verdict : {"normal", "malicious", "anomaly"}]]
    BY <1>t, <1>1 DEF PublishTypes
  <2>. QED BY <1>1, <1>2, <2>1, <2>2, <2>3, PassEndKeeps
<1>3. CASE ~PassEnds(t)
  <2>1. \E at, stale :
          /\ \/ pass[t].at = "retract" /\ at = "window" /\ stale = StaleRows(pass[t])
             \/ pass[t].at = "window" /\ at = "tombstone" /\ stale = pass[t].stale \cap Windowed
          /\ pass' = [pass EXCEPT ![t].at = at, ![t].stale = stale] /\ calm' = calm
    BY <1>3 DEF SelectStale, WindowStale
  <2>2. PICK at, stale :
          /\ \/ pass[t].at = "retract" /\ at = "window" /\ stale = StaleRows(pass[t])
             \/ pass[t].at = "window" /\ at = "tombstone" /\ stale = pass[t].stale \cap Windowed
          /\ pass' = [pass EXCEPT ![t].at = at, ![t].stale = stale] /\ calm' = calm
    BY <2>1
  <2>3. stale \in SUBSET AnyTx
    BY <1>t, <2>2 DEF StaleRows, PublishTypes, PassRecord
  <2>. QED BY <1>1, <2>2, <2>3, RetractGoesOn
<1>. QED BY <1>2, <1>3

\* The tombstones end a pass.
LEMMA InsertTombstonesKeeps ==
  ASSUME PublishInv, NEW t \in PassThread, InsertTombstones(t)
  PROVE  PublishInv'
<1>t. PublishTypes
  BY DEF PublishInv
<1>. DEFINE stale == pass[t].stale
            rows == [x \in stale |-> "normal"]
<1>1. /\ pass[t].at = "tombstone" /\ pass[t].at \in Retracting /\ PassEnds(t)
      /\ UNCHANGED <<host, fit, frozen, classified, tag>> /\ shown' = Upserted(rows, pass[t].ver)
  BY DEF InsertTombstones, Retracting
<1>2. DOMAIN rows = stale /\ \A x \in AnyTx \cap DOMAIN rows : rows[x] = "normal"
  OBVIOUS
<1>3. calm = "pass" =>
        /\ \A x \in AnyTx : shown[x].ver <= pass[t].ver
        /\ \A x \in AnyTx : x \in stale <=> shown[x].verdict \in Positive /\ x \notin KeepRows(pass[t])
                                             /\ x \in Windowed
  BY <1>1, RetractKnows DEF StaleRows
<1>. HIDE DEF stale, rows
<1>4. /\ shown' \in [AnyTx -> [ver : Nat, verdict : {"normal", "malicious", "anomaly"}]]
      /\ \A x \in AnyTx : shown'[x] = shown[x] \/ shown'[x].verdict = "normal"
      /\ calm = "pass" => \A x \in AnyTx : IF x \in stale THEN shown'[x].verdict = "normal"
                                           ELSE shown'[x] = shown[x]
  <2>1. pass[t].ver \in Nat
    BY <1>t DEF PublishTypes, PassRecord
  <2>2. \A x \in AnyTx \cap DOMAIN rows : rows[x] \in {"normal", "malicious", "anomaly"}
    BY <1>2
  <2>. QED BY <1>t, <1>1, <1>2, <1>3, <2>1, <2>2, InsertedRows
<1>5. calm = "pass" =>
        \A x \in AnyTx : IF x \in KeepRows(pass[t]) THEN shown'[x] = shown[x]
                         ELSE x \in Windowed => shown'[x].verdict \notin Positive
  BY <1>3, <1>4 DEF Positive
<1>. QED BY <1>1, <1>4, <1>5, PassEndKeeps

\* A pass begins with a version above all that is shown.
LEMMA TakeVersionKeeps ==
  ASSUME PublishInv, NEW t \in PassThread, TakeVersion(t)
  PROVE  PublishInv'
<1>t. PublishTypes /\ OnlyKnown
  BY DEF PublishInv
<1>1. PICK now \in 0..MaxClock :
        pass' = [pass EXCEPT ![t] = [Resting EXCEPT !.at = "select", !.ver = ReconciliationVersion(now)]]
  BY DEF TakeVersion
<1>2. /\ pass[t].at = "version" /\ UNCHANGED <<host, fit, frozen, classified, tag, shown, budget>>
      /\ calm' = IF \A u \in Others(t) : pass[u].at = "idle" \/ pass[u].at = "version"
                 THEN "pass" ELSE "no"
  BY DEF TakeVersion
<1>. DEFINE v == ReconciliationVersion(now)
            q == [Resting EXCEPT !.at = "select", !.ver = v]
<1>3. v \in Nat /\ \A x \in AnyTx : shown[x].ver < v /\ shown[x].ver \in Nat
  <2>1. now \in Nat
    BY PublishAssumption
  <2>2. \A x \in AnyTx : shown[x].ver \in Nat
    BY <1>t DEF PublishTypes
  <2>. QED BY <1>t, <2>1, <2>2, NewestVersion
<1>. HIDE DEF v
<1>4. /\ q \in PassRecord /\ q.at = "select" /\ q.ver = v /\ q.online = {} /\ DOMAIN q.batch = {}
  BY <1>3, RestingTyped DEF PassRecord, PassStage
<1>5. pass' = [pass EXCEPT ![t] = q]
  BY <1>1 DEF v
<1>. HIDE DEF q
<1>6. /\ pass'[t] = q /\ \A u \in PassThread \ {t} : pass'[u] = pass[u]
      /\ pass' \in [PassThread -> PassRecord]
  BY <1>t, <1>4, <1>5 DEF PublishTypes
<1>7. PublishTypes'
  BY <1>t, <1>2, <1>6 DEF PublishTypes, AnyTx
<1>8. OnlyKnown'
  <2>1. \A u \in PassThread : pass'[u].online \subseteq host /\ DOMAIN pass'[u].batch \subseteq host
    BY <1>t, <1>4, <1>6 DEF OnlyKnown
  <2>. QED BY <1>t, <1>2, <2>1 DEF OnlyKnown, AnyTx
<1>9. CASE calm' = "no"
  BY <1>7, <1>8, <1>9, CalmBroken DEF PublishInv
<1>10. CASE calm' = "pass"
  <2>1. \A u \in PassThread : Midway(u)' => u = t
    BY <1>2, <1>6, <1>10 DEF Midway, Others
  <2>2. Advances(t)'
    <3>1. \A x \in AnyTx : shown'[x].ver <= pass'[t].ver
      BY <1>2, <1>3, <1>4, <1>6
    <3>. QED BY <1>4, <1>6, <3>1 DEF Advances, AnyTx, Retracting
  <2>3. Alone' /\ Advancing' /\ PassReconciles'
    BY <1>10, <2>1, <2>2 DEF Alone, Advancing, PassReconciles
  <2>. QED BY <1>7, <1>8, <2>3 DEF PublishInv
<1>. QED BY <1>2, <1>9, <1>10

\* A thread that only moves to another stage carries what it carried.
LEMMA StageMoves ==
  ASSUME PublishTypes, NEW t \in PassThread, NEW s \in PassStage,
         pass' = [pass EXCEPT ![t].at = s]
  PROVE  /\ pass' \in [PassThread -> PassRecord]
         /\ \A u \in PassThread : pass'[u].online = pass[u].online /\ pass'[u].batch = pass[u].batch
<1>1. pass \in [PassThread -> PassRecord]
  BY DEF PublishTypes
<1>. QED BY <1>1 DEF PassRecord

\* A label call rewrites labels and nothing else before its pass.
LEMMA RetaggedKeeps ==
  ASSUME PublishInv, NEW S, NEW l \in {"none", "malicious", "benign"},
         NEW source \in {"none", "cluster", "manual_tx"}, Retagged(S, l, source)
  PROVE  PublishInv'
<1>t. PublishTypes /\ OnlyKnown
  BY DEF PublishInv
<1>1. /\ pass' = [pass EXCEPT !["api"].at = "version"] /\ calm' = "no"
      /\ UNCHANGED <<host, fit, frozen, classified, shown>>
      /\ tag' = [x \in AnyTx |-> IF x \in S THEN [label |-> l, source |-> source] ELSE tag[x]]
  BY DEF Retagged
<1>2. /\ pass' \in [PassThread -> PassRecord]
      /\ \A u \in PassThread : pass'[u].online = pass[u].online /\ pass'[u].batch = pass[u].batch
  <2>1. "api" \in PassThread /\ "version" \in PassStage
    BY DEF PassThread, PassStage
  <2>. QED BY <1>t, <1>1, <2>1, StageMoves
<1>3. tag' \in [AnyTx -> [label : {"none", "malicious", "benign"},
                          source : {"none", "cluster", "manual_tx"}]]
  BY <1>t, <1>1 DEF PublishTypes
<1>4. PublishTypes'
  BY <1>t, <1>1, <1>2, <1>3 DEF PublishTypes, AnyTx
<1>5. OnlyKnown'
  BY <1>t, <1>1, <1>2 DEF OnlyKnown, AnyTx
<1>. QED BY <1>1, <1>4, <1>5, CalmBroken DEF PublishInv

\* The fit and the classification change what the next pass will find, not what is shown.
LEMMA WorkerKeeps ==
  ASSUME PublishInv, FitClusters \/ DetectRun \/ DetectScores \/ ClassifyNew
  PROVE  PublishInv'
<1>t. PublishTypes /\ OnlyKnown
  BY DEF PublishInv
<1>1. calm' = "no" /\ UNCHANGED <<host, tag, shown>>
  BY DEF FitClusters, DetectRun, DetectScores, ClassifyNew
<1>2. \E s \in {"votes", "scores", "version"} : pass' = [pass EXCEPT !["worker"].at = s]
  BY DEF FitClusters, DetectRun, DetectScores, ClassifyNew
<1>3. /\ pass' \in [PassThread -> PassRecord]
      /\ \A u \in PassThread : pass'[u].online = pass[u].online /\ pass'[u].batch = pass[u].batch
  <2>1. PICK s \in {"votes", "scores", "version"} : pass' = [pass EXCEPT !["worker"].at = s]
    BY <1>2
  <2>2. "worker" \in PassThread /\ s \in PassStage
    BY DEF PassThread, PassStage
  <2>. QED BY <1>t, <2>1, <2>2, StageMoves
<1>4. OnlyKnown'
  BY <1>t, <1>1, <1>3 DEF OnlyKnown, AnyTx
<1>. DEFINE Fits == [of : [AnyTx -> {"out", "noise", "cluster"}], votes : SUBSET AnyTx, run : Nat]
            Models == [run : Nat, verdict : {"none", "malicious", "benign"}]
            Rows == [AnyTx -> [run : Nat, verdict : {"normal", "anomaly", "malicious", "benign"}]]
<1>5. fit \in Fits /\ frozen \in Models /\ classified \in Rows
  BY <1>t DEF PublishTypes
<1>6. fit' \in Fits /\ frozen' \in Models /\ classified' \in Rows
  <2>1. CASE FitClusters
    <3>1. /\ UNCHANGED <<frozen, classified>>
          /\ \E C \in SUBSET Windowed :
               fit' = [of |-> [x \in AnyTx |-> IF x \notin Windowed THEN "out"
                                               ELSE IF x \in C THEN "cluster" ELSE "noise"],
                       votes |-> fit.votes, run |-> fit.run + 1]
      BY <2>1 DEF FitClusters
    <3>. HIDE DEF Models, Rows
    <3>. QED BY <1>5, <3>1
  <2>2. CASE DetectRun
    <3>1. fit' = [fit EXCEPT !.votes = {}] /\ UNCHANGED <<frozen, classified>>
      BY <2>2 DEF DetectRun
    <3>. HIDE DEF Models, Rows
    <3>. QED BY <1>5, <3>1
  <2>3. CASE DetectScores
    <3>1. /\ UNCHANGED <<frozen, classified>>
          /\ \E V \in SUBSET {x \in AnyTx : fit.of[x] # "out"} : fit' = [fit EXCEPT !.votes = V]
      BY <2>3 DEF DetectScores
    <3>. HIDE DEF Models, Rows
    <3>. QED BY <1>5, <3>1
  <2>4. CASE ClassifyNew
    <3>. DEFINE mo == ShapeModel
                new == Unclassified(mo)
    <3>1. /\ fit' = fit /\ frozen' = mo
          /\ \E v \in [new -> OnlineVerdicts(mo)] :
               classified' = [x \in AnyTx |-> IF x \in new THEN [run |-> mo.run, verdict |-> v[x]]
                                              ELSE classified[x]]
      BY <2>4 DEF ClassifyNew
    <3>2. mo \in Models
      <4>1. DominantVerdict \in {"malicious", "benign", "none"}
        BY DEF DominantVerdict
      <4>. QED BY <1>5, <4>1 DEF ShapeModel
    <3>. HIDE DEF mo, new
    <3>3. OnlineVerdicts(mo) \subseteq {"normal", "anomaly", "malicious", "benign"}
      BY <3>2 DEF OnlineVerdicts
    <3>4. PICK v \in [new -> OnlineVerdicts(mo)] :
            classified' = [x \in AnyTx |-> IF x \in new THEN [run |-> mo.run, verdict |-> v[x]]
                                           ELSE classified[x]]
      BY <3>1
    <3>5. \A x \in new : v[x] \in {"normal", "anomaly", "malicious", "benign"}
      BY <3>3
    <3>6. classified' \in Rows
      BY <1>5, <3>2, <3>4, <3>5
    <3>. HIDE DEF Models, Rows, Fits
    <3>. QED BY <1>5, <3>1, <3>2, <3>6
  <2>. QED BY <2>1, <2>2, <2>3, <2>4
<1>7. PublishTypes'
  BY <1>t, <1>1, <1>3, <1>6 DEF PublishTypes, AnyTx
<1>. QED BY <1>1, <1>4, <1>7, CalmBroken DEF PublishInv

\* The projection stays right through every step of both threads, of the label calls,
\* of the worker's jobs and of the host's ingest.
LEMMA PublishInductive == PublishInv /\ [PublishNext]_publishVars => PublishInv'
<1>. SUFFICES ASSUME PublishInv, [PublishNext]_publishVars PROVE PublishInv'
  OBVIOUS
<1>t. PublishTypes /\ OnlyKnown
  BY DEF PublishInv
<1>1. ASSUME NEW t \in PassThread, PassStep(t) PROVE PublishInv'
  <2>1. CASE PassFails(t)
    <3>1. pass' = [pass EXCEPT ![t] = Resting] /\ calm' = "no"
          /\ UNCHANGED <<host, fit, frozen, classified, tag, shown>>
      BY <2>1 DEF PassFails
    <3>2. /\ pass'[t] = Resting /\ \A u \in PassThread \ {t} : pass'[u] = pass[u]
          /\ pass' \in [PassThread -> PassRecord]
      BY <1>t, <3>1, RestingTyped DEF PublishTypes
    <3>3. PublishTypes'
      BY <1>t, <3>1, <3>2 DEF PublishTypes, AnyTx
    <3>4. \A u \in PassThread : pass'[u].online \subseteq host /\ DOMAIN pass'[u].batch \subseteq host
      BY <1>t, <3>2, RestingTyped DEF OnlyKnown
    <3>5. OnlyKnown'
      BY <1>t, <3>1, <3>4 DEF OnlyKnown, AnyTx
    <3>. QED BY <3>1, <3>3, <3>5, CalmBroken DEF PublishInv
  <2>. QED BY <1>1, <2>1, TakeVersionKeeps, SelectOnlineKeeps, InsertOnlineKeeps, SelectBatchKeeps,
              InsertBatchKeeps, PublishLabelsKeeps, RetractReadsKeep, InsertTombstonesKeeps
           DEF PassStep
<1>2. CASE LabelClusterMembers \/ ClearClusterMembers \/ LabelTransaction \/ ClearTransactionLabel
  <2>1. \E S, l, source : /\ l \in {"none", "malicious", "benign"} /\ source \in {"none", "cluster", "manual_tx"}
                          /\ Retagged(S, l, source)
    <3>1. CASE LabelClusterMembers
      BY <3>1 DEF LabelClusterMembers
    <3>2. CASE ClearClusterMembers
      BY <3>2 DEF ClearClusterMembers
    <3>3. CASE LabelTransaction
      BY <3>3 DEF LabelTransaction
    <3>4. CASE ClearTransactionLabel
      BY <3>4 DEF ClearTransactionLabel
    <3>. QED BY <1>2, <3>1, <3>2, <3>3, <3>4
  <2>. QED BY <2>1, RetaggedKeeps
<1>3. CASE FitClusters \/ DetectRun \/ DetectScores \/ ClassifyNew
  BY <1>3, WorkerKeeps
<1>4. CASE HostIngests
  <2>1. host \subseteq host' /\ host' \subseteq AnyTx /\ calm' = "no"
        /\ UNCHANGED <<fit, frozen, classified, tag, shown, pass, budget>>
    BY <1>4, <1>t DEF HostIngests, PublishTypes
  <2>2. PublishTypes'
    BY <1>t, <2>1 DEF PublishTypes, AnyTx
  <2>3. OnlyKnown'
    BY <1>t, <2>1 DEF OnlyKnown, AnyTx
  <2>. QED BY <2>1, <2>2, <2>3, CalmBroken DEF PublishInv
<1>5. CASE UNCHANGED publishVars
  <2>1. UNCHANGED <<host, fit, frozen, classified, tag, shown, pass, calm>>
    BY <1>5 DEF publishVars
  <2>2. PublishTypes' /\ OnlyKnown'
    BY <1>t, <2>1 DEF PublishTypes, OnlyKnown, AnyTx
  <2>3. Alone' /\ \A t : Midway(t)' = Midway(t)
    BY <2>1 DEF PublishInv, Alone, Midway
  <2>4. PassReconciles' /\ Advancing'
    <3>1. /\ \A x : CurrentFinding(x)' = CurrentFinding(x) /\ Surfaced(x)' = Surfaced(x)
          /\ Windowed' = Windowed
      BY <2>1, ViewKept DEF Surfaced
    <3>2. PassReconciles'
      BY <2>1, <3>1 DEF PublishInv, PassReconciles, AnyTx
    <3>3. ASSUME NEW t \in PassThread, Advances(t) PROVE Advances(t)'
      <4>1. /\ HostKnownOnly(OnlineFlagged)' = HostKnownOnly(OnlineFlagged)
            /\ HostKnownOnly(BatchFlagged)' = HostKnownOnly(BatchFlagged)
            /\ Labelled("malicious")' = Labelled("malicious")
            /\ \A x : BatchVerdict(x)' = BatchVerdict(x)
            /\ \A x : OnlineVerdict(x)' = OnlineVerdict(x)
        BY <2>1, ViewKept
      <4>2. StaleRows(pass[t])' = StaleRows(pass[t])
        BY <2>1 DEF StaleRows, KeepRows, AnyTx
      <4>. QED BY <2>1, <3>1, <3>3, <4>1, <4>2 DEF Advances, AnyTx, Retracting
    <3>4. Advancing'
      BY <2>1, <2>3, <3>3 DEF PublishInv, Advancing
    <3>. QED BY <3>2, <3>4
  <2>. QED BY <2>2, <2>3, <2>4 DEF PublishInv
<1>. QED BY <1>1, <1>2, <1>3, <1>4, <1>5 DEF PublishNext

\* A contract starts with nothing shown and no pass under way.
LEMMA PublishInitially == PublishInit(TRUE) => PublishInv
<1>. SUFFICES ASSUME PublishInit(TRUE) PROVE PublishInv
  OBVIOUS
<1>1. pass = [t \in PassThread |-> Resting] /\ calm = "no" /\ host = FirstHost
  BY DEF PublishInit
<1>2. PublishTypes
  <2>1. pass \in [PassThread -> PassRecord]
    BY <1>1, RestingTyped
  <2>2. host \subseteq AnyTx
    BY <1>1, PublishAssumption DEF AnyTx
  <2>3. fit \in [of : [AnyTx -> {"out", "noise", "cluster"}], votes : SUBSET AnyTx, run : Nat]
    BY DEF PublishInit
  <2>4. frozen \in [run : Nat, verdict : {"none", "malicious", "benign"}]
    BY DEF PublishInit
  <2>5. classified \in [AnyTx -> [run : Nat, verdict : {"normal", "anomaly", "malicious", "benign"}]]
    BY DEF PublishInit
  <2>6. tag \in [AnyTx -> [label : {"none", "malicious", "benign"},
                           source : {"none", "cluster", "manual_tx"}]]
    BY DEF PublishInit, NoTag
  <2>7. shown \in [AnyTx -> [ver : Nat, verdict : {"normal", "malicious", "anomaly"}]]
    BY DEF PublishInit
  <2>. QED BY <1>1, <2>1, <2>2, <2>3, <2>4, <2>5, <2>6, <2>7 DEF PublishTypes
<1>3. OnlyKnown
  <2>1. \A x \in AnyTx : shown[x].verdict = "normal"
    BY DEF PublishInit
  <2>. QED BY <1>1, <2>1, RestingTyped DEF OnlyKnown, Positive
<1>. QED BY <1>1, <1>2, <1>3 DEF PublishInv, Alone, Advancing, PassReconciles

\* The invariant gives the projection its properties.
LEMMA PublishInvSound == PublishInv => ProjectionRight
<1>. SUFFICES ASSUME PublishInv PROVE ProjectionRight
  OBVIOUS
<1>1. PublishTypes /\ OnlyKnown /\ PassReconciles
  BY DEF PublishInv
<1>2. HostNeverShownUnknown
  BY <1>1 DEF HostNeverShownUnknown, Surfaced, OnlyKnown
<1>3. \A t \in PassThread : KeepRows(pass[t]) \subseteq AnyTx
  <2>. TAKE t \in PassThread
  <2>1. pass[t] \in PassRecord
    BY <1>1 DEF PublishTypes
  <2>2. pass[t].online \subseteq AnyTx /\ pass[t].labels \subseteq AnyTx
        /\ pass[t].batch \in UNION {[D -> Positive] : D \in SUBSET AnyTx}
    BY <2>1 DEF PassRecord
  <2>3. DOMAIN pass[t].batch \subseteq AnyTx
    BY <2>2
  <2>. QED BY <2>2, <2>3 DEF KeepRows
<1>4. PublishTypeOK
  BY <1>1, <1>3 DEF PublishTypeOK, PublishTypes
<1>. QED BY <1>1, <1>2, <1>4 DEF ProjectionRight

\* Whatever number of transactions, passes, faults and clock readings: a pass that ran
\* by itself leaves the host exactly the current findings (publish_contract_anomaly),
\* and the host is never shown a transaction it does not have (_host_known_only).
THEOREM ProjectionIsRight == PublishSpec => []ProjectionRight
<1>1. PublishInit(TRUE) => PublishInv
  BY PublishInitially
<1>. QED BY <1>1, PublishInductive, PublishInvSound, PTL DEF PublishSpec
=============================================================================
