-------------------------------- MODULE Auth --------------------------------
(***************************************************************************)
(* Magic-link sign-in and user administration (auth/tokens.py,             *)
(* auth/sessions.py, auth/deps.py, api/auth.py, api/users.py).  Requests   *)
(* interleave at their database calls; a statement, or a transaction that  *)
(* locks what it reads, is one step.  A token or session that expires is   *)
(* as good as deleted.                                                     *)
(***************************************************************************)
EXTENDS Naturals, FiniteSets

CONSTANTS
  User, Request,   \* ids
  NoOne,           \* no id
  FirstAdmin,      \* the admins the system starts with, each signed in
  FirstLinked,     \* the one of them a link is out for
  Redemptions,     \* MAGIC_LINK_MAX_REDEMPTIONS
  MaxLinks,        \* bound: tokens issued
  MaxLogins,       \* bound: sessions created
  MaxCalls         \* bound: requests made

ASSUME AuthAssumption ==
  /\ FirstAdmin \subseteq User /\ FirstLinked \in FirstAdmin /\ IsFiniteSet(Request)
  /\ NoOne \notin User \cup Request \cup Nat
  /\ {Redemptions, MaxLinks} \subseteq Nat \ {0} /\ {MaxLogins, MaxCalls} \subseteq Nat

VARIABLES
  role, status,    \* users: "none" when there is no such user; nothing in the
                   \* code disables one
  token,           \* magic_link_tokens: [user, purpose, left] of the live ones
  session,         \* user_sessions: [user, from] (created_by_token_hash)
  links, logins,   \* ids taken, in the order of their use
  calls,
  req,             \* requests in flight: [at, actor, user, tok, ses, purpose, verb]
  adminLock,       \* holder of the admin-invariant advisory lock
  minted, before   \* read by properties only: sessions minted from a token; the
                   \* tokens that were issued when the issue of a token began

authVars == <<role, status, token, session, links, logins, calls, req, adminLock,
              minted, before>>

Token == 1..MaxLinks
Idle == [at |-> "idle", actor |-> NoOne, user |-> NoOne, tok |-> NoOne, ses |-> NoOne, purpose |-> "none",
         verb |-> "none"]

AuthInit(on) ==
  /\ role = [u \in User |-> IF u \in FirstAdmin THEN "Admin" ELSE "none"]
  /\ status = [u \in User |-> IF u \in FirstAdmin THEN "active" ELSE "none"]
  /\ token = [t \in {1} |-> [user |-> FirstLinked, purpose |-> "login", left |-> Redemptions]]
  /\ session = [u \in FirstAdmin |-> [user |-> u, from |-> NoOne]]
  /\ links = 1 /\ logins = 0 /\ calls = 0
  /\ req = [r \in Request |-> [Idle EXCEPT !.at = IF on THEN "idle" ELSE "off"]]
  /\ adminLock = NoOne
  /\ minted = [t \in Token |-> 0] /\ before = [t \in Token |-> {}]

Exists(u) == role[u] # "none"
Drop(f, S) == [x \in DOMAIN f \ S |-> f[x]]
Put(f, x, v) == [y \in DOMAIN f \cup {x} |-> IF y = x THEN v ELSE f[y]]
Goes(r, fields) == req' = [req EXCEPT ![r] = fields]
Ends(r) == Goes(r, Idle)
Arrives(r) == req[r].at = "idle" /\ calls < MaxCalls /\ calls' = calls + 1

-----------------------------------------------------------------------------
(* Issuing a link                                                          *)

\* request_link, for an active user; anyone else gets the same answer.
RequestLink(r, u) ==
  /\ Arrives(r)
  /\ status[u] = "active"
  /\ Goes(r, [Idle EXCEPT !.at = "revoke", !.user = u, !.purpose = "login"])
  /\ UNCHANGED <<role, status, token, session, links, logins, adminLock,
                 minted, before>>

\* issue_token revokes the user's outstanding tokens of the purpose.
Revoked(u, purpose) == {t \in DOMAIN token : token[t].user = u /\ token[t].purpose = purpose}

\* The delete and the insert of one transaction: between them another issue for
\* the user can run, which sees neither.
IssueDelete(r) ==
  /\ req[r].at = "revoke"
  /\ links < MaxLinks
  /\ links' = links + 1
  /\ before' = [before EXCEPT ![links'] = DOMAIN token]
  /\ Goes(r, [req[r] EXCEPT !.at = "insert", !.tok = links'])
  /\ token' = Drop(token, Revoked(req[r].user, req[r].purpose))
  /\ UNCHANGED <<role, status, session, logins, calls, adminLock, minted>>

\* A user deleted meanwhile fails the foreign key; the error is logged.
IssueInsert(r) ==
  /\ req[r].at = "insert"
  /\ token' = IF Exists(req[r].user)
              THEN Put(token, req[r].tok, [user |-> req[r].user, purpose |-> req[r].purpose,
                                           left |-> Redemptions])
              ELSE token
  /\ Ends(r)
  /\ UNCHANGED <<role, status, session, links, logins, calls, adminLock, minted, before>>

-----------------------------------------------------------------------------
(* Redeeming it                                                            *)

\* One redemption less; the last one consumes the token.
Consumed(t) ==
  IF token[t].left = 1 THEN Drop(token, {t}) ELSE [token EXCEPT ![t].left = @ - 1]

\* verify: consume_token, then the user is read, then the session is created.
ConsumeToken(r, t) ==
  /\ Arrives(r)
  /\ t \in DOMAIN token
  /\ token' = Consumed(t)
  /\ Goes(r, [Idle EXCEPT !.at = "getUser", !.user = token[t].user, !.tok = t])
  /\ UNCHANGED <<role, status, session, links, logins, adminLock, minted, before>>

GetUser(r) ==
  /\ req[r].at = "getUser"
  /\ IF Exists(req[r].user)
     THEN Goes(r, [req[r] EXCEPT !.at = "create"])
     ELSE Ends(r)
  /\ UNCHANGED <<role, status, token, session, links, logins, calls, adminLock,
                 minted, before>>

\* create_session: the session and the activation of the user.
CreateSession(r) ==
  /\ req[r].at = "create"
  /\ LET u == req[r].user IN
       IF Exists(u)
       THEN /\ logins < MaxLogins
            /\ logins' = logins + 1
            /\ session' = Put(session, logins', [user |-> u, from |-> req[r].tok])
            /\ status' = [status EXCEPT ![u] = IF @ = "pending" THEN "active" ELSE @]
            /\ minted' = [minted EXCEPT ![req[r].tok] = @ + 1]
       ELSE UNCHANGED <<session, logins, status, minted>>
  /\ Ends(r)
  /\ UNCHANGED <<role, token, links, calls, adminLock, before>>

-----------------------------------------------------------------------------
(* Authenticated requests: current_user                                    *)

\* lookup_session and require_admin; what the request is for comes with it.  A
\* read on a session that was claimed before changes nothing and is left out.
LookupSession(r, s, verb, u) ==
  /\ Arrives(r)
  /\ s \in DOMAIN session
  /\ verb = "read" => u = session[s].user /\ session[s].from # NoOne
  /\ verb # "read" => role[session[s].user] = "Admin"
  /\ Goes(r, [at |-> IF session[s].from # NoOne THEN "claim" ELSE "route",
              actor |-> session[s].user, user |-> u, tok |-> session[s].from,
              ses |-> s, purpose |-> "none", verb |-> verb])
  /\ UNCHANGED <<role, status, token, session, links, logins, adminLock,
                 minted, before>>

\* The other sessions of the token that have not claimed themselves.
Siblings(t, s) == {o \in DOMAIN session : session[o].from = t /\ o # s}

\* claim_session_token: delete the siblings, clear the own back-reference.
ClaimSession(r) ==
  /\ req[r].at = "claim"
  /\ LET s == req[r].ses
         kept == Drop(session, Siblings(req[r].tok, s)) IN
       session' = IF s \in DOMAIN kept THEN [kept EXCEPT ![s].from = NoOne] ELSE kept
  /\ Goes(r, [req[r] EXCEPT !.at = "route", !.tok = NoOne])
  /\ UNCHANGED <<role, status, token, links, logins, calls, adminLock, minted, before>>

\* A request that does not administer.
Serve(r) ==
  /\ req[r].at = "route" /\ req[r].verb = "read"
  /\ Ends(r)
  /\ UNCHANGED <<role, status, token, session, links, logins, calls, adminLock, minted, before>>

\* logout drops the session of the cookie without looking it up: nothing is claimed.
Logout(r, s) ==
  /\ Arrives(r)
  /\ session' = Drop(session, {s})
  /\ UNCHANGED <<role, status, token, links, logins, req, adminLock, minted, before>>

-----------------------------------------------------------------------------
(* Administration                                                          *)

\* create_user: a pending user with an invite.
CreateUser(r) ==
  /\ req[r].at = "route"
  /\ req[r].verb = "create"
  /\ LET u == req[r].user IN
       IF Exists(u) THEN Ends(r) /\ UNCHANGED <<role, status>>
       ELSE /\ \E x \in {"Admin", "Reviewer"} : role' = [role EXCEPT ![u] = x]
            /\ status' = [status EXCEPT ![u] = "pending"]
            /\ Goes(r, [Idle EXCEPT !.at = "revoke", !.user = u, !.purpose = "invite"])
  /\ UNCHANGED <<token, session, links, logins, calls, adminLock, minted, before>>

\* resend_invite.
ResendInvite(r) ==
  /\ req[r].at = "route"
  /\ req[r].verb = "resend"
  /\ IF status[req[r].user] = "pending"
     THEN Goes(r, [Idle EXCEPT !.at = "revoke", !.user = req[r].user, !.purpose = "invite"])
     ELSE Ends(r)
  /\ UNCHANGED <<role, status, token, session, links, logins, calls, adminLock,
                 minted, before>>

\* broken: the invariant is checked without the lock
LockTakenNot(r) == UNCHANGED adminLock
\* _lock_admin_invariant waits for the lock.
LockTaken(r) == adminLock = NoOne /\ adminLock' = r

\* update_user and delete_user: not one's own account, then under the lock the
\* count of the other admins that are not disabled.
AdminCheck(r) ==
  /\ req[r].at = "route"
  /\ req[r].verb \in {"demote", "promote", "delete"}
  /\ LET u == req[r].user
         others == {o \in User \ {u} : role[o] = "Admin"} IN
       IF \/ req[r].actor = u
          \/ ~Exists(u)
          \/ role[u] = "Admin" /\ req[r].verb # "promote" /\ others = {}
       THEN Ends(r) /\ UNCHANGED adminLock
       ELSE LockTaken(r) /\ Goes(r, [req[r] EXCEPT !.at = "write"])
  /\ UNCHANGED <<role, status, token, session, links, logins, calls, minted, before>>

AdminWrite(r) ==
  /\ req[r].at = "write"
  /\ LET u == req[r].user IN
       CASE ~Exists(u) -> UNCHANGED <<role, status, token, session>>
         [] Exists(u) /\ req[r].verb = "delete" ->
              /\ role' = [role EXCEPT ![u] = "none"]
              /\ status' = [status EXCEPT ![u] = "none"]
              /\ token' = Drop(token, {t \in DOMAIN token : token[t].user = u})
              /\ session' = Drop(session, {s \in DOMAIN session : session[s].user = u})
         [] OTHER ->
              /\ role' = [role EXCEPT ![u] = IF req[r].verb = "demote" THEN "Reviewer" ELSE "Admin"]
              /\ UNCHANGED <<status, token, session>>
  /\ adminLock' = IF adminLock = r THEN NoOne ELSE adminLock
  /\ Ends(r)
  /\ UNCHANGED <<links, logins, calls, minted, before>>

-----------------------------------------------------------------------------
\* purge_expired_tokens, purge_expired_sessions, or simply the passing of time.
Expire ==
  /\ \E r \in Request : req[r].at # "off"
  /\ \/ \E t \in DOMAIN token : token' = Drop(token, {t}) /\ UNCHANGED session
     \/ \E s \in DOMAIN session : session' = Drop(session, {s}) /\ UNCHANGED token
  /\ UNCHANGED <<role, status, links, logins, calls, req, adminLock, minted, before>>

Verb == {"read", "create", "resend", "demote", "promote", "delete"}

AuthNext ==
  \/ Expire
  \/ \E r \in Request :
       \/ \E u \in User : RequestLink(r, u)
       \/ \E t \in Token : ConsumeToken(r, t)
       \/ \E s \in DOMAIN session, v \in Verb, u \in User : LookupSession(r, s, v, u)
       \/ IssueDelete(r) \/ IssueInsert(r) \/ GetUser(r) \/ CreateSession(r)
       \/ \E s \in DOMAIN session : Logout(r, s)
       \/ ClaimSession(r) \/ Serve(r) \/ CreateUser(r) \/ ResendInvite(r)
       \/ AdminCheck(r) \/ AdminWrite(r)
AuthSpec == AuthInit(TRUE) /\ [][AuthNext]_authVars

-----------------------------------------------------------------------------
\* _assert_admin_remains: however demotions, deletions and promotions of several
\* admins interleave, some of them by admins who have just lost the role, an
\* admin that is not disabled remains.
AdminRemains == \E u \in User : role[u] = "Admin"

\* consume_token: concurrent redemptions of one link never mint more sessions
\* than its budget.
BudgetHeld == \A t \in Token : minted[t] <= Redemptions

\* issue_token: a link that was out when a newer one for the same user and
\* purpose was requested no longer works; two links work side by side only when
\* the requests for them overlapped.
OldLinkRevoked ==
  \A t, n \in DOMAIN token :
    t # n /\ token[t].user = token[n].user /\ token[t].purpose = token[n].purpose
      => t \notin before[n]

\* Sign-in and administration stay safe under racing requests: an admin remains,
\* a link mints no more sessions than it may, and a replaced link is dead.
AuthSound == AdminRemains /\ BudgetHeld /\ OldLinkRevoked
=============================================================================
