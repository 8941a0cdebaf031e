---------------------------- MODULE CloudSession ----------------------------
(***************************************************************************)
(* hikconnect_api.py: the account session of HikConnectClient, shared by   *)
(* all executor threads that call the cloud, and how it is renewed after   *)
(* the cloud has ended it.                                                 *)
(*                                                                         *)
(* The cloud is external: it issues session ids, knows which are valid,    *)
(* and may end them at any time.  Whether a login ends the account's other *)
(* sessions is not visible in the code, so it is a parameter.              *)
(***************************************************************************)
EXTENDS Naturals, FiniteSets

CONSTANTS Threads,
          Kinds,          \* Kinds[t]: the kinds of calls the thread makes: see CallKinds
          MaxSessions,    \* names for session ids; a name nobody holds is reused
          SingleSession,  \* a login ends the sessions issued before
          MaxFaults       \* bound on requests and logins that fail

(* "api": _call, with the sessionId header; "isapi": _call of a form that  *)
(* carries the session id, too; "key": get_control_key, which sends the id *)
(* to the CAS and takes every error for an expired session.                *)
CallKinds == {"api", "isapi", "key"}

ASSUME KindsAssumption == Kinds \in [Threads -> SUBSET CallKinds]
ASSUME MaxSessionsAssumption == MaxSessions \in Nat \ {0}
ASSUME SingleSessionAssumption == SingleSession \in BOOLEAN
ASSUME MaxFaultsAssumption == MaxFaults \in Nat

Sessions == 1..MaxSessions
NoSession == 0
NoThread == "none"
ASSUME NoThreadAssumption == NoThread \notin Threads

VARIABLES
  valid,    \* the sessions the cloud accepts
  sid,      \* _session_id
  header,   \* _session.headers["sessionId"]
  lock,     \* the holder of _auth_lock
  pc,       \* pc[t]: where the thread stands
  kind,     \* kind[t]: the call it makes
  attempt,  \* attempt[t]: its loop variable
  form,     \* form[t]: the session id in the form it has built
  used,     \* used[t]: the session ids in its latest request
  stale,    \* stale[t]: the argument of its latest _relogin
  faults,   \* requests and logins that failed
  split     \* history: the last login to store a session id did not set the header

vars == <<valid, sid, header, lock, pc, kind, attempt, form, used, stale, faults, split>>

(* "retry": about to send again; "composed": the form is built; "sent":    *)
(* request on its way; "denied": refused; "relogin": at _auth_lock;        *)
(* "login" to "sysconf": in login().                                       *)
ThreadStates ==
  {"idle", "retry", "composed", "sent", "denied", "relogin", "login", "header", "sysconf"}

TypeOK ==
  /\ valid \subseteq Sessions
  /\ sid \in Sessions /\ header \in Sessions
  /\ lock \in Threads \cup {NoThread}
  /\ pc \in [Threads -> ThreadStates]
  /\ kind \in [Threads -> CallKinds \cup {"none"}]
  /\ attempt \in [Threads -> {1, 2}]
  /\ form \in [Threads -> Sessions \cup {NoSession}]
  /\ used \in [Threads -> SUBSET Sessions]
  /\ stale \in [Threads -> Sessions \cup {NoSession}]
  /\ faults \in 0..MaxFaults
  /\ split \in BOOLEAN

(* async_setup_entry has logged in.                                        *)
Init ==
  /\ valid = {1} /\ sid = 1 /\ header = 1
  /\ lock = NoThread
  /\ pc = [t \in Threads |-> "idle"]
  /\ kind = [t \in Threads |-> "none"]
  /\ attempt = [t \in Threads |-> 1]
  /\ form = [t \in Threads |-> NoSession]
  /\ used = [t \in Threads |-> {}]
  /\ stale = [t \in Threads |-> NoSession]
  /\ faults = 0 /\ split = FALSE

session == <<sid, header, split>>
call == <<kind, attempt>>

Goto(t, s) == pc' = [pc EXCEPT ![t] = s]
At(t, s) == pc[t] = s

(* The call returned or raised; its local variables are gone.              *)
Ends(t) ==
  /\ Goto(t, "idle")
  /\ kind' = [kind EXCEPT ![t] = "none"]
  /\ attempt' = [attempt EXCEPT ![t] = 1]
  /\ form' = [form EXCEPT ![t] = NoSession]
  /\ used' = [used EXCEPT ![t] = {}]
  /\ stale' = [stale EXCEPT ![t] = NoSession]

-----------------------------------------------------------------------------
(* The loop of _call and of get_control_key                                *)

Send(t, ids) ==
  /\ Goto(t, "sent")
  /\ used' = [used EXCEPT ![t] = ids]
  /\ form' = [form EXCEPT ![t] = NoSession]
  /\ UNCHANGED <<valid, session, lock, attempt, stale, faults>>

(* data_factory() of isapi.                                                *)
Compose(t) ==
  /\ Goto(t, "composed")
  /\ form' = [form EXCEPT ![t] = sid]
  /\ UNCHANGED <<valid, session, lock, attempt, used, stale, faults>>

Request(t, k) ==
  \/ k = "api" /\ Send(t, {header})
  \/ k = "key" /\ Send(t, {sid})
  \/ k = "isapi" /\ Compose(t)

CallStarts(t) ==
  /\ At(t, "idle")
  /\ \E k \in Kinds[t] : Request(t, k) /\ kind' = [kind EXCEPT ![t] = k]

(* The form goes out with the header as it is by now.                      *)
Post(t) == At(t, "composed") /\ Send(t, {form[t], header}) /\ UNCHANGED kind

Resend(t) == At(t, "retry") /\ Request(t, kind[t]) /\ UNCHANGED kind

(* Which of two ids the cloud goes by is its own affair.                   *)
Accepted(t) ==
  /\ At(t, "sent") /\ Ends(t)
  /\ used[t] \cap valid # {}
  /\ UNCHANGED <<valid, session, lock, faults>>

(* A 401, or for a key any error of the CAS.                               *)
Unauthorized(t) == ~(used[t] \subseteq valid) \/ kind[t] = "key"

Denied(t) ==
  /\ At(t, "sent") /\ Goto(t, "denied")
  /\ Unauthorized(t) /\ attempt[t] = 1
  /\ UNCHANGED <<valid, session, lock, call, form, used, stale, faults>>

(* The second time: HikConnectAuthError or HikConnectError.                *)
GiveUp(t) ==
  /\ At(t, "sent") /\ Ends(t)
  /\ Unauthorized(t) /\ attempt[t] = 2
  /\ UNCHANGED <<valid, session, lock, faults>>

(* The request itself fails: no reply, or none in JSON.                    *)
RequestFails(t) ==
  /\ At(t, "sent") /\ Ends(t)
  /\ kind[t] # "key"
  /\ faults < MaxFaults /\ faults' = faults + 1
  /\ UNCHANGED <<valid, session, lock>>

(* self._relogin(self._session_id), read now.                              *)
Notice(t) ==
  /\ At(t, "denied") /\ Goto(t, "relogin")
  /\ stale' = [stale EXCEPT ![t] = sid]
  /\ UNCHANGED <<valid, session, lock, call, form, used, faults>>

-----------------------------------------------------------------------------
(* _relogin and login                                                      *)

Retry(t) == /\ Goto(t, "retry")
            /\ attempt' = [attempt EXCEPT ![t] = 2]
            /\ stale' = [stale EXCEPT ![t] = NoSession]

(* Mutant: _relogin compares the ids the wrong way round.                  *)
AlreadyRenewedInverted(t) ==
  /\ At(t, "relogin") /\ lock = NoThread
  /\ sid = stale[t]
  /\ Retry(t)
  /\ UNCHANGED <<valid, session, lock, kind, form, used, faults>>

(* With the lock: another thread has refreshed the session.                *)
AlreadyRenewed(t) ==
  /\ At(t, "relogin") /\ lock = NoThread
  /\ sid # stale[t]
  /\ Retry(t)
  /\ UNCHANGED <<valid, session, lock, kind, form, used, faults>>

(* Mutant: no _auth_lock.                                                  *)
LoginStartsUnlocked(t) ==
  /\ At(t, "relogin") /\ Goto(t, "login")
  /\ sid = stale[t]
  /\ UNCHANGED <<valid, session, lock, call, form, used, stale, faults>>

LoginStarts(t) ==
  /\ At(t, "relogin") /\ Goto(t, "login")
  /\ lock = NoThread /\ lock' = t
  /\ sid = stale[t]
  /\ UNCHANGED <<valid, session, call, form, used, stale, faults>>

(* The names still in use somewhere.                                       *)
Held == {sid, header} \cup valid \cup UNION {used[t] \cup {form[t], stale[t]} : t \in Threads}

Fresh == CHOOSE s \in Sessions \ Held : TRUE

(* The cloud accepts the password and issues a session of a new name.      *)
Issue ==
  /\ Sessions \ Held # {}
  /\ valid' = (IF SingleSession THEN {} ELSE valid) \cup {Fresh}

LoggedIn(t) ==
  /\ At(t, "login") /\ Goto(t, "header")
  /\ Issue
  /\ sid' = Fresh
  /\ stale' = [stale EXCEPT ![t] = NoSession]
  /\ UNCHANGED <<header, split, lock, call, form, used, faults>>

(* Mutants: login forgets the header; login clears it.                     *)
HeaderForgotten(t) ==
  /\ At(t, "header") /\ Goto(t, "sysconf")
  /\ UNCHANGED <<valid, session, lock, call, form, used, stale, faults>>

HeaderCleared(t) ==
  /\ At(t, "header") /\ Goto(t, "sysconf")
  /\ header' = NoSession
  /\ UNCHANGED <<valid, sid, split, lock, call, form, used, stale, faults>>

HeaderSet(t) ==
  /\ At(t, "header") /\ Goto(t, "sysconf")
  /\ header' = sid /\ split' = FALSE
  /\ UNCHANGED <<valid, sid, lock, call, form, used, stale, faults>>

(* login raises in between: the reply names no user.  The lock is released *)
(* and the call fails, with the new session id stored and the old header.  *)
HeaderNotSet(t) ==
  /\ At(t, "header") /\ Ends(t)
  /\ faults < MaxFaults /\ faults' = faults + 1
  /\ lock' = NoThread
  /\ split' = TRUE
  /\ UNCHANGED <<valid, sid, header>>

SysconfRead(t) ==
  /\ At(t, "sysconf")
  /\ header \in valid
  /\ lock' = NoThread
  /\ Retry(t)
  /\ UNCHANGED <<valid, session, kind, form, used, faults>>

(* Mutant: the lock is not given back when login raises.                   *)
LoginRaisesLocked(t) ==
  /\ At(t, "sysconf") /\ header \notin valid
  /\ Ends(t)
  /\ UNCHANGED <<valid, session, lock, faults>>

(* login raises after both were stored: the system info is refused or      *)
(* cannot be read.  The lock is released, the call fails.                  *)
LoginRaises(t) ==
  /\ At(t, "sysconf")
  /\ \/ header \notin valid /\ UNCHANGED faults
     \/ faults < MaxFaults /\ faults' = faults + 1
  /\ Ends(t)
  /\ lock' = NoThread
  /\ UNCHANGED <<valid, session>>

(* login raises before: the request failed, or the cloud issued a session  *)
(* and its reply was lost.                                                 *)
LoginFails(t) ==
  /\ At(t, "login")
  /\ faults < MaxFaults /\ faults' = faults + 1
  /\ Ends(t)
  /\ lock' = NoThread
  /\ UNCHANGED valid \/ Issue
  /\ UNCHANGED session

-----------------------------------------------------------------------------
(* The cloud ends the session ("~24h after login").                        *)
Expire ==
  /\ valid # {} /\ valid' = {}
  /\ UNCHANGED <<session, lock, pc, call, form, used, stale, faults>>

InCall(t) == \/ Resend(t) \/ Post(t) \/ Accepted(t) \/ Denied(t) \/ RequestFails(t)
             \/ Notice(t) \/ GiveUp(t) \/ LoggedIn(t) \/ HeaderSet(t) \/ SysconfRead(t)
             \/ LoginFails(t) \/ HeaderNotSet(t) \/ LoginRaises(t)

EntersRelogin(t) == AlreadyRenewed(t) \/ LoginStarts(t)

Next == Expire \/ \E t \in Threads : CallStarts(t) \/ InCall(t) \/ EntersRelogin(t)

(* Requests have timeouts, so calls go on; _auth_lock is not fair, but a   *)
(* thread that finds it free again and again gets it; the coordinators     *)
(* keep calling.                                                           *)
Fairness ==
  \A t \in Threads : /\ WF_vars(CallStarts(t))
                     /\ WF_vars(InCall(t))
                     /\ SF_vars(EntersRelogin(t))

Spec == Init /\ [][Next]_vars /\ Fairness

-----------------------------------------------------------------------------
(* Properties                                                              *)

(* Outside login() the header and _session_id name the same session, with  *)
(* one exception: a login that failed between the two assignments leaves   *)
(* them apart until a later login makes both.  No other failure does.      *)
HeaderMatches == lock = NoThread /\ ~split => header = sid

(* One login at a time, and its thread holds the lock.                     *)
OneLogin == \A t \in Threads : pc[t] \in {"login", "header", "sysconf"} => lock = t

(* The retry of a call does not repeat a session id of the request that    *)
(* was refused: every path through _relogin ends with another one in       *)
(* place.  The exception is the header that a failed login has not set.    *)
SendsAgain(t) == attempt[t] = 2 /\ pc[t] # "sent" /\ pc'[t] = "sent"

RetryIsFresh ==
  [][\A t \in Threads : SendsAgain(t) =>
       used'[t] \cap used[t] \subseteq IF split THEN {header} ELSE {}]_vars

(* A call ends, whatever fails in its own and in other threads' logins.    *)
CallsEnd == \A t \in Threads : []<>(pc[t] = "idle")

(* A session that the cloud ended is replaced by one it accepts, although  *)
(* some logins fail.                                                       *)
SessionHeals == []<>(sid \in valid)

(* "Re-authenticate once, even if several threads notice the 401           *)
(* together": a session that is accepted is replaced only by a thread that *)
(* was not refused with just this one: it passed _relogin a newer id than  *)
(* it had sent, or sent two, or its request for a key failed otherwise.    *)
RenewsWhatWasRefused ==
  [][\A t \in Threads : LoggedIn(t) /\ sid \in valid =>
       used[t] # {stale[t]} \/ kind[t] = "key"]_vars
=============================================================================
