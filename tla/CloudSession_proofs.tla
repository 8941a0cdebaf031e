------------------------ MODULE CloudSession_proofs -------------------------
(***************************************************************************)
(* Proofs about CloudSession for any number of threads, any mix of calls   *)
(* and any number of failures.                                             *)
(***************************************************************************)
EXTENDS CloudSession, TLAPS

InLogin == {"login", "header", "sysconf"}

(* The lock's holder is the thread in login(), and the header differs from *)
(* _session_id only between the two assignments of login(), and after a    *)
(* login that failed there.                                                *)
SessionInv ==
  /\ pc \in [Threads -> ThreadStates]
  /\ lock \in Threads \cup {NoThread}
  /\ \A t \in Threads : pc[t] \in InLogin <=> lock = t
  /\ split \in BOOLEAN
  /\ header # sid /\ ~split => lock # NoThread /\ pc[lock] = "header"

LEMMA SessionInvStep == SessionInv /\ [Next]_vars => SessionInv'
  <1> SUFFICES ASSUME SessionInv, [Next]_vars
               PROVE  SessionInv'
    OBVIOUS
  <1> USE NoThreadAssumption DEF SessionInv, InLogin, ThreadStates, At, Goto, session, call
  <1>1. ASSUME NEW t \in Threads, CallStarts(t)
        PROVE  SessionInv'
    BY <1>1 DEF CallStarts, Request, Send, Compose
  <1>2. ASSUME NEW t \in Threads, Resend(t) \/ Post(t)
        PROVE  SessionInv'
    BY <1>2 DEF Resend, Request, Send, Compose, Post
  <1>3. ASSUME NEW t \in Threads, Accepted(t)
        PROVE  SessionInv'
    BY <1>3 DEF Accepted, Ends
  <1>4. ASSUME NEW t \in Threads, Denied(t)
        PROVE  SessionInv'
    BY <1>4 DEF Denied
  <1>5. ASSUME NEW t \in Threads, RequestFails(t)
        PROVE  SessionInv'
    BY <1>5 DEF RequestFails, Ends
  <1>6. ASSUME NEW t \in Threads, Notice(t)
        PROVE  SessionInv'
    BY <1>6 DEF Notice
  <1>7. ASSUME NEW t \in Threads, GiveUp(t)
        PROVE  SessionInv'
    BY <1>7 DEF GiveUp, Ends
  <1>8. ASSUME NEW t \in Threads, LoggedIn(t)
        PROVE  SessionInv'
    BY <1>8 DEF LoggedIn
  <1>9. ASSUME NEW t \in Threads, HeaderSet(t)
        PROVE  SessionInv'
    <2>1. split' \in BOOLEAN
      BY <1>9, Zenon DEF HeaderSet
    <2>2. QED
      BY <1>9, <2>1 DEF HeaderSet
  <1>10. ASSUME NEW t \in Threads, SysconfRead(t)
        PROVE  SessionInv'
    BY <1>10 DEF SysconfRead, Retry
  <1>11. ASSUME NEW t \in Threads, LoginRaises(t)
        PROVE  SessionInv'
    BY <1>11 DEF LoginRaises, Ends
  <1>12. ASSUME NEW t \in Threads, LoginFails(t)
        PROVE  SessionInv'
    BY <1>12 DEF LoginFails, Ends
  <1>17. ASSUME NEW t \in Threads, HeaderNotSet(t)
        PROVE  SessionInv'
    <2>1. split' /\ split' \in BOOLEAN
      BY <1>17, Zenon DEF HeaderNotSet
    <2>2. QED
      BY <1>17, <2>1 DEF HeaderNotSet, Ends
  <1>13. ASSUME NEW t \in Threads, AlreadyRenewed(t)
        PROVE  SessionInv'
    BY <1>13 DEF AlreadyRenewed, Retry
  <1>14. ASSUME NEW t \in Threads, LoginStarts(t)
        PROVE  SessionInv'
    BY <1>14 DEF LoginStarts
  <1>15. CASE Expire
    BY <1>15 DEF Expire
  <1>16. CASE UNCHANGED vars
    BY <1>16 DEF vars
  <1>18. QED
    BY <1>1, <1>2, <1>3, <1>4, <1>5, <1>6, <1>7, <1>8, <1>9, <1>10, <1>11, <1>12, <1>13, <1>14, <1>15, <1>16,
       <1>17
       DEF Next, InCall, EntersRelogin

LEMMA SessionInvariant == Spec => []SessionInv
  <1>1. Init => SessionInv
    <2> SUFFICES ASSUME Init PROVE SessionInv
      OBVIOUS
    <2>1. split \in BOOLEAN
      BY Zenon DEF Init
    <2>2. QED
      BY <2>1, NoThreadAssumption DEF Init, SessionInv, InLogin, ThreadStates
  <1>2. QED
    BY <1>1, SessionInvStep, PTL DEF Spec

(* Whatever fails in a login, outside of it the header and _session_id are *)
(* the same, unless it failed between the assignments of the two.          *)
THEOREM HeaderFollowsSession == Spec => []HeaderMatches
  <1>1. SessionInv => HeaderMatches
    BY DEF SessionInv, HeaderMatches
  <1>2. QED
    BY <1>1, SessionInvariant, PTL

(* _auth_lock admits one thread to login() at a time, and every way out of *)
(* login() gives it back.                                                  *)
THEOREM LoginsExclude == Spec => []OneLogin
  <1>1. SessionInv => OneLogin
    BY DEF SessionInv, OneLogin, InLogin
  <1>2. QED
    BY <1>1, SessionInvariant, PTL

-----------------------------------------------------------------------------
(* The sessions that threads remember.                                     *)

(* A session that is issued has a name that nobody remembers.              *)
LEMMA FreshIsNew ==
  ASSUME TypeOK, Issue
  PROVE  /\ Fresh \in Sessions
         /\ Fresh # sid /\ Fresh # header /\ Fresh \notin valid
         /\ \A t \in Threads : Fresh \notin used[t] /\ Fresh # form[t] /\ Fresh # stale[t]
  <1>1. Fresh \in Sessions \ Held
    BY DEF Issue, Fresh
  <1>2. QED
    BY <1>1 DEF Held

(* A form that is built holds a session id.                                *)
FormBuilt == \A t \in Threads : pc[t] = "composed" => form[t] \in Sessions

LEMMA FormStep == TypeOK /\ FormBuilt /\ [Next]_vars => FormBuilt'
  <1> SUFFICES ASSUME TypeOK, FormBuilt, [Next]_vars
               PROVE  FormBuilt'
    OBVIOUS
  <1> USE DEF FormBuilt, TypeOK, At, Goto, session, call
  <1>1. ASSUME NEW t \in Threads, NEW k, Request(t, k)
        PROVE  FormBuilt'
    BY <1>1 DEF Request, Send, Compose
  <1>2. ASSUME NEW t \in Threads, CallStarts(t) \/ Resend(t)
        PROVE  FormBuilt'
    BY <1>1, <1>2 DEF CallStarts, Resend
  <1>3. ASSUME NEW t \in Threads, Ends(t) \/ Post(t)
        PROVE  FormBuilt'
    BY <1>3 DEF Ends, Post, Send
  <1>4. ASSUME NEW t \in Threads,
               \/ Accepted(t) \/ GiveUp(t) \/ RequestFails(t)
               \/ LoginRaises(t) \/ LoginFails(t) \/ HeaderNotSet(t)
        PROVE  FormBuilt'
    BY <1>3, <1>4 DEF Accepted, GiveUp, RequestFails, LoginRaises, LoginFails, HeaderNotSet
  <1>5. ASSUME NEW t \in Threads,
               \/ Denied(t) \/ Notice(t) \/ LoggedIn(t) \/ HeaderSet(t) \/ SysconfRead(t)
               \/ AlreadyRenewed(t) \/ LoginStarts(t)
        PROVE  FormBuilt'
    BY <1>5 DEF Denied, Notice, LoggedIn, HeaderSet, SysconfRead, AlreadyRenewed, LoginStarts, Retry
  <1>6. CASE Expire \/ UNCHANGED vars
    BY <1>6 DEF Expire, vars
  <1>7. QED
    BY <1>2, <1>3, <1>4, <1>5, <1>6 DEF Next, InCall, EntersRelogin

LEMMA TypeStep == TypeOK /\ FormBuilt /\ [Next]_vars => TypeOK'
  <1> SUFFICES ASSUME TypeOK, FormBuilt, [Next]_vars
               PROVE  TypeOK'
    OBVIOUS
  <1> USE NoThreadAssumption, KindsAssumption, MaxFaultsAssumption
      DEF TypeOK, ThreadStates, At, Goto, session, call
  <1>a. ASSUME NEW t \in Threads, NEW ids \in SUBSET Sessions, Send(t, ids),
               kind' \in [Threads -> CallKinds \cup {"none"}]
        PROVE  TypeOK'
    BY <1>a DEF Send
  <1>b. ASSUME NEW t \in Threads, NEW k, Request(t, k), kind' \in [Threads -> CallKinds \cup {"none"}]
        PROVE  TypeOK'
    <2>1. CASE Compose(t)
      BY <1>b, <2>1 DEF Compose
    <2>2. QED
      BY <1>a, <1>b, <2>1 DEF Request
  <1>1. ASSUME NEW t \in Threads, CallStarts(t)
        PROVE  TypeOK'
    <2>1. PICK k \in CallKinds : Request(t, k) /\ kind' = [kind EXCEPT ![t] = k]
      BY <1>1 DEF CallStarts
    <2>2. QED
      BY <1>b, <2>1
  <1>2. ASSUME NEW t \in Threads, Resend(t) \/ Post(t)
        PROVE  TypeOK'
    <2>1. CASE Resend(t)
      BY <1>b, <2>1 DEF Resend
    <2>2. CASE Post(t) /\ form[t] \in Sessions
      BY <1>a, <2>2 DEF Post
    <2>3. QED
      BY <1>2, <2>1, <2>2 DEF Post, FormBuilt
  <1>3. ASSUME NEW t \in Threads, Ends(t)
        PROVE  /\ pc' \in [Threads -> ThreadStates]
               /\ kind' \in [Threads -> CallKinds \cup {"none"}]
               /\ attempt' \in [Threads -> {1, 2}]
               /\ form' \in [Threads -> Sessions \cup {NoSession}]
               /\ used' \in [Threads -> SUBSET Sessions]
               /\ stale' \in [Threads -> Sessions \cup {NoSession}]
    BY <1>3 DEF Ends
  <1>4. ASSUME NEW t \in Threads, Accepted(t) \/ GiveUp(t)
        PROVE  TypeOK'
    BY <1>3, <1>4 DEF Accepted, GiveUp
  <1>5. ASSUME NEW t \in Threads, RequestFails(t)
        PROVE  TypeOK'
    BY <1>3, <1>5 DEF RequestFails
  <1>6. ASSUME NEW t \in Threads, Denied(t) \/ Notice(t)
        PROVE  TypeOK'
    BY <1>6 DEF Denied, Notice
  <1>7. ASSUME NEW t \in Threads, LoggedIn(t)
        PROVE  TypeOK'
    <2>1. Fresh \in Sessions
      BY <1>7, FreshIsNew DEF LoggedIn
    <2>2. valid' \subseteq Sessions
      BY <1>7, <2>1 DEF LoggedIn, Issue
    <2>3. QED
      BY <1>7, <2>1, <2>2 DEF LoggedIn
  <1>8. ASSUME NEW t \in Threads, HeaderSet(t)
        PROVE  TypeOK'
    <2>1. split' \in BOOLEAN
      BY <1>8, Zenon DEF HeaderSet
    <2>2. QED
      BY <1>8, <2>1 DEF HeaderSet
  <1>9. ASSUME NEW t \in Threads, SysconfRead(t) \/ AlreadyRenewed(t)
        PROVE  TypeOK'
    BY <1>9 DEF SysconfRead, AlreadyRenewed, Retry
  <1>10. ASSUME NEW t \in Threads, LoginRaises(t)
         PROVE  TypeOK'
    BY <1>3, <1>10 DEF LoginRaises
  <1>11. ASSUME NEW t \in Threads, LoginFails(t)
         PROVE  TypeOK'
    <2>1. valid' \subseteq Sessions
      <3>1. CASE Issue
        BY <3>1, FreshIsNew DEF Issue
      <3>2. QED
        BY <1>11, <3>1 DEF LoginFails
    <2>2. QED
      BY <1>3, <1>11, <2>1 DEF LoginFails
  <1>12. ASSUME NEW t \in Threads, LoginStarts(t)
         PROVE  TypeOK'
    BY <1>12 DEF LoginStarts
  <1>13. CASE Expire
    BY <1>13 DEF Expire
  <1>14. CASE UNCHANGED vars
    BY <1>14 DEF vars
  <1>15. ASSUME NEW t \in Threads, HeaderNotSet(t)
         PROVE  TypeOK'
    <2>1. split' \in BOOLEAN
      BY <1>15, Zenon DEF HeaderNotSet
    <2>2. QED
      BY <1>3, <1>15, <2>1 DEF HeaderNotSet
  <1>16. QED
    BY <1>1, <1>2, <1>4, <1>5, <1>6, <1>7, <1>8, <1>9, <1>10, <1>11, <1>12, <1>13, <1>14, <1>15
       DEF Next, InCall, EntersRelogin

LEMMA Typed == Spec => [](TypeOK /\ FormBuilt)
  <1>1. Init => TypeOK /\ FormBuilt
    <2> SUFFICES ASSUME Init PROVE TypeOK /\ FormBuilt
      OBVIOUS
    <2>1. split \in BOOLEAN
      BY Zenon DEF Init
    <2>2. TypeOK
      BY <2>1, NoThreadAssumption, MaxSessionsAssumption, MaxFaultsAssumption
         DEF Init, TypeOK, ThreadStates, Sessions
    <2>3. QED
      BY <2>2 DEF Init, FormBuilt
  <1>2. QED
    BY <1>1, TypeStep, FormStep, PTL DEF Spec

(* The session ids are ids that the cloud has issued, in every variable.   *)
THEOREM TypeCorrect == Spec => []TypeOK
  BY Typed, PTL

-----------------------------------------------------------------------------
(* What a thread knows of the session that was refused.                    *)

(* Once _session_id or the header differ from the ids that a thread has    *)
(* sent they differ for good, since a name is not issued again while it is *)
(* remembered: after its look under the lock, or its login, _session_id is *)
(* no refused one, and neither is the header that a login has set.         *)
Again(t) == pc[t] = "retry" \/ (pc[t] = "composed" /\ attempt[t] = 2)

Renewed ==
  \A t \in Threads :
    /\ pc[t] = "idle" => attempt[t] = 1
    /\ pc[t] = "relogin" /\ sid # stale[t] => sid \notin used[t]
    /\ pc[t] \in {"header", "sysconf"} \/ Again(t) => sid \notin used[t]
    /\ pc[t] = "sysconf" \/ Again(t) => split \/ header \notin used[t]
    /\ pc[t] = "composed" /\ attempt[t] = 2 => form[t] \notin used[t]

(* A request other than for a key was refused because one of its sessions  *)
(* is not accepted, and a login renews the session its thread compared.    *)
Refused ==
  \A t \in Threads :
    /\ pc[t] \in {"denied", "relogin", "login"} /\ kind[t] # "key" => ~(used[t] \subseteq valid)
    /\ pc[t] = "login" => sid = stale[t]

RetryInv == TypeOK /\ FormBuilt /\ SessionInv /\ Renewed /\ Refused

LEMMA RetryInvStep == RetryInv /\ [Next]_vars => RetryInv'
  <1> SUFFICES ASSUME RetryInv, [Next]_vars
               PROVE  Renewed' /\ Refused'
    BY TypeStep, FormStep, SessionInvStep DEF RetryInv
  <1>0. TypeOK /\ SessionInv /\ Renewed /\ Refused
    BY DEF RetryInv
  <1>a. /\ pc \in [Threads -> ThreadStates] /\ kind \in [Threads -> CallKinds \cup {"none"}]
        /\ form \in [Threads -> Sessions \cup {NoSession}]
        /\ used \in [Threads -> SUBSET Sessions]
        /\ stale \in [Threads -> Sessions \cup {NoSession}]
        /\ attempt \in [Threads -> {1, 2}]
    BY <1>0 DEF TypeOK
  <1>b. /\ lock = NoThread => sid = header \/ split
        /\ \A t \in Threads : pc[t] \in {"login", "header", "sysconf"} <=> lock = t
    BY <1>0, NoThreadAssumption DEF SessionInv, InLogin
  <1>c. /\ Renewed /\ Refused
    BY <1>0
  <1> USE <1>a DEF Renewed, Refused, Again, At, Goto, session, call
  <1>1. ASSUME NEW t \in Threads, CallStarts(t)
        PROVE  Renewed' /\ Refused'
    <2>1. PICK k \in Kinds[t] : Request(t, k) /\ kind' = [kind EXCEPT ![t] = k]
      BY <1>1 DEF CallStarts
    <2>2. pc[t] = "idle" /\ attempt[t] = 1
      BY <1>c, <1>1 DEF CallStarts
    <2>3. CASE Compose(t)
      BY <1>c, <2>1, <2>2, <2>3 DEF Compose
    <2>4. ASSUME NEW ids, Send(t, ids)
          PROVE  Renewed' /\ Refused'
      BY <1>c, <2>1, <2>2, <2>4 DEF Send
    <2>5. QED
      BY <2>1, <2>3, <2>4 DEF Request
  <1>2. ASSUME NEW t \in Threads, Resend(t) \/ Post(t)
        PROVE  Renewed' /\ Refused'
    <2>1. CASE Resend(t) /\ Compose(t)
      BY <1>c, <2>1 DEF Resend, Compose
    <2>2. ASSUME NEW ids, Send(t, ids), UNCHANGED kind
          PROVE  Renewed' /\ Refused'
      BY <1>c, <2>2 DEF Send
    <2>3. QED
      BY <1>2, <2>1, <2>2 DEF Request, Resend, Post
  <1>3. ASSUME NEW t \in Threads, Ends(t), UNCHANGED <<sid, header>>, split => split', valid' \subseteq valid
        PROVE  Renewed' /\ Refused'
    BY <1>c, <1>3 DEF Ends
  <1>4. ASSUME NEW t \in Threads, Accepted(t) \/ GiveUp(t) \/ RequestFails(t) \/ LoginRaises(t)
        PROVE  Renewed' /\ Refused'
    BY <1>3, <1>4 DEF Accepted, GiveUp, RequestFails, LoginRaises
  <1>5. ASSUME NEW t \in Threads, Denied(t)
        PROVE  Renewed' /\ Refused'
    BY <1>c, <1>5 DEF Denied, Unauthorized
  <1>6. ASSUME NEW t \in Threads, Notice(t)
        PROVE  Renewed' /\ Refused'
    BY <1>c, <1>6 DEF Notice
  <1>7. ASSUME NEW t \in Threads, LoggedIn(t)
        PROVE  Renewed' /\ Refused'
    <2>1. /\ \A u \in Threads : Fresh \notin used[u]
          /\ sid' = Fresh /\ UNCHANGED <<header, split, form, used, kind, attempt>>
          /\ \A u \in Threads \ {t} : stale'[u] = stale[u]
          /\ pc' = [pc EXCEPT ![t] = "header"] /\ pc[t] = "login"
          /\ \A s \in valid' : s \in valid \/ s = Fresh
      BY <1>0, <1>7, FreshIsNew DEF LoggedIn, Issue
    <2>2. \A u \in Threads \ {t} : pc[u] \notin {"login", "header", "sysconf"}
      BY <1>b, <2>1
    <2>3. \A u \in Threads : used[u] \subseteq valid' => used[u] \subseteq valid
      BY <2>1
    <2>4. QED
      BY <1>c, <2>1, <2>2, <2>3
  <1>8. ASSUME NEW t \in Threads, HeaderSet(t)
        PROVE  Renewed' /\ Refused'
    <2>1. \A u \in Threads \ {t} : pc[u] \notin {"login", "header", "sysconf"}
      BY <1>b, <1>8 DEF HeaderSet
    <2>2. QED
      BY <1>c, <1>8, <2>1 DEF HeaderSet
  <1>9. ASSUME NEW t \in Threads, SysconfRead(t)
        PROVE  Renewed' /\ Refused'
    BY <1>c, <1>9 DEF SysconfRead, Retry
  <1>10. ASSUME NEW t \in Threads, LoginFails(t)
         PROVE  Renewed' /\ Refused'
    <2>1. CASE UNCHANGED valid
      BY <1>3, <1>10, <2>1 DEF LoginFails
    <2>2. CASE Issue
      <3>1. /\ \A u \in Threads : Fresh \notin used[u]
            /\ \A s \in valid' : s \in valid \/ s = Fresh
        BY <1>0, <2>2, FreshIsNew DEF Issue
      <3>2. \A u \in Threads : used[u] \subseteq valid' => used[u] \subseteq valid
        BY <3>1
      <3>3. QED
        BY <1>c, <1>10, <3>2 DEF LoginFails, Ends
    <2>3. QED
      BY <1>10, <2>1, <2>2 DEF LoginFails
  <1>11. ASSUME NEW t \in Threads, AlreadyRenewed(t)
         PROVE  Renewed' /\ Refused'
    BY <1>b, <1>c, <1>11 DEF AlreadyRenewed, Retry
  <1>12. ASSUME NEW t \in Threads, LoginStarts(t)
         PROVE  Renewed' /\ Refused'
    BY <1>c, <1>12 DEF LoginStarts
  <1>13. CASE Expire
    BY <1>c, <1>13 DEF Expire
  <1>14. CASE UNCHANGED vars
    BY <1>c, <1>14 DEF vars
  <1>15. ASSUME NEW t \in Threads, HeaderNotSet(t)
         PROVE  Renewed' /\ Refused'
    BY <1>3, <1>15 DEF HeaderNotSet
  <1>16. QED
    BY <1>1, <1>2, <1>4, <1>5, <1>6, <1>7, <1>8, <1>9, <1>10, <1>11, <1>12, <1>13, <1>14, <1>15
       DEF Next, InCall, EntersRelogin

LEMMA RetryInvariant == Spec => []RetryInv
  <1>1. Init => Renewed /\ Refused
    BY DEF Init, Renewed, Refused, Again
  <1>2. RetryInv <=> TypeOK /\ FormBuilt /\ SessionInv /\ Renewed /\ Refused
    BY DEF RetryInv
  <1>3. QED
    BY <1>1, <1>2, RetryInvStep, Typed, SessionInvariant, PTL DEF Spec

(* A second request carries the header, the session id of the moment or    *)
(* the one in its form.                                                    *)
LEMMA SentAgain ==
  ASSUME RetryInv, [Next]_vars, NEW t \in Threads, SendsAgain(t)
  PROVE  \E ids : /\ Send(t, ids) /\ Again(t)
                  /\ ids \subseteq {header, sid, form[t]}
                  /\ form[t] \in ids => pc[t] = "composed" \/ form[t] = sid \/ form[t] = header
  <1>1. /\ pc[t] # "sent" /\ pc'[t] = "sent" /\ attempt[t] = 2 /\ pc[t] # "idle"
        /\ pc \in [Threads -> ThreadStates]
    BY DEF RetryInv, Renewed, TypeOK, SendsAgain
  <1>2. ASSUME NEW u \in Threads, InCall(u), ~Resend(u), ~Post(u)
        PROVE  pc'[t] # "sent"
    BY <1>1, <1>2 DEF InCall, Accepted, Denied, RequestFails, Notice, GiveUp, LoggedIn, HeaderSet,
       SysconfRead, LoginFails, HeaderNotSet, LoginRaises, Ends, Retry, At, Goto
  <1>3. ASSUME NEW u \in Threads, EntersRelogin(u) \/ Expire \/ UNCHANGED vars
        PROVE  pc'[t] # "sent"
    BY <1>1, <1>3 DEF EntersRelogin, AlreadyRenewed, LoginStarts, Retry, Goto, Expire, vars
  <1>4. ASSUME NEW u \in Threads, u # t, CallStarts(u) \/ Resend(u) \/ Post(u)
        PROVE  pc'[t] # "sent"
    BY <1>1, <1>4 DEF CallStarts, Resend, Post, Request, Send, Compose, Goto
  <1>5. ~CallStarts(t)
    BY <1>1 DEF CallStarts, At
  <1>6. Resend(t) \/ Post(t)
    BY <1>1, <1>2, <1>3, <1>4, <1>5 DEF Next
  <1>7. CASE Resend(t)
    <2>1. pc[t] = "retry" /\ Request(t, kind[t])
      BY <1>7 DEF Resend, At
    <2>2. ~Compose(t)
      BY <1>1 DEF Compose, Goto
    <2>3. Send(t, {header}) \/ Send(t, {sid})
      BY <2>1, <2>2 DEF Request
    <2>4. QED
      BY <2>1, <2>3 DEF Again
  <1>8. CASE Post(t)
    <2>1. Send(t, {form[t], header}) /\ pc[t] = "composed"
      BY <1>8 DEF Post, At
    <2>2. QED
      BY <1>1, <2>1 DEF Again
  <1>9. QED
    BY <1>6, <1>7, <1>8

(* However logins of several threads and the cloud's expiries interleave,  *)
(* a call is not retried with a session id that was refused it, but for    *)
(* the header that a failed login has left unset.                          *)
THEOREM RetriesAreFresh == Spec => RetryIsFresh
  <1>1. RetryInv /\ [Next]_vars =>
          [\A t \in Threads : SendsAgain(t) =>
             used'[t] \cap used[t] \subseteq IF split THEN {header} ELSE {}]_vars
    <2> SUFFICES ASSUME RetryInv, [Next]_vars, NEW t \in Threads, SendsAgain(t)
                 PROVE  used'[t] \cap used[t] \subseteq IF split THEN {header} ELSE {}
      OBVIOUS
    <2>1. PICK ids : Send(t, ids) /\ Again(t) /\ ids \subseteq {header, sid, form[t]}
                    /\ (form[t] \in ids => pc[t] = "composed" \/ form[t] = sid \/ form[t] = header)
      BY SentAgain DEF RetryInv
    <2>2. used'[t] = ids
      BY <2>1 DEF Send, RetryInv, TypeOK
    <2>3. /\ sid \notin used[t] /\ (split \/ header \notin used[t])
          /\ pc[t] = "composed" => form[t] \notin used[t]
      BY <2>1 DEF RetryInv, Renewed, Again, SendsAgain
    <2>4. QED
      BY <2>1, <2>2, <2>3
  <1>2. QED
    BY <1>1, RetryInvariant, PTL DEF Spec, RetryIsFresh

(* _relogin replaces an accepted session only on behalf of a thread that   *)
(* was not refused with just this one, or wanted a key.                    *)
THEOREM RenewalsJustified == Spec => RenewsWhatWasRefused
  <1>1. RetryInv /\ [Next]_vars =>
          [\A t \in Threads : LoggedIn(t) /\ sid \in valid =>
             used[t] # {stale[t]} \/ kind[t] = "key"]_vars
    <2> SUFFICES ASSUME RetryInv, NEW t \in Threads, LoggedIn(t), sid \in valid
                 PROVE  used[t] # {stale[t]} \/ kind[t] = "key"
      OBVIOUS
    <2>1. pc[t] = "login"
      BY DEF LoggedIn, At
    <2>2. QED
      BY <2>1 DEF RetryInv, Refused
  <1>2. QED
    BY <1>1, RetryInvariant, PTL DEF Spec, RenewsWhatWasRefused
=============================================================================
