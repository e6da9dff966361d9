------------------------- MODULE BrowserAccountsProofs -------------------------
(***************************************************************************)
(* Proofs about BrowserAccounts, for every number of browsers, requests,   *)
(* operators, emails and passwords and every lifetime of a session.        *)
(*                                                                         *)
(* The invariant has two parts: RowsOK, what the tables say of each other, *)
(* and RequestOK, what a request between two awaits still knows of them.   *)
(* A step touches the tables in one of eight ways (DbStep); each of them   *)
(* keeps RowsOK, and keeps what the other requests know (Grows).           *)
(***************************************************************************)
EXTENDS BrowserAccounts, FiniteSetTheorems, TLAPS

Registered(e) == identity[e] # None

RowsOK ==
    /\ workspace = DOMAIN account
    /\ \A e \in Emails : Registered(e) => identity[e].account \in DOMAIN account
    /\ \A a \in DOMAIN account :
          \E e \in Emails : Registered(e) /\ identity[e].account = a
    /\ \A e, f \in Emails :
          Registered(e) /\ Registered(f) /\ identity[e].account = identity[f].account
             => e = f
    /\ \A s \in DOMAIN session : session[s].account \in DOMAIN account
    /\ \A s \in DOMAIN session :
          ~ session[s].revoked => account[session[s].account] = "active"
    /\ \A s, t \in DOMAIN session :
          /\ ~ session[s].revoked /\ ~ session[t].revoked
          /\ session[s].account = session[t].account
          => s = t
    /\ \A i \in DOMAIN intent : \A k, l \in intent[i].keys : k = l

(* A request that was not answered yet has left no row under its token; a  *)
(* form that passed its handler is complete; a login past its check found  *)
(* the identity, and its password; a demo past its select owns the intent. *)
RequestOK(r) ==
    /\ req[r].pc \notin {"reply", "done"} =>
          r \notin DOMAIN account \union DOMAIN session \union DOMAIN intent
    /\ req[r].kind \in {"signup", "login"} => req[r].email \in Emails
    /\ req[r].kind \in {"signup", "login"}
       /\ req[r].pc \in {"begin", "commit", "lookup", "rehash"}
       => req[r].password \in Passwords
    /\ req[r].kind \in {"signup", "login"}
       /\ req[r].pc \in {"context", "find", "handler"}
       => req[r].password \in Passwords \union {Malformed}
    /\ req[r].kind = "login" /\ req[r].pc \in {"rehash", "begin", "commit"} =>
          Registered(req[r].email)
    /\ At(r, "login", "rehash") => identity[req[r].email].password = req[r].password
    /\ At(r, "demo", "commit") =>
          req[r].form \in DOMAIN intent /\ intent[req[r].form].keys = {}

(* for update: one transaction at a time has the row of an intent.         *)
OneOwner ==
    \A x, y \in Requests :
        At(x, "demo", "commit") /\ At(y, "demo", "commit") /\ req[x].form = req[y].form
           => x = y

OperatorOK(o) ==
    op[o].pc = "commit" =>
        op[o].account \in DOMAIN account /\ op[o].status \in {"suspended", "closed"}

IInv ==
    /\ TypeOK
    /\ RowsOK
    /\ \A r \in Requests : RequestOK(r)
    /\ OneOwner
    /\ \A o \in Operators : OperatorOK(o)

(***************************************************************************)
(* The tables.                                                             *)
(***************************************************************************)
Fresh(r) == r \in Requests /\ r \notin DOMAIN account \union DOMAIN session \union DOMAIN intent

Refreshes(r) ==
    /\ r \in Requests /\ req[r].pc = "find"
    /\ \E s \in DOMAIN session :
          /\ req[r].cookies.session = s
          /\ LiveAt(s, req[r].start)
          /\ session' = Refreshed(s, req[r].start)
    /\ UNCHANGED <<account, identity, workspace, intent>>

Registers(r) ==
    /\ Fresh(r)
    /\ req[r].email \in Emails /\ req[r].password \in Passwords
    /\ ~ Registered(req[r].email)
    /\ SignedUp(r)
    /\ UNCHANGED intent

Rehashes(r) ==
    /\ r \in Requests
    /\ req[r].email \in Emails /\ Registered(req[r].email)
    /\ identity[req[r].email].password = req[r].password
    /\ identity' = [identity EXCEPT ![req[r].email].password = req[r].password,
                                    ![req[r].email].weak = FALSE]
    /\ UNCHANGED <<account, workspace, session, intent>>

Enters(r) ==
    /\ Fresh(r)
    /\ \E a \in DOMAIN account :
          account[a] = "active" /\ session' = CreateSession(r, a, req[r].start)
    /\ UNCHANGED <<account, identity, workspace, intent>>

Leaves ==
    /\ \E s \in Tokens \union {None} : session' = Revoked({s})
    /\ UNCHANGED <<account, identity, workspace, intent>>

Intends(r) ==
    /\ Fresh(r)
    /\ intent' = [i \in DOMAIN intent \union {r} |->
                    IF i = r THEN [expires |-> now + DEMO_INTENT_TTL, keys |-> {}]
                    ELSE intent[i]]
    /\ UNCHANGED <<account, identity, workspace, session>>

Issues(r) ==
    /\ r \in Requests /\ At(r, "demo", "commit")
    /\ req[r].form \in DOMAIN intent /\ intent[req[r].form].keys = {}
    /\ intent' = [intent EXCEPT ![req[r].form].keys = @ \union {r}]
    /\ UNCHANGED <<account, identity, workspace, session>>

Closes ==
    /\ \E a \in DOMAIN account, status \in {"suspended", "closed"} :
          /\ account' = [account EXCEPT ![a] = status]
          /\ session' = Revoked(Unrevoked(a))
    /\ UNCHANGED <<identity, workspace, intent>>

(* The ways in which a step of request r, or of an operator, touches the   *)
(* tables.                                                                 *)
DbStep(r) ==
    \/ UNCHANGED dbVars
    \/ Refreshes(r) \/ Registers(r) \/ Rehashes(r) \/ Enters(r) \/ Leaves
    \/ Intends(r) \/ Issues(r) \/ Closes

DbTyped ==
    /\ account \in [DOMAIN account -> Statuses] /\ DOMAIN account \subseteq Tokens
    /\ identity \in [Emails -> Identity \union {None}]
    /\ workspace \subseteq Tokens
    /\ session \in [DOMAIN session -> Session] /\ DOMAIN session \subseteq Tokens
    /\ intent \in [DOMAIN intent -> Intent] /\ DOMAIN intent \subseteq Tokens

(* Request r has a session of account a, and a's others are revoked.       *)
Rotated(r, a) ==
    /\ DOMAIN session' = DOMAIN session \union {r}
    /\ session' \in [DOMAIN session \union {r} -> Session]
    /\ session'[r].account = a /\ ~ session'[r].revoked
    /\ \A s \in DOMAIN session :
          s # r =>
             /\ session'[s].account = session[s].account
             /\ session'[s].created = session[s].created
             /\ session'[s].expires = session[s].expires
             /\ session'[s].idle = session[s].idle
             /\ (~ session'[s].revoked <=> ~ session[s].revoked /\ session[s].account # a)

(* The sessions after create_session.                                      *)
LEMMA CreatedSessions ==
    ASSUME IInv, NEW r \in Requests, NEW a \in Tokens,
           session' = CreateSession(r, a, req[r].start)
    PROVE  Rotated(r, a)
<1> DEFINE row == [account |-> a, created |-> req[r].start, revoked |-> FALSE,
                   expires |-> req[r].start + SESSION_ABSOLUTE_TTL,
                   idle |-> req[r].start + SESSION_IDLE_TTL]
<1>1. req[r].start \in 0..MaxNow
  BY DEF IInv, TypeOK, Request
<1>2. row \in Session
  BY <1>1, AccountsAssumption DEF Session
<1>3. DOMAIN session' = DOMAIN session \union {r} /\ session'[r] = row
  BY DEF CreateSession
<1>4. ASSUME NEW s \in DOMAIN session, s # r
      PROVE  /\ session'[s] \in Session
             /\ session'[s].account = session[s].account
             /\ session'[s].created = session[s].created
             /\ session'[s].expires = session[s].expires
             /\ session'[s].idle = session[s].idle
             /\ (~ session'[s].revoked <=> ~ session[s].revoked /\ session[s].account # a)
  <2>1. session[s] \in Session
    BY DEF IInv, TypeOK
  <2>2. session'[s] = IF session[s].account = a /\ ~ session[s].revoked
                 THEN [session[s] EXCEPT !.revoked = TRUE] ELSE session[s]
    BY <1>4 DEF CreateSession, Revoked, Unrevoked
  <2>3. CASE session[s].account = a /\ ~ session[s].revoked
    BY <2>1, <2>2, <2>3, Zenon DEF Session
  <2>4. CASE ~ (session[s].account = a /\ ~ session[s].revoked)
    BY <2>1, <2>2, <2>4 DEF Session
  <2> QED
    BY <2>3, <2>4
<1>5. session' \in [DOMAIN session \union {r} -> Session]
  <2>1. \A s \in DOMAIN session \union {r} : session'[s] \in Session
    BY <1>2, <1>3, <1>4
  <2> QED
    BY <2>1, Zenon DEF CreateSession
<1> QED
  BY <1>3, <1>4, <1>5 DEF Rotated

(* The sessions after some were revoked.                                   *)
LEMMA RevokedSessions ==
    ASSUME IInv, NEW S
    PROVE  /\ DOMAIN Revoked(S) = DOMAIN session
           /\ Revoked(S) \in [DOMAIN session -> Session]
           /\ \A s \in DOMAIN session :
                 /\ Revoked(S)[s].account = session[s].account
                 /\ Revoked(S)[s].created = session[s].created
                 /\ Revoked(S)[s].expires = session[s].expires
                 /\ Revoked(S)[s].idle = session[s].idle
                 /\ (~ Revoked(S)[s].revoked <=> ~ session[s].revoked /\ s \notin S)
<1>1. ASSUME NEW s \in DOMAIN session
      PROVE  /\ Revoked(S)[s] \in Session
             /\ Revoked(S)[s].account = session[s].account
             /\ Revoked(S)[s].created = session[s].created
             /\ Revoked(S)[s].expires = session[s].expires
             /\ Revoked(S)[s].idle = session[s].idle
             /\ (~ Revoked(S)[s].revoked <=> ~ session[s].revoked /\ s \notin S)
  <2>1. session[s] \in Session
    BY DEF IInv, TypeOK
  <2>2. CASE s \in S
    BY <2>1, <2>2, Zenon DEF Session, Revoked
  <2>3. CASE s \notin S
    BY <2>1, <2>3 DEF Session, Revoked
  <2> QED
    BY <2>2, <2>3
<1> QED
  BY <1>1 DEF Revoked

(* The sessions after find_session.                                        *)
LEMMA RefreshedSessions ==
    ASSUME IInv, NEW r \in Requests, NEW t \in DOMAIN session,
           session' = Refreshed(t, req[r].start)
    PROVE  /\ DOMAIN session' = DOMAIN session
           /\ session' \in [DOMAIN session -> Session]
           /\ \A s \in DOMAIN session :
                 /\ session'[s].account = session[s].account
                 /\ session'[s].created = session[s].created
                 /\ session'[s].expires = session[s].expires
                 /\ session'[s].revoked = session[s].revoked
                 /\ s # t => session'[s] = session[s]
<1> DEFINE deadline == Min2(session[t].expires, req[r].start + SESSION_IDLE_TTL)
<1>1. req[r].start \in 0..MaxNow
  BY DEF IInv, TypeOK, Request
<1>2. session[t] \in Session
  BY DEF IInv, TypeOK
<1>3. deadline \in Nat
  BY <1>1, <1>2, AccountsAssumption DEF Session, Min2
<1>4. session' = [session EXCEPT ![t].idle = deadline]
  BY Zenon DEF Refreshed
<1> HIDE DEF deadline
<1>5. session'[t] = [session[t] EXCEPT !.idle = deadline] /\ DOMAIN session' = DOMAIN session
  BY <1>4 DEF IInv, TypeOK
<1>6. \A s \in DOMAIN session : s # t => session'[s] = session[s]
  BY <1>4 DEF IInv, TypeOK
<1>7. session'[t] \in Session
  BY <1>2, <1>3, <1>5 DEF Session
<1>8. session' \in [DOMAIN session -> Session]
  BY <1>4, <1>6, <1>7 DEF IInv, TypeOK
<1> QED
  BY <1>2, <1>5, <1>6, <1>8 DEF Session

(* Every way keeps the types of the tables.                                *)
LEMMA DbTypes ==
    ASSUME IInv, NEW r \in Tokens, DbStep(r)
    PROVE  DbTyped'
<1> USE DEF DbTyped
<1>0. DbTyped /\ RowsOK /\ r \in Tokens
  BY DEF IInv, TypeOK, Tokens
<1>1. CASE UNCHANGED dbVars
  BY <1>0, <1>1 DEF dbVars
<1>2. CASE Refreshes(r)
  <2>1. PICK s \in DOMAIN session : session' = Refreshed(s, req[r].start)
    BY <1>2 DEF Refreshes
  <2> QED
    BY <1>0, <1>2, <2>1, RefreshedSessions, SMTT(30) DEF Refreshes
<1>3. CASE Registers(r)
  <2>1. /\ account' \in [DOMAIN account' -> Statuses]
        /\ DOMAIN account' \subseteq Tokens
        /\ workspace' \subseteq Tokens
    BY <1>0, <1>3 DEF Registers, SignedUp, Statuses
  <2>2. [account |-> r, password |-> req[r].password, weak |-> FALSE] \in Identity
    BY <1>0, <1>3 DEF Registers, Identity
  <2>3. identity' \in [Emails -> Identity \union {None}]
    BY <1>0, <1>3, <2>2 DEF Registers, SignedUp
  <2>4. session' = CreateSession(r, r, req[r].start) /\ r \in Requests
    BY <1>3 DEF Registers, SignedUp, Fresh
  <2>5. Rotated(r, r)
    BY <2>4, CreatedSessions, SMTT(60)
  <2> QED
    BY <1>0, <1>3, <2>1, <2>3, <2>5 DEF Registers, Rotated
<1>4. CASE Rehashes(r)
  <2> DEFINE e == req[r].email
  <2>1. /\ identity[e] \in Identity /\ e \in Emails
        /\ identity[e].password = req[r].password
    BY <1>0, <1>4 DEF Rehashes, Registered
  <2>2. identity' = [identity EXCEPT ![e] =
                       [identity[e] EXCEPT !.password = req[r].password, !.weak = FALSE]]
    BY <1>0, <1>4, Zenon DEF Rehashes
  <2>3. [identity[e] EXCEPT !.password = req[r].password, !.weak = FALSE] \in Identity
    BY <2>1, Zenon DEF Identity
  <2>4. identity' \in [Emails -> Identity \union {None}]
    BY <1>0, <2>1, <2>2, <2>3
  <2> QED
    BY <1>0, <1>4, <2>4 DEF Rehashes
<1>5. CASE Enters(r)
  <2>1. PICK a \in DOMAIN account : session' = CreateSession(r, a, req[r].start)
    BY <1>5 DEF Enters
  <2>2. a \in Tokens /\ r \in Requests
    BY <1>0, <1>5 DEF Enters, Fresh
  <2>3. Rotated(r, a)
    BY <2>1, <2>2, CreatedSessions
  <2> QED
    BY <1>0, <1>5, <2>3 DEF Enters, Rotated
<1>6. CASE Leaves
  <2>1. PICK s \in Tokens \union {None} : session' = Revoked({s})
    BY <1>6 DEF Leaves
  <2> QED
    BY <1>0, <1>6, <2>1, RevokedSessions DEF Leaves
<1>7. CASE Intends(r)
  <2>1. [expires |-> now + DEMO_INTENT_TTL, keys |-> {}] \in Intent
    BY AccountsAssumption DEF Intent, IInv, TypeOK
  <2> QED
    BY <1>0, <1>7, <2>1 DEF Intends
<1>8. CASE Issues(r)
  <2> DEFINE f == req[r].form
  <2>1. f \in DOMAIN intent /\ intent[f] \in Intent /\ r \in Requests
    BY <1>0, <1>8 DEF Issues
  <2>2. [intent[f] EXCEPT !.keys = @ \union {r}] \in Intent
    BY <2>1 DEF Intent
  <2>3. intent' = [intent EXCEPT ![f] = [intent[f] EXCEPT !.keys = @ \union {r}]]
    BY <1>8 DEF Issues
  <2> QED
    BY <1>0, <1>8, <2>1, <2>2, <2>3 DEF Issues
<1>9. CASE Closes
  <2>1. PICK a \in DOMAIN account, status \in {"suspended", "closed"} :
          /\ account' = [account EXCEPT ![a] = status]
          /\ session' = Revoked(Unrevoked(a))
    BY <1>9, Zenon DEF Closes
  <2>2. account' \in [DOMAIN account' -> Statuses] /\ DOMAIN account' \subseteq Tokens
    BY <1>0, <2>1 DEF Statuses
  <2>3. session' \in [DOMAIN session' -> Session] /\ DOMAIN session' \subseteq Tokens
    BY <1>0, <2>1, RevokedSessions
  <2> QED
    BY <1>0, <1>9, <2>2, <2>3 DEF Closes
<1> QED
  BY <1>1, <1>2, <1>3, <1>4, <1>5, <1>6, <1>7, <1>8, <1>9 DEF DbStep

(* What no step takes away: rows stay, only the acting request's token may *)
(* be new, and an email keeps its account and its password.                *)
Grows(r) ==
    /\ DOMAIN account \subseteq DOMAIN account' /\ DOMAIN account' \subseteq DOMAIN account \union {r}
    /\ DOMAIN session \subseteq DOMAIN session' /\ DOMAIN session' \subseteq DOMAIN session \union {r}
    /\ DOMAIN intent \subseteq DOMAIN intent' /\ DOMAIN intent' \subseteq DOMAIN intent \union {r}
    /\ \A e \in Emails :
          Registered(e) =>
             /\ Registered(e)'
             /\ identity'[e].account = identity[e].account
             /\ identity'[e].password = identity[e].password
    /\ \A i \in DOMAIN intent :
          intent'[i].keys # intent[i].keys => At(r, "demo", "commit") /\ req[r].form = i

(* The identities after update_password_hash.                              *)
LEMMA RehashKeeps ==
    ASSUME IInv, NEW r, Rehashes(r)
    PROVE  /\ \A e \in Emails : Registered(e)' = Registered(e)
           /\ \A e \in Emails :
                 Registered(e) => /\ identity'[e].account = identity[e].account
                                  /\ identity'[e].password = identity[e].password
<1> DEFINE e == req[r].email
<1>1. /\ identity[e] \in Identity /\ e \in Emails /\ Registered(e)
      /\ identity[e].password = req[r].password
  BY DEF Rehashes, Registered, IInv, TypeOK
<1>2. identity' = [identity EXCEPT ![e] =
                     [identity[e] EXCEPT !.password = req[r].password, !.weak = FALSE]]
  BY Zenon DEF Rehashes
<1>3. [identity[e] EXCEPT !.password = req[r].password, !.weak = FALSE] \in Identity
  BY <1>1, Zenon DEF Identity
<1>4. /\ identity'[e] \in Identity /\ identity'[e].account = identity[e].account
      /\ identity'[e].password = identity[e].password
  BY <1>1, <1>2, <1>3, Zenon DEF Identity, IInv, TypeOK
<1>5. \A f \in Emails : f # e => identity'[f] = identity[f]
  BY <1>2 DEF IInv, TypeOK
<1> QED
  BY <1>1, <1>4, <1>5, AccountsAssumption DEF Registered

(* Every way keeps the rows there were.                                    *)
LEMMA DbGrows ==
    ASSUME IInv, NEW r \in Tokens, DbStep(r)
    PROVE  Grows(r)
<1>1. CASE UNCHANGED dbVars
  BY <1>1 DEF dbVars, Grows, Registered
<1>2. CASE Refreshes(r)
  <2>1. PICK s \in DOMAIN session : session' = Refreshed(s, req[r].start)
    BY <1>2 DEF Refreshes
  <2>2. DOMAIN session' = DOMAIN session
    BY <1>2, <2>1, RefreshedSessions DEF Refreshes
  <2> QED
    BY <1>2, <2>2 DEF Refreshes, Grows, Registered
<1>3. CASE Registers(r)
  <2>1. DOMAIN session' = DOMAIN session \union {r}
    BY <1>3 DEF Registers, SignedUp, CreateSession
  <2>2. \A e \in Emails : Registered(e) => identity'[e] = identity[e]
    BY <1>3 DEF Registers, SignedUp, Registered, IInv, TypeOK
  <2>3. DOMAIN account' = DOMAIN account \union {r} /\ UNCHANGED intent
    BY <1>3, ZenonT(30) DEF Registers, SignedUp
  <2> QED
    BY <2>1, <2>2, <2>3 DEF Grows, Registered
<1>4. CASE Rehashes(r)
  BY <1>4, RehashKeeps, Zenon DEF Rehashes, Grows
<1>5. CASE Enters(r)
  <2>1. DOMAIN session' = DOMAIN session \union {r}
    BY <1>5 DEF Enters, CreateSession
  <2> QED
    BY <1>5, <2>1 DEF Enters, Grows, Registered
<1>6. CASE Leaves
  BY <1>6, RevokedSessions DEF Leaves, Grows, Registered
<1>7. CASE Intends(r)
  BY <1>7 DEF Intends, Grows, Registered, Fresh
<1>8. CASE Issues(r)
  <2>1. DOMAIN intent' = DOMAIN intent
    BY <1>8 DEF Issues
  <2>2. \A i \in DOMAIN intent : i # req[r].form => intent'[i] = intent[i]
    BY <1>8 DEF Issues, IInv, TypeOK
  <2> QED
    BY <1>8, <2>1, <2>2 DEF Issues, Grows, Registered
<1>9. CASE Closes
  <2>1. DOMAIN account' = DOMAIN account /\ DOMAIN session' = DOMAIN session
    BY <1>9, RevokedSessions DEF Closes
  <2> QED
    BY <1>9, <2>1 DEF Closes, Grows, Registered
<1> QED
  BY <1>1, <1>2, <1>3, <1>4, <1>5, <1>6, <1>7, <1>8, <1>9 DEF DbStep

SessionsOK ==
    /\ \A s \in DOMAIN session : session[s].account \in DOMAIN account
    /\ \A s \in DOMAIN session :
          ~ session[s].revoked => account[session[s].account] = "active"
    /\ \A s, t \in DOMAIN session :
          /\ ~ session[s].revoked /\ ~ session[t].revoked
          /\ session[s].account = session[t].account
          => s = t

(* Every way keeps what is said of the sessions.                           *)
LEMMA SessionsStep ==
    ASSUME IInv, NEW r \in Tokens, DbStep(r)
    PROVE  SessionsOK'
<1>0. SessionsOK /\ DbTyped /\ r \in Tokens
  BY DEF IInv, TypeOK, DbTyped, RowsOK, SessionsOK, Tokens
<1>1. CASE UNCHANGED <<account, session>>
  BY <1>0, <1>1 DEF SessionsOK
<1>2. CASE Refreshes(r)
  <2>1. PICK s \in DOMAIN session : session' = Refreshed(s, req[r].start)
    BY <1>2 DEF Refreshes
  <2>2. /\ DOMAIN session' = DOMAIN session
        /\ \A t \in DOMAIN session : /\ session'[t].account = session[t].account
                                     /\ session'[t].revoked = session[t].revoked
    BY <1>2, <2>1, RefreshedSessions DEF Refreshes
  <2> QED
    BY <1>0, <1>2, <2>2 DEF Refreshes, SessionsOK
<1>3. CASE Registers(r)
  <2>0. r \in Requests
    BY <1>3 DEF Registers, Fresh
  <2>1. session' = CreateSession(r, r, req[r].start) /\ r \notin DOMAIN session
    BY <1>3 DEF Registers, SignedUp, Fresh
  <2>2. Rotated(r, r)
    BY <2>0, <2>1, CreatedSessions
  <2>3. /\ DOMAIN account' = DOMAIN account \union {r}
        /\ account'[r] = "active"
        /\ \A a \in DOMAIN account : a # r /\ account'[a] = account[a]
    BY <1>3 DEF Registers, SignedUp, Fresh
  <2>4. \A s \in DOMAIN session : /\ session[s].account # r
                                  /\ session'[s].account = session[s].account
                                  /\ (~ session'[s].revoked <=> ~ session[s].revoked)
    BY <1>0, <2>1, <2>2, <2>3, SMTT(60) DEF SessionsOK, DbTyped, Session, Rotated
  <2> QED
    BY <1>0, <2>2, <2>3, <2>4 DEF SessionsOK, Rotated
<1>4. CASE Enters(r)
  <2>1. PICK a \in DOMAIN account : /\ account[a] = "active"
                                    /\ session' = CreateSession(r, a, req[r].start)
    BY <1>4 DEF Enters
  <2>0. r \in Requests
    BY <1>4 DEF Enters, Fresh
  <2>2. a \in Tokens /\ r \notin DOMAIN session /\ UNCHANGED account
    BY <1>0, <1>4 DEF DbTyped, Enters, Fresh
  <2>3. Rotated(r, a)
    BY <2>0, <2>1, <2>2, CreatedSessions
  <2>4. \A s \in DOMAIN session :
           /\ session'[s].account = session[s].account
           /\ (~ session'[s].revoked <=> ~ session[s].revoked /\ session[s].account # a)
    BY <2>2, <2>3 DEF Rotated
  <2> QED
    BY <1>0, <2>1, <2>2, <2>3, <2>4 DEF SessionsOK, Rotated
<1>5. CASE Leaves
  <2>1. PICK s \in Tokens \union {None} : session' = Revoked({s})
    BY <1>5 DEF Leaves
  <2>2. /\ DOMAIN session' = DOMAIN session
        /\ \A t \in DOMAIN session :
              /\ session'[t].account = session[t].account
              /\ (~ session'[t].revoked <=> ~ session[t].revoked /\ t \notin {s})
    BY <2>1, RevokedSessions
  <2> QED
    BY <1>0, <1>5, <2>2, Zenon DEF Leaves, SessionsOK
<1>6. CASE Closes
  <2>1. PICK a \in DOMAIN account, status \in {"suspended", "closed"} :
          /\ account' = [account EXCEPT ![a] = status]
          /\ session' = Revoked(Unrevoked(a))
    BY <1>6, Zenon DEF Closes
  <2>2. /\ DOMAIN session' = DOMAIN session
        /\ \A t \in DOMAIN session :
              /\ session'[t].account = session[t].account
              /\ (~ session'[t].revoked <=> ~ session[t].revoked /\ t \notin Unrevoked(a))
    BY <2>1, RevokedSessions
  <2>3. \A t \in DOMAIN session :
           (~ session'[t].revoked <=> ~ session[t].revoked /\ session[t].account # a)
    BY <1>0, <2>2 DEF Unrevoked, DbTyped, Session
  <2>4. /\ DOMAIN account' = DOMAIN account
        /\ \A b \in DOMAIN account : b # a => account'[b] = account[b]
    BY <1>0, <2>1 DEF DbTyped
  <2> QED
    BY <1>0, <2>2, <2>3, <2>4 DEF SessionsOK
<1>7. ASSUME Rehashes(r) \/ Intends(r) \/ Issues(r) \/ UNCHANGED dbVars
      PROVE  UNCHANGED <<account, session>>
  BY <1>7 DEF Rehashes, Intends, Issues, dbVars
<1> QED
  BY <1>1, <1>2, <1>3, <1>4, <1>5, <1>6, <1>7 DEF DbStep

(* Every way keeps an account with its one identity and workspace.         *)
LEMMA AccountsStep ==
    ASSUME IInv, NEW r \in Tokens, DbStep(r)
    PROVE  /\ (workspace = DOMAIN account)'
           /\ \A e \in Emails : Registered(e)' => identity'[e].account \in DOMAIN account'
           /\ \A a \in DOMAIN account' :
                 \E e \in Emails : Registered(e)' /\ identity'[e].account = a
           /\ \A e, f \in Emails :
                 /\ Registered(e)' /\ Registered(f)'
                 /\ identity'[e].account = identity'[f].account
                 => e = f
<1>0. RowsOK
  BY DEF IInv
<1>1. CASE Registers(r)
  <2> DEFINE e == req[r].email
  <2>1. /\ e \in Emails /\ ~ Registered(e) /\ req[r].password \in Passwords
        /\ DOMAIN account' = DOMAIN account \union {r}
        /\ workspace' = workspace \union {r}
        /\ r \notin DOMAIN account
    BY <1>1 DEF Registers, SignedUp, Fresh
  <2>2. /\ identity'[e] = [account |-> r, password |-> req[r].password, weak |-> FALSE]
        /\ \A f \in Emails : f # e => identity'[f] = identity[f]
    BY <1>1, <2>1 DEF Registers, SignedUp, IInv, TypeOK
  <2>3. identity'[e] \in Identity /\ identity'[e].account = r
    BY <2>1, <2>2 DEF Identity, Tokens
  <2>4. identity'[e] # None /\ \A f \in Emails : f # e => Registered(f)' = Registered(f)
    BY <2>2, <2>3, AccountsAssumption, Zenon DEF Registered
  <2> QED
    BY <1>0, <2>1, <2>2, <2>3, <2>4 DEF RowsOK, Registered
<1>2. CASE Rehashes(r)
  <2>1. UNCHANGED <<account, workspace>>
    BY <1>2 DEF Rehashes
  <2>2. \A e \in Emails : identity'[e] # None <=> identity[e] # None
    BY <1>2, RehashKeeps DEF Registered
  <2>3. \A e \in Emails : identity[e] # None => identity'[e].account = identity[e].account
    BY <1>2, RehashKeeps DEF Registered
  <2> QED
    BY <1>0, <2>1, <2>2, <2>3 DEF RowsOK, Registered
<1>3. CASE UNCHANGED <<identity, workspace>> /\ DOMAIN account' = DOMAIN account
  BY <1>0, <1>3 DEF RowsOK, Registered
<1>4. ASSUME ~ Registers(r), ~ Rehashes(r)
      PROVE  UNCHANGED <<identity, workspace>> /\ DOMAIN account' = DOMAIN account
  BY <1>4 DEF DbStep, Refreshes, Enters, Leaves, Intends, Issues, Closes, dbVars
<1> QED
  BY <1>1, <1>2, <1>3, <1>4

(* Every way keeps an intent at one key.                                   *)
LEMMA IntentsStep ==
    ASSUME IInv, NEW r \in Tokens, DbStep(r)
    PROVE  \A i \in DOMAIN intent' : \A k, l \in intent'[i].keys : k = l
<1>0. \A i \in DOMAIN intent : \A k, l \in intent[i].keys : k = l
  BY DEF IInv, RowsOK
<1>1. CASE Intends(r)
  BY <1>0, <1>1 DEF Intends
<1>2. CASE Issues(r)
  <2> DEFINE f == req[r].form
  <2>1. /\ f \in DOMAIN intent /\ intent[f] \in Intent /\ intent[f].keys = {}
        /\ intent' = [intent EXCEPT ![f] = [intent[f] EXCEPT !.keys = @ \union {r}]]
    BY <1>2 DEF Issues, IInv, TypeOK
  <2>2. intent'[f].keys = {r}
    BY <2>1 DEF Intent
  <2>3. \A i \in DOMAIN intent : i # f => intent'[i] = intent[i]
    BY <2>1 DEF IInv, TypeOK
  <2> QED
    BY <1>0, <2>1, <2>2, <2>3
<1>3. CASE UNCHANGED intent
  BY <1>0, <1>3
<1> QED
  BY <1>1, <1>2, <1>3 DEF DbStep, Refreshes, Registers, Rehashes, Enters, Leaves, Closes, dbVars

(* Every way keeps what the tables say of each other.                      *)
LEMMA RowsStep ==
    ASSUME IInv, NEW r \in Tokens, DbStep(r)
    PROVE  RowsOK'
BY SessionsStep, AccountsStep, IntentsStep DEF RowsOK, SessionsOK

(***************************************************************************)
(* The requests.                                                           *)
(***************************************************************************)

(* Only request r moves.                                                   *)
Only(r) ==
    /\ req' \in [Requests -> Request]
    /\ \A x \in Requests : x # r => req'[x] = req[x]

Moved(r, stage) ==
    /\ Only(r)
    /\ req'[r].pc = stage
    /\ req'[r].kind = req[r].kind /\ req'[r].email = req[r].email
    /\ req'[r].password = req[r].password /\ req'[r].form = req[r].form

Rested(r) ==
    /\ Only(r)
    /\ req'[r].pc \in {"reply", "done"}
    /\ req'[r].kind = "entry"

(* A request that was not sent yet is well formed.                         *)
LEMMA IdleTyped == Idle \in Request
BY AccountsAssumption DEF Idle, Request, Kinds, Cookies, Stages, Answers

(* A request goes on to its next stretch.                                  *)
LEMMA GotoMoves ==
    ASSUME IInv, NEW r \in Requests, NEW stage \in Stages, Goto(r, stage)
    PROVE  Moved(r, stage)
<1>1. req \in [Requests -> Request] /\ req[r] \in Request
  BY DEF IInv, TypeOK
<1>2. req' = [req EXCEPT ![r] = [req[r] EXCEPT !.pc = stage]]
  BY <1>1 DEF Goto
<1>3. [req[r] EXCEPT !.pc = stage] \in Request
  BY <1>1 DEF Request
<1>4. req'[r] = [req[r] EXCEPT !.pc = stage] /\ Only(r)
  BY <1>1, <1>2, <1>3 DEF Only
<1> QED
  BY <1>1, <1>4 DEF Moved, Request

(* A request begins a transaction or a statement.                          *)
LEMMA BeginMoves ==
    ASSUME IInv, NEW r \in Requests, NEW stage \in Stages, Begin(r, stage)
    PROVE  Moved(r, stage) /\ req'[r].start = now
<1>1. req \in [Requests -> Request] /\ req[r] \in Request /\ now \in 0..MaxNow
  BY DEF IInv, TypeOK
<1>2. req' = [req EXCEPT ![r] = [req[r] EXCEPT !.pc = stage, !.start = now]]
  BY <1>1, Zenon DEF Begin
<1>3. [req[r] EXCEPT !.pc = stage, !.start = now] \in Request
  BY <1>1, Zenon DEF Request
<1>4. /\ req'[r] = [req[r] EXCEPT !.pc = stage, !.start = now]
      /\ Only(r)
  BY <1>1, <1>2, <1>3 DEF Only
<1> QED
  BY <1>1, <1>4 DEF Moved, Request

(* A request is answered, or dropped.                                      *)
LEMMA AnswerRests ==
    ASSUME IInv, NEW r \in Requests,
           Finish(r) \/ \E answer \in Answers : Answer(r, answer)
    PROVE  Rested(r)
<1>1. req \in [Requests -> Request] /\ req[r] \in Request
  BY DEF IInv, TypeOK
<1>2. CASE Finish(r)
  <2>1. [Idle EXCEPT !.pc = "done"] \in Request
    BY IdleTyped DEF Request, Stages
  <2>2. [Idle EXCEPT !.pc = "done"].pc = "done" /\ [Idle EXCEPT !.pc = "done"].kind = "entry"
    BY DEF Idle
  <2> QED
    BY <1>1, <1>2, <2>1, <2>2 DEF Finish, Only, Rested
<1>3. CASE \E answer \in Answers : Answer(r, answer)
  <2>1. PICK answer \in Answers : Answer(r, answer)
    BY <1>3
  <2> DEFINE new == [Idle EXCEPT !.browser = req[r].browser, !.pc = "reply", !.answer = answer]
  <2>2. new \in Request
    BY <1>1, IdleTyped, Zenon DEF Request, Stages
  <2>3. new.pc = "reply" /\ new.kind = "entry"
    BY DEF Idle
  <2>4. req' = [req EXCEPT ![r] = new]
    BY <2>1, Zenon DEF Answer
  <2> HIDE DEF new
  <2> QED
    BY <1>1, <2>2, <2>3, <2>4 DEF Only, Rested
<1> QED
  BY <1>2, <1>3

(* A request is sent.                                                      *)
LEMMA SendTyped ==
    ASSUME IInv, NEW r \in Requests, NEW b \in Browsers, NEW kind \in Kinds,
           NEW e \in Emails \union {None},
           NEW pw \in Passwords \union {Malformed, None},
           NEW form \in Tokens \union {None}, Send(r, b, kind, e, pw, form)
    PROVE  /\ Only(r)
           /\ req'[r].pc = "context" /\ req'[r].kind = kind
           /\ req'[r].email = e /\ req'[r].password = pw
<1>1. req \in [Requests -> Request] /\ jar[b] \in Cookies
  BY DEF IInv, TypeOK
<1> DEFINE new == [Idle EXCEPT !.kind = kind, !.browser = b, !.email = e,
                               !.password = pw, !.form = form,
                               !.cookies = jar[b], !.pc = "context"]
<1>2. new \in Request
  BY <1>1, IdleTyped, Zenon DEF Request, Stages
<1>3. new.pc = "context" /\ new.kind = kind /\ new.email = e /\ new.password = pw
  BY DEF Idle
<1>4. req' = [req EXCEPT ![r] = new]
  BY DEF Send
<1> HIDE DEF new
<1> QED
  BY <1>1, <1>2, <1>3, <1>4 DEF Only

(* A request learns who sent it.                                           *)
LEMMA FindMoves ==
    ASSUME IInv, NEW r \in Requests, FindSession(r)
    PROVE  /\ Moved(r, "handler")
           /\ UNCHANGED dbVars \/ Refreshes(r)
<1>1. req \in [Requests -> Request] /\ req[r] \in Request /\ DOMAIN session \subseteq Tokens
  BY SMTT(60) DEF IInv, TypeOK
<1>2. PICK p \in Tokens \union {None} : Attached(r, p)
  BY <1>1 DEF FindSession, LiveAt
<1>3. req' = [req EXCEPT ![r] = [req[r] EXCEPT !.pc = "handler", !.principal = p, !.start = 0]]
  BY <1>1, <1>2, Zenon DEF Attached
<1>4. 0 \in 0..MaxNow
  BY AccountsAssumption
<1>5. [req[r] EXCEPT !.pc = "handler", !.principal = p, !.start = 0] \in Request
  BY <1>1, <1>4, Zenon DEF Request, Stages
<1>6. /\ req'[r] = [req[r] EXCEPT !.pc = "handler", !.principal = p, !.start = 0]
      /\ Only(r)
  BY <1>1, <1>3, <1>5 DEF Only
<1>7. Moved(r, "handler")
  BY <1>1, <1>6, ZenonT(30) DEF Moved, Request
<1>8. UNCHANGED dbVars \/ Refreshes(r)
  BY Zenon DEF FindSession, Refreshes, dbVars, LiveAt
<1> QED
  BY <1>7, <1>8

(* The steps of a request.                                                 *)
Sends(r) ==
    \E b \in Browsers :
       \/ \E kind \in {"entry", "lab", "access"} :
             Send(r, b, kind, None, None, None)
       \/ \E kind \in {"signup", "login"}, e \in Emails,
             pw \in Passwords \union {Malformed}, form \in seen[b] :
             Send(r, b, kind, e, pw, form)
       \/ \E form \in seen[b] : Send(r, b, "logout", None, None, form)
       \/ \E i \in DOMAIN intent : Send(r, b, "demo", None, None, i)

Does(r) ==
    \/ Sends(r)
    \/ AttachBrowserContext(r) \/ FindSession(r)
    \/ EntryPage(r) \/ LabView(r) \/ Logout(r)
    \/ SignupSubmit(r) \/ SignupBegin(r) \/ SignupCommit(r)
    \/ LoginSubmit(r) \/ LoginLookup(r) \/ LoginRehash(r)
    \/ LoginBegin(r) \/ LoginCommit(r)
    \/ Access(r) \/ DemoBegin(r) \/ DemoSelect(r) \/ DemoIssue(r)
    \/ Deliver(r) \/ Drop(r)

(* What a step of r makes of the tables and of r.                          *)
Kept(r) ==
    /\ DbStep(r)
    /\ Only(r)
    /\ RequestOK(r)'
    /\ At(r, "demo", "commit")' =>
          ~ \E x \in Requests : At(x, "demo", "commit") /\ req[x].form = req'[r].form
    /\ req'[r].pc = "find" => req'[r].start = now

(* A request that is answered has nothing more to know.                    *)
LEMMA RestedKept ==
    ASSUME NEW r \in Requests, Rested(r), DbStep(r)
    PROVE  Kept(r)
BY DEF Rested, Kept, RequestOK, At

(* A request that moves on keeps its tokens fresh and its form.            *)
LEMMA MovedKept ==
    ASSUME IInv, NEW r \in Requests, NEW stage \in Stages, Moved(r, stage), DbStep(r),
           DOMAIN account' = DOMAIN account, DOMAIN session' = DOMAIN session,
           DOMAIN intent' = DOMAIN intent,
           stage = "done" \/ req[r].pc \notin {"reply", "done"},
           /\ req[r].kind \in {"signup", "login"}
           /\ stage \in {"begin", "commit", "lookup", "rehash"}
           => req[r].password \in Passwords,
           /\ req[r].kind \in {"signup", "login"}
           /\ stage \in {"context", "find", "handler"}
           => req[r].password \in Passwords \union {Malformed},
           req[r].kind = "login" /\ stage \in {"rehash", "begin", "commit"} =>
              Registered(req[r].email),
           req[r].kind = "login" /\ stage = "rehash" =>
              identity[req[r].email].password = req[r].password,
           ~ (req[r].kind = "demo" /\ stage = "commit"),
           stage = "find" => req'[r].start = now
    PROVE  Kept(r)
<1>1. RequestOK(r) /\ Grows(r)
  BY DbGrows DEF IInv, Tokens
<1>2. req'[r].pc = stage /\ req'[r].kind = req[r].kind /\ req'[r].email = req[r].email
      /\ req'[r].password = req[r].password /\ Only(r)
  BY DEF Moved
<1>3. req'[r].pc \notin {"reply", "done"} =>
         r \notin DOMAIN account' \union DOMAIN session' \union DOMAIN intent'
  BY <1>1, <1>2, SMTT(60) DEF RequestOK
<1>4. req[r].kind = "login" /\ stage \in {"rehash", "begin", "commit"} =>
         /\ identity'[req[r].email] # None
         /\ identity'[req[r].email].password = identity[req[r].email].password
  BY <1>1, SMTT(60) DEF Grows, Registered, RequestOK
<1>5. RequestOK(r)'
  BY <1>1, <1>2, <1>3, <1>4 DEF RequestOK, At, Registered
<1> QED
  BY <1>2, <1>5 DEF Kept, At

(* The pages, logout, and what answers without touching a table.           *)
LEMMA PagesKept ==
    ASSUME IInv, NEW r \in Requests,
           \/ EntryPage(r) \/ LabView(r) \/ Logout(r) \/ Access(r) \/ Drop(r)
    PROVE  Kept(r)
<1>1. Finish(r) \/ \E answer \in Answers : Answer(r, answer)
  BY DEF EntryPage, LabView, Logout, Access, Drop, Answers
<1>2. req[r].cookies.session \in Tokens \union {None}
  BY DEF IInv, TypeOK, Request, Cookies
<1>3. Access(r) => Fresh(r)
  BY DEF Access, At, IInv, RequestOK, Fresh
<1>4. DbStep(r)
  <2>1. CASE Access(r)
    BY <1>3, <2>1, ZenonT(30) DEF Access, DbStep, Intends, dbVars
  <2>2. CASE Logout(r)
    BY <1>2, <2>2, ZenonT(30) DEF Logout, DbStep, Leaves, dbVars
  <2>3. CASE EntryPage(r) \/ LabView(r) \/ Drop(r)
    BY <2>3, SMTT(60) DEF EntryPage, LabView, Drop, DbStep
  <2> QED
    BY <2>1, <2>2, <2>3
<1> QED
  BY <1>1, <1>4, AnswerRests, RestedKept

(* signup.                                                                 *)
LEMMA SignupKept ==
    ASSUME IInv, NEW r \in Requests,
           SignupSubmit(r) \/ SignupBegin(r) \/ SignupCommit(r)
    PROVE  Kept(r)
<1>1. /\ RequestOK(r) /\ req[r].kind = "signup" /\ req[r].email \in Emails
      /\ req[r].pc \in {"handler", "begin", "commit"} /\ Fresh(r)
  BY ZenonT(60) DEF SignupSubmit, SignupBegin, SignupCommit, At, IInv, RequestOK, Fresh
<1>2. CASE \E answer \in Answers : Answer(r, answer)
  <2>1. DbStep(r)
    <3>1. CASE SignupSubmit(r) \/ SignupBegin(r)
      BY <3>1 DEF SignupSubmit, SignupBegin, DbStep
    <3>2. CASE SignupCommit(r)
      <4>1. req[r].password \in Passwords
        BY <1>1, <3>2, ZenonT(30) DEF RequestOK, SignupCommit, At
      <4> QED
        BY <1>1, <3>2, <4>1, ZenonT(30) DEF SignupCommit, DbStep, Registers, Registered, dbVars
    <3> QED
      BY <3>1, <3>2
  <2> QED
    BY <1>2, <2>1, AnswerRests, RestedKept
<1>3. CASE SignupSubmit(r) /\ Goto(r, "begin") /\ req[r].password # Malformed
  <2>1. UNCHANGED dbVars /\ DbStep(r) /\ req[r].password \in Passwords
    BY <1>1, <1>3 DEF SignupSubmit, DbStep, RequestOK, At
  <2>2. Moved(r, "begin") /\ "begin" \in Stages
    BY <1>3, GotoMoves DEF Stages
  <2> QED
    BY <1>1, <2>1, <2>2, MovedKept, SMTT(60) DEF dbVars
<1>4. CASE SignupBegin(r) /\ Begin(r, "commit")
  <2>1. UNCHANGED dbVars /\ DbStep(r) /\ req[r].password \in Passwords
    BY <1>1, <1>4, Zenon DEF SignupBegin, DbStep, RequestOK, At
  <2>2. Moved(r, "commit") /\ "commit" \in Stages
    BY <1>4, BeginMoves DEF Stages
  <2> QED
    BY <1>1, <2>1, <2>2, MovedKept, ZenonT(30) DEF dbVars
<1>5. CASE SignupSubmit(r)
  BY <1>2, <1>3, <1>5 DEF SignupSubmit, Answers
<1>6. CASE SignupBegin(r)
  BY <1>2, <1>4, <1>6 DEF SignupBegin, Answers
<1>7. CASE SignupCommit(r)
  BY <1>2, <1>7 DEF SignupCommit, Answers
<1> QED
  BY <1>5, <1>6, <1>7

(* login.                                                                  *)
LEMMA LoginKept ==
    ASSUME IInv, NEW r \in Requests,
           \/ LoginSubmit(r) \/ LoginLookup(r) \/ LoginRehash(r)
           \/ LoginBegin(r) \/ LoginCommit(r)
    PROVE  Kept(r)
<1>1. /\ RequestOK(r) /\ req[r].kind = "login" /\ req[r].email \in Emails
      /\ req[r].pc \in {"handler", "lookup", "rehash", "begin", "commit"} /\ Fresh(r)
  BY Zenon DEF LoginSubmit, LoginLookup, LoginRehash, LoginBegin, LoginCommit, At, IInv,
         RequestOK, Fresh
<1>2. CASE \E answer \in Answers : Answer(r, answer)
  <2>1. DbStep(r)
    <3>1. CASE LoginSubmit(r) \/ LoginLookup(r) \/ LoginBegin(r)
      BY <3>1 DEF LoginSubmit, LoginLookup, LoginBegin, DbStep
    <3>2. CASE LoginRehash(r)
      BY <1>1, <3>2, ZenonT(30) DEF LoginRehash, DbStep, Rehashes, dbVars, RequestOK, At
    <3>3. CASE LoginCommit(r)
      <4>1. identity[req[r].email].account \in DOMAIN account
        BY <1>1, <3>3, ZenonT(30) DEF LoginCommit, At, RequestOK, IInv, RowsOK
      <4> QED
        BY <1>1, <3>3, <4>1, ZenonT(30) DEF LoginCommit, DbStep, Enters, dbVars
    <3> QED
      BY <3>1, <3>2, <3>3, Zenon
  <2> QED
    BY <1>2, <2>1, AnswerRests, RestedKept
<1>3. CASE LoginSubmit(r) /\ Goto(r, "lookup") /\ req[r].password # Malformed
  <2>1. UNCHANGED dbVars /\ DbStep(r) /\ req[r].password \in Passwords
    BY <1>1, <1>3, Zenon DEF LoginSubmit, DbStep, RequestOK, At
  <2>2. Moved(r, "lookup") /\ "lookup" \in Stages
    BY <1>3, GotoMoves DEF Stages
  <2> QED
    BY <1>1, <2>1, <2>2, MovedKept, ZenonT(30) DEF dbVars
<1>4. CASE LoginLookup(r) /\ ~ \E answer \in Answers : Answer(r, answer)
  <2>1. /\ UNCHANGED dbVars /\ DbStep(r) /\ req[r].password \in Passwords
        /\ Registered(req[r].email)
        /\ identity[req[r].email].password = req[r].password
        /\ Goto(r, "rehash") \/ Goto(r, "begin")
    BY <1>1, <1>4, ZenonT(30) DEF LoginLookup, DbStep, RequestOK, At, Registered, Answers
  <2>2. /\ Moved(r, "rehash") \/ Moved(r, "begin")
        /\ "begin" \in Stages /\ "rehash" \in Stages
    BY <2>1, GotoMoves, SMTT(60) DEF Stages
  <2> QED
    BY <1>1, <2>1, <2>2, MovedKept, ZenonT(30) DEF dbVars
<1>5. CASE LoginRehash(r) /\ Goto(r, "begin")
  <2>1. /\ UNCHANGED <<account, session, intent>> /\ DbStep(r)
        /\ req[r].password \in Passwords /\ Registered(req[r].email)
    BY <1>1, <1>5 DEF LoginRehash, DbStep, Rehashes, dbVars, RequestOK, At
  <2>2. Moved(r, "begin") /\ "begin" \in Stages
    BY <1>5, GotoMoves DEF Stages
  <2> QED
    BY <1>1, <2>1, <2>2, MovedKept
<1>6. CASE LoginBegin(r)
  <2>1. /\ UNCHANGED dbVars /\ DbStep(r) /\ req[r].password \in Passwords
        /\ Registered(req[r].email) /\ Begin(r, "commit")
    BY <1>1, <1>6 DEF LoginBegin, DbStep, RequestOK, At
  <2>2. Moved(r, "commit") /\ "commit" \in Stages
    BY <2>1, BeginMoves DEF Stages
  <2> QED
    BY <1>1, <2>1, <2>2, MovedKept, SMTT(60) DEF dbVars
<1>7. CASE LoginSubmit(r)
  BY <1>2, <1>3, <1>7 DEF LoginSubmit, Answers
<1>8. CASE LoginRehash(r)
  BY <1>2, <1>5, <1>8 DEF LoginRehash, Answers
<1>9. CASE LoginCommit(r)
  BY <1>2, <1>9 DEF LoginCommit, Answers
<1> QED
  BY <1>2, <1>4, <1>6, <1>7, <1>8, <1>9

(* The one-time form.                                                      *)
LEMMA DemoKept ==
    ASSUME IInv, NEW r \in Requests, DemoBegin(r) \/ DemoSelect(r) \/ DemoIssue(r)
    PROVE  Kept(r)
<1>1. /\ RequestOK(r) /\ req[r].kind = "demo" /\ req[r].pc \in {"handler", "begin", "commit"}
      /\ Fresh(r)
  BY DEF DemoBegin, DemoSelect, DemoIssue, At, IInv, RequestOK, Fresh
<1>2. CASE \E answer \in Answers : Answer(r, answer)
  <2>1. DbStep(r)
    BY <1>1 DEF DemoBegin, DemoSelect, DemoIssue, DbStep, Issues, RequestOK, At, dbVars
  <2> QED
    BY <1>2, <2>1, AnswerRests, RestedKept
<1>3. CASE DemoSelect(r) /\ Usable(req[r].form, req[r].start) /\ Goto(r, "commit")
  <2>1. /\ UNCHANGED dbVars /\ DbStep(r) /\ Moved(r, "commit")
        /\ ~ \E x \in Requests : At(x, "demo", "commit") /\ req[x].form = req[r].form
        /\ req[r].form \in DOMAIN intent /\ intent[req[r].form].keys = {}
    BY <1>3, GotoMoves DEF DemoSelect, DbStep, Usable, Stages
  <2>2. /\ req'[r].form = req[r].form /\ req'[r].kind = "demo" /\ Only(r)
        /\ req'[r].pc = "commit"
    BY <1>1, <2>1, ZenonT(30) DEF Moved
  <2>3. RequestOK(r)'
    BY <1>1, <2>1, <2>2, Zenon DEF RequestOK, At, Fresh, dbVars
  <2> QED
    BY <2>1, <2>2, <2>3, SMTT(60) DEF Kept
<1>4. CASE DemoBegin(r)
  <2>1. UNCHANGED dbVars /\ DbStep(r) /\ Begin(r, "begin") /\ "begin" \in Stages
    BY <1>4 DEF DemoBegin, DbStep, Stages
  <2>2. Moved(r, "begin")
    BY <2>1, BeginMoves
  <2> QED
    BY <1>1, <2>1, <2>2, MovedKept DEF dbVars
<1> QED
  BY <1>2, <1>3, <1>4 DEF DemoSelect, DemoIssue, Answers

(* Sending a request, learning who sent it, and receiving its response.    *)
LEMMA TransportKept ==
    ASSUME IInv, NEW r \in Requests,
           Sends(r) \/ AttachBrowserContext(r) \/ FindSession(r) \/ Deliver(r)
    PROVE  Kept(r)
<1>1. RequestOK(r)
  BY DEF IInv
<1>2. CASE Sends(r)
  <2>1. req[r].pc = "idle" /\ UNCHANGED dbVars /\ DbStep(r)
    BY <1>2, ZenonT(30) DEF Sends, Send, DbStep
  <2>2. /\ Only(r) /\ req'[r].pc = "context"
        /\ req'[r].kind \in {"signup", "login"} =>
              /\ req'[r].email \in Emails
              /\ req'[r].password \in Passwords \union {Malformed}
    <3>1. \A b \in Browsers : seen[b] \subseteq Tokens
      BY DEF IInv, TypeOK
    <3>2. DOMAIN intent \subseteq Tokens
      BY DEF IInv, TypeOK
    <3>3. PICK b \in Browsers :
             \/ \E kind \in {"entry", "lab", "access"} :
                   Send(r, b, kind, None, None, None)
             \/ \E kind \in {"signup", "login"}, e \in Emails,
                   pw \in Passwords \union {Malformed}, form \in seen[b] :
                   Send(r, b, kind, e, pw, form)
             \/ \E form \in seen[b] : Send(r, b, "logout", None, None, form)
             \/ \E i \in DOMAIN intent : Send(r, b, "demo", None, None, i)
      BY <1>2 DEF Sends
    <3>4. CASE \E kind \in {"entry", "lab", "access"} : Send(r, b, kind, None, None, None)
      BY <3>4, SendTyped DEF Kinds
    <3>5. CASE \E kind \in {"signup", "login"}, e \in Emails,
                  pw \in Passwords \union {Malformed}, form \in seen[b] :
                  Send(r, b, kind, e, pw, form)
      BY <3>1, <3>5, SendTyped, SMTT(60) DEF Kinds
    <3>6. CASE \E form \in seen[b] : Send(r, b, "logout", None, None, form)
      BY <3>1, <3>6, SendTyped DEF Kinds
    <3>7. CASE \E i \in DOMAIN intent : Send(r, b, "demo", None, None, i)
      BY <3>2, <3>7, SendTyped, SMTT(60) DEF Kinds
    <3> QED
      BY <3>3, <3>4, <3>5, <3>6, <3>7
  <2>3. RequestOK(r)'
    BY <1>1, <2>1, <2>2, SMTT(60) DEF RequestOK, At, dbVars
  <2> QED
    BY <2>1, <2>2, <2>3, ZenonT(30) DEF Kept, At
<1>3. CASE AttachBrowserContext(r)
  <2>1. /\ UNCHANGED dbVars /\ DbStep(r) /\ "handler" \in Stages /\ "find" \in Stages
        /\ Goto(r, "handler") \/ Begin(r, "find")
    BY <1>3, Zenon DEF AttachBrowserContext, DbStep, Stages
  <2>2. Moved(r, "handler") \/ (Moved(r, "find") /\ req'[r].start = now)
    BY <2>1, GotoMoves, BeginMoves
  <2>6. req[r].pc = "context"
    BY <1>3, Zenon DEF AttachBrowserContext
  <2>3. /\ req[r].pc = "context"
        /\ req[r].kind \in {"signup", "login"} =>
              req[r].password \in Passwords \union {Malformed}
    BY <1>1, <2>6 DEF RequestOK
  <2>4. CASE Moved(r, "handler")
    BY <2>1, <2>3, <2>4, MovedKept DEF dbVars
  <2>5. CASE Moved(r, "find") /\ req'[r].start = now
    BY <2>1, <2>3, <2>5, MovedKept DEF dbVars
  <2> QED
    BY <2>2, <2>4, <2>5
<1>5. CASE FindSession(r)
  <2>1. Moved(r, "handler") /\ (UNCHANGED dbVars \/ Refreshes(r))
    BY <1>5, FindMoves
  <2>2. /\ DbStep(r) /\ DOMAIN account' = DOMAIN account
        /\ DOMAIN session' = DOMAIN session /\ DOMAIN intent' = DOMAIN intent
    BY <2>1, RefreshedSessions DEF DbStep, Refreshes, dbVars
  <2>4. req[r].pc = "find"
    BY <1>5, Zenon DEF FindSession
  <2>3. /\ req[r].pc = "find" /\ "handler" \in Stages
        /\ req[r].kind \in {"signup", "login"} =>
              req[r].password \in Passwords \union {Malformed}
    BY <1>1, <2>4 DEF RequestOK, Stages
  <2> QED
    BY <2>1, <2>2, <2>3, MovedKept
<1>4. CASE Deliver(r)
  <2>1. UNCHANGED dbVars /\ DbStep(r) /\ Goto(r, "done") /\ "done" \in Stages
    BY <1>4 DEF Deliver, DbStep, Stages
  <2>2. Moved(r, "done")
    BY <2>1, GotoMoves
  <2> QED
    BY <2>1, <2>2, MovedKept DEF dbVars
<1> QED
  BY <1>2, <1>3, <1>4, <1>5

(* Every step of a request.                                                *)
LEMMA ActorKept ==
    ASSUME IInv, NEW r \in Requests, Does(r)
    PROVE  Kept(r)
BY PagesKept, SignupKept, LoginKept, DemoKept, TransportKept DEF Does

(* What a step of one request leaves to the others: rows they know of stay *)
(* as they know them, and an intent that one holds is not another's.       *)
LEMMA OthersKept ==
    ASSUME IInv, NEW r \in Requests, Kept(r)
    PROVE  (\A x \in Requests : RequestOK(x)') /\ OneOwner'
<1>1. Grows(r) /\ Only(r)
  BY DbGrows, SMTT(60) DEF Kept, Tokens
<1>2. ASSUME NEW x \in Requests, x # r
      PROVE  RequestOK(x)'
  <2>1. RequestOK(x) /\ req'[x] = req[x]
    BY <1>1, <1>2 DEF IInv, Only
  <2>2. At(x, "demo", "commit") =>
           /\ req[x].form \in DOMAIN intent'
           /\ intent'[req[x].form].keys = {}
    BY <1>1, <1>2, <2>1, ZenonT(30) DEF RequestOK, Grows, IInv, OneOwner
  <2>3. req[x].pc \notin {"reply", "done"} =>
           x \notin DOMAIN account' \union DOMAIN session' \union DOMAIN intent'
    BY <1>1, <1>2, <2>1, ZenonT(30) DEF RequestOK, Grows
  <2>4. req[x].kind = "login" /\ req[x].pc \in {"rehash", "begin", "commit"} =>
           /\ identity'[req[x].email] # None
           /\ identity'[req[x].email].password = identity[req[x].email].password
    BY <1>1, <2>1, Zenon DEF RequestOK, Grows, Registered
  <2> QED
    BY <2>1, <2>2, <2>3, <2>4 DEF RequestOK, At, Registered
<1>3. OneOwner'
  <2> SUFFICES ASSUME NEW x \in Requests, NEW y \in Requests,
                      At(x, "demo", "commit")', At(y, "demo", "commit")',
                      req'[x].form = req'[y].form, x # y
               PROVE  FALSE
    BY DEF OneOwner
  <2>1. CASE x # r /\ y # r
    BY <1>1, <2>1 DEF Only, At, IInv, OneOwner
  <2>2. CASE x = r
    BY <1>1, <2>2 DEF Only, At, Kept
  <2>3. CASE y = r
    BY <1>1, <2>3 DEF Only, At, Kept
  <2> QED
    BY <2>1, <2>2, <2>3
<1> QED
  BY <1>2, <1>3 DEF Kept

(***************************************************************************)
(* The operators, and the invariant.                                       *)
(***************************************************************************)
OperatorDoes(o) ==
    \/ \E a \in DOMAIN account, status \in {"suspended", "closed"} :
          OperatorBegin(o, a, status)
    \/ SetAccountStatus(o)

(* Every step of an operator.                                              *)
LEMMA OperatorStep ==
    ASSUME IInv, NEW o \in Operators, OperatorDoes(o)
    PROVE  /\ UNCHANGED dbVars \/ Closes
           /\ UNCHANGED <<now, jar, seen, req>>
           /\ op' \in [Operators -> OperatorCall]
           /\ \A p \in Operators : OperatorOK(p)'
<1> DEFINE Goal == /\ UNCHANGED dbVars \/ Closes
                   /\ UNCHANGED <<now, jar, seen, req>>
                   /\ op' \in [Operators -> OperatorCall]
                   /\ \A p \in Operators : OperatorOK(p)'
<1>1. op \in [Operators -> OperatorCall] /\ DOMAIN account \subseteq Tokens
      /\ now \in 0..MaxNow
  BY DEF IInv, TypeOK
<1>2. ASSUME NEW a \in DOMAIN account, NEW status \in {"suspended", "closed"},
             OperatorBegin(o, a, status)
      PROVE  Goal
  <2>1. [pc |-> "commit", account |-> a, status |-> status, start |-> now] \in OperatorCall
    BY <1>1 DEF OperatorCall
  <2> QED
    BY <1>1, <1>2, <2>1 DEF OperatorBegin, OperatorOK, IInv, dbVars
<1>3. CASE SetAccountStatus(o)
  <2>1. /\ op' = [op EXCEPT ![o] = [op[o] EXCEPT !.pc = "done"]]
        /\ op[o] \in OperatorCall /\ op[o].pc = "commit"
    BY <1>1, <1>3 DEF SetAccountStatus
  <2>2. [op[o] EXCEPT !.pc = "done"] \in OperatorCall
    BY <2>1 DEF OperatorCall
  <2>3. /\ op' \in [Operators -> OperatorCall]
        /\ op'[o].pc = "done"
        /\ \A p \in Operators : p # o => op'[p] = op[p]
    BY <1>1, <2>1, <2>2 DEF OperatorCall
  <2>4. op[o].account \in DOMAIN account /\ op[o].status \in {"suspended", "closed"}
    BY <2>1 DEF IInv, OperatorOK
  <2>5. UNCHANGED dbVars \/ Closes
    BY <1>3, <2>4 DEF SetAccountStatus, Closes, dbVars
  <2>6. DOMAIN account' = DOMAIN account
    BY <2>5 DEF Closes, dbVars
  <2>7. \A p \in Operators : OperatorOK(p)'
    BY <2>3, <2>6 DEF IInv, OperatorOK
  <2> QED
    BY <1>3, <2>3, <2>5, <2>7 DEF SetAccountStatus
<1> QED
  BY <1>2, <1>3 DEF OperatorDoes

(* The cookies and pages of the browsers.                                  *)
LEMMA BrowserTypes ==
    ASSUME IInv, NEW r \in Requests, Does(r)
    PROVE  /\ jar' \in [Browsers -> Cookies] /\ seen' \in [Browsers -> SUBSET Tokens]
           /\ UNCHANGED <<now, op>>
<1>1. /\ jar \in [Browsers -> Cookies] /\ seen \in [Browsers -> SUBSET Tokens]
      /\ req[r] \in Request /\ r \in Tokens
  BY DEF IInv, TypeOK, Tokens
<1>2. CASE Deliver(r)
  <2> DEFINE b == req[r].browser
             a == req[r].answer
             cookies == IF a = "signed_in" THEN [session |-> r, csrf |-> r]
                        ELSE IF a = "logged_out" THEN [session |-> None, csrf |-> None]
                        ELSE IF a \in EntryAnswers THEN [jar[b] EXCEPT !.csrf = r]
                        ELSE jar[b]
  <2>1. b \in Browsers
    BY <1>1 DEF Request
  <2>2. jar[b] \in Cookies /\ [jar[b] EXCEPT !.csrf = r] \in Cookies
        /\ [session |-> r, csrf |-> r] \in Cookies
        /\ [session |-> None, csrf |-> None] \in Cookies
    BY <1>1, <2>1 DEF Cookies
  <2>3. cookies \in Cookies
    BY <2>2
  <2>4. jar' = [jar EXCEPT ![b] = cookies]
    BY <1>2 DEF Deliver
  <2>5. seen' \in [Browsers -> SUBSET Tokens]
    BY <1>1, <1>2, <2>1 DEF Deliver
  <2> HIDE DEF cookies
  <2>6. jar' \in [Browsers -> Cookies]
    BY <1>1, <2>3, <2>4, Zenon
  <2> QED
    BY <1>2, <2>5, <2>6, SMTT(60) DEF Deliver
<1>3. CASE ~ Deliver(r)
  <2>1. UNCHANGED <<now, jar, seen, op>>
    BY <1>3, ZenonT(30) DEF Does, Sends, Send, AttachBrowserContext, FindSession, EntryPage, LabView, Logout,
                SignupSubmit, SignupBegin, SignupCommit, LoginSubmit, LoginLookup,
                LoginRehash, LoginBegin, LoginCommit, Access, DemoBegin, DemoSelect, DemoIssue, Drop
  <2> QED
    BY <1>1, <2>1
<1> QED
  BY <1>2, <1>3

(* IInv holds in every initial state.                                      *)
LEMMA Initially == Init => IInv
<1> SUFFICES ASSUME Init
             PROVE  IInv
  OBVIOUS
<1>1. /\ Seed \in Tokens /\ SeedSession \in [{Seed} -> Session]
      /\ SeedIntent \in [{Seed} -> Intent]
  BY AccountsAssumption, SMTT(60) DEF Tokens, SeedSession, Session, SeedIntent, Intent
<1>2. /\ req \in [Requests -> Request] /\ op \in [Operators -> OperatorCall]
      /\ seen \in [Browsers -> SUBSET Tokens] /\ now \in 0..MaxNow
  <2>1. req = [r \in Requests |-> Idle] /\ now = 0 /\ seen = [b \in Browsers |-> {Seed}]
        /\ op = [o \in Operators |->
                   [pc |-> "idle", account |-> None, status |-> None, start |-> 0]]
    BY Zenon DEF Init
  <2>2. [pc |-> "idle", account |-> None, status |-> None, start |-> 0] \in OperatorCall
    BY AccountsAssumption DEF OperatorCall
  <2>3. req \in [Requests -> Request]
    BY <2>1, IdleTyped
  <2>4. op \in [Operators -> OperatorCall]
    BY <2>1, <2>2
  <2> QED BY <1>1, <2>1, <2>3, <2>4, AccountsAssumption
<1>3. jar \in [Browsers -> Cookies]
  BY <1>1 DEF Init, Cookies
<1>4. /\ \A r \in Requests : req[r].pc = "idle" /\ req[r].kind = "entry"
      /\ \A o \in Operators : op[o].pc = "idle"
  BY ZenonT(30) DEF Init, Idle
<1>5. DOMAIN account \subseteq {Seed} /\ DOMAIN session \subseteq {Seed}
      /\ DOMAIN intent \subseteq {Seed}
  BY ZenonT(30) DEF Init, Nothing, SeedSession, SeedIntent
<1>6. (\A r \in Requests : RequestOK(r)) /\ OneOwner /\ \A o \in Operators : OperatorOK(o)
  BY <1>4, <1>5, AccountsAssumption DEF RequestOK, At, OneOwner, OperatorOK
<1>7. CASE account = Nothing
  <2>1. /\ intent \in {Nothing, SeedIntent} /\ identity = NoAccount /\ workspace = {}
        /\ session = Nothing
    BY <1>7, ZenonT(60) DEF Init, Nothing
  <2>2. DbTyped
    BY <1>1, <1>7, <2>1, ZenonT(30) DEF DbTyped, Nothing, NoAccount
  <2>3. /\ DOMAIN account = {} /\ DOMAIN session = {}
        /\ \A e \in Emails : identity[e] = None
        /\ \A i \in DOMAIN intent : intent[i].keys = {}
    BY <1>7, <2>1 DEF Nothing, NoAccount, SeedIntent
  <2>4. RowsOK
    BY <2>1, <2>3 DEF RowsOK, Registered
  <2> QED
    BY <1>2, <1>3, <1>6, <2>2, <2>4, ZenonT(30) DEF IInv, TypeOK, DbTyped
<1>8. CASE account = [a \in {Seed} |-> "active"]
  <2>1. /\ intent = Nothing /\ workspace = {Seed}
        /\ session \in {SeedSession, Nothing}
    BY <1>8 DEF Init, Nothing
  <2>2. PICK e \in Emails, pw \in Passwords \union {None}, w \in BOOLEAN :
           identity = [NoAccount EXCEPT ![e] =
                         [account |-> Seed, password |-> pw, weak |-> w]]
    BY <1>8, ZenonT(30) DEF Init, Nothing
  <2>3. [account |-> Seed, password |-> pw, weak |-> w] \in Identity
    BY <1>1 DEF Identity
  <2>4. /\ identity[e] \in Identity /\ identity[e].account = Seed
        /\ \A f \in Emails : f # e => identity[f] = None
        /\ identity \in [Emails -> Identity \union {None}]
    BY <2>2, <2>3 DEF NoAccount
  <2>5. DbTyped
    BY <1>1, <1>8, <2>1, <2>4, ZenonT(30) DEF DbTyped, Nothing, Statuses
  <2>6. RowsOK
    BY <1>8, <2>1, <2>4, AccountsAssumption DEF RowsOK, Registered, Nothing, SeedSession
  <2> QED
    BY <1>2, <1>3, <1>6, <2>5, <2>6 DEF IInv, TypeOK, DbTyped
<1> QED
  BY <1>7, <1>8 DEF Init

(* A step that touches no request and no row a request knows of.           *)
LEMMA RequestsUntouched ==
    ASSUME IInv, UNCHANGED <<identity, intent, req>>,
           DOMAIN account' = DOMAIN account, DOMAIN session' = DOMAIN session
    PROVE  (\A x \in Requests : RequestOK(x)') /\ OneOwner'
<1>1. ASSUME NEW x \in Requests
      PROVE  RequestOK(x)'
  <2>1. RequestOK(x)
    BY DEF IInv
  <2> QED
    BY <2>1 DEF RequestOK, At, Registered
<1>2. OneOwner'
  BY DEF IInv, OneOwner, At
<1> QED
  BY <1>1, <1>2

(* Every step preserves IInv.                                              *)
LEMMA Inductive == IInv /\ [Next]_vars => IInv'
<1> SUFFICES ASSUME IInv, [Next]_vars
             PROVE  IInv'
  OBVIOUS
<1>1. ASSUME NEW r \in Requests, Does(r)
      PROVE  IInv'
  <2>1. Kept(r) /\ DbStep(r) /\ r \in Tokens
    BY <1>1, ActorKept DEF Kept, Tokens
  <2>2. DbTyped' /\ RowsOK' /\ Grows(r)
    BY <2>1, DbTypes, RowsStep, DbGrows, SMTT(60)
  <2>3. TypeOK'
    BY <1>1, <2>1, <2>2, BrowserTypes DEF TypeOK, DbTyped, Kept, Only, IInv
  <2>4. (\A x \in Requests : RequestOK(x)') /\ OneOwner'
    BY <2>1, OthersKept, ZenonT(30)
  <2>5. \A o \in Operators : OperatorOK(o)'
    BY <1>1, <2>2, BrowserTypes, Zenon DEF IInv, OperatorOK, Grows
  <2> QED
    BY <2>2, <2>3, <2>4, <2>5, SMTT(60) DEF IInv
<1>2. ASSUME NEW o \in Operators, OperatorDoes(o)
      PROVE  IInv'
  <2>1. /\ UNCHANGED dbVars \/ Closes
        /\ UNCHANGED <<now, jar, seen, req>>
        /\ op' \in [Operators -> OperatorCall]
        /\ \A p \in Operators : OperatorOK(p)'
    BY <1>2, OperatorStep
  <2>2. DbStep(Seed) /\ Seed \in Tokens
    BY <2>1 DEF DbStep, Tokens
  <2>3. DbTyped' /\ RowsOK'
    BY <2>2, DbTypes, RowsStep
  <2>4. TypeOK'
    BY <2>1, <2>3 DEF TypeOK, DbTyped, IInv
  <2>5. /\ UNCHANGED <<identity, intent, req>>
        /\ DOMAIN account' = DOMAIN account /\ DOMAIN session' = DOMAIN session
    BY <2>1, RevokedSessions, SMTT(60) DEF Closes, dbVars
  <2>6. (\A x \in Requests : RequestOK(x)') /\ OneOwner'
    BY <2>5, RequestsUntouched
  <2> QED
    BY <2>1, <2>3, <2>4, <2>6 DEF IInv
<1>3. ASSUME UNCHANGED <<dbVars, jar, seen, req, op>>, now' \in 0..MaxNow
      PROVE  IInv'
  <2>1. UNCHANGED <<account, identity, workspace, session, intent, jar, seen, req, op>>
    BY <1>3 DEF dbVars
  <2>2. TypeOK'
    BY <1>3, <2>1 DEF IInv, TypeOK
  <2>3. RowsOK'
    BY <2>1 DEF IInv, RowsOK, Registered
  <2>4. (\A x \in Requests : RequestOK(x)') /\ OneOwner'
    BY <2>1, RequestsUntouched
  <2>5. \A o \in Operators : OperatorOK(o)'
    BY <2>1 DEF IInv, OperatorOK
  <2> QED
    BY <2>2, <2>3, <2>4, <2>5 DEF IInv
<1>4. CASE Tick
  <2>1. now' \in 0..MaxNow
    BY <1>4, AccountsAssumption DEF Tick, IInv, TypeOK
  <2> QED
    BY <1>3, <1>4, <2>1 DEF Tick
<1>5. CASE UNCHANGED vars
  <2>1. now' \in 0..MaxNow /\ UNCHANGED <<dbVars, jar, seen, req, op>>
    BY <1>5 DEF vars, IInv, TypeOK
  <2> QED
    BY <1>3, <2>1
<1> QED
  BY <1>1, <1>2, <1>4, <1>5, Zenon DEF Next, Does, Sends, OperatorDoes

(* Every reachable state satisfies the inductive invariant.                *)
THEOREM AccountsInvariant == Spec => []IInv
<1> QED
  BY Initially, Inductive, PTL DEF Spec

(* Every variable keeps its type.                                          *)
THEOREM AccountsTypeCorrect == Spec => []TypeOK
<1>1. IInv => TypeOK
  BY DEF IInv
<1> QED
  BY <1>1, AccountsInvariant, PTL

(***************************************************************************)
(* The properties.                                                         *)
(***************************************************************************)

(* A set whose members are all equal has at most one.                      *)
LEMMA AtMostOne ==
    ASSUME NEW S, \A x, y \in S : x = y
    PROVE  Cardinality(S) <= 1 /\ (S # {} => Cardinality(S) = 1)
<1>1. CASE S = {}
  BY <1>1, FS_EmptySet
<1>2. CASE S # {}
  <2>1. PICK x \in S : TRUE
    BY <1>2
  <2>2. S = {x}
    BY <2>1
  <2> QED
    BY <2>2, FS_Singleton
<1> QED
  BY <1>1, <1>2

(* An account is created whole or not at all, and once per email.          *)
THEOREM SignupsAtomic == Spec => []SignupAtomic
<1>1. IInv => SignupAtomic
  <2> SUFFICES ASSUME IInv, NEW a \in DOMAIN account
               PROVE  Cardinality({e \in Emails : identity[e] # None
                                                  /\ identity[e].account = a}) = 1
    BY ZenonT(60) DEF SignupAtomic, IInv, RowsOK
  <2> DEFINE S == {e \in Emails : identity[e] # None /\ identity[e].account = a}
  <2>1. (\A e, f \in S : e = f) /\ S # {}
    BY ZenonT(60) DEF IInv, RowsOK, Registered
  <2> QED
    BY <2>1, AtMostOne, ZenonT(30)
<1> QED
  BY <1>1, AccountsInvariant, PTL

(* An account has at most one unrevoked session, and none unless active.   *)
THEOREM SessionsRotated == Spec => []SessionsRotate
<1>1. IInv => SessionsRotate
  <2> SUFFICES ASSUME IInv, NEW a \in DOMAIN account
               PROVE  Cardinality(Unrevoked(a)) <= IF account[a] = "active" THEN 1 ELSE 0
    BY SMTT(60) DEF SessionsRotate
  <2>1. \A s, t \in Unrevoked(a) : s = t
    BY ZenonT(60) DEF IInv, RowsOK, Unrevoked
  <2>2. CASE account[a] = "active"
    BY <2>1, <2>2, AtMostOne
  <2>3. CASE account[a] # "active"
    <3>1. Unrevoked(a) = {}
      BY <2>3, SMTT(60) DEF IInv, RowsOK, Unrevoked
    <3> QED
      BY <2>3, <3>1, FS_EmptySet, SMTT(60)
  <2> QED
    BY <2>2, <2>3
<1> QED
  BY <1>1, AccountsInvariant, PTL

(* A one-time form never yields two keys.                                  *)
THEOREM IntentsGiveOneKey == Spec => []OneKeyPerIntent
<1>1. IInv => OneKeyPerIntent
  BY AtMostOne DEF IInv, RowsOK, OneKeyPerIntent
<1> QED
  BY <1>1, AccountsInvariant, PTL

(* An email keeps its account and its password, whichever logins rehash it *)
(* meanwhile.                                                              *)
THEOREM PasswordsKept == Spec => PasswordKept
<1>1. IInv /\ [Next]_vars =>
         [\A e \in Emails : identity[e] # None =>
             /\ identity'[e].account = identity[e].account
             /\ identity'[e].password = identity[e].password]_vars
  <2> SUFFICES ASSUME IInv, Next, NEW e \in Emails, identity[e] # None
               PROVE  /\ identity'[e].account = identity[e].account
                      /\ identity'[e].password = identity[e].password
    OBVIOUS
  <2>1. ASSUME NEW r \in Requests, Does(r)
        PROVE  Grows(r)
    BY <2>1, ActorKept, DbGrows, Zenon DEF Kept, Tokens
  <2>2. ASSUME NEW o \in Operators, OperatorDoes(o)
        PROVE  UNCHANGED identity
    BY <2>2, OperatorStep DEF Closes, dbVars
  <2>3. Tick => UNCHANGED identity
    BY DEF Tick, dbVars
  <2>4. CASE \E r \in Requests : Grows(r)
    BY <2>4 DEF Grows, Registered
  <2>5. CASE UNCHANGED identity
    BY <2>5, Zenon
  <2> QED
    BY <2>1, <2>2, <2>3, <2>4, <2>5, ZenonT(60) DEF Next, Does, Sends, OperatorDoes
<1> QED
  BY <1>1, AccountsInvariant, PTL DEF Spec, PasswordKept

(* What a step leaves of the row of s: its deadlines, and no way back from *)
(* a revocation or from an account that is not active.                     *)
Worsens(s) ==
    /\ s \in DOMAIN session'
    /\ session'[s].expires = session[s].expires
    /\ session'[s].idle = session[s].idle
    /\ session'[s].account = session[s].account
    /\ ~ session'[s].revoked => ~ session[s].revoked
    /\ account'[session[s].account] = "active" => account[session[s].account] = "active"

(* No way of touching the tables does better by a session than that, save  *)
(* a refresh by a lookup that began while it could be found.               *)
LEMMA DeadStay ==
    ASSUME IInv, NEW r \in Tokens, DbStep(r), NEW s \in DOMAIN session
    PROVE  /\ Worsens(s) \/ LookupInTime(s)
           /\ session'[s].expires = session[s].expires
<1>0. session[s].account \in DOMAIN account
  BY DEF IInv, RowsOK
<1>1. CASE Refreshes(r)
  <2>1. PICK t \in DOMAIN session :
           /\ req[r].cookies.session = t /\ LiveAt(t, req[r].start)
           /\ session' = Refreshed(t, req[r].start)
    BY <1>1 DEF Refreshes
  <2>2. r \in Requests /\ req[r].pc = "find" /\ UNCHANGED account
    BY <1>1 DEF Refreshes
  <2>3. /\ DOMAIN session' = DOMAIN session
        /\ session'[s].expires = session[s].expires
        /\ s # t => session'[s] = session[s]
    BY <2>1, <2>2, RefreshedSessions, SMTT(60)
  <2>4. CASE s = t
    BY <2>1, <2>2, <2>3, <2>4 DEF LookupInTime
  <2>5. CASE s # t
    BY <2>2, <2>3, <2>5 DEF Worsens
  <2> QED
    BY <2>4, <2>5, <2>3
<1>2. CASE Registers(r)
  <2>0. r \in Requests
    BY <1>2, ZenonT(30) DEF Registers, Fresh
  <2>1. session' = CreateSession(r, r, req[r].start)
    BY <1>2, ZenonT(60) DEF Registers, SignedUp
  <2>3. s # r /\ account'[session[s].account] = account[session[s].account]
    BY <1>0, <1>2, ZenonT(60) DEF Registers, SignedUp, Fresh
  <2>4. Rotated(r, r)
    BY <2>0, <2>1, CreatedSessions, SMTT(60)
  <2> QED
    BY <2>3, <2>4 DEF Rotated, Worsens
<1>3. CASE Enters(r)
  <2>1. PICK a \in DOMAIN account : session' = CreateSession(r, a, req[r].start)
    BY <1>3 DEF Enters
  <2>2. r \in Requests /\ s # r /\ UNCHANGED account /\ a \in Tokens
    BY <1>3 DEF Enters, Fresh, IInv, TypeOK
  <2>3. Rotated(r, a)
    BY <2>1, <2>2, CreatedSessions, SMTT(60)
  <2> QED
    BY <2>2, <2>3 DEF Rotated, Worsens
<1>4. CASE Leaves \/ Closes
  <2>1. PICK S : session' = Revoked(S)
    BY <1>4, ZenonT(60) DEF Leaves, Closes
  <2>2. /\ DOMAIN session' = DOMAIN session
        /\ session'[s].account = session[s].account
        /\ session'[s].expires = session[s].expires
        /\ session'[s].idle = session[s].idle
        /\ (~ session'[s].revoked => ~ session[s].revoked)
    BY <2>1, RevokedSessions
  <2>3. account'[session[s].account] = "active" => account[session[s].account] = "active"
    <3>1. CASE Closes
      <4>1. PICK a \in DOMAIN account, status \in {"suspended", "closed"} :
               account' = [account EXCEPT ![a] = status]
        BY <3>1, ZenonT(30) DEF Closes
      <4> QED
        BY <1>0, <4>1 DEF IInv, TypeOK
    <3>2. CASE Leaves
      BY <3>2 DEF Leaves
    <3> QED
      BY <1>4, <3>1, <3>2, Zenon
  <2> QED
    BY <2>2, <2>3 DEF Worsens
<1>5. CASE UNCHANGED <<account, session>>
  BY <1>5 DEF Worsens
<1> QED
  BY <1>1, <1>2, <1>3, <1>4, <1>5, SMTT(60) DEF DbStep, Rehashes, Intends, Issues, dbVars

(* The lookups after a step are those there were and one that begins now.  *)
LookupsBeginNow ==
    \A x \in Requests :
        req'[x].pc = "find" => req'[x] = req[x] \/ req'[x].start = now

(* What has ended stays so when its row only worsens: a lookup that begins *)
(* now is too late for it.                                                 *)
LEMMA EndedStays ==
    ASSUME IInv, IInv', NEW s \in DOMAIN session, Worsens(s), LookupsBeginNow,
           now' >= now, Ended(s)
    PROVE  Ended(s)'
<1>1. /\ session[s].expires \in Nat /\ session[s].idle \in Nat
      /\ now \in Nat /\ now' \in Nat
  BY AccountsAssumption, SMTT(60) DEF IInv, TypeOK, Session
<1>2. ~ LiveAt(s, now)
  BY DEF Ended
<1>3. ~ LiveAt(s, now)'
  BY <1>1, <1>2 DEF LiveAt, Worsens
<1>4. ASSUME NEW x \in Requests, req'[x].pc = "find", req'[x].cookies.session = s,
             LiveAt(s, req[x].start)'
      PROVE  FALSE
  <2>1. CASE req'[x] = req[x]
    <3>1. LiveAt(s, req[x].start)
      BY <1>4, <2>1 DEF LiveAt, Worsens
    <3> QED
      BY <1>4, <2>1, <3>1 DEF Ended, LookupInTime
  <2>2. CASE req'[x].start = now
    BY <1>2, <1>4, <2>2 DEF LiveAt, Worsens
  <2> QED
    BY <1>4, <2>1, <2>2 DEF LookupsBeginNow
<1> QED
  BY <1>3, <1>4 DEF Ended, LookupInTime

(* A session that has ended, with no lookup on its way that began before,  *)
(* has ended for good, and none is stretched beyond its expiry.            *)
THEOREM DeadSessionsStayDead == Spec => SessionDeathIsFinal
<1>1. IInv /\ IInv' /\ [Next]_vars =>
         [\A s \in DOMAIN session :
            /\ Ended(s) => Ended(s)'
            /\ session'[s].expires = session[s].expires]_vars
  <2> SUFFICES ASSUME IInv, IInv', Next, NEW s \in DOMAIN session
               PROVE  /\ Ended(s) => Ended(s)'
                      /\ session'[s].expires = session[s].expires
    OBVIOUS
  <2>1. ASSUME NEW r \in Requests, Does(r)
        PROVE  DbStep(r) /\ LookupsBeginNow /\ UNCHANGED now /\ r \in Tokens
    <3>1. Kept(r) /\ UNCHANGED now /\ r \in Tokens
      BY <2>1, ActorKept, BrowserTypes, Zenon DEF Tokens
    <3>2. LookupsBeginNow
      BY <3>1 DEF Kept, Only, LookupsBeginNow
    <3> QED
      BY <3>1, <3>2 DEF Kept
  <2>2. ASSUME NEW o \in Operators, OperatorDoes(o)
        PROVE  DbStep(Seed) /\ LookupsBeginNow /\ UNCHANGED now /\ Seed \in Tokens
    BY <2>2, OperatorStep DEF DbStep, Tokens, LookupsBeginNow
  <2>3. CASE \E r \in Tokens : DbStep(r) /\ LookupsBeginNow /\ UNCHANGED now
    <3>1. now' >= now
      BY <2>3, AccountsAssumption DEF IInv, TypeOK
    <3>2. /\ Worsens(s) \/ LookupInTime(s)
          /\ session'[s].expires = session[s].expires
      BY <2>3, DeadStay
    <3>3. Ended(s) => Worsens(s)
      BY <3>2 DEF Ended
    <3> QED
      BY <2>3, <3>1, <3>2, <3>3, EndedStays
  <2>4. CASE Tick
    <3>1. UNCHANGED <<account, session, req>> /\ now' >= now
      BY <2>4 DEF Tick, dbVars, IInv, TypeOK
    <3>2. Worsens(s) /\ LookupsBeginNow
      BY <3>1 DEF Worsens, LookupsBeginNow
    <3> QED
      BY <3>1, <3>2, EndedStays
  <2> QED
    BY <2>1, <2>2, <2>3, <2>4, ZenonT(30) DEF Next, Does, Sends, OperatorDoes
<1> QED
  BY <1>1, AccountsInvariant, PTL DEF Spec, SessionDeathIsFinal

=============================================================================
