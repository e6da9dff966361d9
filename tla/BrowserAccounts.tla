---------------------------- MODULE BrowserAccounts ----------------------------
(***************************************************************************)
(* Accounts and browser sessions: the pages and forms of                   *)
(* src/adapters/http/web.rs, the session middleware in front of them and   *)
(* of the Data Lab, and the transactions of                                *)
(* src/adapters/postgres/accounts.rs behind them, with the operator's      *)
(* set_account_status (src/adapters/postgres/api_keys.rs).                 *)
(*                                                                         *)
(* A request is a process whose steps are the stretches between two        *)
(* awaits.  A transaction, and a statement that tests the clock against a  *)
(* row, is two steps: it begins, which fixes its now(), and it takes       *)
(* effect at once, which the row locks it takes justify.                   *)
(* Tokens (session identifiers, CSRF tokens, form intents, account ids)    *)
(* are fresh random values: each is named by the request that made it.     *)
(***************************************************************************)
EXTENDS Integers, FiniteSets

CONSTANTS Browsers,
          Requests,               \* each makes one request
          Operators,              \* each changes the status of one account
          Emails,
          Passwords,
          Malformed,              \* a form that does not validate
          Seed,                   \* what existed before the first request
          None,
          SESSION_ABSOLUTE_TTL,   \* in ticks of the clock
          SESSION_IDLE_TTL,
          DEMO_INTENT_TTL,
          MaxNow,                 \* bound on the clock
          Failing                 \* the statements that may fail

Tokens == Requests \union {Seed}

VARIABLES now,        \* the database's clock
          account,    \* ib_account: the status of each account
          identity,   \* account_identity: per email its account and password
          workspace,  \* the owners of the initial workspaces, one per row
          session,    \* browser_session, by token
          intent,     \* anonymous_demo_issuance_intent, by token
          jar,        \* the cookies of each browser
          seen,       \* the CSRF tokens in pages each browser has loaded
          req,        \* the requests
          op          \* the operators' calls

dbVars == <<account, identity, workspace, session, intent>>
vars   == <<now, dbVars, jar, seen, req, op>>

Statuses == {"active", "suspended", "closed"}

Identity == [account : Tokens, password : Passwords \union {None},
             weak : BOOLEAN]

ASSUME AccountsAssumption ==
    /\ SESSION_ABSOLUTE_TTL \in Nat \ {0}
    /\ SESSION_IDLE_TTL \in Nat \ {0}
    /\ DEMO_INTENT_TTL \in Nat \ {0}
    /\ MaxNow \in Nat
    /\ Browsers # {}
    /\ Seed \notin Requests /\ None \notin Requests \union {Seed}
    /\ None \notin Passwords /\ Malformed \notin Passwords
    /\ None \notin Identity

Session == [account : Tokens, created : 0..MaxNow, revoked : BOOLEAN,
            expires : Nat, idle : Nat]

Cookies == [session : Tokens \union {None}, csrf : Tokens \union {None}]

Kinds == {"entry", "signup", "login", "logout", "lab", "access", "demo"}

Stages == {"idle", "context", "find", "handler", "begin", "commit", "lookup",
           "rehash", "reply", "done"}

Answers == {"none", "entry_page", "already_registered", "invalid_credentials",
            "signed_in", "logged_out", "redirect", "forbidden", "page",
            "intent_page", "demo_key", "demo_unavailable", "unavailable"}

(* The answers that come with account_entry_response, hence with a fresh   *)
(* CSRF cookie.                                                            *)
EntryAnswers == {"entry_page", "already_registered", "invalid_credentials"}

Request == [kind : Kinds, browser : Browsers, email : Emails \union {None},
            password : Passwords \union {Malformed, None},
            form : Tokens \union {None}, cookies : Cookies, pc : Stages,
            principal : Tokens \union {None}, start : 0..MaxNow,
            answer : Answers]

Intent == [expires : Nat, keys : SUBSET Requests]

OperatorCall == [pc : {"idle", "commit", "done"},
                 account : Tokens \union {None},
                 status : {"suspended", "closed", None}, start : 0..MaxNow]

Idle == [kind |-> "entry", browser |-> CHOOSE b \in Browsers : TRUE,
         email |-> None, password |-> None, form |-> None,
         cookies |-> [session |-> None, csrf |-> None], pc |-> "idle",
         principal |-> None, start |-> 0, answer |-> "none"]

(***************************************************************************)
(* The database.                                                           *)
(***************************************************************************)

(* The conditions of find_session, for a statement whose now() is t.       *)
LiveAt(s, t) ==
    /\ s \in DOMAIN session
    /\ ~ session[s].revoked
    /\ session[s].expires > t
    /\ session[s].idle > t
    /\ account[session[s].account] = "active"

Min2(a, b) == IF a <= b THEN a ELSE b

(* find_session: idle_expires_at = least(expires_at, now() + ..).          *)
Refreshed(s, t) ==
    [session EXCEPT ![s].idle = Min2(session[s].expires,
                                     t + SESSION_IDLE_TTL)]

Unrevoked(a) ==
    {s \in DOMAIN session : session[s].account = a /\ ~ session[s].revoked}

Revoked(S) ==
    [s \in DOMAIN session |->
       IF s \in S THEN [session[s] EXCEPT !.revoked = TRUE] ELSE session[s]]

(* The check browser_session_revocation_valid: a transaction that began    *)
(* before a session was created cannot revoke it, revoked_at being its own *)
(* now().                                                                  *)
CanRevoke(S, start) == \A s \in S : session[s].created <= start

(* Mutant: the sessions of the account are not revoked first.              *)
AddSession(s, a, start) ==
    [x \in DOMAIN session \union {s} |->
       IF x = s
       THEN [account |-> a, created |-> start, revoked |-> FALSE,
             expires |-> start + SESSION_ABSOLUTE_TTL,
             idle |-> start + SESSION_IDLE_TTL]
       ELSE session[x]]

(* create_session, in a transaction that began at start.                   *)
CreateSession(s, a, start) ==
    [x \in DOMAIN session \union {s} |->
       IF x = s
       THEN [account |-> a, created |-> start, revoked |-> FALSE,
             expires |-> start + SESSION_ABSOLUTE_TTL,
             idle |-> start + SESSION_IDLE_TTL]
       ELSE Revoked(Unrevoked(a))[x]]

(***************************************************************************)
(* The initial states: no account yet, and perhaps a page with a demo      *)
(* intent; or an account from before with a current, a weak or no password *)
(* hash, its owner signed in or not.                                       *)
(***************************************************************************)

NoAccount == [e \in Emails |-> None]

SeedSession ==
    [s \in {Seed} |->
       [account |-> Seed, created |-> 0, revoked |-> FALSE,
        expires |-> SESSION_ABSOLUTE_TTL, idle |-> SESSION_IDLE_TTL]]

SeedIntent == [i \in {Seed} |-> [expires |-> DEMO_INTENT_TTL, keys |-> {}]]

Nothing == [t \in {} |-> None]

Init ==
    /\ now = 0
    /\ req = [r \in Requests |-> Idle]
    /\ op = [o \in Operators |-> [pc |-> "idle", account |-> None,
                                  status |-> None, start |-> 0]]
    /\ seen = [b \in Browsers |-> {Seed}]
    /\ \/ /\ account = Nothing
          /\ intent \in {Nothing, SeedIntent}
          /\ identity = NoAccount
          /\ workspace = {}
          /\ session = Nothing
          /\ jar = [b \in Browsers |-> [session |-> None, csrf |-> Seed]]
       \/ /\ account = [a \in {Seed} |-> "active"]
          /\ intent = Nothing
          /\ \E e \in Emails, pw \in Passwords \union {None}, w \in BOOLEAN :
                /\ pw = None => ~ w
                /\ identity = [NoAccount EXCEPT ![e] =
                                [account |-> Seed, password |-> pw, weak |-> w]]
          /\ workspace = {Seed}
          /\ \/ /\ session = SeedSession
                /\ jar = [b \in Browsers |-> [session |-> Seed, csrf |-> Seed]]
             \/ /\ session = Nothing
                /\ jar = [b \in Browsers |-> [session |-> None, csrf |-> Seed]]

(***************************************************************************)
(* The steps of a request.                                                 *)
(***************************************************************************)

Goto(r, stage) == req' = [req EXCEPT ![r].pc = stage]
Begin(r, stage) ==
    req' = [req EXCEPT ![r].pc = stage, ![r].start = now]
Finish(r) == req' = [req EXCEPT ![r] = [Idle EXCEPT !.pc = "done"]]

(* Of an answered request only the response is left.                       *)
Answer(r, answer) ==
    req' = [req EXCEPT ![r] = [Idle EXCEPT !.browser = req[r].browser,
                                           !.pc = "reply", !.answer = answer]]

At(r, kind, stage) == req[r].kind = kind /\ req[r].pc = stage
MayFail(statement) == statement \in Failing

(* A browser sends a request with the cookies it holds, and a form with    *)
(* the token of a page it has loaded.                                      *)
Send(r, b, kind, e, pw, form) ==
    /\ req[r].pc = "idle"
    /\ req' = [req EXCEPT ![r] =
                 [Idle EXCEPT !.kind = kind, !.browser = b, !.email = e,
                              !.password = pw, !.form = form,
                              !.cookies = jar[b], !.pc = "context"]]
    /\ UNCHANGED <<now, dbVars, jar, seen, op>>

(* attach_browser_context: without a session cookie the request is         *)
(* anonymous; with one find_session begins.                                *)
AttachBrowserContext(r) ==
    /\ req[r].pc = "context"
    /\ IF req[r].cookies.session = None THEN Goto(r, "handler")
       ELSE Begin(r, "find")
    /\ UNCHANGED <<now, dbVars, jar, seen, op>>

Attached(r, principal) ==
    req' = [req EXCEPT ![r].pc = "handler", ![r].principal = principal,
                       ![r].start = 0]

(* Mutant: the condition on idle_expires_at is missing.                    *)
FindSessionIgnoresIdle(r) ==
    LET s == req[r].cookies.session
    IN  /\ req[r].pc = "find"
        /\ IF /\ s \in DOMAIN session /\ ~ session[s].revoked
              /\ session[s].expires > req[r].start
           THEN Attached(r, s) /\ session' = Refreshed(s, req[r].start)
           ELSE Attached(r, None) /\ UNCHANGED session
        /\ UNCHANGED <<now, account, identity, workspace, intent, jar, seen, op>>

(* find_session takes effect.  The update tests the newest version of the  *)
(* row, after waiting for whoever holds it, against a now() that is as old *)
(* as the statement; the account is active as long as the session is not   *)
(* revoked.  A snapshot older than that version can only miss the row,     *)
(* which leaves the request anonymous as a lookup that fails does.         *)
FindSession(r) ==
    LET s == req[r].cookies.session
        found == LiveAt(s, req[r].start)
    IN  /\ req[r].pc = "find"
        /\ \/ found /\ Attached(r, s) /\ session' = Refreshed(s, req[r].start)
           \/ ~ found /\ Attached(r, None) /\ UNCHANGED session
           \/ MayFail("find_session") /\ Attached(r, None) /\ UNCHANGED session
        /\ UNCHANGED <<now, account, identity, workspace, intent, jar, seen, op>>

SignedIn(r)       == req[r].principal # None
EntryCsrfValid(r) == req[r].form # None /\ req[r].cookies.csrf = req[r].form

(* signup and login render account_entry_response.                         *)
EntryPage(r) ==
    /\ At(r, "entry", "handler")
    /\ Answer(r, IF SignedIn(r) THEN "redirect" ELSE "entry_page")
    /\ UNCHANGED <<now, dbVars, jar, seen, op>>

(* signup_submit up to its transaction.                                    *)
SignupSubmit(r) ==
    /\ At(r, "signup", "handler")
    /\ IF SignedIn(r) THEN Answer(r, "redirect")
       ELSE IF ~ EntryCsrfValid(r) THEN Answer(r, "forbidden")
       ELSE IF req[r].password = Malformed THEN Answer(r, "entry_page")
       ELSE Goto(r, "begin")
    /\ UNCHANGED <<now, dbVars, jar, seen, op>>

(* signup_and_create_session begins and looks for the identity.  A row     *)
(* that does not exist cannot be locked.                                   *)
SignupBegin(r) ==
    /\ At(r, "signup", "begin")
    /\ \/ identity[req[r].email] = None /\ Begin(r, "commit")
       \/ identity[req[r].email] # None /\ Answer(r, "already_registered")
       \/ MayFail("signup") /\ Answer(r, "unavailable")
    /\ UNCHANGED <<now, dbVars, jar, seen, op>>

(* What the transaction of signup r leaves: an account, its identity, its  *)
(* initial workspace and a session.                                        *)
SignedUp(r) ==
    /\ account' = [a \in DOMAIN account \union {r} |->
                     IF a = r THEN "active" ELSE account[a]]
    /\ identity' = [identity EXCEPT ![req[r].email] =
                      [account |-> r, password |-> req[r].password,
                       weak |-> FALSE]]
    /\ workspace' = workspace \union {r}
    /\ session' = CreateSession(r, r, req[r].start)

(* Mutant: no unique index on email_lookup_hash.                           *)
SignupCommitDuplicates(r) ==
    /\ At(r, "signup", "commit")
    /\ SignedUp(r) /\ Answer(r, "signed_in")
    /\ UNCHANGED <<now, intent, jar, seen, op>>

(* The inserts and the commit.  A concurrent signup of the same email that *)
(* committed first makes the unique index refuse the identity, and nothing *)
(* of this one remains.                                                    *)
SignupCommit(r) ==
    /\ At(r, "signup", "commit")
    /\ \/ /\ identity[req[r].email] = None
          /\ SignedUp(r)
          /\ \/ Answer(r, "signed_in")
             \/ MayFail("commit") /\ Answer(r, "unavailable")
       \/ /\ identity[req[r].email] # None \/ MayFail("signup")
          /\ Answer(r, "unavailable")
          /\ UNCHANGED <<account, identity, workspace, session>>
    /\ UNCHANGED <<now, intent, jar, seen, op>>

(* login_submit up to the lookup of the identity.                          *)
LoginSubmit(r) ==
    /\ At(r, "login", "handler")
    /\ IF SignedIn(r) THEN Answer(r, "redirect")
       ELSE IF ~ EntryCsrfValid(r) THEN Answer(r, "forbidden")
       ELSE IF req[r].password = Malformed THEN Answer(r, "invalid_credentials")
       ELSE Goto(r, "lookup")
    /\ UNCHANGED <<now, dbVars, jar, seen, op>>

(* Mutant: the hash is upgraded before the password is verified.           *)
LoginLookupUnverified(r) ==
    LET i == identity[req[r].email]
    IN  /\ At(r, "login", "lookup")
        /\ IF i = None THEN Answer(r, "invalid_credentials")
           ELSE IF account[i.account] # "active" \/ i.password = None
                THEN Answer(r, "invalid_credentials")
           ELSE Goto(r, IF i.weak THEN "rehash" ELSE "begin")
        /\ UNCHANGED <<now, dbVars, jar, seen, op>>

(* find_password_login_identity and verify.                                *)
LoginLookup(r) ==
    LET i == identity[req[r].email]
    IN  /\ At(r, "login", "lookup")
        /\ \/ IF i = None THEN Answer(r, "invalid_credentials")
              ELSE IF account[i.account] # "active" \/ i.password = None
                   THEN Answer(r, "invalid_credentials")
              ELSE IF i.password # req[r].password
                   THEN Answer(r, "invalid_credentials")
              ELSE Goto(r, IF i.weak THEN "rehash" ELSE "begin")
           \/ MayFail("lookup") /\ Answer(r, "unavailable")
        /\ UNCHANGED <<now, dbVars, jar, seen, op>>

(* update_password_hash, which tests nothing, unless hashing failed.       *)
LoginRehash(r) ==
    LET e == req[r].email
    IN  /\ At(r, "login", "rehash")
        /\ \/ /\ identity' = [identity EXCEPT ![e].password = req[r].password,
                                              ![e].weak = FALSE]
              /\ Goto(r, "begin")
           \/ UNCHANGED identity /\ Goto(r, "begin")
           \/ MayFail("rehash") /\ UNCHANGED identity /\ Answer(r, "unavailable")
        /\ UNCHANGED <<now, account, workspace, session, intent, jar, seen, op>>

LoginBegin(r) ==
    /\ At(r, "login", "begin")
    /\ Begin(r, "commit")
    /\ UNCHANGED <<now, dbVars, jar, seen, op>>

(* create_password_login_session under the locks of identity and account.  *)
LoginCommit(r) ==
    LET a == identity[req[r].email].account
        usable == account[a] = "active"
    IN  /\ At(r, "login", "commit")
        /\ \/ /\ usable /\ CanRevoke(Unrevoked(a), req[r].start)
              /\ session' = CreateSession(r, a, req[r].start)
              /\ \/ Answer(r, "signed_in")
                 \/ MayFail("commit") /\ Answer(r, "unavailable")
           \/ ~ usable /\ Answer(r, "invalid_credentials") /\ UNCHANGED session
           \/ /\ \/ usable /\ ~ CanRevoke(Unrevoked(a), req[r].start)
                 \/ MayFail("login")
              /\ Answer(r, "unavailable") /\ UNCHANGED session
        /\ UNCHANGED <<now, account, identity, workspace, intent, jar, seen, op>>

(* logout: revoke_session is one statement; its failure is only logged.    *)
Logout(r) ==
    LET c == req[r].cookies
    IN  /\ At(r, "logout", "handler")
        /\ IF ~ SignedIn(r) \/ c.csrf = None
           THEN Answer(r, "redirect") /\ UNCHANGED session
           ELSE IF c.csrf # req[r].form \/ c.csrf # req[r].principal
                THEN Answer(r, "forbidden") /\ UNCHANGED session
                ELSE /\ Answer(r, "logged_out")
                     /\ \/ session' = Revoked({c.session})
                        \/ MayFail("revoke_session") /\ UNCHANGED session
        /\ UNCHANGED <<now, account, identity, workspace, intent, jar, seen, op>>

(* A Data Lab page: browser_account asks for the capability, which every   *)
(* account was granted when it was created.                                *)
LabView(r) ==
    /\ At(r, "lab", "handler")
    /\ \/ Answer(r, IF SignedIn(r) THEN "page" ELSE "redirect")
       \/ SignedIn(r) /\ MayFail("capability") /\ Answer(r, "unavailable")
    /\ UNCHANGED <<now, dbVars, jar, seen, op>>

(* access: create_demo_intent.  Nobody knows the new intent before the     *)
(* answer, so that its insert may be taken to happen at its now().         *)
Access(r) ==
    /\ At(r, "access", "handler")
    /\ \/ /\ intent' = [i \in DOMAIN intent \union {r} |->
                          IF i = r
                          THEN [expires |-> now + DEMO_INTENT_TTL, keys |-> {}]
                          ELSE intent[i]]
          /\ Answer(r, "intent_page")
       \/ /\ MayFail("create_demo_intent")
          /\ Answer(r, "page") /\ UNCHANGED intent
    /\ UNCHANGED <<now, account, identity, workspace, session, jar, seen, op>>

Usable(i, t) ==
    i \in DOMAIN intent /\ intent[i].keys = {} /\ intent[i].expires > t

(* consume_demo_intent_and_issue_key begins.                               *)
DemoBegin(r) ==
    /\ At(r, "demo", "handler")
    /\ Begin(r, "begin")
    /\ UNCHANGED <<now, dbVars, jar, seen, op>>

(* Mutant: the intent is read without for update.                          *)
DemoSelectUnlocked(r) ==
    /\ At(r, "demo", "begin")
    /\ IF Usable(req[r].form, req[r].start) THEN Goto(r, "commit")
       ELSE Answer(r, "demo_unavailable")
    /\ UNCHANGED <<now, dbVars, jar, seen, op>>

(* select .. for update, which waits for another transaction that holds    *)
(* the row and then reads it again; now() is still the transaction's.      *)
DemoSelect(r) ==
    /\ At(r, "demo", "begin")
    /\ ~ \E x \in Requests : At(x, "demo", "commit") /\ req[x].form = req[r].form
    /\ \/ Usable(req[r].form, req[r].start) /\ Goto(r, "commit")
       \/ ~ Usable(req[r].form, req[r].start) /\ Answer(r, "demo_unavailable")
       \/ MayFail("demo") /\ Answer(r, "unavailable")
    /\ UNCHANGED <<now, dbVars, jar, seen, op>>

(* The key, its policy and grants, and the consumed intent.                *)
DemoIssue(r) ==
    /\ At(r, "demo", "commit")
    /\ \/ /\ intent' = [intent EXCEPT ![req[r].form].keys = @ \union {r}]
          /\ \/ Answer(r, "demo_key")
             \/ MayFail("commit") /\ Answer(r, "unavailable")
       \/ MayFail("demo") /\ Answer(r, "unavailable") /\ UNCHANGED intent
    /\ UNCHANGED <<now, account, identity, workspace, session, jar, seen, op>>

(* The response reaches the browser, which stores its cookies.             *)
Deliver(r) ==
    LET b == req[r].browser
        a == req[r].answer
    IN  /\ req[r].pc = "reply"
        /\ Goto(r, "done")
        /\ jar' = [jar EXCEPT ![b] =
                     IF a = "signed_in" THEN [session |-> r, csrf |-> r]
                     ELSE IF a = "logged_out" THEN [session |-> None, csrf |-> None]
                     ELSE IF a \in EntryAnswers THEN [@ EXCEPT !.csrf = r]
                     ELSE @]
        /\ seen' = [seen EXCEPT ![b] =
                      IF a = "signed_in" \/ a \in EntryAnswers
                      THEN @ \union {r} ELSE @]
        /\ UNCHANGED <<now, dbVars, op>>

(* The browser goes away: the handler's future is dropped where it stands, *)
(* an open transaction rolls back, a response is lost.  A statement of its *)
(* own that was sent still takes effect, which is to be dropped after it.  *)
Drop(r) ==
    /\ req[r].pc \notin {"idle", "done"}
    /\ Finish(r)
    /\ UNCHANGED <<now, dbVars, jar, seen, op>>

(***************************************************************************)
(* The operator's set_account_status, and time.                            *)
(***************************************************************************)

OperatorBegin(o, a, status) ==
    /\ op[o].pc = "idle"
    /\ op' = [op EXCEPT ![o] = [pc |-> "commit", account |-> a,
                                status |-> status, start |-> now]]
    /\ UNCHANGED <<now, dbVars, jar, seen, req>>

SetAccountStatus(o) ==
    LET a == op[o].account
    IN  /\ op[o].pc = "commit"
        /\ op' = [op EXCEPT ![o].pc = "done"]
        /\ IF account[a] # "closed" /\ CanRevoke(Unrevoked(a), op[o].start)
           THEN /\ account' = [account EXCEPT ![a] = op[o].status]
                /\ session' = Revoked(Unrevoked(a))
           ELSE UNCHANGED <<account, session>>
        /\ UNCHANGED <<now, identity, workspace, intent, jar, seen, req>>

Tick ==
    /\ now < MaxNow
    /\ now' = now + 1
    /\ UNCHANGED <<dbVars, jar, seen, req, op>>

Next ==
    \/ \E r \in Requests :
          \/ \E b \in Browsers :
                \/ \E kind \in {"entry", "lab", "access"} :
                      Send(r, b, kind, None, None, None)
                \/ \E kind \in {"signup", "login"}, e \in Emails,
                      pw \in Passwords \union {Malformed}, form \in seen[b] :
                      Send(r, b, kind, e, pw, form)
                \/ \E form \in seen[b] : Send(r, b, "logout", None, None, form)
                \/ \E i \in DOMAIN intent : Send(r, b, "demo", None, None, i)
          \/ AttachBrowserContext(r) \/ FindSession(r)
          \/ EntryPage(r) \/ LabView(r) \/ Logout(r)
          \/ SignupSubmit(r) \/ SignupBegin(r) \/ SignupCommit(r)
          \/ LoginSubmit(r) \/ LoginLookup(r) \/ LoginRehash(r)
          \/ LoginBegin(r) \/ LoginCommit(r)
          \/ Access(r) \/ DemoBegin(r) \/ DemoSelect(r) \/ DemoIssue(r)
          \/ Deliver(r) \/ Drop(r)
    \/ \E o \in Operators :
          \/ \E a \in DOMAIN account, status \in {"suspended", "closed"} :
                OperatorBegin(o, a, status)
          \/ SetAccountStatus(o)
    \/ Tick

Spec == Init /\ [][Next]_vars

(***************************************************************************)
(* Properties.                                                             *)
(***************************************************************************)

TypeOK ==
    /\ now \in 0..MaxNow
    /\ account \in [DOMAIN account -> Statuses] /\ DOMAIN account \subseteq Tokens
    /\ identity \in [Emails -> Identity \union {None}]
    /\ workspace \subseteq Tokens
    /\ session \in [DOMAIN session -> Session] /\ DOMAIN session \subseteq Tokens
    /\ intent \in [DOMAIN intent -> Intent] /\ DOMAIN intent \subseteq Tokens
    /\ jar \in [Browsers -> Cookies]
    /\ seen \in [Browsers -> SUBSET Tokens]
    /\ req \in [Requests -> Request]
    /\ op \in [Operators -> OperatorCall]

(* An account is created whole or not at all, and once per email: however  *)
(* signups race, every account has exactly one identity and one initial    *)
(* workspace (accounts.rs signup_and_create_session, whose select .. for   *)
(* update locks nothing when the row does not exist yet).                  *)
SignupAtomic ==
    /\ workspace = DOMAIN account
    /\ \A a \in DOMAIN account :
          Cardinality({e \in Emails : identity[e] # None
                                      /\ identity[e].account = a}) = 1

(* An account has at most one unrevoked session, and none unless it is     *)
(* active: a login that overlaps another login, or a suspension that       *)
(* committed after its password check, cannot leave one behind (accounts.rs*)
(* create_password_login_session and create_session, api_keys.rs           *)
(* set_account_status).                                                    *)
SessionsRotate ==
    \A a \in DOMAIN account :
        Cardinality(Unrevoked(a)) <= IF account[a] = "active" THEN 1 ELSE 0

(* A find_session of s that began while s could still be found is on its   *)
(* way.                                                                    *)
LookupInTime(s) ==
    \E r \in Requests : /\ req[r].pc = "find" /\ req[r].cookies.session = s
                        /\ LiveAt(s, req[r].start)

Ended(s) == ~ LiveAt(s, now) /\ ~ LookupInTime(s)

(* A session that is revoked, expired, idle for too long or whose account  *)
(* is no longer active has ended, unless a lookup that began before that   *)
(* is still on its way: find_session refreshes idle_expires_at against a   *)
(* now() that is as old as the statement, hence even after the deadline.   *)
(* A session that has ended has ended for good, however late the requests  *)
(* that present it arrive and however they overlap with each other, with   *)
(* logins and with suspensions; and none outlives its absolute expiry,     *)
(* which no refresh moves (accounts.rs find_session).                      *)
SessionDeathIsFinal ==
    [][\A s \in DOMAIN session :
          /\ Ended(s) => Ended(s)'
          /\ session'[s].expires = session[s].expires]_vars

(* The hash a login writes back opens the account with the password it was *)
(* created with, although update_password_hash does not look at the row it *)
(* overwrites (web.rs login_submit).                                       *)
PasswordKept ==
    [][\A e \in Emails :
          identity[e] # None =>
             /\ identity'[e].account = identity[e].account
             /\ identity'[e].password = identity[e].password]_vars

(* "Each one-time form intent mints one display-once key" (SPEC-017): a    *)
(* double submit of the form, or two tabs with the same page, never obtain *)
(* two keys for one intent (accounts.rs                                    *)
(* consume_demo_intent_and_issue_key).                                     *)
OneKeyPerIntent ==
    \A i \in DOMAIN intent : Cardinality(intent[i].keys) <= 1

=============================================================================
