------------------------------ MODULE Workspaces ------------------------------
(***************************************************************************)
(* Workspaces: the browser handlers of src/adapters/http/workspaces.rs,    *)
(* the service of src/application/workspaces/mod.rs and the tables behind  *)
(* them (src/adapters/postgres/workspaces.rs, migrations 0011 to 0013).    *)
(*                                                                         *)
(* A request is a process whose steps are the stretches between two        *)
(* awaits.  A transaction is two steps: it begins, which fixes now(), and  *)
(* it commits.  All it does is in the second step, because every row it    *)
(* decides on is locked by then or never changes: rename and set_archived  *)
(* update the workspace row, add_member locks it, and a label transaction  *)
(* decides on the label index alone.  It may fail without effect, it may   *)
(* commit and be reported as failed, and a future may be dropped anywhere. *)
(*                                                                         *)
(* has_active_capability and the balance and transfer services give any of *)
(* their answers: they read nothing that is modelled here.                 *)
(***************************************************************************)
EXTENDS Integers, Sequences, FiniteSets, Folds

CONSTANTS Requests,      \* numbers, which also order the ids of their events
          Accounts,
          Workspaces,    \* workspace ids
          None,          \* an optional value that is absent
          InitialOf,     \* the workspace each account got when it signed up
          InitialMembers,  \* the address registered there since, if any
          Names,
          InitialName,
          Addresses,     \* a network with an address, normalised
          Labels,
          Lower,         \* PostgreSQL's lower() of each label
          AsciiLower,    \* to_ascii_lowercase() of each label
          Operations,    \* what requests may ask for in an instance
          MaxMembers,    \* MAX_WORKSPACE_ADDRESSES
          MaxLabels,     \* MAX_ADDRESS_LABELS
          MaxTime,       \* bound on the clock
          Readers,       \* clients that page through a timeline
          PageLimit      \* their limit

Operation ==
         [kind : {"create", "rename"}, account : Accounts, ws : Workspaces,
          name : Names]
  \union [kind : {"archive", "restore", "capture"}, account : Accounts,
          ws : Workspaces]
  \union [kind : {"add_address", "observe"}, account : Accounts,
          ws : Workspaces, address : Addresses]
  \union [kind : {"add_label", "remove_label"}, account : Accounts,
          ws : Workspaces, address : Addresses, label : Labels]

ASSUME WorkspacesAssumption ==
    /\ Requests \subseteq Nat \ {0}
    /\ IsFiniteSet(Accounts)
    /\ None \notin [name : Names, status : {"active", "archived"}]
    /\ InitialOf \in [Accounts -> Workspaces]
    /\ \A a, b \in Accounts : InitialOf[a] = InitialOf[b] => a = b
    /\ InitialName \in Names
    /\ InitialMembers = {} \/ \E a \in Addresses : InitialMembers = {a}
    /\ Operations \subseteq Operation
    /\ \A k, l \in Labels : AsciiLower[k] = AsciiLower[l] => Lower[k] = Lower[l]
    /\ MaxMembers \in Nat \ {0} /\ MaxLabels \in Nat \ {0}
    /\ MaxTime \in Nat /\ PageLimit \in Nat \ {0}

Statuses == {"active", "archived"}

VARIABLES workspaces,   \* workspace: the row of each id in use
          members,      \* the member addresses of each, with their labels
          log,          \* workspace_activity_event
          snapshots,    \* workspace_treasury_snapshot
          now,          \* the database's clock
          pc,           \* where each request stands
          op,           \* what it asks for
          found,        \* the workspace status it read
          captured,     \* the member addresses a capture read
          began,        \* now() of its transaction
          answer,       \* what it was answered
          reader        \* each client's cursor and the events it was shown

tables  == <<workspaces, members, log, snapshots>>
locals  == <<pc, op, found, captured, began, answer>>
vars    == <<tables, now, locals, reader>>

Rows == [owner : Accounts, name : Names, status : Statuses]

Stages == {"idle", "find", "find_member", "permit", "members", "resolve",
           "store", "begin", "commit", "done", "dropped"}

(* Redirects and pages, 400, 403, 404 and 503.                             *)
Answers == {"none", "done", "invalid", "forbidden", "not_found", "unavailable"}

Kind(r) == op[r].kind
Ws(r)   == op[r].ws

(* The where clause of find_owned, rename and set_archived.                *)
Owned(r) ==
    /\ Ws(r) \in DOMAIN workspaces
    /\ workspaces[Ws(r)].owner = op[r].account

NoMembers == [a \in {} |-> {}]

(* id stands for the public_id, a random number, at for occurred_at; no is *)
(* history, the rank of the event among the commits.                       *)
Event(id, w, type, what, at, no) ==
    [id |-> id, ws |-> w, type |-> type, what |-> what, at |-> at, no |-> no]

(* Every account has signed up, which created its initial workspace and    *)
(* logged it (create_initial_workspace).                                   *)
Init ==
    /\ workspaces = [w \in {InitialOf[a] : a \in Accounts} |->
                       [owner  |-> CHOOSE a \in Accounts : InitialOf[a] = w,
                        name   |-> InitialName,
                        status |-> "active"]]
    /\ members = [w \in Workspaces |->
                    IF w \in DOMAIN workspaces
                    THEN [a \in InitialMembers |-> {}] ELSE NoMembers]
    /\ log = {Event(0, w, "workspace.created", <<InitialName>>, 0, 0) :
                 w \in DOMAIN workspaces}
             \union
             {Event(-1, w, "member_address.added", <<a>>, 0, 1) :
                 w \in DOMAIN workspaces, a \in InitialMembers}
    /\ snapshots = {}
    /\ now = 0
    /\ pc = [r \in Requests |-> "idle"]
    /\ op = [r \in Requests |-> None]
    /\ found = [r \in Requests |-> None]
    /\ captured = [r \in Requests |-> {}]
    /\ began = [r \in Requests |-> 0]
    /\ answer = [r \in Requests |-> "none"]
    /\ reader = [q \in Readers |-> None]

Tick ==
    /\ now < MaxTime
    /\ now' = now + 1
    /\ UNCHANGED <<tables, locals, reader>>

(***************************************************************************)
(* A request up to its transaction.                                        *)
(***************************************************************************)

Answer(r, a) ==
    /\ pc' = [pc EXCEPT ![r] = "done"]
    /\ answer' = [answer EXCEPT ![r] = a]

Proceed(r, stage) ==
    /\ pc' = [pc EXCEPT ![r] = stage]
    /\ UNCHANGED answer

(* The session, its CSRF token and the form are in order, the normalised   *)
(* name, address and label included.  create, rename and set_archive go    *)
(* straight to their transaction.                                          *)
Arrive(r, o) ==
    /\ pc[r] = "idle"
    /\ op' = [op EXCEPT ![r] = o]
    /\ Proceed(r, IF o.kind \in {"create", "rename", "archive", "restore"}
                  THEN "begin" ELSE "find")
    /\ UNCHANGED <<tables, now, found, captured, began, reader>>

(* Or they are not: a redirect to the login page, 403, 400, or 503 when no *)
(* repository is configured.                                               *)
Refuse(r) ==
    /\ pc[r] = "idle"
    /\ Answer(r, "forbidden")
    /\ UNCHANGED <<tables, now, op, found, captured, began, reader>>

(* find_owned, which add_address, the label, balance and transfer pages    *)
(* and capture_treasury_snapshot begin with.                               *)
Find(r) ==
    /\ pc[r] = "find"
    /\ \/ /\ Owned(r)
          /\ found' = [found EXCEPT ![r] = workspaces[Ws(r)].status]
          /\ Proceed(r, IF Kind(r) = "add_address" THEN "begin"
                        ELSE IF Kind(r) = "capture" THEN "permit"
                        ELSE "find_member")
       \/ ~ Owned(r) /\ Answer(r, "not_found") /\ UNCHANGED found
       \/ Answer(r, "unavailable") /\ UNCHANGED found
    /\ UNCHANGED <<tables, now, op, captured, began, reader>>

(* add_label of the service: a new label needs a free place.               *)
LabelRefused(r, labels) ==
    /\ \A l \in labels : AsciiLower[l] # AsciiLower[op[r].label]
    /\ Cardinality(labels) >= MaxLabels

(* The second query of find_owned_member, and what the service makes of    *)
(* the two rows: labels of an archived workspace are silently left alone,  *)
(* and transfer_view has nothing to show for a network it cannot search.   *)
FindMember(r) ==
    LET present == op[r].address \in DOMAIN members[Ws(r)]
    IN  /\ pc[r] = "find_member"
        /\ \/ ~ present /\ Answer(r, "not_found")
           \/ present /\ Kind(r) = "observe" /\ Proceed(r, "permit")
           \/ present /\ Kind(r) = "observe" /\ Answer(r, "done")
           \/ /\ present
              /\ Kind(r) \in {"add_label", "remove_label"}
              /\ IF found[r] # "active"
                 THEN Answer(r, "done")
                 ELSE IF /\ Kind(r) = "add_label"
                         /\ LabelRefused(r, members[Ws(r)][op[r].address])
                      THEN Answer(r, "invalid")
                      ELSE Proceed(r, "begin")
           \/ Answer(r, "unavailable")
        /\ UNCHANGED <<tables, now, op, found, captured, began, reader>>

(* allowed.                                                                *)
Permit(r) ==
    /\ pc[r] = "permit"
    /\ \/ Proceed(r, IF Kind(r) = "capture" THEN "members" ELSE "resolve")
       \/ \E a \in {"forbidden", "unavailable"} : Answer(r, a)
    /\ UNCHANGED <<tables, now, op, found, captured, began, reader>>

(* A capture reads the members, and asks for the capability on the network *)
(* of each of them.                                                        *)
ReadMembers(r) ==
    LET addresses == DOMAIN members[Ws(r)]
    IN  /\ pc[r] = "members"
        /\ \/ /\ addresses # {}
              /\ captured' = [captured EXCEPT ![r] = addresses]
              /\ Proceed(r, "resolve")
           \/ addresses = {} /\ Answer(r, "invalid") /\ UNCHANGED captured
           \/ /\ \E a \in {"forbidden", "unavailable"} : Answer(r, a)
              /\ UNCHANGED captured
        /\ UNCHANGED <<tables, now, op, found, began, reader>>

(* The balance or transfer service.  An observation is logged whether it   *)
(* succeeded or not; a page without selectors, or whose search plan is     *)
(* refused, is answered without one.                                       *)
Resolve(r) ==
    /\ pc[r] = "resolve"
    /\ \/ Proceed(r, IF Kind(r) = "capture" THEN "store" ELSE "begin")
       \/ Kind(r) = "observe" /\ Answer(r, "done")
       \/ \E a \in {"invalid", "unavailable"} : Answer(r, a)
    /\ UNCHANGED <<tables, now, op, found, captured, began, reader>>

(* create_treasury_snapshot, one statement.  The status read at first is   *)
(* not looked at; archived is history, the status at this step.            *)
StoreSnapshot(r) ==
    LET stored == snapshots \union
                    {[id |-> r, ws |-> Ws(r), accounts |-> captured[r],
                      archived |-> workspaces[Ws(r)].status = "archived"]}
    IN  /\ pc[r] = "store"
        /\ \/ snapshots' = stored /\ Answer(r, "done")
           \/ snapshots' \in {snapshots, stored} /\ Answer(r, "unavailable")
        /\ UNCHANGED <<workspaces, members, log, now, op, found, captured, began, reader>>

(* The client goes away, or the process dies: an open transaction is       *)
(* rolled back.                                                            *)
Drop(r) ==
    /\ pc[r] \notin {"idle", "done", "dropped"}
    /\ pc' = [pc EXCEPT ![r] = "dropped"]
    /\ UNCHANGED <<tables, now, op, found, captured, began, answer, reader>>

(***************************************************************************)
(* Transactions.                                                           *)
(***************************************************************************)

(* begin: now() is the time of this step.                                  *)
Begin(r) ==
    /\ pc[r] = "begin"
    /\ began' = [began EXCEPT ![r] = now]
    /\ Proceed(r, "commit")
    /\ UNCHANGED <<tables, now, op, found, captured, reader>>

Failure(r) == IF Kind(r) = "observe" THEN "done" ELSE "unavailable"

(* Nothing was committed.  A lost observation is only a warning.           *)
Abort(r) ==
    /\ pc[r] \in {"begin", "commit"}
    /\ Answer(r, Failure(r))
    /\ UNCHANGED <<tables, now, op, found, captured, began, reader>>

(* The commit is known to have happened, or its reply is lost.             *)
Committed(r, a) == Answer(r, a) \/ Answer(r, Failure(r))

(* append_event, in the transaction of the change.                         *)
AppendEvent(r, w, type, what) ==
    log' = log \union {Event(r, w, type, what, began[r], Cardinality(log) + 1)}

InTransaction(r, kinds) ==
    /\ pc[r] = "commit"
    /\ Kind(r) \in kinds
    /\ UNCHANGED <<snapshots, now, op, found, captured, began, reader>>

Create(r, w) ==
    /\ InTransaction(r, {"create"})
    /\ w \notin DOMAIN workspaces
    /\ workspaces' = [x \in DOMAIN workspaces \union {w} |->
                        IF x = w
                        THEN [owner  |-> op[r].account,
                              name   |-> op[r].name,
                              status |-> "active"]
                        ELSE workspaces[x]]
    /\ AppendEvent(r, w, "workspace.created", <<op[r].name>>)
    /\ Committed(r, "done")
    /\ UNCHANGED members

(* An update that matches no row commits an empty transaction.             *)
NoRow(r) ==
    /\ UNCHANGED <<workspaces, members, log>>
    /\ Committed(r, "not_found")

(* Mutant: `owner_ib_account_id = $1' is missing.                          *)
RenameAnyOwner(r) ==
    LET matches == /\ Ws(r) \in DOMAIN workspaces
                   /\ workspaces[Ws(r)].status = "active"
    IN  /\ InTransaction(r, {"rename"})
        /\ \/ /\ matches
              /\ workspaces' = [workspaces EXCEPT ![Ws(r)].name = op[r].name]
              /\ AppendEvent(r, Ws(r), "workspace.renamed", <<op[r].name>>)
              /\ Committed(r, "done")
              /\ UNCHANGED members
           \/ ~ matches /\ NoRow(r)

(* Mutant: the event is appended without looking at the returned id.       *)
RenameAlwaysLogs(r) ==
    LET matches == Owned(r) /\ workspaces[Ws(r)].status = "active"
    IN  /\ InTransaction(r, {"rename"})
        /\ workspaces' = IF matches
                         THEN [workspaces EXCEPT ![Ws(r)].name = op[r].name]
                         ELSE workspaces
        /\ AppendEvent(r, Ws(r), "workspace.renamed", <<op[r].name>>)
        /\ Committed(r, IF matches THEN "done" ELSE "not_found")
        /\ UNCHANGED members

Rename(r) ==
    LET matches == Owned(r) /\ workspaces[Ws(r)].status = "active"
    IN  /\ InTransaction(r, {"rename"})
        /\ \/ /\ matches
              /\ workspaces' = [workspaces EXCEPT ![Ws(r)].name = op[r].name]
              /\ AppendEvent(r, Ws(r), "workspace.renamed", <<op[r].name>>)
              /\ Committed(r, "done")
              /\ UNCHANGED members
           \/ ~ matches /\ NoRow(r)

Target(kind) == IF kind = "archive" THEN "archived" ELSE "active"

(* Mutant: without `status <> $3' every repetition succeeds again.         *)
SetArchivedAgain(r) ==
    /\ InTransaction(r, {"archive", "restore"})
    /\ \/ /\ Owned(r)
          /\ workspaces' = [workspaces EXCEPT ![Ws(r)].status = Target(Kind(r))]
          /\ AppendEvent(r, Ws(r), IF Kind(r) = "archive"
                                   THEN "workspace.archived"
                                   ELSE "workspace.restored",
                      <<Target(Kind(r))>>)
          /\ Committed(r, "done")
          /\ UNCHANGED members
       \/ ~ Owned(r) /\ NoRow(r)

SetArchived(r) ==
    LET target  == Target(Kind(r))
        matches == Owned(r) /\ workspaces[Ws(r)].status # target
    IN  /\ InTransaction(r, {"archive", "restore"})
        /\ \/ /\ matches
              /\ workspaces' = [workspaces EXCEPT ![Ws(r)].status = target]
              /\ AppendEvent(r, Ws(r), IF Kind(r) = "archive"
                                       THEN "workspace.archived"
                                       ELSE "workspace.restored", <<target>>)
              /\ Committed(r, "done")
              /\ UNCHANGED members
           \/ ~ matches /\ NoRow(r)

(* Mutant: `>' for `>='.                                                   *)
MembersFullTooLate(addresses) == Cardinality(addresses) > MaxMembers

MembersFull(addresses) == Cardinality(addresses) >= MaxMembers

(* Mutant: the status found before the transaction is trusted.             *)
AddMemberStale(r) ==
    LET present == DOMAIN members[Ws(r)]
    IN  /\ InTransaction(r, {"add_address"})
        /\ found[r] = "active"
        /\ op[r].address \notin present
        /\ ~ MembersFull(present)
        /\ members' = [members EXCEPT ![Ws(r)] =
                        [a \in present \union {op[r].address} |->
                           IF a \in present THEN @[a] ELSE {}]]
        /\ AppendEvent(r, Ws(r), "member_address.added", <<op[r].address>>)
        /\ Committed(r, "done")
        /\ UNCHANGED workspaces

(* add_member: the row lock makes the status, the duplicate check and the  *)
(* count current.  A duplicate and an archived workspace are answered like *)
(* a success.                                                              *)
AddMember(r) ==
    LET present == DOMAIN members[Ws(r)]
        current == /\ workspaces[Ws(r)].status = "active"
                   /\ op[r].address \notin present
        adds    == current /\ ~ MembersFull(present)
    IN  /\ InTransaction(r, {"add_address"})
        /\ \/ /\ adds
              /\ members' = [members EXCEPT ![Ws(r)] =
                              [a \in present \union {op[r].address} |->
                                 IF a \in present THEN @[a] ELSE {}]]
              /\ AppendEvent(r, Ws(r), "member_address.added", <<op[r].address>>)
              /\ Committed(r, "done")
              /\ UNCHANGED workspaces
           \/ /\ ~ adds
              /\ Committed(r, IF current THEN "invalid" ELSE "done")
              /\ UNCHANGED <<workspaces, members, log>>

(* Mutant: only the primary key, which is the label as written.            *)
SameLabelExact(r) == members[Ws(r)][op[r].address] \intersect {op[r].label}

(* The labels the unique index takes for this one.                         *)
SameLabel(r) ==
    {l \in members[Ws(r)][op[r].address] : Lower[l] = Lower[op[r].label]}

ChangeLabels(r, labels, type) ==
    /\ members' = [members EXCEPT ![Ws(r)][op[r].address] = labels]
    /\ AppendEvent(r, Ws(r), type, <<op[r].address, op[r].label>>)

(* insert .. on conflict do nothing, logged when it inserted.              *)
AddLabel(r) ==
    /\ InTransaction(r, {"add_label"})
    /\ IF SameLabel(r) = {}
       THEN ChangeLabels(r, members[Ws(r)][op[r].address] \union {op[r].label},
                         "member_address.label_added")
       ELSE UNCHANGED <<members, log>>
    /\ Committed(r, "done")
    /\ UNCHANGED workspaces

(* Mutant: the event is appended whatever was deleted.                     *)
RemoveLabelAlwaysLogs(r) ==
    /\ InTransaction(r, {"remove_label"})
    /\ ChangeLabels(r, members[Ws(r)][op[r].address] \ SameLabel(r),
                    "member_address.label_removed")
    /\ Committed(r, "done")
    /\ UNCHANGED workspaces

(* The deletion ignores case as well; the event names the label asked for. *)
RemoveLabel(r) ==
    /\ InTransaction(r, {"remove_label"})
    /\ IF SameLabel(r) # {}
       THEN ChangeLabels(r, members[Ws(r)][op[r].address] \ SameLabel(r),
                         "member_address.label_removed")
       ELSE UNCHANGED <<members, log>>
    /\ Committed(r, "done")
    /\ UNCHANGED workspaces

(* append_observation, balance.observed or transfer.observed.              *)
AppendObservation(r) ==
    /\ InTransaction(r, {"observe"})
    /\ AppendEvent(r, Ws(r), "observed", <<op[r].address>>)
    /\ Committed(r, "done")
    /\ UNCHANGED <<workspaces, members>>

(***************************************************************************)
(* The timeline.                                                           *)
(***************************************************************************)

Events(w) == {e \in log : e.ws = w}

(* (occurred_at, public_id) descending.                                    *)
Newer(e, f) == e.at > f.at \/ (e.at = f.at /\ e.id > f.id)

(* list_activity: the first events, at most limit, older than an optional  *)
(* cursor, which is a set of at most one event.                            *)
ListActivity(w, before, limit) ==
    LET older == {e \in Events(w) : \A c \in before : Newer(c, e)}
    IN  {e \in older : Cardinality({f \in older : Newer(f, e)}) < limit}

Oldest(events) == {e \in events : \A f \in events : e = f \/ Newer(f, e)}

(* Mutant: the cursor is taken before the extra row is dropped.            *)
PageSkipping(w, before) ==
    LET rows  == ListActivity(w, before, PageLimit + 1)
        extra == Oldest(rows)
    IN  IF Cardinality(rows) > PageLimit
        THEN [events |-> rows \ extra, next_before |-> extra]
        ELSE [events |-> rows, next_before |-> {}]

(* activity_events: one row more than the limit tells whether there is a   *)
(* next page.                                                              *)
Page(w, before) ==
    LET rows  == ListActivity(w, before, PageLimit + 1)
        shown == rows \ Oldest(rows)
    IN  IF Cardinality(rows) > PageLimit
        THEN [events |-> shown, next_before |-> Oldest(shown)]
        ELSE [events |-> rows, next_before |-> {}]

(* activity_view or activity_json without a cursor.                        *)
FirstPage(q, a) ==
    LET page == Page(InitialOf[a], {})
    IN  /\ reader[q] = None
        /\ reader' = [reader EXCEPT ![q] =
                        [account |-> a,
                         before  |-> page.next_before,
                         shown   |-> <<page.events>>,
                         owed    |-> Events(InitialOf[a])]]
        /\ UNCHANGED <<tables, now, locals>>

(* The client follows next_before.                                         *)
NextPage(q) ==
    LET page == Page(InitialOf[reader[q].account], reader[q].before)
    IN  /\ reader[q] # None
        /\ reader[q].before # {}
        /\ reader' = [reader EXCEPT ![q] =
                        [account |-> @.account,
                         before  |-> page.next_before,
                         shown   |-> Append(@.shown, page.events),
                         owed    |-> @.owed]]
        /\ UNCHANGED <<tables, now, locals>>

Next ==
    \/ Tick
    \/ \E r \in Requests :
          \/ \E o \in Operations : Arrive(r, o)
          \/ \E w \in Workspaces : Create(r, w)
          \/ Refuse(r) \/ Find(r) \/ FindMember(r) \/ Permit(r)
          \/ ReadMembers(r) \/ Resolve(r) \/ StoreSnapshot(r) \/ Drop(r)
          \/ Begin(r) \/ Abort(r)
          \/ Rename(r) \/ SetArchived(r) \/ AddMember(r)
          \/ AddLabel(r) \/ RemoveLabel(r) \/ AppendObservation(r)
    \/ \E q \in Readers :
          \/ \E a \in Accounts : FirstPage(q, a)
          \/ NextPage(q)

Spec == Init /\ [][Next]_vars

(***************************************************************************)
(* Properties.                                                             *)
(***************************************************************************)

(* Every row and every local has its type; in particular a status is one   *)
(* the table's check constraint admits (migration 0011).                   *)
TypeOK ==
    /\ DOMAIN workspaces \subseteq Workspaces
    /\ \A w \in DOMAIN workspaces : workspaces[w] \in Rows
    /\ DOMAIN members = Workspaces
    /\ \A w \in Workspaces :
          /\ DOMAIN members[w] \subseteq Addresses
          /\ \A a \in DOMAIN members[w] : members[w][a] \subseteq Labels
    /\ \A e \in log : e.ws \in DOMAIN workspaces /\ e.at \in 0 .. now
    /\ \A s \in snapshots : s.ws \in DOMAIN workspaces /\ s.accounts # {}
    /\ now \in 0 .. MaxTime
    /\ pc \in [Requests -> Stages]
    /\ \A r \in Requests : op[r] = None \/ op[r] \in Operations
    /\ found \in [Requests -> Statuses \union {None}]
    /\ captured \in [Requests -> SUBSET Addresses]
    /\ began \in [Requests -> 0 .. now]
    /\ answer \in [Requests -> Answers]

(* However many addresses are registered at once, a workspace never has    *)
(* more than MAX_WORKSPACE_ADDRESSES members (add_member counts under the  *)
(* row lock; SPEC-036: "A Workspace may have up to 100 members").          *)
MemberLimit ==
    \A w \in Workspaces : Cardinality(DOMAIN members[w]) <= MaxMembers

(* From the moment an archive commits until a restore does, no request,    *)
(* however early it looked the workspace up, renames it or adds a member   *)
(* (rename's where clause, the status add_member reads under the lock;     *)
(* SPEC-015: an archived workspace is "read-only").                        *)
ArchivedIsFrozen ==
    [][\A w \in DOMAIN workspaces :
          workspaces[w].status = "archived" =>
              /\ workspaces'[w].name = workspaces[w].name
              /\ DOMAIN members'[w] = DOMAIN members[w]]_vars

(* Only requests of its owner leave a trace in a workspace (find_owned and *)
(* the where clauses; SPEC-015: "Cross-account Workspace access is denied  *)
(* by ownership checks").                                                  *)
OwnerOnly ==
    /\ \A e \in log :
          e.id > 0 => workspaces[e.ws].owner = op[e.id].account
    /\ \A s \in snapshots : workspaces[s.ws].owner = op[s.id].account

(* Whether an event can have happened to a workspace with this row and     *)
(* these members.                                                          *)
Fits(e, row, present) ==
    LET address == e.what[1]
        same    == {l \in present[address] : Lower[l] = Lower[e.what[2]]}
    IN  \/ row = None /\ e.type = "workspace.created"
        \/ /\ row # None
           /\ \/ /\ e.type \in {"workspace.renamed", "workspace.archived"}
                 /\ row.status = "active"
              \/ e.type = "workspace.restored" /\ row.status = "archived"
              \/ /\ e.type = "member_address.added"
                 /\ row.status = "active" /\ address \notin DOMAIN present
              \/ /\ address \in DOMAIN present
                 /\ \/ e.type = "member_address.label_added" /\ same = {}
                    \/ e.type = "member_address.label_removed" /\ same # {}
                    \/ e.type = "observed"

RowAfter(e, row) ==
    IF e.type = "workspace.created"
    THEN [name |-> e.what[1], status |-> "active"]
    ELSE IF e.type = "workspace.renamed"
    THEN [row EXCEPT !.name = e.what[1]]
    ELSE IF e.type \in {"workspace.archived", "workspace.restored"}
    THEN [row EXCEPT !.status = e.what[1]]
    ELSE row

MembersAfter(e, present) ==
    IF e.type = "member_address.added"
    THEN [a \in DOMAIN present \union {e.what[1]} |->
            IF a \in DOMAIN present THEN present[a] ELSE {}]
    ELSE IF e.type = "member_address.label_added"
    THEN [present EXCEPT ![e.what[1]] = @ \union {e.what[2]}]
    ELSE IF e.type = "member_address.label_removed"
    THEN [present EXCEPT ![e.what[1]] =
            {l \in @ : Lower[l] # Lower[e.what[2]]}]
    ELSE present

(* What one event makes of a workspace.                                    *)
Apply(e, state) ==
    IF Fits(e, state.row, state.members)
    THEN [ok      |-> state.ok,
          row     |-> RowAfter(e, state.row),
          members |-> MembersAfter(e, state.members)]
    ELSE [state EXCEPT !.ok = FALSE]

(* What is known of a workspace before its first event.                    *)
Nothing == [ok |-> TRUE, row |-> None, members |-> NoMembers]

(* The event that was committed last.                                      *)
Last(events) == CHOOSE e \in events : \A f \in events : f.no <= e.no

(* Events applied in the order of their commits.                           *)
Replay(events) == MapThenFoldSet(Apply, Nothing, LAMBDA e : e, Last, events)

(* What the tables hold of a workspace.                                    *)
View(w) ==
    [ok      |-> TRUE,
     row     |-> [name |-> workspaces[w].name, status |-> workspaces[w].status],
     members |-> members[w]]

(* The activity log is the workspace's whole history and nothing else:     *)
(* replaying the events of a workspace in the order of their commits gives *)
(* its name, status, members and labels, and no event records a change     *)
(* that did not happen, whatever failed, raced or lost its reply           *)
(* (append_event runs in the transaction of the change; SPEC-021: "Persist *)
(* Workspace lifecycle, address, and label mutations as immutable activity *)
(* events").                                                               *)
LogReplays == \A w \in DOMAIN workspaces : Replay(Events(w)) = View(w)

Logged(r) == \E e \in log : e.id = r

(* A lifecycle request that is answered with a redirect has happened, one  *)
(* that is answered with 404 has not, and nothing that is refused leaves   *)
(* an event or a snapshot behind (rename, set_archived and create return   *)
(* what their statement returned; the handlers of workspaces.rs).          *)
AnswersTruthful ==
    \A r \in Requests :
        /\ /\ answer[r] = "done"
           /\ Kind(r) \in {"create", "rename", "archive", "restore"}
           => Logged(r)
        /\ answer[r] \in {"not_found", "invalid", "forbidden"} =>
              ~ Logged(r) /\ \A s \in snapshots : s.id # r

(* Two labels of a member never differ in case only, although add_label    *)
(* compares with the labels it read before its transaction (the unique     *)
(* index on lower(label), migration 0011).                                 *)
LabelsDistinct ==
    \A w \in Workspaces : \A a \in DOMAIN members[w] :
        \A k, l \in members[w][a] : Lower[k] = Lower[l] => k = l

(* A client that follows next_before to the end is shown every event that  *)
(* was committed when it began, none twice, newest first, although events  *)
(* are committed meanwhile, some of them with an earlier time than those   *)
(* already shown (list_activity, activity_events; SPEC-021: "newest-first  *)
(* cursor pagination").                                                    *)
TimelineComplete ==
    \A q \in Readers :
        reader[q] # None =>
            LET shown == reader[q].shown
            IN  /\ \A i, j \in DOMAIN shown :
                      i < j => \A e \in shown[i], f \in shown[j] : Newer(e, f)
                /\ reader[q].before = {} =>
                      reader[q].owed \subseteq UNION {shown[i] : i \in DOMAIN shown}

(* MAX_ADDRESS_LABELS and its error "workspace address label limit         *)
(* reached" (src/application/workspaces/mod.rs): a member has no more      *)
(* labels than that.                                                       *)
LabelLimit ==
    \A w \in Workspaces : \A a \in DOMAIN members[w] :
        Cardinality(members[w][a]) <= MaxLabels

(* SPEC-015 on archived workspaces: "read-only except for explicit         *)
(* restore/archive operations".  No treasury snapshot is stored in one     *)
(* (capture_treasury_snapshot), and no label changes between an archive    *)
(* and the next restore (add_label and remove_label).                      *)
ArchivedIsReadOnly ==
    /\ \A s \in snapshots : ~ s.archived
    /\ \A e, f \in log :
          /\ e.ws = f.ws /\ e.no < f.no
          /\ e.type = "workspace.archived"
          /\ f.type \in {"member_address.label_added",
                         "member_address.label_removed"}
          => \E g \in log : /\ g.ws = e.ws /\ e.no < g.no /\ g.no < f.no
                           /\ g.type = "workspace.restored"

=============================================================================
