--------------------------- MODULE WorkspacesProofs ---------------------------
(***************************************************************************)
(* Proofs about Workspaces, for any requests, accounts, workspaces,        *)
(* addresses, labels and limits.                                           *)
(***************************************************************************)
EXTENDS Workspaces, FiniteSetTheorems, TLAPS

Lifecycle == {"create", "rename", "archive", "restore"}

Busy == Stages \ {"idle", "done", "dropped"}

(* The workspace rows, and what the locals of a request are.               *)
RowsInv ==
    /\ DOMAIN workspaces \subseteq Workspaces
    /\ \A w \in DOMAIN workspaces : workspaces[w] \in Rows

LocalsInv ==
    /\ pc \in [Requests -> Stages]
    /\ op \in [Requests -> Operations \union {None}]
    /\ answer \in [Requests -> Answers]
    /\ \A r \in Requests : pc[r] \in Busy => op[r] \in Operations

(* A request past its lookup works on a workspace of its account.          *)
Claims(r) ==
    \/ pc[r] \in {"find_member", "permit", "members", "resolve", "store"}
    \/ pc[r] \in {"begin", "commit"} /\ Kind(r) \notin Lifecycle

FlowInv == \A r \in Requests : Claims(r) => Owned(r)

BaseInv == RowsInv /\ LocalsInv /\ FlowInv

(***************************************************************************)
(* Facts about the constants and about steps.                              *)
(***************************************************************************)

(* What an operation record holds (the forms of workspaces.rs).            *)
LEMMA OperationFields ==
    ASSUME NEW o \in Operations
    PROVE  /\ o.account \in Accounts
           /\ o.ws \in Workspaces
           /\ o.kind \in {"create", "rename"} => o.name \in Names
  BY WorkspacesAssumption DEF WorkspacesAssumption, Operation

(* What pages shown one after the other are.                               *)
LEMMA SeqGrows ==
    ASSUME NEW S, NEW T, S \subseteq T, NEW s \in Seq(SUBSET S)
    PROVE  s \in Seq(SUBSET T)
  <1>1. s \in [1 .. Len(s) -> SUBSET S] /\ Len(s) \in Nat
    OBVIOUS
  <1>2. s \in [1 .. Len(s) -> SUBSET T]
    BY <1>1
  <1> QED BY <1>1, <1>2

LEMMA OneMore ==
    ASSUME NEW T, NEW s \in Seq(T), NEW x \in T, NEW t, t = Append(s, x),
           NEW n, n = Len(s)
    PROVE  /\ n \in Nat /\ DOMAIN s = 1 .. n /\ DOMAIN t = 1 .. n + 1
           /\ \A i \in 1 .. n : t[i] = s[i]
           /\ t[n + 1] = x /\ t \in Seq(T)
  OBVIOUS

LEMMA EarlierOf ==
    ASSUME NEW n \in Nat, NEW i \in 1 .. n + 1, NEW j \in 1 .. n + 1, i < j
    PROVE  i \in 1 .. n /\ (j \in 1 .. n \/ j = n + 1)
  OBVIOUS

(* The events that signing up logs: the initial workspace and its address. *)
CreatedEvent(w) == Event(0, w, "workspace.created", <<InitialName>>, 0, 0)

AddedEvent(w, a) == Event(-1, w, "member_address.added", <<a>>, 0, 1)

LEMMA InitialFields ==
    /\ \A w : /\ CreatedEvent(w).ws = w /\ CreatedEvent(w).id = 0
              /\ CreatedEvent(w).at = 0 /\ CreatedEvent(w).no = 0
              /\ CreatedEvent(w).type = "workspace.created"
              /\ CreatedEvent(w).what[1] = InitialName
    /\ \A w, a : /\ AddedEvent(w, a).ws = w /\ AddedEvent(w, a).id = -1
                 /\ AddedEvent(w, a).at = 0 /\ AddedEvent(w, a).no = 1
                 /\ AddedEvent(w, a).type = "member_address.added"
                 /\ AddedEvent(w, a).what[1] = a
  BY DEF CreatedEvent, AddedEvent, Event

LEMMA InitialLog ==
    ASSUME Init
    PROVE  log = {CreatedEvent(w) : w \in DOMAIN workspaces} \union
                   {AddedEvent(w, a) : w \in DOMAIN workspaces, a \in InitialMembers}
  BY DEF Init, CreatedEvent, AddedEvent

(* They differ in their workspace or in their id.                          *)
LEMMA InitialDates ==
    ASSUME Init
    PROVE  /\ now \in Nat /\ began \in [Requests -> Nat]
           /\ \A e, f \in log : e.ws = f.ws /\ e.id = f.id => e = f
           /\ \A e \in log : e.at \in Int /\ e.id \in Int /\ e.no \in {0, 1}
  <1>1. \A a, b \in InitialMembers : a = b
    BY WorkspacesAssumption DEF WorkspacesAssumption
  <1>2. now \in Nat /\ began \in [Requests -> Nat]
    BY DEF Init
  <1> QED BY <1>1, <1>2, InitialLog, InitialFields

(* What a label event makes of the labels of a member.                     *)
LEMMA LabelAdded ==
    ASSUME NEW e, NEW m, e.type = "member_address.label_added"
    PROVE  MembersAfter(e, m) =
             [m EXCEPT ![e.what[1]] = m[e.what[1]] \union {e.what[2]}]
  BY DEF MembersAfter

LEMMA LabelRemoved ==
    ASSUME NEW e, NEW m, e.type = "member_address.label_removed",
           NEW left, left = {l \in m[e.what[1]] : Lower[l] # Lower[e.what[2]]}
    PROVE  MembersAfter(e, m) = [m EXCEPT ![e.what[1]] = left]
  BY DEF MembersAfter

(* Which actions write to the tables (the methods of                       *)
(* WorkspaceRepository); every other step leaves them alone.               *)
Writes(r) ==
    \/ StoreSnapshot(r) \/ Rename(r) \/ SetArchived(r) \/ AddMember(r)
    \/ AddLabel(r) \/ RemoveLabel(r) \/ AppendObservation(r)
    \/ \E w \in Workspaces : Create(r, w)

LEMMA Writers ==
    ASSUME [Next]_vars
    PROVE  UNCHANGED tables \/ \E r \in Requests : Writes(r)
  <1>1. CASE UNCHANGED vars
    BY <1>1 DEF vars
  <1>2. CASE Tick
    BY <1>2 DEF Tick
  <1>3. ASSUME NEW r \in Requests,
               \/ \E o \in Operations : Arrive(r, o)
               \/ Refuse(r) \/ Find(r) \/ FindMember(r) \/ Permit(r)
               \/ ReadMembers(r) \/ Resolve(r) \/ Drop(r)
               \/ Begin(r) \/ Abort(r)
        PROVE  UNCHANGED tables
    BY <1>3 DEF Arrive, Refuse, Find, FindMember, Permit, ReadMembers, Resolve,
                Drop, Begin, Abort
  <1>4. ASSUME NEW q \in Readers,
               NextPage(q) \/ \E a \in Accounts : FirstPage(q, a)
        PROVE  UNCHANGED tables
    BY <1>4 DEF NextPage, FirstPage
  <1> QED BY <1>1, <1>2, <1>3, <1>4 DEF Next, Writes

(* The transactions that do not touch the workspace rows.                  *)
LEMMA RowWriters ==
    ASSUME [Next]_vars
    PROVE  \/ UNCHANGED workspaces
           \/ \E r \in Requests :
                 Rename(r) \/ SetArchived(r) \/ \E w \in Workspaces : Create(r, w)
  <1>1. ASSUME NEW r \in Requests,
               \/ StoreSnapshot(r) \/ AddMember(r) \/ AddLabel(r)
               \/ RemoveLabel(r) \/ AppendObservation(r)
        PROVE  UNCHANGED workspaces
    BY <1>1 DEF StoreSnapshot, AddMember, AddLabel, RemoveLabel,
                AppendObservation
  <1> QED BY <1>1, Writers DEF Writes, tables

(* A step of a request is a step of one request, and changes its locals    *)
(* and no other's.                                                         *)
Acts(r) ==
    \/ \E o \in Operations : Arrive(r, o)
    \/ Refuse(r) \/ Find(r) \/ FindMember(r) \/ Permit(r)
    \/ ReadMembers(r) \/ Resolve(r) \/ Drop(r) \/ Begin(r) \/ Abort(r)
    \/ Writes(r)

LEMMA Steps ==
    ASSUME [Next]_vars
    PROVE  UNCHANGED <<tables, pc, op, answer>> \/ \E r \in Requests : Acts(r)
  <1>1. CASE UNCHANGED vars
    BY <1>1 DEF vars, locals
  <1>2. CASE Tick
    BY <1>2 DEF Tick, locals
  <1>3. ASSUME NEW q \in Readers,
               NextPage(q) \/ \E a \in Accounts : FirstPage(q, a)
        PROVE  UNCHANGED <<tables, pc, op, answer>>
    BY <1>3 DEF NextPage, FirstPage, locals
  <1> QED BY <1>1, <1>2, <1>3 DEF Next, Writes, Acts

(***************************************************************************)
(* Types and ownership.                                                    *)
(***************************************************************************)

(* Rename and set_archived keep the row's other columns, create adds a row *)
(* of its own.                                                             *)
LEMMA RowsStep ==
    ASSUME RowsInv, LocalsInv, [Next]_vars
    PROVE  /\ RowsInv'
           /\ DOMAIN workspaces \subseteq DOMAIN workspaces'
           /\ \A w \in DOMAIN workspaces :
                 workspaces'[w].owner = workspaces[w].owner
  <1>1. CASE UNCHANGED workspaces
    BY <1>1 DEF RowsInv
  <1>2. ASSUME NEW r \in Requests, InTransaction(r, {"create", "rename", "archive", "restore"})
        PROVE  op[r] \in Operations
    BY <1>2 DEF InTransaction, LocalsInv, Busy, Stages
  <1>3. ASSUME NEW r \in Requests, Rename(r), ~ UNCHANGED workspaces
        PROVE  /\ RowsInv'
               /\ DOMAIN workspaces \subseteq DOMAIN workspaces'
               /\ \A w \in DOMAIN workspaces :
                     workspaces'[w].owner = workspaces[w].owner
    <2>1. op[r] \in Operations /\ Kind(r) = "rename"
      BY <1>3, <1>2 DEF Rename, InTransaction
    <2>2. op[r].name \in Names
      BY <2>1, OperationFields DEF Kind
    <2>3. workspaces' = [workspaces EXCEPT ![Ws(r)].name = op[r].name]
      BY <1>3 DEF Rename, NoRow
    <2>4. \A w \in DOMAIN workspaces : [workspaces[w] EXCEPT !.name = op[r].name] \in Rows
      BY <2>2 DEF RowsInv, Rows
    <2> QED BY <2>3, <2>4 DEF RowsInv, Rows
  <1>4. ASSUME NEW r \in Requests, SetArchived(r), ~ UNCHANGED workspaces
        PROVE  /\ RowsInv'
               /\ DOMAIN workspaces \subseteq DOMAIN workspaces'
               /\ \A w \in DOMAIN workspaces :
                     workspaces'[w].owner = workspaces[w].owner
    <2>1. workspaces' = [workspaces EXCEPT ![Ws(r)].status = Target(Kind(r))]
      BY <1>4 DEF SetArchived, NoRow
    <2>2. Target(Kind(r)) \in Statuses
      BY DEF Target, Statuses
    <2>3. \A w \in DOMAIN workspaces :
             [workspaces[w] EXCEPT !.status = Target(Kind(r))] \in Rows
      BY <2>2 DEF RowsInv, Rows
    <2> QED BY <2>1, <2>3 DEF RowsInv, Rows
  <1>5. ASSUME NEW r \in Requests, NEW w \in Workspaces, Create(r, w)
        PROVE  /\ RowsInv'
               /\ DOMAIN workspaces \subseteq DOMAIN workspaces'
               /\ \A x \in DOMAIN workspaces :
                     workspaces'[x].owner = workspaces[x].owner
    <2>1. op[r] \in Operations /\ Kind(r) = "create"
      BY <1>5, <1>2 DEF Create, InTransaction
    <2>2. op[r].name \in Names /\ op[r].account \in Accounts
      BY <2>1, OperationFields DEF Kind
    <2>3. [owner |-> op[r].account, name |-> op[r].name, status |-> "active"]
             \in Rows
      BY <2>2 DEF Rows, Statuses
    <2> QED BY <1>5, <2>3 DEF Create, RowsInv
  <1> QED BY <1>1, <1>3, <1>4, <1>5, RowWriters

LEMMA LocalsStep ==
    ASSUME LocalsInv, [Next]_vars
    PROVE  LocalsInv'
  <1>1. CASE UNCHANGED <<tables, pc, op, answer>>
    BY <1>1 DEF LocalsInv
  <1>2. ASSUME NEW r \in Requests, NEW o \in Operations, Arrive(r, o)
        PROVE  LocalsInv'
    BY <1>2 DEF Arrive, Proceed, LocalsInv, Stages, Busy
  <1>3. ASSUME NEW r \in Requests, UNCHANGED op,
               \/ \E a \in Answers : Answer(r, a)
               \/ /\ pc[r] \in Busy
                  /\ \E stage \in Stages : Proceed(r, stage)
        PROVE  LocalsInv'
    BY <1>3 DEF LocalsInv, Answer, Proceed, Stages, Busy
  <1>4. ASSUME NEW r \in Requests, Drop(r)
        PROVE  LocalsInv'
    BY <1>4 DEF Drop, LocalsInv, Stages, Busy
  <1>5. ASSUME NEW r \in Requests,
               \/ Refuse(r) \/ Find(r) \/ FindMember(r) \/ Permit(r)
               \/ ReadMembers(r) \/ Resolve(r) \/ Begin(r) \/ Abort(r)
               \/ StoreSnapshot(r)
        PROVE  LocalsInv'
    <2>1. UNCHANGED op
      BY <1>5 DEF Refuse, Find, FindMember, Permit, ReadMembers, Resolve, Begin,
                  Abort, StoreSnapshot
    <2>2. \/ \E a \in Answers : Answer(r, a)
          \/ pc[r] \in Busy /\ \E stage \in Stages : Proceed(r, stage)
      BY <1>5 DEF Refuse, Find, FindMember, Permit, ReadMembers, Resolve, Begin,
                  Abort, StoreSnapshot, Failure, Answers, Stages, Busy
    <2> QED BY <2>1, <2>2, <1>3
  <1>6. ASSUME NEW r \in Requests, NEW a \in Answers, UNCHANGED op, Committed(r, a)
        PROVE  LocalsInv'
    BY <1>6, <1>3 DEF Committed, Failure, Answers
  <1>7. ASSUME NEW r \in Requests,
               \/ Rename(r) \/ SetArchived(r) \/ AddMember(r) \/ AddLabel(r)
               \/ RemoveLabel(r) \/ AppendObservation(r)
               \/ \E w \in Workspaces : Create(r, w)
        PROVE  LocalsInv'
    <2>1. UNCHANGED op
      BY <1>7, Zenon DEF Rename, SetArchived, AddMember, AddLabel, RemoveLabel,
                  AppendObservation, Create, InTransaction
    <2>2. \E a \in Answers : Committed(r, a)
      BY <1>7, Zenon DEF Rename, SetArchived, AddMember, AddLabel, RemoveLabel,
                  AppendObservation, Create, NoRow, Answers
    <2> QED BY <2>1, <2>2, <1>6
  <1> QED BY <1>1, <1>2, <1>4, <1>5, <1>7, Steps DEF Acts, Writes

(* A request of another account, or one still in its lookup, claims        *)
(* nothing; a request that claims a workspace was shown its row.           *)
LEMMA FlowStep ==
    ASSUME BaseInv, [Next]_vars
    PROVE  FlowInv'
  <1>1. /\ DOMAIN workspaces \subseteq DOMAIN workspaces'
        /\ \A w \in DOMAIN workspaces :
              workspaces'[w].owner = workspaces[w].owner
    BY RowsStep DEF BaseInv
  <1>2. ASSUME NEW r \in Requests, Owned(r), op'[r] = op[r]
        PROVE  Owned(r)'
    BY <1>1, <1>2 DEF Owned, Ws
  <1>3. ASSUME NEW r \in Requests, pc'[r] = pc[r], op'[r] = op[r]
        PROVE  Claims(r)' => Owned(r)'
    BY <1>2, <1>3 DEF Claims, Kind, BaseInv, FlowInv
  <1>4. ASSUME NEW r \in Requests, pc'[r] \in {"done", "dropped"}
        PROVE  Claims(r)' => Owned(r)'
    BY <1>4 DEF Claims
  <1>5. CASE UNCHANGED <<tables, pc, op, answer>>
    BY <1>5, <1>3 DEF FlowInv
  <1>6. ASSUME NEW r \in Requests, Acts(r)
        PROVE  FlowInv'
    <2>1. ASSUME NEW x \in Requests, x # r
          PROVE  pc'[x] = pc[x] /\ op'[x] = op[x]
      BY <1>6, <2>1, Zenon DEF Acts, Writes, Arrive, Refuse, Find, FindMember, Permit,
         ReadMembers, Resolve, Drop, Begin, Abort, StoreSnapshot, Rename,
         SetArchived, AddMember, AddLabel, RemoveLabel, AppendObservation,
         Create, NoRow, InTransaction, Committed, Answer, Proceed,
         BaseInv, LocalsInv
    <2> SUFFICES Claims(r)' => Owned(r)'
      BY <2>1, <1>3 DEF FlowInv
    <2>2. ASSUME NEW o \in Operations, Arrive(r, o)
          PROVE  Claims(r)' => Owned(r)'
      BY <2>2 DEF Arrive, Proceed, Claims, Kind, Lifecycle, BaseInv, LocalsInv
    <2>3. CASE Find(r)
      <3>1. op'[r] = op[r]
        BY <2>3 DEF Find
      <3>2. Owned(r) \/ pc'[r] = "done"
        BY <2>3 DEF Find, Answer, BaseInv, LocalsInv
      <3> QED BY <3>1, <3>2, <1>2, <1>4
    <2>4. CASE FindMember(r) \/ Permit(r) \/ ReadMembers(r) \/ Resolve(r)
      <3>1. op'[r] = op[r]
        BY <2>4 DEF FindMember, Permit, ReadMembers, Resolve
      <3>2. Claims(r)
        BY <2>4 DEF FindMember, Permit, ReadMembers, Resolve, Claims
      <3> QED BY <3>1, <3>2, <1>2 DEF BaseInv, FlowInv
    <2>5. CASE Begin(r)
      <3>1. op'[r] = op[r] /\ pc[r] = "begin" /\ pc'[r] = "commit"
        BY <2>5 DEF Begin, Proceed, BaseInv, LocalsInv
      <3>2. Claims(r)' => Claims(r)
        BY <3>1 DEF Claims, Kind
      <3> QED BY <3>1, <3>2, <1>2 DEF BaseInv, FlowInv
    <2>6. CASE Refuse(r) \/ Drop(r) \/ Abort(r) \/ Writes(r)
      <3>1. pc'[r] \in {"done", "dropped"}
        BY <2>6, Zenon DEF Refuse, Drop, Abort, Writes, StoreSnapshot, Rename,
           SetArchived, AddMember, AddLabel, RemoveLabel, AppendObservation,
           Create, NoRow, Committed, Answer, BaseInv, LocalsInv
      <3> QED BY <3>1, <1>4
    <2> QED BY <1>6, <2>2, <2>3, <2>4, <2>5, <2>6 DEF Acts
  <1> QED BY <1>5, <1>6, Steps

LEMMA BaseInit == Init => BaseInv
  <1> SUFFICES ASSUME Init PROVE BaseInv
    OBVIOUS
  <1>1. \A a \in Accounts : InitialOf[a] \in Workspaces
    BY WorkspacesAssumption DEF WorkspacesAssumption
  <1>2. InitialName \in Names
    BY WorkspacesAssumption DEF WorkspacesAssumption
  <1>3. ASSUME NEW w \in {InitialOf[a] : a \in Accounts}
        PROVE  (CHOOSE a \in Accounts : InitialOf[a] = w) \in Accounts
    OBVIOUS
  <1>4. RowsInv
    BY <1>1, <1>2, <1>3 DEF Init, RowsInv, Rows, Statuses
  <1>5. LocalsInv
    BY DEF Init, LocalsInv, Stages, Busy, Answers
  <1>6. FlowInv
    BY DEF Init, FlowInv, Claims
  <1> QED BY <1>4, <1>5, <1>6 DEF BaseInv

(* Rows and locals keep their types, and every transaction on an existing  *)
(* workspace runs for its owner (find_owned).                              *)
THEOREM BaseHolds == Spec => []BaseInv
  <1>1. Init => BaseInv
    BY BaseInit
  <1>2. BaseInv /\ [Next]_vars => BaseInv'
    BY RowsStep, LocalsStep, FlowStep DEF BaseInv
  <1> QED BY <1>1, <1>2, PTL DEF Spec

(***************************************************************************)
(* The member limit.                                                       *)
(***************************************************************************)

MembersInv ==
    /\ DOMAIN members = Workspaces
    /\ \A w \in Workspaces :
          /\ IsFiniteSet(DOMAIN members[w])
          /\ Cardinality(DOMAIN members[w]) <= MaxMembers

LEMMA LimitIsNumber == MaxMembers \in Nat /\ MaxMembers >= 1
  BY WorkspacesAssumption DEF WorkspacesAssumption

(* Label changes keep the set of members, add_member adds at most one.     *)
LEMMA MembersStep ==
    ASSUME MembersInv, [Next]_vars
    PROVE  MembersInv'
  <1>1. CASE UNCHANGED members
    BY <1>1 DEF MembersInv
  <1>2. ASSUME NEW r \in Requests, AddLabel(r) \/ RemoveLabel(r),
               ~ UNCHANGED members
        PROVE  MembersInv'
    <2>1. PICK labels : members' = [members EXCEPT ![Ws(r)][op[r].address] = labels]
      BY <1>2 DEF AddLabel, RemoveLabel, ChangeLabels
    <2>2. \A w \in Workspaces : DOMAIN members'[w] = DOMAIN members[w]
      BY <2>1 DEF MembersInv
    <2> QED BY <2>1, <2>2 DEF MembersInv
  <1>3. ASSUME NEW r \in Requests, AddMember(r), ~ UNCHANGED members
        PROVE  MembersInv'
    <2> DEFINE present == DOMAIN members[Ws(r)]
    <2>1. /\ members' = [members EXCEPT ![Ws(r)] =
                           [a \in present \union {op[r].address} |->
                              IF a \in present THEN @[a] ELSE {}]]
          /\ op[r].address \notin present
          /\ ~ (Cardinality(present) >= MaxMembers)
      BY <1>3 DEF AddMember, MembersFull
    <2>2. CASE Ws(r) \notin Workspaces
      BY <2>1, <2>2 DEF MembersInv
    <2>3. CASE Ws(r) \in Workspaces
      <3>1. IsFiniteSet(present)
        BY <2>3 DEF MembersInv
      <3>2. /\ IsFiniteSet(present \union {op[r].address})
            /\ Cardinality(present \union {op[r].address})
                 = Cardinality(present) + 1
        BY <3>1, <2>1, FS_AddElement
      <3>3. Cardinality(present) \in Nat
        BY <3>1, FS_CardinalityType
      <3>4. Cardinality(present) + 1 <= MaxMembers
        BY <3>3, <2>1, LimitIsNumber
      <3>5. DOMAIN members'[Ws(r)] = present \union {op[r].address}
        BY <2>1, <2>3 DEF MembersInv
      <3>6. \A w \in Workspaces \ {Ws(r)} : members'[w] = members[w]
        BY <2>1 DEF MembersInv
      <3>7. DOMAIN members' = Workspaces
        BY <2>1 DEF MembersInv
      <3> HIDE DEF present
      <3> QED BY <3>2, <3>4, <3>5, <3>6, <3>7 DEF MembersInv
    <2> QED BY <2>2, <2>3
  <1>4. ASSUME NEW r \in Requests,
               \/ StoreSnapshot(r) \/ Rename(r) \/ SetArchived(r)
               \/ AppendObservation(r) \/ \E w \in Workspaces : Create(r, w)
        PROVE  UNCHANGED members
    BY <1>4, Zenon DEF StoreSnapshot, Rename, SetArchived, AppendObservation, Create,
                NoRow
  <1> QED BY <1>1, <1>2, <1>3, <1>4, Writers DEF Writes, tables

(* At first an initial workspace has at most one member.                   *)
LEMMA MembersInit == Init => MembersInv
  <1> SUFFICES ASSUME Init PROVE MembersInv
    OBVIOUS
  <1>1. /\ IsFiniteSet(InitialMembers)
        /\ Cardinality(InitialMembers) <= MaxMembers
    <2>1. CASE InitialMembers = {}
      BY <2>1, FS_EmptySet, LimitIsNumber
    <2>2. ASSUME NEW a \in Addresses, InitialMembers = {a}
          PROVE  /\ IsFiniteSet(InitialMembers)
                 /\ Cardinality(InitialMembers) <= MaxMembers
      BY <2>2, FS_Singleton, LimitIsNumber
    <2> QED BY <2>1, <2>2, WorkspacesAssumption DEF WorkspacesAssumption
  <1>2. IsFiniteSet({}) /\ Cardinality({}) <= MaxMembers
    BY FS_EmptySet, LimitIsNumber
  <1>3. \A w \in Workspaces : DOMAIN members[w] \in {{}, InitialMembers}
    BY DEF Init, NoMembers
  <1>4. DOMAIN members = Workspaces
    BY DEF Init
  <1> QED BY <1>1, <1>2, <1>3, <1>4 DEF MembersInv

(* However registrations interleave and fail, a workspace never has more   *)
(* than MAX_WORKSPACE_ADDRESSES members (add_member under the row lock).   *)
THEOREM MemberLimitHolds == Spec => []MemberLimit
  <1>1. Init => MembersInv
    BY MembersInit
  <1>2. MembersInv /\ [Next]_vars => MembersInv'
    BY MembersStep
  <1>3. MembersInv => MemberLimit
    BY DEF MembersInv, MemberLimit
  <1> QED BY <1>1, <1>2, <1>3, PTL DEF Spec

(***************************************************************************)
(* Archived workspaces.                                                    *)
(***************************************************************************)

Frozen ==
    \A w \in DOMAIN workspaces :
        workspaces[w].status = "archived" =>
            /\ workspaces'[w].name = workspaces[w].name
            /\ DOMAIN members'[w] = DOMAIN members[w]

(* An archived workspace keeps its name and members until it is restored,  *)
(* whatever requests found before the archive committed (rename's where    *)
(* clause, add_member's status under the lock).                            *)
THEOREM ArchivedFrozen == Spec => ArchivedIsFrozen
  <1>1. ASSUME BaseInv, MembersInv, [Next]_vars
        PROVE  [Frozen]_vars
    <2> SUFFICES Frozen
      OBVIOUS
    <2>1. DOMAIN workspaces \subseteq Workspaces
      BY <1>1 DEF BaseInv, RowsInv
    <2>2. CASE UNCHANGED tables
      BY <2>2 DEF tables, Frozen
    <2>3. ASSUME NEW r \in Requests,
                 StoreSnapshot(r) \/ AppendObservation(r)
          PROVE  Frozen
      BY <2>3 DEF StoreSnapshot, AppendObservation, Frozen
    <2>4. ASSUME NEW r \in Requests, AddLabel(r) \/ RemoveLabel(r)
          PROVE  Frozen
      BY <1>1, <2>1, <2>4 DEF AddLabel, RemoveLabel, ChangeLabels, MembersInv,
                              Frozen
    <2>5. ASSUME NEW r \in Requests, AddMember(r)
          PROVE  Frozen
      <3>1. UNCHANGED workspaces
        BY <2>5 DEF AddMember
      <3>2. UNCHANGED members \/ /\ workspaces[Ws(r)].status = "active"
                                 /\ \A w \in Workspaces \ {Ws(r)} :
                                       members'[w] = members[w]
        BY <1>1, <2>5 DEF AddMember, MembersInv
      <3> QED BY <2>1, <3>1, <3>2 DEF Frozen
    <2>6. ASSUME NEW r \in Requests, Rename(r)
          PROVE  Frozen
      <3>1. UNCHANGED members
        BY <2>6 DEF Rename, NoRow
      <3>2. \/ UNCHANGED workspaces
            \/ /\ workspaces[Ws(r)].status = "active"
               /\ workspaces' = [workspaces EXCEPT ![Ws(r)].name = op[r].name]
        BY <2>6 DEF Rename, NoRow
      <3> QED BY <3>1, <3>2 DEF Frozen
    <2>7. ASSUME NEW r \in Requests, SetArchived(r)
          PROVE  Frozen
      <3>1. UNCHANGED members
        BY <2>7 DEF SetArchived, NoRow
      <3>2. \/ UNCHANGED workspaces
            \/ workspaces' = [workspaces EXCEPT ![Ws(r)].status = Target(Kind(r))]
        BY <2>7 DEF SetArchived, NoRow
      <3> QED BY <1>1, <3>1, <3>2 DEF Frozen, BaseInv, RowsInv, Rows
    <2>8. ASSUME NEW r \in Requests, NEW w \in Workspaces, Create(r, w)
          PROVE  Frozen
      BY <2>8 DEF Create, Frozen
    <2> QED BY <1>1, <2>2, <2>3, <2>4, <2>5, <2>6, <2>7, <2>8, Writers DEF Writes
  <1>2. Spec => []MembersInv
    <2>1. MembersInv /\ [Next]_vars => MembersInv'
      BY MembersStep
    <2> QED BY <2>1, MembersInit, PTL DEF Spec
  <1> QED BY <1>1, <1>2, BaseHolds, PTL DEF Spec, ArchivedIsFrozen, Frozen

(***************************************************************************)
(* What requests leave behind.                                             *)
(***************************************************************************)

(* An event or snapshot of a request is in a workspace of its account, and *)
(* was written by the step that answered it.                               *)
TraceInv ==
    /\ \A e \in log :
          /\ e.ws \in DOMAIN workspaces
          /\ e.id > 0 => /\ e.id \in Requests
                         /\ pc[e.id] = "done"
                         /\ workspaces[e.ws].owner = op[e.id].account
    /\ \A s \in snapshots :
          /\ s.ws \in DOMAIN workspaces
          /\ s.id \in Requests
          /\ pc[s.id] = "done"
          /\ workspaces[s.ws].owner = op[s.id].account

LEMMA RequestsPositive == \A r \in Requests : r \in Nat /\ r > 0
  BY WorkspacesAssumption DEF WorkspacesAssumption

(* A transaction that is not a lookup's, and a snapshot, work on an owned  *)
(* workspace.                                                              *)
LEMMA CommitsOwned ==
    ASSUME BaseInv, NEW r \in Requests,
           \/ StoreSnapshot(r)
           \/ InTransaction(r, {"add_address", "add_label", "remove_label",
                                "observe"})
    PROVE  Owned(r)
  BY DEF BaseInv, FlowInv, Claims, StoreSnapshot, InTransaction, Lifecycle

(* A step of a request finds it unanswered and leaves the others alone.    *)
LEMMA ActFrame ==
    ASSUME LocalsInv, NEW r \in Requests, Acts(r)
    PROVE  /\ pc[r] \notin {"done", "dropped"}
           /\ \A x \in Requests \ {r} :
                 pc'[x] = pc[x] /\ op'[x] = op[x] /\ answer'[x] = answer[x]
  BY Zenon DEF Acts, Writes, Arrive, Refuse, Find, FindMember, Permit,
         ReadMembers, Resolve, Drop, Begin, Abort, StoreSnapshot, Rename,
         SetArchived, AddMember, AddLabel, RemoveLabel, AppendObservation,
         Create, NoRow, InTransaction, Committed, Answer, Proceed, LocalsInv

(* A writing step is the last one of its request.                          *)
LEMMA WriterFrame ==
    ASSUME LocalsInv, NEW r \in Requests, Writes(r)
    PROVE  pc'[r] = "done" /\ UNCHANGED op
  BY Zenon DEF Writes, StoreSnapshot, Rename, SetArchived, AddMember, AddLabel,
         RemoveLabel, AppendObservation, Create, NoRow, InTransaction,
         Committed, Answer, LocalsInv

(* The other steps write nothing.                                          *)
LEMMA ReaderFrame ==
    ASSUME NEW r \in Requests, Acts(r), ~ Writes(r)
    PROVE  UNCHANGED tables
  BY Zenon DEF Acts, Arrive, Refuse, Find, FindMember, Permit, ReadMembers, Resolve,
         Drop, Begin, Abort

(* What a writing step adds is its own, in a workspace of its account.     *)
Own(r, x) ==
    /\ x.id = r
    /\ x.ws \in DOMAIN workspaces'
    /\ workspaces'[x.ws].owner = op[r].account

LEMMA NewRecords ==
    ASSUME BaseInv, NEW r \in Requests, Writes(r), [Next]_vars
    PROVE  /\ \A e \in log' : e \in log \/ Own(r, e)
           /\ \A s \in snapshots' : s \in snapshots \/ Own(r, s)
  <1>1. /\ DOMAIN workspaces \subseteq DOMAIN workspaces'
        /\ \A w \in DOMAIN workspaces :
              workspaces'[w].owner = workspaces[w].owner
    BY RowsStep DEF BaseInv
  <1>2. CASE StoreSnapshot(r)
    <2>1. Owned(r)
      BY <1>2, CommitsOwned
    <2> DEFINE s == [id |-> r, ws |-> Ws(r), accounts |-> captured[r],
                     archived |-> workspaces[Ws(r)].status = "archived"]
    <2>2. snapshots' \subseteq snapshots \union {s}
      BY <1>2 DEF StoreSnapshot
    <2>3. UNCHANGED <<workspaces, log>>
      BY <1>2 DEF StoreSnapshot
    <2>4. s.id = r /\ s.ws = Ws(r)
      OBVIOUS
    <2> HIDE DEF s
    <2>5. Own(r, s)
      BY <2>1, <2>3, <2>4 DEF Owned, Own
    <2> QED BY <2>2, <2>3, <2>5
  <1>3. ASSUME NEW type, NEW what, AppendEvent(r, Ws(r), type, what), Owned(r)
        PROVE  \A e \in log' : e \in log \/ Own(r, e)
    BY <1>1, <1>3 DEF AppendEvent, Event, Owned, Own
  <1>4. CASE Rename(r)
    <2>1. UNCHANGED snapshots
      BY <1>4 DEF Rename, InTransaction
    <2>2. \/ UNCHANGED log
          \/ /\ Owned(r)
             /\ AppendEvent(r, Ws(r), "workspace.renamed", <<op[r].name>>)
      BY <1>4 DEF Rename, NoRow
    <2> QED BY <2>1, <2>2, <1>3
  <1>5. CASE SetArchived(r)
    <2>1. UNCHANGED snapshots
      BY <1>5 DEF SetArchived, InTransaction
    <2>2. UNCHANGED log \/ (Owned(r) /\ \E type, what : AppendEvent(r, Ws(r), type, what))
      BY <1>5 DEF SetArchived, NoRow
    <2> QED BY <2>1, <2>2, <1>3
  <1>6. CASE AddMember(r) \/ AddLabel(r) \/ RemoveLabel(r) \/ AppendObservation(r)
    <2>1. UNCHANGED snapshots
      BY <1>6 DEF AddMember, AddLabel, RemoveLabel, AppendObservation,
                  InTransaction
    <2>2. UNCHANGED log \/ \E type, what : AppendEvent(r, Ws(r), type, what)
      BY <1>6 DEF AddMember, AddLabel, RemoveLabel, AppendObservation,
                  ChangeLabels
    <2>3. Owned(r)
      BY <1>6, CommitsOwned DEF AddMember, AddLabel, RemoveLabel,
         AppendObservation, InTransaction
    <2> QED BY <2>1, <2>2, <2>3, <1>3
  <1>7. ASSUME NEW w \in Workspaces, Create(r, w)
        PROVE  /\ \A e \in log' : e \in log \/ Own(r, e)
               /\ \A s \in snapshots' : s \in snapshots \/ Own(r, s)
    <2> DEFINE e == Event(r, w, "workspace.created", <<op[r].name>>, began[r],
                          Cardinality(log) + 1)
    <2>1. log' = log \union {e} /\ UNCHANGED snapshots
      BY <1>7 DEF Create, InTransaction, AppendEvent
    <2>2. w \in DOMAIN workspaces' /\ workspaces'[w].owner = op[r].account
      BY <1>7 DEF Create
    <2>3. e.id = r /\ e.ws = w
      BY DEF Event
    <2> HIDE DEF e
    <2>4. Own(r, e)
      BY <2>2, <2>3 DEF Own
    <2> QED BY <2>1, <2>4
  <1> QED BY <1>2, <1>4, <1>5, <1>6, <1>7 DEF Writes

LEMMA TraceStep ==
    ASSUME BaseInv, TraceInv, [Next]_vars
    PROVE  TraceInv'
  <1>1. /\ DOMAIN workspaces \subseteq DOMAIN workspaces'
        /\ \A w \in DOMAIN workspaces :
              workspaces'[w].owner = workspaces[w].owner
    BY RowsStep DEF BaseInv
  <1>2. CASE UNCHANGED <<tables, pc, op, answer>>
    BY <1>2 DEF TraceInv, tables
  <1>3. ASSUME NEW r \in Requests, Acts(r)
        PROVE  TraceInv'
    <2>1. \A x \in Requests : pc[x] = "done" => pc'[x] = "done" /\ op'[x] = op[x]
      BY <1>3, ActFrame DEF BaseInv
    <2>2. CASE Writes(r)
      <3>1. /\ \A e \in log' : e \in log \/ Own(r, e)
            /\ \A s \in snapshots' : s \in snapshots \/ Own(r, s)
        BY <2>2, NewRecords
      <3>2. pc'[r] = "done" /\ op' = op
        BY <2>2, WriterFrame DEF BaseInv
      <3> QED BY <1>1, <2>1, <3>1, <3>2 DEF TraceInv, Own
    <2>3. CASE ~ Writes(r)
      <3>1. UNCHANGED tables
        BY <1>3, <2>3, ReaderFrame
      <3> QED BY <2>1, <3>1 DEF TraceInv, tables
    <2> QED BY <2>2, <2>3
  <1> QED BY <1>2, <1>3, Steps

LEMMA TraceInit == Init => TraceInv
  BY DEF Init, TraceInv, Event

(* Only requests of its owner leave an event or a snapshot in a workspace  *)
(* (find_owned, and the where clauses of rename and set_archived).         *)
THEOREM OwnerOnlyHolds == Spec => []OwnerOnly
  <1>1. BaseInv /\ TraceInv /\ [Next]_vars => TraceInv'
    BY TraceStep
  <1>2. TraceInv => OwnerOnly
    BY DEF TraceInv, OwnerOnly
  <1> QED BY <1>1, <1>2, TraceInit, BaseHolds, PTL DEF Spec

(***************************************************************************)
(* Answers.                                                                *)
(***************************************************************************)

Refusals == {"not_found", "invalid", "forbidden"}

HasSnapshot(r) == \E s \in snapshots : s.id = r

Truth(r) ==
    /\ answer[r] = "done" /\ Kind(r) \in Lifecycle => Logged(r)
    /\ answer[r] \in Refusals => ~ Logged(r) /\ ~ HasSnapshot(r)

(* A request is answered by its last step, and create, rename, archive and *)
(* restore go to their transaction without a lookup.                       *)
Staged(r) ==
    /\ answer[r] # "none" => pc[r] = "done"
    /\ pc[r] \in Busy \ {"begin", "commit"} => Kind(r) \notin Lifecycle

TruthInv == \A r \in Requests : Staged(r) /\ Truth(r)

(* What is written later does not concern a request that was answered.     *)
LEMMA TruthOfOthers ==
    ASSUME BaseInv, TraceInv, TruthInv, [Next]_vars,
           NEW r \in Requests, Acts(r), NEW x \in Requests, x # r
    PROVE  Staged(x)' /\ Truth(x)'
  <1>1. pc'[x] = pc[x] /\ op'[x] = op[x] /\ answer'[x] = answer[x]
    BY ActFrame DEF BaseInv
  <1>2. /\ \A e \in log' : e \in log \/ e.id = r
        /\ \A s \in snapshots' : s \in snapshots \/ s.id = r
        /\ log \subseteq log'
    <2>1. CASE Writes(r)
      <3>1. /\ \A e \in log' : e \in log \/ e.id = r
            /\ \A s \in snapshots' : s \in snapshots \/ s.id = r
        BY <2>1, NewRecords DEF Own
      <3>2. log \subseteq log'
        BY <2>1, Zenon DEF Writes, StoreSnapshot, Rename, SetArchived, AddMember,
           AddLabel, RemoveLabel, ChangeLabels, AppendObservation, Create,
           NoRow, AppendEvent
      <3> QED BY <3>1, <3>2
    <2>2. CASE ~ Writes(r)
      BY <2>2, ReaderFrame DEF tables
    <2> QED BY <2>1, <2>2
  <1> QED BY <1>1, <1>2 DEF TruthInv, Staged, Truth, Kind, Logged, HasSnapshot

(* A request that has not been answered has left nothing.                  *)
LEMMA UnansweredLeftNothing ==
    ASSUME TraceInv, NEW r \in Requests, pc[r] # "done"
    PROVE  ~ Logged(r) /\ ~ HasSnapshot(r)
  BY RequestsPositive DEF TraceInv, Logged, HasSnapshot

(* The step that answers a request is the one that writes, if any does.    *)
LEMMA TruthOfActing ==
    ASSUME BaseInv, TraceInv, TruthInv, NEW r \in Requests, Acts(r)
    PROVE  Staged(r)' /\ Truth(r)'
  <1>1. ~ Logged(r) /\ ~ HasSnapshot(r) /\ answer[r] = "none"
    BY UnansweredLeftNothing, ActFrame DEF BaseInv, TruthInv, Staged
  <1>2. CASE ~ Writes(r)
    <2>1. UNCHANGED tables
      BY <1>2, ReaderFrame
    <2>2. ~ Logged(r)' /\ ~ HasSnapshot(r)'
      BY <1>1, <2>1 DEF tables, Logged, HasSnapshot
    <2>3. \/ answer'[r] = "none"
          \/ /\ pc'[r] = "done"
             /\ answer'[r] = "done" => op'[r].kind \notin Lifecycle
      BY <1>1, <1>2, Zenon DEF Acts, Arrive, Refuse, Find, FindMember, Permit,
         ReadMembers, Resolve, Drop, Begin, Abort, Failure, Answer, Proceed,
         Kind, Lifecycle, BaseInv, LocalsInv
    <2>4. pc'[r] \in Busy \ {"begin", "commit"} => op'[r].kind \notin Lifecycle
      BY <1>2, Zenon DEF Acts, Arrive, Refuse, Find, FindMember, Permit,
         ReadMembers, Resolve, Drop, Begin, Abort, Failure, Answer, Proceed,
         Kind, Lifecycle, Busy, BaseInv, LocalsInv, TruthInv, Staged
    <2>5. Truth(r)'
      BY <2>2, <2>3 DEF Truth, Kind, Refusals
    <2>6. Staged(r)'
      BY <2>3, <2>4 DEF Staged, Kind, Busy
    <2> QED BY <2>5, <2>6
  <1>3. ASSUME Writes(r)
        PROVE  op' = op /\ Staged(r)'
    BY <1>3, WriterFrame DEF BaseInv, Staged, Busy
  <1>4. ASSUME NEW a, Committed(r, a)
        PROVE  answer'[r] \in {a, "unavailable", "done"} /\
               (answer'[r] = "done" => a = "done" \/ Kind(r) = "observe")
    BY <1>4 DEF Committed, Answer, Failure, BaseInv, LocalsInv
  <1>5. ASSUME NEW w, NEW type, NEW what, AppendEvent(r, w, type, what)
        PROVE  Logged(r)'
    <2> DEFINE e == Event(r, w, type, what, began[r], Cardinality(log) + 1)
    <2>1. e \in log'
      BY <1>5 DEF AppendEvent
    <2>2. e.id = r
      BY DEF Event
    <2> HIDE DEF e
    <2> QED BY <2>1, <2>2 DEF Logged
  <1>6. ASSUME UNCHANGED log
        PROVE  ~ Logged(r)'
    BY <1>1, <1>6 DEF Logged
  <1>7. ASSUME UNCHANGED snapshots
        PROVE  ~ HasSnapshot(r)'
    BY <1>1, <1>7 DEF HasSnapshot
  <1>8. CASE StoreSnapshot(r)
    <2>1. answer'[r] \in {"done", "unavailable"}
      BY <1>8, Zenon DEF StoreSnapshot, Answer, BaseInv, LocalsInv
    <2>2. Kind(r) \notin Lifecycle
      BY <1>8 DEF StoreSnapshot, TruthInv, Staged, Busy, Stages
    <2> QED BY <1>3, <1>8, <2>1, <2>2, Zenon DEF Truth, Kind, Refusals, Writes
  <1>9. CASE \E w \in Workspaces : Create(r, w)
    <2>1. Logged(r)' /\ Committed(r, "done")
      BY <1>5, <1>9, Zenon DEF Create
    <2>2. answer'[r] \in {"done", "unavailable"}
      BY <2>1, <1>4
    <2> QED BY <1>3, <1>9, <2>1, <2>2 DEF Truth, Refusals, Writes
  <1>10. CASE Rename(r) \/ SetArchived(r)
    <2>1. \/ Logged(r)' /\ Committed(r, "done")
          \/ UNCHANGED log /\ Committed(r, "not_found")
      BY <1>5, <1>10 DEF Rename, SetArchived, NoRow
    <2>2. UNCHANGED snapshots /\ Kind(r) # "observe"
      BY <1>10 DEF Rename, SetArchived, InTransaction
    <2>3. \/ Logged(r)' /\ answer'[r] \in {"done", "unavailable"}
          \/ ~ Logged(r)' /\ answer'[r] \in {"not_found", "unavailable"}
      BY <1>4, <1>6, <2>1, <2>2
    <2> QED BY <1>3, <1>7, <1>10, <2>2, <2>3 DEF Truth, Refusals, Writes
  <1>11. CASE AddMember(r)
    <2>1. \/ Committed(r, "done")
          \/ UNCHANGED log /\ Committed(r, "invalid")
      BY <1>11 DEF AddMember
    <2>2. UNCHANGED snapshots /\ op[r].kind = "add_address"
      BY <1>11 DEF AddMember, InTransaction, Kind
    <2>3. \/ answer'[r] \in {"done", "unavailable"}
          \/ ~ Logged(r)' /\ answer'[r] = "invalid"
      BY <1>4, <1>6, <2>1, <2>2
    <2> QED BY <1>3, <1>7, <1>11, <2>2, <2>3
        DEF Truth, Refusals, Writes, Kind, Lifecycle
  <1>12. CASE AddLabel(r) \/ RemoveLabel(r) \/ AppendObservation(r)
    <2>1. Committed(r, "done") /\ op[r].kind \notin Lifecycle
      BY <1>12 DEF AddLabel, RemoveLabel, AppendObservation, InTransaction,
                   Kind, Lifecycle
    <2>2. answer'[r] \in {"done", "unavailable"}
      BY <1>4, <2>1
    <2> QED BY <1>3, <1>12, <2>1, <2>2 DEF Truth, Refusals, Writes, Kind
  <1> QED BY <1>2, <1>8, <1>9, <1>10, <1>11, <1>12 DEF Writes

LEMMA TruthStep ==
    ASSUME BaseInv, TraceInv, TruthInv, [Next]_vars
    PROVE  TruthInv'
  <1>1. CASE UNCHANGED <<tables, pc, op, answer>>
    BY <1>1 DEF TruthInv, Staged, Truth, Kind, Logged, HasSnapshot, tables
  <1>2. ASSUME NEW r \in Requests, Acts(r)
        PROVE  TruthInv'
    <2>1. ASSUME NEW x \in Requests
          PROVE  Staged(x)' /\ Truth(x)'
      BY <1>2, TruthOfActing, TruthOfOthers
    <2> QED BY <2>1 DEF TruthInv
  <1> QED BY <1>1, <1>2, Steps

LEMMA TruthInit == Init => TruthInv
  <1>1. ASSUME pc = [r \in Requests |-> "idle"],
               answer = [r \in Requests |-> "none"]
        PROVE  TruthInv
    BY <1>1 DEF TruthInv, Staged, Truth, Refusals, Busy
  <1> QED BY <1>1 DEF Init

(* A redirect after create, rename, archive or restore means it happened,  *)
(* and a refusal means nothing was written, whatever other requests commit *)
(* in between (the handlers of workspaces.rs).                             *)
THEOREM AnswersTruthfulHolds == Spec => []AnswersTruthful
  <1>1. BaseInv /\ TraceInv /\ [Next]_vars => TraceInv'
    BY TraceStep
  <1>2. BaseInv /\ TraceInv /\ TruthInv /\ [Next]_vars => TruthInv'
    BY TruthStep
  <1>3. TruthInv => AnswersTruthful
    BY DEF TruthInv, Truth, AnswersTruthful, HasSnapshot, Refusals, Lifecycle
  <1> QED BY <1>1, <1>2, <1>3, TraceInit, TruthInit, BaseHolds, PTL DEF Spec

(***************************************************************************)
(* Labels.                                                                 *)
(***************************************************************************)

Distinct(labels) == \A k, l \in labels : Lower[k] = Lower[l] => k = l

LabelsInv ==
    /\ DOMAIN members = Workspaces
    /\ \A w \in Workspaces : \A a \in DOMAIN members[w] : Distinct(members[w][a])

LEMMA LabelsStep ==
    ASSUME LabelsInv, [Next]_vars
    PROVE  LabelsInv'
  <1>1. CASE UNCHANGED members
    BY <1>1 DEF LabelsInv, Distinct
  <1>2. ASSUME NEW r \in Requests, AddLabel(r) \/ RemoveLabel(r),
               ~ UNCHANGED members
        PROVE  LabelsInv'
    <2> DEFINE had == members[Ws(r)][op[r].address]
    <2>1. PICK labels :
            /\ members' = [members EXCEPT ![Ws(r)][op[r].address] = labels]
            /\ \/ labels \subseteq had
               \/ /\ labels = had \union {op[r].label}
                  /\ \A l \in had : Lower[l] # Lower[op[r].label]
      <3>1. CASE AddLabel(r)
        <4>1. /\ members' = [members EXCEPT ![Ws(r)][op[r].address] =
                                had \union {op[r].label}]
              /\ SameLabel(r) = {}
          BY <1>2, <3>1 DEF AddLabel, ChangeLabels
        <4>2. \A l \in had : Lower[l] # Lower[op[r].label]
          BY <4>1 DEF SameLabel
        <4> QED BY <4>1, <4>2, Zenon
      <3>2. CASE RemoveLabel(r)
        <4>1. members' = [members EXCEPT ![Ws(r)][op[r].address] =
                            had \ SameLabel(r)]
          BY <1>2, <3>2 DEF RemoveLabel, ChangeLabels
        <4> QED BY <4>1, Zenon
      <3> QED BY <1>2, <3>1, <3>2
    <2>2. Distinct(had) => Distinct(labels)
      <3> HIDE DEF had
      <3> QED BY <2>1 DEF Distinct
    <2>3. DOMAIN members' = Workspaces
      BY <2>1 DEF LabelsInv
    <2>4. ASSUME NEW w \in Workspaces, NEW a \in DOMAIN members'[w]
          PROVE  Distinct(members'[w][a])
      <3>1. CASE w = Ws(r) /\ a = op[r].address
        BY <3>1, <2>1, <2>2, <2>4 DEF LabelsInv
      <3>2. CASE ~ (w = Ws(r) /\ a = op[r].address)
        <4>1. a \in DOMAIN members[w] /\ members'[w][a] = members[w][a]
          BY <3>2, <2>1, <2>4 DEF LabelsInv
        <4> QED BY <4>1 DEF LabelsInv
      <3> QED BY <3>1, <3>2
    <2> QED BY <2>3, <2>4 DEF LabelsInv, Distinct
  <1>3. ASSUME NEW r \in Requests, AddMember(r), ~ UNCHANGED members
        PROVE  LabelsInv'
    <2> DEFINE present == DOMAIN members[Ws(r)]
    <2>1. members' = [members EXCEPT ![Ws(r)] =
                        [a \in present \union {op[r].address} |->
                           IF a \in present THEN @[a] ELSE {}]]
      BY <1>3 DEF AddMember
    <2>2. DOMAIN members' = Workspaces
      BY <2>1 DEF LabelsInv
    <2>3. ASSUME NEW w \in Workspaces, NEW a \in DOMAIN members'[w]
          PROVE  Distinct(members'[w][a])
      <3>1. \/ a \in DOMAIN members[w] /\ members'[w][a] = members[w][a]
            \/ members'[w][a] = {}
        BY <2>1, <2>3 DEF LabelsInv
      <3>2. Distinct({})
        BY DEF Distinct
      <3> QED BY <3>1, <3>2 DEF LabelsInv
    <2> QED BY <2>2, <2>3 DEF LabelsInv, Distinct
  <1>4. ASSUME NEW r \in Requests,
               \/ StoreSnapshot(r) \/ Rename(r) \/ SetArchived(r)
               \/ AppendObservation(r) \/ \E w \in Workspaces : Create(r, w)
        PROVE  UNCHANGED members
    BY <1>4, Zenon DEF StoreSnapshot, Rename, SetArchived, AppendObservation, Create,
                NoRow
  <1> QED BY <1>1, <1>2, <1>3, <1>4, Writers DEF tables, Writes

LEMMA LabelsInit == Init => LabelsInv
  <1> SUFFICES ASSUME Init PROVE LabelsInv
    OBVIOUS
  <1>1. /\ DOMAIN members = Workspaces
        /\ \A w \in Workspaces : \A a \in DOMAIN members[w] : members[w][a] = {}
    BY DEF Init, NoMembers
  <1> QED BY <1>1 DEF LabelsInv, Distinct

(* No two labels of a member differ in case only, although add_label       *)
(* decides on labels it read before its transaction (the unique index on   *)
(* lower(label), migration 0011).                                          *)
THEOREM LabelsDistinctHolds == Spec => []LabelsDistinct
  <1>1. LabelsInv /\ [Next]_vars => LabelsInv'
    BY LabelsStep
  <1>2. LabelsInv => LabelsDistinct
    BY DEF LabelsInv, LabelsDistinct, Distinct
  <1> QED BY <1>1, <1>2, LabelsInit, PTL DEF Spec

(***************************************************************************)
(* The activity log as history.                                            *)
(***************************************************************************)

(* Induction over the subsets of a finite set: a family of them has a       *)
(* minimal member.                                                         *)
LEMMA LeastSubset ==
    ASSUME NEW S, IsFiniteSet(S), NEW T \in SUBSET (SUBSET S), T # {}
    PROVE  \E x \in T : \A y \in T : y \subseteq x => y = x
  <1>1. T \subseteq FiniteSubsetsOf(S)
    BY FS_FiniteSubsetsOfFinite
  <1>2. PICK x \in T : \A y \in T : ~ (<<y, x>> \in StrictSubsetOrdering(S))
    BY <1>1, FS_StrictSubsetOrderingWellFounded, WFMin, Zenon
  <1> QED BY <1>2, Zenon DEF StrictSubsetOrdering

(* A finite, non-empty set of numbered events has a last one.              *)
LEMMA LastExists ==
    ASSUME NEW S, IsFiniteSet(S), S # {}, \A e \in S : e.no \in Nat
    PROVE  Last(S) \in S /\ \A f \in S : f.no <= Last(S).no
  <1> DEFINE after(e) == {f \in S : f.no > e.no}
             T == {after(e) : e \in S}
  <1>1. T \in SUBSET (SUBSET S) /\ T # {}
    BY Zenon
  <1>2. PICK x \in T : \A y \in T : y \subseteq x => y = x
    <2> HIDE DEF T, after
    <2> QED BY <1>1, LeastSubset
  <1>3. PICK e \in S : x = after(e)
    BY <1>2
  <1>4. ASSUME NEW f \in S, f.no > e.no PROVE FALSE
    <2>1. after(f) \subseteq x /\ f \in x /\ f \notin after(f)
      BY <1>3, <1>4
    <2> QED BY <1>2, <2>1, Zenon
  <1>5. \A f \in S : f.no <= e.no
    BY <1>4
  <1> QED BY <1>5 DEF Last

(* The community module defines the fold by CHOOSE, as the function on the *)
(* subsets of the set that solves its recursive equation.                  *)
ReplayOne(s, rest) == IF s = {} THEN Nothing ELSE Apply(Last(s), rest)

SolvesReplay(f, S) == f = [s \in SUBSET S |-> ReplayOne(s, f[s \ {Last(s)}])]

Numbered(S) == IsFiniteSet(S) /\ \A e \in S : e.no \in Nat

LEMMA NumberedSubset ==
    ASSUME NEW S, Numbered(S), NEW s \in SUBSET S
    PROVE  Numbered(s) /\ (s # {} => Last(s) \in s)
  <1>1. Numbered(s)
    BY FS_Subset DEF Numbered
  <1> QED BY <1>1, LastExists DEF Numbered

LEMMA ReplayIsSolution ==
    ASSUME NEW S
    PROVE  Replay(S) = (CHOOSE f : SolvesReplay(f, S))[S]
  BY DEF Replay, MapThenFoldSet, SolvesReplay, ReplayOne

(* The equation has at most one solution: at a minimal set where two       *)
(* differ, they agree on the set without its last event.                   *)
LEMMA ReplayUnique ==
    ASSUME NEW S, Numbered(S),
           NEW f, NEW g, SolvesReplay(f, S), SolvesReplay(g, S)
    PROVE  f = g
  <1> DEFINE T == {s \in SUBSET S : f[s] # g[s]}
  <1>1. ASSUME T # {} PROVE FALSE
    <2>1. PICK x \in T : \A y \in T : y \subseteq x => y = x
      <3>1. T \in SUBSET (SUBSET S)
        OBVIOUS
      <3> HIDE DEF T
      <3> QED BY <1>1, <3>1, LeastSubset DEF Numbered
    <2>2. x # {}
      BY DEF SolvesReplay, ReplayOne
    <2>3. Last(x) \in x
      BY <2>1, <2>2, NumberedSubset
    <2>4. x \ {Last(x)} \notin T
      BY <2>1, <2>3
    <2>5. f[x \ {Last(x)}] = g[x \ {Last(x)}]
      BY <2>4
    <2> QED BY <2>5, Zenon DEF SolvesReplay
  <1>2. \A s \in SUBSET S : f[s] = g[s]
    BY <1>1
  <1>3. /\ f = [s \in SUBSET S |-> f[s]]
        /\ g = [s \in SUBSET S |-> g[s]]
    BY DEF SolvesReplay
  <1> QED BY <1>2, <1>3, Zenon

(* Replaying a set is one step from replaying it without its last event:   *)
(* at a minimal set where this fails, Replay itself solves the equation.   *)
LEMMA ReplayUnfolds ==
    ASSUME NEW S, Numbered(S)
    PROVE  Replay(S) = ReplayOne(S, Replay(S \ {Last(S)}))
  <1> DEFINE Good(s) == Replay(s) = ReplayOne(s, Replay(s \ {Last(s)}))
             T == {s \in SUBSET S : ~ Good(s)}
  <1>1. ASSUME T # {} PROVE FALSE
    <2>1. PICK x \in T : \A y \in T : y \subseteq x => y = x
      <3>1. T \in SUBSET (SUBSET S)
        OBVIOUS
      <3> HIDE DEF T
      <3> QED BY <1>1, <3>1, LeastSubset DEF Numbered
    <2>2. x \subseteq S /\ Numbered(x)
      BY <2>1, NumberedSubset
    <2> DEFINE h == [s \in SUBSET x |-> ReplayOne(s, Replay(s \ {Last(s)}))]
    <2>3. ASSUME NEW s \in SUBSET x, s # x PROVE Replay(s) = h[s]
      <3>1. s \notin T
        BY <2>1, <2>3
      <3> QED BY <3>1, <2>2 DEF T, Good
    <2>4. SolvesReplay(h, x)
      <3>1. ASSUME NEW s \in SUBSET x
            PROVE  h[s] = ReplayOne(s, h[s \ {Last(s)}])
        <4>1. CASE s = {}
          BY <4>1 DEF ReplayOne
        <4>2. CASE s # {}
          <5>1. Last(s) \in s
            BY <2>2, <4>2, NumberedSubset
          <5>2. s \ {Last(s)} \in SUBSET x /\ s \ {Last(s)} # x
            BY <5>1
          <5>3. Replay(s \ {Last(s)}) = h[s \ {Last(s)}]
            BY <5>2, <2>3, Zenon
          <5> QED BY <5>3
        <4> QED BY <4>1, <4>2
      <3> QED BY <3>1, Zenon DEF SolvesReplay
    <2> HIDE DEF h
    <2>5. SolvesReplay(CHOOSE f : SolvesReplay(f, x), x)
      BY <2>4
    <2>6. (CHOOSE f : SolvesReplay(f, x)) = h
      BY <2>2, <2>4, <2>5, ReplayUnique
    <2>7. Replay(x) = h[x]
      BY <2>6, ReplayIsSolution
    <2> QED BY <2>7 DEF h
  <1> QED BY <1>1

(* Replaying one event more, the last one, is one application more.        *)
LEMMA ReplayAdd ==
    ASSUME NEW S, IsFiniteSet(S), NEW e, e.no \in Nat,
           \A f \in S : f.no \in Nat /\ f.no < e.no
    PROVE  Replay(S \union {e}) = Apply(e, Replay(S))
  <1> DEFINE U == S \union {e}
  <1>1. IsFiniteSet(U)
    BY FS_AddElement
  <1>2. Numbered(U)
    BY <1>1 DEF Numbered
  <1>3. Last(U) \in U /\ \A f \in U : f.no <= Last(U).no
    <2>1. U # {} /\ \A f \in U : f.no \in Nat
      OBVIOUS
    <2> HIDE DEF U
    <2> QED BY <1>1, <2>1, LastExists
  <1>4. Last(U) = e
    BY <1>3
  <1>5. U \ {e} = S /\ U # {}
    OBVIOUS
  <1> HIDE DEF U
  <1>6. Replay(U) = ReplayOne(U, Replay(U \ {Last(U)}))
    BY <1>2, ReplayUnfolds
  <1>7. Replay(U) = Apply(e, Replay(S))
    BY <1>4, <1>5, <1>6 DEF ReplayOne
  <1> QED BY <1>7 DEF U

LEMMA ReplayEmpty == Replay({}) = Nothing
  <1>1. Numbered({})
    BY FS_EmptySet DEF Numbered
  <1> QED BY <1>1, ReplayUnfolds DEF ReplayOne


(* Every event is numbered, no higher than the log is long: the next one   *)
(* will be the last of its workspace.                                      *)
NumberInv ==
    /\ IsFiniteSet(log)
    /\ \A e \in log : e.no \in Nat /\ e.no <= Cardinality(log)

(* A label or observation request past its lookup names a member: members  *)
(* are never removed.                                                      *)
Addressed(r) ==
    /\ pc[r] \in {"permit", "members", "resolve", "begin", "commit"}
    /\ Kind(r) \in {"add_label", "remove_label", "observe"}

PlaceInv ==
    /\ DOMAIN members = Workspaces
    /\ \A r \in Requests : Addressed(r) =>
         op[r].address \in DOMAIN members[Ws(r)]

(* A workspace not yet created has no members.                             *)
FreshInv == \A w \in Workspaces \ DOMAIN workspaces : members[w] = NoMembers

(* e is the event that a step appends, to the log of w.                    *)
Appended(w, e) ==
    /\ log' = log \union {e}
    /\ e.ws = w
    /\ e.no = Cardinality(log) + 1

LEMMA AppendedEvent ==
    ASSUME NEW r, NEW w, NEW type, NEW what, AppendEvent(r, w, type, what)
    PROVE  \E e : Appended(w, e) /\ e.type = type /\ e.what = what
  <1> DEFINE e == Event(r, w, type, what, began[r], Cardinality(log) + 1)
  <1>1. e.ws = w /\ e.type = type /\ e.what = what /\
          e.no = Cardinality(log) + 1
    BY DEF Event
  <1>2. log' = log \union {e}
    BY DEF AppendEvent
  <1> HIDE DEF e
  <1> QED BY <1>1, <1>2 DEF Appended

LEMMA NumberStep ==
    ASSUME NumberInv, [Next]_vars
    PROVE  NumberInv'
  <1>1. CASE UNCHANGED log
    BY <1>1 DEF NumberInv
  <1>2. ASSUME NEW w, NEW e, Appended(w, e)
        PROVE  NumberInv'
    <2>1. Cardinality(log) \in Nat
      BY FS_CardinalityType DEF NumberInv
    <2>2. e \notin log
      BY <1>2, <2>1 DEF NumberInv, Appended
    <2>3. IsFiniteSet(log') /\ Cardinality(log') = Cardinality(log) + 1
      BY <1>2, <2>2, FS_AddElement DEF NumberInv, Appended
    <2> QED BY <1>2, <2>1, <2>3 DEF NumberInv, Appended
  <1>3. ASSUME NEW r \in Requests, Writes(r)
        PROVE  UNCHANGED log \/ \E w, e : Appended(w, e)
    <2>1. \/ UNCHANGED log
          \/ \E w, type, what : AppendEvent(r, w, type, what)
      BY <1>3, Zenon DEF Writes, StoreSnapshot, Rename, SetArchived, AddMember,
           AddLabel, RemoveLabel, ChangeLabels, AppendObservation, Create,
           NoRow
    <2> QED BY <2>1, AppendedEvent
  <1> QED BY <1>1, <1>2, <1>3, Writers DEF tables

(* An appended event is applied to the replay of its workspace and to no   *)
(* other's.                                                                *)
LEMMA ReplayAppended ==
    ASSUME NumberInv, NEW w, NEW e, Appended(w, e)
    PROVE  /\ Replay(Events(w)') = Apply(e, Replay(Events(w)))
           /\ \A x : x # w => Events(x)' = Events(x)
  <1>1. Events(w)' = Events(w) \union {e} /\ \A x : x # w =>
          Events(x)' = Events(x)
    BY DEF Appended, Events
  <1>2. IsFiniteSet(Events(w))
    BY FS_Subset DEF NumberInv, Events
  <1>3. Cardinality(log) \in Nat
    BY FS_CardinalityType DEF NumberInv
  <1>4. e.no \in Nat /\ \A f \in Events(w) : f.no \in Nat /\ f.no < e.no
    BY <1>3 DEF NumberInv, Appended, Events
  <1>5. Replay(Events(w) \union {e}) = Apply(e, Replay(Events(w)))
    BY <1>2, <1>4, ReplayAdd
  <1> QED BY <1>1, <1>5

LEMMA MembersGrow ==
    ASSUME DOMAIN members = Workspaces, [Next]_vars
    PROVE  /\ DOMAIN members' = Workspaces
           /\ \A w \in Workspaces :
                DOMAIN members[w] \subseteq DOMAIN members'[w]
  <1>1. CASE UNCHANGED members
    BY <1>1
  <1>2. ASSUME NEW r \in Requests, AddLabel(r) \/
               RemoveLabel(r), ~ UNCHANGED members
        PROVE  /\ DOMAIN members' = Workspaces
               /\ \A w \in Workspaces :
                    DOMAIN members[w] \subseteq DOMAIN members'[w]
    <2>1. PICK labels : members' =
            [members EXCEPT ![Ws(r)][op[r].address] = labels]
      BY <1>2 DEF AddLabel, RemoveLabel, ChangeLabels
    <2> QED BY <2>1
  <1>3. ASSUME NEW r \in Requests, AddMember(r), ~ UNCHANGED members
        PROVE  /\ DOMAIN members' = Workspaces
               /\ \A w \in Workspaces :
                    DOMAIN members[w] \subseteq DOMAIN members'[w]
    BY <1>3 DEF AddMember
  <1>4. ASSUME NEW r \in Requests,
               \/ StoreSnapshot(r) \/ Rename(r) \/ SetArchived(r)
               \/ AppendObservation(r) \/ \E w \in Workspaces : Create(r, w)
        PROVE  UNCHANGED members
    BY <1>4, Zenon DEF StoreSnapshot, Rename, SetArchived, AppendObservation, Create,
                NoRow
  <1> QED BY <1>1, <1>2, <1>3, <1>4, Writers DEF tables, Writes

LEMMA PlaceStep ==
    ASSUME BaseInv, PlaceInv, [Next]_vars
    PROVE  PlaceInv'
  <1>1. /\ DOMAIN members' = Workspaces
        /\ \A w \in Workspaces : DOMAIN members[w] \subseteq DOMAIN members'[w]
    BY MembersGrow DEF PlaceInv
  <1>2. ASSUME NEW x \in Requests, op'[x] = op[x], Addressed(x)' =>
               Addressed(x)
        PROVE  Addressed(x)' => (op[x].address \in DOMAIN members[Ws(x)])'
    <2>1. SUFFICES ASSUME Addressed(x)
                   PROVE op'[x].address \in DOMAIN members'[op'[x].ws]
      BY <1>2 DEF Ws
    <2>2. op[x] \in Operations
      BY <2>1 DEF Addressed, BaseInv, LocalsInv, Busy, Stages
    <2>3. Ws(x) \in Workspaces
      BY <2>2, OperationFields DEF Ws
    <2> QED BY <1>1, <1>2, <2>1, <2>3 DEF PlaceInv, Ws
  <1>3. CASE UNCHANGED <<tables, pc, op, answer>>
    BY <1>3 DEF PlaceInv, tables, Addressed, Kind, Ws
  <1>4. ASSUME NEW r \in Requests, Acts(r)
        PROVE  PlaceInv'
    <2>1. \A x \in Requests \ {r} : pc'[x] = pc[x] /\ op'[x] = op[x]
      BY <1>4, ActFrame DEF BaseInv
    <2>2. ASSUME NEW x \in Requests, x # r
          PROVE  Addressed(x)' => (op[x].address \in DOMAIN members[Ws(x)])'
      BY <2>1, <2>2, <1>2 DEF Addressed, Kind
    <2>3. Addressed(r)' => (op[r].address \in DOMAIN members[Ws(r)])'
      <3>1. ASSUME NEW o \in Operations, Arrive(r, o)
            PROVE  ~ Addressed(r)'
        BY <3>1 DEF Arrive, Proceed, Addressed, Kind, BaseInv, LocalsInv
      <3>2. CASE Find(r)
        BY <3>2, Zenon DEF Find, Proceed, Answer, Addressed, Kind, BaseInv, LocalsInv
      <3>3. CASE FindMember(r)
        <4>1. UNCHANGED <<tables, op>>
          BY <3>3 DEF FindMember
        <4>2. \/ op[r].address \in DOMAIN members[Ws(r)]
              \/ pc'[r] = "done"
          BY <3>3, Zenon DEF FindMember, Answer, BaseInv, LocalsInv
        <4> QED BY <4>1, <4>2 DEF Addressed, tables, Ws
      <3>4. CASE Permit(r) \/ ReadMembers(r) \/ Resolve(r) \/ Begin(r)
        <4>1. op'[r] = op[r] /\ (Addressed(r)' => Addressed(r))
          BY <3>4 DEF Permit, ReadMembers, Resolve, Begin, Proceed, Answer,
             Addressed,
                      Kind, BaseInv, LocalsInv
        <4> QED BY <4>1, <1>2
      <3>5. CASE Refuse(r) \/ Drop(r) \/ Abort(r)
        BY <3>5, Zenon DEF Refuse, Drop, Abort, Answer, Addressed, BaseInv, LocalsInv
      <3>6. CASE Writes(r)
        BY <3>6, WriterFrame DEF Addressed, BaseInv
      <3> QED BY <1>4, <3>1, <3>2, <3>3, <3>4, <3>5, <3>6, Zenon DEF Acts
    <2> QED BY <1>1, <2>2, <2>3 DEF PlaceInv
  <1> QED BY <1>3, <1>4, Steps

HistoryInv ==
    /\ BaseInv /\ TraceInv /\ NumberInv /\ PlaceInv /\ FreshInv
    /\ LogReplays

(* A step that appends one event and changes its workspace as that event   *)
(* says keeps the log a history.                                           *)
LEMMA HistoryOne ==
    ASSUME HistoryInv, NEW w \in Workspaces, NEW e, Appended(w, e),
           \A x \in DOMAIN workspaces \ {w} : View(x)' = View(x),
           DOMAIN workspaces' = DOMAIN workspaces \union {w},
           w \in DOMAIN workspaces => Apply(e, View(w)) = View(w)',
           w \notin DOMAIN workspaces => Apply(e, Nothing) = View(w)'
    PROVE  LogReplays'
  <1>1. /\ Replay(Events(w)') = Apply(e, Replay(Events(w)))
        /\ \A x : x # w => Events(x)' = Events(x)
    BY ReplayAppended DEF HistoryInv
  <1>2. ASSUME NEW x \in DOMAIN workspaces, x # w
        PROVE  Replay(Events(x)') = View(x)'
    BY <1>1, <1>2 DEF HistoryInv, LogReplays
  <1>3. CASE w \in DOMAIN workspaces
    <2>1. Replay(Events(w)') = View(w)'
      BY <1>1, <1>3 DEF HistoryInv, LogReplays
    <2> QED BY <1>2, <1>3, <2>1 DEF LogReplays
  <1>4. CASE w \notin DOMAIN workspaces
    <2>1. Events(w) = {}
      BY <1>4, Zenon DEF Events, HistoryInv, TraceInv
    <2>2. Replay(Events(w)') = View(w)'
      BY <1>1, <1>4, <2>1, ReplayEmpty
    <2> QED BY <1>2, <2>2 DEF LogReplays
  <1> QED BY <1>3, <1>4

LEMMA RowsAreNotNone ==
    ASSUME NEW n \in Names, NEW s \in Statuses
    PROVE  [name |-> n, status |-> s] # None
  BY WorkspacesAssumption DEF WorkspacesAssumption, Statuses

(* create logs the row it inserts.                                         *)
LEMMA CreateReplays ==
    ASSUME HistoryInv, NEW r \in Requests, NEW w \in Workspaces, Create(r, w)
    PROVE  LogReplays'
  <1>1. PICK e : Appended(w, e) /\ e.type = "workspace.created" /\
          e.what = <<op[r].name>>
    BY AppendedEvent, SMTT(30) DEF Create
  <1>2. members[w] = NoMembers /\ w \notin DOMAIN workspaces
    BY Zenon DEF Create, HistoryInv, FreshInv
  <1>3. Apply(e, Nothing) =
          [ok |-> TRUE, row |-> [name |-> op[r].name, status |-> "active"],
            members |-> NoMembers]
    BY <1>1 DEF Apply, Nothing, Fits, RowAfter, MembersAfter
  <1>4. View(w)' =
          [ok |-> TRUE, row |-> [name |-> op[r].name, status |-> "active"],
            members |-> NoMembers]
    BY <1>2, Zenon DEF View, Create
  <1>5. /\ DOMAIN workspaces' = DOMAIN workspaces \union {w}
        /\ \A x \in DOMAIN workspaces \ {w} : View(x)' = View(x)
    BY Zenon DEF View, Create
  <1> QED BY <1>1, <1>2, <1>3, <1>4, <1>5, HistoryOne, Zenon

(* The same for a workspace in use.                                        *)
LEMMA WriteReplays ==
    ASSUME HistoryInv, NEW w \in DOMAIN workspaces, NEW e, Appended(w, e),
           DOMAIN workspaces' = DOMAIN workspaces,
           \A x \in DOMAIN workspaces \ {w} : workspaces'[x] = workspaces[x] /\
             members'[x] = members[x],
           Fits(e, View(w).row, members[w]),
           RowAfter(e, View(w).row) =
             [name |-> workspaces'[w].name, status |-> workspaces'[w].status],
           MembersAfter(e, members[w]) = members'[w]
    PROVE  LogReplays'
  <1>1. View(w).members = members[w] /\ View(w).ok = TRUE
    BY Zenon DEF View
  <1>2. Apply(e, View(w)) = View(w)'
    <2>1. View(w)' =
            [ok |-> TRUE,
              row |-> [name |-> workspaces'[w].name,
                status |-> workspaces'[w].status], members |-> members'[w]]
      BY Zenon DEF View
    <2> QED BY <1>1, <2>1, Zenon DEF Apply
  <1>3. \A x \in DOMAIN workspaces \ {w} : View(x)' = View(x)
    BY Zenon DEF View
  <1>4. w \in Workspaces
    BY DEF HistoryInv, BaseInv, RowsInv
  <1> QED BY <1>2, <1>3, <1>4, HistoryOne, Zenon

LEMMA ViewRow ==
    ASSUME HistoryInv, NEW w \in DOMAIN workspaces
    PROVE  /\ View(w).row = [name   |-> workspaces[w].name,
                              status |-> workspaces[w].status]
           /\ View(w).row.status = workspaces[w].status
           /\ View(w).row # None
           /\ workspaces[w] \in Rows
  BY RowsAreNotNone DEF View, HistoryInv, BaseInv, RowsInv, Rows

(* rename logs the name it wrote, of an active workspace.                  *)
LEMMA RenameReplays ==
    ASSUME HistoryInv, NEW r \in Requests, Rename(r), ~ UNCHANGED log
    PROVE  LogReplays'
  <1> DEFINE w == Ws(r)
  <1>1. /\ Owned(r) /\ workspaces[w].status = "active"
        /\ workspaces' = [workspaces EXCEPT ![w].name = op[r].name]
        /\ AppendEvent(r, w, "workspace.renamed", <<op[r].name>>)
        /\ UNCHANGED members
    BY DEF Rename, NoRow
  <1>2. w \in DOMAIN workspaces
    BY <1>1 DEF Owned
  <1>3. PICK e : Appended(w, e) /\ e.type = "workspace.renamed" /\
          e.what = <<op[r].name>>
    BY <1>1, AppendedEvent
  <1>4. Fits(e, View(w).row, members[w])
    <2>1. View(w).row.status = "active" /\ View(w).row # None
      BY <1>1, <1>2, ViewRow, Zenon
    <2> QED BY <1>3, <2>1, Zenon DEF Fits
  <1>5. RowAfter(e, View(w).row) =
          [name |-> workspaces'[w].name, status |-> workspaces'[w].status]
    <2>1. e.what[1] = op[r].name
      BY <1>3
    <2>2. /\ View(w).row = [name   |-> workspaces[w].name,
                             status |-> workspaces[w].status]
          /\ workspaces[w] \in Rows
      BY <1>2, ViewRow
    <2>3. workspaces'[w].name = op[r].name /\
            workspaces'[w].status = workspaces[w].status
      BY <1>1, <1>2, <2>2 DEF Rows
    <2>4. RowAfter(e, View(w).row) = [View(w).row EXCEPT !.name = op[r].name]
      BY <1>3, <2>1 DEF RowAfter
    <2> QED BY <2>2, <2>3, <2>4
  <1>6. MembersAfter(e, members[w]) = members'[w]
    BY <1>1, <1>3 DEF MembersAfter
  <1> HIDE DEF w
  <1> QED BY <1>1, <1>2, <1>3, <1>4, <1>5, <1>6, WriteReplays, Zenon

(* set_archived logs a status that was not there before.                   *)
LEMMA SetArchivedReplays ==
    ASSUME HistoryInv, NEW r \in Requests, SetArchived(r), ~ UNCHANGED log
    PROVE  LogReplays'
  <1> DEFINE w == Ws(r)
             type == IF Kind(r) = "archive" THEN "workspace.archived"
               ELSE "workspace.restored"
  <1>1. /\ Owned(r) /\ workspaces[w].status # Target(Kind(r))
        /\ workspaces' = [workspaces EXCEPT ![w].status = Target(Kind(r))]
        /\ AppendEvent(r, w, type, <<Target(Kind(r))>>)
        /\ UNCHANGED members
    BY DEF SetArchived, NoRow
  <1>2. w \in DOMAIN workspaces
    BY <1>1 DEF Owned
  <1>3. PICK e : Appended(w, e) /\ e.type = type /\
          e.what = <<Target(Kind(r))>>
    <2> HIDE DEF type
    <2> QED BY <1>1, AppendedEvent
  <1>4. Fits(e, View(w).row, members[w])
    <2>1. View(w).row.status = workspaces[w].status /\ View(w).row # None
      BY <1>2, ViewRow, Zenon
    <2>2. workspaces[w].status \in {"active", "archived"}
      BY <1>2, ViewRow, Zenon DEF Rows, Statuses
    <2>3. IF Kind(r) = "archive" THEN workspaces[w].status = "active"
          ELSE workspaces[w].status = "archived"
      BY <1>1, <2>2 DEF Target
    <2> QED BY <1>3, <2>1, <2>3, Zenon DEF Fits
  <1>5. RowAfter(e, View(w).row) =
          [name |-> workspaces'[w].name, status |-> workspaces'[w].status]
    <2>1. e.what[1] = Target(Kind(r))
      BY <1>3
    <2>2. /\ View(w).row = [name   |-> workspaces[w].name,
                             status |-> workspaces[w].status]
          /\ workspaces[w] \in Rows
      BY <1>2, ViewRow
    <2>3. workspaces'[w].status = Target(Kind(r)) /\
            workspaces'[w].name = workspaces[w].name
      BY <1>1, <1>2, <2>2 DEF Rows
    <2>4. RowAfter(e, View(w).row) =
            [View(w).row EXCEPT !.status = Target(Kind(r))]
      BY <1>3, <2>1 DEF RowAfter
    <2> QED BY <2>2, <2>3, <2>4
  <1>6. MembersAfter(e, members[w]) = members'[w]
    BY <1>1, <1>3 DEF MembersAfter
  <1> HIDE DEF w
  <1> QED BY <1>1, <1>2, <1>3, <1>4, <1>5, <1>6, WriteReplays, Zenon

(* add_member logs an address that was not there before.                   *)
LEMMA AddMemberReplays ==
    ASSUME HistoryInv, NEW r \in Requests, AddMember(r), ~ UNCHANGED log
    PROVE  LogReplays'
  <1> DEFINE w == Ws(r)
             present == DOMAIN members[w]
  <1>1. /\ workspaces[w].status = "active" /\ op[r].address \notin present
        /\ members' = [members EXCEPT ![w] =
                        [a \in present \union {op[r].address} |->
                           IF a \in present THEN @[a] ELSE {}]]
        /\ AppendEvent(r, w, "member_address.added", <<op[r].address>>)
        /\ UNCHANGED workspaces
    BY DEF AddMember
  <1>2. w \in DOMAIN workspaces
    <2>1. Owned(r)
      BY CommitsOwned DEF AddMember, InTransaction, HistoryInv
    <2> QED BY <2>1 DEF Owned
  <1>3. w \in Workspaces /\ DOMAIN members = Workspaces
    BY <1>2 DEF HistoryInv, BaseInv, RowsInv, PlaceInv
  <1>4. PICK e : Appended(w, e) /\ e.type = "member_address.added" /\
          e.what = <<op[r].address>>
    BY <1>1, AppendedEvent
  <1>5. e.what[1] = op[r].address
    BY <1>4
  <1>6. Fits(e, View(w).row, members[w])
    <2>1. View(w).row.status = "active" /\ View(w).row # None
      BY <1>1, <1>2, ViewRow, Zenon
    <2> QED BY <1>1, <1>4, <1>5, <2>1 DEF Fits
  <1>7. RowAfter(e, View(w).row) =
          [name |-> workspaces'[w].name, status |-> workspaces'[w].status]
    BY <1>1, <1>2, <1>4, ViewRow DEF RowAfter
  <1>8. MembersAfter(e, members[w]) = members'[w]
    BY <1>1, <1>3, <1>4, <1>5 DEF MembersAfter
  <1>9. \A x \in DOMAIN workspaces \ {w} : members'[x] = members[x]
    BY <1>1, <1>3 DEF HistoryInv, BaseInv, RowsInv
  <1> HIDE DEF w
  <1> QED BY <1>1, <1>2, <1>4, <1>6, <1>7, <1>8, <1>9, WriteReplays, Zenon

(* The label transactions log what they inserted or deleted, and an        *)
(* observation is logged of a member.                                      *)
LEMMA LabelReplays ==
    ASSUME HistoryInv, NEW r \in Requests,
           AddLabel(r) \/ RemoveLabel(r) \/
             AppendObservation(r), ~ UNCHANGED log
    PROVE  LogReplays'
  <1> DEFINE w == Ws(r)
             had == members[w][op[r].address]
             same == {l \in had : Lower[l] = Lower[op[r].label]}
             pair == <<op[r].address, op[r].label>>
             with(labels) == [members EXCEPT ![w][op[r].address] = labels]
  <1>1. UNCHANGED workspaces /\ Owned(r) /\ Addressed(r)
    BY CommitsOwned, Zenon DEF AddLabel, RemoveLabel, AppendObservation,
                        InTransaction, HistoryInv, Addressed
  <1>2. w \in DOMAIN workspaces
    BY <1>1 DEF Owned
  <1>3. w \in Workspaces /\ DOMAIN members = Workspaces /\
          op[r].address \in DOMAIN members[w]
    BY <1>1, <1>2 DEF HistoryInv, BaseInv, RowsInv, PlaceInv
  <1>4. PICK e : /\ Appended(w, e)
                 /\ e.what[1] = op[r].address
                 /\ \/ /\ e.type = "member_address.label_added"
                       /\ e.what[2] = op[r].label
                       /\ same = {} /\
                            members' = with(had \union {op[r].label})
                    \/ /\ e.type = "member_address.label_removed"
                       /\ e.what[2] = op[r].label
                       /\ same # {} /\ members' = with(had \ same)
                    \/ e.type = "observed" /\ UNCHANGED members
    <2>1. CASE AddLabel(r)
      <3>1. /\ same = {} /\ members' = with(had \union {op[r].label})
            /\ AppendEvent(r, w, "member_address.label_added", pair)
        BY <2>1 DEF AddLabel, ChangeLabels, SameLabel
      <3>2. PICK e : /\ Appended(w, e) /\ e.type = "member_address.label_added"
                     /\ e.what = pair
        BY <3>1, AppendedEvent
      <3>3. e.what[1] = op[r].address /\ e.what[2] = op[r].label
        BY <3>2
      <3> HIDE DEF w, had, same, with
      <3> QED BY <3>1, <3>2, <3>3, Zenon
    <2>2. CASE RemoveLabel(r)
      <3>1. /\ same # {} /\ members' = with(had \ same)
            /\ AppendEvent(r, w, "member_address.label_removed", pair)
        BY <2>2, Zenon DEF RemoveLabel, ChangeLabels, SameLabel
      <3>2. PICK e : /\ Appended(w, e)
                     /\ e.type = "member_address.label_removed"
                     /\ e.what = pair
        BY <3>1, AppendedEvent
      <3>3. e.what[1] = op[r].address /\ e.what[2] = op[r].label
        BY <3>2
      <3> HIDE DEF w, had, same, with
      <3> QED BY <3>1, <3>2, <3>3
    <2>3. CASE AppendObservation(r)
      <3>1. /\ AppendEvent(r, w, "observed", <<op[r].address>>)
            /\ UNCHANGED members
        BY <2>3 DEF AppendObservation
      <3>2. PICK e : /\ Appended(w, e) /\ e.type = "observed"
                     /\ e.what = <<op[r].address>>
        BY <3>1, AppendedEvent
      <3> QED BY <3>1, <3>2
    <2> QED BY <2>1, <2>2, <2>3, Zenon
  <1>5. Fits(e, View(w).row, members[w])
    <2>1. View(w).row # None
      BY <1>2, ViewRow, Zenon
    <2>2. \/ e.type = "observed"
          \/ /\ e.type = "member_address.label_added"
             /\ {l \in members[w][e.what[1]] : Lower[l] = Lower[e.what[2]]} =
                  {}
          \/ /\ e.type = "member_address.label_removed"
             /\ {l \in members[w][e.what[1]] : Lower[l] =
                  Lower[e.what[2]]} # {}
      BY <1>4, Zenon
    <2>3. e.what[1] \in DOMAIN members[w]
      BY <1>3, <1>4
    <2> QED BY <2>1, <2>2, <2>3, Zenon DEF Fits
  <1>6. RowAfter(e, View(w).row) =
          [name |-> workspaces'[w].name, status |-> workspaces'[w].status]
    BY <1>1, <1>2, <1>4, ViewRow DEF RowAfter
  <1>7. MembersAfter(e, members[w]) = members'[w]
    <2>1. had \ same = {l \in had : Lower[l] # Lower[op[r].label]}
      BY Zenon
    <2>2. \A labels : with(labels)[w]
                       = [members[w] EXCEPT ![op[r].address] = labels]
      BY <1>3
    <2>3. CASE e.type = "member_address.label_added"
      <3>1. /\ e.what[1] = op[r].address /\ e.what[2] = op[r].label
            /\ members' = with(had \union {op[r].label})
        BY <1>4, <2>3, Zenon
      <3>2. MembersAfter(e, members[w]) =
              [members[w] EXCEPT ![e.what[1]] =
                 members[w][e.what[1]] \union {e.what[2]}]
        BY <2>3, LabelAdded, Zenon
      <3> HIDE DEF with
      <3> QED BY <2>2, <3>1, <3>2, Zenon
    <2>4. CASE e.type = "member_address.label_removed"
      <3>1. /\ e.what[1] = op[r].address /\ e.what[2] = op[r].label
            /\ members' = with(had \ same)
        BY <1>4, <2>4, Zenon
      <3>2. had \ same = {l \in members[w][e.what[1]] : Lower[l] # Lower[e.what[2]]}
        BY <2>1, <3>1
      <3> HIDE DEF with, w, same
      <3>3. MembersAfter(e, members[w]) = [members[w] EXCEPT ![e.what[1]] = had \ same]
        BY <2>4, <3>2, LabelRemoved, Zenon
      <3> HIDE DEF with
      <3> QED BY <2>2, <3>1, <3>2, <3>3, Zenon
    <2>5. CASE e.type = "observed"
      BY <1>4, <2>5 DEF MembersAfter
    <2> QED BY <1>4, <2>3, <2>4, <2>5, Zenon
  <1>8. \A x \in DOMAIN workspaces \ {w} : members'[x] = members[x]
    BY <1>3, <1>4 DEF HistoryInv, BaseInv, RowsInv
  <1> HIDE DEF w
  <1> QED BY <1>1, <1>2, <1>4, <1>5, <1>6, <1>7, <1>8, WriteReplays, Zenon

(* Only a workspace in use gets members.                                   *)
LEMMA FreshStep ==
    ASSUME HistoryInv, [Next]_vars
    PROVE  FreshInv'
  <1>1. DOMAIN workspaces \subseteq DOMAIN workspaces'
    BY RowsStep DEF HistoryInv, BaseInv
  <1>2. CASE UNCHANGED members
    BY <1>1, <1>2 DEF HistoryInv, FreshInv
  <1>3. ASSUME NEW r \in Requests, AddMember(r) \/ AddLabel(r) \/
               RemoveLabel(r)
        PROVE  FreshInv'
    <2>1. Owned(r)
      BY <1>3, CommitsOwned, Zenon
         DEF HistoryInv, AddMember, AddLabel, RemoveLabel, InTransaction
    <2>2. UNCHANGED members \/ \E f : members' = [members EXCEPT ![Ws(r)] = f]
      BY <1>3, Zenon DEF AddMember, AddLabel, RemoveLabel, ChangeLabels
    <2> QED BY <1>1, <2>1, <2>2, Zenon DEF Owned, HistoryInv, FreshInv, PlaceInv
  <1>4. ASSUME NEW r \in Requests,
               \/ StoreSnapshot(r) \/ Rename(r) \/ SetArchived(r)
               \/ AppendObservation(r) \/ \E w \in Workspaces : Create(r, w)
        PROVE  UNCHANGED members
    BY <1>4, Zenon DEF StoreSnapshot, Rename, SetArchived, AppendObservation, Create,
                NoRow
  <1> QED BY <1>2, <1>3, <1>4, Writers DEF tables, Writes

LEMMA ReplayStep ==
    ASSUME HistoryInv, [Next]_vars
    PROVE  LogReplays'
  <1>1. CASE UNCHANGED <<workspaces, members, log>>
    BY <1>1 DEF HistoryInv, LogReplays, Events, View
  <1>2. ASSUME NEW r \in Requests, Writes(r), UNCHANGED log
        PROVE  UNCHANGED <<workspaces, members>>
    <2>1. \A w, type, what : AppendEvent(r, w, type, what) => log' # log
      <3> SUFFICES ASSUME NEW w, NEW type, NEW what,
            AppendEvent(r, w, type, what)
                   PROVE  log' # log
        OBVIOUS
      <3>1. PICK e : Appended(w, e)
        BY AppendedEvent
      <3>2. Cardinality(log) \in Nat
        BY FS_CardinalityType DEF HistoryInv, NumberInv
      <3> QED BY <3>1, <3>2 DEF Appended, HistoryInv, NumberInv
    <2> QED BY <1>2, <2>1, Zenon
               DEF Writes, StoreSnapshot, Rename, SetArchived, AddMember,
           AddLabel, RemoveLabel, ChangeLabels, AppendObservation, Create,
             NoRow
  <1>3. ASSUME NEW r \in Requests, Writes(r), ~ UNCHANGED log
        PROVE  LogReplays'
    <2>1. ~ StoreSnapshot(r)
      BY <1>3, Zenon DEF StoreSnapshot
    <2> QED BY <1>3, <2>1, CreateReplays, RenameReplays, SetArchivedReplays,
               AddMemberReplays, LabelReplays DEF Writes
  <1> QED BY <1>1, <1>2, <1>3, Writers DEF tables

(* The image of a finite set is finite.                                    *)
LEMMA ImageFinite ==
    ASSUME NEW S, IsFiniteSet(S), NEW f
    PROVE  IsFiniteSet({f[x] : x \in S})
  <1> DEFINE T == {f[x] : x \in S}
             g == [x \in S |-> f[x]]
  <1>1. g \in Surjection(S, T)
    BY DEF Surjection
  <1> HIDE DEF g, T
  <1>2. IsFiniteSet(T)
    BY <1>1, FS_Surjection
  <1> QED BY <1>2 DEF T

(* Signing up logged the initial workspace and its address.                *)
LEMMA HistoryInit == Init => NumberInv /\ PlaceInv /\ FreshInv /\ LogReplays
  <1> SUFFICES ASSUME Init
               PROVE NumberInv /\ PlaceInv /\ FreshInv /\ LogReplays
    OBVIOUS
  <1> DEFINE D == DOMAIN workspaces
  <1>2. log = {CreatedEvent(w) : w \in D} \union
          {AddedEvent(w, a) : w \in D, a \in InitialMembers}
    BY InitialLog
  <1>3. IsFiniteSet(D)
    <2>1. D = {InitialOf[a] : a \in Accounts}
      BY DEF Init
    <2>2. IsFiniteSet(Accounts)
      BY WorkspacesAssumption DEF WorkspacesAssumption
    <2> QED BY <2>1, <2>2, ImageFinite
  <1>4. InitialMembers = {} \/ \E a \in Addresses : InitialMembers = {a}
    BY WorkspacesAssumption DEF WorkspacesAssumption
  <1>5. IsFiniteSet(log)
    <2> DEFINE C == {CreatedEvent(w) : w \in D}
               N == {AddedEvent(w, a) : w \in D, a \in InitialMembers}
    <2>1. IsFiniteSet(C)
      <3> DEFINE f == [w \in D |-> CreatedEvent(w)]
      <3>1. C = {f[w] : w \in D}
        OBVIOUS
      <3> HIDE DEF f
      <3> QED BY <1>3, <3>1, ImageFinite, Zenon
    <2>2. ASSUME NEW b, InitialMembers = {b}
          PROVE  IsFiniteSet(N)
      <3> DEFINE f == [w \in D |-> AddedEvent(w, b)]
      <3>1. N = {f[w] : w \in D}
        BY <2>2
      <3> HIDE DEF f
      <3> QED BY <1>3, <3>1, ImageFinite
    <2>3. log = C \union N
      BY <1>2
    <2>4. N = {} \/ IsFiniteSet(N)
      <3>1. InitialMembers = {} => N = {}
        OBVIOUS
      <3> HIDE DEF N
      <3> QED BY <1>4, <2>2, <3>1
    <2> HIDE DEF C, N
    <2> QED BY <2>1, <2>3, <2>4, FS_Union, Zenon
  <1>6. NumberInv
    <2>1. ASSUME NEW e \in log PROVE e.no \in {0, 1}
      BY InitialDates, Zenon
    <2>2. log # {} => Cardinality(log) >= 1
      BY <1>5, FS_EmptySet, FS_CardinalityType
    <2>3. Cardinality(log) \in Nat
      BY <1>5, FS_CardinalityType
    <2> QED BY <1>5, <2>1, <2>2, <2>3 DEF NumberInv
  <1>7. PlaceInv /\ FreshInv
    BY Zenon DEF Init, PlaceInv, FreshInv, Addressed
  <1>8. ASSUME NEW w \in D PROVE Replay(Events(w)) = View(w)
    <2>1. View(w) =
            [ok |-> TRUE, row |-> [name |-> InitialName, status |-> "active"],
                     members |-> [a \in InitialMembers |-> {}]]
      <3>1. workspaces[w].name = InitialName /\ workspaces[w].status = "active"
        BY Zenon DEF Init
      <3>2. w \in Workspaces
        BY WorkspacesAssumption DEF WorkspacesAssumption, Init
      <3>3. members[w] = [a \in InitialMembers |-> {}]
        BY <3>2, Zenon DEF Init
      <3> QED BY <3>1, <3>3 DEF View
    <2>2. Events(w) = {CreatedEvent(w)} \union {AddedEvent(w, a) : a \in InitialMembers}
      BY InitialFields, <1>2 DEF Events
    <2> DEFINE base ==
          [ok |-> TRUE, row |-> [name |-> InitialName, status |-> "active"],
                        members |-> NoMembers]
    <2>3. Replay({CreatedEvent(w)}) = base
      <3>1. Replay({} \union {CreatedEvent(w)}) = Apply(CreatedEvent(w), Replay({}))
        BY InitialFields, FS_EmptySet, ReplayAdd
      <3>2. Apply(CreatedEvent(w), Nothing) = base
        BY InitialFields, Zenon DEF Apply, Nothing, Fits, RowAfter, MembersAfter
      <3>3. {} \union {CreatedEvent(w)} = {CreatedEvent(w)}
        OBVIOUS
      <3> QED BY <3>1, <3>2, <3>3, ReplayEmpty, Zenon
    <2>4. CASE InitialMembers = {}
      <3>1. Events(w) = {CreatedEvent(w)}
        BY <2>2, <2>4
      <3>2. [a \in InitialMembers |-> {}] = NoMembers
        BY <2>4 DEF NoMembers
      <3> QED BY <2>1, <2>3, <3>1, <3>2, Zenon
    <2>5. ASSUME NEW b, InitialMembers = {b}
          PROVE  Replay(Events(w)) = View(w)
      <3>1. Events(w) = {CreatedEvent(w)} \union {AddedEvent(w, b)}
        BY <2>2, <2>5
      <3>2. Replay({CreatedEvent(w)} \union {AddedEvent(w, b)}) =
              Apply(AddedEvent(w, b), base)
        <4>1. IsFiniteSet({CreatedEvent(w)})
          BY FS_Singleton, Zenon
        <4> HIDE DEF base
        <4> QED BY InitialFields, <2>3, <4>1, ReplayAdd
      <3>3. base.row # None
        BY RowsAreNotNone, WorkspacesAssumption
           DEF WorkspacesAssumption, Statuses
      <3>4. Fits(AddedEvent(w, b), base.row, base.members)
        <4>1. /\ AddedEvent(w, b).type = "member_address.added"
              /\ AddedEvent(w, b).what[1] = b
          BY InitialFields
        <4>2. base.row.status = "active" /\ b \notin DOMAIN base.members
          BY DEF NoMembers
        <4> HIDE DEF base
        <4> QED BY <3>3, <4>1, <4>2, Zenon DEF Fits
      <3>5. RowAfter(AddedEvent(w, b), base.row) = base.row
        BY InitialFields DEF RowAfter
      <3>6. MembersAfter(AddedEvent(w, b), base.members) =
              [a \in InitialMembers |-> {}]
        <4>1. AddedEvent(w, b).type = "member_address.added" /\
                AddedEvent(w, b).what[1] = b
          BY InitialFields
        <4>2. base.members = NoMembers /\ DOMAIN NoMembers = {}
          BY DEF NoMembers
        <4>3. MembersAfter(AddedEvent(w, b), NoMembers)
                = [a \in {} \union {b} |-> IF a \in {} THEN NoMembers[a]
                  ELSE {}]
          BY <4>1, <4>2 DEF MembersAfter
        <4> HIDE DEF base
        <4> QED BY <2>5, <4>2, <4>3
      <3> QED BY <2>1, <3>1, <3>2, <3>4, <3>5, <3>6, Zenon DEF Apply
    <2> QED BY <1>4, <2>4, <2>5
  <1> QED BY <1>6, <1>7, <1>8 DEF LogReplays

(* The activity log of a workspace, replayed in the order of its commits,  *)
(* is the workspace: no change goes unlogged and no event records one that *)
(* did not happen, whatever failed, raced or lost its reply (append_event  *)
(* in the transaction of the change).                                      *)
THEOREM LogReplaysHolds == Spec => []LogReplays
  <1>1. Init => HistoryInv
    BY BaseInit, TraceInit, HistoryInit DEF HistoryInv
  <1>2. HistoryInv /\ [Next]_vars => HistoryInv'
    <2>1. BaseInv /\ [Next]_vars => BaseInv'
      BY RowsStep, LocalsStep, FlowStep DEF BaseInv
    <2> QED BY <2>1, TraceStep, NumberStep, PlaceStep, FreshStep, ReplayStep
            DEF HistoryInv
  <1>3. HistoryInv => LogReplays
    BY DEF HistoryInv
  <1> QED BY <1>1, <1>2, <1>3, PTL DEF Spec

(***************************************************************************)
(* The timeline.                                                           *)
(***************************************************************************)

(* Finitely many events, each with a place of its own in the timeline.     *)
Ordered(S) ==
    /\ IsFiniteSet(S)
    /\ \A e \in S : e.at \in Int /\ e.id \in Int
    /\ \A e, f \in S : e.id = f.id => e = f

LEMMA OrderedSubset ==
    ASSUME NEW S, Ordered(S), NEW T \in SUBSET S
    PROVE  Ordered(T)
  <1>1. IsFiniteSet(T)
    BY FS_Subset DEF Ordered
  <1> QED BY <1>1 DEF Ordered

(* Newer orders them strictly and totally.                                 *)
LEMMA NewerOrder ==
    ASSUME NEW S, Ordered(S)
    PROVE  /\ \A e, f, g \in S : Newer(e, f) /\ Newer(f, g) => Newer(e, g)
           /\ \A e, f \in S : e = f \/ Newer(e, f) \/ Newer(f, e)
           /\ \A e, f \in S : ~ (Newer(e, f) /\ (Newer(f, e) \/ e = f))
  <1>1. \A e, f, g \in S : Newer(e, f) /\ Newer(f, g) => Newer(e, g)
    BY DEF Ordered, Newer
  <1>2. \A e, f \in S : e = f \/ Newer(e, f) \/ Newer(f, e)
    BY DEF Ordered, Newer
  <1>3. \A e, f \in S : ~ (Newer(e, f) /\ (Newer(f, e) \/ e = f))
    BY DEF Ordered, Newer
  <1> QED BY <1>1, <1>2, <1>3

LEMMA NewestExists ==
    ASSUME NEW S, Ordered(S), S # {}
    PROVE  \E e \in S : \A f \in S : e = f \/ Newer(e, f)
  <1> DEFINE above(e) == {f \in S : Newer(f, e)}
             T == {above(e) : e \in S}
  <1>1. T \in SUBSET (SUBSET S) /\ T # {}
    BY Zenon
  <1>2. PICK x \in T : \A y \in T : y \subseteq x => y = x
    <2> HIDE DEF T, above
    <2> QED BY <1>1, LeastSubset DEF Ordered
  <1>3. PICK e \in S : x = above(e)
    BY <1>2
  <1>4. ASSUME NEW f \in S, Newer(f, e) PROVE FALSE
    <2>1. above(f) \subseteq x /\ f \in x /\ f \notin above(f)
      BY <1>3, <1>4, NewerOrder
    <2> QED BY <1>2, <2>1, Zenon
  <1> QED BY <1>4, NewerOrder

LEMMA OldestExists ==
    ASSUME NEW S, Ordered(S), S # {}
    PROVE  \E e \in S : Oldest(S) = {e} /\ \A f \in S : e = f \/ Newer(f, e)
  <1> DEFINE below(e) == {f \in S : Newer(e, f)}
             T == {below(e) : e \in S}
  <1>1. T \in SUBSET (SUBSET S) /\ T # {}
    BY Zenon
  <1>2. PICK x \in T : \A y \in T : y \subseteq x => y = x
    <2> HIDE DEF T, below
    <2> QED BY <1>1, LeastSubset DEF Ordered
  <1>3. PICK e \in S : x = below(e)
    BY <1>2
  <1>4. ASSUME NEW f \in S, Newer(e, f) PROVE FALSE
    <2>1. below(f) \subseteq x /\ f \in x /\ f \notin below(f)
      BY <1>3, <1>4, NewerOrder
    <2> QED BY <1>2, <2>1, Zenon
  <1>5. \A f \in S : e = f \/ Newer(f, e)
    BY <1>4, NewerOrder
  <1>6. Oldest(S) = {e}
    BY <1>5, NewerOrder DEF Oldest
  <1> QED BY <1>5, <1>6

Older(w, before) == {e \in Events(w) : \A c \in before : Newer(c, e)}

(* What a page promises: it shows events older than the cursor; without a  *)
(* next cursor it shows them all; and a next cursor is the oldest event it *)
(* shows, with nothing left out before it.                                 *)
Remaining(w, before, page) ==
    /\ page.events \subseteq Older(w, before)
    /\ page.next_before = {} => page.events = Older(w, before)
    /\ page.next_before # {} =>
          \E c \in page.events :
             /\ page.next_before = {c}
             /\ \A e \in page.events : e = c \/ Newer(e, c)
             /\ \A e \in Older(w, before) : e \in page.events \/ Newer(c, e)

LEMMA PageLimitIsNumber == PageLimit \in Nat /\ PageLimit >= 1
  BY WorkspacesAssumption DEF WorkspacesAssumption

(* One row more than the limit (activity_events) gives that: the rows are  *)
(* closed upwards, and when there are no more than the limit they are all  *)
(* there is.                                                               *)
LEMMA PageShows ==
    ASSUME NEW w, NEW before, Ordered(Events(w))
    PROVE  Remaining(w, before, Page(w, before))
  <1> DEFINE O == Older(w, before)
             above(e) == {f \in O : Newer(f, e)}
             rows == ListActivity(w, before, PageLimit + 1)
             shown == rows \ Oldest(rows)
  <1>1. Ordered(O)
    BY OrderedSubset DEF Older
  <1>2. rows = {e \in O : Cardinality(above(e)) < PageLimit + 1}
    BY DEF ListActivity, Older
  <1>3. \A e \in O : /\ IsFiniteSet(above(e))
                     /\ Cardinality(above(e)) \in Nat
    BY <1>1, FS_Subset, FS_CardinalityType DEF Ordered
  <1>4. rows \subseteq O /\ Ordered(rows)
    BY <1>1, <1>2, OrderedSubset, Zenon
  <1>5. IsFiniteSet(rows) /\ Cardinality(rows) \in Nat
    BY <1>4, FS_CardinalityType DEF Ordered
  <1>6. ASSUME NEW y \in rows, NEW f \in O, Newer(f, y) PROVE f \in rows
    <2>1. above(f) \subseteq above(y)
      BY <1>1, <1>4, <1>6, NewerOrder
    <2>2. Cardinality(above(f)) <= Cardinality(above(y))
      <3> HIDE DEF above
      <3> QED BY <1>3, <1>4, <2>1, FS_Subset
    <2>3. Cardinality(above(y)) < PageLimit + 1
      BY <1>2
    <2>4. Cardinality(above(f)) < PageLimit + 1
      <3> HIDE DEF above
      <3> QED BY <1>3, <1>4, <2>2, <2>3, PageLimitIsNumber
    <2> QED BY <1>2, <2>4
  <1>7. CASE ~ (Cardinality(rows) > PageLimit)
    <2>1. rows = O
      <3>1. SUFFICES ASSUME O \ rows # {} PROVE FALSE
        BY <1>4
      <3>2. Ordered(O \ rows)
        BY <1>1, OrderedSubset
      <3>3. PICK e \in O \ rows : \A f \in O \ rows : e = f \/ Newer(e, f)
        BY <3>1, <3>2, NewestExists
      <3>4. above(e) \subseteq rows
        BY <1>1, <3>3, NewerOrder
      <3>5. ~ (Cardinality(above(e)) < PageLimit + 1)
        BY <1>2, <3>3
      <3>6. Cardinality(above(e)) <= Cardinality(rows)
        <4> HIDE DEF above, rows
        <4> QED BY <1>5, <3>4, FS_Subset
      <3> HIDE DEF above, rows, O
      <3> QED BY <1>3, <1>5, <1>7, <3>3, <3>5, <3>6, PageLimitIsNumber
    <2>2. Page(w, before) = [events |-> rows, next_before |-> {}]
      BY <1>7, Zenon DEF Page
    <2> HIDE DEF rows
    <2> QED BY <2>1, <2>2 DEF Remaining
  <1>8. CASE Cardinality(rows) > PageLimit
    <2>1. rows # {}
      BY <1>8, FS_EmptySet, PageLimitIsNumber
    <2>2. PICK x \in rows : Oldest(rows) = {x} /\ \A f \in rows : x = f \/
            Newer(f, x)
      <3> HIDE DEF rows
      <3> QED BY <1>4, <2>1, OldestExists
    <2>3. shown # {} /\ Ordered(shown)
      <3>1. rows # {x}
        BY <1>8, FS_Singleton, PageLimitIsNumber
      <3>2. Ordered(shown)
        BY <1>4, OrderedSubset
      <3> QED BY <2>2, <3>1, <3>2
    <2>4. PICK c \in shown : Oldest(shown) = {c} /\ \A f \in shown : c = f \/
            Newer(f, c)
      <3> HIDE DEF shown
      <3> QED BY <2>3, OldestExists
    <2>5. ASSUME NEW e \in O PROVE e \in shown \/ Newer(c, e)
      <3>1. CASE e \in rows
        BY <2>2, <2>4, <3>1
      <3>2. CASE e \notin rows
        <4>1. ~ Newer(e, c) /\ e # c
          BY <1>6, <2>4, <3>2
        <4> QED BY <1>1, <1>4, <2>4, <4>1, NewerOrder
      <3> QED BY <3>1, <3>2
    <2>6. Page(w, before) = [events |-> shown, next_before |-> {c}]
      BY <1>8, <2>4, Zenon DEF Page
    <2> HIDE DEF shown, O
    <2>7. shown \subseteq O
      BY <1>4 DEF shown
    <2> QED BY <2>4, <2>5, <2>6, <2>7 DEF Remaining, O
  <1> QED BY <1>7, <1>8

(* Events are dated, and a request leaves at most one in a workspace.      *)
DatesInv ==
    /\ now \in Nat
    /\ began \in [Requests -> Nat]
    /\ \A e \in log : e.at \in Int /\ e.id \in Int
    /\ \A e, f \in log : e.ws = f.ws /\ e.id = f.id => e = f

(* What a client that pages through w has been shown so far: pages in      *)
(* order, and all it is owed down to the cursor.                           *)
Paged(rd, w) ==
    LET shown == rd.shown
        seen  == UNION {shown[i] : i \in DOMAIN shown}
    IN  /\ shown \in Seq(SUBSET Events(w))
        /\ rd.owed \subseteq Events(w)
        /\ \A i, j \in DOMAIN shown :
              i < j => \A e \in shown[i], f \in shown[j] : Newer(e, f)
        /\ rd.before = {} => rd.owed \subseteq seen
        /\ rd.before # {} =>
              \E c \in Events(w) :
                 /\ rd.before = {c}
                 /\ \A e \in seen : e = c \/ Newer(e, c)
                 /\ \A e \in rd.owed : e \in seen \/ Newer(c, e)

ReaderInv ==
    /\ DOMAIN reader = Readers
    /\ \A q \in Readers :
          reader[q] # None =>
              Paged(reader[q], InitialOf[reader[q].account])

LEMMA EventsOrdered ==
    ASSUME NumberInv, DatesInv, NEW w
    PROVE  Ordered(Events(w))
  <1>1. IsFiniteSet(Events(w))
    BY FS_Subset DEF NumberInv, Events
  <1> QED BY <1>1 DEF DatesInv, Events, Ordered

LEMMA DatesStep ==
    ASSUME BaseInv, TraceInv, DatesInv, [Next]_vars
    PROVE  DatesInv'
  <1>1. now' \in Nat /\ began' \in [Requests -> Nat]
    <2>1. CASE UNCHANGED <<now, began>>
      BY <2>1 DEF DatesInv
    <2>2. CASE Tick
      BY <2>2 DEF Tick, locals, DatesInv
    <2>3. ASSUME NEW r \in Requests, Begin(r)
          PROVE  now' \in Nat /\ began' \in [Requests -> Nat]
      BY <2>3 DEF Begin, DatesInv
    <2>4. ASSUME NEW r \in Requests,
                 \/ \E o \in Operations : Arrive(r, o)
                 \/ Refuse(r) \/ Find(r) \/ FindMember(r) \/ Permit(r)
                 \/ ReadMembers(r) \/ Resolve(r) \/ Drop(r) \/ Abort(r)
          PROVE  UNCHANGED <<now, began>>
      BY <2>4, Zenon DEF Arrive, Refuse, Find, FindMember, Permit, ReadMembers,
         Resolve,
                  Drop, Abort
    <2>5. ASSUME NEW r \in Requests, Writes(r)
          PROVE  UNCHANGED <<now, began>>
      BY <2>5, Zenon DEF Writes, StoreSnapshot, Rename, SetArchived, AddMember,
         AddLabel,
                  RemoveLabel, AppendObservation, Create, InTransaction
    <2>6. ASSUME NEW q \in Readers,
                 NextPage(q) \/ \E a \in Accounts : FirstPage(q, a)
          PROVE  UNCHANGED <<now, began>>
      BY <2>6 DEF NextPage, FirstPage, locals
    <2> QED BY <2>1, <2>2, <2>3, <2>4, <2>5, <2>6
               DEF Next, Writes, vars, locals
  <1>2. CASE UNCHANGED log
    BY <1>1, <1>2 DEF DatesInv
  <1>3. ASSUME NEW r \in Requests, Writes(r), ~ UNCHANGED log
        PROVE  DatesInv'
    <2>1. PICK w, type, what : AppendEvent(r, w, type, what)
      BY <1>3, Zenon DEF Writes, StoreSnapshot, Rename, SetArchived, AddMember,
         AddLabel,
                  RemoveLabel, ChangeLabels, AppendObservation, Create, NoRow
    <2> DEFINE n == Event(r, w, type, what, began[r], Cardinality(log) + 1)
    <2>2. log' = log \union {n} /\ n.id = r /\ n.at = began[r]
      BY <2>1 DEF AppendEvent, Event
    <2> HIDE DEF n
    <2>3. \A e \in log : e.id # r
      <3>1. pc[r] # "done"
        BY <1>3, ActFrame, Zenon DEF Acts, BaseInv
      <3> QED BY <3>1, RequestsPositive DEF TraceInv
    <2>4. n.id \in Int /\ n.at \in Int
      BY <2>2, RequestsPositive DEF DatesInv
    <2> QED BY <1>1, <2>2, <2>3, <2>4 DEF DatesInv
  <1> QED BY <1>2, <1>3, Writers DEF tables

LEMMA DatesInit == Init => DatesInv
  BY InitialDates, Zenon DEF DatesInv

(* The log only grows.                                                      *)
LEMMA LogGrows ==
    ASSUME [Next]_vars
    PROVE  log \subseteq log'
  <1>1. ASSUME NEW r \in Requests, Writes(r) PROVE log \subseteq log'
    BY <1>1, Zenon DEF Writes, StoreSnapshot, Rename, SetArchived, AddMember,
       AddLabel, RemoveLabel, ChangeLabels, AppendObservation, Create,
       NoRow, AppendEvent
  <1> QED BY <1>1, Writers DEF tables

(* What others append does not disturb a client.                           *)
LEMMA PagedStays ==
    ASSUME NEW rd, NEW w, Paged(rd, w), log \subseteq log'
    PROVE  Paged(rd, w)'
  <1>1. Events(w) \subseteq Events(w)'
    BY DEF Events
  <1>2. rd.shown \in Seq(SUBSET (Events(w)'))
    <2> DEFINE S == Events(w)
               T == Events(w)'
    <2>1. S \subseteq T /\ rd.shown \in Seq(SUBSET S)
      BY <1>1 DEF Paged
    <2> HIDE DEF S, T
    <2>2. rd.shown \in Seq(SUBSET T)
      BY <2>1, SeqGrows
    <2> QED BY <2>2 DEF T
  <1> QED BY <1>1, <1>2 DEF Paged

(* The first page starts a client.                                         *)
LEMMA PagedFirst ==
    ASSUME NEW w, Ordered(Events(w)), NEW rd,
           rd.shown = << Page(w, {}).events >>,
           rd.before = Page(w, {}).next_before,
           rd.owed = Events(w)
    PROVE  Paged(rd, w)
  <1> DEFINE page == Page(w, {})
             seen == UNION {rd.shown[i] : i \in DOMAIN rd.shown}
  <1>1. Remaining(w, {}, page)
    BY PageShows, Zenon
  <1>2. Older(w, {}) = Events(w)
    BY Zenon DEF Older
  <1> HIDE DEF page
  <1>3. page.events \subseteq Events(w)
    BY <1>1, <1>2 DEF Remaining
  <1>4. rd.shown = << page.events >> /\ rd.before = page.next_before
    BY DEF page
  <1>5. DOMAIN rd.shown = {1} /\ rd.shown[1] = page.events
    BY <1>4
  <1>6. seen = page.events
    BY <1>5
  <1>7. rd.shown \in Seq(SUBSET Events(w))
    BY <1>3, <1>4
  <1> HIDE DEF seen
  <1>8. rd.before = {} => rd.owed \subseteq seen
    BY <1>1, <1>2, <1>4, <1>6 DEF Remaining
  <1>9. rd.before # {} =>
           \E c \in Events(w) :
              /\ rd.before = {c}
              /\ \A e \in seen : e = c \/ Newer(e, c)
              /\ \A e \in rd.owed : e \in seen \/ Newer(c, e)
    BY <1>1, <1>2, <1>3, <1>4, <1>6 DEF Remaining
  <1>10. \A i, j \in DOMAIN rd.shown : ~ (i < j)
    BY <1>5
  <1> QED BY <1>7, <1>8, <1>9, <1>10, Zenon DEF Paged, seen

(* The next page continues where the cursor stands.                        *)
LEMMA PagedNext ==
    ASSUME NEW w, Ordered(Events(w)), NEW rd, Paged(rd, w), rd.before # {},
           NEW rn,
           rn.shown = Append(rd.shown, Page(w, rd.before).events),
           rn.before = Page(w, rd.before).next_before,
           rn.owed = rd.owed
    PROVE  Paged(rn, w)
  <1> DEFINE page == Page(w, rd.before)
             S == Events(w)
             n == Len(rd.shown)
             seen == UNION {rd.shown[i] : i \in DOMAIN rd.shown}
             seenn == UNION {rn.shown[i] : i \in DOMAIN rn.shown}
  <1>1. Remaining(w, rd.before, page)
    BY PageShows, Zenon
  <1>2. rn.shown = Append(rd.shown, page.events) /\
          rn.before = page.next_before
    BY Zenon
  <1>3. PICK c \in S :
              /\ rd.before = {c}
              /\ \A e \in seen : e = c \/ Newer(e, c)
              /\ \A e \in rd.owed : e \in seen \/ Newer(c, e)
    BY Zenon DEF Paged
  <1>4. rd.shown \in Seq(SUBSET S) /\ rd.owed \subseteq S
    BY DEF Paged
  <1>5. \A e : e \in Older(w, rd.before) <=> e \in S /\ Newer(c, e)
    BY <1>3 DEF Older
  <1> HIDE DEF page, S
  <1>6. page.events \subseteq S /\ \A e \in page.events : Newer(c, e)
    BY <1>1, <1>5, Zenon DEF Remaining
  <1>7. /\ n \in Nat /\ DOMAIN rd.shown = 1 .. n
        /\ DOMAIN rn.shown = 1 .. n + 1
        /\ \A i \in 1 .. n : rn.shown[i] = rd.shown[i]
        /\ rn.shown[n + 1] = page.events
        /\ rn.shown \in Seq(SUBSET S)
    BY <1>2, <1>4, <1>6, OneMore
  <1>8. seen \subseteq S
    BY <1>4, <1>7
  <1>9. seenn = seen \union page.events
    <2>1. \A e : e \in seenn <=> \E i \in 1 .. n + 1 : e \in rn.shown[i]
      BY <1>7
    <2>2. \A e : e \in seen <=> \E i \in 1 .. n : e \in rd.shown[i]
      BY <1>7
    <2> HIDE DEF seen, seenn, n
    <2> QED BY <1>7, <2>1, <2>2
  <1>10. \A e \in seen, f \in page.events : Newer(e, f)
    <2> HIDE DEF seen
    <2> QED BY <1>3, <1>6, <1>8, NewerOrder, Zenon DEF S
  <1>11. ASSUME NEW i \in DOMAIN rn.shown, NEW j \in DOMAIN rn.shown, i < j,
                NEW e \in rn.shown[i], NEW f \in rn.shown[j]
         PROVE  Newer(e, f)
    <2>1. i \in 1 .. n /\ (j \in 1 .. n \/ j = n + 1)
      BY <1>7, <1>11, EarlierOf
    <2>4. e \in rd.shown[i] /\ e \in seen
      BY <1>7, <1>11, <2>1, Zenon
    <2>2. CASE j \in 1 .. n
      BY <1>7, <1>11, <2>1, <2>2, <2>4, Zenon DEF Paged
    <2>3. CASE j = n + 1
      <3> HIDE DEF seen
      <3> QED BY <1>7, <1>10, <1>11, <2>4, <2>3, Zenon
    <2> QED BY <2>1, <2>2, <2>3, Zenon
  <1> HIDE DEF seen, seenn
  <1>12. rn.before = {} => rn.owed \subseteq seenn
    BY <1>1, <1>2, <1>3, <1>4, <1>5, <1>9, Zenon DEF Remaining
  <1>13. rn.before # {} =>
           \E d \in S :
              /\ rn.before = {d}
              /\ \A e \in seenn : e = d \/ Newer(e, d)
              /\ \A e \in rn.owed : e \in seenn \/ Newer(d, e)
    <2> SUFFICES ASSUME rn.before # {}
                 PROVE  \E d \in S :
                          /\ rn.before = {d}
                          /\ \A e \in seenn : e = d \/ Newer(e, d)
                          /\ \A e \in rn.owed : e \in seenn \/ Newer(d, e)
      OBVIOUS
    <2>1. PICK d \in page.events :
             /\ page.next_before = {d}
             /\ \A e \in page.events : e = d \/ Newer(e, d)
             /\ \A e \in Older(w, rd.before) : e \in page.events \/ Newer(d, e)
      BY <1>1, <1>2, Zenon DEF Remaining
    <2>2. \A e \in seenn : e = d \/ Newer(e, d)
      BY <1>9, <1>10, <2>1, Zenon
    <2>3. \A e \in rn.owed : e \in seenn \/ Newer(d, e)
      BY <1>3, <1>4, <1>5, <1>9, <2>1, Zenon
    <2> QED BY <1>2, <1>6, <2>1, <2>2, <2>3, Zenon
  <1> QED BY <1>4, <1>7, <1>11, <1>12, <1>13, Zenon DEF Paged, S, seenn

LEMMA ReaderStep ==
    ASSUME NumberInv, DatesInv, ReaderInv, [Next]_vars
    PROVE  ReaderInv'
  <1>1. log \subseteq log'
    BY LogGrows
  <1>2. ASSUME NEW q \in Readers, reader'[q] = reader[q], reader'[q] # None
        PROVE  Paged(reader[q], InitialOf[reader[q].account])'
    <2> DEFINE rd == reader[q]
    <2>1. Paged(rd, InitialOf[rd.account])
      BY <1>2 DEF ReaderInv
    <2>2. PICK x : x = reader[q]
      OBVIOUS
    <2>3. Paged(x, InitialOf[x.account])'
      BY <1>1, <2>1, <2>2, PagedStays
    <2> QED BY <1>2, <2>1, <2>2, <2>3
  <1>3. CASE UNCHANGED reader
    BY <1>2, <1>3, Zenon DEF ReaderInv
  <1>4. ASSUME NEW q \in Readers, UNCHANGED log,
               DOMAIN reader' = Readers,
               \A x \in Readers \ {q} : reader'[x] = reader[x],
               NEW rn, rn = reader'[q], Paged(rn, InitialOf[rn.account])
        PROVE  ReaderInv'
    <2>1. Paged(rn, InitialOf[rn.account])'
      BY <1>1, <1>4, PagedStays
    <2>2. Paged(reader[q], InitialOf[reader[q].account])'
      BY <1>4, <2>1
    <2> QED BY <1>2, <1>4, <2>2 DEF ReaderInv
  <1>5. ASSUME NEW q \in Readers, NEW a \in Accounts, FirstPage(q, a)
        PROVE  ReaderInv'
    <2> DEFINE w == InitialOf[a]
    <2>1. PICK rn : rn = [account |-> a, before |-> Page(w, {}).next_before,
                          shown |-> << Page(w, {}).events >>,
                            owed |-> Events(w)]
      BY Zenon
    <2>2. reader' = [reader EXCEPT ![q] = rn] /\ UNCHANGED log
      BY <1>5, <2>1 DEF FirstPage, tables
    <2>3. Ordered(Events(w))
      BY EventsOrdered
    <2>4. /\ rn.account = a /\ rn.before = Page(w, {}).next_before
          /\ rn.shown = << Page(w, {}).events >> /\ rn.owed = Events(w)
      BY <2>1
    <2>5. Paged(rn, InitialOf[rn.account])
      BY <2>3, <2>4, PagedFirst, Zenon
    <2> QED BY <1>4, <2>2, <2>5 DEF ReaderInv
  <1>6. ASSUME NEW q \in Readers, NextPage(q)
        PROVE  ReaderInv'
    <2>1. PICK rd : rd = reader[q]
      OBVIOUS
    <2> DEFINE w == InitialOf[rd.account]
    <2>2. rd # None /\ rd.before # {} /\ UNCHANGED log
      BY <1>6, <2>1 DEF NextPage, tables
    <2>3. Paged(rd, w)
      BY <2>1, <2>2 DEF ReaderInv
    <2>4. PICK rn : rn =
            [account |-> rd.account, before |-> Page(w, rd.before).next_before,
                          shown |-> Append(rd.shown,
                            Page(w, rd.before).events), owed |-> rd.owed]
      BY Zenon
    <2>5. reader' = [reader EXCEPT ![q] = rn]
      BY <1>6, <2>1, <2>4 DEF NextPage
    <2>6. Ordered(Events(w))
      BY EventsOrdered
    <2>7. /\ rn.account = rd.account /\
               rn.before = Page(w, rd.before).next_before
          /\ rn.shown = Append(rd.shown, Page(w, rd.before).events) /\
               rn.owed = rd.owed
      BY <2>4, Zenon
    <2>8. Paged(rn, InitialOf[rn.account])
      BY <2>2, <2>3, <2>6, <2>7, PagedNext
    <2> QED BY <1>4, <2>2, <2>5, <2>8 DEF ReaderInv
  <1>7. ASSUME NEW r \in Requests, Acts(r)
        PROVE  UNCHANGED reader
    BY <1>7, Zenon DEF Acts, Writes, Arrive, Refuse, Find, FindMember, Permit,
         ReadMembers, Resolve, Drop, Begin, Abort, StoreSnapshot, Rename,
         SetArchived, AddMember, AddLabel, RemoveLabel, AppendObservation,
         Create, InTransaction
  <1>8. CASE Tick \/ UNCHANGED vars
    BY <1>8, <1>3 DEF Tick, vars
  <1> QED BY <1>3, <1>5, <1>6, <1>7, <1>8 DEF Next, Acts, Writes

(* A client that follows next_before to the end was shown every event that *)
(* was there when it began, none twice and newest first, whatever is       *)
(* committed meanwhile and with whatever times (list_activity,             *)
(* activity_events).                                                       *)
THEOREM TimelineCompleteHolds == Spec => []TimelineComplete
  <1>1. Init => ReaderInv
    <2>1. Init => DOMAIN reader = Readers /\
            \A q \in Readers : reader[q] = None
      <3>1. Init => reader = [q \in Readers |-> None]
        BY SMT DEF Init
      <3> QED BY <3>1, Zenon
    <2> QED BY <2>1 DEF ReaderInv
  <1>2. NumberInv /\ [Next]_vars => NumberInv'
    BY NumberStep
  <1>3. BaseInv /\ TraceInv /\ [Next]_vars => TraceInv'
    BY TraceStep
  <1>4. BaseInv /\ TraceInv /\ DatesInv /\ [Next]_vars => DatesInv'
    BY DatesStep
  <1>5. NumberInv /\ DatesInv /\ ReaderInv /\ [Next]_vars => ReaderInv'
    BY ReaderStep
  <1>6. ReaderInv => TimelineComplete
    BY Zenon DEF ReaderInv, Paged, TimelineComplete
  <1>7. Init => NumberInv /\ TraceInv /\ DatesInv
    BY HistoryInit, TraceInit, DatesInit
  <1> QED BY <1>1, <1>2, <1>3, <1>4, <1>5, <1>6, <1>7, BaseHolds, PTL DEF Spec

=============================================================================
