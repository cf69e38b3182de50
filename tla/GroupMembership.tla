--------------------------- MODULE GroupMembership ---------------------------
(***************************************************************************)
(* The membership transactions of groupService: leave, remove, change of   *)
(* role, delete, join and the invite codes, for one group.                 *)
(*                                                                         *)
(* A request passes the route's requireGroupAccess / requireGroupAdmin,    *)
(* which read committed data, and then runs a READ COMMITTED transaction   *)
(* on a pooled connection: SELECT ... FOR UPDATE and UPDATE take row locks *)
(* that are held to the end, a plain SELECT takes none and sees committed  *)
(* rows only.  The variables are the committed rows; what a transaction    *)
(* has written is applied by its last step, which commits.                 *)
(***************************************************************************)
EXTENDS Integers, FiniteSets, Sequences

CONSTANTS
    Users,
    Creator,    \* created the group: member_index 0, admin
    GroupRow,   \* names the groups row among the rows that can be locked
    Requests,   \* HTTP requests, each used once
    PoolSize    \* connections of the pg pool

ASSUME MembershipAssumption ==
    /\ Creator \in Users
    /\ GroupRow \notin Users \cup Nat
    /\ PoolSize \in Nat \ {0}

VARIABLES
    status,  \* per user: no group_members row, left_at IS NULL, or left
    role,    \* per user: group_members.role
    index,   \* per user: group_members.member_index, -1 without a row
    key,     \* groups.encryption_key, counting its rotations
    active,  \* groups.is_active
    code,    \* the invite codes in the order of their creation: is_active or not
    held,    \* per request: the rows it has locked
    tx       \* per request: what it asks and where it is

tableVars == <<status, role, index, key, active, code>>
vars == <<tableVars, held, tx>>

Ops == {"leave", "remove", "role", "delete", "join", "invite", "revoke"}
Roles == {"admin", "member"}
Rows == Users \cup Nat \cup {GroupRow}
Points == {"new", "queued", "lockTarget", "lockActor", "readAdmins", "readNext",
           "promote", "rotate", "retireCodes", "deactivate", "joinCode",
           "joinMember", "joinIndex", "insert", "ended"}

\* A request that was not sent or is over has no parameters worth keeping.
NoRequest(pc) == [pc |-> pc, op |-> "leave", actor |-> Creator, target |-> Creator,
                  heir |-> {}, code |-> 1, role |-> "member", index |-> 0]

TypeOK ==
    /\ status \in [Users -> {"none", "in", "out"}]
    /\ role \in [Users -> Roles]
    /\ index \in [Users -> Nat \cup {-1}]
    /\ key \in Nat \ {0}
    /\ active \in BOOLEAN
    /\ code \in Seq({"live", "dead"})
    /\ held \in [Requests -> SUBSET Rows]
    /\ tx \in [Requests -> [pc : Points, op : Ops, actor : Users, target : Users,
                            heir : SUBSET Users, code : Nat, role : Roles,
                            index : Nat]]
    \* a row has an index
    /\ \A u \in Users : status[u] = "none" <=> index[u] = -1
    \* and no two rows have the same
    /\ \A u, v \in Users : index[u] = index[v] /\ index[u] # -1 => u = v

\* createGroup, and one createInvite.
Init ==
    /\ status = [u \in Users |-> IF u = Creator THEN "in" ELSE "none"]
    /\ role = [u \in Users |-> IF u = Creator THEN "admin" ELSE "member"]
    /\ index = [u \in Users |-> IF u = Creator THEN 0 ELSE -1]
    /\ key = 1
    /\ active = TRUE
    /\ code = <<"live">>
    /\ held = [r \in Requests |-> {}]
    /\ tx = [r \in Requests |-> NoRequest("new")]

Members == {u \in Users : status[u] = "in"}
Admins == {u \in Members : role[u] = "admin"}
AllDead == [c \in DOMAIN code |-> "dead"]

(***************************************************************************)
(* Row locks and the lifetime of a transaction.                            *)
(***************************************************************************)

\* Fault: joins are not serialised on the groups row.
NeedsNoGroupRow(r) ==
    LET p == tx[r].pc IN
    CASE p = "lockTarget" -> {tx[r].target}
      [] p = "lockActor" -> {tx[r].actor}
      [] p = "promote" -> tx[r].heir
      [] p \in {"rotate", "deactivate"} -> {GroupRow}
      [] p = "retireCodes" -> DOMAIN code
      [] p = "joinCode" -> {tx[r].code}
      [] p = "joinMember" -> IF status[tx[r].actor] = "none" THEN {} ELSE {tx[r].actor}
      [] OTHER -> {}

\* The rows the next statement of a request locks.
Needs(r) ==
    LET p == tx[r].pc IN
    CASE p = "lockTarget" -> {tx[r].target}
      [] p = "lockActor" -> {tx[r].actor}
      [] p = "promote" -> tx[r].heir
      [] p \in {"rotate", "deactivate", "joinIndex"} -> {GroupRow}
      [] p = "retireCodes" -> DOMAIN code
      [] p = "joinCode" -> {tx[r].code}
      [] p = "joinMember" -> IF status[tx[r].actor] = "none" THEN {} ELSE {tx[r].actor}
      [] OTHER -> {}

\* The requests a request waits for.
WaitsFor(r) == {q \in Requests \ {r} : Needs(r) \cap held[q] # {}}

CanLock(r) == WaitsFor(r) = {}

InTransaction == {r \in Requests : tx[r].pc \notin {"new", "queued", "ended"}}

GoTo(r, p) ==
    /\ tx' = [tx EXCEPT ![r].pc = p]
    /\ held' = [held EXCEPT ![r] = @ \cup Needs(r)]

End(r) ==
    /\ tx' = [tx EXCEPT ![r] = NoRequest("ended")]
    /\ held' = [held EXCEPT ![r] = {}]

Rollback(r) == End(r) /\ UNCHANGED tableVars

\* The route's preHandlers, on the rows committed when they run.
MayAsk(u, op) ==
    CASE op = "join" -> TRUE
      [] op = "leave" -> active /\ u \in Members
      [] OTHER -> active /\ u \in Admins

Ask(r) ==
    /\ tx[r].pc = "new"
    /\ \E op \in Ops, u \in Users, t \in Users, c \in DOMAIN code, ro \in Roles :
        /\ MayAsk(u, op)
        /\ op \notin {"remove", "role"} => t = u
        /\ op \notin {"join", "revoke"} => c = 1
        /\ op # "role" => ro = "member"
        /\ tx' = [tx EXCEPT ![r] = [pc |-> "queued", op |-> op, actor |-> u,
                     target |-> t, heir |-> {}, code |-> c, role |-> ro,
                     index |-> 0]]
    /\ UNCHANGED <<tableVars, held>>

\* transaction(): a connection of the pool, and BEGIN.
Connect(r) ==
    /\ tx[r].pc = "queued"
    /\ tx[r].op \notin {"invite", "revoke"}
    /\ Cardinality(InTransaction) < PoolSize
    /\ tx' = [tx EXCEPT ![r].pc =
                CASE tx[r].op \in {"leave", "remove"} -> "lockTarget"
                  [] tx[r].op \in {"role", "delete"} -> "lockActor"
                  [] OTHER -> "joinCode"]
    /\ UNCHANGED <<tableVars, held>>

\* The connection breaks, or a statement fails: ROLLBACK.
Fails(r) ==
    /\ r \in InTransaction
    /\ Rollback(r)

\* PostgreSQL aborts a transaction on a cycle of waiting ones.
Stuck(D) == D # {} /\ \A q \in D : WaitsFor(q) \cap D # {}

\* Fault: only transactions of the same kind are looked at.
VictimOfPair(r) ==
    /\ \E q \in WaitsFor(r) : r \in WaitsFor(q) /\ tx[q].op = tx[r].op
    /\ Rollback(r)

DeadlockVictim(r) ==
    /\ \E D \in SUBSET InTransaction :
        /\ r \in D /\ Stuck(D)
        /\ \A C \in SUBSET D : Stuck(C) => C = D
    /\ Rollback(r)

(***************************************************************************)
(* leaveGroup and removeMember.                                            *)
(***************************************************************************)
NextPoint(r) == IF role[tx[r].target] = "admin" THEN "readAdmins" ELSE "rotate"

\* SELECT the departing user's row FOR UPDATE.
LockTarget(r) ==
    /\ tx[r].pc = "lockTarget" /\ tx[r].op # "role"
    /\ CanLock(r)
    /\ IF status[tx[r].target] # "in" THEN Rollback(r)
       ELSE /\ \/ tx[r].op = "leave" /\ GoTo(r, NextPoint(r))
               \/ tx[r].op = "remove" /\ GoTo(r, "lockActor")
            /\ UNCHANGED tableVars

\* Fault: the caller's role is not looked at again.
TrustsPreHandler(r) ==
    LET u == tx[r].actor IN
    /\ tx[r].pc = "lockActor"
    /\ CanLock(r)
    /\ GoTo(r, CASE tx[r].op = "remove" -> NextPoint(r)
                 [] tx[r].op = "role" -> "lockTarget"
                 [] OTHER -> "deactivate")
    /\ UNCHANGED tableVars

\* SELECT the caller's row, left_at IS NULL, FOR UPDATE: a row that does not
\* qualify is not waited for.
LockActor(r) ==
    LET u == tx[r].actor IN
    /\ tx[r].pc = "lockActor"
    /\ \/ /\ status[u] # "in"
          /\ Rollback(r)
       \/ /\ status[u] = "in" /\ CanLock(r)
          /\ IF role[u] # "admin" \/ (tx[r].op = "remove" /\ tx[r].target = u)
             THEN Rollback(r)
             ELSE /\ GoTo(r, CASE tx[r].op = "remove" -> NextPoint(r)
                               [] tx[r].op = "role" -> "lockTarget"
                               [] OTHER -> "deactivate")
                  /\ UNCHANGED tableVars

\* The other admins, as committed.
ReadAdmins(r) ==
    /\ tx[r].pc = "readAdmins"
    /\ GoTo(r, IF Admins \ {tx[r].target} = {} THEN "readNext" ELSE "rotate")
    /\ UNCHANGED tableVars

\* The other member who joined first is to become admin.  joined_at is left
\* out: any other member may be the first.
ReadNextMember(r) ==
    /\ tx[r].pc = "readNext"
    /\ IF Members \ {tx[r].target} = {} THEN GoTo(r, "rotate")
       ELSE \E v \in Members \ {tx[r].target} :
                /\ tx' = [tx EXCEPT ![r].pc = "promote", ![r].heir = {v}]
                /\ UNCHANGED held
    /\ UNCHANGED tableVars

\* UPDATE ... SET role = 'admin' of that row, which may have left by now.
Promote(r) ==
    /\ tx[r].pc = "promote"
    /\ CanLock(r)
    /\ GoTo(r, "rotate")
    /\ UNCHANGED tableVars

\* rotateGroupEncryptionKey: SELECT ... FROM groups FOR UPDATE.
Rotate(r) ==
    /\ tx[r].pc = "rotate"
    /\ CanLock(r)
    /\ GoTo(r, "retireCodes")
    /\ UNCHANGED tableVars

\* Fault: the key is left as it is.
DepartsWithKey(r) ==
    /\ tx[r].pc = "retireCodes" /\ tx[r].op # "delete"
    /\ CanLock(r)
    /\ status' = [status EXCEPT ![tx[r].target] = "out"]
    /\ role' = [u \in Users |-> IF u \in tx[r].heir THEN "admin" ELSE role[u]]
    /\ code' = Append(AllDead, "live")
    /\ End(r)
    /\ UNCHANGED <<index, key, active>>

\* deactivateAndCreateInvite, and COMMIT of the whole departure.
CommitDeparture(r) ==
    /\ tx[r].pc = "retireCodes" /\ tx[r].op # "delete"
    /\ CanLock(r)
    /\ status' = [status EXCEPT ![tx[r].target] = "out"]
    /\ role' = [u \in Users |-> IF u \in tx[r].heir THEN "admin" ELSE role[u]]
    /\ key' = key + 1
    /\ code' = Append(AllDead, "live")
    /\ End(r)
    /\ UNCHANGED <<index, active>>

(***************************************************************************)
(* updateMemberRole and deleteGroup, after the caller's row is locked.     *)
(***************************************************************************)
LastAdminStays(r) ==
    tx[r].role = "member" /\ role[tx[r].target] = "admin"
        => Admins \ {tx[r].target} # {}

CommitRole(r) ==
    LET t == tx[r].target IN
    /\ tx[r].pc = "lockTarget" /\ tx[r].op = "role"
    /\ CanLock(r)
    /\ IF status[t] # "in" \/ t = tx[r].actor \/ ~LastAdminStays(r)
       THEN Rollback(r)
       ELSE /\ role' = [role EXCEPT ![t] = tx[r].role]
            /\ End(r)
            /\ UNCHANGED <<status, index, key, active, code>>

Deactivate(r) ==
    /\ tx[r].pc = "deactivate"
    /\ CanLock(r)
    /\ GoTo(r, "retireCodes")
    /\ UNCHANGED tableVars

CommitDelete(r) ==
    /\ tx[r].pc = "retireCodes" /\ tx[r].op = "delete"
    /\ CanLock(r)
    /\ active' = FALSE
    /\ code' = AllDead
    /\ End(r)
    /\ UNCHANGED <<status, role, index, key>>

(***************************************************************************)
(* joinGroup.                                                              *)
(***************************************************************************)

\* Fault: the invite row is read without FOR UPDATE.
ReadsInvite(r) ==
    LET usable == active /\ code[tx[r].code] = "live" IN
    /\ tx[r].pc = "joinCode"
    /\ \/ ~usable /\ Rollback(r)
       \/ /\ usable
          /\ tx' = [tx EXCEPT ![r].pc = "joinMember"]
          /\ UNCHANGED <<tableVars, held>>

\* The invite row, if it is active and the group is, FOR UPDATE.
LockInvite(r) ==
    LET usable == active /\ code[tx[r].code] = "live" IN
    /\ tx[r].pc = "joinCode"
    /\ \/ ~usable /\ Rollback(r)
       \/ usable /\ CanLock(r) /\ GoTo(r, "joinMember") /\ UNCHANGED tableVars

\* The member row: a member is refused, an ex-member comes back as a plain
\* member, with the old index; without a row one is to be made.
JoinMember(r) ==
    LET u == tx[r].actor IN
    /\ tx[r].pc = "joinMember"
    /\ CanLock(r)
    /\ \/ status[u] = "in" /\ Rollback(r)
       \/ /\ status[u] = "out"
          /\ status' = [status EXCEPT ![u] = "in"]
          /\ role' = [role EXCEPT ![u] = "member"]
          /\ End(r)
          /\ UNCHANGED <<index, key, active, code>>
       \/ status[u] = "none" /\ GoTo(r, "joinIndex") /\ UNCHANGED tableVars

\* With the groups row locked, MAX(member_index) + 1 is read ...
Indexes == {index[u] : u \in Users}
NextIndex == 1 + CHOOSE i \in Indexes : \A j \in Indexes : j <= i

ReadIndex(r) ==
    /\ tx[r].pc = "joinIndex"
    /\ CanLock(r)
    /\ tx' = [tx EXCEPT ![r].pc = "insert", ![r].index = NextIndex]
    /\ held' = [held EXCEPT ![r] = @ \cup Needs(r)]
    /\ UNCHANGED tableVars

\* Fault: the new row gets no index of its own.
ForgetsIndex(r) ==
    LET u == tx[r].actor IN
    /\ tx[r].pc = "insert" /\ status[u] = "none"
    /\ status' = [status EXCEPT ![u] = "in"]
    /\ End(r)
    /\ UNCHANGED <<role, index, key, active, code>>

\* ... and inserted; UNIQUE (group_id, user_id) fails if the user has a row by now.
InsertMember(r) ==
    LET u == tx[r].actor IN
    /\ tx[r].pc = "insert"
    /\ IF status[u] # "none" THEN Rollback(r)
       ELSE /\ status' = [status EXCEPT ![u] = "in"]
            /\ role' = [role EXCEPT ![u] = "member"]
            /\ index' = [index EXCEPT ![u] = tx[r].index]
            /\ End(r)
            /\ UNCHANGED <<key, active, code>>

(***************************************************************************)
(* createInvite and revokeInvite: single statements, no second check.      *)
(***************************************************************************)

\* The INSERT waits for a FOR UPDATE lock on the groups row (foreign key), not
\* for the plain UPDATE of deleteGroup.
CreateInvite(r) ==
    /\ tx[r].pc = "queued" /\ tx[r].op = "invite"
    /\ Cardinality(InTransaction) < PoolSize
    /\ \A q \in Requests : GroupRow \in held[q] => tx[q].op = "delete"
    /\ code' = Append(code, "live")
    /\ End(r)
    /\ UNCHANGED <<status, role, index, key, active>>

RevokeInvite(r) ==
    /\ tx[r].pc = "queued" /\ tx[r].op = "revoke"
    /\ Cardinality(InTransaction) < PoolSize
    /\ \A q \in Requests : tx[r].code \notin held[q]
    /\ code' = [code EXCEPT ![tx[r].code] = "dead"]
    /\ End(r)
    /\ UNCHANGED <<status, role, index, key, active>>

Proceed(r) ==
    \/ Connect(r)
    \/ LockTarget(r) \/ LockActor(r) \/ ReadAdmins(r) \/ ReadNextMember(r)
    \/ Promote(r) \/ Rotate(r) \/ CommitDeparture(r)
    \/ CommitRole(r) \/ Deactivate(r) \/ CommitDelete(r)
    \/ LockInvite(r) \/ JoinMember(r) \/ ReadIndex(r) \/ InsertMember(r)
    \/ CreateInvite(r) \/ RevokeInvite(r)
    \/ DeadlockVictim(r)

Next == \E r \in Requests : Ask(r) \/ Proceed(r) \/ Fails(r)

Spec == Init /\ [][Next]_vars

\* The server runs what it was asked, and PostgreSQL's deadlock detector works.
FairSpec == Spec /\ \A r \in Requests : WF_vars(Proceed(r))

(***************************************************************************)
(* Properties                                                              *)
(***************************************************************************)

Commits(r) == /\ tx[r].pc # "ended" /\ tx'[r].pc = "ended"
              /\ ~UNCHANGED tableVars

\* No step takes the last admin from a group that still has members: the audit
\* checklist says of the leave action "If last admin, prevent leaving", and
\* updateMemberRole refuses with "Cannot demote the last admin. Promote another
\* member first."
KeepsAnAdmin ==
    [][Admins # {} /\ Members' # {} => Admins' # {}]_vars

\* removeMember, updateMemberRole and deleteGroup take effect only for a caller
\* who is an admin when they do, however long ago requireGroupAdmin passed; and
\* nobody enters a deleted group, or with a code that a departure or a revocation
\* has retired, even when both run at once.
AuthorizedChange ==
    [][\A r \in Requests :
        Commits(r) =>
            /\ tx[r].op \in {"remove", "role", "delete"} => tx[r].actor \in Admins
            /\ tx[r].op = "join" => active /\ code[tx[r].code] = "live"]_vars

\* Every departure rotates the key in the step that takes effect, and nothing
\* else does (the assumption GroupSync makes about membership changes).
Abstract == INSTANCE MembershipKeys WITH members <- Members

ImplementsMembership == Abstract!Spec

\* Whatever locks requests hold against each other, each one gets an answer.
RequestsEnd ==
    \A r \in Requests : tx[r].pc = "queued" ~> tx[r].pc = "ended"
=============================================================================
