----------------------- MODULE GroupMembershipProofs -----------------------
(***************************************************************************)
(* What the membership transactions promise, for any number of users,      *)
(* requests and connections.  A request acts on rows it has locked, no two *)
(* requests hold the same row, and so what a request has read under a lock *)
(* is still so when it commits.                                            *)
(***************************************************************************)
EXTENDS GroupMembership, TLAPS

Txs == [pc : Points, op : Ops, actor : Users, target : Users, heir : SUBSET Users,
        code : Nat, role : Roles, index : Nat]

TableTypes ==
    /\ status \in [Users -> {"none", "in", "out"}]
    /\ role \in [Users -> Roles]
    /\ index \in [Users -> Nat \cup {-1}]
    /\ key \in Nat \ {0}
    /\ active \in BOOLEAN
    /\ code \in Seq({"live", "dead"}) /\ Len(code) >= 1

RequestTypes ==
    /\ held \in [Requests -> SUBSET Rows]
    /\ tx \in [Requests -> Txs]

HasIndex == \A u \in Users : status[u] = "none" <=> index[u] = -1
\* No two rows have the same index, and one has the highest.
Distinct ==
    /\ \A u, v \in Users : index[u] = index[v] /\ index[u] # -1 => u = v
    /\ \E u \in Users : \A v \in Users : index[v] <= index[u]

\* A row is locked by one request at most.
Exclusive == \A r, q \in Requests : r # q => held[r] \cap held[q] = {}

Departing == {"readAdmins", "readNext", "promote", "rotate"}

\* Where a request of each kind can be.
OnItsWay(t) ==
    /\ t.pc = "lockTarget" => t.op \in {"leave", "remove", "role"}
    /\ t.pc = "lockActor" => t.op \in {"remove", "role", "delete"}
    /\ t.pc \in Departing => t.op \in {"leave", "remove"}
    /\ t.pc = "retireCodes" => t.op \in {"leave", "remove", "delete"}
    /\ t.pc = "deactivate" => t.op = "delete"
    /\ t.pc \in {"joinCode", "joinMember", "joinIndex", "insert"} => t.op = "join"

\* What it has found under a lock, and therefore still holds.
KeepsTarget(r) ==
    tx[r].op \in {"leave", "remove"} /\ tx[r].pc \in Departing \cup {"lockActor", "retireCodes"} =>
        tx[r].target \in held[r] /\ status[tx[r].target] = "in"
KeepsActor(r) ==
    \/ tx[r].op = "remove" /\ tx[r].pc \in Departing \cup {"retireCodes"}
    \/ tx[r].op = "role" /\ tx[r].pc = "lockTarget"
    \/ tx[r].op = "delete" /\ tx[r].pc \in {"deactivate", "retireCodes"}
    =>
        /\ tx[r].actor \in held[r]
        /\ status[tx[r].actor] = "in" /\ role[tx[r].actor] = "admin"
KeepsInvite(r) ==
    tx[r].pc \in {"joinMember", "joinIndex", "insert"} =>
        tx[r].code \in held[r] /\ code[tx[r].code] = "live" /\ active = TRUE
KeepsIndex(r) ==
    tx[r].pc = "insert" =>
        GroupRow \in held[r] /\ \A u \in Users : index[u] < tx[r].index

Good(r) ==
    /\ tx[r].code \in 1..Len(code) /\ OnItsWay(tx[r])
    /\ KeepsTarget(r) /\ KeepsActor(r) /\ KeepsInvite(r) /\ KeepsIndex(r)

IInv ==
    /\ TableTypes /\ RequestTypes /\ HasIndex /\ Distinct /\ Exclusive
    /\ \A r \in Requests : Good(r)

-----------------------------------------------------------------------------
LEMMA Unsent ==
    ASSUME NEW p \in Points
    PROVE  NoRequest(p) \in Txs /\ NoRequest(p).pc = p /\ NoRequest(p).code = 1
  BY MembershipAssumption DEF NoRequest, Txs, Ops, Roles

LEMMA Starts == Init => IInv
  <1> SUFFICES ASSUME Init PROVE IInv
    OBVIOUS
  <1>1. "new" \in Points
    BY DEF Points
  <1>2. RequestTypes
    BY <1>1, Unsent DEF Init, RequestTypes
  <1>3. TableTypes
    BY DEF Init, TableTypes, Roles
  <1>4. HasIndex /\ Distinct /\ Exclusive
    BY MembershipAssumption DEF Init, HasIndex, Distinct, Exclusive
  <1>5. ASSUME NEW r \in Requests PROVE Good(r)
    <2>1. tx[r].pc = "new" /\ tx[r].code = 1
      BY <1>1, Unsent DEF Init
    <2>2. 1 \in 1..Len(code)
      BY DEF Init
    <2> QED
      BY <2>1, <2>2
      DEF Good, OnItsWay, KeepsTarget, KeepsActor, KeepsInvite, KeepsIndex, Departing
  <1> QED
    BY <1>2, <1>3, <1>4, <1>5 DEF IInv

\* The rows that the next statement locks, for each place of a request.
LEMMA NeedsOf ==
    ASSUME NEW r \in Requests
    PROVE  /\ tx[r].pc = "lockTarget" => Needs(r) = {tx[r].target}
           /\ tx[r].pc = "lockActor" => Needs(r) = {tx[r].actor}
           /\ tx[r].pc = "promote" => Needs(r) = tx[r].heir
           /\ tx[r].pc \in {"rotate", "deactivate", "joinIndex"} => Needs(r) = {GroupRow}
           /\ tx[r].pc = "retireCodes" => Needs(r) = DOMAIN code
           /\ tx[r].pc = "joinCode" => Needs(r) = {tx[r].code}
           /\ tx[r].pc = "joinMember" =>
                Needs(r) = IF status[tx[r].actor] = "none" THEN {} ELSE {tx[r].actor}
           /\ tx[r].pc \in {"readAdmins", "readNext", "insert", "queued"} => Needs(r) = {}
  BY DEF Needs

LEMMA NeedsRows ==
    ASSUME IInv, NEW r \in Requests, tx[r].pc \notin {"new", "ended"}
    PROVE  Needs(r) \in SUBSET Rows
  <1>1. /\ tx[r].pc \in Points /\ tx[r].target \in Users /\ tx[r].actor \in Users
        /\ tx[r].heir \subseteq Users /\ tx[r].code \in Nat
    BY DEF IInv, RequestTypes, Txs
  <1>2. DOMAIN code \subseteq Nat
    BY DEF IInv, TableTypes
  <1> QED
    BY <1>1, <1>2, NeedsOf DEF Points, Rows

\* What a request does does not touch what the others know, as long as the rows
\* they hold stay as they are.
LEMMA OthersKeep ==
    ASSUME IInv, NEW r \in Requests, NEW q \in Requests,
           tx'[q] = tx[q], held'[q] = held[q], UNCHANGED tableVars
    PROVE  Good(q)'
  BY DEF IInv, Good, OnItsWay, KeepsTarget, KeepsActor, KeepsInvite, KeepsIndex, tableVars

\* A request goes on to another place and takes the locks it needs.
LEMMA Moves ==
    ASSUME IInv, NEW r \in Requests, NEW t \in Txs,
           tx' = [tx EXCEPT ![r] = t], held' = [held EXCEPT ![r] = @ \cup Needs(r)],
           CanLock(r), tx[r].pc \notin {"new", "ended"}, UNCHANGED tableVars
    PROVE  /\ RequestTypes' /\ TableTypes' /\ HasIndex' /\ Distinct' /\ Exclusive'
           /\ tx'[r] = t /\ held'[r] = held[r] \cup Needs(r)
           /\ \A q \in Requests : q # r => Good(q)'
  <1>1. Needs(r) \in SUBSET Rows
    BY NeedsRows
  <1>2. /\ RequestTypes' /\ tx'[r] = t /\ held'[r] = held[r] \cup Needs(r)
        /\ \A q \in Requests : q # r => tx'[q] = tx[q] /\ held'[q] = held[q]
    BY <1>1 DEF IInv, RequestTypes
  <1>3. \A q \in Requests : q # r => Needs(r) \cap held[q] = {}
    BY DEF CanLock, WaitsFor
  <1>4. Exclusive'
    BY <1>2, <1>3 DEF IInv, Exclusive
  <1>5. TableTypes' /\ HasIndex' /\ Distinct'
    BY DEF IInv, TableTypes, HasIndex, Distinct, tableVars
  <1>6. \A q \in Requests : q # r => Good(q)'
    BY <1>2, OthersKeep
  <1> QED
    BY <1>2, <1>4, <1>5, <1>6

\* A request is over and lets its rows go.
LEMMA Ends ==
    ASSUME IInv, NEW r \in Requests, End(r)
    PROVE  /\ RequestTypes' /\ Exclusive'
           /\ tx'[r].pc = "ended" /\ tx'[r].code = 1
           /\ \A q \in Requests : q # r => tx'[q] = tx[q] /\ held'[q] = held[q]
  <1>1. "ended" \in Points
    BY DEF Points
  <1>2. /\ RequestTypes' /\ tx'[r] = NoRequest("ended") /\ held'[r] = {}
        /\ \A q \in Requests : q # r => tx'[q] = tx[q] /\ held'[q] = held[q]
    BY <1>1, Unsent DEF IInv, RequestTypes, End
  <1>3. Exclusive'
    BY <1>2 DEF IInv, Exclusive
  <1> QED
    BY <1>1, <1>2, <1>3, Unsent

LEMMA EndedIsGood ==
    ASSUME NEW r \in Requests, tx[r].pc \in {"new", "queued", "ended"}, tx[r].code \in 1..Len(code)
    PROVE  Good(r)
  BY DEF Good, OnItsWay, KeepsTarget, KeepsActor, KeepsInvite, KeepsIndex, Departing

LEMMA RollbackKeeps ==
    ASSUME IInv, NEW r \in Requests, Rollback(r) PROVE IInv'
  <1>1. /\ RequestTypes' /\ Exclusive'
        /\ tx'[r].pc = "ended" /\ tx'[r].code = 1
        /\ \A q \in Requests : q # r => tx'[q] = tx[q] /\ held'[q] = held[q]
    BY Ends DEF Rollback
  <1>2. UNCHANGED tableVars
    BY DEF Rollback
  <1>3. TableTypes' /\ HasIndex' /\ Distinct' /\ 1 \in 1..Len(code)'
    BY <1>2 DEF IInv, TableTypes, HasIndex, Distinct, tableVars
  <1>4. Good(r)'
    BY <1>1, <1>3 DEF Good, OnItsWay, KeepsTarget, KeepsActor, KeepsInvite, KeepsIndex, Departing
  <1>5. \A q \in Requests : q # r => Good(q)'
    BY <1>1, <1>2, OthersKeep
  <1> QED
    BY <1>1, <1>3, <1>4, <1>5 DEF IInv

\* A request that goes on is fine when it knows what its new place asks for.
Onward(r, p, t) ==
    /\ tx[r].pc \notin {"new", "ended"}
    /\ t.op \in {"leave", "remove"} /\ p \in Departing \cup {"lockActor", "retireCodes"} =>
           t.target \in held[r] \cup Needs(r) /\ status[t.target] = "in"
    /\ (\/ t.op = "remove" /\ p \in Departing \cup {"retireCodes"}
        \/ t.op = "role" /\ p = "lockTarget"
        \/ t.op = "delete" /\ p \in {"deactivate", "retireCodes"})
       => /\ t.actor \in held[r] \cup Needs(r)
          /\ status[t.actor] = "in" /\ role[t.actor] = "admin"
    /\ p \in {"joinMember", "joinIndex", "insert"} =>
           t.code \in held[r] \cup Needs(r) /\ code[t.code] = "live" /\ active = TRUE
    /\ p # "insert"

LEMMA MovesWell ==
    ASSUME IInv, NEW r \in Requests, NEW p \in Points, GoTo(r, p), CanLock(r),
           UNCHANGED tableVars,
           NEW t \in Txs, t = [tx[r] EXCEPT !.pc = p], OnItsWay(t), Onward(r, p, t)
    PROVE  IInv'
  <1>1. tx' = [tx EXCEPT ![r] = t] /\ held' = [held EXCEPT ![r] = @ \cup Needs(r)]
    BY DEF GoTo, IInv, RequestTypes
  <1>2. /\ RequestTypes' /\ TableTypes' /\ HasIndex' /\ Distinct' /\ Exclusive'
        /\ tx'[r] = t /\ held'[r] = held[r] \cup Needs(r)
        /\ \A q \in Requests : q # r => Good(q)'
    BY <1>1, Moves DEF Onward
  <1>3. t.pc = p /\ t.code = tx[r].code
    BY DEF IInv, RequestTypes, Txs
  <1>4. t.code \in 1..Len(code)
    BY <1>3 DEF IInv, Good
  <1>5. Good(r)'
    BY <1>2, <1>3, <1>4
    DEF Good, OnItsWay, KeepsTarget, KeepsActor, KeepsInvite, KeepsIndex, tableVars, Onward
  <1> QED
    BY <1>2, <1>5 DEF IInv

\* The fields of a request that goes on.
LEMMA Goes ==
    ASSUME IInv, NEW r \in Requests, NEW p \in Points
    PROVE  LET t == [tx[r] EXCEPT !.pc = p] IN
           /\ t \in Txs /\ t.pc = p /\ t.op = tx[r].op /\ t.actor = tx[r].actor
           /\ t.target = tx[r].target /\ t.heir = tx[r].heir /\ t.code = tx[r].code
  BY DEF IInv, RequestTypes, Txs

-----------------------------------------------------------------------------
LEMMA AskKeeps ==
    ASSUME IInv, NEW r \in Requests, Ask(r) PROVE IInv'
  <1>1. PICK op \in Ops, u \in Users, t \in Users, c \in DOMAIN code, ro \in Roles :
        /\ MayAsk(u, op)
        /\ op \notin {"remove", "role"} => t = u
        /\ op \notin {"join", "revoke"} => c = 1
        /\ op # "role" => ro = "member"
        /\ tx' = [tx EXCEPT ![r] = [pc |-> "queued", op |-> op, actor |-> u,
                     target |-> t, heir |-> {}, code |-> c, role |-> ro, index |-> 0]]
    BY DEF Ask
  <1> DEFINE asked == [pc |-> "queued", op |-> op, actor |-> u, target |-> t,
                       heir |-> {}, code |-> c, role |-> ro, index |-> 0]
  <1>2. c \in 1..Len(code) /\ c \in Nat
    BY DEF IInv, TableTypes
  <1>3. asked \in Txs /\ asked.pc = "queued" /\ asked.code = c
    BY <1>2 DEF Txs, Points
  <1>4. tx' = [tx EXCEPT ![r] = asked]
    BY <1>1
  <1> HIDE DEF asked
  <1>5. UNCHANGED <<tableVars, held>>
    BY DEF Ask
  <1>6. /\ RequestTypes' /\ tx'[r] = asked
        /\ \A q \in Requests : q # r => tx'[q] = tx[q]
    BY <1>3, <1>4, <1>5 DEF IInv, RequestTypes
  <1>7. TableTypes' /\ HasIndex' /\ Distinct' /\ Exclusive'
    BY <1>5 DEF IInv, TableTypes, HasIndex, Distinct, Exclusive, tableVars
  <1>8. Good(r)'
    BY <1>2, <1>3, <1>5, <1>6
    DEF Good, OnItsWay, KeepsTarget, KeepsActor, KeepsInvite, KeepsIndex, Departing, tableVars
  <1>9. \A q \in Requests : q # r => Good(q)'
    BY <1>5, <1>6, OthersKeep
  <1> QED
    BY <1>6, <1>7, <1>8, <1>9 DEF IInv

LEMMA ConnectKeeps ==
    ASSUME IInv, NEW r \in Requests, Connect(r) PROVE IInv'
  <1> DEFINE p == CASE tx[r].op \in {"leave", "remove"} -> "lockTarget"
                    [] tx[r].op \in {"role", "delete"} -> "lockActor"
                    [] OTHER -> "joinCode"
             t == [tx[r] EXCEPT !.pc = p]
  <1>1. tx[r].pc = "queued" /\ tx[r].op \in {"leave", "remove", "role", "delete", "join"}
    BY DEF Connect, IInv, RequestTypes, Txs, Ops
  <1>2. /\ p \in Points
        /\ p = "lockTarget" => tx[r].op \in {"leave", "remove"}
        /\ p = "lockActor" => tx[r].op \in {"role", "delete"}
        /\ p = "joinCode" => tx[r].op = "join"
        /\ p \in {"lockTarget", "lockActor", "joinCode"}
    BY <1>1 DEF Points
  <1>3. tx' = [tx EXCEPT ![r].pc = p] /\ UNCHANGED <<tableVars, held>>
    BY DEF Connect
  <1> HIDE DEF p
  <1>4. t \in Txs /\ t.pc = p /\ t.op = tx[r].op /\ t.code = tx[r].code
    BY <1>2, Goes
  <1>5. tx' = [tx EXCEPT ![r] = t]
    BY <1>3 DEF IInv, RequestTypes
  <1> HIDE DEF t
  <1>6. /\ RequestTypes' /\ tx'[r] = t
        /\ \A q \in Requests : q # r => tx'[q] = tx[q]
    BY <1>3, <1>4, <1>5 DEF IInv, RequestTypes
  <1>7. TableTypes' /\ HasIndex' /\ Distinct' /\ Exclusive'
    BY <1>3 DEF IInv, TableTypes, HasIndex, Distinct, Exclusive, tableVars
  <1>8. Good(r)'
    BY <1>2, <1>3, <1>4, <1>6
    DEF IInv, Good, OnItsWay, KeepsTarget, KeepsActor, KeepsInvite, KeepsIndex, Departing, tableVars
  <1>9. \A q \in Requests : q # r => Good(q)'
    BY <1>3, <1>6, OthersKeep
  <1> QED
    BY <1>6, <1>7, <1>8, <1>9 DEF IInv

LEMMA LockTargetKeeps ==
    ASSUME IInv, NEW r \in Requests, LockTarget(r) PROVE IInv'
  <1>1. CASE status[tx[r].target] # "in"
    BY <1>1, RollbackKeeps DEF LockTarget
  <1>2. CASE status[tx[r].target] = "in"
    <2>1. PICK p \in {"readAdmins", "rotate", "lockActor"} :
            GoTo(r, p) /\ (p = "lockActor" => tx[r].op = "remove")
                       /\ (p # "lockActor" => tx[r].op = "leave")
      BY <1>2 DEF LockTarget, NextPoint
    <2>2. tx[r].pc = "lockTarget" /\ CanLock(r) /\ UNCHANGED tableVars
      BY <1>2 DEF LockTarget
    <2>3. Needs(r) = {tx[r].target}
      BY <2>2, NeedsOf
    <2> DEFINE t == [tx[r] EXCEPT !.pc = p]
    <2>4. p \in Points
      BY DEF Points
    <2>5. t \in Txs /\ t.pc = p /\ t.op = tx[r].op /\ t.target = tx[r].target
      BY <2>4, Goes
    <2>6. OnItsWay(t)
      BY <2>1, <2>5 DEF OnItsWay, Departing
    <2>7. t = [tx[r] EXCEPT !.pc = p]
      OBVIOUS
    <2> HIDE DEF t
    <2> QED
      <3>1. t.op \in {"leave", "remove"} => t.target \in Needs(r) /\ status[t.target] = "in"
        BY <1>2, <2>3, <2>5
      <3>2. /\ t.op = "remove" => p = "lockActor"
            /\ t.op # "remove" => t.op = "leave"
        BY <2>1, <2>5
      <3>3. /\ p \notin {"joinMember", "joinIndex", "insert"}
            /\ tx[r].pc \notin {"new", "ended"} /\ "lockActor" \notin Departing \cup {"retireCodes"}
        BY <2>1, <2>2 DEF Departing
      <3>4. GoTo(r, p) /\ CanLock(r) /\ UNCHANGED tableVars
        BY <2>1, <2>2
      <3>5. Onward(r, p, t)
        BY <3>1, <3>2, <3>3 DEF Onward
      <3> QED
        BY <2>4, <2>5, <2>6, <2>7, <3>4, <3>5, MovesWell
  <1> QED
    BY <1>1, <1>2

LEMMA LockActorKeeps ==
    ASSUME IInv, NEW r \in Requests, LockActor(r) PROVE IInv'
  <1>1. CASE Rollback(r)
    BY <1>1, RollbackKeeps
  <1>2. CASE ~Rollback(r)
    <2>1. PICK p \in {"readAdmins", "rotate", "lockTarget", "deactivate"} :
            /\ GoTo(r, p)
            /\ p \in {"readAdmins", "rotate"} <=> tx[r].op = "remove"
            /\ p = "lockTarget" <=> tx[r].op = "role"
      BY <1>2 DEF LockActor, NextPoint
    <2>2. /\ tx[r].pc = "lockActor" /\ CanLock(r) /\ UNCHANGED tableVars
          /\ status[tx[r].actor] = "in" /\ role[tx[r].actor] = "admin"
      BY <1>2 DEF LockActor
    <2>3. Needs(r) = {tx[r].actor}
      BY <2>2, NeedsOf
    <2>4. /\ tx[r].op \in {"remove", "role", "delete"}
          /\ tx[r].op = "remove" => tx[r].target \in held[r] /\ status[tx[r].target] = "in"
      BY <2>2 DEF IInv, Good, OnItsWay, KeepsTarget
    <2> DEFINE t == [tx[r] EXCEPT !.pc = p]
    <2>5. p \in Points
      BY DEF Points
    <2>6. /\ t \in Txs /\ t.pc = p /\ t.op = tx[r].op /\ t.target = tx[r].target
          /\ t.actor = tx[r].actor
      BY <2>5, Goes
    <2>7. OnItsWay(t)
      BY <2>1, <2>4, <2>6 DEF OnItsWay, Departing
    <2>8. t = [tx[r] EXCEPT !.pc = p]
      OBVIOUS
    <2> HIDE DEF t
    <2> QED
      <3>1. t.op \in {"leave", "remove"} => t.target \in held[r] /\ status[t.target] = "in"
        BY <2>4, <2>6
      <3>2. t.actor \in Needs(r) /\ status[t.actor] = "in" /\ role[t.actor] = "admin"
        BY <2>2, <2>3, <2>6
      <3>3. /\ p \notin {"joinMember", "joinIndex", "insert"}
            /\ tx[r].pc \notin {"new", "ended"}
        BY <2>1, <2>2
      <3>4. GoTo(r, p) /\ CanLock(r) /\ UNCHANGED tableVars
        BY <2>1, <2>2
      <3>5. Onward(r, p, t)
        BY <3>1, <3>2, <3>3 DEF Onward
      <3> QED
        BY <2>5, <2>6, <2>7, <2>8, <3>4, <3>5, MovesWell
  <1> QED
    BY <1>1, <1>2

\* The steps between the locks and the commit of a departure.
LEMMA DepartureGoesOn ==
    ASSUME IInv, NEW r \in Requests, tx[r].pc \in Departing, CanLock(r), UNCHANGED tableVars,
           NEW p \in Departing \cup {"retireCodes"}, GoTo(r, p)
    PROVE  IInv'
  <1>1. tx[r].op \in {"leave", "remove"}
    BY DEF IInv, Good, OnItsWay
  <1>2. /\ tx[r].target \in held[r] /\ status[tx[r].target] = "in"
        /\ tx[r].op = "remove" =>
             tx[r].actor \in held[r] /\ status[tx[r].actor] = "in" /\ role[tx[r].actor] = "admin"
    BY <1>1 DEF IInv, Good, KeepsTarget, KeepsActor
  <1> DEFINE t == [tx[r] EXCEPT !.pc = p]
  <1>3. p \in Points
    BY DEF Points, Departing
  <1>4. /\ t \in Txs /\ t.pc = p /\ t.op = tx[r].op /\ t.target = tx[r].target
        /\ t.actor = tx[r].actor
    BY <1>3, Goes
  <1>5. OnItsWay(t)
    BY <1>1, <1>4 DEF OnItsWay, Departing
  <1>6. t = [tx[r] EXCEPT !.pc = p]
    OBVIOUS
  <1>7. /\ tx[r].pc \notin {"new", "ended"} /\ p # "insert" /\ p # "lockTarget"
        /\ p \notin {"joinMember", "joinIndex", "insert"}
    BY DEF Departing
  <1> HIDE DEF t
  <1> QED
    <2>1. t.op \in {"leave", "remove"} => t.target \in held[r] /\ status[t.target] = "in"
      BY <1>2, <1>4
    <2>2. /\ t.op = "remove" =>
              t.actor \in held[r] /\ status[t.actor] = "in" /\ role[t.actor] = "admin"
          /\ t.op \in {"leave", "remove"}
      BY <1>1, <1>2, <1>4
    <2>3. Onward(r, p, t)
      BY <1>7, <2>1, <2>2 DEF Onward, Departing
    <2> QED
      BY <1>3, <1>4, <1>5, <1>6, <2>3, MovesWell

\* A statement that locks nothing waits for nobody.
LEMMA NothingToLock ==
    ASSUME NEW r \in Requests, Needs(r) = {} PROVE CanLock(r)
  BY DEF CanLock, WaitsFor

LEMMA ReadAdminsKeeps ==
    ASSUME IInv, NEW r \in Requests, ReadAdmins(r) PROVE IInv'
  <1>1. tx[r].pc = "readAdmins" /\ UNCHANGED tableVars
    BY DEF ReadAdmins
  <1>2. CanLock(r)
    BY <1>1, NeedsOf, NothingToLock
  <1>3. GoTo(r, "readNext") \/ GoTo(r, "rotate")
    BY DEF ReadAdmins
  <1> QED
    BY <1>1, <1>2, <1>3, DepartureGoesOn DEF Departing

LEMMA PromoteKeeps ==
    ASSUME IInv, NEW r \in Requests, Promote(r) \/ Rotate(r) PROVE IInv'
  BY DepartureGoesOn DEF Promote, Rotate, Departing

LEMMA ReadNextKeeps ==
    ASSUME IInv, NEW r \in Requests, ReadNextMember(r) PROVE IInv'
  <1>1. tx[r].pc = "readNext" /\ UNCHANGED tableVars
    BY DEF ReadNextMember
  <1>2. Needs(r) = {} /\ CanLock(r)
    BY <1>1, NeedsOf, NothingToLock
  <1>3. CASE GoTo(r, "rotate")
    BY <1>1, <1>2, <1>3, DepartureGoesOn DEF Departing
  <1>4. CASE ~GoTo(r, "rotate")
    <2>1. PICK v \in Members \ {tx[r].target} :
            tx' = [tx EXCEPT ![r].pc = "promote", ![r].heir = {v}] /\ UNCHANGED held
      BY <1>4 DEF ReadNextMember
    <2> DEFINE t == [tx[r] EXCEPT !.pc = "promote"]
               u == [t EXCEPT !.heir = {v}]
    <2>2. "promote" \in Points /\ v \in Users
      BY DEF Points, Members
    <2>3. /\ t \in Txs /\ t.pc = "promote" /\ t.op = tx[r].op /\ t.actor = tx[r].actor
          /\ t.target = tx[r].target /\ t.code = tx[r].code
      BY <2>2, Goes
    <2>4. tx' = [tx EXCEPT ![r] = u]
      BY <2>1 DEF IInv, RequestTypes
    <2> HIDE DEF t
    <2>5. /\ u \in Txs /\ u.pc = "promote" /\ u.op = tx[r].op /\ u.actor = tx[r].actor
          /\ u.target = tx[r].target /\ u.code = tx[r].code
      BY <2>2, <2>3 DEF Txs
    <2> HIDE DEF u
    <2>6. held' = [held EXCEPT ![r] = @ \cup Needs(r)]
      BY <1>2, <2>1 DEF IInv, RequestTypes
    <2>7. /\ RequestTypes' /\ TableTypes' /\ HasIndex' /\ Distinct' /\ Exclusive'
          /\ tx'[r] = u /\ held'[r] = held[r] \cup Needs(r)
          /\ \A q \in Requests : q # r => Good(q)'
      BY <1>1, <1>2, <2>4, <2>5, <2>6, Moves
    <2>8. Good(r)'
      BY <1>1, <1>2, <2>5, <2>7
      DEF IInv, Good, OnItsWay, KeepsTarget, KeepsActor, KeepsInvite, KeepsIndex, Departing,
          tableVars
    <2> QED
      BY <2>7, <2>8 DEF IInv
  <1> QED
    BY <1>3, <1>4

LEMMA DeactivateKeeps ==
    ASSUME IInv, NEW r \in Requests, Deactivate(r) PROVE IInv'
  <1>1. /\ tx[r].pc = "deactivate" /\ CanLock(r) /\ UNCHANGED tableVars
        /\ GoTo(r, "retireCodes")
    BY DEF Deactivate
  <1>2. tx[r].op = "delete"
    BY <1>1 DEF IInv, Good, OnItsWay
  <1>3. tx[r].actor \in held[r] /\ status[tx[r].actor] = "in" /\ role[tx[r].actor] = "admin"
    BY <1>1, <1>2 DEF IInv, Good, KeepsActor
  <1> DEFINE t == [tx[r] EXCEPT !.pc = "retireCodes"]
  <1>4. "retireCodes" \in Points
    BY DEF Points
  <1>5. t \in Txs /\ t.pc = "retireCodes" /\ t.op = tx[r].op /\ t.actor = tx[r].actor
    BY <1>4, Goes
  <1>6. OnItsWay(t)
    BY <1>2, <1>5 DEF OnItsWay, Departing
  <1>7. t = [tx[r] EXCEPT !.pc = "retireCodes"]
    OBVIOUS
  <1> HIDE DEF t
  <1> QED
    <2>1. t.op = "delete" /\ "retireCodes" \notin {"joinMember", "joinIndex", "insert"}
      BY <1>2, <1>5
    <2>2. t.actor \in held[r] /\ status[t.actor] = "in" /\ role[t.actor] = "admin"
      BY <1>3, <1>5
    <2>3. Onward(r, "retireCodes", t)
      BY <1>1, <2>1, <2>2 DEF Onward, Departing
    <2> QED
      BY <1>1, <1>4, <1>5, <1>6, <1>7, <2>3, MovesWell

LEMMA LockInviteKeeps ==
    ASSUME IInv, NEW r \in Requests, LockInvite(r) PROVE IInv'
  <1>1. CASE Rollback(r)
    BY <1>1, RollbackKeeps
  <1>2. CASE ~Rollback(r)
    <2>1. /\ tx[r].pc = "joinCode" /\ CanLock(r) /\ UNCHANGED tableVars
          /\ GoTo(r, "joinMember") /\ code[tx[r].code] = "live"
      BY <1>2 DEF LockInvite
    <2>2. active = TRUE
      BY <1>2 DEF LockInvite, IInv, TableTypes
    <2>3. tx[r].op = "join" /\ Needs(r) = {tx[r].code}
      BY <2>1, NeedsOf DEF IInv, Good, OnItsWay
    <2> DEFINE t == [tx[r] EXCEPT !.pc = "joinMember"]
    <2>4. "joinMember" \in Points
      BY DEF Points
    <2>5. t \in Txs /\ t.pc = "joinMember" /\ t.op = tx[r].op /\ t.code = tx[r].code
      BY <2>4, Goes
    <2>6. OnItsWay(t)
      BY <2>3, <2>5 DEF OnItsWay, Departing
    <2>7. t = [tx[r] EXCEPT !.pc = "joinMember"]
      OBVIOUS
    <2> HIDE DEF t
    <2> QED
      BY <2>1, <2>2, <2>3, <2>4, <2>5, <2>6, <2>7, MovesWell DEF Departing, Onward
  <1> QED
    BY <1>1, <1>2

\* A join that has its invitation goes on with it.
LEMMA JoinKnows ==
    ASSUME IInv, NEW r \in Requests, tx[r].pc \in {"joinMember", "joinIndex", "insert"}
    PROVE  /\ tx[r].op = "join" /\ tx[r].code \in held[r]
           /\ code[tx[r].code] = "live" /\ active = TRUE
  BY DEF IInv, Good, OnItsWay, KeepsInvite

-----------------------------------------------------------------------------
\* A commit is harmless to a request when the rows that it holds stay as they are.
Undisturbed(q) ==
    /\ \A u \in Users : u \in held[q] /\ status[u] = "in" => status'[u] = "in"
    /\ \A u \in Users : u \in held[q] /\ status[u] = "in" /\ role[u] = "admin"
          => role'[u] = "admin"
    /\ \A c \in 1..Len(code) : c \in held[q] /\ code[c] = "live" /\ active = TRUE
          => code'[c] = "live" /\ active' = TRUE
    /\ GroupRow \in held[q] => index' = index

LEMMA OthersStay ==
    ASSUME IInv, NEW q \in Requests, tx'[q] = tx[q], held'[q] = held[q],
           Len(code') \in Nat, Len(code') >= Len(code),
           Undisturbed(q)
    PROVE  Good(q)'
  <1>1. tx[q].code \in 1..Len(code) /\ tx[q].target \in Users /\ tx[q].actor \in Users
    BY DEF IInv, Good, RequestTypes, Txs
  <1>2. Len(code) \in Nat
    BY DEF IInv, TableTypes
  <1>3. tx'[q].code \in 1..Len(code') /\ OnItsWay(tx'[q])
    BY <1>1, <1>2 DEF IInv, Good
  <1>4. KeepsTarget(q)'
    BY <1>1 DEF IInv, Good, KeepsTarget, Undisturbed
  <1>5. KeepsActor(q)'
    BY <1>1 DEF IInv, Good, KeepsActor, Undisturbed
  <1>6. KeepsInvite(q)'
    BY <1>1 DEF IInv, Good, KeepsInvite, Undisturbed
  <1>7. KeepsIndex(q)'
    BY DEF IInv, Good, KeepsIndex, Undisturbed
  <1> QED
    BY <1>3, <1>4, <1>5, <1>6, <1>7 DEF Good

LEMMA CommitKeeps ==
    ASSUME IInv, NEW r \in Requests, End(r), TableTypes', HasIndex', Distinct',
           Len(code') >= Len(code),
           \A q \in Requests \ {r} : Undisturbed(q)
    PROVE  IInv'
  <1>1. /\ RequestTypes' /\ Exclusive' /\ tx'[r].pc = "ended" /\ tx'[r].code = 1
        /\ \A q \in Requests : q # r => tx'[q] = tx[q] /\ held'[q] = held[q]
    BY Ends
  <1>2. Len(code') \in Nat /\ 1 \in 1..Len(code')
    BY DEF TableTypes
  <1>3. Good(r)'
    BY <1>1, <1>2 DEF Good, OnItsWay, KeepsTarget, KeepsActor, KeepsInvite, KeepsIndex, Departing
  <1>4. \A q \in Requests : q # r => Good(q)'
    BY <1>1, <1>2, OthersStay
  <1> QED
    BY <1>1, <1>3, <1>4 DEF IInv

\* The codes of a group, all retired.
LEMMA AllRetired ==
    ASSUME TableTypes
    PROVE  AllDead \in Seq({"live", "dead"}) /\ Len(AllDead) = Len(code)
  <1>1. DOMAIN code = 1..Len(code) /\ Len(code) \in Nat
    BY DEF TableTypes
  <1> QED
    BY <1>1 DEF AllDead

\* What a request has locked, or finds that it could lock, is not held by another.
LEMMA Apart ==
    ASSUME IInv, NEW r \in Requests, NEW q \in Requests \ {r}
    PROVE  /\ held[r] \cap held[q] = {}
           /\ CanLock(r) => Needs(r) \cap held[q] = {}
  BY DEF IInv, Exclusive, CanLock, WaitsFor

LEMMA DepartureKeeps ==
    ASSUME IInv, NEW r \in Requests, CommitDeparture(r) PROVE IInv'
  <1> DEFINE u == tx[r].target
  <1>1. /\ tx[r].pc = "retireCodes" /\ CanLock(r) /\ End(r) /\ UNCHANGED <<index, active>>
        /\ status' = [status EXCEPT ![u] = "out"] /\ key' = key + 1
        /\ role' = [v \in Users |-> IF v \in tx[r].heir THEN "admin" ELSE role[v]]
        /\ code' = Append(AllDead, "live") /\ tx[r].op # "delete"
    BY DEF CommitDeparture
  <1>2. u \in Users /\ u \in held[r] /\ status[u] = "in"
    BY <1>1 DEF IInv, Good, OnItsWay, KeepsTarget, RequestTypes, Txs
  <1> HIDE DEF u
  <1>3. Needs(r) = 1..Len(code)
    BY <1>1, NeedsOf DEF IInv, TableTypes
  <1>4. code' \in Seq({"live", "dead"}) /\ Len(code') = Len(code) + 1 /\ Len(code) \in Nat
        /\ Len(code) >= 1
    BY <1>1, AllRetired DEF IInv, TableTypes
  <1>5. TableTypes'
    BY <1>1, <1>2, <1>4 DEF IInv, TableTypes, Roles
  <1>6. HasIndex' /\ Distinct'
    BY <1>1, <1>2 DEF IInv, TableTypes, HasIndex, Distinct
  <1>7. ASSUME NEW q \in Requests \ {r} PROVE Undisturbed(q)
    <2>1. u \notin held[q] /\ (1..Len(code)) \cap held[q] = {}
      BY <1>1, <1>2, <1>3, Apart
    <2> QED
      BY <1>1, <2>1 DEF IInv, TableTypes, Undisturbed
  <1> QED
    BY <1>1, <1>4, <1>5, <1>6, <1>7, CommitKeeps

LEMMA RoleKeeps ==
    ASSUME IInv, NEW r \in Requests, CommitRole(r) PROVE IInv'
  <1> DEFINE t == tx[r].target
  <1>1. CASE Rollback(r)
    BY <1>1, RollbackKeeps
  <1>2. CASE ~Rollback(r)
    <2>1. /\ tx[r].pc = "lockTarget" /\ CanLock(r) /\ End(r)
          /\ role' = [role EXCEPT ![t] = tx[r].role]
          /\ UNCHANGED <<status, index, key, active, code>>
      BY <1>2 DEF CommitRole
    <2>2. t \in Users /\ tx[r].role \in Roles /\ Needs(r) = {t}
      BY <2>1, NeedsOf DEF IInv, RequestTypes, Txs
    <2> HIDE DEF t
    <2>3. TableTypes' /\ HasIndex' /\ Distinct'
      BY <2>1, <2>2 DEF IInv, TableTypes, HasIndex, Distinct
    <2>4. Len(code) \in Nat
      BY DEF IInv, TableTypes
    <2>5. \A q \in Requests \ {r} : t \notin held[q]
      BY <2>1, <2>2, Apart
    <2>6. \A v \in Users : v # t => role'[v] = role[v]
      BY <2>1 DEF IInv, TableTypes
    <2>7. \A q \in Requests \ {r} : Undisturbed(q)
      BY <2>1, <2>5, <2>6 DEF Undisturbed
    <2> QED
      BY <2>1, <2>3, <2>4, <2>7, CommitKeeps
  <1> QED
    BY <1>1, <1>2

LEMMA DeleteKeeps ==
    ASSUME IInv, NEW r \in Requests, CommitDelete(r) PROVE IInv'
  <1>1. /\ tx[r].pc = "retireCodes" /\ CanLock(r) /\ End(r) /\ active' = FALSE
        /\ code' = AllDead /\ UNCHANGED <<status, role, index, key>>
    BY DEF CommitDelete
  <1>2. Needs(r) = 1..Len(code)
    BY <1>1, NeedsOf DEF IInv, TableTypes
  <1>3. Len(code') = Len(code) /\ Len(code) \in Nat
    BY <1>1, AllRetired DEF IInv, TableTypes
  <1>4. TableTypes' /\ HasIndex' /\ Distinct'
    BY <1>1, AllRetired DEF IInv, TableTypes, HasIndex, Distinct
  <1>5. \A q \in Requests \ {r} : (1..Len(code)) \cap held[q] = {}
    BY <1>1, <1>2, Apart
  <1>6. \A q \in Requests \ {r} : Undisturbed(q)
    BY <1>1, <1>5 DEF Undisturbed
  <1> QED
    BY <1>1, <1>3, <1>4, <1>6, CommitKeeps

LEMMA JoinMemberKeeps ==
    ASSUME IInv, NEW r \in Requests, JoinMember(r) PROVE IInv'
  <1> DEFINE u == tx[r].actor
  <1>1. tx[r].pc = "joinMember" /\ CanLock(r) /\ u \in Users
    BY DEF JoinMember, IInv, RequestTypes, Txs
  <1>2. CASE Rollback(r)
    BY <1>2, RollbackKeeps
  <1>3. CASE status[u] = "out" /\ ~Rollback(r)
    <2>1. /\ status' = [status EXCEPT ![u] = "in"] /\ role' = [role EXCEPT ![u] = "member"]
          /\ End(r) /\ UNCHANGED <<index, key, active, code>>
      BY <1>3 DEF JoinMember
    <2> HIDE DEF u
    <2>2. TableTypes' /\ HasIndex' /\ Distinct'
      BY <1>1, <1>3, <2>1 DEF IInv, TableTypes, HasIndex, Distinct, Roles
    <2>3. Len(code) \in Nat
      BY DEF IInv, TableTypes
    <2>4. \A v \in Users : status[v] = "in" => status'[v] = "in" /\ role'[v] = role[v]
      BY <1>1, <1>3, <2>1 DEF IInv, TableTypes
    <2>5. \A q \in Requests \ {r} : Undisturbed(q)
      BY <2>1, <2>4 DEF Undisturbed
    <2> QED
      BY <2>1, <2>2, <2>3, <2>5, CommitKeeps
  <1>4. CASE status[u] # "out" /\ ~Rollback(r)
    <2>1. GoTo(r, "joinIndex") /\ UNCHANGED tableVars
      BY <1>4 DEF JoinMember
    <2>2. /\ tx[r].op = "join" /\ tx[r].code \in held[r]
          /\ code[tx[r].code] = "live" /\ active = TRUE
      BY <1>1, JoinKnows
    <2> HIDE DEF u
    <2> DEFINE t == [tx[r] EXCEPT !.pc = "joinIndex"]
    <2>3. "joinIndex" \in Points
      BY DEF Points
    <2>4. t \in Txs /\ t.pc = "joinIndex" /\ t.op = tx[r].op /\ t.code = tx[r].code
      BY <2>3, Goes
    <2>5. OnItsWay(t)
      BY <2>2, <2>4 DEF OnItsWay, Departing
    <2>6. t = [tx[r] EXCEPT !.pc = "joinIndex"]
      OBVIOUS
    <2> HIDE DEF t
    <2> QED
      BY <1>1, <2>1, <2>2, <2>3, <2>4, <2>5, <2>6, MovesWell DEF Departing, Onward
  <1> QED
    BY <1>2, <1>3, <1>4

\* With the groups row locked, the next index is above all there are.
LEMMA NextIsAbove ==
    ASSUME IInv
    PROVE  NextIndex \in Nat /\ \A u \in Users : index[u] < NextIndex
  <1>1. PICK top \in Users : \A v \in Users : index[v] <= index[top]
    BY DEF IInv, Distinct
  <1>2. \A u \in Users : index[u] \in Nat \cup {-1}
    BY DEF IInv, TableTypes
  <1> DEFINE highest == CHOOSE i \in Indexes : \A j \in Indexes : j <= i
  <1>3. highest \in Indexes /\ \A j \in Indexes : j <= highest
    <2>1. index[top] \in Indexes /\ \A j \in Indexes : j <= index[top]
      BY <1>1 DEF Indexes
    <2> QED
      BY <2>1
  <1>4. NextIndex = 1 + highest
    BY DEF NextIndex
  <1> HIDE DEF highest
  <1>5. highest \in Nat \cup {-1} /\ \A u \in Users : index[u] <= highest
    BY <1>2, <1>3 DEF Indexes
  <1> QED
    BY <1>2, <1>4, <1>5

LEMMA ReadIndexKeeps ==
    ASSUME IInv, NEW r \in Requests, ReadIndex(r) PROVE IInv'
  <1>1. /\ tx[r].pc = "joinIndex" /\ CanLock(r) /\ UNCHANGED tableVars
        /\ tx' = [tx EXCEPT ![r].pc = "insert", ![r].index = NextIndex]
        /\ held' = [held EXCEPT ![r] = @ \cup Needs(r)]
    BY DEF ReadIndex
  <1>2. Needs(r) = {GroupRow}
    BY <1>1, NeedsOf
  <1>3. NextIndex \in Nat /\ \A u \in Users : index[u] < NextIndex
    BY NextIsAbove
  <1>4. /\ tx[r].op = "join" /\ tx[r].code \in held[r]
        /\ code[tx[r].code] = "live" /\ active = TRUE
    BY <1>1, JoinKnows
  <1> DEFINE t == [tx[r] EXCEPT !.pc = "insert"]
             u == [t EXCEPT !.index = NextIndex]
  <1>5. "insert" \in Points
    BY DEF Points
  <1>6. t \in Txs /\ t.pc = "insert" /\ t.op = tx[r].op /\ t.code = tx[r].code
    BY <1>5, Goes
  <1>7. tx' = [tx EXCEPT ![r] = u]
    BY <1>1 DEF IInv, RequestTypes
  <1> HIDE DEF t
  <1>8. u \in Txs /\ u.pc = "insert" /\ u.op = tx[r].op /\ u.code = tx[r].code /\ u.index = NextIndex
    BY <1>3, <1>6 DEF Txs
  <1> HIDE DEF u
  <1>9. /\ RequestTypes' /\ TableTypes' /\ HasIndex' /\ Distinct' /\ Exclusive'
        /\ tx'[r] = u /\ held'[r] = held[r] \cup Needs(r)
        /\ \A q \in Requests : q # r => Good(q)'
    BY <1>1, <1>7, <1>8, Moves
  <1>10. UNCHANGED <<status, role, index, active, code>>
    BY <1>1 DEF tableVars
  <1>11. tx'[r].code \in 1..Len(code') /\ OnItsWay(tx'[r])
    BY <1>4, <1>8, <1>9, <1>10 DEF IInv, Good, OnItsWay, Departing
  <1>12. KeepsTarget(r)' /\ KeepsActor(r)'
    BY <1>4, <1>8, <1>9 DEF KeepsTarget, KeepsActor, Departing
  <1>13. KeepsInvite(r)'
    BY <1>4, <1>8, <1>9, <1>10 DEF KeepsInvite
  <1>14. GroupRow \in held'[r]
    BY <1>2, <1>9
  <1>15. KeepsIndex(r)'
    BY <1>3, <1>8, <1>9, <1>10, <1>14 DEF KeepsIndex
  <1>16. Good(r)'
    BY <1>11, <1>12, <1>13, <1>15 DEF Good
  <1> QED
    BY <1>9, <1>16 DEF IInv

LEMMA InsertKeeps ==
    ASSUME IInv, NEW r \in Requests, InsertMember(r) PROVE IInv'
  <1> DEFINE u == tx[r].actor
             n == tx[r].index
  <1>1. tx[r].pc = "insert" /\ u \in Users /\ n \in Nat
    BY DEF InsertMember, IInv, RequestTypes, Txs
  <1>2. CASE status[u] # "none"
    BY <1>2, RollbackKeeps DEF InsertMember
  <1>3. CASE status[u] = "none"
    <2>1. /\ status' = [status EXCEPT ![u] = "in"] /\ role' = [role EXCEPT ![u] = "member"]
          /\ index' = [index EXCEPT ![u] = n] /\ End(r) /\ UNCHANGED <<key, active, code>>
      BY <1>3 DEF InsertMember
    <2>2. GroupRow \in held[r] /\ \A v \in Users : index[v] < n
      BY <1>1 DEF IInv, Good, KeepsIndex
    <2> HIDE DEF u, n
    <2>3. TableTypes'
      BY <1>1, <2>1 DEF IInv, TableTypes, Roles
    <2>4. HasIndex'
      BY <1>1, <1>3, <2>1 DEF IInv, TableTypes, HasIndex
    <2>5. Distinct'
      <3>1. index'[u] = n /\ \A v \in Users : v # u => index'[v] = index[v]
        BY <1>1, <2>1 DEF IInv, TableTypes
      <3>2. \A v, w \in Users : index'[v] = index'[w] /\ index'[v] # -1 => v = w
        BY <1>1, <2>2, <3>1 DEF IInv, TableTypes, Distinct
      <3>3. \A v \in Users : index'[v] <= index'[u]
        BY <1>1, <2>2, <3>1 DEF IInv, TableTypes
      <3> QED
        BY <1>1, <3>2, <3>3 DEF Distinct
    <2>6. \A q \in Requests \ {r} : Undisturbed(q)
      <3>1. \A q \in Requests \ {r} : GroupRow \notin held[q]
        BY <2>2, Apart
      <3>2. \A v \in Users : status[v] = "in" => status'[v] = "in" /\ role'[v] = role[v]
        BY <1>1, <1>3, <2>1 DEF IInv, TableTypes
      <3> QED
        BY <2>1, <3>1, <3>2 DEF Undisturbed
    <2>7. Len(code) \in Nat
      BY DEF IInv, TableTypes
    <2> QED
      BY <2>1, <2>3, <2>4, <2>5, <2>6, <2>7, CommitKeeps
  <1> QED
    BY <1>2, <1>3

LEMMA InviteKeeps ==
    ASSUME IInv, NEW r \in Requests, CreateInvite(r) \/ RevokeInvite(r) PROVE IInv'
  <1>1. Len(code) \in Nat /\ Len(code) >= 1 /\ code \in Seq({"live", "dead"})
    BY DEF IInv, TableTypes
  <1>2. CASE CreateInvite(r)
    <2>1. code' = Append(code, "live") /\ End(r) /\ UNCHANGED <<status, role, index, key, active>>
      BY <1>2 DEF CreateInvite
    <2>2. /\ Len(code') = Len(code) + 1 /\ code' \in Seq({"live", "dead"})
          /\ \A c \in 1..Len(code) : code'[c] = code[c]
      BY <1>1, <2>1
    <2>3. TableTypes' /\ HasIndex' /\ Distinct'
      BY <1>1, <2>1, <2>2 DEF IInv, TableTypes, HasIndex, Distinct
    <2>4. \A q \in Requests \ {r} : Undisturbed(q)
      BY <2>1, <2>2 DEF Undisturbed
    <2> QED
      BY <1>1, <2>1, <2>2, <2>3, <2>4, CommitKeeps
  <1>3. CASE RevokeInvite(r)
    <2> DEFINE k == tx[r].code
    <2>1. /\ code' = [code EXCEPT ![k] = "dead"] /\ End(r)
          /\ UNCHANGED <<status, role, index, key, active>>
          /\ \A q \in Requests : k \notin held[q]
      BY <1>3 DEF RevokeInvite
    <2>2. k \in 1..Len(code)
      BY DEF IInv, Good
    <2> HIDE DEF k
    <2>3. /\ Len(code') = Len(code) /\ code' \in Seq({"live", "dead"})
          /\ \A c \in 1..Len(code) : c # k => code'[c] = code[c]
      BY <1>1, <2>1, <2>2
    <2>4. TableTypes' /\ HasIndex' /\ Distinct'
      BY <1>1, <2>1, <2>3 DEF IInv, TableTypes, HasIndex, Distinct
    <2>5. \A q \in Requests \ {r} : Undisturbed(q)
      BY <2>1, <2>3 DEF Undisturbed
    <2> QED
      BY <1>1, <2>1, <2>3, <2>4, <2>5, CommitKeeps
  <1> QED
    BY <1>2, <1>3

LEMMA UnchangedKeeps ==
    ASSUME IInv, UNCHANGED vars PROVE IInv'
  BY DEF IInv, vars, tableVars, TableTypes, RequestTypes, HasIndex, Distinct, Exclusive, Good,
         OnItsWay, KeepsTarget, KeepsActor, KeepsInvite, KeepsIndex

LEMMA Steps == IInv /\ [Next]_vars => IInv'
  <1> SUFFICES ASSUME IInv, [Next]_vars PROVE IInv'
    OBVIOUS
  <1>1. CASE UNCHANGED vars
    BY <1>1, UnchangedKeeps
  <1>2. ASSUME NEW r \in Requests, Ask(r) \/ Connect(r) \/ Fails(r) \/ DeadlockVictim(r)
        PROVE  IInv'
    BY <1>2, AskKeeps, ConnectKeeps, RollbackKeeps DEF Fails, DeadlockVictim
  <1>3. ASSUME NEW r \in Requests,
               \/ LockTarget(r) \/ LockActor(r) \/ ReadAdmins(r) \/ ReadNextMember(r)
               \/ Promote(r) \/ Rotate(r) \/ CommitDeparture(r)
        PROVE  IInv'
    BY <1>3, LockTargetKeeps, LockActorKeeps, ReadAdminsKeeps, ReadNextKeeps, PromoteKeeps,
       DepartureKeeps
  <1>4. ASSUME NEW r \in Requests, CommitRole(r) \/ Deactivate(r) \/ CommitDelete(r)
        PROVE  IInv'
    BY <1>4, RoleKeeps, DeactivateKeeps, DeleteKeeps
  <1>5. ASSUME NEW r \in Requests,
               \/ LockInvite(r) \/ JoinMember(r) \/ ReadIndex(r) \/ InsertMember(r)
               \/ CreateInvite(r) \/ RevokeInvite(r)
        PROVE  IInv'
    BY <1>5, LockInviteKeeps, JoinMemberKeeps, ReadIndexKeeps, InsertKeeps, InviteKeeps
  <1> QED
    BY <1>1, <1>2, <1>3, <1>4, <1>5 DEF Next, Proceed

LEMMA Invariant == Spec => []IInv
  BY Starts, Steps, PTL DEF Spec

-----------------------------------------------------------------------------
\* The rows stay what a group's tables can hold, in whatever order the requests
\* take their locks: a row per member and no two with the same member_index.
THEOREM MembershipTypes == Spec => []TypeOK
  <1>1. IInv => TypeOK
    BY DEF IInv, TypeOK, TableTypes, RequestTypes, HasIndex, Distinct, Txs
  <1> QED
    BY <1>1, Invariant, PTL

\* The steps that may change a table; every other one leaves them all alone.
LEMMA Quiet ==
    ASSUME NEW r \in Requests,
           Ask(r) \/ Proceed(r) \/ Fails(r), ~UNCHANGED tableVars
    PROVE  \/ CommitDeparture(r) \/ CommitRole(r) \/ CommitDelete(r)
           \/ JoinMember(r) \/ InsertMember(r) \/ CreateInvite(r) \/ RevokeInvite(r)
  BY DEF Ask, Proceed, Fails, Rollback, DeadlockVictim, Connect, LockTarget, LockActor,
         ReadAdmins, ReadNextMember, Promote, Rotate, Deactivate, LockInvite, ReadIndex

\* Only the request that acts commits.
LEMMA OneCommits ==
    ASSUME IInv, NEW r \in Requests, NEW q \in Requests,
           Ask(r) \/ Proceed(r) \/ Fails(r), Commits(q)
    PROVE  q = r
  <1> SUFFICES ASSUME q # r PROVE FALSE
    OBVIOUS
  <1>1. \/ CommitDeparture(r) \/ CommitRole(r) \/ CommitDelete(r)
        \/ JoinMember(r) \/ InsertMember(r) \/ CreateInvite(r) \/ RevokeInvite(r)
    BY Quiet DEF Commits
  <1>2. CASE End(r)
    BY <1>2, Ends DEF Commits
  <1>3. CASE ~End(r)
    <2>1. JoinMember(r) /\ UNCHANGED tableVars
      BY <1>1, <1>3 DEF CommitDeparture, CommitRole, CommitDelete, JoinMember, InsertMember,
         CreateInvite, RevokeInvite, Rollback
    <2> QED
      BY <2>1 DEF Commits
  <1> QED
    BY <1>2, <1>3

LEMMA AuthorizedStep ==
    ASSUME IInv, NEW r \in Requests, Ask(r) \/ Proceed(r) \/ Fails(r), Commits(r)
    PROVE  /\ tx[r].op \in {"remove", "role", "delete"} => tx[r].actor \in Admins
           /\ tx[r].op = "join" => active /\ code[tx[r].code] = "live"
  <1>1. \/ CommitDeparture(r) \/ CommitRole(r) \/ CommitDelete(r)
        \/ JoinMember(r) \/ InsertMember(r) \/ CreateInvite(r) \/ RevokeInvite(r)
    BY Quiet DEF Commits
  <1>2. /\ KeepsActor(r) /\ KeepsInvite(r) /\ OnItsWay(tx[r])
        /\ tx[r].actor \in Users
    BY DEF IInv, Good, RequestTypes, Txs
  <1>3. CASE CommitDeparture(r) \/ CommitRole(r) \/ CommitDelete(r)
    <2>1. /\ tx[r].pc \in {"retireCodes", "lockTarget"} /\ tx[r].op # "join"
          /\ tx[r].op = "remove" => tx[r].pc = "retireCodes"
          /\ tx[r].op = "delete" => tx[r].pc = "retireCodes"
          /\ tx[r].op = "role" => tx[r].pc = "lockTarget"
      BY <1>2, <1>3 DEF CommitDeparture, CommitRole, CommitDelete, OnItsWay
    <2> QED
      BY <1>2, <2>1 DEF KeepsActor, Admins, Members
  <1>4. CASE JoinMember(r) \/ InsertMember(r)
    <2>1. tx[r].pc \in {"joinMember", "insert"}
      BY <1>4 DEF JoinMember, InsertMember
    <2> QED
      BY <1>2, <2>1 DEF KeepsInvite, OnItsWay
  <1>5. CASE CreateInvite(r) \/ RevokeInvite(r)
    BY <1>5 DEF CreateInvite, RevokeInvite
  <1> QED
    BY <1>1, <1>3, <1>4, <1>5

\* Whatever happened since the route let a request pass, a removal, a change of
\* role and a deletion take effect only while the caller is an admin, and a join
\* only while the group is active and the code is live.
THEOREM ChangesAreAuthorized == Spec => AuthorizedChange
  <1>1. IInv /\ [Next]_vars =>
          [\A r \in Requests :
              Commits(r) =>
                  /\ tx[r].op \in {"remove", "role", "delete"} => tx[r].actor \in Admins
                  /\ tx[r].op = "join" => active /\ code[tx[r].code] = "live"]_vars
    <2> SUFFICES ASSUME IInv, NEW r \in Requests, Ask(r) \/ Proceed(r) \/ Fails(r),
                        NEW q \in Requests, Commits(q)
                 PROVE  /\ tx[q].op \in {"remove", "role", "delete"} => tx[q].actor \in Admins
                        /\ tx[q].op = "join" => active /\ code[tx[q].code] = "live"
      BY DEF Next
    <2>1. q = r
      BY OneCommits
    <2> QED
      BY <2>1, AuthorizedStep
  <1> QED
    BY <1>1, Invariant, PTL DEF Spec, AuthorizedChange

-----------------------------------------------------------------------------
LEMMA MapsDeparture ==
    ASSUME IInv, NEW r \in Requests, CommitDeparture(r)
    PROVE  Abstract!Depart(tx[r].target)
  <1> DEFINE u == tx[r].target
  <1>1. u \in Users /\ status[u] = "in"
    BY DEF CommitDeparture, IInv, RequestTypes, Txs, Good, OnItsWay, KeepsTarget, Departing, Ops
  <1>2. status' = [status EXCEPT ![u] = "out"] /\ key' = key + 1
    BY DEF CommitDeparture
  <1> HIDE DEF u
  <1>3. \A v \in Users : status'[v] = "in" <=> v # u /\ status[v] = "in"
    BY <1>1, <1>2 DEF IInv, TableTypes
  <1>4. u \in Members /\ Members' = Members \ {u}
    BY <1>1, <1>3 DEF Members
  <1> QED
    BY <1>2, <1>4 DEF Abstract!Depart, u

LEMMA MapsJoin ==
    ASSUME IInv, NEW r \in Requests, NEW u \in Users, status[u] # "in",
           status' = [status EXCEPT ![u] = "in"], UNCHANGED key
    PROVE  Abstract!Join(u)
  <1>1. \A v \in Users : status'[v] = "in" <=> v = u \/ status[v] = "in"
    BY DEF IInv, TableTypes
  <1>2. u \notin Members /\ Members' = Members \cup {u}
    BY <1>1 DEF Members
  <1> QED
    BY <1>2 DEF Abstract!Join

LEMMA MapsStep ==
    ASSUME IInv, NEW r \in Requests, Ask(r) \/ Proceed(r) \/ Fails(r)
    PROVE  [Abstract!Next]_(Abstract!membershipVars)
  <1>1. CASE UNCHANGED <<status, key>>
    BY <1>1 DEF Members, Abstract!membershipVars
  <1>2. CASE CommitDeparture(r)
    <2>1. tx[r].target \in Users
      BY DEF IInv, RequestTypes, Txs
    <2> QED
      BY <1>2, <2>1, MapsDeparture DEF Abstract!Next
  <1>3. CASE (JoinMember(r) \/ InsertMember(r)) /\ ~UNCHANGED <<status, key>>
    <2> DEFINE u == tx[r].actor
    <2>1. /\ status[u] # "in" /\ status' = [status EXCEPT ![u] = "in"] /\ UNCHANGED key
      BY <1>3 DEF JoinMember, InsertMember, Rollback, tableVars
    <2>2. u \in Users
      BY DEF IInv, RequestTypes, Txs
    <2> HIDE DEF u
    <2> QED
      BY <2>1, <2>2, MapsJoin DEF Abstract!Next
  <1>4. CASE CommitRole(r) \/ CommitDelete(r) \/ CreateInvite(r) \/ RevokeInvite(r)
    <2>1. UNCHANGED <<status, key>>
      BY <1>4 DEF CommitRole, CommitDelete, CreateInvite, RevokeInvite, Rollback, tableVars
    <2> QED
      BY <1>1, <2>1
  <1>5. CASE UNCHANGED tableVars
    BY <1>1, <1>5 DEF tableVars
  <1> QED
    BY <1>1, <1>2, <1>3, <1>4, <1>5, Quiet

\* The transactions implement MembershipKeys: members come and go one at a time,
\* and each departure, and nothing else, comes with a new key in the same step.
THEOREM KeysRotate == Spec => ImplementsMembership
  <1>1. Init => Abstract!Init
    BY MembershipAssumption DEF Init, Members, Abstract!Init
  <1>2. IInv /\ [Next]_vars => [Abstract!Next]_(Abstract!membershipVars)
    <2> SUFFICES ASSUME IInv, [Next]_vars
                 PROVE  [Abstract!Next]_(Abstract!membershipVars)
      OBVIOUS
    <2>1. CASE UNCHANGED vars
      BY <2>1 DEF vars, tableVars, Members, Abstract!membershipVars
    <2>2. CASE Next
      BY <2>2, MapsStep DEF Next
    <2> QED
      BY <2>1, <2>2
  <1> QED
    BY <1>1, <1>2, Invariant, PTL DEF Spec, ImplementsMembership, Abstract!Spec
=============================================================================
