-------------------------- MODULE MembershipProofs --------------------------
(***************************************************************************)
(* Proofs about Membership.  Roster is inductive: the committed rows alone *)
(* are not enough, since what a commit does to them depends on the rows    *)
(* the open transactions hold (PendingRoster) and on what they have read   *)
(* (ReadsAgree).                                                           *)
(***************************************************************************)
EXTENDS Membership, TLAPS

USE RosterAssumption, NullRowAssumption

-----------------------------------------------------------------------------
(* Lemmas about the operators.                                             *)

\* A transaction that is over touches no other one.
LEMMA EndedOther ==
  ASSUME TypeOK, NEW r \in Requests, Ended(r)
  PROVE  /\ pending'[r] = None
         /\ \A q \in Requests \ {r} : pending'[q] = pending[q]
         /\ pending' \in [Requests -> Row \cup {None}]
         /\ upserting' \subseteq Requests
  BY DEF Ended, TypeOK

\* A step moves one request.
LEMMA GotoOther ==
  ASSUME TypeOK, NEW r \in Requests, NEW from, NEW to \in PC, Goto(r, from, to)
  PROVE  /\ pc[r] = from /\ pc'[r] = to
         /\ \A q \in Requests \ {r} : pc'[q] = pc[q]
         /\ pc' \in [Requests -> PC]
  BY DEF Goto, TypeOK

\* Without rivals no row of another user holds the nickname.
LEMMA NoRivals ==
  ASSUME TypeOK, NEW r \in Requests, Rivals(r, member) = {}, NEW u \in Users, u # UserOf[r],
         member[u] # None
  PROVE  member[u].nickname # NicknameOf[r]
  BY DEF Rivals, Holders

\* What is free to write clashes with no uncommitted row.
LEMMA Unblocked ==
  ASSUME TypeOK, NEW r \in Requests, ~Blocked(r), NEW q \in Requests, q # r, pending[q] # None
  PROVE  UserOf[q] # UserOf[r] /\ pending[q].nickname # NicknameOf[r]
  BY DEF Blocked

-----------------------------------------------------------------------------
(* Roster holds initially and every action keeps it.                       *)

LEMMA RosterInit == Init => Roster
<1> SUFFICES ASSUME Init PROVE Roster
  OBVIOUS
<1>1. TypeOK
  BY DEF Init, TypeOK, PC, Over, Row, Tokens
<1>2. CommittedRoster
  <2>1. [nickname |-> HostNickname, role |-> "HOST", token |-> HostToken] \in Row
    BY DEF Row, Tokens
  <2>2. /\ member[Host] = [nickname |-> HostNickname, role |-> "HOST", token |-> HostToken]
        /\ \A u \in Users \ {Host} : member[u] = None
    BY DEF Init
  <2> QED BY <2>1, <2>2 DEF CommittedRoster, Belongs
<1>3. PendingRoster
  BY DEF Init, PendingRoster
<1>4. ReadsAgree
  BY DEF Init, ReadsAgree
<1> QED BY <1>1, <1>2, <1>3, <1>4 DEF Roster

\* A transaction that writes nothing keeps the roster, if it ends, or if what it read
\* agrees with it.
LEMMA QuietStep ==
  ASSUME Roster, NEW r \in Requests, UNCHANGED <<member, answer>>,
         pc' \in [Requests -> PC], \A q \in Requests \ {r} : pc'[q] = pc[q],
         found' \in [Requests -> Row \cup {None}],
         \A q \in Requests \ {r} : found'[q] = found[q],
         pending' \in [Requests -> Row \cup {None}],
         \A q \in Requests \ {r} : pending'[q] = pending[q],
         pending'[r] = None \/ (pending'[r] = pending[r] /\ pc'[r] \in {"reread", "commit"}),
         known' \subseteq Users, upserting' \subseteq Requests, rivalled' \subseteq Requests,
         pc'[r] \in {"recheck", "reload", "update"} => Mine(r) # None,
         pc'[r] = "update" => found'[r] # None /\ found'[r].token = Mine(r).token,
         pc'[r] = "reread" => pending'[r] # None \/ Mine(r) # None,
         pc'[r] = "commit" =>
           /\ found'[r] # None
           /\ IF pending'[r] # None THEN found'[r].token = pending'[r].token
              ELSE Mine(r) # None /\ found'[r].token = Mine(r).token,
         pc'[r] # "joined"
  PROVE  Roster'
<1> USE DEF Roster
<1>1. TypeOK'
  BY DEF TypeOK
<1>2. CommittedRoster'
  BY DEF CommittedRoster, Belongs
<1>3. PendingRoster'
  BY DEF PendingRoster, Belongs, Mine, TypeOK
<1>4. ReadsAgree'
  BY DEF ReadsAgree, Mine, TypeOK
<1> QED BY <1>1, <1>2, <1>3, <1>4

\* The row r writes joins the uncommitted ones.
LEMMA WritingStep ==
  ASSUME Roster, NEW r \in Requests, NEW row \in Row,
         UNCHANGED <<known, upserting, member, rivalled, found, answer>>,
         pending' = [pending EXCEPT ![r] = row],
         pc' \in [Requests -> PC], \A q \in Requests \ {r} : pc'[q] = pc[q],
         \/ pc'[r] = "reread"
         \/ pc'[r] = "commit" /\ found[r] # None /\ found[r].token = row.token,
         Belongs(row, UserOf[r]),
         Mine(r) # None => row.token = Mine(r).token,
         \A u \in Users \ {UserOf[r]} : member[u] # None => member[u].nickname # row.nickname,
         \A q \in Requests \ {r} : pending[q] # None =>
           UserOf[q] # UserOf[r] /\ pending[q].nickname # row.nickname
  PROVE  Roster'
<1> USE DEF Roster
<1>0. /\ pending'[r] = row /\ row # None
      /\ \A q \in Requests \ {r} : pending'[q] = pending[q]
      /\ pending' \in [Requests -> Row \cup {None}]
  BY DEF TypeOK
<1>1. TypeOK'
  BY <1>0 DEF TypeOK
<1>2. CommittedRoster'
  BY DEF CommittedRoster, Belongs
<1>3. PendingRoster'
  <2>1. ASSUME NEW q \in Requests, pending'[q] # None
        PROVE  /\ pc'[q] \in {"reread", "commit"}
               /\ Belongs(pending'[q], UserOf[q])
               /\ Mine(q) # None => pending'[q].token = Mine(q).token
               /\ \A u \in Users \ {UserOf[q]} : member[u] # None =>
                    member[u].nickname # pending'[q].nickname
    <3>1. CASE q = r
      BY <3>1, <1>0
    <3>2. CASE q # r
      BY <3>2, <2>1, <1>0 DEF PendingRoster
    <3> QED BY <3>1, <3>2
  <2>2. ASSUME NEW p \in Requests, NEW q \in Requests, p # q,
               pending'[p] # None, pending'[q] # None
        PROVE  UserOf[p] # UserOf[q] /\ pending'[p].nickname # pending'[q].nickname
    <3>1. CASE p = r
      BY <3>1, <2>2, <1>0
    <3>2. CASE q = r
      BY <3>2, <2>2, <1>0
    <3>3. CASE p # r /\ q # r
      BY <3>3, <2>2, <1>0 DEF PendingRoster
    <3> QED BY <3>1, <3>2, <3>3
  <2> QED BY <2>1, <2>2 DEF PendingRoster, Belongs, Mine
<1>4. ReadsAgree'
  BY <1>0 DEF ReadsAgree, Mine, TypeOK
<1> QED BY <1>1, <1>2, <1>3, <1>4

\* A commit replaces the user's row by the one the transaction holds.
LEMMA CommitStep ==
  ASSUME Roster, NEW r \in Requests, Commit(r)
  PROVE  /\ Roster'
         /\ \A u \in Users : member[u] # None =>
              /\ member'[u] # None
              /\ member'[u].token = member[u].token /\ member'[u].role = member[u].role
<1> USE DEF Roster
<1>0. /\ pc[r] = "commit" /\ pc'[r] \in {"joined", "failed"}
      /\ \A q \in Requests \ {r} : pc'[q] = pc[q]
      /\ pc' \in [Requests -> PC]
      /\ UNCHANGED found /\ Ended(r)
      /\ known' = known \cup {UserOf[r]}
      /\ member' = IF pending[r] = None THEN member
                   ELSE [member EXCEPT ![UserOf[r]] = pending[r]]
  BY DEF Commit, Goto, TypeOK, PC, Over
<1>a. /\ pending'[r] = None
      /\ \A q \in Requests \ {r} : pending'[q] = pending[q]
      /\ pending' \in [Requests -> Row \cup {None}]
      /\ upserting' \subseteq Requests
  BY <1>0, EndedOther
<1>b. UserOf[r] \in Users /\ pending[r] \in Row \cup {None}
  BY DEF TypeOK
<1>c. /\ member' \in [Users -> Row \cup {None}]
      /\ \A u \in Users \ {UserOf[r]} : member'[u] = member[u]
      /\ IF pending[r] = None THEN member' = member ELSE member'[UserOf[r]] = pending[r]
  BY <1>0, <1>b DEF TypeOK
<1>d. found[r] # None /\ found[r] \in Row /\ found[r].token \in Tokens
  BY <1>0 DEF ReadsAgree, TypeOK, Row
<1>e. \/ pc'[r] = "joined" /\ answer' = [answer EXCEPT ![r] = found[r].token]
      \/ pc'[r] = "failed" /\ answer' = answer
  BY DEF Commit, Goto, TypeOK
<1>f. rivalled' \subseteq Requests
  BY DEF Commit, TypeOK
<1>g. \A u \in Users : member[u] # None =>
              /\ member'[u] # None
              /\ member'[u].token = member[u].token /\ member'[u].role = member[u].role
  <2> SUFFICES ASSUME NEW u \in Users, member[u] # None, u = UserOf[r], pending[r] # None
               PROVE  /\ member'[u] # None
                      /\ member'[u].token = member[u].token /\ member'[u].role = member[u].role
    BY <1>c
  <2>1. member'[u] = pending[r] /\ pending[r] \in Row /\ member[u] \in Row
    BY <1>c, <1>b DEF TypeOK
  <2>2. pending[r].token = member[u].token
    BY DEF PendingRoster, Mine
  <2>3. pending[r].role = member[u].role
    <3>1. (pending[r].role = "HOST" <=> u = Host) /\ (member[u].role = "HOST" <=> u = Host)
      BY DEF PendingRoster, CommittedRoster, Belongs
    <3>2. pending[r].role \in {"HOST", "MEMBER"} /\ member[u].role \in {"HOST", "MEMBER"}
      BY <2>1 DEF Row
    <3> QED BY <3>1, <3>2
  <2> QED BY <2>1, <2>2, <2>3
<1>1. TypeOK'
  BY <1>0, <1>a, <1>b, <1>c, <1>d, <1>e, <1>f DEF TypeOK
<1>2. CommittedRoster'
  <2>1. member'[Host] # None
    BY <1>g DEF CommittedRoster
  <2>2. ASSUME NEW u \in Users, member'[u] # None PROVE Belongs(member'[u], u)
    <3>1. CASE u = UserOf[r] /\ pending[r] # None
      BY <3>1, <1>c DEF PendingRoster
    <3>2. CASE ~(u = UserOf[r] /\ pending[r] # None)
      BY <3>2, <2>2, <1>c DEF CommittedRoster
    <3> QED BY <3>1, <3>2
  <2>3. ASSUME NEW u \in Users, NEW v \in Users, u # v, member'[u] # None, member'[v] # None
        PROVE  member'[u].nickname # member'[v].nickname
    <3>1. CASE pending[r] = None
      BY <3>1, <2>3, <1>c DEF CommittedRoster
    <3>2. CASE pending[r] # None /\ u = UserOf[r]
      BY <3>2, <2>3, <1>c DEF PendingRoster
    <3>3. CASE pending[r] # None /\ v = UserOf[r]
      BY <3>3, <2>3, <1>c DEF PendingRoster
    <3>4. CASE u # UserOf[r] /\ v # UserOf[r]
      BY <3>4, <2>3, <1>c DEF CommittedRoster
    <3> QED BY <3>1, <3>2, <3>3, <3>4
  <2> QED BY <2>1, <2>2, <2>3 DEF CommittedRoster, Belongs
<1>3. PendingRoster'
  <2>1. ASSUME NEW q \in Requests, pending'[q] # None
        PROVE  /\ pc'[q] \in {"reread", "commit"}
               /\ Belongs(pending'[q], UserOf[q])
               /\ member'[UserOf[q]] # None => pending'[q].token = member'[UserOf[q]].token
               /\ \A u \in Users \ {UserOf[q]} : member'[u] # None =>
                    member'[u].nickname # pending'[q].nickname
    <3>0. q # r /\ pending'[q] = pending[q] /\ pc'[q] = pc[q] /\ UserOf[q] \in Users
      BY <2>1, <1>a, <1>0
    <3>1. CASE pending[r] = None
      BY <3>1, <3>0, <2>1, <1>c DEF PendingRoster, Mine
    <3>2. CASE pending[r] # None
      <4>1. UserOf[q] # UserOf[r] /\ pending[q].nickname # pending[r].nickname
        BY <3>2, <3>0, <2>1 DEF PendingRoster
      <4> QED BY <4>1, <3>2, <3>0, <2>1, <1>c DEF PendingRoster, Mine
    <3> QED BY <3>1, <3>2
  <2>2. ASSUME NEW p \in Requests, NEW q \in Requests, p # q,
               pending'[p] # None, pending'[q] # None
        PROVE  UserOf[p] # UserOf[q] /\ pending'[p].nickname # pending'[q].nickname
    BY <2>2, <1>a DEF PendingRoster
  <2> QED BY <2>1, <2>2 DEF PendingRoster, Belongs, Mine
<1>4. ReadsAgree'
  <2> SUFFICES ASSUME NEW q \in Requests
      PROVE  /\ pc'[q] \in {"recheck", "reload", "update"} => member'[UserOf[q]] # None
             /\ pc'[q] = "update" => found'[q] # None /\ found'[q].token = member'[UserOf[q]].token
             /\ pc'[q] = "reread" => pending'[q] # None \/ member'[UserOf[q]] # None
             /\ pc'[q] = "commit" =>
                  /\ found'[q] # None
                  /\ IF pending'[q] # None THEN found'[q].token = pending'[q].token
                     ELSE /\ member'[UserOf[q]] # None
                          /\ found'[q].token = member'[UserOf[q]].token
             /\ pc'[q] = "joined" =>
                  member'[UserOf[q]] # None /\ member'[UserOf[q]].token = answer'[q]
    BY DEF ReadsAgree, Mine
  <2>0. UserOf[q] \in Users
    OBVIOUS
  <2>1. CASE q # r
    <3>1. /\ pc'[q] = pc[q] /\ found'[q] = found[q] /\ pending'[q] = pending[q]
          /\ answer'[q] = answer[q]
      BY <2>1, <1>0, <1>a, <1>e DEF TypeOK
    <3>2. member[UserOf[q]] # None =>
            member'[UserOf[q]] # None /\ member'[UserOf[q]].token = member[UserOf[q]].token
      BY <1>g, <2>0
    <3> QED BY <3>1, <3>2 DEF ReadsAgree, Mine
  <2>2. CASE q = r /\ pc'[r] = "failed"
    BY <2>2
  <2>3. CASE q = r /\ pc'[r] = "joined"
    <3>1. answer'[r] = found[r].token
      BY <2>3, <1>e DEF TypeOK
    <3>2. CASE pending[r] = None
      BY <3>1, <3>2, <2>3, <1>0, <1>c DEF ReadsAgree, Mine
    <3>3. CASE pending[r] # None
      BY <3>1, <3>3, <2>3, <1>0, <1>c DEF ReadsAgree, Mine
    <3> QED BY <2>3, <3>2, <3>3
  <2> QED BY <2>1, <2>2, <2>3, <1>0
<1> QED BY <1>1, <1>2, <1>3, <1>4, <1>g

\* Every step keeps the roster and every participant's token and role.
LEMMA RosterStep ==
  ASSUME Roster, [Next]_vars
  PROVE  /\ Roster'
         /\ \A u \in Users : member[u] # None =>
              /\ member'[u] # None
              /\ member'[u].token = member[u].token /\ member'[u].role = member[u].role
<1>t. TypeOK
  BY DEF Roster
<1>m. ASSUME Roster', member' = member
      PROVE  /\ Roster'
             /\ \A u \in Users : member[u] # None =>
                  /\ member'[u] # None
                  /\ member'[u].token = member[u].token /\ member'[u].role = member[u].role
  BY <1>m
<1>1. CASE UNCHANGED vars
  <2>1. Roster'
    BY <1>1 DEF vars, Roster, TypeOK, CommittedRoster, PendingRoster, ReadsAgree, Mine, Belongs
  <2> QED BY <2>1, <1>1, <1>m DEF vars
<1>2. CASE Next
  <2> PICK r \in Requests : UpsertUser(r) \/ Join(r) \/ Abort(r)
    BY <1>2 DEF Next
  <2>u. UserOf[r] \in Users /\ Mine(r) \in Row \cup {None}
    BY <1>t DEF TypeOK, Mine
  <2>1. CASE UpsertUser(r)
    <3>1. /\ pc[r] = "new" /\ pc'[r] = "find"
          /\ \A q \in Requests \ {r} : pc'[q] = pc[q]
          /\ pc' \in [Requests -> PC]
      BY <2>1, <1>t, GotoOther DEF UpsertUser, PC
    <3>2. pending[r] = None
      BY <3>1 DEF Roster, PendingRoster
    <3>3. UNCHANGED <<known, member, pending, found, answer>>
      BY <2>1 DEF UpsertUser
    <3>4. upserting' \subseteq Requests /\ rivalled' \subseteq Requests
      BY <2>1, <1>t DEF UpsertUser, TypeOK
    <3>5. Roster'
      BY <3>1, <3>2, <3>3, <3>4, <1>t, QuietStep DEF TypeOK
    <3> QED BY <3>3, <3>5, <1>m
  <2>2. CASE FindParticipant(r)
    <3>1. /\ pc[r] = "find"
          /\ pc'[r] = IF Mine(r) = None THEN "check"
                      ELSE IF Mine(r).nickname = NicknameOf[r] THEN "reload" ELSE "recheck"
          /\ \A q \in Requests \ {r} : pc'[q] = pc[q]
          /\ pc' \in [Requests -> PC]
      BY <2>2, <1>t DEF FindParticipant, Goto, TypeOK, PC
    <3>2. pending[r] = None
      BY <3>1 DEF Roster, PendingRoster
    <3>3. UNCHANGED <<rowVars, answer>> /\ found' = [found EXCEPT ![r] = Mine(r)]
      BY <2>2 DEF FindParticipant
    <3>4. Roster'
      BY <3>1, <3>2, <3>3, <2>u, <1>t, QuietStep DEF TypeOK, rowVars
    <3> QED BY <3>3, <3>4, <1>m DEF rowVars
  <2>3. CASE CheckNickname(r)
    <3>1. /\ \/ pc[r] = "check" /\ pc'[r] = "insert"
             \/ pc[r] = "recheck" /\ pc'[r] = "reload"
          /\ \A q \in Requests \ {r} : pc'[q] = pc[q]
          /\ pc' \in [Requests -> PC]
      BY <2>3, <1>t DEF CheckNickname, Goto, TypeOK, PC
    <3>2. pending[r] = None
      BY <3>1 DEF Roster, PendingRoster
    <3>3. UNCHANGED <<rowVars, found, answer>>
      BY <2>3 DEF CheckNickname
    <3>4. pc[r] = "recheck" => Mine(r) # None
      BY DEF Roster, ReadsAgree
    <3>5. Roster'
      BY <3>1, <3>2, <3>3, <3>4, <1>t, QuietStep DEF TypeOK, rowVars
    <3> QED BY <3>3, <3>5, <1>m DEF rowVars
  <2>4. CASE RefuseNickname(r) \/ InsertConflicts(r) \/ UpdateConflicts(r) \/ Abort(r)
    <3>1. /\ pc'[r] \in {"refused", "failed"}
          /\ \A q \in Requests \ {r} : pc'[q] = pc[q]
          /\ pc' \in [Requests -> PC]
      BY <2>4, <1>t
      DEF RefuseNickname, InsertConflicts, UpdateConflicts, Abort, Goto, TypeOK, PC, Over
    <3>2. Ended(r) /\ UNCHANGED <<known, member, found, answer, rivalled>>
      BY <2>4 DEF RefuseNickname, InsertConflicts, UpdateConflicts, Abort
    <3>3. Roster'
      BY <3>1, <3>2, <1>t, EndedOther, QuietStep DEF TypeOK
    <3> QED BY <3>2, <3>3, <1>m
  <2>5. CASE InsertParticipant(r)
    <3>1. /\ pc[r] = "insert" /\ pc'[r] = "reread"
          /\ \A q \in Requests \ {r} : pc'[q] = pc[q]
          /\ pc' \in [Requests -> PC]
      BY <2>5, <1>t, GotoOther DEF InsertParticipant, PC
    <3>2. UNCHANGED <<known, upserting, member, rivalled, found, answer>> /\ ~Blocked(r)
      BY <2>5 DEF InsertParticipant
    <3>3. pending[r] = None
      BY <3>1 DEF Roster, PendingRoster
    <3>4. CASE Mine(r) # None
      <4>1. pending' = pending
        BY <2>5, <3>4 DEF InsertParticipant
      <4>2. Roster'
        BY <3>1, <3>2, <3>3, <3>4, <4>1, <1>t, QuietStep DEF TypeOK
      <4> QED BY <3>2, <4>2, <1>m
    <3>5. CASE Mine(r) = None
      <4> DEFINE row == [nickname |-> NicknameOf[r], role |-> "MEMBER", token |-> r]
      <4>1. pending' = [pending EXCEPT ![r] = row] /\ Rivals(r, member) = {}
        BY <2>5, <3>5 DEF InsertParticipant
      <4>2. row \in Row
        BY DEF Row, Tokens
      <4>3. UserOf[r] # Host
        BY <3>5 DEF Roster, CommittedRoster, Mine
      <4>4. Belongs(row, UserOf[r])
        BY <4>3 DEF Belongs
      <4>5. \A u \in Users \ {UserOf[r]} : member[u] # None => member[u].nickname # row.nickname
        BY <4>1, <1>t, NoRivals
      <4>6. \A q \in Requests \ {r} : pending[q] # None =>
              UserOf[q] # UserOf[r] /\ pending[q].nickname # row.nickname
        BY <3>2, <1>t, Unblocked
      <4> HIDE DEF row
      <4>7. Roster'
        BY <3>1, <3>2, <3>5, <4>1, <4>2, <4>4, <4>5, <4>6, WritingStep
      <4> QED BY <3>2, <4>7, <1>m
    <3> QED BY <3>4, <3>5
  <2>6. CASE Reread(r)
    <3>1. /\ pc[r] = "reread" /\ pc'[r] = "commit"
          /\ \A q \in Requests \ {r} : pc'[q] = pc[q]
          /\ pc' \in [Requests -> PC]
      BY <2>6, <1>t, GotoOther DEF Reread, PC
    <3>2. /\ UNCHANGED <<rowVars, answer>>
          /\ found' = [found EXCEPT ![r] = IF pending[r] # None THEN pending[r] ELSE Mine(r)]
      BY <2>6 DEF Reread
    <3>3. pending[r] # None \/ Mine(r) # None
      BY <3>1 DEF Roster, ReadsAgree
    <3>4. Roster'
      BY <3>1, <3>2, <3>3, <2>u, <1>t, QuietStep DEF TypeOK, rowVars
    <3> QED BY <3>2, <3>4, <1>m DEF rowVars
  <2>7. CASE Reload(r)
    <3>1. /\ pc[r] = "reload" /\ pc'[r] = "update"
          /\ \A q \in Requests \ {r} : pc'[q] = pc[q]
          /\ pc' \in [Requests -> PC]
      BY <2>7, <1>t, GotoOther DEF Reload, PC
    <3>2. UNCHANGED <<rowVars, answer>> /\ found' = [found EXCEPT ![r] = Mine(r)]
      BY <2>7 DEF Reload
    <3>3. pending[r] = None /\ Mine(r) # None
      BY <3>1 DEF Roster, PendingRoster, ReadsAgree
    <3>4. Roster'
      BY <3>1, <3>2, <3>3, <2>u, <1>t, QuietStep DEF TypeOK, rowVars
    <3> QED BY <3>2, <3>4, <1>m DEF rowVars
  <2>8. CASE UpdateParticipant(r)
    <3>1. /\ pc[r] = "update" /\ pc'[r] = "commit"
          /\ \A q \in Requests \ {r} : pc'[q] = pc[q]
          /\ pc' \in [Requests -> PC]
      BY <2>8, <1>t, GotoOther DEF UpdateParticipant, PC
    <3> DEFINE row == IF Renamed(r) THEN [Mine(r) EXCEPT !.nickname = NicknameOf[r]]
                      ELSE Mine(r)
    <3>2. /\ UNCHANGED <<known, upserting, member, rivalled, found, answer>> /\ ~Blocked(r)
          /\ pending' = [pending EXCEPT ![r] = row]
          /\ Renamed(r) => Rivals(r, member) = {}
      BY <2>8 DEF UpdateParticipant
    <3>3. Mine(r) \in Row /\ Mine(r) # None /\ found[r] # None /\ found[r].token = Mine(r).token
      BY <3>1, <2>u DEF Roster, ReadsAgree
    <3>4. /\ row \in Row /\ row.role = Mine(r).role /\ row.token = Mine(r).token
          /\ row.nickname = IF Renamed(r) THEN NicknameOf[r] ELSE Mine(r).nickname
      BY <3>3 DEF Row
    <3>5. Belongs(row, UserOf[r])
      BY <3>3, <3>4, <2>u DEF Roster, CommittedRoster, Belongs, Mine
    <3> HIDE DEF row
    <3>6. \A u \in Users \ {UserOf[r]} : member[u] # None => member[u].nickname # row.nickname
      <4>1. CASE Renamed(r)
        BY <4>1, <3>2, <3>4, <1>t, NoRivals
      <4>2. CASE ~Renamed(r)
        BY <4>2, <3>3, <3>4, <2>u DEF Roster, CommittedRoster, Mine
      <4> QED BY <4>1, <4>2
    <3>7. \A q \in Requests \ {r} : pending[q] # None =>
            UserOf[q] # UserOf[r] /\ pending[q].nickname # row.nickname
      <4> SUFFICES ASSUME NEW q \in Requests \ {r}, pending[q] # None
                   PROVE  UserOf[q] # UserOf[r] /\ pending[q].nickname # row.nickname
        OBVIOUS
      <4>1. UserOf[q] # UserOf[r] /\ pending[q].nickname # NicknameOf[r]
        BY <3>2, <1>t, Unblocked
      <4>2. Mine(r).nickname # pending[q].nickname
        BY <4>1, <3>3, <2>u DEF Roster, PendingRoster, Mine
      <4> QED BY <4>1, <4>2, <3>4
    <3>8. Roster'
      BY <3>1, <3>2, <3>3, <3>4, <3>5, <3>6, <3>7, WritingStep
    <3> QED BY <3>2, <3>8, <1>m
  <2>9. CASE Commit(r)
    BY <2>9, CommitStep
  <2> QED BY <2>1, <2>2, <2>3, <2>4, <2>5, <2>6, <2>7, <2>8, <2>9 DEF Join
<1> QED BY <1>1, <1>2

-----------------------------------------------------------------------------
(* The theorems.                                                           *)

\* The roster and the open transactions are consistent: the creator is the only host,
\* nicknames are unique, and every token belongs to the user it lets in.
THEOREM RosterConsistent == Spec => []Roster
<1>1. Init => Roster
  BY RosterInit
<1>2. Roster /\ [Next]_vars => Roster'
  BY RosterStep
<1> QED BY <1>1, <1>2, PTL DEF Spec

\* The token a join is answered with is the token of its user's row from then on.
THEOREM AnswersStayValid == Spec => []AnswerValid
<1>1. Roster => AnswerValid
  BY DEF Roster, ReadsAgree, AnswerValid
<1> QED BY <1>1, RosterConsistent, PTL

\* No join takes away or changes the place, role or token of a participant.
THEOREM TokensStable == Spec => TokenStable
<1>1. Roster /\ [Next]_vars =>
        [\A u \in Users : member[u] # None =>
           /\ member'[u] # None
           /\ member'[u].token = member[u].token /\ member'[u].role = member[u].role]_vars
  BY RosterStep
<1> QED BY <1>1, RosterConsistent, PTL DEF Spec, TokenStable

-----------------------------------------------------------------------------
(* Refusals.                                                               *)

\* Whoever finds the nickname taken has been watched to meet a rival: for a user that
\* had no row, also the row of another join of the same user.
Watched ==
  \A r \in Requests :
    /\ pc[r] # "new" /\ Rivals(r, member) # {} => r \in rivalled
    /\ pc[r] = "check" /\ Holders(r, member) # {} => r \in rivalled
    /\ pc[r] = "refused" => r \in rivalled

LEMMA WatchedStep ==
  ASSUME Roster, Watched, [Next]_vars
  PROVE  Watched'
<1>t. TypeOK
  BY DEF Roster
<1>0. \A r \in Requests : Rivals(r, member) \subseteq Holders(r, member)
  BY DEF Rivals
<1>1. CASE UNCHANGED vars
  BY <1>1 DEF vars, Watched, Rivals, Holders
<1>2. CASE Next
  <2> PICK r \in Requests : UpsertUser(r) \/ Join(r) \/ Abort(r)
    BY <1>2 DEF Next
  <2>1. CASE UpsertUser(r)
    <3>1. /\ member' = member /\ pc'[r] = "find"
          /\ \A q \in Requests \ {r} : pc'[q] = pc[q]
          /\ rivalled' = IF Rivals(r, member) = {} THEN rivalled ELSE rivalled \cup {r}
      BY <2>1, <1>t DEF UpsertUser, Goto, TypeOK
    <3> QED BY <3>1 DEF Watched, Rivals, Holders
  <2>2. CASE FindParticipant(r)
    <3>1. /\ member' = member /\ rivalled' = rivalled /\ pc[r] = "find"
          /\ pc'[r] \in {"check", "reload", "recheck"}
          /\ pc'[r] = "check" => Mine(r) = None
          /\ \A q \in Requests \ {r} : pc'[q] = pc[q]
      BY <2>2, <1>t DEF FindParticipant, Goto, TypeOK, rowVars
    <3>2. Mine(r) = None => Holders(r, member) = Rivals(r, member)
      BY DEF Rivals, Holders, Mine
    <3> QED BY <3>1, <3>2 DEF Watched, Rivals, Holders
  <2>3. CASE CheckNickname(r) \/ InsertParticipant(r) \/ Reread(r) \/ Reload(r)
             \/ UpdateParticipant(r)
    <3>1. /\ member' = member /\ rivalled' = rivalled /\ pc[r] # "new"
          /\ pc'[r] \in {"insert", "reload", "reread", "commit", "update"}
          /\ \A q \in Requests \ {r} : pc'[q] = pc[q]
      BY <2>3, <1>t DEF CheckNickname, InsertParticipant, Reread, Reload, UpdateParticipant,
                        Goto, TypeOK, rowVars
    <3> QED BY <3>1 DEF Watched, Rivals, Holders
  <2>4. CASE RefuseNickname(r) \/ InsertConflicts(r) \/ UpdateConflicts(r)
    <3>1. /\ member' = member /\ rivalled' = rivalled /\ pc'[r] = "refused"
          /\ \A q \in Requests \ {r} : pc'[q] = pc[q]
      BY <2>4, <1>t DEF RefuseNickname, InsertConflicts, UpdateConflicts, Goto, TypeOK
    <3>2. /\ pc[r] # "new"
          /\ Rivals(r, member) # {} \/ (pc[r] = "check" /\ Holders(r, member) # {})
      BY <2>4 DEF RefuseNickname, InsertConflicts, UpdateConflicts, Goto
    <3> QED BY <3>1, <3>2 DEF Watched, Rivals, Holders
  <2>5. CASE Abort(r)
    <3>1. /\ member' = member /\ rivalled' = rivalled /\ pc[r] # "new" /\ pc'[r] = "failed"
          /\ \A q \in Requests \ {r} : pc'[q] = pc[q]
      BY <2>5, <1>t DEF Abort, TypeOK
    <3> QED BY <3>1 DEF Watched, Rivals, Holders
  <2>6. CASE Commit(r)
    <3>1. /\ pc[r] = "commit" /\ pc'[r] \in {"joined", "failed"}
          /\ \A q \in Requests \ {r} : pc'[q] = pc[q]
          /\ member' = IF pending[r] = None THEN member
                       ELSE [member EXCEPT ![UserOf[r]] = pending[r]]
          /\ rivalled' = rivalled \cup {q \in Requests \ {r} : pc[q] # "new" /\
               (Rivals(q, member') # {}
                \/ (pending[r] # None /\ pending[r].nickname = NicknameOf[q]))}
      BY <2>6, <1>t DEF Commit, Goto, TypeOK
    <3>2. UserOf[r] \in Users /\ member \in [Users -> Row \cup {None}]
      BY <1>t DEF TypeOK
    <3>3. \A u \in Users : member'[u] = member[u] \/
            (u = UserOf[r] /\ pending[r] # None /\ member'[u] = pending[r])
      BY <3>1, <3>2
    <3>4. Rivals(r, member') \subseteq Rivals(r, member)
      BY <3>3 DEF Rivals, Holders
    <3>5. ASSUME NEW q \in Requests \ {r}, pc[q] # "new"
          PROVE  /\ Rivals(q, member') # {} => q \in rivalled'
                 /\ pc[q] = "check" /\ Holders(q, member') # {} => q \in rivalled'
      <4>1. Rivals(q, member') # {} => q \in rivalled'
        BY <3>1, <3>5
      <4>2. ASSUME pc[q] = "check", Holders(q, member') # {} PROVE q \in rivalled'
        <5>1. PICK u \in Users : member'[u] # None /\ member'[u].nickname = NicknameOf[q]
          BY <4>2 DEF Holders
        <5>2. CASE member'[u] = member[u]
          BY <5>1, <5>2, <4>2, <3>1 DEF Holders, Watched
        <5>3. CASE pending[r] # None /\ member'[u] = pending[r]
          BY <5>1, <5>3, <3>5, <3>1
        <5> QED BY <5>2, <5>3, <3>3
      <4> QED BY <4>1, <4>2
    <3>6. rivalled \subseteq rivalled'
      BY <3>1
    <3>7. SUFFICES ASSUME NEW q \in Requests
                   PROVE  /\ pc'[q] # "new" /\ Rivals(q, member') # {} => q \in rivalled'
                          /\ pc'[q] = "check" /\ Holders(q, member') # {} => q \in rivalled'
                          /\ pc'[q] = "refused" => q \in rivalled'
      BY DEF Watched, Rivals, Holders
    <3>8. CASE q = r
      BY <3>8, <3>1, <3>4, <3>6 DEF Watched
    <3>9. CASE q # r
      BY <3>9, <3>1, <3>5, <3>6 DEF Watched
    <3> QED BY <3>8, <3>9
  <2> QED BY <2>1, <2>2, <2>3, <2>4, <2>5, <2>6 DEF Join
<1> QED BY <1>1, <1>2

\* A join is refused only if another user, or another join of the same user, held the
\* nickname while it ran.
THEOREM RefusalsJustified == Spec => []RefusalJustified
<1>1. Init => Watched
  BY DEF Init, Watched
<1>2. Roster /\ Watched /\ [Next]_vars => Watched'
  BY WatchedStep
<1>3. Watched => RefusalJustified
  BY DEF Watched, RefusalJustified
<1> QED BY <1>1, <1>2, <1>3, RosterConsistent, PTL DEF Spec
=============================================================================
