----------------------------- MODULE Membership -----------------------------
(***************************************************************************)
(* The roster of one meeting under concurrent joinMeeting transactions     *)
(* (MeetingService.joinMeeting, findOrCreateUser).                         *)
(*                                                                         *)
(* One action is one statement of a READ COMMITTED transaction.  A read    *)
(* sees committed rows only; a write that could collide with an            *)
(* uncommitted row under one of the unique indexes (user.user_key,         *)
(* (meeting, user), (meeting, nickname)) waits until that row's            *)
(* transaction is over.                                                    *)
(***************************************************************************)
EXTENDS Naturals, FiniteSets

CONSTANTS
  Requests,       \* joinMeeting calls; each draws one access token, named after it
  Users,          \* user keys
  Nicknames,
  UserOf,         \* [Requests -> Users]
  NicknameOf,     \* [Requests -> Nicknames]
  Host,           \* the user who created the meeting
  HostNickname,
  HostToken,      \* the access token drawn by createMeeting
  None            \* no row, no token

ASSUME RosterAssumption ==
  /\ UserOf \in [Requests -> Users]
  /\ NicknameOf \in [Requests -> Nicknames]
  /\ Host \in Users /\ HostNickname \in Nicknames
  /\ HostToken \notin Requests /\ None \notin Requests /\ None # HostToken

Tokens == Requests \cup {HostToken}

\* A meeting_participant row; the user is the index it is kept under.
Row == [nickname : Nicknames, role : {"HOST", "MEMBER"}, token : Tokens]

ASSUME NullRowAssumption == None \notin Row

VARIABLES
  known,          \* the users with a committed row
  upserting,      \* the transactions that hold an uncommitted user row
  member,         \* the committed meeting_participant rows, by user
  pending,        \* the uncommitted participant row of each transaction
  pc,             \* where each request is
  found,          \* the participant row each request has read
  answer,         \* the access token each request was answered with
  rivalled        \* history: a row of another user or transaction held the nickname meanwhile

vars == <<known, upserting, member, pending, pc, found, answer, rivalled>>
rowVars == <<known, upserting, member, pending, rivalled>>

Over == {"joined", "refused", "failed"}
PC == {"new", "find", "check", "insert", "reread", "recheck", "reload", "update", "commit"}
      \cup Over

Init ==
  /\ \E users \in SUBSET (Users \ {Host}) : known = users \cup {Host}
  /\ upserting = {}
  /\ member = [u \in Users |-> IF u = Host
       THEN [nickname |-> HostNickname, role |-> "HOST", token |-> HostToken] ELSE None]
  /\ pending = [r \in Requests |-> None]
  /\ pc = [r \in Requests |-> "new"]
  /\ found = [r \in Requests |-> None]
  /\ answer = [r \in Requests |-> None]
  /\ rivalled = {}

Goto(r, from, to) == pc[r] = from /\ pc' = [pc EXCEPT ![r] = to]

Mine(r) == member[UserOf[r]]

\* The users, and the other users, whose row in rows holds the nickname of r.
Holders(r, rows) == {u \in Users : rows[u] # None /\ rows[u].nickname = NicknameOf[r]}
Rivals(r, rows) == Holders(r, rows) \ {UserOf[r]}

\* Faulty: the transaction is left open.
LeftOpen(r) == UNCHANGED <<upserting, pending>>

\* The transaction of r is over and its locks are released.
Ended(r) ==
  /\ upserting' = upserting \ {r}
  /\ pending' = [pending EXCEPT ![r] = None]

-----------------------------------------------------------------------------
(* findOrCreateUser                                                        *)

\* INSERT .. ON CONFLICT (user_key) DO NOTHING, which waits for an uncommitted
\* row of the same key, then the row is read: it exists.
UpsertUser(r) ==
  /\ Goto(r, "new", "find")
  /\ \A q \in upserting : UserOf[q] # UserOf[r]
  /\ upserting' = IF UserOf[r] \in known THEN upserting ELSE upserting \cup {r}
  /\ rivalled' = IF Rivals(r, member) = {} THEN rivalled ELSE rivalled \cup {r}
  /\ UNCHANGED <<known, member, pending, found, answer>>

-----------------------------------------------------------------------------
(* joinMeeting                                                             *)

FindParticipant(r) ==
  /\ found' = [found EXCEPT ![r] = Mine(r)]
  /\ IF Mine(r) = None THEN Goto(r, "find", "check")
     ELSE IF Mine(r).nickname = NicknameOf[r] THEN Goto(r, "find", "reload")
     ELSE Goto(r, "find", "recheck")
  /\ UNCHANGED <<rowVars, answer>>

\* The nickname is looked for among the committed rows: any holder counts for a user
\* that had no row, only another one for a user that changes its nickname.
CheckNickname(r) ==
  /\ \/ Goto(r, "check", "insert") /\ Holders(r, member) = {}
     \/ Goto(r, "recheck", "reload") /\ Rivals(r, member) = {}
  /\ UNCHANGED <<rowVars, found, answer>>

RefuseNickname(r) ==
  /\ \/ Goto(r, "check", "refused") /\ Holders(r, member) # {}
     \/ Goto(r, "recheck", "refused") /\ Rivals(r, member) # {}
  /\ Ended(r)
  /\ UNCHANGED <<known, member, found, answer, rivalled>>

\* Faulty: no unique index on (meeting, nickname).
BlockedByUser(r) ==
  \E q \in Requests \ {r} : pending[q] # None /\ UserOf[q] = UserOf[r]

\* An uncommitted row that shares a unique key with the row r writes.
Blocked(r) ==
  \E q \in Requests \ {r} :
    /\ pending[q] # None
    /\ \/ UserOf[q] = UserOf[r]
       \/ pending[q].nickname = NicknameOf[r]
       \/ Mine(q) # None /\ Mine(q).nickname = NicknameOf[r]

\* Faulty: ON CONFLICT (meeting, user) DO UPDATE, with the new token.
InsertOrReplaceRow(r) ==
  /\ Goto(r, "insert", "reread")
  /\ ~Blocked(r)
  /\ Rivals(r, member) = {}
  /\ pending' =
       [pending EXCEPT ![r] = [nickname |-> NicknameOf[r], role |-> "MEMBER", token |-> r]]
  /\ UNCHANGED <<known, upserting, member, rivalled, found, answer>>

\* ON CONFLICT (meeting, user) DO NOTHING; a nickname conflict is an error.
InsertParticipant(r) ==
  /\ Goto(r, "insert", "reread")
  /\ ~Blocked(r)
  /\ Mine(r) # None \/ Rivals(r, member) = {}
  /\ pending' = IF Mine(r) # None THEN pending ELSE
       [pending EXCEPT ![r] = [nickname |-> NicknameOf[r], role |-> "MEMBER", token |-> r]]
  /\ UNCHANGED <<known, upserting, member, rivalled, found, answer>>

\* Faulty: without the ON CONFLICT clause.
InsertConflictsWithSelf(r) ==
  /\ Goto(r, "insert", "refused")
  /\ ~Blocked(r)
  /\ Mine(r) # None \/ Rivals(r, member) # {}
  /\ Ended(r)
  /\ UNCHANGED <<known, member, found, answer, rivalled>>

InsertConflicts(r) ==
  /\ Goto(r, "insert", "refused")
  /\ ~Blocked(r)
  /\ Mine(r) = None /\ Rivals(r, member) # {}
  /\ Ended(r)
  /\ UNCHANGED <<known, member, found, answer, rivalled>>

\* Faulty: the generated token is kept, whatever row the insert met.
RereadGenerated(r) ==
  /\ Goto(r, "reread", "commit")
  /\ found' = [found EXCEPT ![r] =
       [nickname |-> NicknameOf[r], role |-> "MEMBER", token |-> r]]
  /\ UNCHANGED <<rowVars, answer>>

\* The row of this transaction, or the one that made the insert do nothing.
Reread(r) ==
  /\ Goto(r, "reread", "commit")
  /\ found' = [found EXCEPT ![r] = IF pending[r] # None THEN pending[r] ELSE Mine(r)]
  /\ UNCHANGED <<rowVars, answer>>

\* save reads the row once more, and writes the columns that differ from it; the
\* token does not, TokenStable.
Reload(r) ==
  /\ Goto(r, "reload", "update")
  /\ found' = [found EXCEPT ![r] = Mine(r)]
  /\ UNCHANGED <<rowVars, answer>>

Renamed(r) == found[r].nickname # NicknameOf[r]

UpdateParticipant(r) ==
  /\ Goto(r, "update", "commit")
  /\ ~Blocked(r)
  /\ Renamed(r) => Rivals(r, member) = {}
  /\ pending' = [pending EXCEPT ![r] =
       IF Renamed(r) THEN [Mine(r) EXCEPT !.nickname = NicknameOf[r]] ELSE Mine(r)]
  /\ UNCHANGED <<known, upserting, member, rivalled, found, answer>>

UpdateConflicts(r) ==
  /\ Goto(r, "update", "refused")
  /\ ~Blocked(r)
  /\ Renamed(r) /\ Rivals(r, member) # {}
  /\ Ended(r)
  /\ UNCHANGED <<known, member, found, answer, rivalled>>

\* The transaction commits; its reply may be lost on the way to the client.
Commit(r) ==
  /\ \/ Goto(r, "commit", "joined") /\ answer' = [answer EXCEPT ![r] = found[r].token]
     \/ Goto(r, "commit", "failed") /\ UNCHANGED answer
  /\ known' = known \cup {UserOf[r]}
  /\ member' = IF pending[r] = None THEN member
               ELSE [member EXCEPT ![UserOf[r]] = pending[r]]
  /\ rivalled' = rivalled \cup {q \in Requests \ {r} : pc[q] # "new" /\
       (Rivals(q, member') # {} \/ (pending[r] # None /\ pending[r].nickname = NicknameOf[q]))}
  /\ Ended(r)
  /\ UNCHANGED found

\* The connection or the process is lost before the commit.
Abort(r) ==
  /\ pc[r] \notin Over \cup {"new"}
  /\ pc' = [pc EXCEPT ![r] = "failed"]
  /\ Ended(r)
  /\ UNCHANGED <<known, member, found, answer, rivalled>>

-----------------------------------------------------------------------------
Join(r) ==
  \/ FindParticipant(r) \/ CheckNickname(r) \/ RefuseNickname(r)
  \/ InsertParticipant(r) \/ InsertConflicts(r) \/ Reread(r)
  \/ Reload(r) \/ UpdateParticipant(r) \/ UpdateConflicts(r) \/ Commit(r)

Next == \E r \in Requests : UpsertUser(r) \/ Join(r) \/ Abort(r)

Spec == Init /\ [][Next]_vars

\* A transaction that has begun goes on when no other one blocks it.
FairSpec == Spec /\ \A r \in Requests : WF_vars(Join(r)) /\ WF_vars(UpsertUser(r))

-----------------------------------------------------------------------------
(* Properties.                                                             *)

\* Type correctness of the tables and of the transactions' memory.
TypeOK ==
  /\ known \subseteq Users /\ upserting \subseteq Requests /\ rivalled \subseteq Requests
  /\ member \in [Users -> Row \cup {None}]
  /\ pending \in [Requests -> Row \cup {None}]
  /\ found \in [Requests -> Row \cup {None}]
  /\ pc \in [Requests -> PC]
  /\ answer \in [Requests -> Tokens \cup {None}]

\* The role and the token a row of user u may have.
Belongs(row, u) ==
  /\ row.role = "HOST" <=> u = Host
  /\ IF row.token = HostToken THEN u = Host ELSE UserOf[row.token] = u

\* The committed roster: the creator is the only host, every token was drawn by the
\* user it lets in, and no two participants share a nickname.
CommittedRoster ==
  /\ member[Host] # None
  /\ \A u \in Users : member[u] # None => Belongs(member[u], u)
  /\ \A u, v \in Users : u # v /\ member[u] # None /\ member[v] # None =>
       member[u].nickname # member[v].nickname

\* The rows about to be committed clash neither with committed rows nor with one
\* another, and keep the token of the row they replace.
PendingRoster ==
  /\ \A r \in Requests : pending[r] # None =>
       /\ pc[r] \in {"reread", "commit"}
       /\ Belongs(pending[r], UserOf[r])
       /\ Mine(r) # None => pending[r].token = Mine(r).token
       /\ \A u \in Users \ {UserOf[r]} : member[u] # None =>
            member[u].nickname # pending[r].nickname
  /\ \A q, r \in Requests : q # r /\ pending[q] # None /\ pending[r] # None =>
       UserOf[q] # UserOf[r] /\ pending[q].nickname # pending[r].nickname

\* What a transaction has read agrees with what it will leave in the roster.
ReadsAgree ==
  \A r \in Requests :
    /\ pc[r] \in {"recheck", "reload", "update"} => Mine(r) # None
    /\ pc[r] = "update" => found[r] # None /\ found[r].token = Mine(r).token
    /\ pc[r] = "reread" => pending[r] # None \/ Mine(r) # None
    /\ pc[r] = "commit" =>
         /\ found[r] # None
         /\ IF pending[r] # None THEN found[r].token = pending[r].token
            ELSE Mine(r) # None /\ found[r].token = Mine(r).token
    /\ pc[r] = "joined" => Mine(r) # None /\ Mine(r).token = answer[r]

\* The roster and every open transaction are consistent.
Roster == TypeOK /\ CommittedRoster /\ PendingRoster /\ ReadsAgree

\* The token a join was answered with is the user's token, and stays valid through
\* every later or concurrent join of the same user.
AnswerValid ==
  \A r \in Requests : pc[r] = "joined" => Mine(r) # None /\ Mine(r).token = answer[r]

\* Whatever joins, a participant keeps its place, its role and its token.
TokenStable ==
  [][\A u \in Users : member[u] # None =>
       /\ member'[u] # None
       /\ member'[u].token = member[u].token /\ member'[u].role = member[u].role]_vars

\* A join is refused for its nickname only if another user, or another join of the
\* same user, held that nickname while it ran.
RefusalJustified == \A r \in Requests : pc[r] = "refused" => r \in rivalled

\* Joins that wait for one another's rows never wait for ever.
JoinsEnd == <>(\A r \in Requests : pc[r] \in Over)
=============================================================================
