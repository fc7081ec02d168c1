----------------------------- MODULE SpaceMembers -----------------------------
(***************************************************************************)
(* The members of a workspace (space):                                     *)
(*   src/src/modules/users/domain/members/members.repository.ts            *)
(*   src/src/modules/spaces/routes/members/members.service.ts              *)
(*   src/src/modules/spaces/domain/spaces.repository.ts      create, delete *)
(*   src/src/modules/users/domain/users.repository.ts        delete, status *)
(*                                                                         *)
(* Requests are served concurrently.  A request first checks whether it is *)
(* allowed, on rows it reads outside of any transaction; then a            *)
(* transaction, READ COMMITTED and without row locks, reads the target's   *)
(* row and finally writes it by its id.  Each of these is a step.  What a  *)
(* transaction writes becomes visible at once, when it commits.            *)
(*                                                                         *)
(* The module follows one space after its creation.  A request that is     *)
(* refused has no effect and is not modelled.  Names, aliases, the inviter *)
(* and the emails are left out.                                            *)
(***************************************************************************)
EXTENDS Integers

CONSTANTS Users, Creator,
          Requests,          \* bound: requests served at a time
          MaxRows,           \* bound: rows ever inserted for the space
          AccountDeletion    \* may users delete their accounts?

ASSUME MembersAssumption ==
  /\ Creator \in Users /\ MaxRows \in Nat \ {0} /\ AccountDeletion \in BOOLEAN

VARIABLES
  members,    \* the row of each user in the space
  inserted,   \* rows inserted so far: ids are never used again
  accounts,   \* the users table
  space,      \* "live" or "deleted"
  trail,      \* membership and role as the audit log tells them
  pc, req, admins, row,   \* requests, with the admins and the row they read
  mixed       \* history: users whom two requests concerned at the same time

requests == <<pc, req, admins, row>>
vars == <<members, inserted, accounts, space, trail, requests, mixed>>

Roles == {"ADMIN", "MEMBER"}
Ops == {"invite", "renew", "accept", "decline", "role", "remove", "leave",
        "erase", "dissolve"}

NoRow == [id |-> 0, status |-> "none", role |-> "none", expiry |-> "null"]
Rows == [id : 1 .. MaxRows, status : {"INVITED", "ACTIVE", "DECLINED"},
         role : Roles, expiry : {"null", "ahead", "passed"}] \union {NoRow}

NotMember == [status |-> "none", role |-> "none"]
Trails == [status : {"INVITED", "ACTIVE", "DECLINED", "none"}, role : Roles \union {"none"}]

NoRequest == [op |-> "none", actor |-> Creator, target |-> Creator, role |-> "MEMBER"]
AnyRequest == [op : Ops, actor : Users, target : Users, role : Roles] \union {NoRequest}

TypeOK ==
  /\ members \in [Users -> Rows]
  /\ inserted \in 1 .. MaxRows
  /\ \A u \in Users : members[u].id <= inserted
  /\ accounts \in [Users -> {"none", "PENDING", "ACTIVE", "deleted"}]
  /\ space \in {"live", "deleted"}
  /\ trail \in [Users -> Trails]
  /\ pc \in [Requests -> {"idle", "read", "write"}]
  /\ req \in [Requests -> AnyRequest]
  /\ admins \in [Requests -> SUBSET Users]
  /\ row \in [Requests -> Rows]
  /\ mixed \subseteq Users

\* SpacesRepository.create: the creator is the first admin.
Init ==
  /\ members = [u \in Users |->
                  IF u = Creator
                  THEN [id |-> 1, status |-> "ACTIVE", role |-> "ADMIN", expiry |-> "null"]
                  ELSE NoRow]
  /\ inserted = 1
  /\ accounts = [u \in Users |-> IF u = Creator THEN "ACTIVE" ELSE "none"]
  /\ space = "live"
  /\ trail = [u \in Users |-> IF u = Creator THEN [status |-> "ACTIVE", role |-> "ADMIN"]
                              ELSE NotMember]
  /\ pc = [p \in Requests |-> "idle"]
  /\ req = [p \in Requests |-> NoRequest]
  /\ admins = [p \in Requests |-> {}]
  /\ row = [p \in Requests |-> NoRow]
  /\ mixed = {}

ActiveAdmins == {u \in Users : members[u].status = "ACTIVE" /\ members[u].role = "ADMIN"}

-----------------------------------------------------------------------------
(* Checks, outside of transactions.                                         *)

\* assertIsNotLastAdmin.
NotLastAdmin_Dropped(found, u) == TRUE
NotLastAdmin(found, u) == found # {u}

\* assertInviteNotExpired, for an INVITED row.
Answerable(r) == r.status = "INVITED" /\ r.expiry = "ahead"

\* What each operation demands before it starts its transaction.
Allowed(r) ==
  \/ r.op \in {"invite", "renew", "dissolve"} /\ r.actor \in ActiveAdmins
  \/ /\ r.op \in {"role", "remove"}   \* updateRole, removeUser
     /\ r.actor \in ActiveAdmins
     /\ r.target = r.actor /\ (r.op = "remove" \/ r.role # "ADMIN")
          => NotLastAdmin(ActiveAdmins, r.actor)
  \/ r.op = "leave" /\ ActiveAdmins # {} /\ NotLastAdmin(ActiveAdmins, r.actor)
  \/ r.op \in {"accept", "decline"} /\ Answerable(members[r.actor])
  \/ r.op = "erase" /\ AccountDeletion

\* Operations on one's own membership; those that read the list of admins; those
\* that go on with a row they have read by now; and those that read no other.
Own == {"accept", "decline", "leave", "erase", "dissolve"}
Listing == {"role", "remove", "leave"}
Informed == {"accept", "decline", "erase"}
Direct == Informed \union {"dissolve"}

Concerns(r, u) == r.op = "dissolve" \/ r.target = u

\* The actor was authenticated, be it with an account that is deleted by now.
Check(p, r) ==
  /\ pc[p] = "idle"
  /\ accounts[r.actor] # "none"
  /\ r.op \in Own => r.target = r.actor
  /\ r.op \notin {"invite", "role"} => r.role = "MEMBER"
  /\ Allowed(r)
  /\ pc' = [pc EXCEPT ![p] = IF r.op \in Direct THEN "write" ELSE "read"]
  /\ req' = [req EXCEPT ![p] = r]
  /\ admins' = [admins EXCEPT ![p] = IF r.op \in Listing THEN ActiveAdmins ELSE {}]
  /\ row' = [row EXCEPT ![p] = IF r.op \in Informed THEN members[r.actor] ELSE NoRow]
  /\ mixed' = mixed \union
       {u \in Users : Concerns(r, u) /\ \E q \in Requests \ {p} :
                                          pc[q] # "idle" /\ Concerns(req[q], u)}
  /\ UNCHANGED <<members, inserted, accounts, space, trail>>

-----------------------------------------------------------------------------
(* Transactions.                                                            *)

Target(p) == req[p].target

\* The row that the transaction, for a renewal the service, goes on with.
Usable(op, r) ==
  \/ op = "invite" /\ r.status \in {"none", "INVITED"}
  \/ op = "renew" /\ r.status = "INVITED"
  \/ op \in {"role", "remove", "leave"} /\ r.status # "none"

Read(p) ==
  /\ pc[p] = "read"
  /\ Usable(req[p].op, members[Target(p)])
  /\ row' = [row EXCEPT ![p] = members[Target(p)]]
  /\ pc' = [pc EXCEPT ![p] = "write"]
  /\ UNCHANGED <<members, inserted, accounts, space, trail, req, admins, mixed>>

Done(p) ==
  /\ pc' = [pc EXCEPT ![p] = "idle"]
  /\ req' = [req EXCEPT ![p] = NoRequest]
  /\ admins' = [admins EXCEPT ![p] = {}]
  /\ row' = [row EXCEPT ![p] = NoRow]
  /\ UNCHANGED mixed

Serves(p, op) == pc[p] = "write" /\ req[p].op = op

\* A statement with WHERE id = ... finds the row that was read, or none at all.
Hits_ByUser(p) == TRUE
Hits(p) == members[Target(p)].id = row[p].id

Store(p, new) ==
  members' = IF Hits(p) THEN [members EXCEPT ![Target(p)] = new] ELSE members

Record(u, status, role) ==
  trail' = [trail EXCEPT ![u] = [status |-> status, role |-> role]]

FreshInvite(role) ==
  [id |-> inserted + 1, status |-> "INVITED", role |-> role, expiry |-> "ahead"]

\* insertOrUpdateInvite without a row: an unknown user becomes a PENDING one.
\* UQ_members and the foreign keys refuse the insert otherwise.
Invite(p) ==
  /\ Serves(p, "invite") /\ row[p] = NoRow
  /\ members[Target(p)] = NoRow
  /\ space = "live" /\ accounts[Target(p)] # "deleted"
  /\ inserted < MaxRows
  /\ members' = [members EXCEPT ![Target(p)] = FreshInvite(req[p].role)]
  /\ inserted' = inserted + 1
  /\ accounts' = [accounts EXCEPT ![Target(p)] = IF @ = "none" THEN "PENDING" ELSE @]
  /\ Record(Target(p), "INVITED", req[p].role)
  /\ Done(p)
  /\ UNCHANGED space

\* insertOrUpdateInvite with a row.
Reinvite_KeepsRole(p) ==
  /\ Serves(p, "invite") /\ row[p] # NoRow
  /\ Store(p, [members[Target(p)] EXCEPT !.expiry = "ahead"])
  /\ Record(Target(p), "INVITED", req[p].role)
  /\ Done(p)
  /\ UNCHANGED <<inserted, accounts, space>>
Reinvite(p) ==
  /\ Serves(p, "invite") /\ row[p] # NoRow
  /\ Store(p, [members[Target(p)] EXCEPT !.role = req[p].role, !.expiry = "ahead"])
  /\ Record(Target(p), "INVITED", req[p].role)
  /\ Done(p)
  /\ UNCHANGED <<inserted, accounts, space>>

RenewInvite(p) ==
  /\ Serves(p, "renew")
  /\ Store(p, [members[Target(p)] EXCEPT !.expiry = "ahead"])
  /\ Done(p)
  /\ UNCHANGED <<inserted, accounts, space, trail>>

\* updateStatus.
Activated_Never(u) == accounts
Activated(u) == [accounts EXCEPT ![u] = IF @ = "deleted" THEN @ ELSE "ACTIVE"]

AcceptInvite(p) ==
  /\ Serves(p, "accept")
  /\ Store(p, [members[Target(p)] EXCEPT !.status = "ACTIVE", !.expiry = "null"])
  /\ accounts' = Activated(Target(p))
  /\ Record(Target(p), "ACTIVE", trail[Target(p)].role)
  /\ Done(p)
  /\ UNCHANGED <<inserted, space>>

DeclineInvite(p) ==
  /\ Serves(p, "decline")
  /\ Store(p, [members[Target(p)] EXCEPT !.status = "DECLINED", !.expiry = "null"])
  /\ Record(Target(p), "DECLINED", trail[Target(p)].role)
  /\ Done(p)
  /\ UNCHANGED <<inserted, accounts, space>>

\* updateRole and the removals look the space up for the audit log: without it
\* they roll back.
UpdateRole(p) ==
  /\ Serves(p, "role") /\ space = "live"
  /\ Store(p, [members[Target(p)] EXCEPT !.role = req[p].role])
  /\ Record(Target(p), trail[Target(p)].status, req[p].role)
  /\ Done(p)
  /\ UNCHANGED <<inserted, accounts, space>>

\* removeUser and removeSelf.
Remove(p) ==
  /\ Serves(p, "remove") \/ Serves(p, "leave")
  /\ space = "live"
  /\ Store(p, NoRow)
  /\ trail' = [trail EXCEPT ![Target(p)] = NotMember]
  /\ Done(p)
  /\ UNCHANGED <<inserted, accounts, space>>

\* UsersRepository.delete: the rows of the user go with it; what was read of them
\* decides what is recorded.
DeleteAccount(p) ==
  /\ Serves(p, "erase")
  /\ accounts' = [accounts EXCEPT ![Target(p)] = "deleted"]
  /\ members' = [members EXCEPT ![Target(p)] = NoRow]
  /\ trail' = IF row[p].status = "ACTIVE"
              THEN [trail EXCEPT ![Target(p)] = NotMember] ELSE trail
  /\ Done(p)
  /\ UNCHANGED <<inserted, space>>

\* SpacesRepository.delete: the members go with it.
DeleteSpace(p) ==
  /\ Serves(p, "dissolve") /\ space = "live"
  /\ space' = "deleted"
  /\ members' = [u \in Users |-> NoRow]
  /\ Done(p)
  /\ UNCHANGED <<inserted, accounts, trail>>

\* A later check or a constraint refuses, or the database or the process fails.
Fail(p) ==
  /\ pc[p] # "idle"
  /\ Done(p)
  /\ UNCHANGED <<members, inserted, accounts, space, trail>>

Commit(p) ==
  \/ Invite(p) \/ Reinvite(p) \/ RenewInvite(p) \/ AcceptInvite(p) \/ DeclineInvite(p)
  \/ UpdateRole(p) \/ Remove(p) \/ DeleteAccount(p) \/ DeleteSpace(p)

-----------------------------------------------------------------------------
(* What goes on besides.                                                    *)

\* A user signs up without an invitation.
SignUp(u) ==
  /\ accounts[u] = "none"
  /\ accounts' = [accounts EXCEPT ![u] = "ACTIVE"]
  /\ UNCHANGED <<members, inserted, space, trail, requests, mixed>>

\* A PENDING user signs in (claimPendingByEmail) or creates a space of their own
\* (activateIfPending).
Activate(u) ==
  /\ accounts[u] = "PENDING"
  /\ accounts' = [accounts EXCEPT ![u] = "ACTIVE"]
  /\ UNCHANGED <<members, inserted, space, trail, requests, mixed>>

Expire(u) ==
  /\ members[u].expiry = "ahead"
  /\ members' = [members EXCEPT ![u].expiry = "passed"]
  /\ UNCHANGED <<inserted, accounts, space, trail, requests, mixed>>

Next ==
  \/ \E p \in Requests : Read(p) \/ Commit(p) \/ Fail(p)
  \/ \E p \in Requests, r \in AnyRequest : Check(p, r)
  \/ \E u \in Users : SignUp(u) \/ Activate(u) \/ Expire(u)

Spec == Init /\ [][Next]_vars

-----------------------------------------------------------------------------
(* Properties.                                                              *)

\* assertInviteNotExpired: an INVITED member is always expected to carry an
\* expiry.  No acceptance or refusal clears it under a renewed invitation.
InvitedCarriesExpiry ==
  \A u \in Users : members[u].status = "INVITED" => members[u].expiry # "null"

\* An active member has an active account, whatever deletions, invitations and
\* acceptances overlap (acceptInvite, UsersRepository.delete).
ActiveMembersAreUsers ==
  \A u \in Users : members[u].status = "ACTIVE" => accounts[u] = "ACTIVE"

Exists(u) == space = "live" /\ accounts[u] # "deleted"

\* Replaying the audit log gives the membership and the role of every user about
\* whom no two requests overlapped (SpaceAuditRepository.record in each operation).
AuditAgrees ==
  \A u \in Users \ mixed :
    Exists(u) => trail[u] = [status |-> members[u].status, role |-> members[u].role]

\* What p decided by is no longer so: the admins it counted, or the invitation.
Outdated(p) ==
  \/ req[p].op \in Listing /\ admins[p] # ActiveAdmins
  \/ req[p].op \in {"invite", "decline"} /\ row[p] # members[Target(p)]

\* Only a request that decided by outdated rows ever takes the space's last admin;
\* no change of role, removal, departure or repeated invitation does otherwise
\* (assertIsNotLastAdmin).  Deleting one's account is not checked by the code.
LastAdminStays ==
  [][ActiveAdmins # {} /\ ActiveAdmins' = {} /\ space' = "live" /\ UNCHANGED accounts
       => \E p \in Requests : Commit(p) /\ Outdated(p)]_vars

\* What the API promises: the last admin of a space cannot be removed.
AdminRemains == space = "live" => ActiveAdmins # {}
=============================================================================
