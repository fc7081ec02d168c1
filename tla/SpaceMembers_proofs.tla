------------------------- MODULE SpaceMembers_proofs -------------------------
(***************************************************************************)
(* Proofs about SpaceMembers for any users, any number of requests served  *)
(* at a time and any number of rows: its types, invitations that carry an  *)
(* expiry, active members with active accounts, and the last admin, who is *)
(* only ever taken by a request that decided by outdated rows.             *)
(***************************************************************************)
EXTENDS SpaceMembers, TLAPS

\* Only users whose account exists have a row.
RowsHaveUsers ==
  \A u \in Users : members[u].id # 0 => accounts[u] \in {"PENDING", "ACTIVE"}

\* What a request holds is what its check and its read found.
Held ==
  \A p \in Requests :
    /\ pc[p] = "write" /\ req[p].op \in {"renew", "accept", "decline"}
         => row[p].status = "INVITED"
    /\ pc[p] = "write" /\ req[p].op = "invite"
         => row[p].status \in {"none", "INVITED"}
    /\ pc[p] = "write" /\ req[p].op \in Listing => row[p].status # "none"
    /\ pc[p] # "idle" /\ req[p].op \in {"role", "remove"} =>
         /\ req[p].actor \in admins[p]
         /\ req[p].target = req[p].actor /\ (req[p].op = "remove" \/ req[p].role # "ADMIN")
              => admins[p] # {req[p].actor}
    /\ pc[p] # "idle" /\ req[p].op = "leave" =>
         req[p].target = req[p].actor /\ admins[p] # {req[p].actor}

Inv == TypeOK /\ RowsHaveUsers /\ Held /\ InvitedCarriesExpiry /\ ActiveMembersAreUsers

LEMMA InitInv == Init => Inv
BY MembersAssumption
   DEF Init, Inv, TypeOK, RowsHaveUsers, Held, InvitedCarriesExpiry,
       ActiveMembersAreUsers, Rows, NoRow, Trails, NotMember, Roles, AnyRequest,
       NoRequest

\* A row has an id just when it is one.
LEMMA RowIds ==
  ASSUME NEW r \in Rows
  PROVE  /\ r.id \in 0 .. MaxRows
         /\ r.id = 0 <=> r = NoRow
         /\ r.id = 0 <=> r.status = "none"
BY MembersAssumption DEF Rows, NoRow

\* A request that ends leaves the types of the requests, and what others hold.
LEMMA DoneKeeps ==
  ASSUME TypeOK, Held, NEW p \in Requests, Done(p)
  PROVE  /\ pc' \in [Requests -> {"idle", "read", "write"}]
         /\ req' \in [Requests -> AnyRequest]
         /\ admins' \in [Requests -> SUBSET Users]
         /\ row' \in [Requests -> Rows]
         /\ mixed' \subseteq Users
         /\ Held'
<1>1. NoRequest \in AnyRequest /\ NoRow \in Rows BY DEF AnyRequest, Rows
<1>2. /\ pc' \in [Requests -> {"idle", "read", "write"}]
      /\ req' \in [Requests -> AnyRequest]
      /\ admins' \in [Requests -> SUBSET Users]
      /\ row' \in [Requests -> Rows]
      /\ mixed' \subseteq Users
  BY <1>1 DEF TypeOK, Done
<1>3. pc'[p] = "idle" BY DEF TypeOK, Done
<1>4. \A q \in Requests \ {p} :
        pc'[q] = pc[q] /\ req'[q] = req[q] /\ admins'[q] = admins[q] /\ row'[q] = row[q]
  BY DEF TypeOK, Done
<1>5. Held' BY <1>3, <1>4 DEF Held
<1> QED BY <1>2, <1>5

\* What may replace the row of p's target.
Sound(p, new) ==
  \/ new = NoRow
  \/ /\ new \in Rows /\ new.id = members[Target(p)].id
     /\ new.status = "INVITED" => new.expiry # "null"
     /\ new.status = "ACTIVE" => accounts'[Target(p)] = "ACTIVE"

NoneDeleted ==
  \A u \in Users : \/ accounts'[u] = accounts[u]
                   \/ accounts[u] # "deleted" /\ accounts'[u] = "ACTIVE"

\* A statement that writes the row that was read, if it is still there: the row
\* was one before, so it is one afterwards.
LEMMA StoreKeeps ==
  ASSUME Inv, NEW p \in Requests, NEW new, Store(p, new),
         Target(p) \in Users, row[p].status # "none", row[p] \in Rows,
         Hits(p) => Sound(p, new), NoneDeleted
  PROVE  /\ members' \in [Users -> Rows]
         /\ \A u \in Users : members'[u].id \in {0, members[u].id}
         /\ RowsHaveUsers' /\ InvitedCarriesExpiry' /\ ActiveMembersAreUsers'
<1>t. members \in [Users -> Rows] BY DEF Inv, TypeOK
<1>0. NoRow \in Rows /\ NoRow.id = 0 /\ NoRow.status = "none" BY DEF Rows, NoRow
<1>1. ASSUME NEW u \in Users
      PROVE  /\ members'[u] \in Rows
             /\ members'[u].id \in {0, members[u].id}
             /\ members'[u].id # 0 => accounts'[u] \in {"PENDING", "ACTIVE"}
             /\ members'[u].status = "INVITED" => members'[u].expiry # "null"
             /\ members'[u].status = "ACTIVE" => accounts'[u] = "ACTIVE"
  <2>1. CASE members'[u] = members[u]
    BY <1>t, <2>1 DEF Inv, NoneDeleted, RowsHaveUsers, InvitedCarriesExpiry, ActiveMembersAreUsers
  <2>2. CASE members'[u] # members[u]
    <3>1. Hits(p) /\ u = Target(p) /\ members'[u] = new
      BY <1>t, <2>2 DEF Store
    <3>2. CASE new = NoRow BY <1>0, <3>1, <3>2
    <3>3. CASE new # NoRow
      <4>1. members[u].id # 0 BY <3>1, RowIds DEF Hits
      <4> QED BY <3>1, <3>3, <4>1 DEF Inv, RowsHaveUsers, Sound, NoneDeleted
    <3> QED BY <3>2, <3>3
  <2> QED BY <2>1, <2>2
<1>2. members' \in [Users -> Rows] BY <1>t, <1>1 DEF Store
<1> QED BY <1>1, <1>2 DEF RowsHaveUsers, InvitedCarriesExpiry, ActiveMembersAreUsers

\* The row a request holds is a row, its target a user, its role a role.
LEMMA HeldTypes ==
  ASSUME TypeOK, NEW p \in Requests, req[p].op \in Ops
  PROVE  /\ req[p].target \in Users /\ req[p].actor \in Users /\ req[p].role \in Roles
         /\ row[p] \in Rows /\ members[Target(p)] \in Rows
BY DEF TypeOK, AnyRequest, NoRequest, Ops, Target

-----------------------------------------------------------------------------
\* The statements that store a new row by id, one by one.
LEMMA StoresKeep ==
  ASSUME Inv, NEW p \in Requests,
         \/ Reinvite(p) \/ RenewInvite(p) \/ AcceptInvite(p) \/ DeclineInvite(p)
         \/ UpdateRole(p) \/ Remove(p)
  PROVE  /\ members' \in [Users -> Rows]
         /\ \A u \in Users : members'[u].id \in {0, members[u].id}
         /\ RowsHaveUsers' /\ InvitedCarriesExpiry' /\ ActiveMembersAreUsers'
<1> DEFINE t == Target(p)
           m == members[t]
<1>1. /\ req[p].op \in Ops /\ pc[p] = "write"
  BY DEF Reinvite, RenewInvite, AcceptInvite, DeclineInvite, UpdateRole, Remove, Serves, Ops
<1>2. t \in Users /\ row[p] \in Rows /\ m \in Rows /\ req[p].role \in Roles
  BY <1>1, HeldTypes DEF Inv, Target
<1>3. ASSUME Hits(p), row[p].status # "none"
      PROVE  m # NoRow /\ m.id \in 1 .. MaxRows
  BY <1>2, <1>3, RowIds DEF Hits
<1>a. CASE AcceptInvite(p)
  <2> DEFINE new == [m EXCEPT !.status = "ACTIVE", !.expiry = "null"]
  <2>1. row[p].status = "INVITED" BY <1>a, <1>1 DEF Inv, Held, AcceptInvite, Serves
  <2>2. CASE Hits(p)
    <3>1. m # NoRow /\ m.id # 0 BY <2>1, <2>2, <1>2, <1>3, RowIds
    <3>2. new \in Rows /\ new.id = m.id /\ new.status = "ACTIVE"
      BY <3>1, <1>2 DEF Rows
    <3>3. accounts[t] \in {"PENDING", "ACTIVE"} BY <3>1, <1>2 DEF Inv, RowsHaveUsers
    <3>4. /\ accounts'[t] = "ACTIVE"
          /\ \A u \in Users \ {t} : accounts'[u] = accounts[u]
      BY <1>a, <3>3, <1>2 DEF Inv, TypeOK, AcceptInvite, Activated
    <3>5. Store(p, new) BY <1>a DEF AcceptInvite
    <3>6. NoneDeleted /\ Sound(p, new) BY <3>2, <3>3, <3>4 DEF NoneDeleted, Sound
    <3> HIDE DEF new
    <3> QED BY <3>5, <3>6, <2>1, <1>2, StoreKeeps
  <2>3. CASE ~Hits(p)
    <3>1. Store(p, new) BY <1>a DEF AcceptInvite
    <3>2. NoneDeleted
      BY <1>a, <1>2 DEF Inv, TypeOK, AcceptInvite, Activated, NoneDeleted
    <3> HIDE DEF new
    <3> QED BY <3>1, <3>2, <2>1, <2>3, <1>2, StoreKeeps
  <2> QED BY <2>2, <2>3
<1>b. CASE Remove(p)
  <2>1. row[p].status # "none" /\ UNCHANGED accounts /\ Store(p, NoRow)
    BY <1>b, <1>1 DEF Inv, Held, Remove, Serves, Listing
  <2>2. NoneDeleted /\ Sound(p, NoRow) BY <2>1 DEF NoneDeleted, Sound
  <2> QED BY <2>1, <2>2, <1>2, StoreKeeps
<1>c. CASE DeclineInvite(p)
  <2> DEFINE new == [m EXCEPT !.status = "DECLINED", !.expiry = "null"]
  <2>1. row[p].status # "none" /\ UNCHANGED accounts /\ Store(p, new)
    BY <1>c, <1>1 DEF Inv, Held, DeclineInvite, Serves
  <2>2. ASSUME Hits(p) PROVE new \in Rows /\ new.id = m.id /\ new.status = "DECLINED"
    BY <2>1, <2>2, <1>2, <1>3 DEF Rows
  <2>3. NoneDeleted /\ (Hits(p) => Sound(p, new))
    BY <2>1, <2>2 DEF NoneDeleted, Sound
  <2> HIDE DEF new
  <2> QED BY <2>1, <2>3, <1>2, StoreKeeps
<1>d. CASE UpdateRole(p)
  <2> DEFINE new == [m EXCEPT !.role = req[p].role]
  <2>1. row[p].status # "none" /\ UNCHANGED accounts /\ Store(p, new)
    BY <1>d, <1>1 DEF Inv, Held, UpdateRole, Serves, Listing
  <2>2. ASSUME Hits(p)
        PROVE  new \in Rows /\ new.id = m.id /\ new.status = m.status /\ new.expiry = m.expiry
    BY <2>1, <2>2, <1>2, <1>3 DEF Rows
  <2>3. /\ m.status = "INVITED" => m.expiry # "null"
        /\ m.status = "ACTIVE" => accounts[t] = "ACTIVE"
    BY <1>2 DEF Inv, InvitedCarriesExpiry, ActiveMembersAreUsers
  <2>4. NoneDeleted /\ (Hits(p) => Sound(p, new))
    BY <2>1, <2>2, <2>3 DEF NoneDeleted, Sound
  <2> HIDE DEF new
  <2> QED BY <2>1, <2>4, <1>2, StoreKeeps
<1>e. CASE RenewInvite(p)
  <2> DEFINE new == [m EXCEPT !.expiry = "ahead"]
  <2>1. row[p].status # "none" /\ UNCHANGED accounts /\ Store(p, new)
    BY <1>e, <1>1 DEF Inv, Held, RenewInvite, Serves
  <2>2. ASSUME Hits(p)
        PROVE  new \in Rows /\ new.id = m.id /\ new.status = m.status /\ new.expiry # "null"
    BY <2>1, <2>2, <1>2, <1>3 DEF Rows
  <2>3. m.status = "ACTIVE" => accounts[t] = "ACTIVE"
    BY <1>2 DEF Inv, ActiveMembersAreUsers
  <2>4. NoneDeleted /\ (Hits(p) => Sound(p, new))
    BY <2>1, <2>2, <2>3 DEF NoneDeleted, Sound
  <2> HIDE DEF new
  <2> QED BY <2>1, <2>4, <1>2, StoreKeeps
<1>f. CASE Reinvite(p)
  <2> DEFINE new == [m EXCEPT !.role = req[p].role, !.expiry = "ahead"]
  <2>1. row[p].status # "none" /\ UNCHANGED accounts /\ Store(p, new)
    BY <1>f, <1>2, RowIds DEF Reinvite
  <2>2. ASSUME Hits(p)
        PROVE  new \in Rows /\ new.id = m.id /\ new.status = m.status /\ new.expiry # "null"
    BY <2>1, <2>2, <1>2, <1>3 DEF Rows
  <2>3. m.status = "ACTIVE" => accounts[t] = "ACTIVE"
    BY <1>2 DEF Inv, ActiveMembersAreUsers
  <2>4. NoneDeleted /\ (Hits(p) => Sound(p, new))
    BY <2>1, <2>2, <2>3 DEF NoneDeleted, Sound
  <2> HIDE DEF new
  <2> QED BY <2>1, <2>4, <1>2, StoreKeeps
<1> QED BY <1>a, <1>b, <1>c, <1>d, <1>e, <1>f

LEMMA StepInv == Inv /\ [Next]_vars => Inv'
<1> SUFFICES ASSUME Inv, [Next]_vars PROVE Inv'
  OBVIOUS
<1> USE MembersAssumption DEF requests
<1>t. TypeOK /\ Held /\ RowsHaveUsers /\ InvitedCarriesExpiry /\ ActiveMembersAreUsers
  BY DEF Inv
<1>1. ASSUME NEW p \in Requests, NEW r \in AnyRequest, Check(p, r) PROVE Inv'
  <2>1. r \in [op : Ops, actor : Users, target : Users, role : Roles]
    BY <1>1 DEF AnyRequest, NoRequest, Check, Allowed
  <2>2. /\ pc' \in [Requests -> {"idle", "read", "write"}]
        /\ req' \in [Requests -> AnyRequest]
        /\ admins' \in [Requests -> SUBSET Users]
        /\ row' \in [Requests -> Rows]
        /\ mixed' \subseteq Users
    BY <1>1, <1>t, <2>1 DEF TypeOK, Check, ActiveAdmins, Rows
  <2>3. \A q \in Requests \ {p} :
          pc'[q] = pc[q] /\ req'[q] = req[q] /\ admins'[q] = admins[q] /\ row'[q] = row[q]
    BY <1>1, <1>t DEF TypeOK, Check
  <2>4. /\ pc'[p] = (IF r.op \in Direct THEN "write" ELSE "read")
        /\ req'[p] = r
        /\ admins'[p] = (IF r.op \in Listing THEN ActiveAdmins ELSE {})
        /\ row'[p] = (IF r.op \in Informed THEN members[r.actor] ELSE NoRow)
    BY <1>1, <1>t DEF TypeOK, Check
  <2>5. /\ r.op \in Own => r.target = r.actor
        /\ Allowed(r)
    BY <1>1 DEF Check
  <2>6. /\ r.op \in {"accept", "decline"} => row'[p].status = "INVITED"
        /\ r.op \in {"renew", "invite"} \union Listing => pc'[p] = "read"
    BY <2>1, <2>4, <2>5 DEF Allowed, Answerable, Informed, Listing, Direct
  <2>7. /\ r.op \in {"role", "remove"} =>
             /\ r.actor \in admins'[p]
             /\ r.target = r.actor /\ (r.op = "remove" \/ r.role # "ADMIN")
                  => admins'[p] # {r.actor}
        /\ r.op = "leave" => r.target = r.actor /\ admins'[p] # {r.actor}
    BY <2>4, <2>5 DEF Allowed, Listing, Own, NotLastAdmin
  <2>8. Held' BY <1>t, <2>3, <2>4, <2>6, <2>7 DEF Held, Listing
  <2> QED BY <1>1, <1>t, <2>2, <2>8
          DEF Check, Inv, TypeOK, RowsHaveUsers, InvitedCarriesExpiry, ActiveMembersAreUsers
<1>2. ASSUME NEW p \in Requests, Read(p) PROVE Inv'
  <2>1. req[p].op \in Ops BY <1>2 DEF Read, Usable, Ops
  <2>2. members[Target(p)] \in Rows BY <1>t, <2>1, HeldTypes
  <2>3. TypeOK' BY <1>2, <1>t, <2>2 DEF TypeOK, Read
  <2>4. \A q \in Requests \ {p} : pc'[q] = pc[q] /\ row'[q] = row[q]
    BY <1>2, <1>t DEF TypeOK, Read
  <2>5. pc[p] = "read" /\ pc'[p] = "write" /\ row'[p] = members[Target(p)]
    BY <1>2, <1>t DEF TypeOK, Read
  <2>6. /\ req[p].op \in {"renew"} => row'[p].status = "INVITED"
        /\ req[p].op \notin {"accept", "decline"}
        /\ req[p].op = "invite" => row'[p].status \in {"none", "INVITED"}
        /\ req[p].op \in Listing => row'[p].status # "none"
    BY <1>2, <2>5 DEF Read, Usable, Listing
  <2>7. Held' BY <1>2, <1>t, <2>4, <2>5, <2>6 DEF Held, Read
  <2> QED BY <1>2, <1>t, <2>3, <2>7
          DEF Read, Inv, RowsHaveUsers, InvitedCarriesExpiry, ActiveMembersAreUsers
<1>3. ASSUME NEW p \in Requests,
             \/ Reinvite(p) \/ RenewInvite(p) \/ AcceptInvite(p) \/ DeclineInvite(p)
             \/ UpdateRole(p) \/ Remove(p)
      PROVE  Inv'
  <2>1. /\ members' \in [Users -> Rows]
        /\ \A u \in Users : members'[u].id \in {0, members[u].id}
        /\ RowsHaveUsers' /\ InvitedCarriesExpiry' /\ ActiveMembersAreUsers'
    BY <1>3, StoresKeep
  <2>2. Done(p) /\ UNCHANGED <<inserted, space>>
    BY <1>3 DEF Reinvite, RenewInvite, AcceptInvite, DeclineInvite, UpdateRole, Remove
  <2>3. /\ pc' \in [Requests -> {"idle", "read", "write"}]
        /\ req' \in [Requests -> AnyRequest]
        /\ admins' \in [Requests -> SUBSET Users]
        /\ row' \in [Requests -> Rows]
        /\ mixed' \subseteq Users
        /\ Held'
    BY <1>t, <2>2, DoneKeeps
  <2>4. req[p].op \in Ops
    BY <1>3 DEF Reinvite, RenewInvite, AcceptInvite, DeclineInvite, UpdateRole, Remove,
                Serves, Ops
  <2>5. Target(p) \in Users /\ req[p].role \in Roles
    BY <1>t, <2>4, HeldTypes DEF Target
  <2>6. accounts' \in [Users -> {"none", "PENDING", "ACTIVE", "deleted"}]
    BY <1>3, <1>t, <2>5
       DEF TypeOK, Reinvite, RenewInvite, AcceptInvite, DeclineInvite, UpdateRole, Remove,
           Activated
  <2>7. trail[Target(p)] \in Trails BY <1>t, <2>5 DEF TypeOK
  <2>8. trail' \in [Users -> Trails]
    BY <1>3, <1>t, <2>5, <2>7
       DEF TypeOK, Reinvite, RenewInvite, AcceptInvite, DeclineInvite, UpdateRole, Remove,
           Record, Trails, NotMember
  <2>9. \A u \in Users : members'[u].id <= inserted'
    BY <1>t, <2>1, <2>2 DEF TypeOK
  <2> QED BY <1>t, <2>1, <2>2, <2>3, <2>6, <2>8, <2>9 DEF Inv, TypeOK
<1>4. ASSUME NEW p \in Requests, Invite(p) PROVE Inv'
  <2>1. /\ pc' \in [Requests -> {"idle", "read", "write"}]
        /\ req' \in [Requests -> AnyRequest]
        /\ admins' \in [Requests -> SUBSET Users]
        /\ row' \in [Requests -> Rows]
        /\ mixed' \subseteq Users
        /\ Held'
    BY <1>t, <1>4, DoneKeeps DEF Invite
  <2>2. Target(p) \in Users /\ req[p].role \in Roles
    BY <1>t, <1>4, HeldTypes DEF Invite, Serves, Ops, Target
  <2>3. inserted' = inserted + 1 /\ inserted' \in 1 .. MaxRows
    BY <1>t, <1>4 DEF Invite, TypeOK
  <2>4. FreshInvite(req[p].role) \in Rows BY <2>2, <2>3 DEF FreshInvite, Rows
  <2>5. /\ members' = [members EXCEPT ![Target(p)] = FreshInvite(req[p].role)]
        /\ accounts'[Target(p)] \in {"PENDING", "ACTIVE"}
        /\ \A u \in Users \ {Target(p)} : accounts'[u] = accounts[u]
        /\ accounts' \in [Users -> {"none", "PENDING", "ACTIVE", "deleted"}]
    BY <1>t, <1>4, <2>2 DEF Invite, TypeOK
  <2>6. trail' \in [Users -> Trails]
    BY <1>4, <1>t, <2>2 DEF TypeOK, Invite, Record, Trails
  <2>7. /\ members' \in [Users -> Rows]
        /\ \A u \in Users : members'[u].id <= inserted'
    <3>1. members' \in [Users -> Rows] BY <1>t, <2>2, <2>4, <2>5 DEF TypeOK
    <3>2. ASSUME NEW u \in Users PROVE members'[u].id <= inserted'
      <4>1. members[u].id \in 0 .. MaxRows BY <1>t, RowIds DEF TypeOK
      <4>2. CASE u = Target(p)
        BY <1>t, <2>2, <2>3, <2>5, <4>2 DEF TypeOK, FreshInvite
      <4>3. CASE u # Target(p)
        BY <1>t, <2>3, <2>5, <4>1, <4>3 DEF TypeOK
      <4> QED BY <4>2, <4>3
    <3> QED BY <3>1, <3>2
  <2>8. RowsHaveUsers' /\ InvitedCarriesExpiry' /\ ActiveMembersAreUsers'
    BY <1>t, <2>2, <2>5
       DEF TypeOK, RowsHaveUsers, InvitedCarriesExpiry, ActiveMembersAreUsers, FreshInvite
  <2> QED BY <1>4, <1>t, <2>1, <2>3, <2>5, <2>6, <2>7, <2>8 DEF Inv, TypeOK, Invite
<1>5. ASSUME NEW p \in Requests, DeleteAccount(p) \/ DeleteSpace(p) \/ Fail(p) PROVE Inv'
  <2>1. /\ pc' \in [Requests -> {"idle", "read", "write"}]
        /\ req' \in [Requests -> AnyRequest]
        /\ admins' \in [Requests -> SUBSET Users]
        /\ row' \in [Requests -> Rows]
        /\ mixed' \subseteq Users
        /\ Held'
    BY <1>t, <1>5, DoneKeeps DEF DeleteAccount, DeleteSpace, Fail
  <2>2. NoRow \in Rows /\ NoRow.id = 0 /\ NoRow.status = "none" BY DEF Rows, NoRow
  <2>3. CASE DeleteAccount(p)
    <3>1. Target(p) \in Users
      BY <1>t, <2>3, HeldTypes DEF DeleteAccount, Serves, Ops, Target
    <3>2. \A u \in Users : \/ members'[u] = NoRow
                           \/ members'[u] = members[u] /\ accounts'[u] = accounts[u]
      BY <1>t, <2>3, <3>1 DEF TypeOK, DeleteAccount
    <3>3. RowsHaveUsers' /\ InvitedCarriesExpiry' /\ ActiveMembersAreUsers'
      BY <1>t, <2>2, <3>2 DEF RowsHaveUsers, InvitedCarriesExpiry, ActiveMembersAreUsers
    <3>4. /\ members' \in [Users -> Rows]
          /\ accounts' \in [Users -> {"none", "PENDING", "ACTIVE", "deleted"}]
          /\ trail' \in [Users -> Trails]
      BY <1>t, <2>2, <2>3, <3>1 DEF TypeOK, DeleteAccount, Trails, NotMember
    <3>5. \A u \in Users : members'[u].id <= inserted
      BY <1>t, <2>2, <3>2 DEF TypeOK
    <3> QED BY <1>t, <2>1, <2>3, <3>3, <3>4, <3>5 DEF Inv, TypeOK, DeleteAccount
  <2>4. CASE DeleteSpace(p)
    <3>1. \A u \in Users : members'[u] = NoRow BY <2>4 DEF DeleteSpace
    <3>2. RowsHaveUsers' /\ InvitedCarriesExpiry' /\ ActiveMembersAreUsers'
      BY <2>2, <3>1 DEF RowsHaveUsers, InvitedCarriesExpiry, ActiveMembersAreUsers
    <3>3. \A u \in Users : members'[u].id <= inserted BY <1>t, <2>2, <3>1 DEF TypeOK
    <3> QED BY <1>t, <2>1, <2>2, <2>4, <3>2, <3>3 DEF Inv, TypeOK, DeleteSpace
  <2>5. CASE Fail(p)
    BY <1>t, <2>1, <2>5
       DEF Inv, TypeOK, RowsHaveUsers, InvitedCarriesExpiry, ActiveMembersAreUsers, Fail
  <2> QED BY <1>5, <2>3, <2>4, <2>5
<1>6. ASSUME NEW u \in Users, SignUp(u) \/ Activate(u) PROVE Inv'
  <2>1. accounts' = [accounts EXCEPT ![u] = "ACTIVE"]
        /\ UNCHANGED <<members, inserted, space, trail, requests, mixed>>
    BY <1>6 DEF SignUp, Activate
  <2> QED BY <2>1, <1>t
          DEF Inv, TypeOK, Held, RowsHaveUsers, InvitedCarriesExpiry, ActiveMembersAreUsers
<1>7. ASSUME NEW u \in Users, Expire(u) PROVE Inv'
  <2>1. members[u] \in Rows /\ members[u].expiry = "ahead" BY <1>7, <1>t DEF TypeOK, Expire
  <2>2. /\ members'[u] \in Rows /\ members'[u].id = members[u].id
        /\ members'[u].status = members[u].status /\ members'[u].expiry = "passed"
        /\ \A v \in Users \ {u} : members'[v] = members[v]
    BY <1>7, <1>t, <2>1 DEF TypeOK, Expire, Rows, NoRow
  <2>3. members' \in [Users -> Rows] /\ \A v \in Users : members'[v].id <= inserted
    BY <1>7, <1>t, <2>2 DEF TypeOK, Expire
  <2>4. RowsHaveUsers' /\ InvitedCarriesExpiry' /\ ActiveMembersAreUsers'
    BY <1>7, <1>t, <2>2
       DEF RowsHaveUsers, InvitedCarriesExpiry, ActiveMembersAreUsers, Expire
  <2> QED BY <1>7, <1>t, <2>3, <2>4 DEF Inv, TypeOK, Held, Expire
<1>8. CASE UNCHANGED vars
  BY <1>8, <1>t DEF Inv, TypeOK, Held, RowsHaveUsers, InvitedCarriesExpiry,
                    ActiveMembersAreUsers, vars
<1> QED BY <1>1, <1>2, <1>3, <1>4, <1>5, <1>6, <1>7, <1>8 DEF Next, Commit

LEMMA Invariant == Spec => []Inv
<1>1. Init => Inv BY InitInv
<1>2. Inv /\ [Next]_vars => Inv' BY StepInv
<1> QED BY <1>1, <1>2, PTL DEF Spec

\* Type correctness of the members of a space.
THEOREM TypeCorrect == Spec => []TypeOK
<1>1. Inv => TypeOK BY DEF Inv
<1> QED BY <1>1, Invariant, PTL

\* Every pending invitation carries an expiry (assertInviteNotExpired).
THEOREM InvitationsCarryExpiry == Spec => []InvitedCarriesExpiry
<1>1. Inv => InvitedCarriesExpiry BY DEF Inv
<1> QED BY <1>1, Invariant, PTL

\* An active member of a space has an active account, whatever acceptances,
\* removals and account deletions overlap (acceptInvite, UsersRepository.delete).
THEOREM ActiveMembersHaveAccounts == Spec => []ActiveMembersAreUsers
<1>1. Inv => ActiveMembersAreUsers BY DEF Inv
<1> QED BY <1>1, Invariant, PTL

-----------------------------------------------------------------------------
\* A commit that decided by current rows leaves an admin, or it deletes the space
\* or an account.
LEMMA CommitLeavesAdmin ==
  ASSUME Inv, NEW p \in Requests, Commit(p), ~Outdated(p),
         ActiveAdmins # {}, space' = "live", UNCHANGED accounts
  PROVE  ActiveAdmins' # {}
<1> DEFINE t == Target(p)
<1>t. TypeOK /\ Held /\ RowsHaveUsers BY DEF Inv
<1>1. req[p].op \in Ops /\ pc[p] = "write"
  BY DEF Commit, Invite, Reinvite, RenewInvite, AcceptInvite, DeclineInvite, UpdateRole,
         Remove, DeleteAccount, DeleteSpace, Serves, Ops
<1>2. t \in Users /\ members[t] \in Rows /\ members \in [Users -> Rows]
  BY <1>1, <1>t, HeldTypes DEF TypeOK, Target
\* Whoever else is an admin stays one.
<1>3. ASSUME NEW u \in ActiveAdmins, u # t, ~DeleteSpace(p)
      PROVE  u \in ActiveAdmins'
  BY <1>2, <1>3
     DEF ActiveAdmins, Commit, Invite, Reinvite, RenewInvite, AcceptInvite, DeclineInvite,
         UpdateRole, Remove, DeleteAccount, Store
<1>4. ASSUME t \notin ActiveAdmins, ~DeleteSpace(p) PROVE ActiveAdmins' # {}
  <2>1. PICK u \in ActiveAdmins : TRUE OBVIOUS
  <2> QED BY <2>1, <1>3, <1>4
<1>5. CASE Invite(p)
  <2>1. t \notin ActiveAdmins BY <1>5 DEF Invite, ActiveAdmins, NoRow
  <2> QED BY <2>1, <1>4, <1>5 DEF Invite, DeleteSpace, Serves
<1>6. CASE Reinvite(p) \/ DeclineInvite(p)
  <2>1. row[p] = members[t] BY <1>6 DEF Outdated, Reinvite, DeclineInvite, Serves
  <2>2. row[p].status # "ACTIVE"
    BY <1>t, <1>6 DEF Held, Reinvite, DeclineInvite, Serves
  <2>3. t \notin ActiveAdmins BY <2>1, <2>2 DEF ActiveAdmins
  <2> QED BY <2>3, <1>4, <1>6 DEF Reinvite, DeclineInvite, DeleteSpace, Serves
<1>7. CASE RenewInvite(p) \/ AcceptInvite(p)
  <2>1. \/ members'[t] = members[t]
        \/ members'[t] = [members[t] EXCEPT !.expiry = "ahead"]
        \/ members'[t] = [members[t] EXCEPT !.status = "ACTIVE", !.expiry = "null"]
    BY <1>2, <1>7 DEF RenewInvite, AcceptInvite, Store
  <2>2. t \in ActiveAdmins => t \in ActiveAdmins'
    BY <1>2, <2>1 DEF ActiveAdmins, Rows, NoRow
  <2> QED BY <2>2, <1>4, <1>7 DEF RenewInvite, AcceptInvite, DeleteSpace, Serves
<1>8. CASE UpdateRole(p)
  <2>1. /\ req[p].actor \in ActiveAdmins
        /\ t = req[p].actor /\ req[p].role # "ADMIN" => ActiveAdmins # {req[p].actor}
    BY <1>t, <1>8 DEF Held, Outdated, UpdateRole, Serves, Listing, Target
  <2>2. CASE t # req[p].actor
    BY <2>1, <2>2, <1>3, <1>8 DEF UpdateRole, DeleteSpace, Serves
  <2>3. CASE t = req[p].actor /\ req[p].role = "ADMIN"
    <3>1. \/ members'[t] = members[t]
          \/ members'[t] = [members[t] EXCEPT !.role = "ADMIN"]
      BY <1>2, <1>8, <2>3 DEF UpdateRole, Store
    <3>2. t \in ActiveAdmins' BY <1>2, <2>1, <2>3, <3>1 DEF ActiveAdmins, Rows, NoRow
    <3> QED BY <3>2
  <2>4. CASE t = req[p].actor /\ req[p].role # "ADMIN"
    <3>1. PICK u \in ActiveAdmins : u # t BY <2>1, <2>4
    <3> QED BY <3>1, <1>3, <1>8 DEF UpdateRole, DeleteSpace, Serves
  <2> QED BY <2>2, <2>3, <2>4
<1>9. CASE Remove(p)
  <2>1. PICK u \in ActiveAdmins : u # t
    <3>1. CASE Serves(p, "remove")
      <4>1. /\ req[p].actor \in ActiveAdmins
            /\ t = req[p].actor => ActiveAdmins # {req[p].actor}
        BY <1>t, <3>1 DEF Held, Outdated, Serves, Listing, Target
      <4> QED BY <4>1
    <3>2. CASE Serves(p, "leave")
      <4>1. t = req[p].actor /\ ActiveAdmins # {req[p].actor}
        BY <1>t, <3>2 DEF Held, Outdated, Serves, Listing, Target
      <4> QED BY <4>1
    <3> QED BY <1>9, <3>1, <3>2 DEF Remove
  <2> QED BY <2>1, <1>3, <1>9 DEF Remove, DeleteSpace, Serves
\* An account deleted twice: its rows were gone.
<1>10. CASE DeleteAccount(p)
  <2>1. accounts[t] = "deleted" BY <1>t, <1>2, <1>10 DEF TypeOK, DeleteAccount
  <2>2. members[t].id = 0 BY <1>t, <1>2, <2>1 DEF RowsHaveUsers
  <2>3. t \notin ActiveAdmins BY <1>2, <2>2, RowIds DEF ActiveAdmins
  <2> QED BY <2>3, <1>4, <1>10 DEF DeleteAccount, DeleteSpace, Serves
<1>11. CASE DeleteSpace(p) BY <1>11 DEF DeleteSpace
<1> QED BY <1>5, <1>6, <1>7, <1>8, <1>9, <1>10, <1>11 DEF Commit

\* The last admin of a space is taken only by a request that decided by outdated
\* rows, or with an account (assertIsNotLastAdmin).
THEOREM LastAdminOnlyByOutdated == Spec => LastAdminStays
<1>1. ASSUME Inv, [Next]_vars,
             ActiveAdmins # {}, ActiveAdmins' = {}, space' = "live", UNCHANGED accounts
      PROVE  \E p \in Requests : Commit(p) /\ Outdated(p)
  <2>1. ~(members' = members) BY <1>1 DEF ActiveAdmins
  <2>2. ASSUME NEW u \in Users, Expire(u) PROVE FALSE
    <3>1. members \in [Users -> Rows] BY <1>1 DEF Inv, TypeOK
    <3>2. \A v \in Users : members'[v].status = members[v].status
                           /\ members'[v].role = members[v].role
      <4>1. members[u] \in Rows BY <3>1
      <4> QED BY <2>2, <3>1, <4>1 DEF Expire, Rows, NoRow
    <3> QED BY <1>1, <3>2 DEF ActiveAdmins
  <2>3. PICK p \in Requests : Commit(p)
    BY <1>1, <2>1, <2>2 DEF Next, Read, Fail, Check, SignUp, Activate, vars
  <2> QED BY <1>1, <2>3, CommitLeavesAdmin
<1>2. Inv /\ [Next]_vars
        => [ActiveAdmins # {} /\ ActiveAdmins' = {} /\ space' = "live" /\ UNCHANGED accounts
              => \E p \in Requests : Commit(p) /\ Outdated(p)]_vars
  BY <1>1
<1> QED BY <1>2, Invariant, PTL DEF Spec, LastAdminStays
-----------------------------------------------------------------------------
(* The audit log.                                                           *)

\* A user about whom requests never overlapped has one request at most.
Alone ==
  \A u \in Users \ mixed, p, q \in Requests :
    pc[p] # "idle" /\ pc[q] # "idle" /\ Concerns(req[p], u) /\ Concerns(req[q], u) => p = q

\* The same row, whether or not it expired.
SameRow(r1, r2) == r1.id = r2.id /\ r1.status = r2.status /\ r1.role = r2.role

\* What a request has read of such a user is so until it commits.
Current ==
  \A p \in Requests :
    pc[p] = "write" /\ req[p].op # "dissolve" /\ Target(p) \notin mixed
      => SameRow(row[p], members[Target(p)])

AuditInv == Alone /\ Current /\ AuditAgrees

\* A commit changes the rows and the log of those whom it concerns.
LEMMA CommitConcerns ==
  ASSUME Inv, NEW p \in Requests, Commit(p)
  PROVE  /\ pc[p] = "write" /\ Done(p) /\ req[p].op \in Ops /\ Target(p) \in Users
         /\ \A u \in Users : ~Concerns(req[p], u) =>
              members'[u] = members[u] /\ trail'[u] = trail[u]
         /\ \A u \in Users : Exists(u)' => Exists(u)
<1>t. TypeOK BY DEF Inv
<1>1. pc[p] = "write" /\ Done(p) /\ req[p].op \in Ops
  BY DEF Commit, Invite, Reinvite, RenewInvite, AcceptInvite, DeclineInvite, UpdateRole,
         Remove, DeleteAccount, DeleteSpace, Serves, Ops
<1>2. Target(p) \in Users BY <1>t, <1>1, HeldTypes DEF Target
<1>3. ASSUME NEW u \in Users, ~Concerns(req[p], u)
      PROVE  members'[u] = members[u] /\ trail'[u] = trail[u]
  <2>1. u # Target(p) /\ ~DeleteSpace(p)
    BY <1>3 DEF Concerns, Target, DeleteSpace, Serves
  <2> QED
    BY <1>t, <2>1
    DEF TypeOK, Commit, Invite, Reinvite, RenewInvite, AcceptInvite, DeclineInvite,
        UpdateRole, Remove, DeleteAccount, Store, Record
<1>4. ASSUME NEW u \in Users, Exists(u)' PROVE Exists(u)
  <2>1. space = "live"
    BY <1>4 DEF Exists, Commit, Invite, Reinvite, RenewInvite, AcceptInvite, DeclineInvite,
                UpdateRole, Remove, DeleteAccount, DeleteSpace
  <2>2. accounts[u] # "deleted"
    BY <1>t, <1>2, <1>4
    DEF TypeOK, Exists, Commit, Invite, Reinvite, RenewInvite, AcceptInvite, DeclineInvite,
        UpdateRole, Remove, DeleteAccount, DeleteSpace, Activated
  <2> QED BY <2>1, <2>2 DEF Exists
<1> QED BY <1>1, <1>2, <1>3, <1>4

\* A commit about a user whom no other concerned meanwhile records what it does.
LEMMA CommitRecords ==
  ASSUME Inv, AuditInv, NEW p \in Requests, Commit(p),
         NEW t \in Users \ mixed, t = Target(p), Exists(t)'
  PROVE  trail'[t] = [status |-> members'[t].status, role |-> members'[t].role]
<1> DEFINE m == members[t]
<1>t. TypeOK /\ Held BY DEF Inv
<1>1. /\ pc[p] = "write" /\ req[p].op \in Ops /\ t \in Users /\ Exists(t)
  BY CommitConcerns
<1>2. /\ members \in [Users -> Rows] /\ trail \in [Users -> Trails] /\ m \in Rows
      /\ row[p] \in Rows /\ req[p].role \in Roles
  BY <1>t, <1>1, HeldTypes DEF TypeOK
<1>3. trail[t] = [status |-> m.status, role |-> m.role]
  BY <1>1 DEF AuditInv, AuditAgrees
<1>4. req[p].op # "dissolve" => SameRow(row[p], m) /\ Hits(p)
  BY <1>1 DEF AuditInv, Current, SameRow, Hits
<1>5. CASE Invite(p)
  BY <1>1, <1>2, <1>5 DEF Invite, Record, FreshInvite
<1>6. CASE Reinvite(p)
  <2>1. row[p].status = "INVITED" /\ Hits(p) /\ SameRow(row[p], m)
    BY <1>t, <1>2, <1>4, <1>6, RowIds DEF Reinvite, Held, Serves
  <2>2. members'[t] = [m EXCEPT !.role = req[p].role, !.expiry = "ahead"]
    BY <1>1, <1>2, <1>6, <2>1 DEF Reinvite, Store
  <2>3. members'[t].status = "INVITED" /\ members'[t].role = req[p].role
    BY <1>2, <2>1, <2>2 DEF SameRow, Rows, NoRow
  <2> QED BY <1>1, <1>2, <1>6, <2>3 DEF Reinvite, Record
<1>7. CASE RenewInvite(p)
  <2>1. members'[t] = [m EXCEPT !.expiry = "ahead"] /\ trail' = trail
    BY <1>1, <1>2, <1>4, <1>7 DEF RenewInvite, Store, Serves
  <2> QED BY <1>2, <1>3, <2>1 DEF Rows, NoRow
<1>8. CASE AcceptInvite(p) \/ DeclineInvite(p)
  <2>1. Hits(p) BY <1>4, <1>8 DEF AcceptInvite, DeclineInvite, Serves
  <2>2. PICK status \in {"ACTIVE", "DECLINED"} :
          /\ members'[t] = [m EXCEPT !.status = status, !.expiry = "null"]
          /\ trail'[t] = [status |-> status, role |-> trail[t].role]
    BY <1>1, <1>2, <1>8, <2>1 DEF AcceptInvite, DeclineInvite, Store, Record
  <2> QED BY <1>2, <1>3, <2>2 DEF Rows, NoRow
<1>9. CASE UpdateRole(p)
  <2>1. Hits(p) BY <1>4, <1>9 DEF UpdateRole, Serves
  <2>2. /\ members'[t] = [m EXCEPT !.role = req[p].role]
        /\ trail'[t] = [status |-> trail[t].status, role |-> req[p].role]
    BY <1>1, <1>2, <1>9, <2>1 DEF UpdateRole, Store, Record
  <2> QED BY <1>2, <1>3, <2>2 DEF Rows, NoRow
<1>10. CASE Remove(p)
  <2>1. Hits(p) BY <1>4, <1>10 DEF Remove, Serves
  <2>2. members'[t] = NoRow /\ trail'[t] = NotMember
    BY <1>1, <1>2, <1>10, <2>1 DEF Remove, Store
  <2> QED BY <2>2 DEF NoRow, NotMember
<1>11. CASE DeleteAccount(p) \/ DeleteSpace(p)
  BY <1>t, <1>1, <1>11 DEF TypeOK, Exists, DeleteAccount, DeleteSpace
<1> QED BY <1>5, <1>6, <1>7, <1>8, <1>9, <1>10, <1>11 DEF Commit

LEMMA StepAudit == Inv /\ AuditInv /\ [Next]_vars => AuditInv'
<1> SUFFICES ASSUME Inv, AuditInv, [Next]_vars PROVE AuditInv'
  OBVIOUS
<1> USE DEF requests
<1>t. TypeOK /\ Alone /\ Current /\ AuditAgrees BY DEF Inv, AuditInv
\* Requests that end, or go on, without any change of rows and log.
<1>1. ASSUME NEW p \in Requests, NEW r \in AnyRequest, Check(p, r) PROVE AuditInv'
  <2>1. /\ pc'[p] # "idle" /\ req'[p] = r
        /\ pc'[p] = "write" => r.op \in Direct
        /\ r.op \in Informed => row'[p] = members[r.actor]
        /\ r.op \in Own => r.target = r.actor
        /\ \A q \in Requests \ {p} : pc'[q] = pc[q] /\ req'[q] = req[q] /\ row'[q] = row[q]
        /\ UNCHANGED <<members, inserted, accounts, space, trail>>
    BY <1>1, <1>t DEF TypeOK, Check
  <2>2. /\ mixed \subseteq mixed'
        /\ \A u \in Users \ mixed', q \in Requests \ {p} :
             ~(pc[q] # "idle" /\ Concerns(req[q], u) /\ Concerns(r, u))
    BY <1>1 DEF Check
  <2>3. Alone'
    <3> SUFFICES ASSUME NEW u \in Users \ mixed', NEW q1 \in Requests, NEW q2 \in Requests,
                        pc'[q1] # "idle", pc'[q2] # "idle",
                        Concerns(req'[q1], u), Concerns(req'[q2], u)
                 PROVE  q1 = q2
      BY DEF Alone, Concerns
    <3> QED BY <1>t, <2>1, <2>2 DEF Alone
  <2>4. Current'
    <3> SUFFICES ASSUME NEW q \in Requests, pc'[q] = "write", req'[q].op # "dissolve",
                        req'[q].target \notin mixed'
                 PROVE  SameRow(row'[q], members'[req'[q].target])
      BY DEF Current, Target
    <3>1. CASE q = p
      <4>1. r.op \in Informed /\ r.op \in Own
        BY <2>1, <3>1 DEF Direct, Informed, Own
      <4> QED BY <2>1, <3>1, <4>1 DEF SameRow
    <3>2. CASE q # p
      BY <1>t, <2>1, <2>2, <3>2 DEF Current, Target
    <3> QED BY <3>1, <3>2
  <2>5. AuditAgrees' BY <1>t, <2>1, <2>2 DEF AuditAgrees, Exists
  <2> QED BY <2>3, <2>4, <2>5 DEF AuditInv
<1>2. ASSUME NEW p \in Requests, Read(p) PROVE AuditInv'
  <2>1. /\ pc[p] = "read" /\ row'[p] = members[Target(p)]
        /\ \A q \in Requests \ {p} : pc'[q] = pc[q] /\ row'[q] = row[q]
        /\ UNCHANGED <<members, accounts, space, trail, req, mixed>>
    BY <1>2, <1>t DEF TypeOK, Read
  <2>2. Alone' BY <1>t, <2>1 DEF Alone, Concerns
  <2>3. Current' BY <1>t, <2>1 DEF Current, Target, SameRow
  <2>4. AuditAgrees' BY <1>t, <2>1 DEF AuditAgrees, Exists
  <2> QED BY <2>2, <2>3, <2>4 DEF AuditInv
<1>3. ASSUME NEW p \in Requests, Done(p)
      PROVE  /\ Alone' /\ mixed' = mixed /\ pc'[p] = "idle"
             /\ \A q \in Requests \ {p} : pc'[q] = pc[q] /\ req'[q] = req[q] /\ row'[q] = row[q]
  <2>1. /\ mixed' = mixed /\ pc'[p] = "idle"
        /\ \A q \in Requests \ {p} : pc'[q] = pc[q] /\ req'[q] = req[q] /\ row'[q] = row[q]
    BY <1>3, <1>t DEF TypeOK, Done
  <2>2. Alone'
    <3> SUFFICES ASSUME NEW u \in Users \ mixed, NEW q1 \in Requests, NEW q2 \in Requests,
                        pc'[q1] # "idle", pc'[q2] # "idle",
                        Concerns(req'[q1], u), Concerns(req'[q2], u)
                 PROVE  q1 = q2
      BY <2>1 DEF Alone, Concerns
    <3> QED BY <1>t, <2>1 DEF Alone
  <2> QED BY <2>1, <2>2
<1>4. ASSUME NEW p \in Requests, Fail(p) PROVE AuditInv'
  <2>1. Done(p) /\ UNCHANGED <<members, accounts, space, trail>> BY <1>4 DEF Fail
  <2>2. Current' BY <1>t, <1>3, <2>1 DEF Current, Target
  <2>3. AuditAgrees' BY <1>t, <1>3, <2>1 DEF AuditAgrees, Exists
  <2> QED BY <1>3, <2>1, <2>2, <2>3 DEF AuditInv
<1>5. ASSUME NEW p \in Requests, Commit(p) PROVE AuditInv'
  <2>1. /\ pc[p] = "write" /\ Done(p) /\ Target(p) \in Users
        /\ \A u \in Users : ~Concerns(req[p], u) =>
             members'[u] = members[u] /\ trail'[u] = trail[u]
        /\ \A u \in Users : Exists(u)' => Exists(u)
    BY <1>5, CommitConcerns
  <2>2. Alone' /\ mixed' = mixed BY <1>3, <2>1
  <2>3. Current'
    <3> SUFFICES ASSUME NEW q \in Requests, pc'[q] = "write", req'[q].op # "dissolve",
                        req'[q].target \notin mixed
                 PROVE  SameRow(row'[q], members'[req'[q].target])
      BY <2>2 DEF Current, Target
    <3>1. /\ q # p /\ pc[q] = "write" /\ req'[q] = req[q] /\ row'[q] = row[q]
      BY <1>3, <2>1
    <3>2. Target(q) \in Users
      BY <1>t, MembersAssumption DEF TypeOK, AnyRequest, NoRequest, Target
    <3>3. Concerns(req[q], Target(q)) BY DEF Concerns, Target
    <3>4. ~Concerns(req[p], Target(q))
      BY <1>t, <2>1, <3>1, <3>2, <3>3 DEF Alone, Target
    <3>5. members'[Target(q)] = members[Target(q)] BY <2>1, <3>2, <3>4
    <3> QED BY <1>t, <3>1, <3>5 DEF Current, Target
  <2>4. AuditAgrees'
    <3> SUFFICES ASSUME NEW u \in Users \ mixed, Exists(u)'
                 PROVE  trail'[u] = [status |-> members'[u].status, role |-> members'[u].role]
      BY <2>2 DEF AuditAgrees
    <3>1. CASE u = Target(p) BY <1>5, <3>1, CommitRecords
    <3>2. CASE u # Target(p)
      <4>1. ~DeleteSpace(p) BY DEF DeleteSpace, Exists
      <4>2. req[p].op # "dissolve"
        BY <1>5, <4>1
        DEF Commit, Invite, Reinvite, RenewInvite, AcceptInvite, DeclineInvite, UpdateRole,
            Remove, DeleteAccount, Serves
      <4>3. ~Concerns(req[p], u) BY <3>2, <4>2 DEF Concerns, Target
      <4> QED BY <1>t, <2>1, <4>3 DEF AuditAgrees
    <3> QED BY <3>1, <3>2
  <2> QED BY <2>2, <2>3, <2>4 DEF AuditInv
<1>6. ASSUME NEW u \in Users, SignUp(u) \/ Activate(u) PROVE AuditInv'
  <2>1. /\ UNCHANGED <<members, space, trail, pc, req, row, mixed>>
        /\ \A v \in Users : accounts'[v] # "deleted" => accounts[v] # "deleted"
    BY <1>6, <1>t DEF TypeOK, SignUp, Activate
  <2>2. Alone' BY <1>t, <2>1 DEF Alone, Concerns
  <2>3. Current' BY <1>t, <2>1 DEF Current, Target
  <2>4. AuditAgrees' BY <1>t, <2>1 DEF AuditAgrees, Exists
  <2> QED BY <2>2, <2>3, <2>4 DEF AuditInv
<1>7. ASSUME NEW u \in Users, Expire(u) PROVE AuditInv'
  <2>1. members[u] \in Rows BY <1>t DEF TypeOK
  <2>2. /\ \A v \in Users : SameRow(members[v], members'[v])
        /\ UNCHANGED <<accounts, space, trail, pc, req, row, mixed>>
    BY <1>7, <1>t, <2>1 DEF TypeOK, Expire, SameRow, Rows, NoRow
  <2>3. Alone' BY <1>t, <2>2 DEF Alone, Concerns
  <2>4. Current'
    <3>1. \A q \in Requests : Target(q) \in Users
      BY <1>t, MembersAssumption DEF TypeOK, AnyRequest, NoRequest, Target
    <3> QED BY <1>t, <2>2, <3>1 DEF Current, Target, SameRow
  <2>5. AuditAgrees' BY <1>t, <2>2 DEF AuditAgrees, Exists, SameRow
  <2> QED BY <2>3, <2>4, <2>5 DEF AuditInv
<1>8. CASE UNCHANGED vars
  <2>1. UNCHANGED <<members, accounts, space, trail, pc, req, row, mixed>>
    BY <1>8 DEF vars
  <2>2. Alone' BY <1>t, <2>1 DEF Alone, Concerns
  <2>3. Current' BY <1>t, <2>1 DEF Current, Target
  <2>4. AuditAgrees' BY <1>t, <2>1 DEF AuditAgrees, Exists
  <2> QED BY <2>2, <2>3, <2>4 DEF AuditInv
<1> QED BY <1>1, <1>2, <1>4, <1>5, <1>6, <1>7, <1>8 DEF Next

\* The audit log tells the membership and the role of every user about whom no two
\* requests overlapped (SpaceAuditRepository.record in each operation).
THEOREM LogAgrees == Spec => []AuditAgrees
<1>1. Init => AuditInv
  BY MembersAssumption
  DEF Init, AuditInv, Alone, Current, AuditAgrees, Exists, NoRow, NotMember
<1>2. AuditInv => AuditAgrees BY DEF AuditInv
<1> QED BY <1>1, <1>2, StepAudit, Invariant, PTL DEF Spec
=============================================================================
