--------------------------- MODULE AccountLinking ---------------------------
(***************************************************************************)
(* Accounts, and the identities, emails and wallets that lead to them:     *)
(*   src/src/modules/users/domain/users.repository.ts                      *)
(*   src/src/modules/wallets/domain/wallets.repository.ts                  *)
(*   src/src/modules/auth/routes/auth.service.ts          wallet sign-in   *)
(*   src/src/modules/auth/oidc/routes/oidc-auth.service.ts  identity login *)
(*                                                                         *)
(* No request holds a lock: each looks rows up, in statements of their     *)
(* own, and then writes conditionally, with unique indexes to settle what  *)
(* has happened meanwhile.  Every statement is a step; a transaction that  *)
(* inserts several rows shows them at once.  A unique index is the guard   *)
(* of the step that inserts.                                               *)
(*                                                                         *)
(* Encryption and blind indexes are left out (equal emails have equal      *)
(* indexes), as are memberships (SpaceMembers) and what tokens contain     *)
(* besides the account and how it was reached.                             *)
(***************************************************************************)
EXTENDS Naturals, FiniteSets

CONSTANTS Identities,  \* what a login brings: external user id and verified email
          Emails,      \* emails that members invite
          Wallets,
          Requests,    \* bound: requests served at a time
          MaxUsers     \* bound: accounts ever created

CONSTANT None          \* null

Exts == {i.ext : i \in Identities}
AllEmails == Emails \union {i.email : i \in Identities}

ASSUME LinkingAssumption ==
  /\ \A i \in Identities : i = [ext |-> i.ext, email |-> i.email]
  /\ Identities \intersect Wallets = {}
  /\ None \notin Exts \union AllEmails \union Wallets \union Identities
  /\ MaxUsers \in Nat \ {0}

Ids == 1 .. MaxUsers

VARIABLES
  users,      \* the rows of users
  created,    \* ids handed out
  holder,     \* wallets: the account of each address, 0 without a row
  sessions,   \* tokens handed out: the account, and how it was reached
  req,        \* requests
  disturbed,  \* history: removals during which other requests changed wallets
  stranded    \* history: accounts that such a removal took the last wallet from

tables == <<users, created, holder>>
vars == <<tables, sessions, req, disturbed, stranded>>

NoUser == [status |-> "none", ext |-> None, email |-> None]
Rows == [status : {"PENDING", "ACTIVE"}, ext : Exts \union {None},
         email : AllEmails \union {None}]
NoRequest == [at |-> "idle", identity |-> None, user |-> 0,
              signer |-> None, wallet |-> None, status |-> "ACTIVE"]

TypeOK ==
  /\ users \in [Ids -> Rows \union {NoUser}]
  /\ created \in 0 .. MaxUsers
  /\ \A u \in Ids : users[u] # NoUser => u <= created
  /\ \A u, v \in Ids : u # v => /\ users[u].ext = None \/ users[u].ext # users[v].ext
                                /\ users[u].email = None \/ users[u].email # users[v].email
  /\ holder \in [Wallets -> 0 .. MaxUsers]
  /\ \A w \in Wallets : holder[w] # 0 => users[holder[w]] # NoUser
  /\ sessions \subseteq [user : Ids, via : Identities \union Wallets]
  /\ req \in [Requests -> [at : {"idle", "claim", "claiming", "insert", "refetch",
                                 "backfill", "reread", "create", "add", "owned", "remove"},
                           identity : Identities \union {None}, user : 0 .. MaxUsers,
                           signer : Wallets \union {None}, wallet : Wallets \union {None},
                           status : {"PENDING", "ACTIVE"}]]
  /\ disturbed \subseteq Requests
  /\ stranded \subseteq Ids

\* Accounts from before emails were stored may have an identity alone.
Init ==
  /\ users \in {[u \in Ids |-> NoUser]} \union
               {[[u \in Ids |-> NoUser] EXCEPT ![1] = [status |-> "ACTIVE",
                   ext |-> x, email |-> None]] : x \in Exts}
  /\ created = IF users[1] = NoUser THEN 0 ELSE 1
  /\ holder = [w \in Wallets |-> 0]
  /\ sessions = {}
  /\ req = [r \in Requests |-> NoRequest]
  /\ disturbed = {} /\ stranded = {}

Live == {u \in Ids : users[u] # NoUser}
WithExt(x) == {u \in Live : users[u].ext = x}
WithEmail(e) == {u \in Live : users[u].email = e}

\* The request goes on at another statement, with the account it has read.
Goto(r, at, user) == req' = [req EXCEPT ![r].at = at, ![r].user = user]
End(r) == req' = [req EXCEPT ![r] = NoRequest] /\ disturbed' = disturbed \ {r}
Answer(u, via) == sessions' = sessions \union {[user |-> u, via |-> via]}

\* A new row, with the next id.
Insert(row) ==
  /\ created < MaxUsers
  /\ created' = created + 1
  /\ users' = [users EXCEPT ![created'] = row]

-----------------------------------------------------------------------------
(* findOrCreateByExtUserIdAndEmail.                                         *)

\* reconcileEmail, on the row just read: the email matches, or there is none yet,
\* or the login is refused.
Reconcile(r, i, u) ==
  \/ users[u].email = i.email /\ Answer(u, i) /\ End(r)
  \/ /\ users[u].email = None
     /\ req' = [req EXCEPT ![r].at = "backfill", ![r].user = u, ![r].identity = i]
     /\ UNCHANGED <<sessions, disturbed>>
  \/ users[u].email \notin {None, i.email} /\ End(r) /\ UNCHANGED sessions

\* findByExtUserId
Login(r, i) ==
  /\ req[r].at = "idle"
  /\ \/ \E u \in WithExt(i.ext) : Reconcile(r, i, u)
     \/ /\ WithExt(i.ext) = {}
        /\ req' = [req EXCEPT ![r].at = "claim", ![r].identity = i]
        /\ UNCHANGED <<sessions, disturbed>>
  /\ UNCHANGED <<tables, stranded>>

Claimable(row) == row.status = "PENDING" /\ row.ext = None

\* claimPendingByEmail looks for a candidate: UserEmailAlreadyInUseError if it is
\* not a placeholder.
FindCandidate(r) ==
  /\ req[r].at = "claim"
  /\ LET found == WithEmail(req[r].identity.email)
     IN  \/ found = {} /\ Goto(r, "insert", 0) /\ UNCHANGED disturbed
         \/ \E u \in found :
              \/ Claimable(users[u]) /\ Goto(r, "claiming", u) /\ UNCHANGED disturbed
              \/ ~Claimable(users[u]) /\ End(r)
  /\ UNCHANGED <<tables, sessions, stranded>>

\* The placeholder is claimed unless it is none any more.  The index on external
\* ids may refuse that, with an error that nobody catches.
Claim_Unconditional(r) ==
  /\ req[r].at = "claiming"
  /\ LET i == req[r].identity  u == req[r].user
     IN  \/ /\ users[u] # NoUser /\ WithExt(i.ext) \subseteq {u}
            /\ users' = [users EXCEPT ![u].status = "ACTIVE", ![u].ext = i.ext]
            /\ Answer(u, i) /\ End(r)
         \/ /\ users[u] = NoUser
            /\ Goto(r, "insert", 0) /\ UNCHANGED <<users, sessions, disturbed>>
         \/ /\ users[u] # NoUser /\ ~(WithExt(i.ext) \subseteq {u})
            /\ End(r) /\ UNCHANGED <<users, sessions>>
  /\ UNCHANGED <<created, holder, stranded>>
Claim(r) ==
  /\ req[r].at = "claiming"
  /\ LET i == req[r].identity  u == req[r].user
     IN  \/ /\ Claimable(users[u]) /\ WithExt(i.ext) = {}
            /\ users' = [users EXCEPT ![u].status = "ACTIVE", ![u].ext = i.ext]
            /\ Answer(u, i) /\ End(r)
         \/ /\ ~Claimable(users[u])
            /\ Goto(r, "insert", 0) /\ UNCHANGED <<users, sessions, disturbed>>
         \/ /\ Claimable(users[u]) /\ WithExt(i.ext) # {}
            /\ End(r) /\ UNCHANGED <<users, sessions>>
  /\ UNCHANGED <<created, holder, stranded>>

\* create: a taken external id leads back to the account that took it, a taken
\* email is an error.
InsertUser(r) ==
  /\ req[r].at = "insert"
  /\ LET i == req[r].identity
     IN  \/ /\ WithExt(i.ext) = {} /\ WithEmail(i.email) = {}
            /\ Insert([status |-> "ACTIVE", ext |-> i.ext, email |-> i.email])
            /\ Answer(created', i) /\ End(r)
         \/ /\ WithExt(i.ext) # {}
            /\ Goto(r, "refetch", 0) /\ UNCHANGED <<users, created, sessions, disturbed>>
         \/ /\ WithExt(i.ext) = {} /\ WithEmail(i.email) # {}
            /\ End(r) /\ UNCHANGED <<users, created, sessions>>
  /\ UNCHANGED <<holder, stranded>>

Refetch(r) ==
  /\ req[r].at = "refetch"
  /\ LET i == req[r].identity
     IN  \/ \E u \in WithExt(i.ext) : Reconcile(r, i, u)
         \/ WithExt(i.ext) = {} /\ End(r) /\ UNCHANGED sessions
  /\ UNCHANGED <<tables, stranded>>

\* persistEmail writes only where there is no email yet.
PersistEmail(r) ==
  /\ req[r].at = "backfill"
  /\ LET i == req[r].identity  u == req[r].user
         unset == u \in Live /\ users[u].email = None
     IN  \/ /\ unset /\ WithEmail(i.email) = {}
            /\ users' = [users EXCEPT ![u].email = i.email]
            /\ Answer(u, i) /\ End(r)
         \/ /\ ~unset
            /\ Goto(r, "reread", u) /\ UNCHANGED <<users, sessions, disturbed>>
         \/ /\ unset /\ WithEmail(i.email) # {}
            /\ End(r) /\ UNCHANGED <<users, sessions>>
  /\ UNCHANGED <<created, holder, stranded>>

\* A write that found an email: what landed counts.
Reread(r) ==
  /\ req[r].at = "reread"
  /\ LET i == req[r].identity  u == req[r].user
     IN  IF u \in Live /\ users[u].email \in {None, i.email}
         THEN Answer(u, i) ELSE UNCHANGED sessions
  /\ End(r)
  /\ UNCHANGED <<tables, stranded>>

-----------------------------------------------------------------------------
(* Invitations by email, and accounts of wallets.                           *)

\* findOrCreateByEmail, when the transaction of the invitation commits.
InviteByEmail(e) ==
  /\ WithEmail(e) = {}
  /\ Insert([status |-> "PENDING", ext |-> None, email |-> e])
  /\ UNCHANGED <<holder, sessions, req, disturbed, stranded>>

\* Removals under way see the wallets change.
Disturb(r) == {q \in Requests \ {r} : req[q].at \in {"owned", "remove"}}

\* findOrCreateByWalletAddress looks for the wallet: a sign-in, or an invitation
\* that creates a PENDING account; and createWithWallet, of a session whose wallet
\* has no account any more.
FindWallet(r, w, status) ==
  /\ req[r].at = "idle"
  /\ \/ /\ holder[w] = 0
        /\ req' = [req EXCEPT ![r].at = "create", ![r].wallet = w, ![r].status = status]
        /\ UNCHANGED sessions
     \/ /\ holder[w] # 0 /\ status = "ACTIVE"
        /\ Answer(holder[w], w) /\ UNCHANGED req
  /\ UNCHANGED <<tables, disturbed, stranded>>

\* User and wallet in one transaction; the loser of a race for the wallet deletes
\* its user again, and a sign-in goes on with the winner's.
CreateForWallet_KeepsLoser(r) ==
  /\ req[r].at = "create"
  /\ LET w == req[r].wallet  status == req[r].status
     IN  /\ Insert([status |-> status, ext |-> None, email |-> None])
         /\ IF holder[w] = 0 THEN holder' = [holder EXCEPT ![w] = created']
                             ELSE UNCHANGED holder
         /\ IF status = "ACTIVE" THEN Answer(holder'[w], w) ELSE UNCHANGED sessions
         /\ req' = [req EXCEPT ![r] = NoRequest]
         /\ disturbed' = disturbed \union Disturb(r)
  /\ UNCHANGED stranded
CreateForWallet(r) ==
  /\ req[r].at = "create"
  /\ LET w == req[r].wallet  status == req[r].status
     IN  /\ \/ /\ holder[w] = 0
               /\ Insert([status |-> status, ext |-> None, email |-> None])
               /\ holder' = [holder EXCEPT ![w] = created']
               /\ disturbed' = disturbed \union Disturb(r)
            \/ holder[w] # 0 /\ UNCHANGED <<users, created, holder, disturbed>>
         /\ IF status = "ACTIVE" THEN Answer(holder'[w], w) ELSE UNCHANGED sessions
         /\ req' = [req EXCEPT ![r] = NoRequest]
  /\ UNCHANGED stranded

\* A session goes with its wallet, whichever account that had.
SignedBy(w) == \E s \in sessions : s.via = w

\* addWalletToUser: the wallet is new, and the signer's account is looked up.
AddWallet(r, s, w) ==
  /\ req[r].at = "idle"
  /\ SignedBy(s) /\ holder[s] # 0 /\ holder[w] = 0
  /\ req' = [req EXCEPT ![r].at = "add", ![r].wallet = w, ![r].user = holder[s]]
  /\ UNCHANGED <<tables, sessions, disturbed, stranded>>

\* The unique index and the foreign key refuse the rest.
InsertWallet(r) ==
  /\ req[r].at = "add"
  /\ LET w == req[r].wallet  u == req[r].user
     IN  \/ /\ holder[w] = 0 /\ u \in Live
            /\ holder' = [holder EXCEPT ![w] = u]
            /\ disturbed' = disturbed \union Disturb(r)
         \/ (holder[w] # 0 \/ u \notin Live) /\ UNCHANGED <<holder, disturbed>>
  /\ req' = [req EXCEPT ![r] = NoRequest]
  /\ UNCHANGED <<users, created, sessions, stranded>>

\* deleteWalletFromUser: not the signer's own wallet, of the signer's account ...
RemoveWallet(r, s, w) ==
  /\ req[r].at = "idle"
  /\ SignedBy(s) /\ s # w /\ holder[s] # 0
  /\ req' = [req EXCEPT ![r].at = "owned", ![r].signer = s, ![r].wallet = w,
                        ![r].user = holder[s]]
  /\ UNCHANGED <<tables, sessions, disturbed, stranded>>

\* ... which has that wallet ...
FindOwned_AnyAccount(r) ==
  /\ req[r].at = "owned"
  /\ holder[req[r].wallet] # 0 /\ Goto(r, "remove", req[r].user)
  /\ UNCHANGED <<tables, sessions, disturbed, stranded>>
FindOwned(r) ==
  /\ req[r].at = "owned"
  /\ \/ /\ holder[req[r].wallet] = req[r].user
        /\ Goto(r, "remove", req[r].user) /\ UNCHANGED disturbed
     \/ holder[req[r].wallet] # req[r].user /\ End(r)
  /\ UNCHANGED <<tables, sessions, stranded>>

\* ... and is then deleted by its address, whichever account has it by now.
DeleteByAddress(r) ==
  /\ req[r].at = "remove"
  /\ LET w == req[r].wallet  u == holder[w]
     IN  /\ holder' = [holder EXCEPT ![w] = 0]
         /\ stranded' = IF u # 0 /\ r \in disturbed
                        THEN stranded \union {u} ELSE stranded
         /\ disturbed' = (disturbed \union Disturb(r)) \ {r}
  /\ req' = [req EXCEPT ![r] = NoRequest]
  /\ UNCHANGED <<users, created, sessions>>

\* delete: the wallets go with the account.
DeleteAccount_LeavesWallets(u) ==
  /\ u \in Live /\ \E s \in sessions : s.user = u
  /\ users' = [users EXCEPT ![u] = NoUser]
  /\ disturbed' = disturbed \union {q \in Requests : req[q].at \in {"owned", "remove"}}
  /\ UNCHANGED <<created, holder, sessions, req, stranded>>
DeleteAccount(u) ==
  /\ u \in Live /\ \E s \in sessions : s.user = u
  /\ users' = [users EXCEPT ![u] = NoUser]
  /\ holder' = [w \in Wallets |-> IF holder[w] = u THEN 0 ELSE holder[w]]
  /\ disturbed' = disturbed \union {q \in Requests : req[q].at \in {"owned", "remove"}}
  /\ UNCHANGED <<created, sessions, req, stranded>>

\* activateIfPending, updateStatus: an account that was invited by its wallet acts.
Activate(u) ==
  /\ u \in Live /\ users[u].status = "PENDING" /\ \E s \in sessions : s.user = u
  /\ users' = [users EXCEPT ![u].status = "ACTIVE"]
  /\ UNCHANGED <<created, holder, sessions, req, disturbed, stranded>>

Next ==
  \/ \E r \in Requests :
       \/ \E i \in Identities : Login(r, i)
       \/ FindCandidate(r) \/ Claim(r) \/ InsertUser(r) \/ Refetch(r)
       \/ PersistEmail(r) \/ Reread(r)
       \/ \E w \in Wallets, status \in {"PENDING", "ACTIVE"} : FindWallet(r, w, status)
       \/ CreateForWallet(r) \/ InsertWallet(r) \/ FindOwned(r) \/ DeleteByAddress(r)
       \/ \E s, w \in Wallets : AddWallet(r, s, w) \/ RemoveWallet(r, s, w)
  \/ \E e \in Emails : InviteByEmail(e)
  \/ \E u \in Ids : DeleteAccount(u) \/ Activate(u)

Spec == Init /\ [][Next]_vars

-----------------------------------------------------------------------------
(* Properties.                                                              *)

\* However logins of one identity, logins that claim one placeholder and logins
\* that backfill one email race, an identity that was given a session for an
\* account is linked to it for as long as there is the account, and so is the
\* email it had verified (findOrCreateByExtUserIdAndEmail: "relies on unique
\* indexes to settle races").
SessionsKeepTheirAccount ==
  \A s \in sessions : s.via \in Identities /\ s.user \in Live =>
    users[s.user] = [status |-> "ACTIVE", ext |-> s.via.ext, email |-> s.via.email]

\* Every account can be entered: by its identity, by the login that will claim
\* the placeholder, or by a wallet.  Only a removal during which others changed
\* wallets may take the last one (deleteWalletFromUser: "Cannot remove the current
\* wallet"), and none is left behind by a lost race for a wallet.
EveryAccountHasAWayIn ==
  \A u \in Live : \/ users[u].ext # None
                  \/ users[u].email # None /\ Claimable(users[u])
                  \/ \E w \in Wallets : holder[w] = u
                  \/ u \in stranded

\* A wallet never moves from one account to another, and leaves its account only
\* with it or at the account's own demand; the wallets of others are removed only
\* by removals during which the wallets changed (deleteByAddress).
WalletsLeaveOnDemand ==
  [][\A w \in Wallets : holder[w] # 0 /\ holder'[w] # holder[w] =>
       /\ holder'[w] = 0
       /\ \/ users'[holder[w]] = NoUser
          \/ \E r \in Requests : /\ req[r].at = "remove" /\ req[r].wallet = w
                                 /\ req[r].user = holder[w] \/ r \in disturbed]_vars
=============================================================================
