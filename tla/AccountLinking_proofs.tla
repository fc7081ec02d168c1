------------------------ MODULE AccountLinking_proofs ------------------------
(***************************************************************************)
(* Proofs about AccountLinking, for any identities, emails, wallets and    *)
(* requests.                                                               *)
(***************************************************************************)
EXTENDS AccountLinking, TLAPS

\* An account that only wallets lead to.
Plain(u) == users[u] # NoUser => users[u].ext = None /\ users[u].email = None
\* The account, if there still is one, that a login has found for its identity.
LinkedTo(u, i) == users[u] # NoUser => users[u].ext = i.ext

RowsSound == \A u \in Live : users[u].ext # None => users[u].status = "ACTIVE"

\* What the holder of a session knows of the account.
SessionKnows(s) ==
  /\ s.user <= created
  /\ users[s.user] # NoUser =>
       IF s.via \in Identities
       THEN users[s.user] = [status |-> "ACTIVE", ext |-> s.via.ext, email |-> s.via.email]
       ELSE users[s.user].ext = None /\ users[s.user].email = None
SessionsKnow == \A s \in sessions : SessionKnows(s)

\* What a request knows at its next statement: nothing else about its account is
\* still sure.
RequestKnows(r) ==
  LET q == req[r] IN
  /\ q.user <= created
  /\ q.at \in {"claim", "claiming", "insert", "refetch", "backfill", "reread"} =>
       q.identity \in Identities
  /\ q.at \in {"create", "add", "owned", "remove"} => q.wallet \in Wallets
  /\ q.at \in {"claiming", "backfill", "reread", "add", "owned", "remove"} => q.user # 0
  /\ q.at = "claiming" => (users[q.user] # NoUser => users[q.user].email = q.identity.email)
  /\ q.at = "backfill" => LinkedTo(q.user, q.identity)
  /\ q.at = "reread" => /\ LinkedTo(q.user, q.identity)
                        /\ users[q.user] # NoUser => users[q.user].email # None
  /\ q.at = "add" => Plain(q.user)
RequestsKnow == \A r \in Requests : RequestKnows(r)

HoldersPlain == \A w \in Wallets : holder[w] # 0 => Plain(holder[w])

\* A removal that nobody has disturbed still sees both wallets where they were.
RemovalKnows(r) ==
  LET q == req[r] IN
  q.at \in {"owned", "remove"} /\ r \notin disturbed =>
    /\ q.signer \in Wallets /\ q.signer # q.wallet /\ holder[q.signer] = q.user
    /\ q.at = "remove" => holder[q.wallet] = q.user
RemovalsKnow == \A r \in Requests : RemovalKnows(r)

Inv == /\ TypeOK /\ RowsSound /\ SessionsKnow /\ RequestsKnow
       /\ HoldersPlain /\ RemovalsKnow /\ EveryAccountHasAWayIn

\* How rows may change: an account that was there before keeps its identity, its
\* email and its being active, and one of wallets remains so.
Evolve ==
  /\ created <= created'
  /\ \A u \in Ids : u <= created /\ users'[u] # NoUser =>
       /\ users[u] # NoUser
       /\ users[u].ext # None => users'[u].ext = users[u].ext
       /\ users[u].email # None => users'[u].email = users[u].email
       /\ users[u].status = "ACTIVE" => users'[u].status = "ACTIVE"
       /\ users[u].ext = None /\ users[u].email = None =>
            users'[u].ext = None /\ users'[u].email = None

-----------------------------------------------------------------------------
\* Rows have their fields, and what None is not.
LEMMA RowFields ==
  ASSUME TypeOK, NEW u \in Ids, users[u] # NoUser
  PROVE  /\ users[u] \in Rows /\ u <= created
         /\ users[u].status \in {"PENDING", "ACTIVE"}
         /\ users[u].ext \in Exts \union {None} /\ users[u].email \in AllEmails \union {None}
         /\ users[u] = [status |-> users[u].status, ext |-> users[u].ext,
                        email |-> users[u].email]
BY DEF TypeOK, Rows

LEMMA IdentityFields ==
  ASSUME NEW i \in Identities
  PROVE  /\ i.ext \in Exts /\ i.email \in AllEmails /\ i \notin Wallets /\ i # None
         /\ i.ext # None /\ i.email # None
BY LinkingAssumption DEF Exts, AllEmails

LEMMA InitInv == Init => Inv
<1> SUFFICES ASSUME Init PROVE Inv
  OBVIOUS
<1> USE LinkingAssumption DEF Init
<1>1. 1 \in Ids /\ 0 \notin Ids
  BY DEF Ids
<1>2. \A u \in Ids : users[u] # NoUser =>
        u = 1 /\ \E x \in Exts : users[u] = [status |-> "ACTIVE", ext |-> x, email |-> None]
  <2>1. CASE users = [u \in Ids |-> NoUser]
    BY <2>1, Zenon
  <2>2. CASE users \in {[[u \in Ids |-> NoUser] EXCEPT ![1] = [status |-> "ACTIVE",
                         ext |-> x, email |-> None]] : x \in Exts}
    BY <2>2
  <2> QED
    BY <2>1, <2>2
<1>3. None \notin Exts
  OBVIOUS
<1>4. TypeOK
  <2>1. users \in [Ids -> Rows \union {NoUser}]
    BY <1>1, <1>2 DEF Rows
  <2>2. \A u \in Ids : users[u] # NoUser => u <= created
    BY <1>1, <1>2 DEF Ids
  <2>3. \A u, v \in Ids : u # v => /\ users[u].ext = None \/ users[u].ext # users[v].ext
                                   /\ users[u].email = None \/ users[u].email # users[v].email
    BY <1>2, <1>3 DEF NoUser
  <2>4. created \in 0 .. MaxUsers
    OBVIOUS
  <2>5. req \in [Requests -> [at : {"idle", "claim", "claiming", "insert", "refetch",
                                 "backfill", "reread", "create", "add", "owned", "remove"},
                           identity : Identities \union {None}, user : 0 .. MaxUsers,
                           signer : Wallets \union {None}, wallet : Wallets \union {None},
                           status : {"PENDING", "ACTIVE"}]]
    BY DEF NoRequest
  <2> QED
    BY <2>1, <2>2, <2>3, <2>4, <2>5 DEF TypeOK
<1>5. RowsSound /\ EveryAccountHasAWayIn
  BY <1>2, <1>3 DEF RowsSound, EveryAccountHasAWayIn, Live
<1>6. SessionsKnow /\ HoldersPlain
  BY DEF SessionsKnow, HoldersPlain
<1>7. RequestsKnow /\ RemovalsKnow
  BY DEF RequestsKnow, RequestKnows, RemovalsKnow, RemovalKnows, NoRequest
<1> QED
  BY <1>4, <1>5, <1>6, <1>7 DEF Inv

-----------------------------------------------------------------------------
\* What rows do by evolving is never what a session or a request relies on.
LEMMA SessionStays ==
  ASSUME TypeOK, TypeOK', Evolve, NEW s \in sessions, SessionKnows(s)
  PROVE  SessionKnows(s)'
<1> USE LinkingAssumption
<1>1. s.user \in Ids /\ s.user <= created' /\ s.user <= created
  BY DEF TypeOK, Evolve, SessionKnows, Ids
<1> SUFFICES ASSUME users'[s.user] # NoUser
             PROVE  IF s.via \in Identities
                    THEN users'[s.user] = [status |-> "ACTIVE", ext |-> s.via.ext,
                                           email |-> s.via.email]
                    ELSE users'[s.user].ext = None /\ users'[s.user].email = None
  BY <1>1 DEF SessionKnows
<1>2. users[s.user] # NoUser
  BY <1>1 DEF Evolve
<1>3. CASE s.via \in Identities
  <2>1. users[s.user] = [status |-> "ACTIVE", ext |-> s.via.ext, email |-> s.via.email]
    BY <1>2, <1>3 DEF SessionKnows
  <2>2. s.via.ext # None /\ s.via.email # None
    BY <1>3, IdentityFields
  <2>3. /\ users'[s.user].ext = s.via.ext /\ users'[s.user].email = s.via.email
        /\ users'[s.user].status = "ACTIVE"
    BY <1>1, <2>1, <2>2 DEF Evolve
  <2>4. users'[s.user] = [status |-> users'[s.user].status, ext |-> users'[s.user].ext,
                          email |-> users'[s.user].email]
    BY <1>1 DEF TypeOK, Rows
  <2> QED
    BY <1>3, <2>3, <2>4
<1>4. CASE s.via \notin Identities
  BY <1>1, <1>2, <1>4 DEF SessionKnows, Evolve
<1> QED
  BY <1>3, <1>4

LEMMA RequestStays ==
  ASSUME TypeOK, TypeOK', Evolve, NEW r \in Requests, RequestKnows(r), req'[r] = req[r]
  PROVE  RequestKnows(r)'
<1> USE LinkingAssumption
<1> DEFINE q == req[r]
<1>1. /\ q.user \in 0 .. MaxUsers /\ created \in 0 .. MaxUsers /\ created' \in 0 .. MaxUsers
      /\ q.user <= created /\ created <= created' /\ q.user <= created'
  BY DEF TypeOK, Evolve, RequestKnows
<1>2. /\ q.at \in {"claim", "claiming", "insert", "refetch", "backfill", "reread"} =>
           q.identity \in Identities
      /\ q.at \in {"create", "add", "owned", "remove"} => q.wallet \in Wallets
      /\ q.at \in {"claiming", "backfill", "reread", "add", "owned", "remove"} => q.user # 0
  BY DEF RequestKnows
<1>3. ASSUME q.user # 0, users'[q.user] # NoUser
      PROVE  q.user \in Ids /\ users[q.user] # NoUser
  BY <1>1, <1>3 DEF Ids, Evolve
<1>4. q.at = "claiming" => (users'[q.user] # NoUser => users'[q.user].email = q.identity.email)
  BY <1>1, <1>2, <1>3, IdentityFields DEF RequestKnows, Evolve
<1>5. ASSUME q.at \in {"backfill", "reread"}, users'[q.user] # NoUser
      PROVE  users'[q.user].ext = q.identity.ext
  BY <1>1, <1>2, <1>3, <1>5, IdentityFields DEF RequestKnows, LinkedTo, Evolve
<1>6. ASSUME q.at = "reread", users'[q.user] # NoUser PROVE users'[q.user].email # None
  BY <1>1, <1>2, <1>3, <1>6 DEF RequestKnows, Evolve
<1>7. ASSUME q.at = "add", users'[q.user] # NoUser
      PROVE  users'[q.user].ext = None /\ users'[q.user].email = None
  BY <1>1, <1>2, <1>3, <1>7 DEF RequestKnows, Plain, Evolve
<1> QED
  BY <1>1, <1>2, <1>4, <1>5, <1>6, <1>7 DEF RequestKnows, LinkedTo, Plain

\* So a step needs to answer only for what it adds.
LEMMA KnowledgeStays ==
  ASSUME Inv, TypeOK', Evolve,
         \A s \in sessions' \ sessions : SessionKnows(s)',
         \A r \in Requests : req'[r] = req[r] \/ RequestKnows(r)'
  PROVE  SessionsKnow' /\ RequestsKnow'
<1>1. \A s \in sessions : SessionKnows(s)'
  BY SessionStays DEF Inv, SessionsKnow
<1>2. \A r \in Requests : req'[r] = req[r] => RequestKnows(r)'
  BY RequestStays DEF Inv, RequestsKnow
<1> QED
  BY <1>1, <1>2 DEF SessionsKnow, RequestsKnow

\* Steps that leave the wallets alone keep what is known of them.
LEMMA WalletsStay ==
  ASSUME Inv, TypeOK', Evolve, holder' = holder,
         \A r \in Requests : \/ req'[r] = req[r] /\ (r \in disturbed => r \in disturbed')
                             \/ req'[r].at \notin {"owned", "remove"}
                             \/ RemovalKnows(r)'
  PROVE  HoldersPlain' /\ RemovalsKnow'
<1>1. HoldersPlain'
  <2> SUFFICES ASSUME NEW w \in Wallets, holder[w] # 0, users'[holder[w]] # NoUser
               PROVE  users'[holder[w]].ext = None /\ users'[holder[w]].email = None
    BY DEF HoldersPlain, Plain
  <2>1. holder[w] \in Ids /\ holder[w] <= created
    BY LinkingAssumption DEF Inv, TypeOK, Ids
  <2> QED
    BY <2>1 DEF Inv, HoldersPlain, Plain, Evolve
<1>2. RemovalsKnow'
  BY DEF Inv, RemovalsKnow, RemovalKnows
<1> QED
  BY <1>1, <1>2

-----------------------------------------------------------------------------
\* What TypeOK says of the rows, and of one request.
RowsTyped ==
  /\ users \in [Ids -> Rows \union {NoUser}]
  /\ created \in 0 .. MaxUsers
  /\ \A u \in Ids : users[u] # NoUser => u <= created
  /\ \A u, v \in Ids : u # v => /\ users[u].ext = None \/ users[u].ext # users[v].ext
                                /\ users[u].email = None \/ users[u].email # users[v].email
RequestType == [at : {"idle", "claim", "claiming", "insert", "refetch",
                      "backfill", "reread", "create", "add", "owned", "remove"},
                identity : Identities \union {None}, user : 0 .. MaxUsers,
                signer : Wallets \union {None}, wallet : Wallets \union {None},
                status : {"PENDING", "ACTIVE"}]

\* A request moves on, or ends, with what it has to know there.
Moves(r) ==
  /\ req' = [req EXCEPT ![r] = req'[r]] /\ req'[r] \in RequestType
  /\ req'[r].at \notin {"owned", "remove"} /\ RequestKnows(r)'

\* Whoever gets a session by an identity has reached the account it is linked to.
Answers ==
  \A s \in sessions' \ sessions : s \in [user : Ids, via : Identities] /\ SessionKnows(s)'

LEMMA EndMoves ==
  ASSUME TypeOK, created' \in 0 .. MaxUsers, NEW r \in Requests, End(r)
  PROVE  Moves(r) /\ disturbed' = disturbed \ {r}
<1>1. req'[r] = NoRequest /\ req' = [req EXCEPT ![r] = req'[r]]
  BY DEF End, TypeOK
<1>2. NoRequest \in RequestType /\ 0 <= created'
  BY LinkingAssumption DEF NoRequest, RequestType
<1>3. RequestKnows(r)' /\ req'[r].at \notin {"owned", "remove"}
  BY <1>1, <1>2 DEF RequestKnows, NoRequest
<1> QED
  BY <1>1, <1>2, <1>3 DEF Moves, End

LEMMA AnswerAnswers ==
  ASSUME NEW u \in Ids, u <= created', NEW i \in Identities, Answer(u, i),
         users'[u] = [status |-> "ACTIVE", ext |-> i.ext, email |-> i.email]
  PROVE  Answers
BY DEF Answers, Answer, SessionKnows

LEMMA NoAnswer == sessions' = sessions => Answers
BY DEF Answers

\* The steps of a login: rows only become those of identities.
LEMMA LoginStep ==
  ASSUME Inv, NEW r \in Requests, RowsTyped', Evolve, Answers, Moves(r),
         \A u \in Ids : \/ users'[u] = users[u]
                        \/ users'[u].status = "ACTIVE" /\ users'[u].ext # None,
         UNCHANGED <<holder, stranded>>, disturbed' \in {disturbed, disturbed \ {r}}
  PROVE  Inv'
<1> USE DEF Inv
<1>1. TypeOK'
  <2>1. holder' \in [Wallets -> 0 .. MaxUsers] /\ stranded' \subseteq Ids
        /\ disturbed' \subseteq Requests
    BY DEF TypeOK
  <2>2. \A w \in Wallets : holder'[w] # 0 => users'[holder'[w]] # NoUser
    <3>1. \A w \in Wallets : holder[w] # 0 => holder[w] \in Ids /\ users[holder[w]] # NoUser
      BY LinkingAssumption DEF TypeOK, Ids
    <3> QED
      BY <3>1 DEF NoUser
  <2>3. sessions' \subseteq [user : Ids, via : Identities \union Wallets]
    BY DEF TypeOK, Answers
  <2>4. req' \in [Requests -> RequestType]
    BY DEF TypeOK, Moves, RequestType
  <2> QED
    BY <2>1, <2>2, <2>3, <2>4 DEF RowsTyped, TypeOK, RequestType
<1>2. \A q \in Requests : req'[q] = req[q] \/ q = r
  BY DEF Moves, TypeOK
<1>3. SessionsKnow' /\ RequestsKnow'
  BY <1>1, <1>2, KnowledgeStays DEF Answers, Moves
<1>4. HoldersPlain' /\ RemovalsKnow'
  BY <1>1, <1>2, WalletsStay DEF Moves
<1>5. RowsSound'
  BY DEF RowsSound, Live
<1>6. EveryAccountHasAWayIn'
  BY DEF EveryAccountHasAWayIn, Live
<1> QED
  BY <1>1, <1>3, <1>4, <1>5, <1>6

LEMMA SameRows ==
  ASSUME Inv, UNCHANGED <<users, created>>
  PROVE  RowsTyped' /\ Evolve /\ created' \in 0 .. MaxUsers
<1>1. created \in 0 .. MaxUsers /\ created <= created'
  BY DEF Inv, TypeOK
<1> QED
  BY <1>1 DEF Inv, TypeOK, RowsTyped, Evolve

\* Who has an identity is the account found by it.
LEMMA FoundByExt ==
  ASSUME Inv, NEW i \in Identities, NEW u \in WithExt(i.ext)
  PROVE  /\ u \in Ids /\ users[u] # NoUser /\ u <= created /\ users[u].ext = i.ext
         /\ users[u].status = "ACTIVE"
BY IdentityFields DEF WithExt, Live, Inv, TypeOK, RowsSound

LEMMA ReconcileMoves ==
  ASSUME Inv, NEW r \in Requests, NEW i \in Identities, NEW u \in WithExt(i.ext),
         Reconcile(r, i, u), UNCHANGED tables
  PROVE  Moves(r) /\ Answers /\ disturbed' \in {disturbed, disturbed \ {r}}
<1> USE DEF Inv, tables
<1>1. /\ u \in Ids /\ users[u] # NoUser /\ u <= created /\ users[u].ext = i.ext
      /\ users[u].status = "ACTIVE"
  BY FoundByExt
<1>2. created' \in 0 .. MaxUsers
  BY DEF TypeOK
<1>3. CASE users[u].email = i.email /\ Answer(u, i) /\ End(r)
  <2>1. users[u] = [status |-> "ACTIVE", ext |-> i.ext, email |-> i.email]
    BY <1>1, <1>3, RowFields
  <2> QED
    BY <1>1, <1>2, <1>3, <2>1, EndMoves, AnswerAnswers
<1>4. CASE /\ users[u].email = None
           /\ req' = [req EXCEPT ![r].at = "backfill", ![r].user = u, ![r].identity = i]
           /\ UNCHANGED <<sessions, disturbed>>
  <2>1. /\ req'[r] = [req[r] EXCEPT !.at = "backfill", !.user = u, !.identity = i]
        /\ req' = [req EXCEPT ![r] = req'[r]] /\ req[r] \in RequestType
    BY <1>4 DEF TypeOK, RequestType
  <2>2. u \in 0 .. MaxUsers /\ u # 0
    BY <1>1, LinkingAssumption DEF Ids
  <2>3. req'[r] \in RequestType /\ req'[r].at = "backfill" /\ req'[r].user = u
        /\ req'[r].identity = i
    BY <2>1, <2>2 DEF RequestType
  <2>4. RequestKnows(r)'
    BY <1>1, <2>2, <2>3 DEF RequestKnows, LinkedTo
  <2> QED
    BY <1>4, <2>1, <2>3, <2>4, NoAnswer DEF Moves
<1>5. CASE users[u].email \notin {None, i.email} /\ End(r) /\ UNCHANGED sessions
  BY <1>2, <1>5, EndMoves, NoAnswer
<1> QED
  BY <1>3, <1>4, <1>5 DEF Reconcile

-----------------------------------------------------------------------------
\* A request that goes on with the same identity.
LEMMA GotoMoves ==
  ASSUME TypeOK, created' \in 0 .. MaxUsers, NEW r \in Requests,
         NEW at \in {"claiming", "insert", "refetch", "reread"}, NEW user \in 0 .. MaxUsers,
         Goto(r, at, user), req[r].identity \in Identities, user <= created',
         at \in {"claiming", "reread"} => user # 0,
         at = "claiming" =>
           (users'[user] # NoUser => users'[user].email = req[r].identity.email),
         at = "reread" =>
           (users'[user] # NoUser => /\ users'[user].ext = req[r].identity.ext
                                     /\ users'[user].email # None)
  PROVE  Moves(r)
<1>1. /\ req'[r] = [req[r] EXCEPT !.at = at, !.user = user]
      /\ req' = [req EXCEPT ![r] = req'[r]] /\ req[r] \in RequestType
  BY DEF Goto, TypeOK, RequestType
<1>2. /\ req'[r] \in RequestType /\ req'[r].at = at /\ req'[r].user = user
      /\ req'[r].identity = req[r].identity
  BY <1>1 DEF RequestType
<1>3. RequestKnows(r)'
  BY <1>2 DEF RequestKnows, LinkedTo
<1> QED
  BY <1>1, <1>2, <1>3 DEF Moves

LEMMA LoginKeeps ==
  ASSUME Inv, NEW r \in Requests, NEW i \in Identities, Login(r, i)
  PROVE  Inv'
<1> USE DEF Inv
<1>1. UNCHANGED <<tables, stranded>>
  BY DEF Login
<1>2. RowsTyped' /\ Evolve /\ created' \in 0 .. MaxUsers
  BY <1>1, SameRows DEF tables
<1>3. Moves(r) /\ Answers /\ disturbed' \in {disturbed, disturbed \ {r}}
  <2>1. CASE \E u \in WithExt(i.ext) : Reconcile(r, i, u)
    BY <1>1, <2>1, ReconcileMoves
  <2>2. CASE /\ req' = [req EXCEPT ![r].at = "claim", ![r].identity = i]
             /\ UNCHANGED <<sessions, disturbed>>
    <3>1. /\ req'[r] = [req[r] EXCEPT !.at = "claim", !.identity = i]
          /\ req' = [req EXCEPT ![r] = req'[r]] /\ req[r] \in RequestType
      BY <2>2 DEF TypeOK, RequestType
    <3>2. /\ req'[r] \in RequestType /\ req'[r].at = "claim" /\ req'[r].identity = i
          /\ req'[r].user = req[r].user
      BY <3>1 DEF RequestType
    <3>3. req[r].user <= created'
      BY <1>1 DEF RequestsKnow, RequestKnows, tables
    <3>4. RequestKnows(r)'
      BY <3>2, <3>3 DEF RequestKnows
    <3> QED
      BY <2>2, <3>1, <3>2, <3>4, NoAnswer DEF Moves
  <2> QED
    BY <2>1, <2>2 DEF Login
<1> QED
  BY <1>1, <1>2, <1>3, LoginStep DEF tables

LEMMA FindCandidateKeeps ==
  ASSUME Inv, NEW r \in Requests, FindCandidate(r)
  PROVE  Inv'
<1> USE DEF Inv
<1>1. UNCHANGED <<tables, stranded>> /\ sessions' = sessions /\ req[r].identity \in Identities
  BY DEF FindCandidate, RequestsKnow, RequestKnows
<1>2. RowsTyped' /\ Evolve /\ created' \in 0 .. MaxUsers
  BY <1>1, SameRows DEF tables
<1>3. Moves(r) /\ disturbed' \in {disturbed, disturbed \ {r}}
  <2>1. CASE Goto(r, "insert", 0) /\ UNCHANGED disturbed
    <3>1. 0 \in 0 .. MaxUsers /\ 0 <= created'
      BY <1>2, LinkingAssumption
    <3> QED
      BY <1>1, <1>2, <2>1, <3>1, GotoMoves
  <2>2. ASSUME NEW u \in WithEmail(req[r].identity.email),
               Goto(r, "claiming", u), UNCHANGED disturbed
        PROVE  Moves(r)
    <3>1. /\ u \in Ids /\ u <= created /\ users[u].email = req[r].identity.email
          /\ u \in 0 .. MaxUsers /\ u # 0
      BY LinkingAssumption DEF WithEmail, Live, TypeOK, Ids
    <3> QED
      BY <1>1, <1>2, <2>2, <3>1, GotoMoves DEF tables
  <2>3. CASE End(r)
    BY <1>2, <2>3, EndMoves
  <2> QED
    BY <2>1, <2>2, <2>3 DEF FindCandidate
<1> QED
  BY <1>1, <1>2, <1>3, NoAnswer, LoginStep DEF tables

\* What a statement writes into one row: an identity's account, which kept its
\* email or its identity.
LEMMA WriteRow ==
  ASSUME Inv, NEW u \in Live, NEW i \in Identities, created' = created,
         users' = [users EXCEPT ![u] = [status |-> "ACTIVE", ext |-> i.ext,
                                        email |-> i.email]],
         WithExt(i.ext) \subseteq {u}, WithEmail(i.email) \subseteq {u},
         users[u].ext \in {None, i.ext}, users[u].email \in {None, i.email},
         ~(users[u].ext = None /\ users[u].email = None)
  PROVE  RowsTyped' /\ Evolve /\ u \in Ids /\ u <= created'
<1> USE DEF Inv
<1> DEFINE row == [status |-> "ACTIVE", ext |-> i.ext, email |-> i.email]
<1>1. /\ i.ext \in Exts /\ i.email \in AllEmails /\ i.ext # None /\ i.email # None
      /\ row \in Rows
  BY IdentityFields DEF Rows
<1>2. u \in Ids /\ u <= created /\ created \in 0 .. MaxUsers
  BY DEF Live, TypeOK
<1>3. /\ users' \in [Ids -> Rows \union {NoUser}]
      /\ users'[u] = row /\ \A v \in Ids \ {u} : users'[v] = users[v]
  BY <1>1, <1>2 DEF TypeOK
<1>9. /\ users'[u].ext = i.ext /\ users'[u].email = i.email /\ users'[u].status = "ACTIVE"
      /\ \A v \in Ids : v # u => users'[v] = users[v]
  BY <1>3
<1>4. created' \in 0 .. MaxUsers /\ \A v \in Ids : users'[v] # NoUser => v <= created'
  BY <1>2, <1>3 DEF TypeOK
<1>5. \A v \in Ids \ {u} : /\ users[v].ext = None \/ users[v].ext # i.ext
                           /\ users[v].email = None \/ users[v].email # i.email
  <2>1. \A v \in Ids : users[v] = NoUser => users[v].ext = None /\ users[v].email = None
    BY DEF NoUser
  <2>2. \A v \in Ids \ {u} : users[v] # NoUser =>
          v \in Live /\ v \notin WithExt(i.ext) /\ v \notin WithEmail(i.email)
    BY DEF Live
  <2> QED
    BY <2>1, <2>2 DEF WithExt, WithEmail
<1>6. \A v, w \in Ids : v # w => /\ users'[v].ext = None \/ users'[v].ext # users'[w].ext
                                 /\ users'[v].email = None \/ users'[v].email # users'[w].email
  <2> SUFFICES ASSUME NEW v \in Ids, NEW w \in Ids, v # w
               PROVE  /\ users'[v].ext = None \/ users'[v].ext # users'[w].ext
                      /\ users'[v].email = None \/ users'[v].email # users'[w].email
    OBVIOUS
  <2>1. CASE v # u /\ w # u
    BY <1>3, <2>1 DEF TypeOK
  <2>2. CASE v = u
    BY <1>1, <1>5, <1>9, <2>2
  <2>3. CASE w = u
    BY <1>1, <1>5, <1>9, <2>3
  <2> QED
    BY <2>1, <2>2, <2>3
<1>7. Evolve
  BY <1>1, <1>2, <1>3, <1>9 DEF Evolve, Live
<1>8. RowsTyped'
  BY <1>3, <1>4, <1>6 DEF RowsTyped
<1> QED
  BY <1>2, <1>7, <1>8

LEMMA InsertRow ==
  ASSUME Inv, NEW row \in Rows, Insert(row),
         row.ext = None \/ WithExt(row.ext) = {},
         row.email = None \/ WithEmail(row.email) = {}
  PROVE  /\ RowsTyped' /\ Evolve
         /\ created' = created + 1 /\ created' \in Ids
         /\ users'[created'] = row /\ users[created'] = NoUser
         /\ \A u \in Ids : u # created' => users'[u] = users[u]
<1> USE DEF Inv
<1>1. /\ created \in 0 .. MaxUsers /\ created' = created + 1 /\ created' \in Ids
      /\ created' \in 0 .. MaxUsers
  BY LinkingAssumption DEF Insert, TypeOK, Ids
<1>2. users[created'] = NoUser
  BY <1>1 DEF TypeOK
<1>3. users' \in [Ids -> Rows \union {NoUser}]
  BY <1>1 DEF Insert, TypeOK
<1>4. users'[created'] = row /\ \A u \in Ids : u # created' => users'[u] = users[u]
  BY <1>1 DEF Insert, TypeOK
<1>5. \A u \in Ids : users'[u] # NoUser => u <= created'
  BY <1>1, <1>4 DEF TypeOK
<1>6. \A u \in Ids : u # created' =>
        /\ users[u].ext = None \/ users[u].ext # row.ext
        /\ users[u].email = None \/ users[u].email # row.email
  <2>1. \A u \in Ids : users[u] = NoUser => users[u].ext = None /\ users[u].email = None
    BY DEF NoUser
  <2> QED
    BY <2>1 DEF WithExt, WithEmail, Live
<1>7. \A u, v \in Ids : u # v => /\ users'[u].ext = None \/ users'[u].ext # users'[v].ext
                                 /\ users'[u].email = None \/ users'[u].email # users'[v].email
  <2> SUFFICES ASSUME NEW u \in Ids, NEW v \in Ids, u # v
               PROVE  /\ users'[u].ext = None \/ users'[u].ext # users'[v].ext
                      /\ users'[u].email = None \/ users'[u].email # users'[v].email
    OBVIOUS
  <2>1. CASE u # created' /\ v # created'
    BY <1>4, <2>1 DEF TypeOK
  <2>2. CASE u = created'
    BY <1>4, <1>6, <2>2
  <2>3. CASE v = created'
    BY <1>4, <1>6, <2>3
  <2> QED
    BY <2>1, <2>2, <2>3
<1>8. Evolve
  <2>1. ASSUME NEW u \in Ids, u <= created PROVE users'[u] = users[u]
    BY <1>1, <1>4, <2>1 DEF Ids
  <2>2. created <= created'
    BY <1>1
  <2>3. \A u \in Ids : u <= created => users'[u] = users[u]
    BY <2>1
  <2> QED
    BY <2>2, <2>3 DEF Evolve
<1>9. RowsTyped'
  BY <1>1, <1>3, <1>5, <1>7 DEF RowsTyped
<1> QED
  BY <1>1, <1>2, <1>4, <1>8, <1>9

LEMMA ClaimedRow ==
  ASSUME NEW row \in Rows, NEW x \in Exts
  PROVE  [row EXCEPT !.status = "ACTIVE", !.ext = x]
           = [status |-> "ACTIVE", ext |-> x, email |-> row.email]
<1> DEFINE claimed == [row EXCEPT !.status = "ACTIVE", !.ext = x]
<1>1. claimed \in Rows
  BY DEF Rows
<1>2. claimed.status = "ACTIVE" /\ claimed.ext = x /\ claimed.email = row.email
  BY DEF Rows
<1> HIDE DEF claimed
<1>3. claimed = [status |-> claimed.status, ext |-> claimed.ext, email |-> claimed.email]
  BY <1>1 DEF Rows
<1>4. claimed = [status |-> "ACTIVE", ext |-> x, email |-> row.email]
  BY <1>2, <1>3
<1> QED
  BY <1>4 DEF claimed

LEMMA ClaimKeeps ==
  ASSUME Inv, NEW r \in Requests, Claim(r)
  PROVE  Inv'
<1> USE DEF Inv
<1> DEFINE i == req[r].identity
           u == req[r].user
<1>1. /\ UNCHANGED <<created, holder, stranded>> /\ created' \in 0 .. MaxUsers
      /\ i \in Identities /\ u \in Ids
      /\ users[u] # NoUser => users[u].email = i.email
  BY LinkingAssumption DEF Claim, RequestsKnow, RequestKnows, TypeOK, Ids
<1>2. Claimable(users[u]) => u \in Live
  BY <1>1 DEF Claimable, NoUser, Live
<1>3. CASE /\ Claimable(users[u]) /\ WithExt(i.ext) = {}
           /\ users' = [users EXCEPT ![u].status = "ACTIVE", ![u].ext = i.ext]
           /\ Answer(u, i) /\ End(r)
  <2>1. u \in Live /\ users[u].ext = None /\ users[u].email = i.email /\ i.email # None
    BY <1>1, <1>2, <1>3, IdentityFields DEF Claimable, Live
  <2>2. users[u] \in Rows /\ i.ext \in Exts
    BY <1>1, <2>1, RowFields, IdentityFields DEF Live
  <2>3. users' = [users EXCEPT ![u] = [status |-> "ACTIVE", ext |-> i.ext, email |-> i.email]]
    <3>1. users' = [users EXCEPT ![u] = [users[u] EXCEPT !.status = "ACTIVE", !.ext = i.ext]]
      BY <1>1, <1>3 DEF TypeOK
    <3>2. [users[u] EXCEPT !.status = "ACTIVE", !.ext = i.ext]
            = [status |-> "ACTIVE", ext |-> i.ext, email |-> i.email]
      BY <2>1, <2>2, ClaimedRow
    <3> QED
      BY <3>1, <3>2
  <2>4. WithEmail(i.email) \subseteq {u}
    BY <1>1, <2>1 DEF WithEmail, Live, TypeOK
  <2>5. RowsTyped' /\ Evolve /\ u <= created'
    BY <1>1, <1>3, <2>1, <2>3, <2>4, WriteRow
  <2>6. /\ users'[u] = [status |-> "ACTIVE", ext |-> i.ext, email |-> i.email]
        /\ \A v \in Ids : v # u => users'[v] = users[v]
    BY <1>1, <2>3 DEF TypeOK
  <2>7. Answers
    BY <1>1, <1>3, <2>5, <2>6, AnswerAnswers
  <2>8. Moves(r) /\ disturbed' \in {disturbed, disturbed \ {r}}
    BY <1>1, <1>3, EndMoves
  <2>9. \A v \in Ids : \/ users'[v] = users[v]
                       \/ users'[v].status = "ACTIVE" /\ users'[v].ext # None
    BY <1>1, <2>6, IdentityFields
  <2> QED
    BY <1>1, <2>5, <2>7, <2>8, <2>9, LoginStep
<1>4. CASE UNCHANGED <<users, sessions>> /\ (\/ Goto(r, "insert", 0) /\ UNCHANGED disturbed
                                             \/ End(r))
  <2>1. RowsTyped' /\ Evolve
    BY <1>1, <1>4, SameRows
  <2>2. 0 \in 0 .. MaxUsers /\ 0 <= created'
    BY <1>1, LinkingAssumption
  <2>3. Moves(r) /\ disturbed' \in {disturbed, disturbed \ {r}}
    BY <1>1, <1>4, <2>2, EndMoves, GotoMoves
  <2> QED
    BY <1>1, <1>4, <2>1, <2>3, NoAnswer, LoginStep
<1> QED
  BY <1>3, <1>4 DEF Claim

LEMMA InsertUserKeeps ==
  ASSUME Inv, NEW r \in Requests, InsertUser(r)
  PROVE  Inv'
<1> USE DEF Inv
<1> DEFINE i == req[r].identity
<1>1. UNCHANGED <<holder, stranded>> /\ i \in Identities
  BY DEF InsertUser, RequestsKnow, RequestKnows
<1>2. CASE /\ WithExt(i.ext) = {} /\ WithEmail(i.email) = {}
           /\ Insert([status |-> "ACTIVE", ext |-> i.ext, email |-> i.email])
           /\ Answer(created', i) /\ End(r)
  <2> DEFINE row == [status |-> "ACTIVE", ext |-> i.ext, email |-> i.email]
  <2>1. row \in Rows /\ row.ext = i.ext /\ row.email = i.email /\ row.ext # None
    BY <1>1, IdentityFields DEF Rows
  <2>2. /\ RowsTyped' /\ Evolve /\ created' \in Ids /\ created' = created + 1
        /\ users'[created'] = row /\ \A u \in Ids : u # created' => users'[u] = users[u]
    BY <1>2, <2>1, InsertRow
  <2>3. created' \in 0 .. MaxUsers /\ created' <= created'
    BY <2>2 DEF Ids
  <2>4. Answers
    BY <1>1, <1>2, <2>2, <2>3, AnswerAnswers
  <2>5. Moves(r) /\ disturbed' \in {disturbed, disturbed \ {r}}
    BY <1>2, <2>3, EndMoves
  <2>6. \A u \in Ids : \/ users'[u] = users[u]
                       \/ users'[u].status = "ACTIVE" /\ users'[u].ext # None
    BY <2>1, <2>2
  <2> QED
    BY <1>1, <2>2, <2>4, <2>5, <2>6, LoginStep
<1>3. CASE UNCHANGED <<users, created, sessions>> /\ (\/ Goto(r, "refetch", 0) /\ UNCHANGED disturbed
                                                      \/ End(r))
  <2>1. RowsTyped' /\ Evolve /\ created' \in 0 .. MaxUsers
    BY <1>3, SameRows
  <2>2. 0 \in 0 .. MaxUsers /\ 0 <= created'
    BY <2>1, LinkingAssumption
  <2>3. Moves(r) /\ disturbed' \in {disturbed, disturbed \ {r}}
    BY <1>1, <1>3, <2>1, <2>2, EndMoves, GotoMoves
  <2> QED
    BY <1>1, <1>3, <2>1, <2>3, NoAnswer, LoginStep
<1> QED
  BY <1>2, <1>3 DEF InsertUser

LEMMA RefetchKeeps ==
  ASSUME Inv, NEW r \in Requests, Refetch(r)
  PROVE  Inv'
<1> USE DEF Inv
<1>1. UNCHANGED <<tables, stranded>> /\ req[r].identity \in Identities
  BY DEF Refetch, RequestsKnow, RequestKnows
<1>2. RowsTyped' /\ Evolve /\ created' \in 0 .. MaxUsers
  BY <1>1, SameRows DEF tables
<1>3. Moves(r) /\ Answers /\ disturbed' \in {disturbed, disturbed \ {r}}
  <2>1. CASE \E u \in WithExt(req[r].identity.ext) : Reconcile(r, req[r].identity, u)
    BY <1>1, <2>1, ReconcileMoves
  <2>2. CASE End(r) /\ UNCHANGED sessions
    BY <1>2, <2>2, EndMoves, NoAnswer
  <2> QED
    BY <2>1, <2>2 DEF Refetch
<1> QED
  BY <1>1, <1>2, <1>3, LoginStep DEF tables

LEMMA PersistedRow ==
  ASSUME NEW row \in Rows, NEW e \in AllEmails
  PROVE  [row EXCEPT !.email = e] = [status |-> row.status, ext |-> row.ext, email |-> e]
<1> DEFINE known == [row EXCEPT !.email = e]
<1>1. known \in Rows
  BY DEF Rows
<1>2. known.status = row.status /\ known.ext = row.ext /\ known.email = e
  BY DEF Rows
<1> HIDE DEF known
<1>3. known = [status |-> known.status, ext |-> known.ext, email |-> known.email]
  BY <1>1 DEF Rows
<1>4. known = [status |-> row.status, ext |-> row.ext, email |-> e]
  BY <1>2, <1>3
<1> QED
  BY <1>4 DEF known

LEMMA PersistEmailKeeps ==
  ASSUME Inv, NEW r \in Requests, PersistEmail(r)
  PROVE  Inv'
<1> USE DEF Inv
<1> DEFINE i == req[r].identity
           u == req[r].user
           unset == u \in Live /\ users[u].email = None
<1>1. /\ UNCHANGED <<created, holder, stranded>> /\ created' \in 0 .. MaxUsers
      /\ i \in Identities /\ u \in Ids /\ u \in 0 .. MaxUsers /\ u # 0 /\ u <= created'
      /\ users[u] # NoUser => users[u].ext = i.ext
  BY LinkingAssumption DEF PersistEmail, RequestsKnow, RequestKnows, LinkedTo, TypeOK, Ids
<1>2. CASE /\ unset /\ WithEmail(i.email) = {}
           /\ users' = [users EXCEPT ![u].email = i.email]
           /\ Answer(u, i) /\ End(r)
  <2>1. /\ u \in Live /\ users[u].ext = i.ext /\ users[u].email = None /\ i.ext # None
        /\ i.email \in AllEmails
    BY <1>1, <1>2, IdentityFields DEF Live
  <2>2. users[u] \in Rows /\ users[u].status = "ACTIVE"
    BY <1>1, <2>1, RowFields DEF Live, RowsSound
  <2>3. users' = [users EXCEPT ![u] = [status |-> "ACTIVE", ext |-> i.ext, email |-> i.email]]
    <3>1. users' = [users EXCEPT ![u] = [users[u] EXCEPT !.email = i.email]]
      BY <1>1, <1>2 DEF TypeOK
    <3>2. [users[u] EXCEPT !.email = i.email]
            = [status |-> "ACTIVE", ext |-> i.ext, email |-> i.email]
      BY <2>1, <2>2, PersistedRow
    <3> QED
      BY <3>1, <3>2
  <2>4. WithExt(i.ext) \subseteq {u}
    BY <1>1, <2>1 DEF WithExt, Live, TypeOK
  <2>5. RowsTyped' /\ Evolve
    BY <1>1, <1>2, <2>1, <2>3, <2>4, WriteRow
  <2>6. /\ users'[u] = [status |-> "ACTIVE", ext |-> i.ext, email |-> i.email]
        /\ \A v \in Ids : v # u => users'[v] = users[v]
    BY <1>1, <2>3 DEF TypeOK
  <2>7. Answers
    BY <1>1, <1>2, <2>6, AnswerAnswers
  <2>8. Moves(r) /\ disturbed' \in {disturbed, disturbed \ {r}}
    BY <1>1, <1>2, EndMoves
  <2>9. \A v \in Ids : \/ users'[v] = users[v]
                       \/ users'[v].status = "ACTIVE" /\ users'[v].ext # None
    BY <1>1, <2>1, <2>6
  <2> QED
    BY <1>1, <2>5, <2>7, <2>8, <2>9, LoginStep
<1>3. CASE /\ UNCHANGED <<users, sessions>>
           /\ \/ ~unset /\ Goto(r, "reread", u) /\ UNCHANGED disturbed
              \/ End(r)
  <2>1. RowsTyped' /\ Evolve
    BY <1>1, <1>3, SameRows
  <2>2. ASSUME ~unset, Goto(r, "reread", u) PROVE Moves(r)
    <3>1. users'[u] # NoUser => users'[u].ext = i.ext /\ users'[u].email # None
      BY <1>1, <1>3, <2>2 DEF Live
    <3> HIDE DEF i, u
    <3> QED
      BY <1>1, <2>2, <3>1, GotoMoves DEF i, u
  <2>3. Moves(r) /\ disturbed' \in {disturbed, disturbed \ {r}}
    BY <1>1, <1>3, <2>2, EndMoves
  <2> QED
    BY <1>1, <1>3, <2>1, <2>3, NoAnswer, LoginStep
<1> QED
  BY <1>2, <1>3 DEF PersistEmail

LEMMA RereadKeeps ==
  ASSUME Inv, NEW r \in Requests, Reread(r)
  PROVE  Inv'
<1> USE DEF Inv
<1> DEFINE i == req[r].identity
           u == req[r].user
<1>1. /\ UNCHANGED <<tables, stranded>> /\ i \in Identities /\ u \in Ids /\ End(r)
      /\ u <= created
      /\ users[u] # NoUser => users[u].ext = i.ext /\ users[u].email # None
  BY LinkingAssumption DEF Reread, RequestsKnow, RequestKnows, LinkedTo, TypeOK, Ids
<1>2. RowsTyped' /\ Evolve /\ created' \in 0 .. MaxUsers
  BY <1>1, SameRows DEF tables
<1>3. Moves(r) /\ disturbed' \in {disturbed, disturbed \ {r}}
  BY <1>1, <1>2, EndMoves
<1>4. Answers
  <2>1. CASE u \in Live /\ users[u].email \in {None, i.email}
    <3>1. users[u] # NoUser /\ users[u].email = i.email /\ users[u].ext = i.ext
          /\ i.ext # None
      BY <1>1, <2>1, IdentityFields DEF Live
    <3>2. users[u] = [status |-> "ACTIVE", ext |-> i.ext, email |-> i.email]
      BY <1>1, <3>1, RowFields DEF RowsSound, Live
    <3>3. Answer(u, i)
      BY <2>1 DEF Reread
    <3> QED
      BY <1>1, <3>2, <3>3, AnswerAnswers DEF tables
  <2>2. CASE ~(u \in Live /\ users[u].email \in {None, i.email})
    BY <2>2, NoAnswer DEF Reread
  <2> QED
    BY <2>1, <2>2
<1> QED
  BY <1>1, <1>2, <1>3, <1>4, LoginStep DEF tables

-----------------------------------------------------------------------------
LEMMA InviteKeeps ==
  ASSUME Inv, NEW e \in Emails, InviteByEmail(e)
  PROVE  Inv'
<1> USE DEF Inv
<1> DEFINE row == [status |-> "PENDING", ext |-> None, email |-> e]
<1>1. UNCHANGED <<holder, sessions, req, disturbed, stranded>>
  BY DEF InviteByEmail
<1>2. row \in Rows /\ row.ext = None /\ row.email = e /\ row.status = "PENDING" /\ e # None
  BY LinkingAssumption DEF Rows, AllEmails
<1>3. /\ RowsTyped' /\ Evolve /\ created' \in Ids /\ users'[created'] = row
      /\ users[created'] = NoUser /\ \A u \in Ids : u # created' => users'[u] = users[u]
  BY <1>2, InsertRow DEF InviteByEmail
<1>4. TypeOK'
  <2>1. \A w \in Wallets : holder'[w] # 0 => users'[holder'[w]] # NoUser
    BY <1>1, <1>3, LinkingAssumption DEF TypeOK, Ids
  <2> QED
    BY <1>1, <1>3, <2>1 DEF TypeOK, RowsTyped
<1>5. SessionsKnow' /\ RequestsKnow'
  BY <1>1, <1>3, <1>4, KnowledgeStays
<1>6. HoldersPlain' /\ RemovalsKnow'
  BY <1>1, <1>3, <1>4, WalletsStay
<1>7. RowsSound'
  BY <1>2, <1>3 DEF RowsSound, Live
<1>8. EveryAccountHasAWayIn'
  BY <1>1, <1>2, <1>3 DEF EveryAccountHasAWayIn, Live, Claimable
<1> QED
  BY <1>4, <1>5, <1>6, <1>7, <1>8

\* Steps of a request that write nothing.
LEMMA ReadStep ==
  ASSUME Inv, UNCHANGED <<tables, stranded>>, NEW r \in Requests,
         req' = [req EXCEPT ![r] = req'[r]], req'[r] \in RequestType,
         RequestKnows(r)', RemovalKnows(r)', disturbed' \in {disturbed, disturbed \ {r}},
         \A s \in sessions' \ sessions : /\ s \in [user : Ids, via : Identities \union Wallets]
                                         /\ SessionKnows(s)'
  PROVE  Inv'
<1> USE DEF Inv
<1>1. RowsTyped' /\ Evolve
  BY SameRows DEF tables
<1>2. TypeOK'
  BY <1>1 DEF TypeOK, RowsTyped, RequestType, tables
<1>3. \A q \in Requests : req'[q] = req[q] \/ q = r
  BY DEF TypeOK
<1>4. SessionsKnow' /\ RequestsKnow'
  BY <1>1, <1>2, <1>3, KnowledgeStays
<1>5. HoldersPlain' /\ RemovalsKnow'
  BY <1>1, <1>2, <1>3, WalletsStay DEF tables
<1>6. RowsSound' /\ EveryAccountHasAWayIn'
  BY DEF RowsSound, EveryAccountHasAWayIn, Live, tables
<1> QED
  BY <1>2, <1>4, <1>5, <1>6

LEMMA FindWalletKeeps ==
  ASSUME Inv, NEW r \in Requests, NEW w \in Wallets, NEW status \in {"PENDING", "ACTIVE"},
         FindWallet(r, w, status)
  PROVE  Inv'
<1> USE DEF Inv
<1>1. /\ UNCHANGED <<tables, disturbed, stranded>> /\ req[r].at = "idle"
      /\ req[r] \in RequestType /\ req[r].user <= created
  BY DEF FindWallet, TypeOK, RequestType, RequestsKnow, RequestKnows
<1>2. CASE /\ holder[w] = 0
           /\ req' = [req EXCEPT ![r].at = "create", ![r].wallet = w, ![r].status = status]
           /\ UNCHANGED sessions
  <2>1. /\ req'[r] = [req[r] EXCEPT !.at = "create", !.wallet = w, !.status = status]
        /\ req' = [req EXCEPT ![r] = req'[r]]
    BY <1>2 DEF TypeOK
  <2>2. /\ req'[r] \in RequestType /\ req'[r].at = "create" /\ req'[r].wallet = w
        /\ req'[r].user = req[r].user
    BY <1>1, <2>1 DEF RequestType
  <2>3. RequestKnows(r)' /\ RemovalKnows(r)'
    BY <1>1, <2>2 DEF RequestKnows, RemovalKnows, tables
  <2> QED
    BY <1>1, <1>2, <2>1, <2>2, <2>3, ReadStep
<1>3. CASE holder[w] # 0 /\ Answer(holder[w], w) /\ UNCHANGED req
  <2>1. /\ holder[w] \in Ids /\ holder[w] <= created /\ users[holder[w]] # NoUser
        /\ users[holder[w]].ext = None /\ users[holder[w]].email = None /\ w \notin Identities
    BY <1>3, LinkingAssumption DEF TypeOK, HoldersPlain, Plain, Ids
  <2>2. \A s \in sessions' \ sessions : /\ s \in [user : Ids, via : Identities \union Wallets]
                                        /\ SessionKnows(s)'
    BY <1>1, <1>3, <2>1 DEF Answer, SessionKnows, tables
  <2>3. RequestKnows(r)' /\ RemovalKnows(r)'
    BY <1>1, <1>3 DEF RequestsKnow, RequestKnows, RemovalKnows, LinkedTo, Plain, tables
  <2>4. req' = [req EXCEPT ![r] = req'[r]] /\ req'[r] \in RequestType
    BY <1>1, <1>3 DEF TypeOK
  <2> QED
    BY <1>1, <2>2, <2>3, <2>4, ReadStep
<1> QED
  BY <1>2, <1>3 DEF FindWallet

LEMMA AddWalletKeeps ==
  ASSUME Inv, NEW r \in Requests, NEW s \in Wallets, NEW w \in Wallets, AddWallet(r, s, w)
  PROVE  Inv'
<1> USE DEF Inv
<1>1. /\ UNCHANGED <<tables, sessions, disturbed, stranded>>
      /\ req[r] \in RequestType /\ holder[s] # 0
  BY DEF AddWallet, TypeOK, RequestType
<1>2. /\ holder[s] \in Ids /\ holder[s] \in 0 .. MaxUsers /\ holder[s] <= created
      /\ Plain(holder[s])
  BY <1>1, LinkingAssumption DEF TypeOK, HoldersPlain, Ids
<1>3. /\ req'[r] = [req[r] EXCEPT !.at = "add", !.wallet = w, !.user = holder[s]]
      /\ req' = [req EXCEPT ![r] = req'[r]]
  BY DEF AddWallet, TypeOK
<1>4. /\ req'[r] \in RequestType /\ req'[r].at = "add" /\ req'[r].wallet = w
      /\ req'[r].user = holder[s]
  BY <1>1, <1>2, <1>3 DEF RequestType
<1>5. RequestKnows(r)' /\ RemovalKnows(r)'
  BY <1>1, <1>2, <1>4 DEF RequestKnows, RemovalKnows, Plain, tables
<1> QED
  BY <1>1, <1>3, <1>4, <1>5, ReadStep

LEMMA RemoveWalletKeeps ==
  ASSUME Inv, NEW r \in Requests, NEW s \in Wallets, NEW w \in Wallets, RemoveWallet(r, s, w)
  PROVE  Inv'
<1> USE DEF Inv
<1>1. /\ UNCHANGED <<tables, sessions, disturbed, stranded>>
      /\ req[r] \in RequestType /\ holder[s] # 0 /\ s # w
  BY DEF RemoveWallet, TypeOK, RequestType
<1>2. holder[s] \in 0 .. MaxUsers /\ holder[s] <= created
  BY <1>1, LinkingAssumption DEF TypeOK, Ids
<1>3. /\ req'[r] = [req[r] EXCEPT !.at = "owned", !.signer = s, !.wallet = w,
                                  !.user = holder[s]]
      /\ req' = [req EXCEPT ![r] = req'[r]]
  BY DEF RemoveWallet, TypeOK
<1>4. /\ req'[r] \in RequestType /\ req'[r].at = "owned" /\ req'[r].wallet = w
      /\ req'[r].user = holder[s] /\ req'[r].signer = s
  BY <1>1, <1>2, <1>3 DEF RequestType
<1>5. RequestKnows(r)' /\ RemovalKnows(r)'
  BY <1>1, <1>2, <1>4 DEF RequestKnows, RemovalKnows, tables
<1> QED
  BY <1>1, <1>3, <1>4, <1>5, ReadStep

LEMMA FindOwnedKeeps ==
  ASSUME Inv, NEW r \in Requests, FindOwned(r)
  PROVE  Inv'
<1> USE DEF Inv
<1>1. /\ UNCHANGED <<tables, sessions, stranded>> /\ req[r] \in RequestType
      /\ req[r].at = "owned" /\ created' \in 0 .. MaxUsers
  BY DEF FindOwned, TypeOK, RequestType, tables
<1>2. CASE /\ holder[req[r].wallet] = req[r].user
           /\ Goto(r, "remove", req[r].user) /\ UNCHANGED disturbed
  <2>1. /\ req'[r] = [req[r] EXCEPT !.at = "remove", !.user = req[r].user]
        /\ req' = [req EXCEPT ![r] = req'[r]]
    BY <1>2 DEF Goto, TypeOK
  <2>2. /\ req'[r] \in RequestType /\ req'[r].at = "remove"
        /\ req'[r].wallet = req[r].wallet /\ req'[r].user = req[r].user
        /\ req'[r].signer = req[r].signer
    BY <1>1, <2>1 DEF RequestType
  <2>3. RequestKnows(r)'
    BY <1>1, <2>2 DEF RequestsKnow, RequestKnows, tables
  <2>4. RemovalKnows(r)'
    BY <1>1, <1>2, <2>2 DEF RemovalsKnow, RemovalKnows, tables
  <2> QED
    BY <1>1, <1>2, <2>1, <2>2, <2>3, <2>4, ReadStep
<1>3. CASE End(r)
  <2>1. Moves(r) /\ disturbed' = disturbed \ {r}
    BY <1>1, <1>3, EndMoves
  <2> QED
    BY <1>1, <2>1, ReadStep DEF Moves, RemovalKnows
<1> QED
  BY <1>2, <1>3 DEF FindOwned

-----------------------------------------------------------------------------
\* A wallet that had no account gets one that only wallets lead to; removals
\* under way are disturbed.
LEMMA HoldStep ==
  ASSUME Inv, RowsTyped', Evolve, NEW r \in Requests, NEW w \in Wallets, NEW u \in Ids,
         req' = [req EXCEPT ![r] = NoRequest], UNCHANGED stranded,
         holder[w] = 0, holder' = [holder EXCEPT ![w] = u],
         disturbed' = disturbed \union Disturb(r),
         users'[u] # NoUser, users'[u].ext = None, users'[u].email = None,
         \A v \in Ids : v # u => users'[v] = users[v],
         sessions' \subseteq sessions \union {[user |-> u, via |-> w]}
  PROVE  Inv'
<1> USE DEF Inv
<1>1. u \in 0 .. MaxUsers /\ u # 0 /\ u <= created' /\ w \notin Identities
  BY LinkingAssumption DEF Ids, RowsTyped
<1>2. /\ holder' \in [Wallets -> 0 .. MaxUsers] /\ holder'[w] = u
      /\ \A x \in Wallets : x # w => holder'[x] = holder[x]
  BY <1>1 DEF TypeOK
<1>3. NoRequest \in RequestType /\ req'[r] = NoRequest
      /\ \A q \in Requests : q # r => req'[q] = req[q]
  BY LinkingAssumption DEF NoRequest, RequestType, TypeOK
<1>4. TypeOK'
  <2>1. \A x \in Wallets : holder'[x] # 0 => users'[holder'[x]] # NoUser
    <3>1. \A x \in Wallets : holder[x] # 0 => holder[x] \in Ids /\ users[holder[x]] # NoUser
      BY LinkingAssumption DEF TypeOK, Ids
    <3> QED
      BY <1>2, <3>1
  <2>2. req' \in [Requests -> RequestType]
    BY <1>3 DEF TypeOK, RequestType
  <2>3. sessions' \subseteq [user : Ids, via : Identities \union Wallets]
    BY DEF TypeOK
  <2>4. disturbed' \subseteq Requests /\ stranded' \subseteq Ids
    BY DEF TypeOK, Disturb
  <2> QED
    BY <1>2, <2>1, <2>2, <2>3, <2>4 DEF RowsTyped, TypeOK, RequestType
<1>5. SessionsKnow' /\ RequestsKnow'
  <2>1. \A s \in sessions' \ sessions : SessionKnows(s)'
    BY <1>1 DEF SessionKnows
  <2>2. RequestKnows(r)'
    BY <1>1, <1>3, <1>4 DEF RequestKnows, NoRequest, TypeOK
  <2> QED
    BY <1>3, <1>4, <2>1, <2>2, KnowledgeStays
<1>6. HoldersPlain'
  <2> SUFFICES ASSUME NEW x \in Wallets, holder'[x] # 0, users'[holder'[x]] # NoUser
               PROVE  users'[holder'[x]].ext = None /\ users'[holder'[x]].email = None
    BY DEF HoldersPlain, Plain
  <2>1. CASE holder'[x] = u
    BY <2>1
  <2>2. CASE holder'[x] # u
    <3>1. holder'[x] = holder[x] /\ holder[x] \in Ids
      BY <1>2, <2>2, LinkingAssumption DEF TypeOK, Ids
    <3> QED
      BY <2>2, <3>1 DEF HoldersPlain, Plain
  <2> QED
    BY <2>1, <2>2
<1>7. RemovalsKnow'
  BY <1>3 DEF RemovalsKnow, RemovalKnows, Disturb, NoRequest
<1>8. RowsSound'
  BY DEF RowsSound, Live
<1>9. EveryAccountHasAWayIn'
  <2> SUFFICES ASSUME NEW v \in Live'
               PROVE  \/ users'[v].ext # None
                      \/ users'[v].email # None /\ Claimable(users'[v])
                      \/ \E x \in Wallets : holder'[x] = v
                      \/ v \in stranded
    BY DEF EveryAccountHasAWayIn
  <2>1. CASE v = u
    BY <1>2, <2>1
  <2>2. CASE v # u
    <3>1. v \in Live /\ users'[v] = users[v] /\ v # 0
      BY <2>2, LinkingAssumption DEF Live, Ids
    <3>2. \A x \in Wallets : holder[x] = v => holder'[x] = v
      BY <1>2, <3>1
    <3> QED
      BY <3>1, <3>2 DEF EveryAccountHasAWayIn
  <2> QED
    BY <2>1, <2>2
<1> QED
  BY <1>4, <1>5, <1>6, <1>7, <1>8, <1>9

\* A request that ends where it writes nothing.
LEMMA EndsReading ==
  ASSUME Inv, UNCHANGED <<tables, disturbed, stranded>>, NEW r \in Requests,
         req' = [req EXCEPT ![r] = NoRequest],
         \A s \in sessions' \ sessions : /\ s \in [user : Ids, via : Identities \union Wallets]
                                         /\ SessionKnows(s)'
  PROVE  Inv'
<1> USE DEF Inv
<1>1. req'[r] = NoRequest /\ req' = [req EXCEPT ![r] = req'[r]]
  BY DEF TypeOK
<1>2. NoRequest \in RequestType /\ 0 <= created'
  BY LinkingAssumption DEF NoRequest, RequestType, TypeOK, tables
<1>3. RequestKnows(r)' /\ RemovalKnows(r)'
  BY <1>1, <1>2 DEF RequestKnows, RemovalKnows, NoRequest
<1> QED
  BY <1>1, <1>2, <1>3, ReadStep

LEMMA CreateForWalletKeeps ==
  ASSUME Inv, NEW r \in Requests, CreateForWallet(r)
  PROVE  Inv'
<1> USE DEF Inv
<1> DEFINE w == req[r].wallet
           status == req[r].status
           row == [status |-> status, ext |-> None, email |-> None]
<1>1. /\ w \in Wallets /\ status \in {"PENDING", "ACTIVE"} /\ UNCHANGED stranded
      /\ req' = [req EXCEPT ![r] = NoRequest]
      /\ IF status = "ACTIVE" THEN Answer(holder'[w], w) ELSE UNCHANGED sessions
  BY DEF CreateForWallet, RequestsKnow, RequestKnows, TypeOK
<1>2. CASE /\ holder[w] = 0 /\ Insert(row) /\ holder' = [holder EXCEPT ![w] = created']
           /\ disturbed' = disturbed \union Disturb(r)
  <2>1. row \in Rows /\ row.ext = None /\ row.email = None
    BY <1>1 DEF Rows
  <2> HIDE DEF row
  <2>2. /\ RowsTyped' /\ Evolve /\ created' \in Ids /\ users'[created'] = row
        /\ \A u \in Ids : u # created' => users'[u] = users[u]
    BY <1>2, <2>1, InsertRow
  <2>3. row # NoUser
    BY <1>1 DEF row, NoUser
  <2>4. holder'[w] = created'
    BY <1>1, <1>2 DEF TypeOK
  <2>5. sessions' \subseteq sessions \union {[user |-> created', via |-> w]}
    BY <1>1, <2>4 DEF Answer
  <2> QED
    BY <1>1, <1>2, <2>1, <2>2, <2>3, <2>5, HoldStep
<1>3. CASE holder[w] # 0 /\ UNCHANGED <<users, created, holder, disturbed>>
  <2>1. /\ holder[w] \in Ids /\ holder[w] <= created /\ w \notin Identities
        /\ users[holder[w]].ext = None /\ users[holder[w]].email = None
    BY <1>1, <1>3, LinkingAssumption DEF TypeOK, HoldersPlain, Plain, Ids
  <2>2. \A s \in sessions' \ sessions : /\ s \in [user : Ids, via : Identities \union Wallets]
                                        /\ SessionKnows(s)'
    BY <1>1, <1>3, <2>1 DEF Answer, SessionKnows
  <2> QED
    BY <1>1, <1>3, <2>2, EndsReading DEF tables
<1> QED
  BY <1>2, <1>3 DEF CreateForWallet

LEMMA InsertWalletKeeps ==
  ASSUME Inv, NEW r \in Requests, InsertWallet(r)
  PROVE  Inv'
<1> USE DEF Inv
<1> DEFINE w == req[r].wallet
           u == req[r].user
<1>1. /\ w \in Wallets /\ Plain(u) /\ UNCHANGED <<users, created, sessions, stranded>>
      /\ req' = [req EXCEPT ![r] = NoRequest]
  BY DEF InsertWallet, RequestsKnow, RequestKnows
<1>2. CASE /\ holder[w] = 0 /\ u \in Live /\ holder' = [holder EXCEPT ![w] = u]
           /\ disturbed' = disturbed \union Disturb(r)
  <2>1. RowsTyped' /\ Evolve
    BY <1>1, SameRows
  <2>2. u \in Ids /\ users'[u] # NoUser /\ users'[u].ext = None /\ users'[u].email = None
    BY <1>1, <1>2 DEF Live, Plain
  <2> QED
    BY <1>1, <1>2, <2>1, <2>2, HoldStep
<1>3. CASE UNCHANGED <<holder, disturbed>>
  BY <1>1, <1>3, EndsReading DEF tables
<1> QED
  BY <1>2, <1>3 DEF InsertWallet

\* A removal that nothing disturbed leaves the signer's wallet.
LEMMA DeleteByAddressKeeps ==
  ASSUME Inv, NEW r \in Requests, DeleteByAddress(r)
  PROVE  Inv'
<1> USE DEF Inv
<1> DEFINE w == req[r].wallet
           u == holder[w]
<1>1. /\ w \in Wallets /\ req[r].at = "remove" /\ UNCHANGED <<users, created, sessions>>
      /\ holder' = [holder EXCEPT ![w] = 0]
      /\ stranded' = IF u # 0 /\ r \in disturbed THEN stranded \union {u} ELSE stranded
      /\ disturbed' = (disturbed \union Disturb(r)) \ {r}
      /\ req' = [req EXCEPT ![r] = NoRequest]
  BY DEF DeleteByAddress, RequestsKnow, RequestKnows
<1>2. RowsTyped' /\ Evolve
  BY <1>1, SameRows
<1>3. /\ holder' \in [Wallets -> 0 .. MaxUsers] /\ holder'[w] = 0
      /\ \A x \in Wallets : x # w => holder'[x] = holder[x]
  BY <1>1, LinkingAssumption DEF TypeOK
<1>4. NoRequest \in RequestType /\ req'[r] = NoRequest
      /\ \A q \in Requests : q # r => req'[q] = req[q]
  BY <1>1, LinkingAssumption DEF NoRequest, RequestType, TypeOK
<1>5. u # 0 => u \in Ids
  BY <1>1, LinkingAssumption DEF TypeOK, Ids
<1>6. TypeOK'
  <2>1. req' \in [Requests -> RequestType]
    BY <1>1, <1>4 DEF TypeOK, RequestType
  <2>2. \A x \in Wallets : holder'[x] # 0 => users'[holder'[x]] # NoUser
    BY <1>1, <1>3 DEF TypeOK
  <2>3. stranded' \subseteq Ids /\ disturbed' \subseteq Requests
    BY <1>1, <1>5 DEF TypeOK, Disturb
  <2> QED
    BY <1>1, <1>2, <1>3, <2>1, <2>2, <2>3 DEF RowsTyped, TypeOK, RequestType
<1>7. SessionsKnow' /\ RequestsKnow'
  <2>1. RequestKnows(r)'
    BY <1>4, <1>6 DEF RequestKnows, NoRequest, TypeOK
  <2> QED
    BY <1>1, <1>2, <1>4, <1>6, <2>1, KnowledgeStays
<1>8. HoldersPlain'
  BY <1>1, <1>3 DEF HoldersPlain, Plain
<1>9. RemovalsKnow'
  BY <1>1, <1>4 DEF RemovalsKnow, RemovalKnows, Disturb, NoRequest
<1>10. RowsSound'
  BY <1>1 DEF RowsSound, Live
<1>11. EveryAccountHasAWayIn'
  <2> SUFFICES ASSUME NEW v \in Live
               PROVE  \/ users[v].ext # None
                      \/ users[v].email # None /\ Claimable(users[v])
                      \/ \E x \in Wallets : holder'[x] = v
                      \/ v \in stranded'
    BY <1>1 DEF EveryAccountHasAWayIn, Live
  <2>1. CASE v = u
    <3>1. u # 0
      BY <2>1, LinkingAssumption DEF Live, Ids
    <3>2. CASE r \in disturbed
      BY <1>1, <2>1, <3>1, <3>2
    <3>3. CASE r \notin disturbed
      <4>1. /\ req[r].signer \in Wallets /\ req[r].signer # w
            /\ holder[req[r].signer] = u
        BY <1>1, <3>3 DEF RemovalsKnow, RemovalKnows
      <4> QED
        BY <1>3, <2>1, <4>1
    <3> QED
      BY <3>2, <3>3
  <2>2. CASE v # u
    <3>1. \A x \in Wallets : holder[x] = v => holder'[x] = v
      BY <1>3, <2>2
    <3>2. stranded \subseteq stranded'
      BY <1>1
    <3> QED
      BY <3>1, <3>2 DEF EveryAccountHasAWayIn
  <2> QED
    BY <2>1, <2>2
<1> QED
  BY <1>6, <1>7, <1>8, <1>9, <1>10, <1>11

LEMMA DeleteAccountKeeps ==
  ASSUME Inv, NEW u \in Ids, DeleteAccount(u)
  PROVE  Inv'
<1> USE DEF Inv
<1>1. /\ u \in Live /\ UNCHANGED <<created, sessions, req, stranded>>
      /\ users'[u] = NoUser /\ \A v \in Ids : v # u => users'[v] = users[v]
      /\ users' \in [Ids -> Rows \union {NoUser}]
      /\ \A w \in Wallets : holder'[w] = IF holder[w] = u THEN 0 ELSE holder[w]
      /\ disturbed' = disturbed \union {q \in Requests : req[q].at \in {"owned", "remove"}}
  BY DEF DeleteAccount, TypeOK
<1>2. holder' \in [Wallets -> 0 .. MaxUsers]
  BY LinkingAssumption DEF DeleteAccount, TypeOK
<1>3. NoUser.ext = None /\ NoUser.email = None
  BY DEF NoUser
<1>4. RowsTyped'
  <2>1. \A v \in Ids : users'[v] # NoUser => v <= created'
    BY <1>1 DEF TypeOK
  <2>2. \A v, x \in Ids : v # x => users'[v].ext = None \/ users'[v].ext # users'[x].ext
    BY <1>1, <1>3 DEF TypeOK
  <2>3. \A v, x \in Ids : v # x => users'[v].email = None \/ users'[v].email # users'[x].email
    BY <1>1, <1>3 DEF TypeOK
  <2>4. created' \in 0 .. MaxUsers
    BY <1>1 DEF TypeOK
  <2> QED
    BY <1>1, <2>1, <2>2, <2>3, <2>4 DEF RowsTyped
<1>5. Evolve
  BY <1>1 DEF Evolve, TypeOK
<1>6. TypeOK'
  <2>1. \A w \in Wallets : holder[w] # 0 => holder[w] \in Ids /\ users[holder[w]] # NoUser
    BY LinkingAssumption DEF TypeOK, Ids
  <2>2. \A w \in Wallets : holder'[w] # 0 => users'[holder'[w]] # NoUser
    BY <1>1, <2>1
  <2> QED
    BY <1>1, <1>2, <1>4, <2>2 DEF RowsTyped, TypeOK
<1>7. SessionsKnow' /\ RequestsKnow'
  BY <1>1, <1>5, <1>6, KnowledgeStays
<1>8. HoldersPlain'
  <2>1. \A w \in Wallets : holder[w] # 0 => holder[w] \in Ids
    BY LinkingAssumption DEF TypeOK, Ids
  <2> QED
    BY <1>1, <2>1 DEF HoldersPlain, Plain
<1>9. RemovalsKnow'
  BY <1>1 DEF RemovalsKnow, RemovalKnows
<1>10. RowsSound'
  BY <1>1 DEF RowsSound, Live
<1>11. EveryAccountHasAWayIn'
  BY <1>1 DEF EveryAccountHasAWayIn, Live
<1> QED
  BY <1>6, <1>7, <1>8, <1>9, <1>10, <1>11

\* Who has a session for an account that is still pending came by a wallet.
LEMMA ActivateKeeps ==
  ASSUME Inv, NEW u \in Ids, Activate(u)
  PROVE  Inv'
<1> USE DEF Inv
<1>1. /\ u \in Live /\ users[u].status = "PENDING"
      /\ users' = [users EXCEPT ![u].status = "ACTIVE"]
      /\ UNCHANGED <<created, holder, sessions, req, disturbed, stranded>>
  BY DEF Activate
<1>2. users[u].ext = None /\ users[u].email = None /\ users[u] # NoUser /\ users[u] \in Rows
  <2>1. PICK s \in sessions : s.user = u
    BY DEF Activate
  <2>2. SessionKnows(s) /\ users[u] # NoUser
    BY <1>1 DEF SessionsKnow, Live
  <2>3. CASE s.via \in Identities
    BY <1>1, <2>1, <2>2, <2>3 DEF SessionKnows
  <2>4. CASE s.via \notin Identities
    BY <2>1, <2>2, <2>4, RowFields DEF SessionKnows
  <2> QED
    BY <2>3, <2>4
<1>3. /\ users'[u] \in Rows /\ users'[u].status = "ACTIVE"
      /\ users'[u].ext = None /\ users'[u].email = None
  BY <1>1, <1>2 DEF TypeOK, Rows
<1>4. \A v \in Ids : v # u => users'[v] = users[v]
  BY <1>1 DEF TypeOK
<1>5. users'[u] # NoUser
  BY <1>3 DEF NoUser
<1>6. RowsTyped'
  <2>1. \A v, x \in Ids : v # x => users'[v].ext = None \/ users'[v].ext # users'[x].ext
    BY <1>3, <1>4 DEF TypeOK
  <2>2. \A v, x \in Ids : v # x => users'[v].email = None \/ users'[v].email # users'[x].email
    BY <1>3, <1>4 DEF TypeOK
  <2>3. users' \in [Ids -> Rows \union {NoUser}]
    BY <1>1, <1>3 DEF TypeOK
  <2>4. created' \in 0 .. MaxUsers /\ \A v \in Ids : users'[v] # NoUser => v <= created'
    BY <1>1, <1>2, <1>4 DEF TypeOK
  <2> QED
    BY <2>1, <2>2, <2>3, <2>4 DEF RowsTyped
<1>7. Evolve
  BY <1>1, <1>2, <1>3, <1>4 DEF Evolve, TypeOK
<1>8. TypeOK'
  <2>1. \A w \in Wallets : holder[w] # 0 => holder[w] \in Ids /\ users[holder[w]] # NoUser
    BY LinkingAssumption DEF TypeOK, Ids
  <2>2. \A w \in Wallets : holder'[w] # 0 => users'[holder'[w]] # NoUser
    BY <1>1, <1>4, <1>5, <2>1
  <2> QED
    BY <1>1, <1>6, <2>2 DEF RowsTyped, TypeOK
<1>9. SessionsKnow' /\ RequestsKnow'
  BY <1>1, <1>7, <1>8, KnowledgeStays
<1>10. HoldersPlain' /\ RemovalsKnow'
  BY <1>1, <1>7, <1>8, WalletsStay
<1>11. RowsSound'
  BY <1>3, <1>4 DEF RowsSound, Live
<1>12. EveryAccountHasAWayIn'
  <2> SUFFICES ASSUME NEW v \in Live'
               PROVE  \/ users'[v].ext # None
                      \/ users'[v].email # None /\ Claimable(users'[v])
                      \/ \E x \in Wallets : holder[x] = v
                      \/ v \in stranded
    BY <1>1 DEF EveryAccountHasAWayIn
  <2>1. CASE v = u
    BY <1>1, <1>2, <2>1 DEF EveryAccountHasAWayIn
  <2>2. CASE v # u
    BY <1>4, <2>2 DEF EveryAccountHasAWayIn, Live
  <2> QED
    BY <2>1, <2>2
<1> QED
  BY <1>8, <1>9, <1>10, <1>11, <1>12

-----------------------------------------------------------------------------
LEMMA InvStep == Inv /\ [Next]_vars => Inv'
<1> SUFFICES ASSUME Inv, [Next]_vars PROVE Inv'
  OBVIOUS
<1>1. ASSUME NEW r \in Requests, NEW i \in Identities, Login(r, i) PROVE Inv'
  BY <1>1, LoginKeeps
<1>2. ASSUME NEW r \in Requests,
             \/ FindCandidate(r) \/ Claim(r) \/ InsertUser(r) \/ Refetch(r)
             \/ PersistEmail(r) \/ Reread(r)
      PROVE  Inv'
  BY <1>2, FindCandidateKeeps, ClaimKeeps, InsertUserKeeps, RefetchKeeps,
     PersistEmailKeeps, RereadKeeps
<1>3. ASSUME NEW r \in Requests, NEW w \in Wallets, NEW status \in {"PENDING", "ACTIVE"},
             FindWallet(r, w, status)
      PROVE  Inv'
  BY <1>3, FindWalletKeeps
<1>4. ASSUME NEW r \in Requests,
             CreateForWallet(r) \/ InsertWallet(r) \/ FindOwned(r) \/ DeleteByAddress(r)
      PROVE  Inv'
  BY <1>4, CreateForWalletKeeps, InsertWalletKeeps, FindOwnedKeeps, DeleteByAddressKeeps
<1>5. ASSUME NEW r \in Requests, NEW s \in Wallets, NEW w \in Wallets,
             AddWallet(r, s, w) \/ RemoveWallet(r, s, w)
      PROVE  Inv'
  BY <1>5, AddWalletKeeps, RemoveWalletKeeps
<1>6. ASSUME NEW e \in Emails, InviteByEmail(e) PROVE Inv'
  BY <1>6, InviteKeeps
<1>7. ASSUME NEW u \in Ids, DeleteAccount(u) \/ Activate(u) PROVE Inv'
  BY <1>7, DeleteAccountKeeps, ActivateKeeps
<1>8. CASE UNCHANGED vars
  <2>1. UNCHANGED <<users, created, holder, sessions, req, disturbed, stranded>>
    BY <1>8 DEF vars, tables
  <2>2. TypeOK'
    BY <2>1 DEF Inv, TypeOK
  <2>3. SessionsKnow' /\ RequestsKnow'
    BY <2>1, <2>2, SameRows, KnowledgeStays
  <2>4. HoldersPlain' /\ RemovalsKnow'
    BY <2>1, <2>2, SameRows, WalletsStay
  <2>5. RowsSound' /\ EveryAccountHasAWayIn'
    BY <2>1 DEF Inv, RowsSound, EveryAccountHasAWayIn, Live
  <2> QED
    BY <2>2, <2>3, <2>4, <2>5 DEF Inv
<1> QED
  BY <1>1, <1>2, <1>3, <1>4, <1>5, <1>6, <1>7, <1>8 DEF Next

LEMMA Invariance == Spec => []Inv
BY InitInv, InvStep, PTL DEF Spec

-----------------------------------------------------------------------------
\* Accounts, wallets, sessions and requests keep their types, and no two accounts
\* share an identity or an email (the unique indexes of users and wallets).
THEOREM TypeCorrect == Spec => []TypeOK
<1>1. Inv => TypeOK
  BY DEF Inv
<1> QED
  BY Invariance, <1>1, PTL

\* Whatever logins race, an identity that was given a session for an account is
\* linked to it, with its verified email, as long as there is the account
\* (findOrCreateByExtUserIdAndEmail).
THEOREM SessionsStay == Spec => []SessionsKeepTheirAccount
<1>1. Inv => SessionsKeepTheirAccount
  BY DEF Inv, SessionsKnow, SessionKnows, SessionsKeepTheirAccount, Live
<1> QED
  BY Invariance, <1>1, PTL

\* No account is left without a way in, but by a removal during which others
\* changed wallets (deleteWalletFromUser).
THEOREM AccountsReachable == Spec => []EveryAccountHasAWayIn
<1>1. Inv => EveryAccountHasAWayIn
  BY DEF Inv
<1> QED
  BY Invariance, <1>1, PTL

LeavesOnDemand(w) ==
  holder[w] # 0 /\ holder'[w] # holder[w] =>
    /\ holder'[w] = 0
    /\ \/ users'[holder[w]] = NoUser
       \/ \E r \in Requests : /\ req[r].at = "remove" /\ req[r].wallet = w
                              /\ req[r].user = holder[w] \/ r \in disturbed

LEMMA WalletStep ==
  ASSUME Inv, [Next]_vars, NEW w \in Wallets
  PROVE  LeavesOnDemand(w)
<1>1. ASSUME NEW r \in Requests, DeleteByAddress(r) PROVE LeavesOnDemand(w)
  <2> SUFFICES ASSUME holder[w] # 0, holder'[w] # holder[w] PROVE LeavesOnDemand(w)
    BY DEF LeavesOnDemand
  <2>1. /\ req[r].wallet = w /\ holder'[w] = 0 /\ req[r].at = "remove"
    BY <1>1 DEF DeleteByAddress, Inv, TypeOK
  <2>2. req[r].user = holder[w] \/ r \in disturbed
    BY <2>1 DEF Inv, RemovalsKnow, RemovalKnows
  <2> QED
    BY <2>1, <2>2 DEF LeavesOnDemand
<1>2. ASSUME NEW u \in Ids, DeleteAccount(u) PROVE LeavesOnDemand(w)
  <2> SUFFICES ASSUME holder[w] # 0, holder'[w] # holder[w] PROVE LeavesOnDemand(w)
    BY DEF LeavesOnDemand
  <2>1. holder[w] = u /\ holder'[w] = 0 /\ users'[u] = NoUser
    BY <1>2 DEF DeleteAccount, Inv, TypeOK
  <2> QED
    BY <2>1 DEF LeavesOnDemand
<1>3. ASSUME NEW r \in Requests, CreateForWallet(r) \/ InsertWallet(r) PROVE LeavesOnDemand(w)
  <2>1. req[r].wallet \in Wallets
    BY <1>3 DEF CreateForWallet, InsertWallet, Inv, RequestsKnow, RequestKnows
  <2>2. holder' = holder \/ (/\ holder[req[r].wallet] = 0
                             /\ \E u : holder' = [holder EXCEPT ![req[r].wallet] = u])
    BY <1>3 DEF CreateForWallet, InsertWallet
  <2> QED
    BY <2>1, <2>2 DEF Inv, TypeOK, LeavesOnDemand
<1>4. ASSUME NEW r \in Requests, NEW i \in Identities, Login(r, i) PROVE LeavesOnDemand(w)
  BY <1>4 DEF Login, tables, LeavesOnDemand
<1>5. ASSUME NEW r \in Requests,
             \/ FindCandidate(r) \/ Claim(r) \/ InsertUser(r) \/ Refetch(r)
             \/ PersistEmail(r) \/ Reread(r) \/ FindOwned(r)
      PROVE  LeavesOnDemand(w)
  BY <1>5 DEF FindCandidate, Claim, InsertUser, Refetch, PersistEmail, Reread, FindOwned, tables, LeavesOnDemand
<1>6. ASSUME NEW r \in Requests, NEW x \in Wallets, NEW status \in {"PENDING", "ACTIVE"},
              FindWallet(r, x, status)
       PROVE  LeavesOnDemand(w)
  BY <1>6 DEF FindWallet, tables, LeavesOnDemand
<1>7. ASSUME NEW r \in Requests, NEW s \in Wallets, NEW x \in Wallets,
              AddWallet(r, s, x) \/ RemoveWallet(r, s, x)
       PROVE  LeavesOnDemand(w)
  BY <1>7 DEF AddWallet, RemoveWallet, tables, LeavesOnDemand
<1>8. ASSUME NEW e \in Emails, InviteByEmail(e) PROVE LeavesOnDemand(w)
  BY <1>8 DEF InviteByEmail, LeavesOnDemand
<1>9. ASSUME NEW u \in Ids, Activate(u) PROVE LeavesOnDemand(w)
  BY <1>9 DEF Activate, LeavesOnDemand
<1>10. CASE UNCHANGED vars
  BY <1>10 DEF vars, tables, LeavesOnDemand
<1> QED
  BY <1>1, <1>2, <1>3, <1>4, <1>5, <1>6, <1>7, <1>8, <1>9, <1>10 DEF Next

\* A wallet leaves its account only with it, at its demand, or by a removal during
\* which wallets changed, and never goes straight to another (deleteByAddress).
THEOREM WalletsLeave == Spec => WalletsLeaveOnDemand
<1>1. Inv /\ [Next]_vars => \A w \in Wallets : LeavesOnDemand(w)
  BY WalletStep
<1>2. Inv /\ [Next]_vars =>
        [\A w \in Wallets : holder[w] # 0 /\ holder'[w] # holder[w] =>
           /\ holder'[w] = 0
           /\ \/ users'[holder[w]] = NoUser
              \/ \E r \in Requests : /\ req[r].at = "remove" /\ req[r].wallet = w
                                     /\ req[r].user = holder[w] \/ r \in disturbed]_vars
  BY <1>1 DEF LeavesOnDemand
<1> QED
  BY Invariance, <1>2, PTL DEF Spec, WalletsLeaveOnDemand
=============================================================================
