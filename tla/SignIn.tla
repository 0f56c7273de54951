-------------------------------- MODULE SignIn --------------------------------
(***************************************************************************)
(* Who makes a request (auth/oidc.py, web/deps.py): a bearer token is      *)
(* checked against the signing keys of the identity provider, which a      *)
(* verifier shared by all threads caches; the groups of the token give the *)
(* role; the subject gives the lab_user row the audit trail names, which   *)
(* is inserted when the subject is first seen.                             *)
(*                                                                         *)
(* The provider rotates its keys, and moves people between groups and      *)
(* addresses.  A token is genuine unless its key or its date says          *)
(* otherwise; TokenLife includes the leeway for clocks that differ.        *)
(***************************************************************************)
EXTENDS Naturals, FiniteSets, Sequences

CONSTANTS
    Request,        \* threads that serve requests
    Person, Email, Key, Group,
    Memberships,    \* sets of groups a person may be in
    RoleMap,        \* MSA_OIDC_ROLE_MAP: roles of the groups it names
    CacheSeconds,   \* JWKS_CACHE_SECONDS
    TokenLife,
    Nobody,         \* no address, no key, no token
    MaxTime, MaxTokens, MaxClients, MaxRotations, MaxMoves  \* bounds for model checking

\* Least to most privileged.
Privilege == <<"client", "prep_tech", "analyst", "supervisor", "lab_manager">>

Roles == {Privilege[i] : i \in DOMAIN Privilege}

\* A lab_user row.
User == [subject : Person, email : Email, role : Roles]

ASSUME SignInAssumption ==
    /\ DOMAIN RoleMap \subseteq Group /\ {RoleMap[g] : g \in DOMAIN RoleMap} \subseteq Roles
    /\ {CacheSeconds, TokenLife, MaxTime, MaxTokens, MaxClients} \subseteq Nat
    /\ {MaxRotations, MaxMoves} \subseteq Nat /\ Memberships \subseteq SUBSET Group
    /\ Nobody \notin Nat \cup User

VARIABLES
    now,
    published,      \* keys the provider publishes
    withdrawn,      \* when a key was withdrawn, Nobody while it was not
    directory,      \* address and groups of each person, at the provider
    tokens,         \* issued, and still with their holders
    clients,        \* the PyJWKClient objects made so far; the last one is cached
    request,        \* what each thread is doing
    users,          \* committed lab_user rows
    act,            \* the last commit: the token, the row named, the role used
    rotations, moves    \* how often the provider changed a key, a person

provider == <<now, published, withdrawn, directory, tokens, rotations, moves>>
vars == <<provider, clients, request, users, act>>

Token  == [person : Person, email : Email, groups : SUBSET Group, key : Key, issued : 0 .. MaxTime]
Client == [made : 0 .. MaxTime, set : SUBSET Key, used : SUBSET Key]

Phases == {"idle", "holding", "again", "unknown_key", "refused", "identified", "absent",
           "acting", "failed"}

Idle == [phase |-> "idle", token |-> Nobody, client |-> 0, at |-> 0, failures |-> 0,
         row |-> Nobody, saw |-> {}]

SignInTypeOK ==
    /\ now \in 0 .. MaxTime
    /\ tokens \subseteq Token
    /\ clients \in Seq(Client) /\ Len(clients) <= MaxClients
    /\ users \subseteq User
    /\ act \in [token : Token, row : User, role : Roles] \cup {Nobody}
    /\ \A r \in Request :
          /\ request[r].phase \in Phases
          /\ request[r].phase # "idle" => request[r].token \in tokens
          /\ request[r].client \in 0 .. Len(clients)
          /\ request[r].row \in User \cup {Nobody}

SignInInit ==
    /\ now = 0
    /\ \E k \in Key : published = {k}
    /\ withdrawn = [k \in Key |-> Nobody]
    /\ directory \in [Person -> [email : Email, groups : Memberships]]
    /\ \A p, q \in Person : directory[p].email = directory[q].email => p = q
    /\ tokens = {}
    /\ clients = <<>>
    /\ request = [r \in Request |-> Idle]
    /\ users = {} /\ act = Nobody
    /\ rotations = 0 /\ moves = 0

-----------------------------------------------------------------------------
(***************************************************************************)
(* The provider.                                                           *)
(***************************************************************************)
Rotate == rotations < MaxRotations /\ rotations' = rotations + 1

Tick ==
    /\ now < MaxTime /\ now' = now + 1
    /\ UNCHANGED <<published, withdrawn, directory, tokens, rotations, moves, clients, request, users, act>>

\* A new key is published beside the old one, which goes later.
PublishKey(k) ==
    /\ k \notin published /\ withdrawn[k] = Nobody
    /\ published' = published \cup {k}
    /\ Rotate
    /\ UNCHANGED <<now, withdrawn, directory, tokens, moves, clients, request, users, act>>

WithdrawKey(k) ==
    /\ k \in published /\ published # {k}
    /\ published' = published \ {k}
    /\ withdrawn' = [withdrawn EXCEPT ![k] = now]
    /\ Rotate
    /\ UNCHANGED <<now, directory, tokens, moves, clients, request, users, act>>

\* A person joins, leaves, marries or moves; an address left behind may be
\* given to somebody else.
MovePerson(p, e, G) ==
    /\ \A q \in Person \ {p} : e # Nobody => directory[q].email # e
    /\ directory[p] # [email |-> e, groups |-> G]
    /\ directory' = [directory EXCEPT ![p] = [email |-> e, groups |-> G]]
    /\ moves < MaxMoves /\ moves' = moves + 1
    /\ UNCHANGED <<now, published, withdrawn, tokens, rotations, clients, request, users, act>>

Issue(p, k) ==
    /\ directory[p].email # Nobody
    /\ k \in published
    /\ Cardinality(tokens) < MaxTokens
    /\ tokens' = tokens \cup
          {[person |-> p, email |-> directory[p].email, groups |-> directory[p].groups,
            key |-> k, issued |-> now]}
    /\ UNCHANGED <<now, published, withdrawn, directory, rotations, moves, clients, request, users, act>>

-----------------------------------------------------------------------------
(***************************************************************************)
(* The verifier.  The lock is held while a client is chosen, not while it  *)
(* is used.                                                                *)
(***************************************************************************)
Current == clients[Len(clients)]

\* Mutant: the key set is kept as long as it serves.
ExpiredNever == FALSE

Expired == now - Current.made > CacheSeconds

NewClient == [made |-> now, set |-> {}, used |-> {}]

TakeClient(r, t) ==
    /\ request[r] = Idle
    /\ clients' = IF clients = <<>> \/ Expired THEN Append(clients, NewClient) ELSE clients
    /\ Len(clients') <= MaxClients
    /\ request' = [request EXCEPT ![r] =
          [Idle EXCEPT !.phase = "holding", !.token = t, !.client = Len(clients'), !.at = now]]
    /\ UNCHANGED <<provider, users, act>>

\* PyJWKClient: a key it has used or fetched is known; for any other it fetches
\* the key set, and the fetch may fail.
HasKey(r) == LET c == clients[request[r].client]
             IN  request[r].token.key \in c.set \cup c.used

Fetched(r) == [clients EXCEPT ![request[r].client].set = published]

Looking(r) == request[r].phase \in {"holding", "again"}

\* Mutant: an unknown key, or a failed fetch, refuses the token at once.
GiveUp(r, known, failed) ==
    /\ clients' = known
    /\ request' = [request EXCEPT ![r].phase = "unknown_key", ![r].failures = @ + failed]

\* One forced refresh, then give up.
NotFound(r, known, failed) ==
    IF request[r].phase = "again" THEN GiveUp(r, known, failed)
    ELSE /\ Len(known) < MaxClients
         /\ clients' = Append(known, NewClient)
         /\ request' = [request EXCEPT ![r].phase = "again", ![r].client = Len(known) + 1,
                                       ![r].failures = @ + failed]

Absent(r) ==
    /\ Looking(r) /\ ~HasKey(r)
    /\ request[r].token.key \notin published
    /\ NotFound(r, Fetched(r), 0)
    /\ UNCHANGED <<provider, users, act>>

FetchFails(r) ==
    /\ Looking(r) /\ ~HasKey(r)
    /\ NotFound(r, clients, 1)
    /\ UNCHANGED <<provider, users, act>>

-----------------------------------------------------------------------------
(***************************************************************************)
(* The identity.                                                           *)
(***************************************************************************)
Mapped(G) == {RoleMap[g] : g \in G \cap DOMAIN RoleMap}

Rank(role) == CHOOSE i \in DOMAIN Privilege : Privilege[i] = role

\* Most privileged wins.
RoleOf(roles) == CHOOSE role \in roles : \A other \in roles : Rank(other) <= Rank(role)

\* The key is there: the date is checked, then the groups.  No mapped group, no role.
Identify(r) ==
    LET t == request[r].token
        known == IF HasKey(r) THEN clients ELSE Fetched(r)
    IN
    /\ Looking(r)
    /\ HasKey(r) \/ t.key \in published
    /\ clients' = [known EXCEPT ![request[r].client].used = @ \cup {t.key}]
    /\ request' = [request EXCEPT ![r].phase =
          IF now <= t.issued + TokenLife /\ Mapped(t.groups) # {} THEN "identified" ELSE "refused"]
    /\ UNCHANGED <<provider, users, act>>

-----------------------------------------------------------------------------
(***************************************************************************)
(* The lab_user row.                                                       *)
(***************************************************************************)
\* Mutant: people are found by their address.
UserOfAddress(t) == {u \in users : u.email = t.email}

\* Mutant: the address has to match as well.
UserOfBoth(t) == {u \in users : u.subject = t.person /\ u.email = t.email}

UserOf(t) == {u \in users : u.subject = t.person}

Authority(r) == RoleOf(Mapped(request[r].token.groups))

\* A row that is found is brought up to date.
LookUp(r) ==
    LET t == request[r].token IN
    /\ request[r].phase = "identified"
    /\ request' = [request EXCEPT
          ![r].client = 0, ![r].at = 0, ![r].failures = 0, ![r].saw = users,
          ![r].phase = IF UserOf(t) = {} THEN "absent" ELSE "acting",
          ![r].row = IF UserOf(t) = {} THEN Nobody
                     ELSE [(CHOOSE u \in UserOf(t) : TRUE) EXCEPT !.role = Authority(r)]]
    /\ UNCHANGED <<provider, clients, users, act>>

\* The UNIQUE indexes on subject and email: an insert waits for another
\* transaction's row, and fails on a committed one.
Alike(u, v) == u.subject = v.subject \/ u.email = v.email

Pending(r) == request[r].row # Nobody /\ UserOf(request[r].token) = {}

InsertUser(r) ==
    LET t == request[r].token
        u == [subject |-> t.person, email |-> t.email, role |-> Authority(r)]
    IN
    /\ request[r].phase = "absent"
    /\ \A q \in Request : Pending(q) => ~Alike(u, request[q].row)
    /\ request' = [request EXCEPT
          ![r].phase = IF \E v \in users : Alike(u, v) THEN "failed" ELSE "acting",
          ![r].row   = IF \E v \in users : Alike(u, v) THEN Nobody ELSE u]
    /\ UNCHANGED <<provider, clients, users, act>>

\* A handler that writes commits, a new or changed row with it.
Commit(r) ==
    LET u == request[r].row IN
    /\ request[r].phase = "acting"
    /\ users' = IF u \in request[r].saw THEN users
                ELSE {v \in users : v.subject # u.subject} \cup {u}
    /\ act' = [token |-> request[r].token, row |-> u, role |-> Authority(r)]
    /\ request' = [request EXCEPT ![r] = Idle]
    /\ UNCHANGED <<provider, clients>>

\* A read commits nothing, and neither does a refusal: a new person stays new.
Close(r) ==
    /\ request[r].phase \in {"acting", "unknown_key", "refused", "failed"}
    /\ request' = [request EXCEPT ![r] = Idle]
    /\ UNCHANGED <<provider, clients, users, act>>

SignInNext ==
    \/ Tick
    \/ \E k \in Key : PublishKey(k) \/ WithdrawKey(k)
    \/ \E p \in Person :
          \/ \E e \in Email \cup {Nobody}, G \in Memberships : MovePerson(p, e, G)
          \/ \E k \in Key : Issue(p, k)
    \/ \E r \in Request :
          \/ \E t \in tokens : TakeClient(r, t)
          \/ Identify(r) \/ Absent(r) \/ FetchFails(r)
          \/ LookUp(r) \/ InsertUser(r) \/ Commit(r) \/ Close(r)

SignInSpec == SignInInit /\ [][SignInNext]_vars

-----------------------------------------------------------------------------
(***************************************************************************)
(* Properties.                                                             *)
(***************************************************************************)
\* oidc.py:46: a key the provider has withdrawn stops working within the life of
\* the cache, whichever thread holds which client.
WithdrawnKeyStops ==
    \A r \in Request :
        LET t == request[r].token IN
        (request[r].phase = "identified" /\ withdrawn[t.key] # Nobody)
            => request[r].at <= withdrawn[t.key] + CacheSeconds

\* A token whose key is still published is never refused for its key because of
\* what is cached, nor because of one fetch that failed.
RotationLocksNobodyOut ==
    \A r \in Request :
        (request[r].phase = "unknown_key" /\ withdrawn[request[r].token.key] = Nobody)
            => request[r].failures >= 2

\* A person is one row, whatever became of the address; the row an act names is
\* the person's who acted, and no lesser group of the token -- a client's -- takes
\* away the role a greater one gives, whatever role the row has by now.
OneRowAPerson ==
    /\ \A u, v \in users : Alike(u, v) => u = v
    /\ act # Nobody =>
          /\ act.row.subject = act.token.person
          /\ \E u \in users : u.subject = act.token.person /\ u.email = act.row.email
          /\ act.role \in Mapped(act.token.groups)
          /\ \A role \in Mapped(act.token.groups) : Rank(role) <= Rank(act.role)

\* A first request fails only if another one of the same person won a race with
\* it, or if the address has stood in somebody else's row.
FirstSightFailsForAReason ==
    \A r \in Request : request[r].phase = "failed" =>
        LET t == request[r].token IN
        \/ UserOf(t) # {} /\ UserOf(t) \cap request[r].saw = {}
        \/ \E u \in users : u.email = t.email /\ u.subject # t.person
=============================================================================
