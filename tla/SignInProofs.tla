----------------------------- MODULE SignInProofs -----------------------------
(***************************************************************************)
(* Sign-in, for any number of threads, people, keys and clients: what is   *)
(* cached never outlives a key for longer than it may, never locks anybody *)
(* out, and people are one row each.                                       *)
(***************************************************************************)
EXTENDS SignIn, TLAPS

Requests ==
    [phase : Phases, token : Token \cup {Nobody}, client : Nat, at : 0 .. MaxTime,
     failures : Nat, row : User \cup {Nobody}, saw : SUBSET User]

Signing(r) == request[r].phase # "idle"

Known == {"identified", "absent", "acting", "failed"}

Made == DOMAIN clients

RequestsKnown ==
    /\ request \in [Request -> Requests]
    /\ \A r \in Request :
          /\ Signing(r) => request[r].token \in tokens
          /\ Looking(r) => request[r].client \in Made
          /\ request[r].phase \in Known => Mapped(request[r].token.groups) # {}
          /\ request[r].phase = "acting" => request[r].row \in User

Types ==
    /\ now \in 0 .. MaxTime
    /\ published \subseteq Key
    /\ withdrawn \in [Key -> Nat \cup {Nobody}]
    /\ directory \in [Person -> [email : Email \cup {Nobody}, groups : Memberships]]
    /\ tokens \subseteq Token
    /\ clients \in Seq(Client)
    /\ RequestsKnown
    /\ users \subseteq User

-----------------------------------------------------------------------------
(***************************************************************************)
(* Roles.                                                                  *)
(***************************************************************************)
LEMMA RanksOfRoles ==
    /\ Roles = {"client", "prep_tech", "analyst", "supervisor", "lab_manager"}
    /\ Rank("client") = 1 /\ Rank("prep_tech") = 2 /\ Rank("analyst") = 3
    /\ Rank("supervisor") = 4 /\ Rank("lab_manager") = 5
<1>1. DOMAIN Privilege = 1 .. 5
  BY DEF Privilege
<1>2. /\ Privilege[1] = "client" /\ Privilege[2] = "prep_tech" /\ Privilege[3] = "analyst"
      /\ Privilege[4] = "supervisor" /\ Privilege[5] = "lab_manager"
  BY DEF Privilege
<1>3. \A i \in 1 .. 5 : i = 1 \/ i = 2 \/ i = 3 \/ i = 4 \/ i = 5
  OBVIOUS
<1> HIDE DEF Privilege
<1>4. Roles = {"client", "prep_tech", "analyst", "supervisor", "lab_manager"}
  BY <1>1, <1>2, <1>3 DEF Roles
<1>5. ASSUME NEW n \in 1 .. 5 PROVE Rank(Privilege[n]) = n
  BY <1>1, <1>2, <1>3 DEF Rank
<1> QED BY <1>2, <1>4, <1>5

\* Of some roles one is the most privileged.
LEMMA RoleOfIsGreatest ==
    ASSUME NEW S, S \subseteq Roles, S # {}
    PROVE  RoleOf(S) \in S /\ \A other \in S : Rank(other) <= Rank(RoleOf(S))
<1>1. \E role \in S : \A other \in S : Rank(other) <= Rank(role)
  <2>1. CASE "lab_manager" \in S
    BY <2>1, RanksOfRoles
  <2>2. CASE "lab_manager" \notin S /\ "supervisor" \in S
    BY <2>2, RanksOfRoles
  <2>3. CASE S \subseteq {"client", "prep_tech", "analyst"} /\ "analyst" \in S
    BY <2>3, RanksOfRoles
  <2>4. CASE S \subseteq {"client", "prep_tech"} /\ "prep_tech" \in S
    BY <2>4, RanksOfRoles
  <2>5. CASE S = {"client"}
    BY <2>5, RanksOfRoles
  <2> QED BY <2>1, <2>2, <2>3, <2>4, <2>5, RanksOfRoles
<1> QED BY <1>1 DEF RoleOf

\* The groups of a token give roles of the house.
LEMMA MappedRoles == \A G : Mapped(G) \subseteq Roles
BY SignInAssumption DEF Mapped

-----------------------------------------------------------------------------
(***************************************************************************)
(* Types.                                                                  *)
(***************************************************************************)
LEMMA TypesInit == SignInInit => Types
<1> SUFFICES ASSUME SignInInit PROVE Types
  OBVIOUS
<1>1. 0 \in 0 .. MaxTime
  BY SignInAssumption
<1>2. Idle \in Requests /\ Idle.phase = "idle"
  BY <1>1 DEF Idle, Requests, Phases
<1>3. request = [r \in Request |-> Idle]
  BY DEF SignInInit
<1>4. RequestsKnown
  BY <1>2, <1>3 DEF RequestsKnown, Signing, Looking, Known
<1>5. published \subseteq Key /\ withdrawn \in [Key -> Nat \cup {Nobody}]
  BY DEF SignInInit
<1>6. directory \in [Person -> [email : Email \cup {Nobody}, groups : Memberships]]
  BY DEF SignInInit
<1>7. tokens \subseteq Token /\ clients \in Seq(Client) /\ users \subseteq User /\ now = 0
  BY DEF SignInInit
<1> QED BY <1>1, <1>4, <1>5, <1>6, <1>7 DEF Types

\* One thread goes on.
LEMMA OneRequest ==
    ASSUME Types, NEW r \in Request, NEW q \in Requests, request' = [request EXCEPT ![r] = q],
           tokens' = tokens, Made \subseteq Made',
           q.phase # "idle" => q.token \in tokens,
           q.phase \in {"holding", "again"} => q.client \in Made',
           q.phase \in Known => Mapped(q.token.groups) # {},
           q.phase = "acting" => q.row \in User
    PROVE  RequestsKnown'
<1>1. request' \in [Request -> Requests]
  BY DEF Types, RequestsKnown
<1>2. request'[r] = q /\ \A s \in Request \ {r} : request'[s] = request[s]
  BY DEF Types, RequestsKnown
<1>3. ASSUME NEW s \in Request
      PROVE  /\ request'[s].phase # "idle" => request'[s].token \in tokens'
             /\ request'[s].phase \in {"holding", "again"} => request'[s].client \in Made'
             /\ request'[s].phase \in Known => Mapped(request'[s].token.groups) # {}
             /\ request'[s].phase = "acting" => request'[s].row \in User
  <2>1. CASE s = r
    BY <1>2, <2>1
  <2>2. CASE s # r
    <3>1. request'[s] = request[s]
      BY <1>2, <2>2
    <3> QED BY <3>1 DEF Types, RequestsKnown, Signing, Looking
  <2> QED BY <2>1, <2>2
<1> QED BY <1>1, <1>3 DEF RequestsKnown, Signing, Looking

\* The token of a thread that signs in.
LEMMA TokenOf ==
    ASSUME Types, NEW r \in Request, Signing(r)
    PROVE  request[r] \in Requests /\ request[r].token \in tokens /\ request[r].token \in Token
BY DEF Types, RequestsKnown

\* A fetch changes the key set of a client that exists.
LEMMA FetchedTypes ==
    ASSUME Types, NEW r \in Request, Looking(r)
    PROVE  /\ Fetched(r) \in Seq(Client) /\ Len(Fetched(r)) = Len(clients)
           /\ request[r].client \in DOMAIN clients
           /\ Fetched(r)[request[r].client] = [clients[request[r].client] EXCEPT !.set = published]
           /\ \A i \in DOMAIN clients : i # request[r].client => Fetched(r)[i] = clients[i]
<1>1. request[r].client \in DOMAIN clients /\ clients \in Seq(Client)
  BY DEF Types, RequestsKnown, Made
<1>2. PICK i : i = request[r].client
  OBVIOUS
<1>3. clients[i] \in Client
  BY <1>1, <1>2
<1>4. [clients[i] EXCEPT !.set = published] \in Client
  BY <1>3 DEF Client, Types
<1>5. Fetched(r) = [clients EXCEPT ![i] = [clients[i] EXCEPT !.set = published]]
  BY <1>2 DEF Fetched
<1>6. PICK c \in Client : c = [clients[i] EXCEPT !.set = published]
  BY <1>4
<1>7. Fetched(r) = [clients EXCEPT ![i] = c]
  BY <1>5, <1>6
<1> QED BY <1>1, <1>2, <1>6, <1>7

LEMMA AppendClient ==
    ASSUME Types, NEW known \in Seq(Client)
    PROVE  /\ Append(known, NewClient) \in Seq(Client)
           /\ Len(Append(known, NewClient)) = Len(known) + 1
           /\ Append(known, NewClient)[Len(known) + 1] = NewClient
           /\ \A i \in DOMAIN known : Append(known, NewClient)[i] = known[i]
<1>1. NewClient \in Client
  BY DEF NewClient, Client, Types
<1> HIDE DEF NewClient
<1> QED BY <1>1

-----------------------------------------------------------------------------
(***************************************************************************)
(* What the steps of a thread do to it.                                    *)
(***************************************************************************)
LEMMA TakeClientGives ==
    ASSUME Types, NEW r \in Request, NEW t \in tokens, TakeClient(r, t)
    PROVE  /\ \E q \in Requests : /\ request' = [request EXCEPT ![r] = q]
                                  /\ q.phase = "holding" /\ q.token = t /\ q.client = Len(clients')
                                  /\ q.at = now /\ q.failures = 0 /\ q.row = Nobody
           /\ \/ clients' = Append(clients, NewClient)
              \/ clients' = clients /\ clients # <<>> /\ ~Expired
<1> DEFINE q == [Idle EXCEPT !.phase = "holding", !.token = t, !.client = Len(clients'), !.at = now]
<1>1. request' = [request EXCEPT ![r] = q]
  BY DEF TakeClient
<1>2. clients' \in Seq(Client)
  BY AppendClient DEF TakeClient, Types
<1>3. Len(clients') \in Nat /\ t \in Token /\ now \in 0 .. MaxTime
  BY <1>2 DEF Types
<1>4. q \in Requests
  BY <1>3 DEF Idle, Requests, Phases
<1>5. /\ q.phase = "holding" /\ q.token = t /\ q.client = Len(clients')
      /\ q.at = now /\ q.failures = 0 /\ q.row = Nobody
  BY DEF Idle
<1>6. \/ clients' = Append(clients, NewClient)
      \/ clients' = clients /\ clients # <<>> /\ ~Expired
  BY DEF TakeClient
<1> HIDE DEF q
<1> QED BY <1>1, <1>4, <1>5, <1>6

LEMMA NotFoundGives ==
    ASSUME Types, NEW r \in Request, Looking(r), NEW known \in Seq(Client), NEW failed \in {0, 1},
           NotFound(r, known, failed)
    PROVE  \E q \in Requests :
              /\ request' = [request EXCEPT ![r] = q]
              /\ q.token = request[r].token /\ q.at = request[r].at /\ q.row = request[r].row
              /\ q.failures = request[r].failures + failed
              /\ \/ /\ request[r].phase = "again" /\ q.phase = "unknown_key" /\ clients' = known
                 \/ /\ request[r].phase = "holding" /\ q.phase = "again" /\ q.client = Len(known) + 1
                    /\ clients' = Append(known, NewClient)
<1>1. request[r] \in Requests /\ request[r].failures + failed \in Nat /\ Len(known) + 1 \in Nat
  BY DEF Types, RequestsKnown, Requests
<1>2. CASE request[r].phase = "again"
  <2> DEFINE q == [request[r] EXCEPT !.phase = "unknown_key", !.failures = request[r].failures + failed]
  <2>1. request' = [request EXCEPT ![r] = q] /\ clients' = known
    BY <1>1, <1>2 DEF NotFound, GiveUp, Types, RequestsKnown
  <2>2. q \in Requests
    BY <1>1 DEF Requests, Phases
  <2>3. /\ q.token = request[r].token /\ q.at = request[r].at /\ q.row = request[r].row
        /\ q.failures = request[r].failures + failed /\ q.phase = "unknown_key"
    BY <1>1 DEF Requests
  <2> HIDE DEF q
  <2> QED BY <1>2, <2>1, <2>2, <2>3
<1>3. CASE request[r].phase = "holding"
  <2> DEFINE q == [request[r] EXCEPT !.phase = "again", !.client = Len(known) + 1,
                                     !.failures = request[r].failures + failed]
  <2>1. request' = [request EXCEPT ![r] = q] /\ clients' = Append(known, NewClient)
    BY <1>1, <1>3 DEF NotFound, Types, RequestsKnown
  <2>2. q \in Requests
    BY <1>1 DEF Requests, Phases
  <2>3. /\ q.token = request[r].token /\ q.at = request[r].at /\ q.row = request[r].row
        /\ q.failures = request[r].failures + failed /\ q.phase = "again" /\ q.client = Len(known) + 1
    BY <1>1 DEF Requests
  <2> HIDE DEF q
  <2> QED BY <1>3, <2>1, <2>2, <2>3
<1> QED BY <1>2, <1>3 DEF Looking

LEMMA IdentifyGives ==
    ASSUME Types, NEW r \in Request, Identify(r)
    PROVE  /\ \E q \in Requests :
                 /\ request' = [request EXCEPT ![r] = q]
                 /\ q.token = request[r].token /\ q.at = request[r].at /\ q.row = request[r].row
                 /\ q.phase \in {"identified", "refused"}
                 /\ q.phase = "identified" => Mapped(q.token.groups) # {}
           /\ \E known \in {clients, Fetched(r)} :
                 clients' = [known EXCEPT ![request[r].client].used = @ \cup {request[r].token.key}]
           /\ \/ HasKey(r)
              \/ request[r].token.key \in published
           /\ Looking(r)
<1>1. request[r] \in Requests
  BY DEF Types, RequestsKnown
<1>2. PICK p \in {"identified", "refused"} :
          /\ request' = [request EXCEPT ![r].phase = p]
          /\ p = "identified" => Mapped(request[r].token.groups) # {}
  BY DEF Identify
<1>3. PICK q : q = [request[r] EXCEPT !.phase = p]
  OBVIOUS
<1>4. /\ q \in Requests /\ q.token = request[r].token /\ q.at = request[r].at /\ q.row = request[r].row
      /\ q.phase = p
  BY <1>1, <1>3 DEF Requests, Phases
<1>5. request' = [request EXCEPT ![r] = q]
  BY <1>2, <1>3
<1>6. \E known \in {clients, Fetched(r)} :
         clients' = [known EXCEPT ![request[r].client].used = @ \cup {request[r].token.key}]
  BY DEF Identify
<1>7. Looking(r) /\ (HasKey(r) \/ request[r].token.key \in published)
  BY DEF Identify
<1> QED BY <1>2, <1>4, <1>5, <1>6, <1>7

LEMMA LookUpGives ==
    ASSUME Types, NEW r \in Request, LookUp(r)
    PROVE  \E q \in Requests :
              /\ request' = [request EXCEPT ![r] = q]
              /\ q.token = request[r].token /\ q.saw = users
              /\ \/ q.phase = "absent" /\ q.row = Nobody /\ UserOf(q.token) = {}
                 \/ /\ q.phase = "acting" /\ q.row \in User
                    /\ \E u \in UserOf(q.token) : u.subject = q.row.subject /\ u.email = q.row.email
<1>0. 0 \in 0 .. MaxTime
  BY SignInAssumption
<1>1. /\ request[r] \in Requests /\ request[r].token \in Token
      /\ Mapped(request[r].token.groups) # {}
  BY TokenOf DEF LookUp, Signing, Types, RequestsKnown, Known
<1>2. PICK t : t = request[r].token
  OBVIOUS
<1>3. Authority(r) \in Roles
  BY <1>1, MappedRoles, RoleOfIsGreatest DEF Authority
<1>4. CASE UserOf(t) = {}
  <2> DEFINE q == [request[r] EXCEPT !.client = 0, !.at = 0, !.failures = 0, !.saw = users,
                                     !.phase = "absent", !.row = Nobody]
  <2>1. request' = [request EXCEPT ![r] = q]
    BY <1>2, <1>4 DEF LookUp, Types, RequestsKnown
  <2>2. q \in Requests
    BY <1>0, <1>1 DEF Requests, Phases, Types
  <2>3. q.token = t /\ q.saw = users /\ q.phase = "absent" /\ q.row = Nobody
    BY <1>1, <1>2 DEF Requests
  <2> HIDE DEF q
  <2> QED BY <1>2, <1>4, <2>1, <2>2, <2>3
<1>5. CASE UserOf(t) # {}
  <2>1. PICK u \in UserOf(t) : u = (CHOOSE v \in UserOf(t) : TRUE)
    BY <1>5
  <2>2. PICK a : a = Authority(r)
    OBVIOUS
  <2>3. u \in User
    BY DEF UserOf, Types
  <2>4. PICK w : w = [u EXCEPT !.role = a]
    OBVIOUS
  <2>5. w \in User /\ w.subject = u.subject /\ w.email = u.email
    BY <1>3, <2>2, <2>3, <2>4 DEF User
  <2> DEFINE q == [request[r] EXCEPT !.client = 0, !.at = 0, !.failures = 0, !.saw = users,
                                     !.phase = "acting", !.row = w]
  <2>6. request' = [request EXCEPT ![r] = q]
    BY <1>2, <1>5, <2>1, <2>2, <2>4 DEF LookUp, Types, RequestsKnown
  <2>7. q \in Requests
    BY <1>0, <1>1, <2>5 DEF Requests, Phases, Types
  <2>8. q.token = t /\ q.saw = users /\ q.phase = "acting" /\ q.row = w
    BY <1>1, <1>2 DEF Requests
  <2> HIDE DEF q
  <2> QED BY <1>2, <2>1, <2>5, <2>6, <2>7, <2>8
<1> QED BY <1>4, <1>5

LEMMA InsertUserGives ==
    ASSUME Types, NEW r \in Request, InsertUser(r)
    PROVE  \E q \in Requests :
              /\ request' = [request EXCEPT ![r] = q]
              /\ q.token = request[r].token /\ q.saw = request[r].saw
              /\ \E u \in User :
                    /\ u.subject = q.token.person /\ u.email = q.token.email
                    /\ \A p \in Request : Pending(p) => ~Alike(u, request[p].row)
                    /\ \/ q.phase = "failed" /\ q.row = Nobody /\ \E v \in users : Alike(u, v)
                       \/ q.phase = "acting" /\ q.row = u /\ \A v \in users : ~Alike(u, v)
<1>1. /\ request[r] \in Requests /\ request[r].token \in Token
      /\ Mapped(request[r].token.groups) # {}
  BY TokenOf DEF InsertUser, Signing, Types, RequestsKnown, Known
<1>2. PICK t : t = request[r].token
  OBVIOUS
<1>3. PICK a \in Roles : a = Authority(r)
  BY <1>1, MappedRoles, RoleOfIsGreatest DEF Authority
<1>4. PICK u : u = [subject |-> t.person, email |-> t.email, role |-> a]
  OBVIOUS
<1>5. u \in User /\ u.subject = t.person /\ u.email = t.email
  BY <1>1, <1>2, <1>4 DEF Token, User
<1>6. \A p \in Request : Pending(p) => ~Alike(u, request[p].row)
  BY <1>2, <1>3, <1>4 DEF InsertUser
<1>7. CASE \E v \in users : Alike(u, v)
  <2> DEFINE q == [request[r] EXCEPT !.phase = "failed", !.row = Nobody]
  <2>1. request' = [request EXCEPT ![r] = q]
    BY <1>2, <1>3, <1>4, <1>7 DEF InsertUser, Types, RequestsKnown
  <2>2. q \in Requests
    BY <1>1 DEF Requests, Phases
  <2>3. q.token = t /\ q.saw = request[r].saw /\ q.phase = "failed" /\ q.row = Nobody
    BY <1>1, <1>2 DEF Requests
  <2> HIDE DEF q
  <2> QED BY <1>2, <1>5, <1>6, <1>7, <2>1, <2>2, <2>3
<1>8. CASE ~ \E v \in users : Alike(u, v)
  <2> DEFINE q == [request[r] EXCEPT !.phase = "acting", !.row = u]
  <2>1. request' = [request EXCEPT ![r] = q]
    BY <1>2, <1>3, <1>4, <1>8 DEF InsertUser, Types, RequestsKnown
  <2>2. q \in Requests
    BY <1>1, <1>5 DEF Requests, Phases
  <2>3. q.token = t /\ q.saw = request[r].saw /\ q.phase = "acting" /\ q.row = u
    BY <1>1, <1>2 DEF Requests
  <2> HIDE DEF q
  <2> QED BY <1>2, <1>5, <1>6, <1>8, <2>1, <2>2, <2>3
<1> QED BY <1>7, <1>8

LEMMA IdleGives == Types => Idle \in Requests /\ Idle.phase = "idle" /\ Idle.row = Nobody
<1>1. 0 \in 0 .. MaxTime
  BY SignInAssumption
<1> QED BY <1>1 DEF Idle, Requests, Phases

\* A key that was used is used by its client.
Using(known, i, k) == [known EXCEPT ![i].used = @ \cup {k}]

LEMMA UsedTypes ==
    ASSUME NEW known \in Seq(Client), NEW i \in DOMAIN known, NEW k \in Key
    PROVE  /\ Using(known, i, k) \in Seq(Client) /\ Len(Using(known, i, k)) = Len(known)
           /\ Using(known, i, k)[i].made = known[i].made
           /\ Using(known, i, k)[i].set = known[i].set
           /\ Using(known, i, k)[i].used = known[i].used \cup {k}
           /\ \A j \in DOMAIN known : j # i => Using(known, i, k)[j] = known[j]
<1>1. known[i] \in Client
  OBVIOUS
<1>2. PICK c : c = [known[i] EXCEPT !.used = known[i].used \cup {k}]
  OBVIOUS
<1>3. /\ c \in Client /\ c.made = known[i].made /\ c.set = known[i].set
      /\ c.used = known[i].used \cup {k}
  BY <1>1, <1>2 DEF Client
<1>4. Using(known, i, k) = [known EXCEPT ![i] = c]
  BY <1>2 DEF Using
<1>5. ASSUME NEW all, all = [known EXCEPT ![i] = c]
      PROVE  /\ all \in Seq(Client) /\ Len(all) = Len(known) /\ all[i] = c
             /\ \A j \in DOMAIN known : j # i => all[j] = known[j]
  BY <1>3, <1>5
<1> QED BY <1>3, <1>4, <1>5

-----------------------------------------------------------------------------
LEMMA TypesStep == Types /\ [SignInNext]_vars => Types'
<1> SUFFICES ASSUME Types, [SignInNext]_vars PROVE Types'
  OBVIOUS
<1> USE DEF provider, vars
<1>0. Made = DOMAIN clients /\ DOMAIN clients = 1 .. Len(clients) /\ Len(clients) \in Nat
      /\ clients \in Seq(Client)
  BY DEF Made, Types
<1>a. ASSUME NEW known \in Seq(Client), Len(known) = Len(clients), clients' = Append(known, NewClient)
      PROVE  /\ clients' \in Seq(Client) /\ Made \subseteq Made'
             /\ Len(clients') = Len(known) + 1 /\ Len(known) + 1 \in Made'
  <2>1. clients' \in Seq(Client) /\ Len(clients') = Len(known) + 1
    BY <1>a, AppendClient
  <2>2. Made' = 1 .. Len(clients')
    BY <2>1 DEF Made
  <2>3. Len(known) = Len(clients) /\ Made = 1 .. Len(clients)
    BY <1>0, <1>a
  <2> QED BY <1>0, <2>1, <2>2, <2>3
<1>1. ASSUME UNCHANGED <<request, clients>>, tokens \subseteq tokens' PROVE RequestsKnown'
  BY <1>1 DEF Types, RequestsKnown, Signing, Looking, Made
<1>2. ASSUME UNCHANGED provider, RequestsKnown', clients' \in Seq(Client), users' \subseteq User
      PROVE  Types'
  BY <1>2 DEF Types
<1>3. CASE Tick
  BY <1>1, <1>3, SignInAssumption DEF Tick, Types
<1>4. ASSUME NEW k \in Key, PublishKey(k) PROVE Types'
  BY <1>1, <1>4 DEF PublishKey, Types
<1>5. ASSUME NEW k \in Key, WithdrawKey(k) PROVE Types'
  BY <1>1, <1>5 DEF WithdrawKey, Types
<1>6. ASSUME NEW p \in Person, NEW e \in Email \cup {Nobody}, NEW G \in Memberships, MovePerson(p, e, G)
      PROVE  Types'
  BY <1>1, <1>6 DEF MovePerson, Types
<1>7. ASSUME NEW p \in Person, NEW k \in Key, Issue(p, k) PROVE Types'
  <2> DEFINE t == [person |-> p, email |-> directory[p].email, groups |-> directory[p].groups,
                   key |-> k, issued |-> now]
  <2>1. t \in Token
    BY <1>7, SignInAssumption DEF Issue, Token, Types
  <2>2. tokens' = tokens \cup {t}
    BY <1>7 DEF Issue
  <2> HIDE DEF t
  <2> QED BY <1>1, <1>7, <2>1, <2>2 DEF Issue, Types
<1>8. ASSUME NEW r \in Request, NEW t \in tokens, TakeClient(r, t) PROVE Types'
  <2>1. clients' \in Seq(Client) /\ Made \subseteq Made' /\ Len(clients') \in Made'
    <3>1. CASE clients' = Append(clients, NewClient)
      BY <1>a, <1>0, <3>1
    <3>2. CASE clients' = clients /\ clients # <<>>
      BY <1>0, <3>2 DEF Made
    <3> QED BY <1>8, <3>1, <3>2, TakeClientGives
  <2>2. PICK q \in Requests : /\ request' = [request EXCEPT ![r] = q] /\ q.phase = "holding"
                              /\ q.token = t /\ q.client = Len(clients')
    BY <1>8, TakeClientGives
  <2>3. tokens' = tokens
    BY <1>8 DEF TakeClient
  <2>4. RequestsKnown'
    BY <2>1, <2>2, <2>3, OneRequest DEF Known
  <2> QED BY <1>2, <1>8, <2>1, <2>4 DEF TakeClient, Types
<1>9. ASSUME NEW r \in Request, Looking(r), NEW known \in Seq(Client), Len(known) = Len(clients),
             NEW failed \in {0, 1}, NotFound(r, known, failed), UNCHANGED <<provider, users>>
      PROVE  Types'
  <2>1. PICK q \in Requests :
              /\ request' = [request EXCEPT ![r] = q] /\ q.token = request[r].token
              /\ \/ q.phase = "unknown_key" /\ clients' = known
                 \/ q.phase = "again" /\ q.client = Len(known) + 1 /\ clients' = Append(known, NewClient)
    BY <1>9, NotFoundGives
  <2>2. clients' \in Seq(Client) /\ Made \subseteq Made' /\ (q.phase = "again" => q.client \in Made')
    <3>1. CASE clients' = known /\ q.phase = "unknown_key"
      BY <1>9, <3>1 DEF Made
    <3>2. CASE clients' = Append(known, NewClient) /\ q.client = Len(known) + 1
      BY <1>a, <1>9, <3>2
    <3> QED BY <2>1, <3>1, <3>2
  <2>3. request[r].token \in tokens
    BY <1>9, TokenOf DEF Looking, Signing
  <2>4. RequestsKnown'
    BY <1>9, <2>1, <2>2, <2>3, OneRequest DEF Known
  <2> QED BY <1>2, <1>9, <2>2, <2>4 DEF Types
<1>10. ASSUME NEW r \in Request, Absent(r) PROVE Types'
  BY <1>0, <1>9, <1>10, FetchedTypes DEF Absent
<1>11. ASSUME NEW r \in Request, FetchFails(r) PROVE Types'
  BY <1>0, <1>9, <1>11 DEF FetchFails
<1>12. ASSUME NEW r \in Request, Identify(r) PROVE Types'
  <2>1. PICK q \in Requests :
              /\ request' = [request EXCEPT ![r] = q] /\ q.token = request[r].token
              /\ q.phase \in {"identified", "refused"}
              /\ q.phase = "identified" => Mapped(q.token.groups) # {}
    BY <1>12, IdentifyGives
  <2>2. PICK known \in {clients, Fetched(r)} :
            clients' = [known EXCEPT ![request[r].client].used = @ \cup {request[r].token.key}]
    BY <1>12, IdentifyGives
  <2>3. /\ known \in Seq(Client) /\ Len(known) = Len(clients)
        /\ request[r].client \in DOMAIN known /\ request[r].token.key \in Key
        /\ request[r].token \in tokens
    <3>1. Looking(r) /\ Signing(r)
      BY <1>12 DEF Identify, Looking, Signing
    <3>2. request[r].token \in tokens /\ request[r].token.key \in Key
      BY <3>1, TokenOf DEF Token
    <3>3. request[r].client \in DOMAIN clients /\ Fetched(r) \in Seq(Client) /\ Len(Fetched(r)) = Len(clients)
      BY <3>1, FetchedTypes
    <3> HIDE DEF Fetched
    <3> QED BY <1>0, <2>2, <3>2, <3>3
  <2>4. clients' \in Seq(Client) /\ Len(clients') = Len(clients)
    <3>1. clients' = Using(known, request[r].client, request[r].token.key)
      BY <2>2 DEF Using
    <3> QED BY <2>3, <3>1, UsedTypes
  <2>5. Made' = Made
    BY <1>0, <2>4 DEF Made
  <2>6. RequestsKnown'
    BY <1>12, <2>1, <2>3, <2>5, OneRequest DEF Identify, Known
  <2> QED BY <1>2, <1>12, <2>4, <2>6 DEF Identify, Types
<1>13. ASSUME NEW r \in Request, NEW q \in Requests, request' = [request EXCEPT ![r] = q],
              q.token = request[r].token, Signing(r), ~(q.phase \in {"holding", "again"}),
              q.phase \in Known => request[r].phase \in Known,
              q.phase = "acting" => q.row \in User,
              UNCHANGED <<provider, clients>>, users' \subseteq User
       PROVE  Types'
  <2>1. request[r].token \in tokens /\ (q.phase \in Known => Mapped(q.token.groups) # {})
    BY <1>13, TokenOf DEF Types, RequestsKnown
  <2>2. Made' = Made
    BY <1>13 DEF Made
  <2>3. RequestsKnown'
    BY <1>13, <2>1, <2>2, OneRequest
  <2> QED BY <1>2, <1>13, <2>3 DEF Types
<1>14. ASSUME NEW r \in Request, LookUp(r) PROVE Types'
  <2>1. PICK q \in Requests :
              /\ request' = [request EXCEPT ![r] = q] /\ q.token = request[r].token
              /\ q.phase \in {"absent", "acting"} /\ (q.phase = "acting" => q.row \in User)
    BY <1>14, LookUpGives
  <2> QED BY <1>13, <1>14, <2>1 DEF LookUp, Signing, Known, Types
<1>15. ASSUME NEW r \in Request, InsertUser(r) PROVE Types'
  <2>1. PICK q \in Requests :
              /\ request' = [request EXCEPT ![r] = q] /\ q.token = request[r].token
              /\ q.phase \in {"failed", "acting"} /\ (q.phase = "acting" => q.row \in User)
    BY <1>15, InsertUserGives
  <2> QED BY <1>13, <1>15, <2>1 DEF InsertUser, Signing, Known, Types
<1>16. ASSUME NEW r \in Request, request' = [request EXCEPT ![r] = Idle], UNCHANGED <<provider, clients>>,
              users' \subseteq User
       PROVE  Types'
  <2>1. Made' = Made
    BY <1>16 DEF Made
  <2>2. RequestsKnown'
    BY <1>16, <2>1, IdleGives, OneRequest DEF Known
  <2> QED BY <1>2, <1>16, <2>2 DEF Types
<1>17. ASSUME NEW r \in Request, Commit(r) PROVE Types'
  <2>1. request[r].row \in User
    BY <1>17 DEF Commit, Types, RequestsKnown
  <2>2. users' \subseteq User
    BY <1>17, <2>1 DEF Commit, Types
  <2> QED BY <1>16, <1>17, <2>2 DEF Commit
<1>18. ASSUME NEW r \in Request, Close(r) PROVE Types'
  BY <1>16, <1>18 DEF Close, Types
<1>19. CASE UNCHANGED vars
  BY <1>1, <1>2, <1>19 DEF Types
<1> QED BY <1>3, <1>4, <1>5, <1>6, <1>7, <1>8, <1>10, <1>11, <1>12, <1>14, <1>15, <1>17, <1>18, <1>19 DEF SignInNext

(***************************************************************************)
(* Every state of sign-in is of its type.                                  *)
(***************************************************************************)
THEOREM SignInTypes == SignInSpec => []Types
BY TypesInit, TypesStep, PTL DEF SignInSpec

-----------------------------------------------------------------------------
(***************************************************************************)
(* Keys.  A client knows no key that was withdrawn before it was made, and *)
(* is not taken when it is older than the cache may be.                    *)
(***************************************************************************)
Outlives(made, k) == withdrawn[k] # Nobody => made <= withdrawn[k]

Fresh(c) == c.made <= now /\ \A k \in c.set \cup c.used : Outlives(c.made, k)

Published ==
    /\ \A k \in published : withdrawn[k] = Nobody
    /\ \A t \in tokens : t.key \in published \/ withdrawn[t.key] # Nobody

AllFresh == \A i \in Made : Fresh(clients[i])

KeyOf(r) == request[r].token.key

Patient(q) ==
    /\ q.at <= now
    /\ q.phase = "identified" /\ withdrawn[q.token.key] # Nobody => q.at <= withdrawn[q.token.key] + CacheSeconds
    /\ q.phase = "again" /\ withdrawn[q.token.key] = Nobody => q.failures >= 1
    /\ q.phase = "unknown_key" /\ withdrawn[q.token.key] = Nobody => q.failures >= 2

InTime(r) == Looking(r) => request[r].at <= clients[request[r].client].made + CacheSeconds

Keys ==
    /\ Published
    /\ AllFresh
    /\ \A r \in Request : Patient(request[r]) /\ InTime(r)

\* Only what thread r knows has changed, and the clients made so far keep their age.
LEMMA KeysOfThread ==
    ASSUME Types, Keys, UNCHANGED provider,
           NEW r \in Request, NEW q \in Requests, request' = [request EXCEPT ![r] = q],
           Patient(q),
           q.phase \in {"holding", "again"} => q.at <= clients'[q.client].made + CacheSeconds,
           \A i \in Made : clients'[i].made = clients[i].made,
           AllFresh'
    PROVE  Keys'
<1>1. request'[r] = q /\ \A s \in Request \ {r} : request'[s] = request[s]
  BY DEF Types, RequestsKnown
<1>2. Published'
  BY DEF Keys, Published, provider
<1>3. \A x : Patient(x) => Patient(x)'
  BY DEF Patient, provider
<1>4. ASSUME NEW s \in Request PROVE Patient(request[s])' /\ InTime(s)'
  <2>1. CASE s = r
    <3>1. Patient(q)'
      BY <1>3
    <3>2. Patient(request[s])'
      BY <1>1, <2>1, <3>1 DEF Patient
    <3> QED BY <1>1, <2>1, <3>2 DEF InTime, Looking
  <2>2. CASE s # r
    <3>1. request'[s] = request[s]
      BY <1>1, <2>2
    <3>2. PICK x : x = request[s]
      OBVIOUS
    <3>3. Patient(x)'
      BY <1>3, <3>2 DEF Keys
    <3>4. Patient(request[s])'
      BY <3>1, <3>2, <3>3 DEF Patient
    <3>5. InTime(s)'
      BY <3>1 DEF Keys, InTime, Looking, Types, RequestsKnown
    <3> QED BY <3>4, <3>5
  <2> QED BY <2>1, <2>2
<1> QED BY <1>2, <1>4 DEF Keys

\* A new client has no key yet.
LEMMA NewIsFresh == Types => Fresh(NewClient)
BY DEF Fresh, NewClient, Types

\* What is fetched is published, and what is published is not withdrawn.
LEMMA FetchedIsFresh ==
    ASSUME Types, Keys, NEW r \in Request, Looking(r), NEW i \in Made
    PROVE  Fresh(Fetched(r)[i]) /\ Fetched(r)[i].made = clients[i].made
<1>1. Fresh(clients[i]) /\ clients[i] \in Client
  BY DEF Keys, AllFresh, Made, Types
<1>2. CASE i = request[r].client
  <2>1. Fetched(r)[i] = [clients[i] EXCEPT !.set = published]
    BY <1>2, FetchedTypes
  <2>2. PICK c : c = Fetched(r)[i]
    OBVIOUS
  <2>3. c.made = clients[i].made /\ c.set = published /\ c.used = clients[i].used
    BY <1>1, <2>1, <2>2 DEF Client
  <2>4. Fresh(c)
    BY <1>1, <2>3 DEF Fresh, Outlives, Keys, Published
  <2> QED BY <2>2, <2>3, <2>4
<1>3. CASE i # request[r].client
  BY <1>1, <1>3, FetchedTypes DEF Made
<1> QED BY <1>2, <1>3

LEMMA TakeClientKeys ==
    ASSUME Types, Keys, NEW r \in Request, NEW t \in tokens, TakeClient(r, t)
    PROVE  Keys'
<1>1. PICK q \in Requests : /\ request' = [request EXCEPT ![r] = q]
                            /\ q.phase = "holding" /\ q.client = Len(clients')
                            /\ q.at = now
  BY TakeClientGives
<1>2. UNCHANGED provider
  BY DEF TakeClient
<1>3. clients \in Seq(Client) /\ Made = 1 .. Len(clients) /\ Len(clients) \in Nat /\ now \in Nat
  BY DEF Types, Made
<1>4. Patient(q)
  BY <1>1, <1>3 DEF Patient
<1>5. ASSUME NEW c, Fresh(c) PROVE Fresh(c)'
  BY <1>2, <1>5 DEF Fresh, Outlives, provider
<1>6. CASE clients' = Append(clients, NewClient)
  <2>1. /\ clients' \in Seq(Client) /\ Len(clients') = Len(clients) + 1
        /\ clients'[Len(clients')] = NewClient /\ \A i \in Made : clients'[i] = clients[i]
    BY <1>3, <1>6, AppendClient
  <2>2. Made' = Made \cup {Len(clients')}
    BY <1>3, <2>1 DEF Made
  <2>3. ASSUME NEW i \in Made' PROVE Fresh(clients'[i])
    BY <2>1, <2>2, <2>3, NewIsFresh DEF Keys, AllFresh
  <2>4. AllFresh'
    <3> SUFFICES ASSUME NEW i \in Made' PROVE Fresh(clients[i])'
      BY DEF AllFresh
    <3>1. PICK c : c = clients'[i]
      OBVIOUS
    <3>2. Fresh(c)'
      BY <1>5, <2>3, <3>1
    <3> QED BY <3>1, <3>2 DEF Fresh
  <2>5. q.at <= clients'[q.client].made + CacheSeconds
    BY <1>1, <1>3, <2>1, SignInAssumption DEF NewClient
  <2> QED BY <1>1, <1>2, <1>4, <2>1, <2>4, <2>5, KeysOfThread
<1>7. CASE clients' = clients /\ clients # <<>> /\ ~Expired
  <2>1. AllFresh'
    <3> SUFFICES ASSUME NEW i \in Made PROVE Fresh(clients[i])'
      BY <1>7 DEF AllFresh, Made
    <3>1. PICK c : c = clients[i] /\ Fresh(c)
      BY DEF Keys, AllFresh
    <3>2. Fresh(c)'
      BY <1>5, <3>1
    <3> QED BY <1>7, <3>1, <3>2 DEF Fresh
  <2>2. Len(clients) \in Made
    BY <1>3, <1>7
  <2>3. clients[Len(clients)].made \in Nat
    <3>1. clients[Len(clients)] \in Client
      BY <1>3, <2>2
    <3> QED BY <3>1 DEF Client
  <2>4. q.at <= clients'[q.client].made + CacheSeconds
    BY <1>1, <1>3, <1>7, <2>3, SignInAssumption DEF Expired, Current
  <2> QED BY <1>1, <1>2, <1>4, <1>7, <2>1, <2>4, KeysOfThread
<1> QED BY <1>6, <1>7, TakeClientGives

\* A search that fails, for the first or the second time.
LEMMA NotFoundKeys ==
    ASSUME Types, Keys, NEW r \in Request, Looking(r), UNCHANGED provider,
           NEW known \in Seq(Client), Len(known) = Len(clients),
           \A i \in Made : Fresh(known[i]) /\ known[i].made = clients[i].made,
           NEW failed \in {0, 1}, NotFound(r, known, failed),
           withdrawn[KeyOf(r)] = Nobody => failed = 1
    PROVE  Keys'
<1>1. PICK q \in Requests :
          /\ request' = [request EXCEPT ![r] = q]
          /\ q.token = request[r].token /\ q.at = request[r].at
          /\ q.failures = request[r].failures + failed
          /\ \/ /\ request[r].phase = "again" /\ q.phase = "unknown_key" /\ clients' = known
             \/ /\ request[r].phase = "holding" /\ q.phase = "again" /\ q.client = Len(known) + 1
                /\ clients' = Append(known, NewClient)
  BY NotFoundGives
<1>2. /\ clients \in Seq(Client) /\ Made = 1 .. Len(clients) /\ Len(clients) \in Nat /\ now \in Nat
      /\ CacheSeconds \in Nat /\ request[r].failures \in Nat /\ request[r].at \in Nat /\ q.failures \in Nat
  <2>1. request[r] \in Requests
    BY DEF Types, RequestsKnown
  <2> QED BY <2>1, SignInAssumption DEF Types, Made, Requests
<1>3. request[r].at <= now /\ (request[r].phase = "again" /\ withdrawn[KeyOf(r)] = Nobody => request[r].failures >= 1)
  BY DEF Keys, Patient, KeyOf
<1>4. Patient(q)
  BY <1>1, <1>2, <1>3 DEF Patient, KeyOf
<1>5. ASSUME NEW c, Fresh(c) PROVE Fresh(c)'
  BY <1>5 DEF Fresh, Outlives, provider
<1>6. CASE q.phase = "unknown_key" /\ clients' = known
  <2>1. AllFresh'
    <3> SUFFICES ASSUME NEW i \in Made PROVE Fresh(clients[i])'
      BY <1>2, <1>6 DEF AllFresh, Made
    <3>1. PICK c : c = known[i] /\ Fresh(c)
      OBVIOUS
    <3>2. Fresh(c)'
      BY <1>5, <3>1
    <3> QED BY <1>6, <3>1, <3>2 DEF Fresh
  <2> QED BY <1>1, <1>4, <1>6, <2>1, KeysOfThread
<1>7. CASE q.phase = "again" /\ q.client = Len(known) + 1 /\ clients' = Append(known, NewClient)
  <2>1. /\ clients' \in Seq(Client) /\ Len(clients') = Len(known) + 1
        /\ clients'[Len(known) + 1] = NewClient /\ \A i \in Made : clients'[i] = known[i]
    BY <1>2, <1>7, AppendClient DEF Made
  <2>2. Made' = Made \cup {Len(known) + 1}
    BY <1>2, <2>1 DEF Made
  <2>3. AllFresh'
    <3> SUFFICES ASSUME NEW i \in Made' PROVE Fresh(clients[i])'
      BY DEF AllFresh
    <3>1. Fresh(clients'[i])
      BY <2>1, <2>2, NewIsFresh
    <3>2. PICK c : c = clients'[i]
      OBVIOUS
    <3>3. Fresh(c)'
      BY <1>5, <3>1, <3>2
    <3> QED BY <3>2, <3>3 DEF Fresh
  <2>4. q.at <= clients'[q.client].made + CacheSeconds
    BY <1>1, <1>2, <1>3, <1>7, <2>1 DEF NewClient
  <2>5. \A i \in Made : clients'[i].made = clients[i].made
    BY <2>1
  <2> QED BY <1>1, <1>4, <2>3, <2>4, <2>5, KeysOfThread
<1> QED BY <1>1, <1>6, <1>7

\* A key that is accepted was known to a client that is young enough.
LEMMA IdentifyKeys ==
    ASSUME Types, Keys, NEW r \in Request, Identify(r)
    PROVE  Keys'
<1>1. PICK q \in Requests :
          /\ request' = [request EXCEPT ![r] = q]
          /\ q.token = request[r].token /\ q.at = request[r].at
          /\ q.phase \in {"identified", "refused"}
  BY IdentifyGives
<1>2. PICK known \in {clients, Fetched(r)} :
          clients' = [known EXCEPT ![request[r].client].used = @ \cup {request[r].token.key}]
  BY IdentifyGives
<1>3. Looking(r) /\ (HasKey(r) \/ KeyOf(r) \in published)
  BY IdentifyGives DEF KeyOf
<1>4. PICK i \in Made : i = request[r].client
  BY <1>3 DEF Types, RequestsKnown
<1>5. PICK k \in Key : k = KeyOf(r)
  BY <1>3, TokenOf DEF Looking, Signing, KeyOf, Token
<1>6. /\ clients \in Seq(Client) /\ Made = 1 .. Len(clients) /\ Len(clients) \in Nat /\ now \in Nat
      /\ CacheSeconds \in Nat /\ request[r].at \in Nat
  <2>1. request[r] \in Requests
    BY DEF Types, RequestsKnown
  <2> QED BY <2>1, SignInAssumption DEF Types, Made, Requests
<1>7. /\ known \in Seq(Client) /\ Len(known) = Len(clients)
      /\ \A j \in Made : Fresh(known[j]) /\ known[j].made = clients[j].made
  <2>1. CASE known = clients
    BY <1>6, <2>1 DEF Keys, AllFresh
  <2>2. CASE known = Fetched(r)
    <3>1. Fetched(r) \in Seq(Client) /\ Len(Fetched(r)) = Len(clients)
      BY <1>3, FetchedTypes
    <3>2. \A j \in Made : Fresh(Fetched(r)[j]) /\ Fetched(r)[j].made = clients[j].made
      BY <1>3, FetchedIsFresh
    <3> HIDE DEF Fetched
    <3> QED BY <2>2, <3>1, <3>2
  <2> QED BY <2>1, <2>2
<1>8. Outlives(clients[i].made, k)
  <2>1. CASE HasKey(r)
    <3>1. k \in clients[i].set \cup clients[i].used
      BY <1>4, <1>5, <2>1 DEF HasKey, KeyOf
    <3> QED BY <3>1 DEF Keys, AllFresh, Fresh
  <2>2. CASE KeyOf(r) \in published
    BY <1>5, <2>2 DEF Keys, Published, Outlives
  <2> QED BY <1>3, <2>1, <2>2
<1>9. /\ clients' \in Seq(Client) /\ Len(clients') = Len(known)
      /\ clients'[i].made = known[i].made /\ clients'[i].set = known[i].set
      /\ clients'[i].used = known[i].used \cup {k}
      /\ \A j \in DOMAIN known : j # i => clients'[j] = known[j]
  <2>1. i \in DOMAIN known
    BY <1>6, <1>7
  <2>2. clients' = Using(known, i, k)
    BY <1>2, <1>4, <1>5 DEF KeyOf, Using
  <2> QED BY <1>7, <2>1, <2>2, UsedTypes
<1>10. DOMAIN known = Made /\ Made' = Made
  BY <1>6, <1>7, <1>9 DEF Made
<1>11. \A j \in Made : clients'[j].made = clients[j].made
  BY <1>7, <1>9, <1>10
<1>12. UNCHANGED provider
  BY DEF Identify
<1>13. ASSUME NEW j \in Made PROVE Fresh(clients'[j])
  <2>1. CASE j = i
    BY <1>7, <1>8, <1>9, <2>1 DEF Fresh, Outlives
  <2>2. CASE j # i
    BY <1>7, <1>9, <1>10, <2>2
  <2> QED BY <2>1, <2>2
<1>14. AllFresh'
  <2> SUFFICES ASSUME NEW j \in Made PROVE Fresh(clients[j])'
    BY <1>10 DEF AllFresh
  <2>1. PICK c : c = clients'[j] /\ Fresh(c)
    BY <1>13
  <2>2. Fresh(c)'
    BY <1>12, <2>1 DEF Fresh, Outlives, provider
  <2> QED BY <2>1, <2>2 DEF Fresh
<1>15. Patient(q)
  <2>1. request[r].at <= now /\ request[r].at <= clients[i].made + CacheSeconds
    BY <1>3, <1>4 DEF Keys, Patient, InTime
  <2>2. clients[i].made \in Nat
    <3>1. clients[i] \in Client
      BY <1>6
    <3> QED BY <3>1 DEF Client
  <2>3. withdrawn[k] # Nobody => withdrawn[k] \in Nat /\ clients[i].made <= withdrawn[k]
    BY <1>8 DEF Outlives, Types
  <2>4. q.token.key = k
    BY <1>1, <1>5 DEF KeyOf
  <2> QED BY <1>1, <1>6, <2>1, <2>2, <2>3, <2>4 DEF Patient
<1> QED BY <1>1, <1>11, <1>12, <1>14, <1>15, KeysOfThread

\* A step of the provider leaves what threads and clients know in time.
LEMMA ProviderKeys ==
    ASSUME Types, Types', Keys, UNCHANGED <<request, clients>>, Published', now <= now',
           \A k \in Key : withdrawn'[k] = withdrawn[k] \/ (withdrawn'[k] = now /\ withdrawn'[k] # Nobody)
    PROVE  Keys'
<1>1. now \in Nat /\ now' \in Nat /\ CacheSeconds \in Nat
  BY SignInAssumption DEF Types
<1>2. ASSUME NEW c \in Client, Fresh(c) PROVE Fresh(c)'
  <2>1. c.made \in Nat /\ c.set \cup c.used \subseteq Key
    BY DEF Client
  <2>2. ASSUME NEW k \in c.set \cup c.used, withdrawn'[k] # Nobody PROVE c.made <= withdrawn'[k]
    <3>1. CASE withdrawn'[k] = withdrawn[k]
      BY <1>2, <2>2, <3>1 DEF Fresh, Outlives
    <3>2. CASE withdrawn'[k] = now
      BY <1>2, <3>2 DEF Fresh
    <3> QED BY <2>1, <2>2, <3>1, <3>2
  <2> QED BY <1>1, <1>2, <2>1, <2>2 DEF Fresh, Outlives
<1>3. AllFresh'
  <2> SUFFICES ASSUME NEW i \in Made PROVE Fresh(clients[i])'
    BY DEF AllFresh, Made
  <2>1. PICK c \in Client : c = clients[i]
    BY DEF Made, Types
  <2>2. Fresh(c)'
    BY <1>2, <2>1 DEF Keys, AllFresh
  <2> QED BY <2>1, <2>2 DEF Fresh
<1>4. ASSUME NEW q \in Requests, q.phase # "idle" => q.token \in Token, Patient(q) PROVE Patient(q)'
  <2>1. q.at \in Nat /\ q.failures \in Nat
    BY SignInAssumption DEF Requests
  <2>2. q.at <= now'
    BY <1>1, <1>4, <2>1 DEF Patient
  <2>3. CASE q.phase \in {"identified", "again", "unknown_key"}
    <3>1. PICK k \in Key : k = q.token.key
      BY <1>4, <2>3 DEF Token
    <3>2. CASE withdrawn'[k] = withdrawn[k]
      BY <1>4, <2>2, <3>1, <3>2 DEF Patient
    <3>3. CASE withdrawn'[k] = now /\ withdrawn'[k] # Nobody
      BY <1>1, <1>4, <2>1, <2>2, <3>1, <3>3 DEF Patient
    <3> QED BY <3>1, <3>2, <3>3
  <2>4. CASE q.phase \notin {"identified", "again", "unknown_key"}
    BY <2>2, <2>4 DEF Patient
  <2> QED BY <2>3, <2>4
<1>5. ASSUME NEW r \in Request PROVE Patient(request[r])' /\ InTime(r)'
  <2>1. PICK q \in Requests : q = request[r] /\ (q.phase # "idle" => q.token \in Token)
    BY DEF Types, RequestsKnown, Signing
  <2>2. Patient(q)'
    BY <1>4, <2>1 DEF Keys
  <2>3. Patient(request[r])'
    BY <2>1, <2>2 DEF Patient
  <2> QED BY <2>3 DEF Keys, InTime, Looking
<1> QED BY <1>3, <1>5 DEF Keys

\* A thread that is past its key keeps nothing of it.
LEMMA PastKeys ==
    ASSUME Types, Keys, UNCHANGED <<provider, clients>>,
           NEW r \in Request, NEW q \in Requests, request' = [request EXCEPT ![r] = q],
           q.at <= now, q.phase \notin {"holding", "again", "identified", "unknown_key"}
    PROVE  Keys'
<1>1. Patient(q)
  BY DEF Patient
<1>2. AllFresh'
  BY DEF Keys, AllFresh, Made, Fresh, Outlives, provider
<1>3. \A i \in Made : clients'[i].made = clients[i].made
  OBVIOUS
<1>4. UNCHANGED provider
  OBVIOUS
<1> QED BY <1>1, <1>2, <1>3, <1>4, KeysOfThread

LEMMA KeysStep == Types /\ Types' /\ Keys /\ [SignInNext]_vars => Keys'
<1> SUFFICES ASSUME Types, Types', Keys, [SignInNext]_vars PROVE Keys'
  OBVIOUS
<1>0. now \in Nat /\ now <= now /\ now <= now + 1 /\ now # Nobody
  BY SignInAssumption DEF Types
<1>1. CASE Tick
  BY <1>0, <1>1, ProviderKeys DEF Tick, Keys, Published
<1>2. ASSUME NEW k \in Key, PublishKey(k) PROVE Keys'
  <2>1. Published'
    BY <1>2 DEF PublishKey, Keys, Published
  <2> QED BY <1>0, <1>2, <2>1, ProviderKeys DEF PublishKey
<1>3. ASSUME NEW k \in Key, WithdrawKey(k) PROVE Keys'
  <2>1. withdrawn' = [withdrawn EXCEPT ![k] = now] /\ published' = published \ {k} /\ tokens' = tokens
    BY <1>3 DEF WithdrawKey
  <2>2. \A j \in Key : withdrawn'[j] = IF j = k THEN now ELSE withdrawn[j]
    BY <2>1 DEF Types
  <2>3. \A t \in tokens : t.key \in Key
    BY DEF Types, Token
  <2>4. Published'
    BY <1>0, <2>1, <2>2, <2>3 DEF Keys, Published, Types
  <2>5. UNCHANGED <<request, clients>> /\ now' = now
    BY <1>3 DEF WithdrawKey
  <2> QED BY <1>0, <2>2, <2>4, <2>5, ProviderKeys
<1>4. ASSUME NEW p \in Person, NEW e \in Email \cup {Nobody}, NEW G \in Memberships, MovePerson(p, e, G)
      PROVE  Keys'
  BY <1>0, <1>4, ProviderKeys DEF MovePerson, Keys, Published
<1>5. ASSUME NEW p \in Person, NEW k \in Key, Issue(p, k) PROVE Keys'
  <2>1. Published'
    BY <1>5 DEF Issue, Keys, Published
  <2> QED BY <1>0, <1>5, <2>1, ProviderKeys DEF Issue
<1>6. ASSUME NEW r \in Request, NEW t \in tokens, TakeClient(r, t) PROVE Keys'
  BY <1>6, TakeClientKeys
<1>7. Made = 1 .. Len(clients) /\ clients \in Seq(Client)
  BY DEF Made, Types
<1>8. ASSUME NEW r \in Request, Absent(r) PROVE Keys'
  <2>1. Looking(r) /\ UNCHANGED provider /\ NotFound(r, Fetched(r), 0) /\ KeyOf(r) \notin published
    BY <1>8 DEF Absent, KeyOf
  <2>2. Fetched(r) \in Seq(Client) /\ Len(Fetched(r)) = Len(clients)
    BY <2>1, FetchedTypes
  <2>3. \A i \in Made : Fresh(Fetched(r)[i]) /\ Fetched(r)[i].made = clients[i].made
    BY <2>1, FetchedIsFresh
  <2>4. withdrawn[KeyOf(r)] # Nobody
    BY <2>1, TokenOf DEF Looking, Signing, KeyOf, Keys, Published
  <2> QED BY <2>1, <2>2, <2>3, <2>4, NotFoundKeys
<1>9. ASSUME NEW r \in Request, FetchFails(r) PROVE Keys'
  BY <1>7, <1>9, NotFoundKeys DEF FetchFails, Keys, AllFresh
<1>10. ASSUME NEW r \in Request, Identify(r) PROVE Keys'
  BY <1>10, IdentifyKeys
<1>11. ASSUME NEW r \in Request, LookUp(r) PROVE Keys'
  <2>1. PICK q \in Requests : request' = [request EXCEPT ![r] = q] /\ q.phase \in {"absent", "acting"}
    BY <1>11, LookUpGives
  <2>2. request'[r].at = 0 /\ request'[r] = q
    <3>1. request'[r] = q
      BY <2>1 DEF Types, RequestsKnown
    <3>2. request'[r].at = 0
      BY <1>11 DEF LookUp, Types, RequestsKnown, Requests
    <3> QED BY <3>1, <3>2
  <2>3. q.at <= now
    BY <1>0, <2>2
  <2> QED BY <1>11, <2>1, <2>3, PastKeys DEF LookUp
<1>12. ASSUME NEW r \in Request, InsertUser(r) PROVE Keys'
  <2>1. PICK q \in Requests : request' = [request EXCEPT ![r] = q] /\ q.phase \in {"failed", "acting"}
    BY <1>12, InsertUserGives
  <2>2. request'[r].at = request[r].at /\ request'[r] = q
    <3>1. request'[r] = q
      BY <2>1 DEF Types, RequestsKnown
    <3>2. request'[r].at = request[r].at
      BY <1>12 DEF InsertUser, Types, RequestsKnown, Requests
    <3> QED BY <3>1, <3>2
  <2>3. q.at <= now
    BY <2>2 DEF Keys, Patient
  <2> QED BY <1>12, <2>1, <2>3, PastKeys DEF InsertUser
<1>13. ASSUME NEW r \in Request, Commit(r) \/ Close(r) PROVE Keys'
  <2>1. Idle.at <= now
    BY <1>0 DEF Idle
  <2> QED BY <1>13, <2>1, IdleGives, PastKeys DEF Commit, Close
<1>14. CASE UNCHANGED vars
  BY <1>0, <1>14, ProviderKeys DEF vars, provider, Keys, Published
<1> QED BY <1>1, <1>2, <1>3, <1>4, <1>5, <1>6, <1>8, <1>9, <1>10, <1>11, <1>12, <1>13, <1>14 DEF SignInNext

LEMMA KeysInit == SignInInit => Keys
<1> SUFFICES ASSUME SignInInit PROVE Keys
  OBVIOUS
<1>1. tokens = {} /\ clients = <<>> /\ now = 0 /\ \A r \in Request : request[r] = Idle
  BY DEF SignInInit
<1>2. \A k \in published : withdrawn[k] = Nobody
  BY DEF SignInInit
<1>3. Idle.phase = "idle" /\ Idle.at = 0
  BY DEF Idle
<1> QED BY <1>1, <1>2, <1>3 DEF Keys, Published, AllFresh, Made, Patient, InTime, Looking

(***************************************************************************)
(* A withdrawn key stops working within the life of the cache, with any    *)
(* number of threads, keys and clients.                                    *)
(***************************************************************************)
THEOREM WithdrawnKeyStopsHolds == SignInSpec => []WithdrawnKeyStops
<1>1. Keys => WithdrawnKeyStops
  BY DEF Keys, Patient, WithdrawnKeyStops
<1> QED BY <1>1, TypesInit, TypesStep, KeysInit, KeysStep, PTL DEF SignInSpec

(***************************************************************************)
(* A key that is published locks nobody out, whatever is cached and with   *)
(* one fetch that failed.                                                  *)
(***************************************************************************)
THEOREM RotationLocksNobodyOutHolds == SignInSpec => []RotationLocksNobodyOut
<1>1. Keys => RotationLocksNobodyOut
  BY DEF Keys, Patient, RotationLocksNobodyOut
<1> QED BY <1>1, TypesInit, TypesStep, KeysInit, KeysStep, PTL DEF SignInSpec

-----------------------------------------------------------------------------
(***************************************************************************)
(* People.  A row on its way in is like no other row, there or on its way; *)
(* a row that is found is there under its name, whoever updates it.        *)
(***************************************************************************)
SameName(u, v) == u.subject = v.subject /\ u.email = v.email

Unique == \A u, v \in users : Alike(u, v) => u = v

Placed(q) ==
    /\ q.row # Nobody => q.phase = "acting"
    /\ q.phase = "acting" => q.row.subject = q.token.person
    /\ q.phase = "acting" /\ UserOf(q.token) = {} =>
          q.row \notin q.saw /\ \A v \in users : ~Alike(q.row, v)
    /\ q.phase = "acting" /\ UserOf(q.token) # {} => \E v \in users : SameName(v, q.row)
    /\ q.phase \in {"absent", "failed"} => \A u \in q.saw : u.subject # q.token.person
    /\ q.phase = "failed" =>
          \/ UserOf(q.token) # {}
          \/ \E u \in users : u.email = q.token.email /\ u.subject # q.token.person

Apart ==
    \A r, s \in Request : r # s /\ Pending(r) /\ Pending(s) => ~Alike(request[r].row, request[s].row)

ActOfPerson ==
    act # Nobody =>
        /\ act.row.subject = act.token.person
        /\ \E u \in users : u.subject = act.token.person /\ u.email = act.row.email
        /\ act.role \in Mapped(act.token.groups)
        /\ \A role \in Mapped(act.token.groups) : Rank(role) <= Rank(act.role)

People == Unique /\ (\A r \in Request : Placed(request[r])) /\ Apart /\ ActOfPerson

\* One thread goes on and commits nothing.
LEMMA PeopleOfThread ==
    ASSUME Types, People, users' = users, act' = act,
           NEW r \in Request, NEW q \in Requests, request' = [request EXCEPT ![r] = q],
           Placed(q),
           q.row # Nobody /\ UserOf(q.token) = {} =>
               \A s \in Request : Pending(s) /\ s # r => ~Alike(q.row, request[s].row)
    PROVE  People'
<1>1. request'[r] = q /\ \A s \in Request \ {r} : request'[s] = request[s]
  BY DEF Types, RequestsKnown
<1>2. \A x : UserOf(x)' = UserOf(x)
  BY DEF UserOf
<1>3. \A x : Placed(x)' = Placed(x)
  BY <1>2 DEF Placed
<1>4. ASSUME NEW s \in Request PROVE Placed(request[s])'
  <2>1. PICK x : x = request'[s]
    OBVIOUS
  <2>2. Placed(x)
    BY <1>1, <2>1 DEF People
  <2>3. Placed(x)'
    BY <1>3, <2>2
  <2>4. UserOf(request[s].token)' = UserOf(x.token)'
    BY <2>1 DEF UserOf
  <2> QED BY <2>1, <2>3, <2>4 DEF Placed
<1>5. \A s \in Request \ {r} : Pending(s)' => Pending(s)
  BY <1>1, <1>2 DEF Pending, UserOf
<1>6. Pending(r)' => q.row # Nobody /\ UserOf(q.token) = {}
  BY <1>1, <1>2 DEF Pending, UserOf
<1>7. Apart'
  BY <1>1, <1>5, <1>6 DEF People, Apart, Alike
<1>8. Unique' /\ ActOfPerson'
  BY DEF People, Unique, ActOfPerson
<1> QED BY <1>4, <1>7, <1>8 DEF People

LEMMA LookUpPeople ==
    ASSUME Types, People, NEW r \in Request, LookUp(r)
    PROVE  People'
<1>1. PICK q \in Requests :
          /\ request' = [request EXCEPT ![r] = q]
          /\ q.token = request[r].token /\ q.saw = users
          /\ \/ q.phase = "absent" /\ q.row = Nobody /\ UserOf(q.token) = {}
             \/ /\ q.phase = "acting" /\ q.row \in User
                /\ \E u \in UserOf(q.token) : u.subject = q.row.subject /\ u.email = q.row.email
  BY LookUpGives
<1>2. users' = users /\ act' = act
  BY DEF LookUp
<1>3. Placed(q) /\ ~(q.row # Nobody /\ UserOf(q.token) = {})
  <2>1. CASE q.phase = "absent" /\ q.row = Nobody /\ UserOf(q.token) = {}
    BY <1>1, <2>1 DEF Placed, UserOf
  <2>2. CASE q.phase = "acting" /\ q.row \in User
    <3>1. PICK u \in UserOf(q.token) : u.subject = q.row.subject /\ u.email = q.row.email
      BY <1>1, <2>2
    <3>2. u \in users /\ u.subject = q.token.person /\ UserOf(q.token) # {}
      BY <3>1 DEF UserOf
    <3> QED BY <2>2, <3>1, <3>2 DEF Placed, SameName
  <2> QED BY <1>1, <2>1, <2>2
<1> QED BY <1>1, <1>2, <1>3, PeopleOfThread

LEMMA InsertUserPeople ==
    ASSUME Types, People, NEW r \in Request, InsertUser(r)
    PROVE  People'
<1>1. PICK q \in Requests :
          /\ request' = [request EXCEPT ![r] = q]
          /\ q.token = request[r].token /\ q.saw = request[r].saw
          /\ \E u \in User :
                /\ u.subject = q.token.person /\ u.email = q.token.email
                /\ \A p \in Request : Pending(p) => ~Alike(u, request[p].row)
                /\ \/ q.phase = "failed" /\ q.row = Nobody /\ \E v \in users : Alike(u, v)
                   \/ q.phase = "acting" /\ q.row = u /\ \A v \in users : ~Alike(u, v)
  BY InsertUserGives
<1>2. PICK u \in User :
          /\ u.subject = q.token.person /\ u.email = q.token.email
          /\ \A p \in Request : Pending(p) => ~Alike(u, request[p].row)
          /\ \/ q.phase = "failed" /\ q.row = Nobody /\ \E v \in users : Alike(u, v)
             \/ q.phase = "acting" /\ q.row = u /\ \A v \in users : ~Alike(u, v)
  BY <1>1
<1>3. users' = users /\ act' = act /\ request[r].phase = "absent"
  BY DEF InsertUser
<1>4. \A v \in q.saw : v.subject # q.token.person
  BY <1>1, <1>3 DEF People, Placed
<1>5. Placed(q)
  <2>1. CASE q.phase = "failed" /\ q.row = Nobody /\ \E v \in users : Alike(u, v)
    <3>1. PICK v \in users : Alike(u, v)
      BY <2>1
    <3>2. CASE v.subject = q.token.person
      <4>1. UserOf(q.token) # {}
        BY <3>2 DEF UserOf
      <4> QED BY <1>4, <2>1, <4>1 DEF Placed
    <3>3. CASE v.subject # q.token.person
      <4>1. v.email = q.token.email
        BY <1>2, <3>1, <3>3 DEF Alike
      <4> QED BY <1>4, <2>1, <3>3, <4>1 DEF Placed
    <3> QED BY <3>2, <3>3
  <2>2. CASE q.phase = "acting" /\ q.row = u /\ \A v \in users : ~Alike(u, v)
    <3>1. UserOf(q.token) = {}
      BY <1>2, <2>2 DEF UserOf, Alike
    <3> QED BY <1>2, <1>4, <2>2, <3>1 DEF Placed
  <2> QED BY <1>2, <2>1, <2>2
<1>6. q.row # Nobody => \A p \in Request : Pending(p) => ~Alike(q.row, request[p].row)
  BY <1>2
<1> QED BY <1>1, <1>3, <1>5, <1>6, PeopleOfThread

\* What a commit does to the names.
LEMMA CommitNames ==
    ASSUME Types, People, NEW r \in Request, Commit(r), NEW u, u = request[r].row
    PROVE  /\ Unique'
           /\ \A v \in users : \E w \in users' : SameName(v, w)
           /\ \A w \in users' : (\E v \in users : SameName(v, w)) \/ (Pending(r) /\ w = u)
           /\ \E w \in users' : SameName(w, u)
<1>1. /\ u \in User /\ u # Nobody /\ u.subject = request[r].token.person
      /\ UserOf(request[r].token) = {} => u \notin request[r].saw /\ \A v \in users : ~Alike(u, v)
      /\ UserOf(request[r].token) # {} => \E v \in users : SameName(v, u)
  BY SignInAssumption DEF Commit, People, Placed, Types, RequestsKnown
<1>2. users' = IF u \in request[r].saw THEN users ELSE {v \in users : v.subject # u.subject} \cup {u}
  BY DEF Commit
<1>3. Pending(r) <=> UserOf(request[r].token) = {}
  BY <1>1 DEF Pending
<1>4. CASE u \in request[r].saw
  BY <1>1, <1>2, <1>4 DEF People, Unique, SameName
<1>5. CASE u \notin request[r].saw /\ UserOf(request[r].token) = {}
  <2>1. users' = users \cup {u}
    BY <1>1, <1>2, <1>5 DEF UserOf
  <2> QED BY <1>1, <1>3, <1>5, <2>1 DEF People, Unique, SameName, Alike
<1>6. CASE u \notin request[r].saw /\ UserOf(request[r].token) # {}
  <2>1. PICK old \in users : SameName(old, u)
    BY <1>1, <1>6
  <2>2. \A v \in users : Alike(v, u) => v = old
    BY <2>1 DEF People, Unique, Alike, SameName
  <2>3. users' = {v \in users : v.subject # u.subject} \cup {u}
    BY <1>2, <1>6
  <2>4. Unique'
    BY <2>1, <2>2, <2>3 DEF People, Unique, Alike, SameName
  <2>5. \A v \in users : \E w \in users' : SameName(v, w)
    BY <2>1, <2>2, <2>3 DEF Alike, SameName
  <2>6. \A w \in users' : \E v \in users : SameName(v, w)
    BY <2>1, <2>3 DEF SameName
  <2>7. \E w \in users' : SameName(w, u)
    BY <2>3 DEF SameName
  <2> QED BY <2>4, <2>5, <2>6, <2>7
<1> QED BY <1>4, <1>5, <1>6

\* What was placed stays placed when another thread commits.
LEMMA PlacedAfterCommit ==
    ASSUME Types, People, NEW r \in Request, Commit(r), NEW s \in Request \ {r}, NEW q, q = request[s]
    PROVE  Placed(q)' /\ (UserOf(q.token)' = {} => UserOf(q.token) = {})
<1> DEFINE u == request[r].row
<1>1. /\ \A v \in users : \E w \in users' : SameName(v, w)
      /\ \A w \in users' : (\E v \in users : SameName(v, w)) \/ (Pending(r) /\ w = u)
  BY CommitNames
<1>2. Placed(q) /\ q \in Requests
  BY DEF People, Types, RequestsKnown
<1>3. UserOf(q.token)' = {} => UserOf(q.token) = {}
  BY <1>1 DEF UserOf, SameName
<1>4. ASSUME q.phase = "acting", UserOf(q.token) = {}
      PROVE  \A w \in users' : ~Alike(q.row, w)
  <2>1. Pending(s) /\ q.row # Nobody
    BY <1>4, SignInAssumption DEF Pending, Types, RequestsKnown
  <2>2. Pending(r) => ~Alike(q.row, u)
    BY <2>1 DEF People, Apart
  <2>3. \A v \in users : ~Alike(q.row, v)
    BY <1>2, <1>4 DEF Placed
  <2> QED BY <1>1, <2>2, <2>3 DEF SameName, Alike
<1>5. ASSUME q.phase = "acting", UserOf(q.token)' = {}
      PROVE  q.row \notin q.saw /\ \A v \in users' : ~Alike(q.row, v)
  BY <1>2, <1>3, <1>4, <1>5 DEF Placed
<1>6. ASSUME q.phase = "acting", UserOf(q.token)' # {}
      PROVE  \E v \in users' : SameName(v, q.row)
  <2>1. q.row.subject = q.token.person
    BY <1>2, <1>6 DEF Placed
  <2>2. CASE UserOf(q.token) = {}
    <3>1. PICK w \in users' : w.subject = q.token.person
      BY <1>6 DEF UserOf
    <3>2. ~Alike(q.row, w)
      BY <1>4, <1>6, <2>2
    <3> QED BY <2>1, <3>1, <3>2 DEF Alike
  <2>3. CASE UserOf(q.token) # {}
    <3>1. PICK v \in users : SameName(v, q.row)
      BY <1>2, <1>6, <2>3 DEF Placed
    <3>2. PICK w \in users' : SameName(v, w)
      BY <1>1
    <3> QED BY <3>1, <3>2 DEF SameName
  <2> QED BY <2>2, <2>3
<1>7. ASSUME q.phase = "failed"
      PROVE  \/ UserOf(q.token)' # {}
             \/ \E v \in users' : v.email = q.token.email /\ v.subject # q.token.person
  <2>1. CASE UserOf(q.token) # {}
    BY <1>3, <2>1
  <2>2. CASE \E v \in users : v.email = q.token.email /\ v.subject # q.token.person
    <3>1. PICK v \in users : v.email = q.token.email /\ v.subject # q.token.person
      BY <2>2
    <3>2. PICK w \in users' : SameName(v, w)
      BY <1>1
    <3> QED BY <3>1, <3>2 DEF SameName
  <2> QED BY <1>2, <1>7, <2>1, <2>2 DEF Placed
<1>8. /\ q.row # Nobody => q.phase = "acting"
      /\ q.phase = "acting" => q.row.subject = q.token.person
      /\ q.phase \in {"absent", "failed"} => \A v \in q.saw : v.subject # q.token.person
  BY <1>2 DEF Placed
<1> QED BY <1>3, <1>5, <1>6, <1>7, <1>8 DEF Placed

LEMMA CommitPeople ==
    ASSUME Types, People, NEW r \in Request, Commit(r)
    PROVE  People'
<1>1. PICK u : u = request[r].row
  OBVIOUS
<1>2. PICK t : t = request[r].token
  OBVIOUS
<1>3. /\ request' = [request EXCEPT ![r] = Idle]
      /\ act' = [token |-> t, row |-> u, role |-> Authority(r)]
      /\ request[r].phase = "acting"
  BY <1>1, <1>2 DEF Commit
<1>4. request'[r] = Idle /\ \A s \in Request \ {r} : request'[s] = request[s]
  BY <1>3 DEF Types, RequestsKnown
<1>5. /\ Unique'
      /\ \E w \in users' : SameName(w, u)
  BY <1>1, CommitNames
<1>6. ASSUME NEW s \in Request PROVE Placed(request[s])' /\ (Pending(s)' => s # r /\ Pending(s))
  <2>1. CASE s = r
    <3>1. request'[s].row = Nobody /\ request'[s].phase = "idle"
      BY <1>4, <2>1, IdleGives
    <3> QED BY <3>1 DEF Placed, Pending
  <2>2. CASE s # r
    <3>1. PICK q : q = request[s]
      OBVIOUS
    <3>2. Placed(q)' /\ (UserOf(q.token)' = {} => UserOf(q.token) = {})
      BY <2>2, <3>1, PlacedAfterCommit
    <3>3. request'[s] = q
      BY <1>4, <2>2, <3>1
    <3>4. UserOf(request[s].token)' = UserOf(q.token)'
      BY <3>3 DEF UserOf
    <3> QED BY <2>2, <3>1, <3>2, <3>3, <3>4 DEF Placed, Pending
  <2> QED BY <2>1, <2>2
<1>7. Apart'
  BY <1>4, <1>6 DEF People, Apart, Alike
<1>8. ActOfPerson'
  <2>1. u.subject = t.person /\ Mapped(t.groups) # {}
    BY <1>1, <1>2, <1>3 DEF People, Placed, Types, RequestsKnown, Known
  <2>2. PICK a : a = Authority(r)
    OBVIOUS
  <2>3. a \in Mapped(t.groups) /\ \A role \in Mapped(t.groups) : Rank(role) <= Rank(a)
    BY <1>2, <2>1, <2>2, MappedRoles, RoleOfIsGreatest DEF Authority
  <2>4. act'.token = t /\ act'.row = u /\ act'.role = a
    BY <1>3, <2>2
  <2>5. \E w \in users' : w.subject = t.person /\ w.email = u.email
    BY <1>5, <2>1 DEF SameName
  <2> QED BY <2>1, <2>3, <2>4, <2>5 DEF ActOfPerson
<1> QED BY <1>5, <1>6, <1>7, <1>8 DEF People

LEMMA PeopleStep == Types /\ People /\ [SignInNext]_vars => People'
<1> SUFFICES ASSUME Types, People, [SignInNext]_vars PROVE People'
  OBVIOUS
<1>1. ASSUME UNCHANGED <<request, users, act>> PROVE People'
  BY <1>1 DEF People, Unique, Placed, Apart, ActOfPerson, Pending, UserOf
<1>2. ASSUME NEW r \in Request, NEW q \in Requests, request' = [request EXCEPT ![r] = q],
             UNCHANGED <<users, act>>, q.row = Nobody, q.phase \notin {"acting", "absent", "failed"}
      PROVE  People'
  <2>1. Placed(q)
    BY <1>2 DEF Placed
  <2> QED BY <1>2, <2>1, PeopleOfThread
<1>3. ASSUME NEW r \in Request, Looking(r) PROVE request[r].row = Nobody
  BY <1>3 DEF People, Placed, Looking
<1>4. CASE Tick
  BY <1>1, <1>4 DEF Tick
<1>5. ASSUME NEW k \in Key, PublishKey(k) \/ WithdrawKey(k) PROVE People'
  BY <1>1, <1>5 DEF PublishKey, WithdrawKey
<1>6. ASSUME NEW p \in Person, NEW e \in Email \cup {Nobody}, NEW G \in Memberships, MovePerson(p, e, G)
      PROVE  People'
  BY <1>1, <1>6 DEF MovePerson
<1>7. ASSUME NEW p \in Person, NEW k \in Key, Issue(p, k) PROVE People'
  BY <1>1, <1>7 DEF Issue
<1>8. ASSUME NEW r \in Request, NEW t \in tokens, TakeClient(r, t) PROVE People'
  BY <1>2, <1>8, TakeClientGives DEF TakeClient
<1>9. ASSUME NEW r \in Request, Looking(r), NEW known \in Seq(Client), NEW failed \in {0, 1},
             NotFound(r, known, failed), UNCHANGED <<users, act>>
      PROVE  People'
  <2>1. PICK q \in Requests : /\ request' = [request EXCEPT ![r] = q] /\ q.row = request[r].row
                              /\ q.phase \in {"unknown_key", "again"}
    BY <1>9, NotFoundGives
  <2> QED BY <1>2, <1>3, <1>9, <2>1
<1>10. ASSUME NEW r \in Request, Absent(r) PROVE People'
  <2>1. Looking(r) /\ NotFound(r, Fetched(r), 0) /\ UNCHANGED <<users, act>>
    BY <1>10 DEF Absent
  <2>2. Fetched(r) \in Seq(Client)
    BY <2>1, FetchedTypes
  <2> QED BY <1>9, <2>1, <2>2
<1>11. ASSUME NEW r \in Request, FetchFails(r) PROVE People'
  BY <1>9, <1>11 DEF FetchFails, Types
<1>12. ASSUME NEW r \in Request, Identify(r) PROVE People'
  <2>1. PICK q \in Requests : /\ request' = [request EXCEPT ![r] = q] /\ q.row = request[r].row
                              /\ q.phase \in {"identified", "refused"}
    BY <1>12, IdentifyGives
  <2> QED BY <1>2, <1>3, <1>12, <2>1 DEF Identify
<1>13. ASSUME NEW r \in Request, LookUp(r) PROVE People'
  BY <1>13, LookUpPeople
<1>14. ASSUME NEW r \in Request, InsertUser(r) PROVE People'
  BY <1>14, InsertUserPeople
<1>15. ASSUME NEW r \in Request, Commit(r) PROVE People'
  BY <1>15, CommitPeople
<1>16. ASSUME NEW r \in Request, Close(r) PROVE People'
  BY <1>2, <1>16, IdleGives DEF Close
<1>17. CASE UNCHANGED vars
  BY <1>1, <1>17 DEF vars
<1> QED BY <1>4, <1>5, <1>6, <1>7, <1>8, <1>10, <1>11, <1>12, <1>13, <1>14, <1>15, <1>16, <1>17 DEF SignInNext

LEMMA PeopleInit == SignInInit => People
<1> SUFFICES ASSUME SignInInit PROVE People
  OBVIOUS
<1>1. users = {} /\ act = Nobody /\ \A r \in Request : request[r] = Idle
  BY DEF SignInInit
<1>2. Idle.phase = "idle" /\ Idle.row = Nobody
  BY DEF Idle
<1> QED BY <1>1, <1>2 DEF People, Unique, Placed, Apart, ActOfPerson, Pending

(***************************************************************************)
(* A person is one row, and acts with the greatest role of the token, with *)
(* any number of threads that see the person first and people who take     *)
(* over addresses.                                                         *)
(***************************************************************************)
THEOREM OneRowAPersonHolds == SignInSpec => []OneRowAPerson
<1>1. People => OneRowAPerson
  BY DEF People, Unique, ActOfPerson, OneRowAPerson
<1> QED BY <1>1, TypesInit, TypesStep, PeopleInit, PeopleStep, PTL DEF SignInSpec

(***************************************************************************)
(* A first request that fails lost a race with the same person, or found   *)
(* the address in somebody else's row.                                     *)
(***************************************************************************)
THEOREM FirstSightFailsForAReasonHolds == SignInSpec => []FirstSightFailsForAReason
<1>1. People => FirstSightFailsForAReason
  BY DEF People, Placed, FirstSightFailsForAReason, UserOf
<1> QED BY <1>1, TypesInit, TypesStep, PeopleInit, PeopleStep, PTL DEF SignInSpec
=============================================================================
