-------------------------------- MODULE MCSignIn --------------------------------
(***************************************************************************)
(* Sign-in for TLC: two threads, two people, two keys and two groups, a    *)
(* client's and a manager's.                                               *)
(***************************************************************************)
EXTENDS SignIn, TLC

Groups == "clients" :> "client" @@ "managers" :> "lab_manager"
Member == {{"clients"}, Group}

\* Keys matter until a token is accepted, people from then on: the provider
\* changes the ones or the others, and time passes and fetches fail for keys alone.
KeysOrPeople ==
    IF rotations > 0
    THEN /\ moves = 0 /\ users = {} /\ Cardinality({t.person : t \in tokens}) <= 1
         /\ \A r \in Request : request[r].phase \notin {"absent", "acting", "failed"}
    ELSE now = 0 /\ \A r \in Request : request[r].failures = 0

Same == Permutations(Request) \cup Permutations(Person) \cup Permutations(Email)
          \cup Permutations(Key)
=============================================================================
