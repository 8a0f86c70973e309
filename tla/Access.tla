------------------------------- MODULE Access -------------------------------
(***************************************************************************)
(* Users: administrators create and change them, and a person activates an *)
(* account by the email of the identity that the proxy has checked, after  *)
(* two lookups, each of which sees what is committed then. A change reads  *)
(* the row without a lock, and saves every column of its copy. Roles are   *)
(* data here; ExperimentLifecycle has the review rules.                    *)
(***************************************************************************)
CONSTANTS
    UserIds,     \* ids of users
    Emails,      \* emails; the identity provider gives each person one
    Persons,     \* iap ids
    EmailOf,     \* the email in the identity of each person
    Callers,     \* requests that can be open at once
    Nothing      \* no row, no iap id

ASSUME AccessAssumption == EmailOf \in [Persons -> Emails] /\ Nothing \notin Persons

VARIABLES
    userRows,    \* users: a row, or Nothing
    callers,     \* the open requests
    aux_overwrote,\* history: users saved from a copy that another request's COMMIT made stale
    aux_outrun    \* history: persons who had an account by the time of the second lookup

access_vars == <<userRows, callers, aux_overwrote, aux_outrun>>

-----------------------------------------------------------------------------

UserRow == [email : Emails, iap : Persons \union {Nothing}]
NoCall == [at |-> "closed"]
Called(c, at) == callers[c].at = at
Holds(c, u) == callers[c].at \in {"read", "saved"} /\ callers[c].user = u
HasIdentity(v, person) == userRows[v] # Nothing /\ userRows[v].iap = person
\* An UPDATE, or the key of an INSERT, is locked until COMMIT.
UserIsFree(u) == \A c \in Callers : ~(Called(c, "saved") /\ callers[c].user = u)
\* What the unique index on email sees: rows, and the writes of other requests.
EmailIsFree(u, email) ==
    /\ \A v \in UserIds \ {u} : userRows[v] # Nothing => userRows[v].email # email
    /\ \A c \in Callers :
          Called(c, "saved") /\ callers[c].user # u => callers[c].row.email # email

AccessInit ==
    /\ userRows = [u \in UserIds |-> Nothing]
    /\ callers = [c \in Callers |-> NoCall]
    /\ aux_overwrote = {}
    /\ aux_outrun = {}

-----------------------------------------------------------------------------

Enter(c, call) ==
    /\ callers[c] = NoCall
    /\ callers' = [callers EXCEPT ![c] = call]
    /\ UNCHANGED <<userRows, aux_overwrote, aux_outrun>>

\* A copy is current until another request commits the row.
Copy(u, row) == [at |-> "read", user |-> u, row |-> row, current |-> TRUE]

CreateUser(c, u, email) ==
    LET row == [email |-> email, iap |-> Nothing] IN
    /\ userRows[u] = Nothing /\ UserIsFree(u) /\ EmailIsFree(u, email)
    /\ Enter(c, [at |-> "saved", user |-> u, row |-> row, current |-> TRUE])

\* Mutant of Activates: the account may be active.
ActivatesAgain(person, u) ==
    userRows[u] # Nothing /\ userRows[u].email = EmailOf[person]

\* The account has the email of the identity and is not active.
Activates(person, u) ==
    userRows[u] # Nothing /\ userRows[u].email = EmailOf[person] /\ userRows[u].iap = Nothing

\* The first lookup of ActivateUser: the identity has no account.
IdentifyPerson(c, person) ==
    /\ \A v \in UserIds : ~HasIdentity(v, person)
    /\ Enter(c, [at |-> "identified", person |-> person])

\* The second one, of an account by the email.
ActivateUser(c, u) ==
    LET person == callers[c].person IN
    /\ Called(c, "identified") /\ Activates(person, u)
    /\ callers' = [callers EXCEPT ![c] = Copy(u, [userRows[u] EXCEPT !.iap = person])]
    /\ aux_outrun' = aux_outrun \union {p \in {person} : \E v \in UserIds : HasIdentity(v, p)}
    /\ UNCHANGED <<userRows, aux_overwrote>>

\* UpdateUser with the email it has changes the role.
UpdateUser(c, u, email) ==
    userRows[u] # Nothing /\ Enter(c, Copy(u, [userRows[u] EXCEPT !.email = email]))

\* save
SaveUser(c) ==
    LET u == callers[c].user IN
    /\ Called(c, "read") /\ UserIsFree(u) /\ EmailIsFree(u, callers[c].row.email)
    /\ callers' = [callers EXCEPT ![c].at = "saved"]
    /\ aux_overwrote' = IF callers[c].current THEN aux_overwrote
                        ELSE aux_overwrote \union {u}
    /\ UNCHANGED <<userRows, aux_outrun>>

CommitUser(c) ==
    LET u == callers[c].user IN
    /\ Called(c, "saved")
    /\ userRows' = [userRows EXCEPT ![u] = callers[c].row]
    /\ callers' = [d \in Callers |->
                      CASE d = c -> NoCall
                        [] d # c /\ Holds(d, u) -> [callers[d] EXCEPT !.current = FALSE]
                        [] OTHER -> callers[d]]
    /\ UNCHANGED <<aux_overwrote, aux_outrun>>

CallFails(c) ==
    /\ callers[c] # NoCall
    /\ callers' = [callers EXCEPT ![c] = NoCall]
    /\ UNCHANGED <<userRows, aux_overwrote, aux_outrun>>

AccessNext ==
    \E c \in Callers :
        \/ \E u \in UserIds, email \in Emails : CreateUser(c, u, email) \/ UpdateUser(c, u, email)
        \/ \E person \in Persons : IdentifyPerson(c, person)
        \/ \E u \in UserIds : ActivateUser(c, u)
        \/ SaveUser(c) \/ CommitUser(c) \/ CallFails(c)

AccessSpec == AccessInit /\ [][AccessNext]_access_vars

-----------------------------------------------------------------------------

\* The types of the variables.
AccessTypeOK ==
    /\ userRows \in [UserIds -> UserRow \union {Nothing}]
    /\ \A c \in Callers : callers[c] # NoCall =>
          callers[c] \in [at : {"identified"}, person : Persons]
            \union [at : {"read", "saved"}, user : UserIds, row : UserRow, current : BOOLEAN]
    /\ aux_overwrote \subseteq UserIds /\ aux_outrun \subseteq Persons

\* An email has one account, and an identity signs in to one account and keeps it, but in two
\* cases (iap_id has no unique index). A request has saved a copy that another one's COMMIT had
\* made stale: an UpdateUser that read the row before ActivateUser takes the activation back,
\* and one identity may sign in to two accounts whose emails have been exchanged meanwhile. Or
\* the identity got an account between the two lookups of an activation, and its email is
\* another account's by the second one.
IdentityIsKept ==
    [][\A u, v \in UserIds :
          /\ userRows'[u] # Nothing /\ userRows'[v] # Nothing /\ u # v =>
                /\ userRows'[u].email # userRows'[v].email
                /\ \/ userRows'[u].iap = Nothing \/ userRows'[u].iap # userRows'[v].iap
                   \/ aux_overwrote' # {} \/ userRows'[u].iap \in aux_outrun'
          /\ userRows[u] # Nothing /\ userRows[u].iap # Nothing =>
                userRows'[u].iap = userRows[u].iap \/ u \in aux_overwrote]_access_vars
=============================================================================
