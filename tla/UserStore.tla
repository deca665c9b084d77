----------------------------- MODULE UserStore -----------------------------
(***************************************************************************)
(* The dashboard's users and sessions (auth/users.py, web/routers/auth.py):*)
(* the credentials file, read when the process starts, seeded, migrated    *)
(* and saved then, and edited by hand between; session tokens, which the   *)
(* process signs with the secret and accepts while their user exists.      *)
(*                                                                         *)
(* Passwords and secrets are numbers; what is drawn at random is a number  *)
(* never used before.  A user's record is the password and whether it is   *)
(* hashed.  The environment gives no secret.  JDSS_AUTH_DISABLED is unset. *)
(***************************************************************************)
EXTENDS Naturals, FiniteSets, Functions

CONSTANTS
    Users,          \* user names
    DefaultUser,
    MaxStarts,      \* bound: starts of the process
    MaxEdits,       \* bound: edits of the file by hand
    MaxLogins       \* bound: tokens issued

ASSUME UserStoreAssumptions == DefaultUser \in Users

DefaultPassword == 1
Passwords == {1, 2}
Records == [password : Passwords, hashed : BOOLEAN]

VARIABLES
    userFile,       \* the file: [kind, secret, users]; secret 0 for none
    store,          \* _data: [secret, users], secret 0 while the process is down
    saving,         \* the data a start has still to write, or NoData
    secrets,        \* secrets drawn so far
    starts,
    edits,
    editsRead,      \* history: the edits the running process has read
    tokens,         \* history: [user, secret, intact] of the tokens issued
    spoilt          \* history: the file was lost or broken, by hand or by a crash

storeVars == <<userFile, store, saving, secrets, starts, edits, editsRead, tokens, spoilt>>

NoUsers == [u \in {} |-> [password |-> 1, hashed |-> TRUE]]
NoData == [secret |-> 0, users |-> NoUsers]
Missing == [kind |-> "missing", secret |-> 0, users |-> NoUsers]
Broken == [kind |-> "broken", secret |-> 0, users |-> NoUsers]
Json(data) == [kind |-> "json", secret |-> data.secret, users |-> data.users]

StoreInit ==
    /\ userFile = Missing /\ store = NoData /\ saving = NoData
    /\ secrets = 0 /\ starts = 0 /\ edits = 0
    /\ editsRead = 0 /\ tokens = {} /\ spoilt = FALSE

ProcessUp == store # NoData /\ saving = NoData

-----------------------------------------------------------------------------
(* The start of the process.                                               *)

DefaultRecord == [password |-> DefaultPassword, hashed |-> TRUE]
Seeded(secret) == [secret |-> secret, users |-> [u \in {DefaultUser} |-> DefaultRecord]]

\* Plaintext passwords are hashed in place; no users at all makes the default one.
Migrated(users) ==
    IF DOMAIN users = {} THEN Seeded(1).users
    ELSE [u \in DOMAIN users |-> [users[u] EXCEPT !.hashed = TRUE]]

\* A file that is missing or is not JSON (kept as a backup) is seeded anew.
StartSeeds ==
    /\ store = NoData /\ starts < MaxStarts /\ userFile.kind \in {"missing", "broken"}
    /\ starts' = starts + 1 /\ editsRead' = edits /\ secrets' = secrets + 1
    /\ store' = Seeded(secrets') /\ saving' = store'
    /\ UNCHANGED <<userFile, edits, tokens, spoilt>>

\* Mutant of StartLoads: a generated secret does not make the data dirty.
StartLoads_SecretNotKept ==
    /\ store = NoData /\ starts < MaxStarts /\ userFile.kind = "json"
    /\ starts' = starts + 1 /\ editsRead' = edits
    /\ LET users == Migrated(userFile.users)
           data == [secret |-> IF userFile.secret = 0 THEN secrets' ELSE userFile.secret,
                    users |-> users]
       IN  /\ secrets' = IF userFile.secret = 0 THEN secrets + 1 ELSE secrets
           /\ store' = data
           /\ saving' = IF users # userFile.users THEN data ELSE NoData
    /\ UNCHANGED <<userFile, edits, tokens, spoilt>>

\* A secret, hashes or a user that the file does not have yet are saved.
StartLoads ==
    /\ store = NoData /\ starts < MaxStarts /\ userFile.kind = "json"
    /\ starts' = starts + 1 /\ editsRead' = edits
    /\ secrets' = IF userFile.secret = 0 THEN secrets + 1 ELSE secrets
    /\ LET data == [secret |-> IF userFile.secret = 0 THEN secrets' ELSE userFile.secret,
                    users |-> Migrated(userFile.users)]
       IN  /\ store' = data
           /\ saving' = IF Json(data) # userFile THEN data ELSE NoData
    /\ UNCHANGED <<userFile, edits, tokens, spoilt>>

\* write_text empties the file, then writes it.
SaveTruncates ==
    /\ saving # NoData /\ userFile # Broken
    /\ userFile' = Broken
    /\ UNCHANGED <<store, saving, secrets, starts, edits, editsRead, tokens, spoilt>>

SaveWrites ==
    /\ saving # NoData /\ userFile = Broken
    /\ userFile' = Json(saving) /\ saving' = NoData
    /\ UNCHANGED <<store, secrets, starts, edits, editsRead, tokens, spoilt>>

\* The process ends, or dies while it saves: nothing else is persisted.
ProcessEnds ==
    /\ store # NoData
    /\ store' = NoData /\ saving' = NoData
    /\ spoilt' = (spoilt \/ userFile = Broken)
    /\ UNCHANGED <<userFile, secrets, starts, edits, editsRead, tokens>>

-----------------------------------------------------------------------------
(* Edits by hand.                                                          *)

EditByHand ==
    /\ saving = NoData /\ edits < MaxEdits /\ edits' = edits + 1
    /\ UNCHANGED <<store, saving, secrets, starts, editsRead>>

\* The file is removed or left in a state that is not JSON.
SpoilFile ==
    /\ EditByHand
    /\ userFile' \in {Missing, Broken} /\ spoilt' = TRUE
    /\ UNCHANGED tokens

\* The users are edited: added, removed or given a plaintext password; the secret
\* is kept, or left out of the file, which is to replace it.
EditUsers ==
    /\ EditByHand
    /\ \E some \in SUBSET Users, p \in Passwords, kept \in BOOLEAN :
         LET old == IF userFile.kind = "json" THEN userFile ELSE Json(NoData)
         IN  /\ userFile' = Json([secret |-> IF kept THEN old.secret ELSE 0,
                                  users |-> [u \in some |->
                                    IF u \in DOMAIN old.users THEN old.users[u]
                                    ELSE [password |-> p, hashed |-> FALSE]]])
             /\ tokens' = {[t EXCEPT !.intact = @ /\ kept /\ t.user \in some] : t \in tokens}
    /\ UNCHANGED spoilt

-----------------------------------------------------------------------------
(* Sessions.                                                               *)

Verifies(u, p) == u \in DOMAIN store.users /\ store.users[u].password = p

Login(u, p) ==
    /\ ProcessUp /\ Verifies(u, p) /\ Cardinality(tokens) < MaxLogins
    /\ tokens' = tokens \cup {[user |-> u, secret |-> store.secret,
                                 intact |-> edits = editsRead]}
    /\ UNCHANGED <<userFile, store, saving, secrets, starts, edits, editsRead, spoilt>>

\* verify_token of a token that has not expired.
Accepted(t) == t.secret = store.secret /\ t.user \in DOMAIN store.users

StoreNext ==
    \/ StartSeeds \/ StartLoads \/ SaveTruncates \/ SaveWrites \/ ProcessEnds
    \/ SpoilFile \/ EditUsers
    \/ \E u \in Users, p \in Passwords : Login(u, p)

StoreSpec == StoreInit /\ [][StoreNext]_storeVars

-----------------------------------------------------------------------------
(* Properties.                                                             *)

\* Every variable in its set.
StoreTypeOK ==
    /\ userFile.kind \in {"missing", "broken", "json"}
    /\ \A u \in DOMAIN store.users : store.users[u] \in Records
    /\ userFile.secret \in 0 .. secrets /\ store.secret \in 0 .. secrets

\* users.py: "persist a generated secret so cookies survive restarts" and "never
\* leave an unloginnable gateway".  Through any restarts, migrations and edits by
\* hand a session goes on as long as the file was not lost or broken and no edit
\* took its user or the secret away; the process has a user, and no password in
\* plain text, in memory or, once it is up, in a file that nobody has edited.
SessionsSurvive ==
    /\ ProcessUp /\ ~ spoilt => \A t \in tokens : t.intact => Accepted(t)
    /\ store # NoData => DOMAIN store.users # {} /\ \A u \in DOMAIN store.users :
                              store.users[u].hashed
    /\ ProcessUp /\ edits = 0 => userFile = Json(store)
=============================================================================
