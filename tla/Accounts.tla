------------------------------- MODULE Accounts -------------------------------
(***************************************************************************)
(* The rows of the accounts and the requests that write them               *)
(* (core/views/auth_api.py, user_api.py, core/services/users.py,           *)
(* core/crud/users.py).  Names are not unique in the database: a request   *)
(* looks for the holder of a name, and writes the row, as it has read it,  *)
(* afterwards.  A name stands for the username, the email or the public    *)
(* key, a secret for the password.  One account is there at first.         *)
(***************************************************************************)
EXTENDS Naturals

CONSTANTS Ids,      \* of the accounts, one of them 1
          Tasks,    \* requests at once, numbered
          Names

VARIABLES anRow,      \* the rows: [name, secret, active], or Gone
          anTask,     \* the requests: [at, op, id, row, stale]
          anMeant,    \* history: the secret and the activation last asked for
          anOverlap,  \* history: a request wrote what another changed meanwhile
          anReturned  \* history: a name was in use again when its account came back

vars == <<anRow, anTask, anMeant, anOverlap, anReturned>>

AccountConstants == 1 \in Ids
Row(name, secret, active) == [name |-> name, secret |-> secret, active |-> active]
Gone == Row("none", 0, FALSE)
Rows == [name : Names \union {"none"}, secret : {0, 1}, active : BOOLEAN]
Idle == [at |-> "idle", op |-> "none", id |-> 1, row |-> Gone, stale |-> FALSE]
Meaning(row) == [secret |-> row.secret, active |-> row.active]

Init ==
    /\ \E name \in Names :
         anRow = [i \in Ids |-> IF i = 1 THEN Row(name, 0, TRUE) ELSE Gone]
    /\ anTask = [t \in Tasks |-> Idle] /\ anMeant = [i \in Ids |-> Meaning(anRow[i])]
    /\ anOverlap = FALSE /\ anReturned = FALSE

(* get_account_by_username, _email, _pubkey, active_only or not. *)
Held(name, id) == \E i \in Ids \ {id} : anRow[i].name = name /\ anRow[i].active
HeldAtAll(name, id) == \E i \in Ids \ {id} : anRow[i].name = name

(* The tasks are alike: the first that is idle begins.                        *)

Begin(t, op, id, row, at) ==
    /\ anTask[t] = Idle /\ \A u \in Tasks : u < t => anTask[u] # Idle
    /\ anTask' = [anTask EXCEPT ![t] = [at |-> at, op |-> op, id |-> id, row |-> row, stale |-> FALSE]]
    /\ UNCHANGED <<anRow, anMeant, anOverlap, anReturned>>

Refused(t) ==
    /\ anTask' = [anTask EXCEPT ![t] = Idle]
    /\ UNCHANGED <<anRow, anMeant, anOverlap, anReturned>>

(* The row is replaced; the other requests have read what is no more. *)
Put(id, row, tasks) ==
    /\ anRow' = [anRow EXCEPT ![id] = row]
    /\ anTask' = [t \in Tasks |-> IF t \in tasks \/ anTask[t] = Idle THEN Idle
                                  ELSE [anTask[t] EXCEPT !.stale = TRUE]]

Insert(id, row, tasks) ==
    /\ anRow[id] = Gone /\ ~Held(row.name, id)
    /\ Put(id, row, tasks) /\ anMeant' = [anMeant EXCEPT ![id] = Meaning(row)]
    /\ anOverlap' = (anOverlap \/ \E t \in tasks : anTask[t].stale)
    /\ UNCHANGED anReturned

(* register, the nostr and SSO logins: free at all, then                       *)
(* create_user_account_no_ckeck, in one connection: free among the active.     *)
Register(t, id, name) ==
    /\ anRow[id] = Gone /\ ~HeldAtAll(name, id)
    /\ Begin(t, "create", id, Row(name, 0, TRUE), "create")

CreateAccount(t) ==
    /\ anTask[t].at = "create"
    /\ \/ Insert(anTask[t].id, anTask[t].row, {t})
       \/ /\ anRow[anTask[t].id] # Gone \/ Held(anTask[t].row.name, anTask[t].id)
          /\ Refused(t)

(* api_create_user *)
CreateUser(id, name) == Insert(id, Row(name, 0, TRUE), {})

-----------------------------------------------------------------------------
Other(id) == IF id = 1 THEN 1 - anRow[id].secret ELSE 0   \* bound: one password changes

(* update_password and update_pubkey: the account of the request, the name.    *)
UpdatePassword(t, id, name) ==
    /\ anRow[id].active
    /\ Begin(t, "secret", id, Row(name, Other(id), TRUE),
             IF name = anRow[id].name THEN "write" ELSE "check")

(* reset_password: a reset key is good until it is too old, and used or not. *)
ResetPassword(t, id) ==
    anRow[id].active /\ Begin(t, "secret", id, [anRow[id] EXCEPT !.secret = Other(id)], "write")

(* update, update_ui_customization: update_user_account of the account read.   *)
Update(t, id, name) ==
    anRow[id].active /\ Begin(t, "edit", id, [anRow[id] EXCEPT !.name = name], "again")

(* api_update_user: of a new Account, activated by default. *)
UpdateUser(t, id, name) ==
    anRow[id] # Gone /\ Begin(t, "edit", id, Row(name, 0, TRUE), "again")

(* update_user_account takes the password from the row, and leaves an account *)
(* alone that is not active.                                                  *)
KeepAny(t) ==
    LET task == anTask[t] IN
    /\ task.at = "again"
    /\ anTask' = [anTask EXCEPT ![t] = [task EXCEPT !.at = "check", !.row.secret = anRow[task.id].secret]]
    /\ UNCHANGED <<anRow, anMeant, anOverlap, anReturned>>
Keep(t) ==
    LET task == anTask[t] IN
    /\ task.at = "again"
    /\ IF anRow[task.id].active
       THEN /\ anTask' = [anTask EXCEPT ![t] =
                 [task EXCEPT !.at = "check", !.row = [task.row EXCEPT !.secret = anRow[task.id].secret]]]
            /\ UNCHANGED <<anRow, anMeant, anOverlap, anReturned>>
       ELSE Refused(t)

CheckName(t) ==
    LET task == anTask[t] IN
    /\ task.at = "check"
    /\ IF Held(task.row.name, task.id)
       THEN Refused(t)
       ELSE /\ anTask' = [anTask EXCEPT ![t] = [task EXCEPT !.at = "write"]]
            /\ UNCHANGED <<anRow, anMeant, anOverlap, anReturned>>

(* api_users_toggle_activated: of an account active or not; nobody asks       *)
(* whether its name is in use by now.                                         *)
Toggle(t, id) ==
    /\ anRow[id] # Gone
    /\ Begin(t, "toggle", id, [anRow[id] EXCEPT !.active = ~@], "write")

(* update_account: an UPDATE of every column, of no row when it is gone.       *)
UpdateAccount(t) ==
    LET task == anTask[t]
        old == anRow[task.id] IN
    /\ task.at = "write"
    /\ Put(task.id, IF old = Gone THEN Gone ELSE task.row, {t})
    /\ anMeant' = [anMeant EXCEPT ![task.id] =
                     IF old = Gone THEN @
                     ELSE [secret |-> IF task.op = "secret" THEN task.row.secret ELSE @.secret,
                           active |-> IF task.op = "toggle" THEN task.row.active ELSE @.active]]
    /\ anOverlap' = (anOverlap \/ task.stale)
    /\ anReturned' = (anReturned \/ (task.op = "toggle" /\ task.row.active
                                        /\ Held(task.row.name, task.id)))

(* api_users_delete_user, and delete_accounts_no_wallets for one without any. *)
Delete(id) ==
    /\ anRow[id] # Gone
    /\ Put(id, Gone, {}) /\ anMeant' = [anMeant EXCEPT ![id] = Meaning(Gone)]
    /\ UNCHANGED <<anOverlap, anReturned>>

Steps ==
    \/ \E t \in Tasks, id \in Ids, name \in Names :
          \/ Register(t, id, name) \/ Update(t, id, name) \/ UpdateUser(t, id, name)
          \/ UpdatePassword(t, id, name)
    \/ \E t \in Tasks, id \in Ids : ResetPassword(t, id) \/ Toggle(t, id)
    \/ \E id \in Ids : Delete(id) \/ \E name \in Names : CreateUser(id, name)
    \/ \E t \in Tasks : CreateAccount(t) \/ Keep(t) \/ CheckName(t) \/ UpdateAccount(t)

Judged == ~anOverlap /\ ~anReturned
Next == Judged /\ Steps   \* bound: a behaviour is followed until an excuse
Spec == Init /\ [][Next]_vars

-----------------------------------------------------------------------------
TypeOK ==
    /\ anRow \in [Ids -> Rows] /\ anOverlap \in BOOLEAN /\ anReturned \in BOOLEAN
    /\ anTask \in [Tasks -> [at : {"idle", "create", "again", "check", "write"},
                             op : {"none", "create", "secret", "edit", "toggle"},
                             id : Ids, row : Rows, stale : BOOLEAN]]
    /\ anMeant \in [Ids -> [secret : {0, 1}, active : BOOLEAN]]

(* A name leads to one active account, unless two requests overlapped, or an  *)
(* account was given the name of one that was inactive or that came back.     *)
NamesBelongToOne ==
    Judged => \A i, j \in Ids : i # j /\ anRow[i].active /\ anRow[j].active
                                  => anRow[i].name # anRow[j].name

(* The password and the activation of an account are those last asked for:    *)
(* editing a profile, or a user by an administrator, changes neither, unless  *)
(* two requests overlapped.                                                   *)
AccountsKeepWrites ==
    ~anOverlap => \A i \in Ids : Meaning(anRow[i]) = anMeant[i]
=============================================================================
