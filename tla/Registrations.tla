---------------------------- MODULE Registrations ----------------------------
(***************************************************************************)
(* Registration with a one-time invitation code (core/services/users.py,   *)
(* auth_api.register).  The codes are a setting, so they are kept twice:   *)
(* in the settings object every request reads, and in the database, which  *)
(* an administrator's update rewrites as a whole and loads back            *)
(* (core/crud/settings.py, core/services/settings.py).  One code.          *)
(***************************************************************************)
EXTENDS Naturals

CONSTANTS Requests,   \* registrations at once
          MaxUsers    \* lnbits_max_users

VARIABLES rgMemory,   \* the code is listed in the settings object
          rgSaved,    \* the code is listed in the database
          rgTask,     \* where each registration is
          rgAdmin,    \* the administrator's update: [at, copy]
          rgUsers,    \* accounts created with the code
          rgOverlap   \* history: an update ran while a code was being consumed

vars == <<rgMemory, rgSaved, rgTask, rgAdmin, rgUsers, rgOverlap>>

RegistrationConstants == MaxUsers \in Nat

Init ==
    /\ rgMemory = TRUE /\ rgSaved = TRUE /\ rgTask = [r \in Requests |-> "idle"]
    /\ rgAdmin = [at |-> "idle", copy |-> FALSE] /\ rgUsers = 0 /\ rgOverlap = FALSE

Step(r, from, to) == rgTask[r] = from /\ rgTask' = [rgTask EXCEPT ![r] = to]

(* check_register_activation_settings: found and removed before any await.    *)
FindCode(r) ==
    /\ Step(r, "idle", "save") /\ rgMemory
    /\ rgOverlap' = (rgOverlap \/ rgAdmin.at # "idle")
    /\ UNCHANGED <<rgMemory, rgSaved, rgAdmin, rgUsers>>

TakeCode(r) ==
    /\ Step(r, "idle", "save") /\ rgMemory /\ rgMemory' = FALSE
    /\ rgOverlap' = (rgOverlap \/ rgAdmin.at # "idle")
    /\ UNCHANGED <<rgSaved, rgAdmin, rgUsers>>

(* set_settings_field; an error ends the request and the code stays saved. *)
SaveCodes(r) ==
    /\ \/ Step(r, "save", "create") /\ rgSaved' = FALSE
       \/ Step(r, "save", "idle") /\ UNCHANGED rgSaved
    /\ UNCHANGED <<rgMemory, rgAdmin, rgUsers, rgOverlap>>

(* create_user_account, in one connection: check_users_limit, the names that  *)
(* are taken, the account and its wallet; or nothing.                         *)
CreateUserUnchecked(r) ==
    /\ Step(r, "create", "idle") /\ rgUsers' = rgUsers + 1
    /\ UNCHANGED <<rgMemory, rgSaved, rgAdmin, rgOverlap>>
CreateUser(r) ==
    /\ Step(r, "create", "idle")
    /\ \/ rgUsers < MaxUsers /\ rgUsers' = rgUsers + 1
       \/ UNCHANGED rgUsers
    /\ UNCHANGED <<rgMemory, rgSaved, rgAdmin, rgOverlap>>

-----------------------------------------------------------------------------
(* api_update_settings and its variants: every setting is read, from the      *)
(* database or the settings object, written back, and loaded again.           *)
Admin(from, to, copy) ==
    /\ rgAdmin.at = from /\ rgAdmin' = [at |-> to, copy |-> copy]
    /\ UNCHANGED <<rgTask, rgUsers>>

AdminBegins ==
    /\ \E copy \in {rgMemory, rgSaved} : Admin("idle", "write", copy)
    /\ rgOverlap' = (rgOverlap \/ \E r \in Requests : rgTask[r] = "save")
    /\ UNCHANGED <<rgMemory, rgSaved>>

AdminWrites ==
    /\ \E to \in {"read", "idle"} : Admin("write", to, FALSE)
    /\ rgSaved' = rgAdmin.copy /\ UNCHANGED <<rgMemory, rgOverlap>>

AdminReads ==
    /\ Admin("read", "load", rgSaved) /\ UNCHANGED <<rgMemory, rgSaved, rgOverlap>>

(* update_cached_settings *)
AdminLoads ==
    /\ Admin("load", "idle", FALSE) /\ rgMemory' = rgAdmin.copy
    /\ UNCHANGED <<rgSaved, rgOverlap>>

(* The server stops and starts again: check_admin_settings. *)
Restart ==
    /\ rgMemory' = rgSaved /\ rgTask' = [r \in Requests |-> "idle"]
    /\ rgAdmin' = [at |-> "idle", copy |-> FALSE]
    /\ UNCHANGED <<rgSaved, rgUsers, rgOverlap>>

Next == \/ \E r \in Requests : TakeCode(r) \/ SaveCodes(r) \/ CreateUser(r)
        \/ AdminBegins \/ AdminWrites \/ AdminReads \/ AdminLoads \/ Restart

Spec == Init /\ [][Next]_vars

-----------------------------------------------------------------------------
TypeOK ==
    /\ rgMemory \in BOOLEAN /\ rgSaved \in BOOLEAN /\ rgOverlap \in BOOLEAN
    /\ rgTask \in [Requests -> {"idle", "save", "create"}] /\ rgUsers \in 0..MaxUsers
    /\ rgAdmin \in [at : {"idle", "write", "read", "load"}, copy : BOOLEAN]

(* register creates at most one account with a one-time code, whatever        *)
(* requests race for it and wherever the server stops, unless an              *)
(* administrator's update of the settings runs while it is being taken and    *)
(* writes it back.                                                            *)
CodeIsUsedOnce == rgUsers > 1 => rgOverlap
=============================================================================
