------------------------------ MODULE ServerStart ------------------------------
(***************************************************************************)
(* How the server starts (app.startup): the migrations of the core         *)
(* database (core/helpers.py, core/migrations.py), then the settings and   *)
(* the superuser (core/services/users.py, core/crud/settings.py).  Every   *)
(* statement is committed by itself (db.Connection.execute), so a server   *)
(* that stops between two of them goes on with what it finds; and the      *)
(* settings are rows of their own, which requests and the command line     *)
(* write and delete one after the other.  Two settings stand for all:      *)
(* "funding" for those a reset keeps, "token" for the others.              *)
(***************************************************************************)
EXTENDS Naturals, Sequences

CONSTANTS MaxAccounts,   \* bound: the superusers ever made
          MaxStops       \* bound: how often the server is stopped

VARIABLES srAt,       \* where the start is, "on", "off", or "stuck": startup raised
          srEnv,      \* the environment: [super, token]
          srVersion,  \* the migrations recorded in dbversions
          srApplied,  \* the statements executed of the migration after them
          srMissing,  \* the migrations of which a statement was never executed
          srRows,     \* system_settings: [super, funding, token]
          srMemory,   \* the settings object: [super, funding, token, first]
          srNew,      \* the account a start is making the superuser
          srMade,     \* the accounts made so far
          srClaimed,  \* those with a password of their own
          srFile,     \* the account named in .super_user
          srTask,     \* an administrator's request: [at, super, funding, token]
          srOwner,    \* history: who was promised to stay the superuser
          srCut,      \* history: stopped within a migration
          srWiped,    \* history: settings deleted behind the server, or half reset
          srRenewed,  \* history: this start has changed the superuser for a new token
          srStops     \* history: how often it was stopped

vars == <<srAt, srEnv, srVersion, srApplied, srMissing, srRows, srMemory, srNew, srMade,
          srClaimed, srFile, srTask, srOwner, srCut, srWiped, srRenewed, srStops>>

StartConstants == MaxAccounts \in Nat /\ MaxStops \in Nat
None == 0
Absent == "absent"   \* there is no such row
Ids == 1..MaxAccounts
Tokens == {"no", "a", "b"}
Fundings == {"default", "edited"}

-----------------------------------------------------------------------------
(* A migration: its statements (a loop is one), after how many of them it can *)
(* be run again, and whether it passes over an OperationalError.              *)
Makes(n) == [steps |-> n, again |-> 0..n, caught |-> FALSE]   \* IF NOT EXISTS, or an UPDATE
Alters(n) == [steps |-> n, again |-> {0}, caught |-> FALSE]
Tries(n) == [steps |-> n, again |-> {0}, caught |-> TRUE]
View == [steps |-> 2, again |-> {0, 2}, caught |-> FALSE]     \* DROP, CREATE
Initial == [steps |-> 5, again |-> 0..4, caught |-> FALSE]
MovesSettings == [steps |-> 3, again |-> {0, 1}, caught |-> FALSE]

From001 == <<Initial, Tries(7), Alters(2)>>
From004 == <<View, Makes(2), Tries(1), Makes(1), Makes(1), Makes(1), Makes(1)>>
From011 == <<View, Alters(1), Tries(1), Makes(1), Makes(1), Tries(2)>>
From017 == <<Tries(6), View, View, Alters(1), Alters(4), Tries(1)>>
From023 == <<Alters(5), Alters(1), View, Alters(4), Makes(1), MovesSettings>>
From029 == <<Makes(1)>> \o [i \in 1..7 |-> Alters(1)] \o <<Makes(1), Alters(1), Makes(1), Makes(1)>>
From042 == <<Makes(1), Alters(1), Alters(1), Alters(2), Alters(1), Makes(4), Alters(1),
             Alters(1), Alters(2)>>
Migrations == From001 \o From004 \o From011 \o From017 \o From023 \o From029 \o From042
Last == Len(Migrations)
Current == Migrations[srVersion + 1]

-----------------------------------------------------------------------------
Empty == [super |-> None, funding |-> Absent, token |-> Absent]
NoTask == [at |-> "idle", super |-> None, funding |-> Absent, token |-> Absent]

Init ==
    /\ srAt = "off" /\ srEnv = [super |-> None, token |-> "no"]
    /\ srVersion = 0 /\ srApplied = 0 /\ srMissing = {} /\ srRows = Empty
    /\ srMemory = [super |-> None, funding |-> "default", token |-> "no", first |-> FALSE]
    /\ srNew = None /\ srMade = 0 /\ srClaimed = {} /\ srFile = None /\ srTask = NoTask
    /\ srOwner = None /\ srCut = FALSE /\ srWiped = FALSE /\ srRenewed = FALSE /\ srStops = 0

schemaVars == <<srVersion, srApplied, srMissing, srCut>>
accountVars == <<srNew, srMade, srClaimed, srFile, srRenewed>>
endVars == <<srEnv, srStops, srWiped>>

(* The settings object is made anew, of the environment; migrate_databases    *)
(* reads the version, and run_migration begins with the migration after it.   *)
Starts(at, version, missing) ==
    /\ srAt' = at /\ srVersion' = version /\ srApplied' = 0 /\ srMissing' = missing
    /\ srMemory' = [super |-> srEnv.super, funding |-> "default", token |-> "no", first |-> FALSE]
    /\ srRenewed' = FALSE
    /\ UNCHANGED <<srEnv, srRows, srNew, srMade, srClaimed, srFile, srTask, srOwner,
                   srCut, srWiped, srStops>>

Start ==
    /\ srAt = "off"
    /\ \/ srVersion = Last /\ Starts("settings", srVersion, srMissing)
       \/ /\ srVersion < Last /\ srApplied \in Current.again
          /\ Starts("migrate", srVersion, srMissing)
       \/ /\ srVersion < Last /\ srApplied \notin Current.again /\ Current.caught
          /\ Starts("migrate", srVersion + 1,
                    srMissing \union (IF srApplied < Current.steps THEN {srVersion + 1} ELSE {}))
       \/ /\ srVersion < Last /\ srApplied \notin Current.again /\ ~Current.caught
          /\ srAt' = "stuck"
          /\ UNCHANGED <<schemaVars, accountVars, endVars, srRows, srMemory, srTask, srOwner>>

(* The next statement, and update_migration_version after the last one.       *)
RecordFirst ==
    /\ srAt = "migrate"
    /\ IF srVersion = Last THEN srAt' = "settings" /\ UNCHANGED <<srVersion, srApplied, srMissing>>
       ELSE /\ srVersion' = srVersion + 1 /\ srMissing' = srMissing \union {srVersion + 1}
            /\ UNCHANGED <<srAt, srApplied>>
    /\ UNCHANGED <<srCut, accountVars, endVars, srRows, srMemory, srTask, srOwner>>
Migrate ==
    /\ srAt = "migrate"
    /\ IF srVersion = Last THEN srAt' = "settings" /\ UNCHANGED <<srVersion, srApplied>>
       ELSE /\ UNCHANGED srAt
            /\ IF srApplied < Current.steps THEN srApplied' = srApplied + 1 /\ UNCHANGED srVersion
               ELSE srVersion' = srVersion + 1 /\ srApplied' = 0
    /\ UNCHANGED <<srMissing, srCut, accountVars, endVars, srRows, srMemory, srTask, srOwner>>

-----------------------------------------------------------------------------
(* get_settings_by_tag: no rows, or a KeyError when super_user is not among   *)
(* them.                                                                      *)
Data(rows) == rows.funding # Absent \/ rows.token # Absent
Broken(rows) == Data(rows) /\ rows.super = None
Value(row, default) == IF row = Absent THEN default ELSE row

(* check_admin_settings: settings are made when there are none, and the       *)
(* superuser of the environment is saved.                                     *)
CheckSettings ==
    /\ srAt = "settings"
    /\ \/ Broken(srRows) /\ srAt' = "stuck" /\ UNCHANGED <<srRows, srOwner>>
       \/ ~Broken(srRows) /\ ~Data(srRows) /\ srAt' = "init" /\ UNCHANGED <<srRows, srOwner>>
       \/ /\ ~Broken(srRows) /\ Data(srRows) /\ srAt' = "cache"
          /\ IF srMemory.super \in {None, srRows.super} THEN UNCHANGED <<srRows, srOwner>>
             ELSE srRows' = [srRows EXCEPT !.super = srMemory.super] /\ srOwner' = None
    /\ UNCHANGED <<schemaVars, accountVars, endVars, srMemory, srTask>>

(* init_admin_settings: the account, and a row for each setting.              *)
MakeAccount ==
    /\ srAt \in {"init", "renew"}
    /\ IF srAt = "init" /\ srMemory.super # None
       THEN srNew' = srMemory.super /\ UNCHANGED srMade
       ELSE srMade < MaxAccounts /\ srNew' = srMade + 1 /\ srMade' = srMade + 1
    /\ srAt' = IF srAt = "init" THEN "super" ELSE "super again"
    /\ UNCHANGED <<schemaVars, endVars, srClaimed, srFile, srRenewed, srRows, srMemory, srTask, srOwner>>

WriteSuper ==
    /\ srAt \in {"super", "super again"} /\ srRows' = [srRows EXCEPT !.super = srNew]
    /\ srAt' = IF srAt = "super" THEN "funding" ELSE "funding again"
    /\ UNCHANGED <<schemaVars, accountVars, endVars, srMemory, srTask, srOwner>>

WriteFunding ==
    /\ srAt \in {"funding", "funding again"}
    /\ srRows' = [srRows EXCEPT !.funding = srMemory.funding]
    /\ srAt' = IF srAt = "funding" THEN "token" ELSE "token again"
    /\ UNCHANGED <<schemaVars, accountVars, endVars, srMemory, srTask, srOwner>>

WriteToken ==
    /\ srAt \in {"token", "token again"} /\ srRows' = [srRows EXCEPT !.token = srMemory.token]
    /\ IF srAt = "token" THEN srAt' = "cache" /\ UNCHANGED srMemory
       ELSE srAt' = "on" /\ srMemory' = [srMemory EXCEPT !.super = srNew, !.first = TRUE]
    /\ UNCHANGED <<schemaVars, accountVars, endVars, srTask, srOwner>>

(* update_cached_settings of the rows, the file .super_user, and what a new   *)
(* first_install_token asks for: another superuser.                           *)
Loaded ==
    [super |-> srRows.super, funding |-> Value(srRows.funding, "default"),
     token |-> Value(srRows.token, "no"), first |-> srRows.super \notin srClaimed]
Renews(memory) == srEnv.token # "no" /\ memory.token \notin {"no", srEnv.token}
Cache ==
    /\ srAt = "cache" /\ srMemory' = Loaded /\ srFile' = srRows.super
    /\ srAt' = IF Renews(Loaded) THEN "renew" ELSE "on"
    /\ srRenewed' = Renews(Loaded) /\ srOwner' = (IF Renews(Loaded) THEN None ELSE srOwner)
    /\ UNCHANGED <<schemaVars, endVars, srNew, srMade, srClaimed, srRows, srTask>>

-----------------------------------------------------------------------------
(* first_install (auth_api.py): the superuser takes a password, and only then *)
(* the token is confirmed.                                                    *)
Claim ==
    /\ srAt = "on" /\ srTask = NoTask /\ srMemory.first
    /\ srClaimed' = srClaimed \union {srMemory.super}
    /\ IF srEnv.token = "no"
       THEN /\ srMemory' = [srMemory EXCEPT !.first = FALSE] /\ UNCHANGED srTask
            /\ srOwner' = IF srWiped THEN None ELSE srMemory.super
       ELSE /\ srMemory' = [srMemory EXCEPT !.first = FALSE, !.token = srEnv.token]
            /\ srTask' = [NoTask EXCEPT !.at = "confirm"] /\ UNCHANGED srOwner
    /\ UNCHANGED <<schemaVars, endVars, srAt, srNew, srMade, srFile, srRenewed, srRows>>

Confirm ==
    /\ srTask.at = "confirm" /\ srTask' = NoTask
    /\ srRows' = [srRows EXCEPT !.token = srEnv.token]
    /\ srOwner' = IF srWiped THEN None ELSE srMemory.super
    /\ UNCHANGED <<schemaVars, accountVars, endVars, srAt, srMemory>>

(* api_update_settings: update_admin_settings reads the rows, and writes them *)
(* back with what was edited, or with all the settings object holds (PATCH);  *)
(* what they are by then is cached.                                           *)
EditReads(funding) ==
    /\ srAt = "on" /\ srTask = NoTask /\ ~Broken(srRows)
    /\ \E token \in {srRows.token, srMemory.token} :
         srTask' = [at |-> "edit", super |-> None, funding |-> funding, token |-> token]
    /\ UNCHANGED <<schemaVars, accountVars, endVars, srAt, srRows, srMemory, srOwner>>

EditWrites ==
    /\ srTask.at = "edit" /\ srTask' = [srTask EXCEPT !.at = "load"]
    /\ srRows' = [srRows EXCEPT !.funding = srTask.funding, !.token = Value(srTask.token, srRows.token)]
    /\ UNCHANGED <<schemaVars, accountVars, endVars, srAt, srMemory, srOwner>>

EditLoads ==
    /\ srTask.at = "load" /\ srTask' = NoTask
    /\ srMemory' = IF Broken(srRows) \/ ~Data(srRows) THEN srMemory
                   ELSE [srMemory EXCEPT !.funding = Loaded.funding, !.token = Loaded.token]
    /\ UNCHANGED <<schemaVars, accountVars, endVars, srAt, srRows, srOwner>>

(* api_delete_settings: reset_core_settings, row by row, and a restart.       *)
ResetReads ==
    /\ srAt = "on" /\ srTask = NoTask /\ ~Broken(srRows)
    /\ srTask' = [at |-> "delete", super |-> srRows.super, funding |-> srRows.funding, token |-> Absent]
    /\ UNCHANGED <<schemaVars, accountVars, endVars, srAt, srRows, srMemory, srOwner>>

ResetDeletes ==
    /\ srTask.at = "delete" /\ srRows' = Empty /\ srTask' = [srTask EXCEPT !.at = "super"]
    /\ UNCHANGED <<schemaVars, accountVars, endVars, srAt, srMemory, srOwner>>

ResetSuper ==
    /\ srTask.at = "super" /\ srRows' = [srRows EXCEPT !.super = srTask.super]
    /\ srTask' = [srTask EXCEPT !.at = "funding"]
    /\ UNCHANGED <<schemaVars, accountVars, endVars, srAt, srMemory, srOwner>>

ResetForgets ==
    /\ srTask.at = "funding" /\ srTask' = NoTask /\ srAt' = "off"
    /\ UNCHANGED <<schemaVars, accountVars, endVars, srRows, srMemory, srOwner>>
ResetFunding ==
    /\ srTask.at = "funding" /\ srRows' = [srRows EXCEPT !.funding = srTask.funding]
    /\ srTask' = NoTask /\ srAt' = "off"
    /\ UNCHANGED <<schemaVars, accountVars, endVars, srMemory, srOwner>>

(* lnbits-cli delete-settings, whether the server runs or not.                *)
Wipe ==
    /\ srAt \in {"on", "off"} /\ Data(srRows) /\ ~srWiped
    /\ srRows' = Empty /\ srWiped' = TRUE /\ srOwner' = None
    /\ UNCHANGED <<schemaVars, accountVars, srEnv, srStops, srAt, srMemory, srTask>>

-----------------------------------------------------------------------------
(* The server is stopped, or restarts, at any point.                          *)
Resetting == srTask.at \in {"super", "funding"}
Stop ==
    /\ srAt \notin {"off", "stuck"} /\ srStops < MaxStops
    /\ srAt' = "off" /\ srTask' = NoTask /\ srStops' = srStops + 1
    /\ srCut' = (srCut \/ srApplied > 0)
    /\ srWiped' = (srWiped \/ Resetting) /\ srOwner' = IF Resetting THEN None ELSE srOwner
    /\ UNCHANGED <<srVersion, srApplied, srMissing, accountVars, srEnv, srRows, srMemory>>

(* The operator changes .env: the superuser is an account there is, or none.  *)
SetEnv(super, token) ==
    /\ srAt = "off" /\ srMade > 0 /\ super \in 0..srMade
    /\ srEnv # [super |-> super, token |-> token] /\ srEnv' = [super |-> super, token |-> token]
    /\ UNCHANGED <<schemaVars, accountVars, srStops, srWiped, srAt, srRows, srMemory, srTask, srOwner>>

Next == \/ Start \/ Migrate \/ CheckSettings \/ MakeAccount
        \/ WriteSuper \/ WriteFunding \/ WriteToken \/ Cache
        \/ Claim \/ Confirm
        \/ (\E funding \in Fundings : EditReads(funding)) \/ EditWrites \/ EditLoads
        \/ ResetReads \/ ResetDeletes \/ ResetSuper \/ ResetFunding \/ Wipe
        \/ Stop \/ \E super \in Ids \union {None}, token \in Tokens : SetEnv(super, token)

Spec == Init /\ [][Next]_vars

-----------------------------------------------------------------------------
Points == {"off", "stuck", "on", "migrate", "settings", "init", "renew", "cache", "super", "super again",
           "funding", "funding again", "token", "token again"}
Settings == [super : Ids \union {None}, funding : Fundings \union {Absent}, token : Tokens \union {Absent}]
TypeOK ==
    /\ srAt \in Points /\ srEnv \in [super : Ids \union {None}, token : Tokens]
    /\ srVersion \in 0..Last /\ srApplied \in 0..7 /\ srMissing \subseteq 1..Last
    /\ srRows \in Settings
    /\ srMemory \in [super : Ids \union {None}, funding : Fundings, token : Tokens, first : BOOLEAN]
    /\ srNew \in Ids \union {None} /\ srMade \in 0..MaxAccounts /\ srClaimed \subseteq Ids
    /\ srFile \in Ids \union {None} /\ srOwner \in Ids \union {None}
    /\ srTask \in [at : {"idle", "confirm", "edit", "load", "delete", "super", "funding"},
                   super : Ids \union {None}, funding : Fundings \union {Absent}, token : Tokens \union {Absent}]
    /\ srCut \in BOOLEAN /\ srWiped \in BOOLEAN /\ srRenewed \in BOOLEAN /\ srStops \in 0..MaxStops

(* A server that runs has the whole schema, unless it was stopped within a    *)
(* migration before; then one that passes over errors is recorded as done     *)
(* although it is not.                                                        *)
SchemaIsWhole == srAt = "on" => srVersion = Last /\ (srMissing # {} => srCut)

(* A server that ran starts again, unless it was stopped within a migration   *)
(* or while the settings were reset, or they were deleted behind it.          *)
StartsAgain == srAt = "stuck" => srCut \/ srWiped

(* Who has taken the superuser's account in the first installation stays the  *)
(* superuser, whatever is edited and reset, until the environment names       *)
(* another one or a new token.                                                *)
OwnerStays ==
    srAt = "on" /\ srOwner # None =>
        srMemory.super = srOwner /\ (srRows.super = srOwner \/ srTask.at = "super")

(* .super_user names the superuser, unless this start has replaced him: the   *)
(* file was written before.                                                   *)
FileNamesSuper == srAt = "on" /\ ~srRenewed => srFile = srMemory.super
=============================================================================
