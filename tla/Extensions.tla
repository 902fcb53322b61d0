----------------------------- MODULE Extensions -----------------------------
(***************************************************************************)
(* Installing, activating and restoring a Python extension                 *)
(* (core/services/extensions.py, core/views/extension_api.py, app.py): its *)
(* archive and its directory, its row, its schema with the version kept in *)
(* dbversions, and in memory the modules Python has cached, the routes and *)
(* the set of what is deactivated.  Release v has the migrations 1 to v; 0 *)
(* stands for none.  One administrator's request at a time.                *)
(***************************************************************************)
EXTENDS Integers

CONSTANT MaxRelease  \* the newest release of the catalog

ExtensionConstants == MaxRelease \in Nat \ {0}

VARIABLES exZip,      \* the release in the archive
          exFiles,    \* the release in the directory
          exRow,      \* installed_extensions: [version, active]
          exSchema,   \* the last migration that was run
          exVersion,  \* the version in dbversions
          exCached,   \* the release of the cached module of migrations
          exServed,   \* the release of the routes
          exOff,      \* it is in lnbits_deactivated_extensions
          exOp,       \* what is being done: [at, to, next, boot]
          exFailed    \* history: a start failed to migrate or restore, or migrations of
                      \* another release were run, and this is not made good

vars == <<exZip, exFiles, exRow, exSchema, exVersion, exCached, exServed, exOff, exOp, exFailed>>
disk == <<exZip, exFiles>>
db == <<exSchema, exVersion>>
memory == <<exCached, exServed, exOff>>

Releases == 1..MaxRelease
None == [version |-> 0, active |-> FALSE]
Idle == [at |-> "idle", to |-> 0, next |-> 0, boot |-> FALSE]
Op(at, to, boot) == [at |-> at, to |-> to, next |-> 0, boot |-> boot]
Go(at) == exOp' = [exOp EXCEPT !.at = at]
Is(at) == exOp.at = at

Init ==
    /\ exZip = 0 /\ exFiles = 0 /\ exRow = None /\ exSchema = 0 /\ exVersion = 0
    /\ exCached = 0 /\ exServed = 0 /\ exOff = FALSE /\ exOp = Idle /\ exFailed = FALSE

-----------------------------------------------------------------------------
(* install_extension: download_archive removes the archive first. *)
Install(v) ==
    /\ exOp = Idle /\ exOp' = Op("fetch", v, FALSE) /\ exZip' = 0
    /\ UNCHANGED <<exFiles, exRow, db, memory, exFailed>>

(* download_archive, then extract_archive.  When they fail, or what follows,  *)
(* api_install_extension removes the archive and the directory; of an archive *)
(* that validate_archive refuses, only the archive.                           *)
Clean == exZip' = 0 /\ exFiles' = 0 /\ exOp' = Idle
Fetch ==
    /\ Is("fetch")
    /\ \/ exZip' = exOp.to /\ exFiles' = exOp.to /\ Go("import")
       \/ Clean
       \/ exZip' = 0 /\ exOp' = Idle /\ UNCHANGED exFiles
    /\ UNCHANGED <<exRow, db, memory, exFailed>>

(* migrate_py_extension_database: the module of migrations is imported unless *)
(* Python has it; it runs from the version that was read.                     *)
Import == exCached' = (IF exCached = 0 THEN exFiles ELSE exCached)
MigrationsBegin ==
    /\ Is("import")
    /\ IF exFiles = 0 /\ exCached = 0
       THEN UNCHANGED exCached /\ Go("check")
       ELSE Import /\ exOp' = [exOp EXCEPT !.at = "run", !.next = exVersion + 1]
    /\ exFailed' = (exFailed \/ (exCached \notin {0, exFiles}))
    /\ UNCHANGED <<disk, exRow, db, exServed, exOff>>

(* A migration that fails, or that was run already, ends an install and its   *)
(* files; at the start it is logged, or deactivates what was being restored.  *)
MigrationFails ==
    /\ exOp.at \in {"run", "rerun"} /\ exOp.next <= exCached
    /\ CASE Is("rerun") -> Go("off") /\ exOff' = TRUE /\ exFailed' = TRUE /\ UNCHANGED disk
         [] exOp.boot /\ Is("run") -> Go("check") /\ exFailed' = TRUE /\ UNCHANGED <<disk, exOff>>
         [] OTHER -> Clean /\ UNCHANGED <<exFailed, exOff>>
    /\ UNCHANGED <<exRow, db, exCached, exServed>>

(* run_migration: each is run, and then its version written; the two are not  *)
(* one transaction.                                                           *)
MigrationRuns ==
    /\ exOp.at \in {"run", "rerun"} /\ exOp.next <= exCached /\ exOp.next > exSchema
    /\ exSchema' = exOp.next /\ Go(IF Is("run") THEN "save" ELSE "resave")
    /\ UNCHANGED <<disk, exRow, exVersion, memory, exFailed>>

MigrationSaves ==
    /\ exOp.at \in {"save", "resave"} /\ exVersion' = exOp.next
    /\ exOp' = [exOp EXCEPT !.at = IF Is("save") THEN "run" ELSE "rerun", !.next = @ + 1]
    /\ UNCHANGED <<disk, exRow, exSchema, memory, exFailed>>

MigrationsEnd ==
    /\ Is("run") /\ exOp.next > exCached /\ Go(IF exOp.boot THEN "check" ELSE "row")
    /\ UNCHANGED <<disk, exRow, db, memory, exFailed>>

(* create_installed_extension, update_installed_extension: not active yet. *)
WriteRow ==
    /\ Is("row") /\ exRow' = [version |-> exOp.to, active |-> FALSE] /\ Go("activate")
    /\ UNCHANGED <<disk, db, memory, exFailed>>

-----------------------------------------------------------------------------
(* register_ext_routes: the cached modules are dropped, and the package of    *)
(* the directory imported, which may fail.                                    *)
Registers ==
    /\ exFiles # 0 /\ exCached' = 0 /\ exServed' = exFiles /\ exOff' = FALSE
    /\ exFailed' = (exFailed /\ exFiles > exSchema)
Fails == exCached' = 0 /\ UNCHANGED <<exServed, exFailed>>

(* activate_extension; when it fails, deactivate_extension. *)
Activate ==
    /\ Is("activate")
    /\ \/ Registers /\ Go("on")
       \/ Fails /\ exOff' = TRUE /\ Go("off")
    /\ UNCHANGED <<disk, exRow, db>>

SetActive(active) == exRow' = [exRow EXCEPT !.active = active]
Activated == Is("on") /\ SetActive(TRUE) /\ exOp' = Idle /\ UNCHANGED <<disk, db, memory, exFailed>>
Deactivated ==
    /\ Is("off") /\ SetActive(FALSE) /\ IF exOp.boot THEN Go("register") ELSE exOp' = Idle
    /\ UNCHANGED <<disk, db, memory, exFailed>>

ApiActivate ==
    /\ exOp = Idle /\ exRow # None /\ exOp' = Op("activate", 0, FALSE)
    /\ UNCHANGED <<disk, exRow, db, memory, exFailed>>
ApiDeactivate ==
    /\ exOp = Idle /\ exRow # None /\ exOff' = TRUE /\ exOp' = Op("off", 0, FALSE)
    /\ UNCHANGED <<disk, exRow, db, exCached, exServed, exFailed>>

(* uninstall_extension: the schema stays, and so do the cached modules. *)
Uninstall ==
    /\ exOp = Idle /\ exRow # None /\ exOff' = TRUE /\ exOp' = Op("delete", 0, FALSE)
    /\ exZip' = 0 /\ exFiles' = 0
    /\ UNCHANGED <<exRow, db, exCached, exServed, exFailed>>
DeleteRow ==
    /\ Is("delete") /\ exRow' = None /\ exOp' = Idle
    /\ UNCHANGED <<disk, db, memory, exFailed>>

-----------------------------------------------------------------------------
(* The process ends; a container that is made anew has lost the directory.    *)
(* load_disabled_extension_list, then migrate_databases.                      *)
Crash ==
    /\ exFiles' \in {exFiles, 0} /\ exCached' = 0 /\ exServed' = 0
    /\ exOff' = (exRow # None /\ ~exRow.active)
    /\ exOp' = Op(IF exRow = None THEN "check" ELSE "import", 0, TRUE)
    /\ UNCHANGED <<exZip, exRow, db, exFailed>>

(* build_all_installed_extensions_list: a directory without a row gets one. *)
Adopt ==
    /\ Is("check") /\ exRow = None /\ exFiles # 0
    /\ exRow' = [version |-> exFiles, active |-> TRUE] /\ Go("import")
    /\ UNCHANGED <<disk, db, memory, exFailed>>

(* lnbits_extensions_default_install: what has neither row nor directory may   *)
(* be one to restore, in its newest release.                                   *)
Newest == MaxRelease

(* check_installed_extension_files and restore_installed_extension, unless    *)
(* the extension is deactivated: the archive there is, or a download of the   *)
(* release in the row; it is registered before it is migrated.  Without a row  *)
(* nothing is made active: the next start adopts the directory.                *)
Missing == exFiles = 0 /\ ~exOff
CheckFiles ==
    /\ Is("check") /\ IF exRow = None THEN exFiles = 0 ELSE ~Missing
    /\ Go("register")
    /\ UNCHANGED <<disk, exRow, db, memory, exFailed>>
Archived == IF exZip # 0 THEN exZip ELSE IF exRow = None THEN Newest ELSE exRow.version
Extract == exZip' = Archived /\ exFiles' = Archived
Restore ==
    /\ Is("check") /\ Missing /\ Extract
    /\ exServed' = Archived /\ exCached' = Archived /\ exOff' = FALSE
    /\ exRow' = (IF exRow = None THEN None ELSE [exRow EXCEPT !.active = TRUE])
    /\ exOp' = [exOp EXCEPT !.at = "rerun", !.next = exVersion + 1]
    /\ UNCHANGED <<db, exFailed>>
RestoreFails ==
    /\ Is("check") /\ Missing
    /\ \/ UNCHANGED <<disk, exFailed>>
       \/ Extract /\ exFailed' = TRUE
    /\ exOff' = TRUE /\ Go("off")
    /\ UNCHANGED <<exRow, db, exCached, exServed>>
Restored ==
    /\ Is("rerun") /\ exOp.next > exCached /\ Go("register")
    /\ UNCHANGED <<disk, exRow, db, memory, exFailed>>

(* check_and_register_extensions: what cannot be imported is not active. *)
RegisterLeft == UNCHANGED exRow
RegisterFailed == exRow' = [exRow EXCEPT !.active = FALSE]
Register ==
    /\ Is("register") /\ exOp' = Idle
    /\ IF exRow = None \/ exOff THEN UNCHANGED <<exRow, memory, exFailed>>
       ELSE \/ Registers /\ UNCHANGED exRow
            \/ Fails /\ RegisterFailed /\ UNCHANGED exOff
    /\ UNCHANGED <<disk, db>>

Next ==
    \/ \E v \in Releases : Install(v)
    \/ Fetch \/ MigrationsBegin \/ MigrationFails \/ MigrationRuns \/ MigrationSaves \/ MigrationsEnd
    \/ WriteRow \/ Activate \/ Activated \/ Deactivated
    \/ ApiActivate \/ ApiDeactivate \/ Uninstall \/ DeleteRow
    \/ Crash \/ Adopt \/ CheckFiles \/ Restore \/ RestoreFails \/ Restored \/ Register

Spec == Init /\ [][Next]_vars

-----------------------------------------------------------------------------
Stages == {"idle", "fetch", "import", "run", "save", "row", "activate", "on", "off", "delete",
           "check", "rerun", "resave", "register"}
TypeOK ==
    /\ {exZip, exFiles, exSchema, exVersion, exCached, exServed} \subseteq 0..MaxRelease
    /\ exRow \in [version : 0..MaxRelease, active : BOOLEAN]
    /\ exOff \in BOOLEAN /\ exFailed \in BOOLEAN
    /\ exOp \in [at : Stages, to : 0..MaxRelease, next : 0..(MaxRelease + 1), boot : BOOLEAN]

(* When the server runs, an extension that its row calls active is answered,  *)
(* and the code that answers has had its migrations: unless the start has     *)
(* logged that one failed, or they were those of a cached release.            *)
Answers == exServed # 0 /\ ~exOff
ActiveIsServed ==
    ~exOp.boot \/ exOp = Idle =>
        /\ exOp.at \in {"idle", "fetch", "import", "run"} /\ exRow.active => Answers
        /\ Answers => exServed <= exSchema \/ exFailed
=============================================================================
