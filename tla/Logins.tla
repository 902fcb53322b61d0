-------------------------------- MODULE Logins --------------------------------
(***************************************************************************)
(* Getting in (core/views/auth_api.py): logging in with a password, which  *)
(* failures slow down; the cookies of one browser while an administrator   *)
(* goes on as another user; and the first installation, which gives the    *)
(* superuser a password and closes the door behind it.  One account is     *)
(* guessed at; time is counted in initial cooldowns.                       *)
(***************************************************************************)
EXTENDS Integers

CONSTANTS Limit,     \* LOGIN_FAILURE_LIMIT, 5
          Installs   \* the requests that install, numbered

VARIABLES loFailures,  \* LoginFailureState: failures, or 0: no entry
          loBlocked,   \* time until blocked_until
          loKept,      \* time until the entry expires
          loGuesses,   \* history: wrong passwords tried so many units ago
          loAccess,    \* whose token is in cookie_access_token, or None
          loAdmin,     \* whose token is in admin_access_token, or None
          loStray,     \* history: the admin's token outlived a logout or a login
          loFirst,     \* settings.first_install
          loInstall,   \* where each installation is
          loInstalled, \* history: installations that were finished
          loRace       \* history: two installations overlapped

vars == <<loFailures, loBlocked, loKept, loGuesses, loAccess, loAdmin, loStray,
          loFirst, loInstall, loInstalled, loRace>>

Cap == 4       \* LOGIN_MAX_COOLDOWN_SECONDS, 15 times the initial cooldown
Window == 4    \* LOGIN_FAILURE_WINDOW_SECONDS, the same
Guesses == Limit + 2   \* and the cooldowns of 1 and 2 that end within a window
None == "none"
Users == {"user", "other"}

LoginConstants == Limit \in Nat \ {0}

Init ==
    /\ loFailures = 0 /\ loBlocked = 0 /\ loKept = 0 /\ loGuesses = [ago \in 0..(Window - 1) |-> 0]
    /\ loAccess = None /\ loAdmin = None /\ loStray = FALSE
    /\ loFirst = TRUE /\ loInstall = [i \in Installs |-> "idle"] /\ loInstalled = 0 /\ loRace = FALSE

throttleVars == <<loFailures, loBlocked, loKept, loGuesses>>
cookieVars == <<loAccess, loAdmin, loStray>>
installVars == <<loFirst, loInstall, loInstalled, loRace>>

(* _record_login_failure: from the limit on, each cooldown doubles the last.   *)
CooldownOnce(failures) == IF failures < Limit THEN 0 ELSE 1
Cooldown(failures) ==
    IF failures < Limit THEN 0
    ELSE LET doubled == 2 ^ (failures - Limit) IN IF doubled < Cap THEN doubled ELSE Cap

(* login: _check_login_throttle, and the password is wrong. *)
GuessWrong ==
    /\ loBlocked = 0
    /\ loFailures' = loFailures + 1 /\ loBlocked' = Cooldown(loFailures + 1) /\ loKept' = Window
    /\ loGuesses' = [loGuesses EXCEPT ![0] = @ + 1]
    /\ UNCHANGED <<cookieVars, installVars>>

(* The password is right: the entry is dropped, and the cookie is set.         *)
Login(who) ==
    /\ loBlocked = 0
    /\ loFailures' = 0 /\ loKept' = 0 /\ loGuesses' = [ago \in DOMAIN loGuesses |-> 0]
    /\ loAccess' = who /\ loStray' = (loStray \/ loAdmin # None)
    /\ UNCHANGED <<loBlocked, loAdmin, installVars>>

Less(time) == IF time = 0 THEN 0 ELSE time - 1
Tick ==
    /\ loBlocked' = Less(loBlocked) /\ loKept' = Less(loKept)
    /\ loFailures' = IF loKept <= 1 THEN 0 ELSE loFailures
    /\ loGuesses' = [ago \in DOMAIN loGuesses |-> IF ago = 0 THEN 0 ELSE loGuesses[ago - 1]]
    /\ UNCHANGED <<cookieVars, installVars>>

-----------------------------------------------------------------------------
(* impersonate_user: of a user, by an administrator, whose token is set aside. *)
ImpersonateAnyone(who) ==
    /\ loAccess # None /\ loAccess # who /\ who # "admin"
    /\ loAdmin' = loAccess /\ loAccess' = who
    /\ UNCHANGED <<loStray, throttleVars, installVars>>
Impersonate(who) ==
    /\ loAccess = "admin" /\ who # "admin"
    /\ loAdmin' = "admin" /\ loAccess' = who
    /\ UNCHANGED <<loStray, throttleVars, installVars>>

(* stop_impersonate_user: by whoever is logged in, if that user still exists.  *)
StopImpersonating ==
    /\ loAccess # None /\ loAdmin # None
    /\ loAccess' = loAdmin /\ loAdmin' = None /\ loStray' = FALSE
    /\ UNCHANGED <<throttleVars, installVars>>

(* logout leaves admin_access_token where it is. *)
Logout ==
    /\ loAccess' = None /\ loStray' = (loStray \/ loAdmin # None)
    /\ UNCHANGED <<loAdmin, throttleVars, installVars>>

-----------------------------------------------------------------------------
(* first_install: asked while settings.first_install; the superuser is read    *)
(* and written, the setting is cleared, and the token confirmed.               *)
InstallBegins(i) ==
    /\ loFirst /\ loInstall[i] = "idle" /\ \A j \in Installs : j < i => loInstall[j] # "idle"
    /\ loInstall' = [loInstall EXCEPT ![i] = "write"]
    /\ loRace' = (loRace \/ \E j \in Installs : loInstall[j] = "write")
    /\ UNCHANGED <<loFirst, loInstalled, throttleVars, cookieVars>>

InstallOpen(i) ==
    /\ loInstall[i] = "write" /\ loInstall' = [loInstall EXCEPT ![i] = "idle"]
    /\ loInstalled' = IF loInstalled < 2 THEN loInstalled + 1 ELSE 2
    /\ UNCHANGED <<loFirst, loRace, throttleVars, cookieVars>>
(* Or the name is taken, or the superuser is not found. *)
Install(i) ==
    /\ loInstall[i] = "write" /\ loInstall' = [loInstall EXCEPT ![i] = "idle"]
    /\ \/ loInstalled' = loInstalled + 1 /\ loFirst' = FALSE
       \/ UNCHANGED <<loInstalled, loFirst>>
    /\ UNCHANGED <<loRace, throttleVars, cookieVars>>

Next ==
    \/ GuessWrong \/ Tick \/ (\E who \in Users \union {"admin"} : Login(who))
    \/ (\E who \in Users : Impersonate(who)) \/ StopImpersonating \/ Logout
    \/ \E i \in Installs : InstallBegins(i) \/ Install(i)

Spec == Init /\ [][Next]_vars

-----------------------------------------------------------------------------
TypeOK ==
    /\ loFailures \in Nat /\ loBlocked \in 0..Cap /\ loKept \in 0..Window
    /\ loGuesses \in [0..(Window - 1) -> Nat]
    /\ {loAccess, loAdmin} \subseteq Users \union {None, "admin"} /\ loStray \in BOOLEAN
    /\ loFirst \in BOOLEAN /\ loRace \in BOOLEAN
    /\ loInstall \in [Installs -> {"idle", "write"}] /\ loInstalled \in Nat

(* No more wrong passwords are tried within a window than the limit and the    *)
(* cooldowns that end in it, though the entry that counts them is forgotten    *)
(* when its window ends, with a cooldown still running or not.                 *)
GuessesAreLimited == loGuesses[0] + loGuesses[1] + loGuesses[2] + loGuesses[3] <= Guesses

(* A token is set aside only for an administrator, while he goes on as a user; *)
(* or he logged out or in meanwhile, which leaves it there.                    *)
AdminIsSetAside == loAdmin # None => loAdmin = "admin" /\ (loAccess \in Users \/ loStray)

(* The first installation is done once, unless two overlapped. *)
InstalledOnce == loInstalled > 1 => loRace
=============================================================================
