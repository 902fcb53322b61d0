------------------------------- MODULE Sessions -------------------------------
(***************************************************************************)
(* How long a token opens an account (decorators.py 232-580,               *)
(* core/crud/users.py, auth_api.py 279-398).  An access token is resolved  *)
(* in the database and the account's id is cached for it; an API token is  *)
(* looked for in the account's access control list each time.  One         *)
(* account, an access token of it and an API token.                        *)
(***************************************************************************)
EXTENDS Integers

CONSTANTS Expiry,     \* auth_authentication_cache_minutes
          MaxEdits    \* bound: the requests on the list at a time

VARIABLES ssState,    \* the account: "active", "inactive" or "deleted"
          ssAge,      \* age of the cache entry of each token, or Absent
          ssIndex,    \* the token in auth:user:cache_key:<id>, or None
          ssCheck,    \* the request being checked: [at, token]
          ssChange,   \* the administrator's request: [at, to]
          ssLapsed,   \* history: time since the account was last active
          ssServed,   \* history: that time when a request was last let through
          ssListed,   \* the API token is in the account's access control list
          ssEdit,     \* the requests that write the list: [at, listed, op, stale]
          ssWanted,   \* history: the API token was last created, not deleted
          ssOpened,   \* history: a deleted API token was let through
          ssLost      \* history: an edit of the list was written over

vars == <<ssState, ssAge, ssIndex, ssCheck, ssChange, ssLapsed, ssServed,
          ssListed, ssEdit, ssWanted, ssOpened, ssLost>>

Tokens == {"session", "api"}
Edits == 1..MaxEdits
None == "none"
Absent == -1
SessionConstants == Expiry \in Nat \ {0} /\ MaxEdits \in Nat
Forgotten == Expiry + 2   \* bound: longer is not told apart
Idle == [at |-> "idle", token |-> None]
NoChange == [at |-> "idle", to |-> "active"]
NoEdit == [at |-> "idle", listed |-> FALSE, op |-> None, stale |-> FALSE]

Init ==
    /\ ssState = "active" /\ ssAge = [t \in Tokens |-> Absent] /\ ssIndex = None
    /\ ssCheck = Idle /\ ssChange = NoChange /\ ssLapsed = 0 /\ ssServed = 0
    /\ ssListed = TRUE /\ ssEdit = [e \in Edits |-> NoEdit]
    /\ ssWanted = TRUE /\ ssOpened = FALSE /\ ssLost = FALSE

accountVars == <<ssState, ssChange, ssLapsed>>
cacheVars == <<ssAge, ssIndex>>
listVars == <<ssListed, ssEdit, ssWanted, ssLost>>
servedVars == <<ssServed, ssOpened>>

(* _check_account_api_access: the list of an account that is active.          *)
ListedOrCached(token) == token = "api" => ssListed \/ ssAge["api"] # Absent
Listed(token) == token = "api" => ssListed /\ ssState = "active"

Cached(token) == ssAge[token] \in 0..(Expiry - 1)

(* check_account_id_exists: what is cached is let through, once an API token   *)
(* is found in its list; or _get_account_from_jwt_payload finds the account.   *)
CheckBegins(token) ==
    /\ ssCheck = Idle
    /\ IF Cached(token)
       THEN Listed(token) /\ ssServed' = ssLapsed /\ UNCHANGED ssCheck
       ELSE /\ ssState = "active" /\ Listed(token)
            /\ ssCheck' = [at |-> "cache", token |-> token] /\ UNCHANGED ssServed
    /\ ssOpened' = (ssOpened \/ (token = "api" /\ ~ssWanted))
    /\ UNCHANGED <<accountVars, cacheVars, listVars>>

(* The entry of the token, and the account's entry, of this token alone.       *)
CheckCaches ==
    /\ ssCheck.at = "cache" /\ ssCheck' = Idle /\ ssServed' = ssLapsed
    /\ ssAge' = [ssAge EXCEPT ![ssCheck.token] = 0] /\ ssIndex' = ssCheck.token
    /\ UNCHANGED <<accountVars, listVars, ssOpened>>

-----------------------------------------------------------------------------
(* api_users_toggle_activated and api_users_delete_user write first.           *)
ChangeBegins(to) ==
    /\ ssChange.at = "idle" /\ ssState # "deleted"
    /\ to = "deleted" \/ to = IF ssState = "active" THEN "inactive" ELSE "active"
    /\ ssChange' = [at |-> "write", to |-> to]
    /\ UNCHANGED <<ssState, ssLapsed, cacheVars, listVars, servedVars, ssCheck>>

ChangeWrites ==
    /\ ssChange.at = "write" /\ ssState' = ssChange.to
    /\ ssChange' = [ssChange EXCEPT !.at = "clear"]
    /\ ssLapsed' = IF ssChange.to = "active" THEN 0 ELSE ssLapsed
    /\ UNCHANGED <<cacheVars, listVars, servedVars, ssCheck>>

(* clear_user_id_cache looks for the user among the active: the entry of the   *)
(* token cached last is dropped when the account was activated, and only then. *)
ChangeClears ==
    /\ ssChange.at = "clear" /\ ssChange' = NoChange
    /\ IF ssState = "active" /\ ssIndex # None
       THEN ssAge' = [ssAge EXCEPT ![ssIndex] = Absent] /\ ssIndex' = None
       ELSE UNCHANGED cacheVars
    /\ UNCHANGED <<ssState, ssLapsed, listVars, servedVars, ssCheck>>

(* The entry auth:user:cache_key is kept for ten seconds.                      *)
IndexLapses ==
    /\ ssIndex # None /\ ssIndex' = None
    /\ UNCHANGED <<ssAge, accountVars, listVars, servedVars, ssCheck>>

Tick ==
    /\ ssCheck = Idle
    /\ ssAge' = [t \in Tokens |-> IF Cached(t) THEN ssAge[t] + 1 ELSE ssAge[t]] /\ ssIndex' = None
    /\ ssLapsed' = (IF ssState = "active" \/ ssLapsed = Forgotten THEN ssLapsed ELSE ssLapsed + 1)
    /\ UNCHANGED <<ssState, ssChange, listVars, servedVars, ssCheck>>

Invalidate ==
    /\ \E t \in Tokens : ssAge[t] = Expiry
    /\ ssAge' = [t \in Tokens |-> IF Cached(t) THEN ssAge[t] ELSE Absent]
    /\ UNCHANGED <<ssIndex, accountVars, listVars, servedVars, ssCheck>>

-----------------------------------------------------------------------------
(* The requests on the list read all of it and write all of it: a token is     *)
(* created or deleted, another list is edited or deleted.                      *)
EditReads(e, op) ==
    /\ ssState = "active" /\ ssEdit[e] = NoEdit /\ \A d \in Edits : d < e => ssEdit[d] # NoEdit
    /\ ssEdit' = [ssEdit EXCEPT ![e] = [at |-> "write", op |-> op, stale |-> FALSE,
                    listed |-> CASE op = "create" -> TRUE [] op = "delete" -> FALSE
                                 [] OTHER -> ssListed]]
    /\ UNCHANGED <<ssListed, ssWanted, ssLost, accountVars, cacheVars, servedVars, ssCheck>>

(* update_user_access_control_list: an UPDATE of the list's column alone.      *)
EditWrites(e) ==
    /\ ssEdit[e].at = "write" /\ ssLost' = (ssLost \/ ssEdit[e].stale)
    /\ ssListed' = ssEdit[e].listed
    /\ ssWanted' = (IF ssEdit[e].op = "other" THEN ssWanted ELSE ssEdit[e].op = "create")
    /\ ssEdit' = [d \in Edits |-> IF d = e THEN NoEdit
                                  ELSE IF ssEdit[d] = NoEdit THEN NoEdit
                                  ELSE [ssEdit[d] EXCEPT !.stale = TRUE]]
    /\ UNCHANGED <<accountVars, cacheVars, servedVars, ssCheck>>

Steps ==
    \/ \E token \in Tokens : CheckBegins(token)
    \/ CheckCaches \/ (\E to \in {"active", "inactive", "deleted"} : ChangeBegins(to))
    \/ ChangeWrites \/ ChangeClears \/ IndexLapses \/ Tick \/ Invalidate
    \/ \E e \in Edits : EditWrites(e) \/ \E op \in {"create", "delete", "other"} : EditReads(e, op)

Next == ~ssLost /\ Steps   \* bound: a behaviour is followed until a list is written over

Spec == Init /\ [][Next]_vars

-----------------------------------------------------------------------------
Works == [at : {"idle", "write"}, listed : BOOLEAN,
          op : {None, "create", "delete", "other"}, stale : BOOLEAN]
TypeOK ==
    /\ ssState \in {"active", "inactive", "deleted"} /\ ssListed \in BOOLEAN
    /\ ssAge \in [Tokens -> Absent..Expiry] /\ ssIndex \in Tokens \union {None}
    /\ ssCheck \in [at : {"idle", "cache"}, token : Tokens \union {None}]
    /\ ssChange \in [at : {"idle", "write", "clear"}, to : {"active", "inactive", "deleted"}]
    /\ ssLapsed \in 0..Forgotten /\ ssServed \in 0..Forgotten
    /\ ssEdit \in [Edits -> Works]
    /\ ssWanted \in BOOLEAN /\ ssOpened \in BOOLEAN /\ ssLost \in BOOLEAN

(* An account that is deactivated or deleted is opened by a token that is      *)
(* cached, which nothing clears, but for no longer than the cache keeps it.    *)
SessionsEnd == ssServed < Expiry

(* An API token that was deleted opens nothing, cached or not, unless a        *)
(* request that had read the list before wrote it back.                        *)
DeletedTokensAreRefused == ssOpened => ssLost
=============================================================================
