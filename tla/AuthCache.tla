------------------------------ MODULE AuthCache ------------------------------
(***************************************************************************)
(* The cache of the key checks (decorators.py, utils/cache.py).  A check   *)
(* that misses reads the wallet under the database lock and caches what it *)
(* has found after releasing it; deleting a wallet and resetting its keys  *)
(* clear the cache first and write the database afterwards.  One wallet,   *)
(* the key it begins with and the one it is reset to.                      *)
(***************************************************************************)
EXTENDS Integers

CONSTANT Expiry   \* auth_authentication_cache_minutes

VARIABLES acKey,      \* the key in the wallet's row, or None: deleted
          acAge,      \* age of the cache entry of each key, or Absent
          acIndex,    \* the key in the entry auth:wallet:<id>, or None
          acCheck,    \* the request being checked: [at, key]
          acChange,   \* the operation on the wallet: [at, key]
          acLapsed,   \* history: time since each key was last valid
          acServed    \* history: that time when a request was last let through

vars == <<acKey, acAge, acIndex, acCheck, acChange, acLapsed, acServed>>

Keys == {"first", "second"}
None == "none"
Absent == -1
CacheConstants == Expiry \in Nat \ {0}
Forgotten == Expiry + 3   \* bound: longer is not told apart
Idle == [at |-> "idle", key |-> None]

Init ==
    /\ acKey = "first" /\ acAge = [k \in Keys |-> Absent] /\ acIndex = None
    /\ acCheck = Idle /\ acChange = Idle
    /\ acLapsed = [k \in Keys |-> IF k = "first" THEN 0 ELSE Forgotten] /\ acServed = 0

Kept(k) == acAge[k] # Absent
Cached(k) == acAge[k] \in 0..(Expiry - 1)

(* Cache.get *)
HitAny(k) == Kept(k)
Hit(k) == Cached(k)

(* LightKeyChecker: a request with key k is served from the cache, or goes on *)
(* to the database.                                                           *)
CheckBegins(k) ==
    /\ acCheck = Idle
    /\ IF Hit(k)
       THEN acServed' = acLapsed[k] /\ UNCHANGED acCheck
       ELSE acCheck' = [at |-> "read", key |-> k] /\ UNCHANGED acServed
    /\ UNCHANGED <<acKey, acAge, acIndex, acChange, acLapsed>>

(* get_base_wallet_for_key *)
CheckReads ==
    /\ acCheck.at = "read"
    /\ acCheck' = (IF acCheck.key = acKey THEN [acCheck EXCEPT !.at = "cache"] ELSE Idle)
    /\ UNCHANGED <<acKey, acAge, acIndex, acChange, acLapsed, acServed>>

CheckCaches ==
    /\ acCheck.at = "cache" /\ acCheck' = Idle
    /\ acAge' = [acAge EXCEPT ![acCheck.key] = 0] /\ acIndex' = acCheck.key
    /\ acServed' = acLapsed[acCheck.key]
    /\ UNCHANGED <<acKey, acChange, acLapsed>>

-----------------------------------------------------------------------------
Cleared(ks) == [k \in Keys |-> IF k \in ks THEN Absent ELSE acAge[k]]

(* api_reset_wallet_keys clears the entries of the keys it has read, and      *)
(* delete_wallet those of the keys in auth:wallet:<id>.                       *)
ChangeBegins(op) ==
    /\ acChange = Idle /\ acKey # None
    /\ op = "reset" => acKey = "first"
    /\ acChange' = [at |-> op, key |-> IF op = "reset" THEN "second" ELSE None]
    /\ acAge' = Cleared(IF op = "reset" THEN {acKey} ELSE {acIndex}) /\ acIndex' = None
    /\ UNCHANGED <<acKey, acCheck, acLapsed, acServed>>

ChangeWrites ==
    /\ acChange.at # "idle" /\ acChange' = Idle /\ acKey' = acChange.key
    /\ acLapsed' = [k \in Keys |-> IF k = acChange.key THEN 0 ELSE acLapsed[k]]
    /\ UNCHANGED <<acAge, acIndex, acCheck, acServed>>

(* Time passes, a request being answered within it; invalidate_cache removes  *)
(* what has expired.                                                          *)
Tick ==
    /\ acCheck.at # "cache"
    /\ acAge' = [k \in Keys |-> IF Cached(k) THEN acAge[k] + 1 ELSE acAge[k]]
    /\ acLapsed' = [k \in Keys |->
                      IF k = acKey \/ acLapsed[k] = Forgotten THEN acLapsed[k] ELSE acLapsed[k] + 1]
    /\ UNCHANGED <<acKey, acIndex, acCheck, acChange, acServed>>

Invalidate ==
    /\ \E k \in Keys : Kept(k) /\ ~Cached(k)
    /\ acAge' = Cleared({k \in Keys : ~Cached(k)})
    /\ UNCHANGED <<acKey, acIndex, acCheck, acChange, acLapsed, acServed>>

Next == \/ \E k \in Keys : CheckBegins(k)
        \/ CheckReads \/ CheckCaches
        \/ \E op \in {"reset", "delete"} : ChangeBegins(op)
        \/ ChangeWrites \/ Tick \/ Invalidate

Spec == Init /\ [][Next]_vars

-----------------------------------------------------------------------------
TypeOK ==
    /\ acKey \in Keys \union {None} /\ acIndex \in Keys \union {None}
    /\ acAge \in [Keys -> Absent..Expiry] /\ acLapsed \in [Keys -> 0..Forgotten]
    /\ acServed \in 0..Forgotten
    /\ acCheck \in [at : {"idle", "read", "cache"}, key : Keys \union {None}]
    /\ acChange \in [at : {"idle", "reset", "delete"}, key : Keys \union {None}]

(* A request may be let through with a key that has been reset, or whose      *)
(* wallet is deleted: the check in flight caches it again after the clearing, *)
(* and may point auth:wallet:<id> at the old key.  But never for longer than  *)
(* the cache keeps an entry.                                                  *)
StaleKeyExpires == acServed < Expiry
=============================================================================
