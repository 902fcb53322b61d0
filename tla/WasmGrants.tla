----------------------------- MODULE WasmGrants -----------------------------
(* What an administrator may grant a WASM extension and what its host then
   lets the guest do: api/permissions.py reads the policies of a request and
   of a grant to see that the grant is no broader; api/host.py and client/*.py
   read the granted policies again, with rules of their own, at each call.
   One permission of one extension; a policy is an entry of a list somebody
   else wrote, so entries may be malformed (Junk) and come twice.             *)
EXTENDS Integers, Sequences, FiniteSets, SequencesExt

CONSTANTS Junk,         \* an entry of the wrong type; in a field, a value of the wrong type
          NoValue,      \* no value
          Entries,      \* for every policy-aware permission: the entries a list may have
          MaxEntries,   \* bound on the length of a list of policies
          Origins, Targets, Tables, Fields,  \* hosts, extensions, tables, columns
          RowsDefault,  \* 10_000 in the code; at most RowsLimit
          RowsLimit,    \* 1_000_000 in the code
          RateLimit     \* 100 in the code

BadUrl == "bad url"   \* a host that is text but no https origin
NoText == ""          \* an empty string

(* The permissions with policies, and the code's limits.                      *)
GrantConstants ==
    /\ DOMAIN Entries \subseteq
          {"http.request", "extension.api.request", "ext.storage.read_public",
           "ext.storage.append_public", "wallet.create_invoice_public", "websocket.publish"}
    /\ {MaxEntries, RowsLimit, RateLimit} \subseteq Nat
    /\ Junk \notin Nat

VARIABLES permission,  \* the permission looked at
          requested,   \* the policies in the extension's config.json
          granted,     \* the policies the administrator granted, or NoValue
          overridden,  \* the grant was accepted with the administrator's overrides
          served       \* what the host let the guest do last, or NoValue

vars == <<permission, requested, granted, overridden, served>>

Lists(p) == UNION {[1..n -> Entries[p]] : n \in 0..MaxEntries}
EntriesOf(list) == ToSet(list) \ {Junk}
First(list, Is(_)) == list[Min({i \in DOMAIN list : Is(list[i])})]
Some(list, Is(_)) == \E i \in DOMAIN list : Is(list[i])
----------------------------------------------------------------------------
(* Reading of a grant and of a request when they are compared.               *)

HttpOrigins(list) == EntriesOf(list) \cap Origins
HttpIsSubset(req, gra) == HttpOrigins(gra) \subseteq HttpOrigins(req)

(* The first entry of an extension that leaves it any access counts.         *)
HasAccess(e) == e # Junk /\ e.access # Junk /\ e.access # {}
ApiAccess(list, t) ==
    LET Is(e) == HasAccess(e) /\ e.id = t
    IN IF Some(list, Is) THEN First(list, Is).access ELSE {}
ApiIsSubset(req, gra) ==
    \A t \in Targets : ApiAccess(gra, t) \subseteq ApiAccess(req, t)

(* The first entry of a table that is well formed and has a field.           *)
ReadTable(list, t) ==
    LET Is(e) == /\ e # Junk /\ e.table = t /\ e.source # Junk
                 /\ e.fields # Junk /\ e.fields \ {Junk} # {}
    IN IF Some(list, Is) THEN {First(list, Is)} ELSE {}
ReadIsSubset(req, gra) ==
    \A t \in Tables : \A g \in ReadTable(gra, t) :
        \E r \in ReadTable(req, t) :
            /\ g.fields \ {Junk} \subseteq r.fields \ {Junk}
            /\ r.source = NoValue \/ g.source = r.source

(* Malformed entries are left out; of two entries of one target the last
   counts; a missing limit is the default.                                    *)
MaxRows(e) == IF e.max = NoValue THEN RowsDefault ELSE e.max
IsAppend(e) ==
    /\ e # Junk /\ e.by # "id"
    /\ MaxRows(e) \in 1..RowsLimit
    /\ e.by \notin e.fields /\ "id" \notin e.fields
AppendTargets(list) ==
    {<<list[i].table, list[i].source, list[i].by>> : i \in {j \in DOMAIN list : IsAppend(list[j])}}
AppendPolicies(list, target) ==
    {i \in DOMAIN list : IsAppend(list[i])
                          /\ <<list[i].table, list[i].source, list[i].by>> = target}
AppendPolicy(list, target) == list[Max(AppendPolicies(list, target))]
AppendIsSubset(req, gra, override) ==
    /\ Cardinality(AppendTargets(gra)) = Len(gra)
    /\ AppendTargets(gra) \subseteq AppendTargets(req)
    /\ \A target \in AppendTargets(gra) :
         LET g == AppendPolicy(gra, target)
             r == AppendPolicy(req, target)
         IN /\ g.fields \ {Junk} \subseteq r.fields \ {Junk}
            /\ override \/ MaxRows(g) <= MaxRows(r)

InvoiceSources(list) == EntriesOf(list)
InvoiceIsSubset(req, gra) == InvoiceSources(gra) \subseteq InvoiceSources(req)

PublishRate(list) ==
    IF Len(list) = 1 /\ list[1] \in 1..RateLimit THEN list[1] ELSE 0
PublishIsSubset(req, gra, override) ==
    /\ PublishRate(req) > 0 /\ PublishRate(gra) > 0
    /\ override \/ PublishRate(gra) <= PublishRate(req)

AnyGrant(req, gra, override) == TRUE

GrantIsSubset(req, gra, override) ==
    CASE permission = "http.request" -> HttpIsSubset(req, gra)
      [] permission = "extension.api.request" -> ApiIsSubset(req, gra)
      [] permission = "ext.storage.read_public" -> ReadIsSubset(req, gra)
      [] permission = "ext.storage.append_public" -> AppendIsSubset(req, gra, override)
      [] permission = "wallet.create_invoice_public" -> InvoiceIsSubset(req, gra)
      [] permission = "websocket.publish" -> PublishIsSubset(req, gra, override)
----------------------------------------------------------------------------
(* Reading of the granted policies by the host, at each call of the guest.   *)

(* One malformed address refuses every request.                              *)
HttpAllows(list, origin) ==
    /\ BadUrl \notin EntriesOf(list)
    /\ origin \in EntriesOf(list)

(* The first entry of the target decides; an entry that has an extension but
   no list of accesses refuses whatever comes after it.                       *)
ApiAllows(list, ask) ==
    LET Stops(e) == e # Junk /\ (e.access = Junk \/ e.id = ask.id)
    IN /\ Some(list, Stops)
       /\ First(list, Stops).access # Junk
       /\ ask.access \in First(list, Stops).access

(* The first entry of the table decides, a malformed one to refuse; a page of
   rows takes the column of the source too.                                   *)
ReadAllows(list, ask) ==
    LET Is(e) == e # Junk /\ e.table = ask.table
        e == First(list, Is)
    IN /\ Some(list, Is)
       /\ e.fields # Junk /\ e.source # Junk
       /\ Junk \notin e.fields /\ ask.field \in e.fields
       /\ ask.page => e.source # NoValue

(* The entries are normalised one by one up to the one of the table that finds
   a row with the id of the source in its source table; the first malformed one
   refuses the call, which must leave room for a row.                         *)
AppendAllows(list, ask) ==
    LET Normal(e) == /\ e # Junk /\ e.by # "id" /\ MaxRows(e) > 0
                     /\ Junk \notin e.fields /\ "id" \notin e.fields
                     /\ e.by \notin e.fields
        Stops(e) == ~Normal(e) \/ (e.table = ask.table /\ e.source \in ask.sources)
        e == First(list, Stops)
    IN /\ Some(list, Stops) /\ Normal(e)
       /\ ask.field \in e.fields
       /\ ask.rows < MaxRows(e)

(* Any malformed entry refuses the call; the entries are tried in turn.      *)
InvoiceAllows(list, ask) ==
    /\ \A i \in DOMAIN list : list[i] # Junk /\ list[i].wallet # NoText
    /\ ask \in EntriesOf(list)

PublishAllows(list, rate) ==
    Len(list) = 1 /\ list[1] # Junk /\ list[1] > 0 /\ rate <= list[1]

Allows(list, ask) ==
    CASE permission = "http.request" -> HttpAllows(list, ask)
      [] permission = "extension.api.request" -> ApiAllows(list, ask)
      [] permission = "ext.storage.read_public" -> ReadAllows(list, ask)
      [] permission = "ext.storage.append_public" -> AppendAllows(list, ask)
      [] permission = "wallet.create_invoice_public" -> InvoiceAllows(list, ask)
      [] permission = "websocket.publish" -> PublishAllows(list, ask)

(* What a guest may ask of the host under each permission; sources are the
   tables with a row of the id it names, rows those appended to it already.   *)
Asks ==
    CASE permission = "http.request" -> Origins
      [] permission = "extension.api.request" -> [id : Targets, access : {"read", "write"}]
      [] permission = "ext.storage.read_public" ->
            [table : Tables, field : Fields, page : BOOLEAN]
      [] permission = "ext.storage.append_public" ->
            [table : Tables, sources : SUBSET Tables, field : Fields, rows : 0..RowsLimit]
      [] permission = "wallet.create_invoice_public" -> [table : Tables, wallet : Fields]
      [] permission = "websocket.publish" -> 1..(RateLimit + 1)
----------------------------------------------------------------------------
Init ==
    /\ permission \in DOMAIN Entries
    /\ requested \in Lists(permission)
    /\ permission = "websocket.publish" => PublishRate(requested) > 0
    /\ granted = NoValue /\ overridden = FALSE /\ served = NoValue

(* What is granted when the extension is installed, and afterwards            *)
Grant(policies, raise) ==
    /\ GrantIsSubset(requested, policies, raise)
    /\ granted' = policies /\ overridden' = raise /\ served' = NoValue
    /\ UNCHANGED <<permission, requested>>

(* install_extension: api_install_extension lets the administrator raise the
   limits, which is not the default                                           *)
Install(policies) == \E raise \in BOOLEAN : Grant(policies, raise)

(* api_update_extension_permissions, which lets the limits be raised too     *)
Update(policies) == Grant(policies, TRUE)

(* Install or update with a list the permission is not in: what was not
   granted needs no check, and is not granted any more.                       *)
TakeBack ==
    /\ granted # NoValue
    /\ granted' = NoValue /\ overridden' = FALSE /\ served' = NoValue
    /\ UNCHANGED <<permission, requested>>

(* A call of the guest that the host serves                                  *)
Serve(ask) ==
    /\ granted # NoValue /\ Allows(granted, ask)
    /\ served' = ask
    /\ UNCHANGED <<permission, requested, granted, overridden>>

Next ==
    \/ \E policies \in Lists(permission) : Install(policies) \/ Update(policies)
    \/ TakeBack
    \/ \E ask \in Asks : Serve(ask)

Spec == Init /\ [][Next]_vars
----------------------------------------------------------------------------
TypeOK ==
    /\ permission \in DOMAIN Entries /\ requested \in Lists(permission)
    /\ granted \in Lists(permission) \union {NoValue}
    /\ overridden \in BOOLEAN /\ served \in Asks \union {NoValue}

(* Some entry of the request names what is asked, whatever its neighbours.   *)
Names(ask) ==
    \E i \in DOMAIN requested :
        LET e == requested[i] IN
        /\ e # Junk
        /\ CASE permission = "http.request" -> e = ask
             [] permission = "extension.api.request" ->
                  e.id = ask.id /\ e.access # Junk /\ ask.access \in e.access
             [] permission = "ext.storage.read_public" ->
                  e.table = ask.table /\ e.fields # Junk /\ ask.field \in e.fields
             [] permission = "ext.storage.append_public" ->
                  /\ e.table = ask.table /\ e.source \in ask.sources
                  /\ ask.field \in e.fields
                  /\ overridden \/ ask.rows < MaxRows(e)
             [] permission = "wallet.create_invoice_public" -> e = ask
             [] permission = "websocket.publish" -> overridden \/ ask <= e

(* However the two readers take a list apart, the guest is served nothing
   that its config.json does not name, but for limits an administrator
   raised (permissions.py 36-412 against host.py 696-930, client/http.py and
   client/extensions.py).                                                      *)
ServedIsRequested == served # NoValue => Names(served)
=============================================================================
