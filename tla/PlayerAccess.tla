---------------------------- MODULE PlayerAccess ----------------------------
(***************************************************************************)
(* How a player gets in: the launch that turns an operator's token into a  *)
(* session token, the guard that resolves the tenant of every request and  *)
(* of every socket through a cache in Redis, and staff who change the      *)
(* tenant and invalidate the cache.                                        *)
(*                                                                         *)
(* One tenant and one player.  The tenant's row is its settings (currency, *)
(* name, time zone) while its status is ACTIVE.  Tokens are checked by     *)
(* their signature: what matters is whether the player has one that has    *)
(* not expired.  The module is composed with the feed in RealtimeFeed.     *)
(***************************************************************************)

CONSTANTS
    Requests,  \* handlers of a player's requests
    Staff,     \* handlers of staff requests
    Ingests,   \* handlers of ingests
    Settings,  \* settings of an active tenant
    Disabled,  \* any row whose status is DISABLED
    Null

Procs == Requests \cup Staff \cup Ingests

ASSUME SettingsAssumption == Disabled \notin Settings /\ Null \notin Settings /\ Null # Disabled

\* The cache has the tenant under its slug and under its id.
Keys == {"slug", "id"}

VARIABLES
    group,    \* the CasinoGroup row
    cache,    \* per key: the settings cached, or Null
    token,    \* does the player hold a session token that is still good?
    socket,   \* is a socket of the player connected?
    pc,       \* per handler: its next step
    key,      \* per handler: the key that it resolves
    held,     \* per handler: the settings that it has read
    overlap   \* keys whose entry was written by a read that overlapped with an update,
              \* or missed by an invalidation that failed (history)

access == <<group, cache, token, overlap>>

AccessTypeOK ==
    /\ group \in Settings \cup {Disabled}
    /\ cache \in [Keys -> Settings \cup {Null}]
    /\ token \in BOOLEAN /\ socket \in BOOLEAN
    /\ key \in [Procs -> Keys]
    /\ held \in [Procs -> Settings \cup {Null}]
    /\ overlap \subseteq Keys

AccessInit ==
    /\ group \in Settings
    /\ cache = [k \in Keys |-> Null]
    /\ token = FALSE /\ socket = FALSE
    /\ pc = [p \in Procs |-> "idle"]
    /\ key = [p \in Procs |-> "id"]
    /\ held = [p \in Procs |-> Null]
    /\ overlap = {}

Goto(p, step) == pc' = [pc EXCEPT ![p] = step]

Done(p) ==
    /\ Goto(p, "idle")
    /\ key' = [key EXCEPT ![p] = "id"]
    /\ held' = [held EXCEPT ![p] = Null]

-----------------------------------------------------------------------------
(* Launch                                                                  *)

\* getMerchantCredentials asks the database, never the cache.
ActiveMerchant == group # Disabled

\* verify: the merchant's secret, with which the operator's token is checked.
VerifyLaunch(p) ==
    /\ pc[p] = "idle"
    /\ ActiveMerchant
    /\ Goto(p, "mint")
    /\ UNCHANGED <<access, socket, key, held>>

Mint(p) ==
    /\ pc[p] = "mint"
    /\ token' = TRUE
    /\ Done(p)
    /\ UNCHANGED <<group, cache, overlap, socket>>

SessionExpires ==
    /\ token
    /\ token' = FALSE
    /\ UNCHANGED <<group, cache, overlap, socket, pc, key, held>>

-----------------------------------------------------------------------------
(* Requests                                                                *)

\* A session token names the tenant by its id; the slug is the header of
\* development set-ups.  What is admitted is a request or a socket.
BearerToken(k) == k = "id" /\ token
GroupHeader(k) == k = "slug"
Presents(k) == BearerToken(k) \/ GroupHeader(k)
Admit(k) == socket' = socket \/ (k = "id" /\ socket' = TRUE)

\* readCache of resolveActiveById and resolveActiveBySlug.
CacheHit(p, k) ==
    /\ pc[p] = "idle"
    /\ Presents(k)
    /\ cache[k] # Null
    /\ Admit(k)
    /\ UNCHANGED <<access, pc, key, held>>

\* No entry, or Redis does not answer.
CacheMiss(p, k) ==
    /\ pc[p] = "idle"
    /\ Presents(k)
    /\ Goto(p, "query")
    /\ key' = [key EXCEPT ![p] = k]
    /\ UNCHANGED <<access, socket, held>>

\* Faulty variant: the status is not part of the query.
QueryAnyStatus(p) ==
    /\ pc[p] = "query"
    /\ held' = [held EXCEPT ![p] = group]
    /\ Goto(p, "write")
    /\ UNCHANGED <<access, socket, key>>

\* An unknown or disabled tenant is refused, and not cached.
QueryGroup(p) ==
    /\ pc[p] = "query"
    /\ IF group = Disabled
       THEN Done(p)
       ELSE /\ held' = [held EXCEPT ![p] = group]
            /\ Goto(p, "write")
            /\ UNCHANGED key
    /\ UNCHANGED <<access, socket>>

\* writeCache; a failure of Redis is ignored.
WriteCache(p) ==
    /\ pc[p] = "write"
    /\ \/ /\ cache' = [cache EXCEPT ![key[p]] = held[p]]
          /\ overlap' = IF held[p] = group THEN overlap \ {key[p]} ELSE overlap \cup {key[p]}
       \/ UNCHANGED <<cache, overlap>>
    /\ Admit(key[p])
    /\ Done(p)
    /\ UNCHANGED <<group, token>>

\* Faulty variant: the entry has no lifetime.
NeverExpires(k) == FALSE /\ UNCHANGED <<access, socket, pc, key, held>>

\* EX of the SET: an entry lives as long as writeCache says, however often it is read.
CacheExpires(k) ==
    /\ cache[k] # Null
    /\ cache' = [cache EXCEPT ![k] = Null]
    /\ overlap' = overlap \ {k}
    /\ UNCHANGED <<group, token, socket, pc, key, held>>

-----------------------------------------------------------------------------
(* Staff: patchTenant                                                      *)

PatchTenant(p, row) ==
    /\ pc[p] = "idle"
    /\ group' = row
    /\ Goto(p, "invalidate")
    /\ UNCHANGED <<cache, token, overlap, socket, key, held>>

\* Faulty variant: the entry under the id is forgotten.
InvalidateSlug(p) ==
    /\ pc[p] = "invalidate"
    /\ cache' = [cache EXCEPT !["slug"] = Null]
    /\ overlap' = overlap \ {"slug"}
    /\ Done(p)
    /\ UNCHANGED <<group, token, socket>>

Invalidate(p) ==
    /\ pc[p] = "invalidate"
    /\ cache' = [k \in Keys |-> Null]
    /\ overlap' = {}
    /\ Done(p)
    /\ UNCHANGED <<group, token, socket>>

\* A crash, or an exception such as Redis's during the invalidation.
HandlerDies(p) ==
    /\ pc[p] # "idle"
    /\ overlap' = IF pc[p] = "invalidate" THEN {k \in Keys : cache[k] # Null} ELSE overlap
    /\ Done(p)
    /\ UNCHANGED <<group, cache, token, socket>>

AccessNext ==
    \/ SessionExpires
    \/ \E k \in Keys : CacheExpires(k)
    \/ \E p \in Requests :
          \/ VerifyLaunch(p) \/ Mint(p)
          \/ \E k \in Keys : CacheHit(p, k) \/ CacheMiss(p, k)
          \/ QueryGroup(p) \/ WriteCache(p)
    \/ \E p \in Staff :
          \/ \E row \in Settings \cup {Disabled} : PatchTenant(p, row)
          \/ Invalidate(p)

\* A request under way.
Proceeds(p) == Mint(p) \/ QueryGroup(p) \/ WriteCache(p) \/ Invalidate(p)

-----------------------------------------------------------------------------

\* An entry differs from the row only while the update is about to invalidate it, or
\* when a request had read the row before the update, or the invalidation failed:
\* patchTenant reaches the entries under both keys.
StaleOnlyByOverlap ==
    \A k \in Keys :
        cache[k] \notin {Null, group} => k \in overlap \/ \E p \in Procs : pc[p] = "invalidate"

\* Whatever staff have last set is in the end what every request meets, although a
\* late reader may put the old row back after the invalidation: the caches agree with
\* the row, and the sessions of a tenant that stays disabled run out.
GroupCatchesUp ==
    \A row \in Settings \cup {Disabled} :
        <>[](group = row) => <>[](/\ \A k \in Keys : cache[k] \in {Null, row}
                                  /\ row = Disabled => ~token)

=============================================================================
