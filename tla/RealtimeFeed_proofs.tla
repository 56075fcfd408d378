------------------------- MODULE RealtimeFeed_proofs -------------------------
(***************************************************************************)
(* The cache of tenants for any number of handlers, settings and versions, *)
(* in the composition with the feed.                                       *)
(***************************************************************************)
EXTENDS RealtimeFeed, TLAPS

Steps == {"idle", "mint", "query", "write", "invalidate", "upsert", "publish", "join"}

USE SettingsAssumption, BoundsAssumption

\* The first version.
LEMMA ZeroVersion == 0 \in Versions
  BY DEF Versions

\* The initial state has the types.
LEMMA TypeInit == Init => TypeOK
<1> SUFFICES ASSUME Init PROVE TypeOK
  OBVIOUS
<1>1. AccessTypeOK
  BY DEF Init, AccessInit, AccessTypeOK, Keys
<1>2. snap \in [Procs -> Versions] /\ channel \in Seq(Versions)
  BY ZeroVersion DEF Init
<1>3. pc \in [Procs -> Steps]
  BY DEF Init, AccessInit, Steps
<1>4. offered \in BOOLEAN /\ joined \in BOOLEAN
  BY DEF Init
<1> QED BY <1>1, <1>2, <1>3, <1>4, ZeroVersion DEF Init, TypeOK, Steps

\* Every step keeps the types.
LEMMA TypeStep == TypeOK /\ [Next]_vars => TypeOK'
<1> SUFFICES ASSUME TypeOK, [Next]_vars PROVE TypeOK'
  OBVIOUS
<1> USE DEF TypeOK, AccessTypeOK, access, local, feed, Goto, Done, IngestDone
<1>1. CASE SessionExpires /\ UNCHANGED feed
  BY <1>1 DEF SessionExpires
<1>2. ASSUME NEW k \in Keys, CacheExpires(k), UNCHANGED feed PROVE TypeOK'
  BY <1>2 DEF CacheExpires
<1>3. ASSUME NEW p \in Requests, VerifyLaunch(p) \/ Mint(p), UNCHANGED feed PROVE TypeOK'
  BY <1>3 DEF VerifyLaunch, Mint, Procs, Keys
<1>4. ASSUME NEW p \in Requests, NEW k \in Keys, CacheHit(p, k) \/ CacheMiss(p, k), UNCHANGED feed
      PROVE  TypeOK'
  BY <1>4 DEF CacheHit, CacheMiss, Admit, Procs
<1>5. ASSUME NEW p \in Requests, QueryGroup(p), UNCHANGED feed PROVE TypeOK'
  <2>1. held' \in [Procs -> Settings \cup {Null}]
    BY <1>5 DEF QueryGroup
  <2> QED BY <1>5, <2>1 DEF QueryGroup, Procs, Keys
<1>6. ASSUME NEW p \in Requests, WriteCache(p), UNCHANGED feed PROVE TypeOK'
  <2>1. cache' \in [Keys -> Settings \cup {Null}] /\ overlap' \subseteq Keys
    BY <1>6 DEF WriteCache, Procs
  <2> QED BY <1>6, <2>1 DEF WriteCache, Admit, Procs, Keys
<1>7. ASSUME NEW p \in Staff, NEW row \in Settings \cup {Disabled}, PatchTenant(p, row), UNCHANGED feed
      PROVE  TypeOK'
  BY <1>7 DEF PatchTenant, Procs
<1>8. ASSUME NEW p \in Staff, Invalidate(p), UNCHANGED feed PROVE TypeOK'
  BY <1>8 DEF Invalidate, Procs, Keys
<1>9. CASE ProviderReports \/ HandleUnsubscribe \/ Disconnect \/ SwitchLeague
  <2>1. CASE ProviderReports
    <3>1. latest' \in Versions
      BY <2>1 DEF ProviderReports, Versions
    <3> QED BY <2>1, <3>1 DEF ProviderReports
  <2>2. CASE HandleUnsubscribe \/ Disconnect
    BY <2>2, ZeroVersion DEF HandleUnsubscribe, Disconnect
  <2>3. CASE SwitchLeague
    <3>1. offered' \in BOOLEAN
      BY <2>3 DEF SwitchLeague
    <3> QED BY <2>3, <3>1 DEF SwitchLeague
  <2> QED BY <1>9, <2>1, <2>2, <2>3
<1>10. CASE EmitToRoom \/ MessageLost
  <2>1. channel # <<>> /\ channel \in Seq(Versions)
    BY <1>10 DEF EmitToRoom, MessageLost
  <2>2. Head(channel) \in Versions /\ Tail(channel) \in Seq(Versions)
    BY <2>1
  <2> QED BY <1>10, <2>2 DEF EmitToRoom, MessageLost
<1>11. ASSUME NEW p \in Procs, Fails(p) PROVE TypeOK'
  <2>1. snap' \in [Procs -> Versions]
    BY <1>11, ZeroVersion DEF Fails
  <2>2. overlap' \subseteq Keys /\ "id" \in Keys
    BY <1>11 DEF Fails, HandlerDies, Keys
  <2> QED BY <1>11, <2>1, <2>2 DEF Fails, HandlerDies
<1>12. ASSUME NEW p \in Requests, HandleSubscribe(p) \/ Join(p) PROVE TypeOK'
  BY <1>12 DEF HandleSubscribe, Join, Procs
<1>13. ASSUME NEW p \in Ingests, FetchSnapshot(p) \/ UpsertEvent(p) PROVE TypeOK'
  BY <1>13 DEF FetchSnapshot, UpsertEvent, Procs
<1>14. ASSUME NEW p \in Ingests, PublishEventUpdate(p) PROVE TypeOK'
  <2>1. p \in Procs /\ snap[p] \in Versions /\ channel \in Seq(Versions)
    BY DEF Procs
  <2>2. channel' \in Seq(Versions)
    BY <1>14, <2>1 DEF PublishEventUpdate
  <2> QED BY <1>14, <2>1, <2>2 DEF PublishEventUpdate, Versions
<1>15. CASE UNCHANGED vars
  BY <1>15 DEF vars
<1> QED
  BY <1>1, <1>2, <1>3, <1>4, <1>5, <1>6, <1>7, <1>8, <1>9, <1>10, <1>11, <1>12, <1>13, <1>14, <1>15
     DEF Next, AccessNext

\* Only the handler of an update can stop being about to invalidate, by doing so or by
\* dying, and only a cache write of a late reader brings back an old row.
LEMMA StaleStep == TypeOK /\ StaleOnlyByOverlap /\ [Next]_vars => StaleOnlyByOverlap'
<1> SUFFICES ASSUME TypeOK, StaleOnlyByOverlap, [Next]_vars PROVE StaleOnlyByOverlap'
  OBVIOUS
<1> USE DEF TypeOK, AccessTypeOK, StaleOnlyByOverlap, Goto, Done
<1>1. CASE /\ UNCHANGED <<group, cache, overlap>>
           /\ \A q \in Procs : pc[q] = "invalidate" => pc'[q] = "invalidate"
  BY <1>1
<1>2. ASSUME NEW p \in Procs, pc[p] # "invalidate", UNCHANGED <<group, cache, overlap>>,
             NEW step \in Steps, Goto(p, step)
      PROVE  StaleOnlyByOverlap'
  BY <1>1, <1>2
<1>3. CASE SessionExpires
  BY <1>1, <1>3 DEF SessionExpires
<1>4. ASSUME NEW k \in Keys, CacheExpires(k) PROVE StaleOnlyByOverlap'
  BY <1>4 DEF CacheExpires
<1>5. ASSUME NEW p \in Requests, VerifyLaunch(p) \/ Mint(p) \/ QueryGroup(p)
      PROVE  StaleOnlyByOverlap'
  BY <1>2, <1>5 DEF VerifyLaunch, Mint, QueryGroup, access, Procs, Steps
<1>6. ASSUME NEW p \in Requests, NEW k \in Keys, CacheHit(p, k) \/ CacheMiss(p, k)
      PROVE  StaleOnlyByOverlap'
  BY <1>1, <1>6 DEF CacheHit, CacheMiss, access
<1>7. ASSUME NEW p \in Requests, WriteCache(p) PROVE StaleOnlyByOverlap'
  <2>1. \A q \in Procs : pc[q] = "invalidate" => pc'[q] = "invalidate"
    BY <1>7 DEF WriteCache
  <2>2. CASE UNCHANGED <<cache, overlap>>
    BY <1>7, <2>1, <2>2 DEF WriteCache
  <2>3. CASE /\ cache' = [cache EXCEPT ![key[p]] = held[p]]
             /\ overlap' = IF held[p] = group THEN overlap \ {key[p]} ELSE overlap \cup {key[p]}
    BY <1>7, <2>1, <2>3 DEF WriteCache
  <2> QED BY <1>7, <2>2, <2>3 DEF WriteCache
<1>8. ASSUME NEW p \in Staff, NEW row \in Settings \cup {Disabled}, PatchTenant(p, row)
      PROVE  StaleOnlyByOverlap'
  <2>1. p \in Procs /\ pc'[p] = "invalidate"
    BY <1>8 DEF PatchTenant, Procs
  <2> QED BY <2>1
<1>9. ASSUME NEW p \in Staff, Invalidate(p) PROVE StaleOnlyByOverlap'
  BY <1>9 DEF Invalidate
<1>10. CASE ProviderReports \/ HandleUnsubscribe \/ Disconnect \/ SwitchLeague \/ EmitToRoom
            \/ MessageLost
  BY <1>1, <1>10 DEF ProviderReports, HandleUnsubscribe, Disconnect, SwitchLeague, EmitToRoom,
     MessageLost, access, local
<1>11. ASSUME NEW p \in Procs, Fails(p) PROVE StaleOnlyByOverlap'
  <2>1. CASE pc[p] = "invalidate"
    BY <1>11, <2>1 DEF Fails, HandlerDies
  <2>2. CASE pc[p] # "invalidate"
    BY <1>2, <1>11, <2>2 DEF Fails, HandlerDies, Steps
  <2> QED BY <2>1, <2>2
<1>12. ASSUME NEW p \in Requests, HandleSubscribe(p) \/ Join(p) PROVE StaleOnlyByOverlap'
  BY <1>2, <1>12 DEF HandleSubscribe, Join, access, Procs, Steps
<1>13. ASSUME NEW p \in Ingests, FetchSnapshot(p) \/ UpsertEvent(p) \/ PublishEventUpdate(p)
       PROVE  StaleOnlyByOverlap'
  BY <1>2, <1>13 DEF FetchSnapshot, UpsertEvent, PublishEventUpdate, IngestDone, access, Procs, Steps
<1>14. CASE UNCHANGED vars
  BY <1>1, <1>14 DEF vars, access, local
<1> QED
  BY <1>3, <1>4, <1>5, <1>6, <1>7, <1>8, <1>9, <1>10, <1>11, <1>12, <1>13, <1>14 DEF Next, AccessNext

\* Type correctness of tenants, cache, handlers and feed: a disabled row is never cached.
THEOREM TypeCorrect == Spec => []TypeOK
<1> QED BY TypeInit, TypeStep, PTL DEF Spec

\* patchTenant invalidates what is cached under both keys, up to requests that overlap.
THEOREM StaleBounded == Spec => []StaleOnlyByOverlap
<1>1. Init => StaleOnlyByOverlap
  BY DEF Init, AccessInit, StaleOnlyByOverlap
<1> QED BY <1>1, TypeInit, TypeStep, StaleStep, PTL DEF Spec

-----------------------------------------------------------------------------

\* Every version in the row, in a snapshot, on the channel or on the screen has been
\* reported by the provider.
NothingAhead ==
    /\ event <= latest /\ view <= latest
    /\ \A p \in Procs : snap[p] <= latest
    /\ \A i \in DOMAIN channel : channel[i] <= latest

\* What the player and the database show was reported by the provider.
NothingInvented == event <= latest /\ view <= latest

\* Versions are copied along the feed and only the provider makes new ones.
LEMMA AheadStep == TypeOK /\ NothingAhead /\ [Next]_vars => NothingAhead'
<1> SUFFICES ASSUME TypeOK, NothingAhead, [Next]_vars PROVE NothingAhead'
  OBVIOUS
<1>1. /\ latest \in Nat /\ event \in Nat /\ view \in Nat /\ channel \in Seq(Versions)
      /\ snap \in [Procs -> Nat] /\ Versions \subseteq Nat
  BY DEF TypeOK, Versions
<1> USE <1>1 DEF NothingAhead
<1>2. CASE UNCHANGED feed
  BY <1>2 DEF feed
<1>3. CASE ProviderReports
  <2>1. latest' = latest + 1 /\ UNCHANGED <<event, view, channel, snap>>
    BY <1>3 DEF ProviderReports
  <2>2. \A i \in DOMAIN channel : channel[i] \in Nat
    <3>1. DOMAIN channel = 1..Len(channel)
      OBVIOUS
    <3>2. \A i \in 1..Len(channel) : channel[i] \in Versions
      OBVIOUS
    <3> QED BY <3>1, <3>2
  <2> QED BY <2>1, <2>2
<1>4. CASE EmitToRoom \/ MessageLost
  <2>1. channel # <<>> /\ channel' = Tail(channel) /\ UNCHANGED <<latest, event, snap>>
    BY <1>4 DEF EmitToRoom, MessageLost
  <2>2. view' = view \/ view' = Head(channel)
    BY <1>4 DEF EmitToRoom, MessageLost
  <2>3. Head(channel) <= latest
    BY <2>1
  <2>4. \A i \in DOMAIN Tail(channel) : Tail(channel)[i] <= latest
    BY <2>1
  <2> QED BY <2>1, <2>2, <2>3, <2>4
<1>5. CASE HandleUnsubscribe \/ Disconnect \/ SwitchLeague
  BY <1>5 DEF HandleUnsubscribe, Disconnect, SwitchLeague
<1>6. ASSUME NEW p \in Procs, Fails(p) PROVE NothingAhead'
  BY <1>6 DEF Fails
<1>7. ASSUME NEW p \in Requests, HandleSubscribe(p) \/ Join(p) PROVE NothingAhead'
  BY <1>7 DEF HandleSubscribe, Join, feed
<1>8. ASSUME NEW p \in Ingests, FetchSnapshot(p) \/ UpsertEvent(p) PROVE NothingAhead'
  BY <1>8 DEF FetchSnapshot, UpsertEvent, Procs
<1>9. ASSUME NEW p \in Ingests, PublishEventUpdate(p) PROVE NothingAhead'
  <2>1. p \in Procs /\ snap[p] \in Versions /\ snap[p] <= latest
    BY DEF Procs, TypeOK
  <2>2. \A i \in DOMAIN Append(channel, snap[p]) : Append(channel, snap[p])[i] <= latest
    BY <2>1
  <2>3. \A i \in DOMAIN channel' : channel'[i] <= latest
    BY <1>9, <2>2 DEF PublishEventUpdate
  <2> QED BY <1>9, <2>1, <2>3 DEF PublishEventUpdate, IngestDone
<1>10. CASE UNCHANGED vars
  BY <1>2, <1>10 DEF vars
<1> QED
  BY <1>2, <1>3, <1>4, <1>5, <1>6, <1>7, <1>8, <1>9, <1>10 DEF Next

\* Losses, overlapping ingests and late messages may show a player an old state of the
\* event, never one that the provider has not reported.
THEOREM FeedInventsNothing == Spec => []NothingInvented
<1>1. Init => NothingAhead
  BY DEF Init, NothingAhead
<1>2. NothingAhead => NothingInvented
  BY DEF NothingAhead, NothingInvented
<1> QED BY <1>1, <1>2, AheadStep, TypeCorrect, PTL DEF Spec

=============================================================================
