---------------------------- MODULE RealtimeFeed ----------------------------
(***************************************************************************)
(* The live feed of one event to one player of one tenant: ingests write   *)
(* the event and publish what they wrote, Redis passes it on at most once  *)
(* and in order, and a socket that PlayerAccess has admitted and that has  *)
(* joined the tenant's room shows it.                                      *)
(*                                                                         *)
(* A version stands for status, score and clock of the event; with the     *)
(* last one the game is over.  Live ticks go on while the row is not at    *)
(* the last version; catalog runs, commands and the ticks of other games   *)
(* of the league may bring the event at any time, as long as the provider  *)
(* lists it.                                                               *)
(***************************************************************************)
EXTENDS PlayerAccess, Integers, Sequences

CONSTANTS
    MaxVersion,  \* the last version: bound on the changes that the provider reports
    MaxChannel   \* bound on the messages that Redis has not yet passed on

ASSUME BoundsAssumption == MaxVersion \in Nat /\ MaxChannel \in Nat \ {0}

VARIABLES
    latest,   \* the provider's version of the event
    event,    \* the Event row
    offered,  \* is the event's league enabled for the tenant?
    channel,  \* messages to the tenant's room of the event
    joined,   \* is the socket in the room?
    view,     \* the version that the player sees in the room, 0 outside of it
    snap      \* per handler: the version of its snapshot

feed == <<latest, event, offered, channel, joined, view, snap>>
local == <<socket, pc, key, held>>
vars == <<access, local, feed>>

Versions == 0..MaxVersion

TypeOK ==
    /\ AccessTypeOK
    /\ pc \in [Procs -> {"idle", "mint", "query", "write", "invalidate",
                         "upsert", "publish", "join"}]
    /\ latest \in Versions /\ event \in Versions /\ view \in Versions
    /\ offered \in BOOLEAN /\ joined \in BOOLEAN
    /\ channel \in Seq(Versions)
    /\ snap \in [Procs -> Versions]

Init ==
    /\ AccessInit
    /\ latest = 0 /\ event = 0 /\ view = 0
    /\ offered = TRUE /\ joined = FALSE
    /\ channel = <<>>
    /\ snap = [p \in Procs |-> 0]

-----------------------------------------------------------------------------
(* Ingest and publication                                                  *)

\* The ingest is over: its snapshot is gone.
IngestDone(p) ==
    /\ Goto(p, "idle")
    /\ snap' = [snap EXCEPT ![p] = 0]

ProviderReports ==
    /\ latest < MaxVersion
    /\ latest' = latest + 1
    /\ UNCHANGED <<access, local, event, offered, channel, joined, view, snap>>

\* A snapshot of a live tick, a catalog run or a command; those may overlap.
FetchSnapshot(p) ==
    /\ pc[p] = "idle"
    /\ snap' = [snap EXCEPT ![p] = latest]
    /\ Goto(p, "upsert")
    /\ UNCHANGED <<access, socket, key, held, latest, event, offered, channel, joined, view>>

\* Faulty variant: an event that has not changed is not published.
UpsertChanged(p) ==
    /\ pc[p] = "upsert"
    /\ event' = snap[p]
    /\ IF event = snap[p] THEN IngestDone(p) ELSE Goto(p, "publish") /\ UNCHANGED snap
    /\ UNCHANGED <<access, socket, key, held, latest, offered, channel, joined, view>>

UpsertEvent(p) ==
    /\ pc[p] = "upsert"
    /\ event' = snap[p]
    /\ Goto(p, "publish")
    /\ UNCHANGED <<access, socket, key, held, latest, offered, channel, joined, view, snap>>

\* A message to the room of each tenant that offers the event, with what this ingest
\* wrote and not what the row has by now.
PublishEventUpdate(p) ==
    /\ pc[p] = "publish" /\ Len(channel) < MaxChannel
    /\ channel' = IF offered THEN Append(channel, snap[p]) ELSE channel
    /\ IngestDone(p)
    /\ UNCHANGED <<access, socket, key, held, latest, event, offered, joined, view>>

\* emitToRoom, for a message of the subscribed channel.
EmitToRoom ==
    /\ channel # <<>>
    /\ channel' = Tail(channel)
    /\ view' = IF joined THEN Head(channel) ELSE view
    /\ UNCHANGED <<access, local, latest, event, offered, joined, snap>>

\* The subscriber's connection to Redis was down: the message is gone.
MessageLost ==
    /\ channel # <<>>
    /\ channel' = Tail(channel)
    /\ UNCHANGED <<access, local, latest, event, offered, joined, view, snap>>

-----------------------------------------------------------------------------
(* The socket                                                              *)

\* Within the rate limit, which may refuse any request, a socket asks for an event
\* that its tenant offers.
HandleSubscribe(p) ==
    /\ pc[p] = "idle"
    /\ socket /\ offered
    /\ Goto(p, "join")
    /\ UNCHANGED <<access, socket, key, held, feed>>

Join(p) ==
    /\ pc[p] = "join"
    /\ joined' = socket
    /\ Goto(p, "idle")
    /\ UNCHANGED <<access, socket, key, held, latest, event, offered, channel, view, snap>>

HandleUnsubscribe ==
    /\ joined
    /\ joined' = FALSE /\ view' = 0
    /\ UNCHANGED <<access, local, latest, event, offered, channel, snap>>

Disconnect ==
    /\ socket
    /\ socket' = FALSE /\ joined' = FALSE /\ view' = 0
    /\ UNCHANGED <<access, pc, key, held, latest, event, offered, channel, snap>>

\* Staff, or the sync of an ingest, switch the league for the tenant.
SwitchLeague ==
    /\ offered' = ~offered
    /\ UNCHANGED <<access, local, latest, event, channel, joined, view, snap>>

Fails(p) ==
    /\ HandlerDies(p)
    /\ snap' = [snap EXCEPT ![p] = 0]
    /\ UNCHANGED <<latest, event, offered, channel, joined, view>>

Next ==
    \/ AccessNext /\ UNCHANGED feed
    \/ ProviderReports \/ EmitToRoom \/ MessageLost
    \/ HandleUnsubscribe \/ Disconnect \/ SwitchLeague
    \/ \E p \in Procs : Fails(p)
    \/ \E p \in Requests : HandleSubscribe(p) \/ Join(p)
    \/ \E p \in Ingests : FetchSnapshot(p) \/ UpsertEvent(p) \/ PublishEventUpdate(p)

Spec == Init /\ [][Next]_vars

-----------------------------------------------------------------------------
(* Fairness.  Tokens and cache entries expire and requests end.  A step of  *)
(* an ingest may fail and a message may be lost any number of times, but    *)
(* not always.  Nothing is assumed of the start of ingests.                 *)

Fairness ==
    /\ WF_vars(SessionExpires /\ UNCHANGED feed)
    /\ \A k \in Keys : WF_vars(CacheExpires(k) /\ UNCHANGED feed)
    /\ \A p \in Procs : WF_vars((Proceeds(p) /\ UNCHANGED feed) \/ Join(p))
    /\ SF_vars(\E p \in Ingests : UpsertEvent(p))
    /\ SF_vars(\E p \in Ingests : PublishEventUpdate(p))
    /\ SF_vars(EmitToRoom)

FairSpec == Spec /\ Fairness

-----------------------------------------------------------------------------

\* The live ticks of the scheduler, which stop with the row, bring the event again
\* and again: the provider has not dropped it.
LiveTick(p) == event # MaxVersion /\ FetchSnapshot(p)
LiveTicksGoOn == SF_vars(\E p \in Ingests : LiveTick(p))

\* README, "Real-time": a player who stays in the room of an offered event comes to
\* see its latest state, although messages are lost and overlapping ingests publish
\* in another order than they write: each ingest publishes the event again.  The
\* row gets to the last version too, even when a late ingest takes it back.  Not so
\* the player: the poll ends with the row, so a last message that is lost, or not
\* published after a crash, or overtaken by an older one is never made good.
SubscriberCatchesUp ==
    <>[](joined /\ offered) /\ LiveTicksGoOn =>
        /\ <>[](event = latest)
        /\ [](latest # MaxVersion) => <>[](view = latest)

=============================================================================
