------------------------------ MODULE ProviderRoles ------------------------------
(***************************************************************************)
(* Who provides market data.  The routes of three providers (api/routes/   *)
(* market_data.py for Polygon, finnhub_data.py, broker.py for IBKR) make   *)
(* adapters, connect and disconnect them, and hand out the streaming    *)
(* and historical roles of services/broker_registry.py.  Finnhub's routes  *)
(* share a lock, the others none.  Bridges are in TickBridge, replays and  *)
(* the historical role in ReplayGuards.                                    *)
(***************************************************************************)
EXTENDS Naturals, Sequences, FiniteSets

CONSTANTS
  RouteCalls,      \* calls that may run at a time
  MaxAdapters, MaxRouteCalls, MaxRouteFaults   \* bounds

NoOne == 0

ASSUME RolesAssumption ==
  /\ MaxAdapters \in Nat /\ MaxRouteCalls \in Nat /\ MaxRouteFaults \in Nat
  /\ NoOne \notin RouteCalls

Adapters == 1 .. MaxAdapters

VARIABLES
  kinds,       \* the adapters made so far, by number
  up,          \* those that are connected, or try to stay so
  polygon, finnhub,        \* _provider of the two route modules
  streamingRole, historical,   \* the registry
  ownerLock,   \* the call that has Finnhub's lock
  routeCall,   \* routeCall[c]: what runs, the step, its adapter and the old one
  overlapping, \* (history) two calls have run at the same time
  callsMade, routeFaults

rolesVars == <<kinds, up, polygon, finnhub, streamingRole, historical, ownerLock, routeCall,
               overlapping, callsMade, routeFaults>>

NoCall == [op |-> "none", at |-> "none", me |-> NoOne, old |-> NoOne]

RolesInit ==
  /\ kinds = <<>> /\ up = {} /\ polygon = NoOne /\ finnhub = NoOne
  /\ streamingRole = NoOne /\ historical = NoOne /\ ownerLock = NoOne
  /\ routeCall = [c \in RouteCalls |-> NoCall]
  /\ overlapping = FALSE /\ callsMade = 0 /\ routeFaults = 0

Kind(a) == IF a = NoOne THEN "none" ELSE kinds[a]
NewAdapter == Len(kinds) + 1
Makes(kind) == Len(kinds) < MaxAdapters /\ kinds' = Append(kinds, kind)
RouteFault == routeFaults < MaxRouteFaults /\ routeFaults' = routeFaults + 1
Becomes(c, r) == routeCall' = [routeCall EXCEPT ![c] = r]
Turns(c, at) == Becomes(c, [routeCall[c] EXCEPT !.at = at])
Returns(c) == Becomes(c, NoCall)
Registry == <<streamingRole, historical>>
Owners == <<polygon, finnhub>>
NoFault == UNCHANGED routeFaults
Running(c) == UNCHANGED <<overlapping, callsMade>>

Called(c) ==
  /\ routeCall[c].op = "none" /\ callsMade < MaxRouteCalls
  /\ callsMade' = callsMade + 1
  /\ overlapping' = (overlapping \/ \E d \in RouteCalls : routeCall[d].op # "none")

(***************************************************************************)
(* take_over_streaming                                                     *)
(***************************************************************************)
(* mutant: whoever streamed so far is left connected *)
MustDisconnect_Never(old, me) == FALSE

MustDisconnect(old, me) == old \notin {NoOne, me} /\ historical # old

(* The old provider is down from the first moment of its disconnect().     *)
TakeOver(c, op, me, now) ==
  IF MustDisconnect(streamingRole, me)
  THEN Becomes(c, [op |-> op, at |-> "disconnecting", me |-> me, old |-> streamingRole])
       /\ up' = now \ {streamingRole}
  ELSE Becomes(c, [op |-> op, at |-> "settling", me |-> me, old |-> NoOne]) /\ up' = now

OldDisconnected(c) ==
  /\ routeCall[c].at = "disconnecting" /\ Turns(c, "settling")
  /\ UNCHANGED <<kinds, up, ownerLock>> /\ UNCHANGED Registry /\ UNCHANGED Owners
  /\ NoFault /\ Running(c)

Unlocked(c) == ownerLock' = IF ownerLock = c THEN NoOne ELSE ownerLock

(* Installed; IBKR takes the historical role, too.                         *)
Installs(c) ==
  /\ routeCall[c].at = "settling"
  /\ LET r == routeCall[c]
     IN /\ streamingRole' = r.me
        /\ historical' = IF r.op = "connect_ibkr" THEN r.me ELSE historical
  /\ Returns(c) /\ Unlocked(c)
  /\ UNCHANGED <<kinds, up>> /\ UNCHANGED Owners /\ NoFault /\ Running(c)

(* Disconnecting the old one or settling raises, or the request is         *)
(* cancelled: the caller takes back what it has made.                      *)
TakeOverFails(c) ==
  /\ routeCall[c].at \in {"disconnecting", "settling"} /\ RouteFault
  /\ LET r == routeCall[c]
     IN /\ up' = up \ {r.me}
        /\ polygon' = IF r.op = "connect_polygon" /\ polygon = r.me THEN NoOne ELSE polygon
        /\ finnhub' = IF r.op = "connect_finnhub" /\ finnhub = r.me THEN NoOne ELSE finnhub
        /\ historical' = IF r.op = "connect_polygon" /\ historical = r.me THEN NoOne ELSE historical
        /\ Becomes(c, [r EXCEPT !.at = "cleanup"])
  /\ UNCHANGED <<kinds, streamingRole, ownerLock>> /\ Running(c)

CleanedUp(c) ==
  /\ routeCall[c].at = "cleanup" /\ Returns(c) /\ Unlocked(c)
  /\ UNCHANGED <<kinds, up>> /\ UNCHANGED Registry /\ UNCHANGED Owners /\ NoFault /\ Running(c)

(***************************************************************************)
(* Connect                                                                 *)
(***************************************************************************)
(* Polygon is historical at once, and streams if nobody does.              *)
ConnectPolygon(c) ==
  /\ Called(c) /\ polygon \notin up
  /\ Makes("polygon") /\ polygon' = NewAdapter /\ historical' = NewAdapter
  /\ IF streamingRole = NoOne
     THEN Becomes(c, [op |-> "connect_polygon", at |-> "settling", me |-> NewAdapter, old |-> NoOne])
     ELSE UNCHANGED routeCall
  /\ up' = up \cup {NewAdapter}
  /\ UNCHANGED <<finnhub, streamingRole, ownerLock>> /\ NoFault

(* mutant: every connect and disconnect of Finnhub for itself *)
OwnerLockFree_Always == TRUE

OwnerLockFree == ownerLock = NoOne

(* A Finnhub that is active, streaming or not, is left as it is.           *)
ConnectFinnhub(c) ==
  /\ Called(c) /\ OwnerLockFree /\ finnhub \notin up
  /\ Makes("finnhub") /\ finnhub' = NewAdapter /\ ownerLock' = c
  /\ Becomes(c, [op |-> "connect_finnhub", at |-> "connecting", me |-> NewAdapter, old |-> NoOne])
  /\ UNCHANGED <<up, polygon>> /\ UNCHANGED Registry /\ NoFault

ConnectIBKR(c) ==
  /\ Called(c) /\ ~(Kind(streamingRole) = "ibkr" /\ streamingRole \in up)
  /\ Makes("ibkr")
  /\ Becomes(c, [op |-> "connect_ibkr", at |-> "connecting", me |-> NewAdapter, old |-> NoOne])
  /\ UNCHANGED <<up, ownerLock>> /\ UNCHANGED Registry /\ UNCHANGED Owners /\ NoFault

AdapterConnected(c) ==
  /\ routeCall[c].at = "connecting"
  /\ TakeOver(c, routeCall[c].op, routeCall[c].me, up \cup {routeCall[c].me})
  /\ UNCHANGED <<kinds, ownerLock>> /\ UNCHANGED Registry /\ UNCHANGED Owners /\ NoFault /\ Running(c)

AdapterRefused(c) ==
  /\ routeCall[c].at = "connecting" /\ RouteFault
  /\ finnhub' = IF finnhub = routeCall[c].me THEN NoOne ELSE finnhub
  /\ Returns(c) /\ Unlocked(c)
  /\ UNCHANGED <<kinds, up, polygon>> /\ UNCHANGED Registry /\ Running(c)

(***************************************************************************)
(* Disconnect                                                              *)
(***************************************************************************)
(* A Finnhub that is still connecting for the first time gives up.         *)
DisconnectFinnhub(c) ==
  /\ Called(c) /\ OwnerLockFree /\ finnhub # NoOne
  /\ up' = up \ {finnhub} /\ ownerLock' = c
  /\ Becomes(c, [op |-> "disconnect_finnhub", at |-> "leaving", me |-> NoOne, old |-> NoOne])
  /\ UNCHANGED <<kinds>> /\ UNCHANGED Registry /\ UNCHANGED Owners /\ NoFault

DisconnectPolygon(c) ==
  /\ Called(c) /\ polygon # NoOne
  /\ up' = up \ {polygon}
  /\ Becomes(c, [op |-> "disconnect_polygon", at |-> "leaving", me |-> NoOne, old |-> NoOne])
  /\ UNCHANGED <<kinds, ownerLock>> /\ UNCHANGED Registry /\ UNCHANGED Owners /\ NoFault

(* Whatever streams; without it there is nothing to wait for.              *)
DisconnectBroker(c) ==
  /\ Called(c)
  /\ up' = up \ {streamingRole}
  /\ IF streamingRole = NoOne
     THEN historical' = NoOne /\ UNCHANGED routeCall
     ELSE /\ Becomes(c, [op |-> "disconnect_broker", at |-> "leaving", me |-> NoOne, old |-> NoOne])
          /\ UNCHANGED historical
  /\ UNCHANGED <<kinds, streamingRole, ownerLock>> /\ UNCHANGED Owners /\ NoFault

(* mutant: the roles of the module's provider are left to it *)
Vacated_Kept(role, who) == role

Vacated(role, who) == IF role = who THEN NoOne ELSE role

(* disconnect() has returned.  The modules look at what is theirs now; the *)
(* broker's route clears both roles, whoever has them by then.             *)
Left(c) ==
  /\ routeCall[c].at = "leaving"
  /\ CASE routeCall[c].op = "disconnect_finnhub" ->
            /\ streamingRole' = Vacated(streamingRole, finnhub) /\ finnhub' = NoOne
            /\ UNCHANGED <<historical, polygon>>
       [] routeCall[c].op = "disconnect_polygon" ->
            /\ streamingRole' = Vacated(streamingRole, polygon)
            /\ historical' = Vacated(historical, polygon)
            /\ polygon' = NoOne /\ UNCHANGED finnhub
       [] routeCall[c].op = "disconnect_broker" ->
            streamingRole' = NoOne /\ historical' = NoOne /\ UNCHANGED Owners
  /\ Returns(c) /\ Unlocked(c)
  /\ UNCHANGED <<kinds, up>> /\ NoFault /\ Running(c)

(* IBKR does not reconnect.                                                *)
ConnectionLost ==
  /\ RouteFault
  /\ \E a \in up : Kind(a) = "ibkr" /\ up' = up \ {a}
  /\ UNCHANGED <<kinds, ownerLock, routeCall, overlapping, callsMade>>
  /\ UNCHANGED Registry /\ UNCHANGED Owners

RolesNext ==
  \/ \E c \in RouteCalls :
       \/ ConnectPolygon(c) \/ ConnectFinnhub(c) \/ ConnectIBKR(c)
       \/ AdapterConnected(c) \/ AdapterRefused(c)
       \/ OldDisconnected(c) \/ Installs(c) \/ TakeOverFails(c) \/ CleanedUp(c)
       \/ DisconnectFinnhub(c) \/ DisconnectPolygon(c) \/ DisconnectBroker(c) \/ Left(c)
  \/ ConnectionLost

RolesSpec == RolesInit /\ [][RolesNext]_rolesVars

Roles == {NoOne} \cup Adapters
AtRest == \A c \in RouteCalls : routeCall[c].op = "none"

RolesTypeOK ==
  /\ up \subseteq 1 .. Len(kinds)
  /\ {polygon, finnhub, streamingRole, historical} \subseteq Roles
  /\ AtRest => ownerLock = NoOne

(* A connected Finnhub can always be disconnected by its route, however    *)
(* the calls of all routes interleave: that is what its lock is for.       *)
FinnhubOwned == ownerLock = NoOne => \A a \in up : Kind(a) = "finnhub" => a = finnhub

(* As long as calls come one after the other: Polygon is its route's, too; *)
(* an active Finnhub streams; whoever has a role is connected, unless IBKR *)
(* was lost or a take-over failed after the old provider was disconnected. *)
RolesHonest ==
  AtRest /\ ~overlapping =>
    /\ \A a \in up : Kind(a) = "polygon" => a = polygon
    /\ finnhub \in up => streamingRole = finnhub
    /\ routeFaults = 0 => {streamingRole, historical} \ {NoOne} \subseteq up
=============================================================================
