------------------------------- MODULE IBKRFeed -------------------------------
(***************************************************************************)
(* broker_adapters/ibkr_adapter.py while it streams: the routes, the       *)
(* scanner's universe and the protected feed ask one adapter for symbols   *)
(* and nothing keeps their calls apart.  Routes make an adapter for every  *)
(* connection, so a link that went down does not come up again.            *)
(***************************************************************************)
EXTENDS Naturals

CONSTANTS
  IBCallers, IBSymbols, UnknownSymbols,  \* those IB does not resolve
  MaxIBCalls                             \* bound

ASSUME IBKRAssumption == UnknownSymbols \subseteq IBSymbols

VARIABLES
  link,        \* "new", "up" or "down"
  contracts,   \* _contracts: the symbols recorded as requested
  streams,     \* requests for market data IB serves, by symbol
  ibCall,      \* what each caller's call is doing
  crossed,     \* (history) symbols two calls asked for at a time
  ibCallsMade

ibkrVars == <<link, contracts, streams, ibCall, crossed, ibCallsMade>>

IBIdle == [op |-> "none", symbol |-> "none"]

IBKRInit ==
  /\ link = "new" /\ contracts = {} /\ streams = [s \in IBSymbols |-> 0]
  /\ ibCall = [c \in IBCallers |-> IBIdle] /\ crossed = {} /\ ibCallsMade = 0

IBCalls(c) == ibCall[c] = IBIdle /\ ibCallsMade < MaxIBCalls /\ ibCallsMade' = ibCallsMade + 1
IBAwaits(c, op, s) == ibCall' = [ibCall EXCEPT ![c] = [op |-> op, symbol |-> s]]
IBReturns(c) == ibCall' = [ibCall EXCEPT ![c] = IBIdle]
Unqualified == {ibCall[c].symbol : c \in {c \in IBCallers : ibCall[c].op = "subscribe"}}

ConnectLink ==
  /\ link = "new" /\ link' = "up"
  /\ UNCHANGED <<contracts, streams, ibCall, crossed, ibCallsMade>>

(* mutant: a symbol that is on record is asked for again                   *)
MustRequest_Always(s) == TRUE

MustRequest(s) == s \notin contracts

(* A symbol that is recorded is not asked for again; any other is first    *)
(* qualified.                                                              *)
SubscribeSymbol(c, s) ==
  /\ link # "new" /\ IBCalls(c)
  /\ IF ~MustRequest(s) THEN UNCHANGED <<ibCall, crossed>>
     ELSE /\ IBAwaits(c, "subscribe", s)
          /\ crossed' = IF s \in Unqualified THEN crossed \cup {s} ELSE crossed
  /\ UNCHANGED <<link, contracts, streams>>

(* Qualified, it is requested and recorded at once.                        *)
RequestSymbol(c) ==
  /\ ibCall[c].op = "subscribe" /\ link = "up" /\ ibCall[c].symbol \notin UnknownSymbols
  /\ streams' = [streams EXCEPT ![ibCall[c].symbol] = @ + 1]
  /\ contracts' = contracts \cup {ibCall[c].symbol} /\ IBReturns(c)
  /\ UNCHANGED <<link, crossed, ibCallsMade>>

(* The symbol is not found, or the link is down and the request raises.    *)
RequestRaises(c) ==
  /\ ibCall[c].op \in {"subscribe", "history"}
  /\ link = "down" \/ ibCall[c].symbol \in UnknownSymbols
  /\ IBReturns(c)
  /\ UNCHANGED <<link, contracts, streams, crossed, ibCallsMade>>

(* mutant: a symbol that is unsubscribed stays on record                   *)
Withdrawn_Kept(s) == contracts

Withdrawn(s) == contracts \ {s}

(* What is recorded is cancelled, one request of it.                       *)
UnsubscribeSymbol(c, s) ==
  /\ link # "new" /\ IBCalls(c)
  /\ contracts' = Withdrawn(s)
  /\ streams' = IF s \in contracts /\ streams[s] > 0 THEN [streams EXCEPT ![s] = @ - 1] ELSE streams
  /\ UNCHANGED <<link, ibCall, crossed>>

(* get_historical: a contract on record is used, any other is qualified    *)
(* and never recorded.                                                     *)
ReadIBHistory(c, s) ==
  /\ link = "up" /\ IBCalls(c) /\ IBAwaits(c, "history", s)
  /\ UNCHANGED <<link, contracts, streams, crossed>>

IBHistoryRead(c) ==
  /\ ibCall[c].op = "history" /\ link = "up"
  /\ ibCall[c].symbol \notin UnknownSymbols /\ IBReturns(c)
  /\ UNCHANGED <<link, contracts, streams, crossed, ibCallsMade>>

(* mutant: the record outlives the connection                              *)
AfterLoss_Kept == contracts

AfterLoss == {}

(* disconnect(), or the connection is lost: what was requested is gone.    *)
(* What ib_async does is external: it fails what is under way, and refuses *)
(* every request from now on.                                              *)
LinkDown ==
  /\ link = "up" /\ link' = "down" /\ contracts' = AfterLoss
  /\ streams' = [s \in IBSymbols |-> 0]
  /\ UNCHANGED <<ibCall, crossed, ibCallsMade>>

IBKRNext ==
  \/ ConnectLink \/ LinkDown
  \/ \E c \in IBCallers :
       \/ RequestSymbol(c) \/ RequestRaises(c) \/ IBHistoryRead(c)
       \/ \E s \in IBSymbols : SubscribeSymbol(c, s) \/ UnsubscribeSymbol(c, s) \/ ReadIBHistory(c, s)

---------------------------------------------------------------------------
IBKRTypeOK ==
  /\ contracts \subseteq IBSymbols /\ \A s \in IBSymbols : streams[s] \in 0 .. ibCallsMade
  /\ crossed \subseteq IBSymbols

(* What the inventory names is served: nobody skips a symbol for being on  *)
(* record when IB sends nothing of it.                                     *)
InventoryServed == \A s \in contracts : link = "up" /\ streams[s] > 0

(* What IB serves is on record and so can be cancelled, unless two calls   *)
(* asked for it at a time: one of their requests outlives the record.      *)
ServedIsRecorded ==
  \A s \in IBSymbols \ crossed : streams[s] <= 1 /\ (streams[s] = 1 => s \in contracts)
=============================================================================
