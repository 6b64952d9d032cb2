---------------------------- MODULE ServicesProofs ----------------------------
(***************************************************************************)
(* The services, for every value of the constants.  Each has an invariant  *)
(* of its own, a lemma that it begins with it and a lemma that its steps   *)
(* keep it; the composition joins the eleven, for a step is one service's. *)
(***************************************************************************)
EXTENDS MCServices, FiniteSetTheorems, SequenceTheorems, WellFoundedInduction, TLAPS

(***************************************************************************)
(* The IBKR adapter.  A symbol that one call asks for, and no other at the *)
(* time, is neither requested nor on record until the call has requested   *)
(* it.                                                                     *)
(***************************************************************************)
AsksFor(c, s) == ibCall[c].op = "subscribe" /\ ibCall[c].symbol = s

AskedOnce ==
  \A c \in IBCallers, s \in IBSymbols \ crossed :
    AsksFor(c, s) => streams[s] = 0 /\ \A d \in IBCallers : AsksFor(d, s) => d = c

IBKRInv ==
  /\ contracts \subseteq IBSymbols /\ streams \in [IBSymbols -> Nat]
  /\ ibCall \in [IBCallers -> [op : {"none", "subscribe", "history"},
                               symbol : IBSymbols \cup {"none"}]]
  /\ \A c \in IBCallers : ibCall[c].op # "none" => ibCall[c].symbol \in IBSymbols
  /\ contracts # {} => link = "up"
  /\ InventoryServed /\ ServedIsRecorded /\ AskedOnce

LEMMA IBKRStart == IBKRInit => IBKRInv
<1> SUFFICES ASSUME IBKRInit
             PROVE  IBKRInv
  OBVIOUS
<1> USE DEF IBKRInit, IBIdle
<1>1. streams \in [IBSymbols -> Nat] /\ \A s \in IBSymbols : streams[s] = 0
  OBVIOUS
<1>2. InventoryServed /\ ServedIsRecorded
  BY <1>1 DEF InventoryServed, ServedIsRecorded
<1>3. AskedOnce
  BY DEF AskedOnce, AsksFor
<1> QED BY <1>1, <1>2, <1>3 DEF IBKRInv

LEMMA IBKRStep == IBKRInv /\ [IBKRNext]_ibkrVars => IBKRInv'
<1> SUFFICES ASSUME IBKRInv, [IBKRNext]_ibkrVars
             PROVE  IBKRInv'
  OBVIOUS
<1> USE DEF IBKRInv
<1>1. ASSUME UNCHANGED ibkrVars
      PROVE  IBKRInv'
  BY <1>1 DEF ibkrVars, InventoryServed, ServedIsRecorded, AskedOnce, AsksFor
<1>2. CASE ConnectLink
  BY <1>2 DEF ConnectLink, InventoryServed, ServedIsRecorded, AskedOnce, AsksFor
<1>3. CASE LinkDown
  BY <1>3 DEF LinkDown, AfterLoss, InventoryServed, ServedIsRecorded, AskedOnce, AsksFor
<1>4. ASSUME NEW c \in IBCallers, NEW s \in IBSymbols, SubscribeSymbol(c, s)
      PROVE  IBKRInv'
  <2> USE <1>4 DEF SubscribeSymbol, IBCalls, IBAwaits, IBIdle, MustRequest
  <2>1. /\ contracts' = contracts /\ streams' = streams /\ link' = link
        /\ crossed \subseteq crossed'
    OBVIOUS
  <2>2. InventoryServed' /\ ServedIsRecorded'
    BY <2>1 DEF InventoryServed, ServedIsRecorded
  <2>3. /\ ibCall' \in [IBCallers -> [op : {"none", "subscribe", "history"},
                                       symbol : IBSymbols \cup {"none"}]]
        /\ \A d \in IBCallers : ibCall'[d].op # "none" => ibCall'[d].symbol \in IBSymbols
    OBVIOUS
  <2>4. AskedOnce'
    <3>1. CASE s \in contracts
      BY <2>1, <3>1 DEF AskedOnce, AsksFor
    <3>2. CASE s \notin contracts
      <4>1. \A d \in IBCallers : ibCall'[d] = IF d = c THEN [op |-> "subscribe", symbol |-> s]
                                              ELSE ibCall[d]
        BY <3>2
      <4>2. s \notin crossed' => /\ streams[s] = 0
                                 /\ \A d \in IBCallers : ~AsksFor(d, s)
        <5>1. s \notin crossed' => s \notin Unqualified /\ s \notin crossed
          BY <3>2
        <5>2. s \notin Unqualified => \A d \in IBCallers : ~AsksFor(d, s)
          BY DEF Unqualified, AsksFor
        <5>3. s \notin crossed => streams[s] = 0
          <6>1. s \notin crossed => streams[s] <= 1 /\ streams[s] # 1
            BY <3>2 DEF ServedIsRecorded
          <6>2. streams[s] \in Nat
            OBVIOUS
          <6> QED BY ONLY <6>1, <6>2
        <5> QED BY <5>1, <5>2, <5>3
      <4>3. ASSUME NEW d \in IBCallers, NEW t \in IBSymbols \ crossed', AsksFor(d, t)'
            PROVE  streams'[t] = 0 /\ \A e \in IBCallers : AsksFor(e, t)' => e = d
        <5>1. CASE t = s
          BY <2>1, <4>1, <4>2, <4>3, <5>1 DEF AsksFor
        <5>2. CASE t # s
          <6>1. \A e \in IBCallers : AsksFor(e, t)' => AsksFor(e, t)
            BY <4>1, <5>2 DEF AsksFor
          <6> QED BY <2>1, <4>3, <6>1 DEF AskedOnce
        <5> QED BY <5>1, <5>2
      <4> QED BY <4>3 DEF AskedOnce
    <3> QED BY <3>1, <3>2
  <2> QED BY <2>1, <2>2, <2>3, <2>4
<1>5. ASSUME NEW c \in IBCallers, NEW s \in IBSymbols, UnsubscribeSymbol(c, s)
      PROVE  IBKRInv'
  <2> USE <1>5 DEF UnsubscribeSymbol, Withdrawn
  <2>1. /\ contracts' = contracts \ {s} /\ link' = link /\ ibCall' = ibCall /\ crossed' = crossed
        /\ \A t \in IBSymbols \ {s} : streams'[t] = streams[t]
        /\ streams'[s] = IF s \in contracts /\ streams[s] > 0 THEN streams[s] - 1 ELSE streams[s]
        /\ streams' \in [IBSymbols -> Nat]
    OBVIOUS
  <2> HIDE <1>5 DEF UnsubscribeSymbol, Withdrawn
  <2>2. InventoryServed'
    BY <2>1 DEF InventoryServed
  <2>3. ServedIsRecorded'
    BY <2>1 DEF ServedIsRecorded
  <2>4. AskedOnce'
    BY <2>1 DEF AskedOnce, AsksFor
  <2> QED BY <2>1, <2>2, <2>3, <2>4
<1>6. ASSUME NEW c \in IBCallers, RequestSymbol(c)
      PROVE  IBKRInv'
  <2> DEFINE s == ibCall[c].symbol
  <2>1. /\ s \in IBSymbols /\ AsksFor(c, s) /\ link' = link /\ link = "up" /\ crossed' = crossed
        /\ contracts' = contracts \cup {s}
        /\ \A t \in IBSymbols \ {s} : streams'[t] = streams[t]
        /\ streams'[s] = streams[s] + 1
        /\ streams' \in [IBSymbols -> Nat]
        /\ ibCall' = [ibCall EXCEPT ![c] = IBIdle]
    BY <1>6 DEF RequestSymbol, IBReturns, AsksFor
  <2> HIDE DEF s
  <2>2. /\ ibCall' \in [IBCallers -> [op : {"none", "subscribe", "history"},
                                       symbol : IBSymbols \cup {"none"}]]
        /\ \A d \in IBCallers : ibCall'[d] = IF d = c THEN IBIdle ELSE ibCall[d]
    BY <2>1 DEF IBIdle
  <2>3. \A d \in IBCallers, t \in IBSymbols : AsksFor(d, t)' => AsksFor(d, t) /\ d # c
    BY <2>2 DEF AsksFor, IBIdle
  <2>4. s \notin crossed => streams[s] = 0 /\ \A d \in IBCallers : AsksFor(d, s) => d = c
    BY <2>1 DEF AskedOnce
  <2>5. InventoryServed'
    BY <2>1 DEF InventoryServed
  <2>6. ServedIsRecorded'
    BY <2>1, <2>4 DEF ServedIsRecorded
  <2>7. AskedOnce'
    <3> SUFFICES ASSUME NEW d \in IBCallers, NEW t \in IBSymbols \ crossed, AsksFor(d, t)'
                 PROVE  streams'[t] = 0 /\ \A e \in IBCallers : AsksFor(e, t)' => e = d
      BY <2>1 DEF AskedOnce
    <3>1. AsksFor(d, t) /\ d # c
      BY <2>3
    <3>2. t # s
      BY <2>4, <3>1
    <3> QED BY <2>1, <2>3, <3>1, <3>2 DEF AskedOnce
  <2> QED BY <2>1, <2>2, <2>5, <2>6, <2>7 DEF IBIdle
<1>7. ASSUME NEW c \in IBCallers, RequestRaises(c) \/ IBHistoryRead(c)
      PROVE  IBKRInv'
  <2>1. /\ contracts' = contracts /\ streams' = streams /\ link' = link /\ crossed' = crossed
        /\ ibCall' = [ibCall EXCEPT ![c] = IBIdle]
    BY <1>7 DEF RequestRaises, IBHistoryRead, IBReturns
  <2>2. InventoryServed' /\ ServedIsRecorded'
    BY <2>1 DEF InventoryServed, ServedIsRecorded
  <2>3. \A d \in IBCallers, t \in IBSymbols : AsksFor(d, t)' => AsksFor(d, t)
    BY <2>1 DEF AsksFor, IBIdle
  <2>4. AskedOnce'
    BY <2>1, <2>3 DEF AskedOnce
  <2> QED BY <2>1, <2>2, <2>4 DEF IBIdle
<1>8. ASSUME NEW c \in IBCallers, NEW s \in IBSymbols, ReadIBHistory(c, s)
      PROVE  IBKRInv'
  <2>1. /\ contracts' = contracts /\ streams' = streams /\ link' = link /\ crossed' = crossed
        /\ ibCall' = [ibCall EXCEPT ![c] = [op |-> "history", symbol |-> s]]
    BY <1>8 DEF ReadIBHistory, IBAwaits
  <2>2. InventoryServed' /\ ServedIsRecorded'
    BY <2>1 DEF InventoryServed, ServedIsRecorded
  <2>3. \A d \in IBCallers, t \in IBSymbols : AsksFor(d, t)' => AsksFor(d, t)
    BY <2>1 DEF AsksFor
  <2>4. AskedOnce'
    BY <2>1, <2>3 DEF AskedOnce
  <2> QED BY <2>1, <2>2, <2>4
<1> HIDE DEF IBKRInv
<1> QED BY <1>1, <1>2, <1>3, <1>4, <1>5, <1>6, <1>7, <1>8 DEF IBKRNext

(***************************************************************************)
(* The event bus.  Envelopes are numbered as they are published, so a lane *)
(* holds them in order, after the one it hands out and those it has handed *)
(* out before.                                                             *)
(***************************************************************************)
BusTyped ==
  /\ published \in Nat /\ subscribed \subseteq Handlers
  /\ lanes \in [Lanes -> Seq(Nat)]
  /\ current \in [Lanes -> Nat]
  /\ calls \in [Lanes -> SUBSET Handlers]
  /\ received \in [Handlers -> [Lanes -> Seq(Nat)]]
  /\ DOMAIN missed = Handlers

LaneSorted(l) ==
  \A i \in 1 .. Len(lanes[l]) :
    /\ current[l] < lanes[l][i] /\ lanes[l][i] <= published
    /\ \A j \in 1 .. i - 1 : lanes[l][j] < lanes[l][i]

ReceivedBefore(h, l) ==
  \A i \in 1 .. Len(received[h][l]) :
    /\ received[h][l][i] <= current[l]
    /\ h \in calls[l] => received[h][l][i] < current[l]

StrangersMiss == \A h \in Handlers \ subscribed : Waiting \subseteq missed[h]

BusInv ==
  /\ BusTyped
  /\ \A l \in Lanes : current[l] <= published /\ LaneSorted(l)
  /\ \A h \in Handlers, l \in Lanes : ReceivedBefore(h, l)
  /\ StrangersMiss /\ LaneOrder /\ NothingDropped

LEMMA WaitingIs ==
  ASSUME BusTyped, NEW e
  PROVE  e \in Waiting <=> \E l \in Lanes : \E i \in 1 .. Len(lanes[l]) : lanes[l][i] = e
<1>1. \A l \in Lanes : DOMAIN lanes[l] = 1 .. Len(lanes[l])
  BY DEF BusTyped
<1> QED BY <1>1 DEF Waiting, Range

LEMMA BusStart == BusInit => BusInv
<1> SUFFICES ASSUME BusInit
             PROVE  BusInv
  OBVIOUS
<1> USE DEF BusInit, None
<1>1. BusTyped
  BY DEF BusTyped
<1>2. \A l \in Lanes : lanes[l] = <<>> /\ current[l] = 0
  OBVIOUS
<1>3. \A h \in Handlers, l \in Lanes : received[h][l] = <<>>
  OBVIOUS
<1>4. \A e : e \notin Waiting
  BY <1>1, <1>2, WaitingIs
<1>5. \A l \in Lanes : current[l] <= published /\ LaneSorted(l)
  BY <1>2 DEF LaneSorted
<1>6. LaneOrder /\ \A h \in Handlers, l \in Lanes : ReceivedBefore(h, l)
  BY <1>3 DEF LaneOrder, ReceivedBefore
<1>7. StrangersMiss /\ NothingDropped
  BY <1>4 DEF StrangersMiss, NothingDropped
<1> QED BY <1>1, <1>5, <1>6, <1>7 DEF BusInv

(* What is kept by a step that leaves lanes, envelopes and receipts alone. *)
LEMMA LanesStand ==
  ASSUME BusInv, UNCHANGED <<lanes, current, received, published>>, BusTyped',
         \A l \in Lanes : calls'[l] \subseteq calls[l]
  PROVE  /\ \A l \in Lanes : current'[l] <= published' /\ LaneSorted(l)'
         /\ \A h \in Handlers, l \in Lanes : ReceivedBefore(h, l)'
         /\ LaneOrder' /\ Waiting' = Waiting
<1>1. \A l \in Lanes : current'[l] <= published' /\ LaneSorted(l)'
  BY DEF BusInv, LaneSorted
<1>2. \A h \in Handlers, l \in Lanes : ReceivedBefore(h, l)'
  BY DEF BusInv, ReceivedBefore
<1>3. LaneOrder'
  BY DEF BusInv, LaneOrder
<1>4. Waiting' = Waiting
  BY DEF Waiting
<1> QED BY <1>1, <1>2, <1>3, <1>4

LEMMA PublishKeeps ==
  ASSUME BusInv, NEW l \in Lanes, Publish(l)
  PROVE  BusInv'
<1> DEFINE e == published + 1
<1>1. /\ published' = e /\ e \in Nat /\ lanes' = [lanes EXCEPT ![l] = Append(@, e)]
      /\ missed' = [h \in Handlers |-> IF h \in subscribed THEN missed[h] ELSE missed[h] \cup {e}]
      /\ UNCHANGED <<running, current, calls, subscribed, received, stops>>
      /\ published \in Nat /\ published < e
  BY DEF Publish, BusInv, BusTyped
<1> HIDE DEF e
<1>t. BusTyped
  BY DEF BusInv
<1>2. BusTyped'
  BY <1>1, <1>t DEF BusTyped
<1>3. /\ Len(lanes'[l]) = Len(lanes[l]) + 1 /\ Len(lanes[l]) \in Nat
      /\ lanes'[l][Len(lanes[l]) + 1] = e
      /\ \A i \in 1 .. Len(lanes[l]) : lanes'[l][i] = lanes[l][i]
      /\ \A k \in Lanes : k # l => lanes'[k] = lanes[k]
  BY <1>1, <1>t DEF BusTyped
<1>4. \A x : x \in Waiting' <=> x \in Waiting \/ x = e
  <2> TAKE x
  <2>1. x \in Waiting <=> \E k \in Lanes : \E i \in 1 .. Len(lanes[k]) : lanes[k][i] = x
    BY <1>t, WaitingIs
  <2>2. x \in Waiting' <=> \E k \in Lanes : \E i \in 1 .. Len(lanes'[k]) : lanes'[k][i] = x
    <3>1. \A k \in Lanes : DOMAIN lanes'[k] = 1 .. Len(lanes'[k])
      BY <1>2 DEF BusTyped
    <3> QED BY <3>1 DEF Waiting, Range
  <2>3. ASSUME NEW k \in Lanes, NEW i \in 1 .. Len(lanes[k]), lanes[k][i] = x
        PROVE  \E j \in 1 .. Len(lanes'[k]) : lanes'[k][j] = x
    <3>1. CASE k = l
      BY <1>3, <2>3, <3>1
    <3>2. CASE k # l
      BY <1>3, <2>3, <3>2
    <3> QED BY <3>1, <3>2
  <2>4. ASSUME NEW k \in Lanes, NEW i \in 1 .. Len(lanes'[k]), lanes'[k][i] = x, x # e
        PROVE  \E j \in 1 .. Len(lanes[k]) : lanes[k][j] = x
    <3>1. CASE k = l
      BY <1>3, <2>4, <3>1
    <3>2. CASE k # l
      BY <1>3, <2>4, <3>2
    <3> QED BY <3>1, <3>2
  <2>5. \E j \in 1 .. Len(lanes'[l]) : lanes'[l][j] = e
    BY <1>3
  <2> QED BY <2>1, <2>2, <2>3, <2>4, <2>5
<1>5. ASSUME NEW k \in Lanes
      PROVE  current'[k] <= published' /\ LaneSorted(k)'
  <2>1. current[k] \in Nat /\ current[k] <= published /\ LaneSorted(k)
        /\ \A i \in 1 .. Len(lanes[k]) : lanes[k][i] \in Nat
    BY <1>t DEF BusInv, BusTyped
  <2>2. CASE k = l
    <3> SUFFICES ASSUME NEW i \in 1 .. Len(lanes[l]) + 1
                 PROVE  /\ current[l] < lanes'[l][i] /\ lanes'[l][i] <= e
                        /\ \A j \in 1 .. i - 1 : lanes'[l][j] < lanes'[l][i]
      BY <1>1, <1>3, <2>1, <2>2 DEF LaneSorted
    <3>1. CASE i = Len(lanes[l]) + 1
      BY <1>1, <1>3, <2>1, <2>2, <3>1 DEF LaneSorted
    <3>2. CASE i # Len(lanes[l]) + 1
      BY <1>1, <1>3, <2>1, <2>2, <3>2 DEF LaneSorted
    <3> QED BY <3>1, <3>2
  <2>3. CASE k # l
    BY <1>1, <1>3, <2>1, <2>3 DEF LaneSorted
  <2> QED BY <2>2, <2>3
<1>6. LaneOrder' /\ \A h \in Handlers, k \in Lanes : ReceivedBefore(h, k)'
  BY <1>1 DEF BusInv, LaneOrder, ReceivedBefore
<1>7. StrangersMiss'
  BY <1>1, <1>4 DEF BusInv, StrangersMiss
<1>8. NothingDropped'
  <2> SUFFICES ASSUME NEW h \in Handlers, NEW x \in (1 .. e) \ (missed'[h] \cup Waiting')
               PROVE  \E k \in Lanes : x \in Range(received[h][k]) \/ (x = current[k] /\ h \in calls[k])
    BY <1>1 DEF NothingDropped
  <2>1. x # e /\ x \notin Waiting /\ x \notin missed[h]
    BY <1>1, <1>4
  <2>2. x \in 1 .. published
    BY <1>1, <2>1 DEF e
  <2> QED BY <2>1, <2>2 DEF BusInv, NothingDropped
<1> QED BY <1>2, <1>5, <1>6, <1>7, <1>8 DEF BusInv

LEMMA TakeKeeps ==
  ASSUME BusInv, NEW l \in Lanes, Take(l)
  PROVE  BusInv'
<1> DEFINE e == lanes[l][1]
<1>t. BusTyped
  BY DEF BusInv
<1>1. /\ lanes[l] # <<>> /\ lanes[l] \in Seq(Nat) /\ Head(lanes[l]) = e /\ e \in Nat
      /\ Len(lanes[l]) \in Nat \ {0}
      /\ Tail(lanes[l]) \in Seq(Nat) /\ Len(Tail(lanes[l])) = Len(lanes[l]) - 1
      /\ \A i \in 1 .. Len(lanes[l]) - 1 : Tail(lanes[l])[i] = lanes[l][i + 1]
  BY <1>t DEF Take, BusTyped
<1> HIDE DEF e
<1>2. /\ current' = [current EXCEPT ![l] = e] /\ lanes' = [lanes EXCEPT ![l] = Tail(@)]
      /\ calls' = [calls EXCEPT ![l] = subscribed] /\ calls[l] = {}
      /\ UNCHANGED <<running, subscribed, published, received, missed, stops>>
  BY <1>1 DEF Take, Ready
<1>3. BusTyped'
  BY <1>1, <1>2, <1>t DEF BusTyped
<1>4. /\ current[l] < e /\ e <= published
      /\ \A i \in 2 .. Len(lanes[l]) : e < lanes[l][i]
  BY <1>1 DEF BusInv, LaneSorted, e
<1>5. ASSUME NEW x, x \in Waiting
      PROVE  x \in Waiting' \/ x = e
  <2>1. PICK k \in Lanes : \E i \in 1 .. Len(lanes[k]) : lanes[k][i] = x
    BY <1>5, <1>t, WaitingIs
  <2>i. PICK i \in 1 .. Len(lanes[k]) : lanes[k][i] = x
    BY <2>1
  <2>2. \A m \in Lanes : DOMAIN lanes'[m] = 1 .. Len(lanes'[m])
    BY <1>3 DEF BusTyped
  <2>3. CASE k = l /\ i # 1
    <3>1. i - 1 \in 1 .. Len(lanes[l]) - 1 /\ Tail(lanes[l])[i - 1] = x
      BY <1>1, <2>i, <2>3
    <3>2. lanes'[l] = Tail(lanes[l])
      BY <1>2, <1>t DEF BusTyped
    <3>3. i - 1 \in DOMAIN lanes'[l] /\ lanes'[l][i - 1] = x
      BY <1>1, <2>2, <3>1, <3>2
    <3> QED BY <3>3 DEF Waiting, Range
  <2>4. CASE k # l
    BY <1>2, <1>t, <2>i, <2>2, <2>4 DEF BusTyped, Waiting, Range
  <2>5. CASE k = l /\ i = 1
    BY <2>i, <2>5 DEF e
  <2> QED BY <2>3, <2>4, <2>5
<1>6. ASSUME NEW x, x \in Waiting'
      PROVE  x \in Waiting
  <2>1. \A m \in Lanes : DOMAIN lanes'[m] = 1 .. Len(lanes'[m])
    BY <1>3 DEF BusTyped
  <2>2. PICK k \in Lanes : \E i \in 1 .. Len(lanes'[k]) : lanes'[k][i] = x
    BY <1>6, <2>1 DEF Waiting, Range
  <2>i. PICK i \in 1 .. Len(lanes'[k]) : lanes'[k][i] = x
    BY <2>2
  <2>3. CASE k = l
    <3>1. lanes'[l] = Tail(lanes[l])
      BY <1>2, <1>t DEF BusTyped
    <3>2. i \in 1 .. Len(lanes[l]) - 1 /\ Tail(lanes[l])[i] = x
      BY <1>1, <2>i, <2>3, <3>1
    <3>3. lanes[l][i + 1] = x
      BY <1>1, <3>2
    <3>4. i + 1 \in 1 .. Len(lanes[l])
      BY <1>1, <3>2
    <3> QED BY <1>t, <3>3, <3>4, WaitingIs
  <2>4. CASE k # l
    BY <1>2, <1>t, <2>i, <2>4, WaitingIs DEF BusTyped
  <2> QED BY <2>3, <2>4
<1>7. e \in Waiting
  BY <1>1, <1>t, WaitingIs DEF e
<1>8. ASSUME NEW k \in Lanes
      PROVE  current'[k] <= published' /\ LaneSorted(k)'
  <2>1. CASE k = l
    <3>1. lanes'[l] = Tail(lanes[l]) /\ current'[l] = e
      BY <1>2, <1>t DEF BusTyped
    <3>2. LaneSorted(l)
      BY DEF BusInv
    <3>3. ASSUME NEW i \in 1 .. Len(lanes[l]) - 1
          PROVE  /\ e < Tail(lanes[l])[i] /\ Tail(lanes[l])[i] <= published
                 /\ \A j \in 1 .. i - 1 : Tail(lanes[l])[j] < Tail(lanes[l])[i]
      <4>1. i + 1 \in 2 .. Len(lanes[l]) /\ i + 1 \in 1 .. Len(lanes[l])
        BY <1>1
      <4>2. /\ lanes[l][i + 1] <= published
            /\ \A j \in 1 .. i : lanes[l][j] < lanes[l][i + 1]
        BY <3>2, <4>1 DEF LaneSorted
      <4>3. \A j \in 1 .. i - 1 : j + 1 \in 1 .. i /\ Tail(lanes[l])[j] = lanes[l][j + 1]
        BY <1>1
      <4> QED BY <1>1, <1>4, <4>1, <4>2, <4>3
    <3>4. Len(lanes'[l]) = Len(lanes[l]) - 1
      BY <1>1, <3>1
    <3> QED BY <1>2, <1>4, <2>1, <3>1, <3>3, <3>4 DEF LaneSorted
  <2>2. CASE k # l
    BY <1>2, <1>t, <2>2 DEF BusInv, BusTyped, LaneSorted
  <2> QED BY <2>1, <2>2
<1>9. ASSUME NEW h \in Handlers, NEW k \in Lanes
      PROVE  ReceivedBefore(h, k)'
  <2>1. CASE k = l
    <3>1. ReceivedBefore(h, l) /\ received[h][l] \in Seq(Nat)
      BY <1>t DEF BusInv, BusTyped
    <3>2. \A i \in 1 .. Len(received[h][l]) : received[h][l][i] \in Nat
      BY <3>1
    <3>3. \A i \in 1 .. Len(received[h][l]) : received[h][l][i] <= current[l]
      BY <3>1 DEF ReceivedBefore
    <3>4. current'[l] = e /\ current[l] \in Nat /\ e \in Nat /\ current[l] < e
      BY <1>1, <1>2, <1>4, <1>t DEF BusTyped
    <3>5. received' = received
      BY <1>2
    <3>6. \A i \in 1 .. Len(received[h][l]) : received[h][l][i] < e
      BY <3>2, <3>3, <3>4
    <3>7. \A i \in 1 .. Len(received'[h][l]) : received'[h][l][i] < current'[l]
      BY ONLY <3>4, <3>5, <3>6
    <3>8. \A i \in 1 .. Len(received'[h][l]) : received'[h][l][i] \in Nat /\ current'[l] \in Nat
      BY ONLY <3>2, <3>4, <3>5
    <3>9. ReceivedBefore(h, l)'
      BY <3>7, <3>8 DEF ReceivedBefore
    <3> QED BY ONLY <2>1, <3>9
  <2>2. CASE k # l
    BY <1>2, <1>t, <2>2 DEF BusInv, BusTyped, ReceivedBefore
  <2> QED BY <2>1, <2>2
<1>10. StrangersMiss' /\ LaneOrder'
  BY <1>2, <1>6 DEF BusInv, StrangersMiss, LaneOrder
<1>11. NothingDropped'
  <2> SUFFICES ASSUME NEW h \in Handlers, NEW x \in (1 .. published) \ (missed[h] \cup Waiting')
               PROVE  \E k \in Lanes : x \in Range(received[h][k]) \/ (x = current'[k] /\ h \in calls'[k])
    BY <1>2 DEF NothingDropped
  <2>1. CASE x \in Waiting
    <3>1. x = e
      BY <1>5, <2>1
    <3>2. h \in subscribed
      BY <2>1 DEF BusInv, StrangersMiss
    <3> QED BY <1>2, <1>t, <3>1, <3>2 DEF BusTyped
  <2>2. CASE x \notin Waiting
    <3>1. PICK k \in Lanes : x \in Range(received[h][k]) \/ (x = current[k] /\ h \in calls[k])
      BY <2>2 DEF BusInv, NothingDropped
    <3>2. h \in calls[k] => k # l
      BY <1>2
    <3> QED BY <1>2, <1>t, <3>1, <3>2 DEF BusTyped
  <2> QED BY <2>1, <2>2
<1> QED BY <1>3, <1>8, <1>9, <1>10, <1>11 DEF BusInv

LEMMA ReturnKeeps ==
  ASSUME BusInv, NEW l \in Lanes, NEW h \in Handlers, Return(l, h)
  PROVE  BusInv'
<1>t. BusTyped
  BY DEF BusInv
<1>1. /\ h \in calls[l] /\ calls' = [calls EXCEPT ![l] = @ \ {h}]
      /\ received' = [received EXCEPT ![h][l] = Append(@, current[l])]
      /\ UNCHANGED <<running, lanes, current, subscribed, published, missed, stops>>
  BY DEF Return
<1>2. /\ \A k \in Lanes : calls'[k] = IF k = l THEN calls[l] \ {h} ELSE calls[k]
      /\ \A g \in Handlers, k \in Lanes : g # h \/ k # l => received'[g][k] = received[g][k]
      /\ received'[h][l] = Append(received[h][l], current[l])
      /\ received[h][l] \in Seq(Nat) /\ current[l] \in Nat
  BY <1>1, <1>t DEF BusTyped
<1> DEFINE r == received[h][l]
           n == Len(r)
           s == received'[h][l]
<1>3. /\ n \in Nat /\ s \in Seq(Nat) /\ Len(s) = n + 1 /\ s[n + 1] = current[l]
      /\ \A i \in 1 .. n : s[i] = r[i]
      /\ DOMAIN s = 1 .. n + 1 /\ DOMAIN r = 1 .. n
  BY <1>2
<1>4. BusTyped'
  <2>1. received' \in [Handlers -> [Lanes -> Seq(Nat)]]
    BY <1>1, <1>2, <1>t DEF BusTyped
  <2> QED BY <1>1, <1>2, <1>t, <2>1 DEF BusTyped
<1>5. \A i \in 1 .. n : r[i] < current[l] /\ r[i] \in Nat
  BY <1>1, <1>2 DEF BusInv, ReceivedBefore
<1>6. \A k \in Lanes : current'[k] <= published' /\ LaneSorted(k)'
  BY <1>1 DEF BusInv, LaneSorted
<1>7. ASSUME NEW g \in Handlers, NEW k \in Lanes
      PROVE  ReceivedBefore(g, k)'
  <2>1. CASE g = h /\ k = l
    <3>1. \A i \in 1 .. n + 1 : s[i] <= current[l]
      <4> TAKE i \in 1 .. n + 1
      <4>1. CASE i = n + 1
        BY <1>2, <1>3, <4>1
      <4>2. CASE i # n + 1
        <5>1. i \in 1 .. n
          BY <1>3, <4>2
        <5>2. s[i] = r[i] /\ r[i] < current[l]
          BY <1>3, <1>5, <5>1
        <5>3. r[i] \in Nat /\ current[l] \in Nat
          BY <1>2, <1>5, <5>1
        <5> HIDE DEF r, s, n
        <5> QED BY <5>2, <5>3
      <4> QED BY <4>1, <4>2
    <3> QED BY <1>1, <1>2, <1>3, <2>1, <3>1 DEF ReceivedBefore
  <2>2. CASE ~(g = h /\ k = l)
    BY <1>1, <1>2, <2>2 DEF BusInv, ReceivedBefore
  <2> QED BY <2>1, <2>2
<1>8. StrangersMiss'
  BY <1>1 DEF BusInv, StrangersMiss, Waiting
<1>9. LaneOrder'
  <2> SUFFICES ASSUME NEW g \in Handlers, NEW k \in Lanes,
                      NEW i \in 2 .. Len(received'[g][k])
               PROVE  received'[g][k][i - 1] < received'[g][k][i]
    BY DEF LaneOrder
  <2>1. CASE g = h /\ k = l
    <3>1. i \in 2 .. n + 1
      BY <1>3, <2>1
    <3>2. CASE i = n + 1
      <4>1. i - 1 \in 1 .. n /\ i = n + 1
        BY <1>3, <3>1, <3>2
      <4>2. s[i - 1] = r[i - 1] /\ r[i - 1] < current[l]
        BY <1>3, <1>5, <4>1
      <4>3. s[i] = current[l]
        BY <1>3, <4>1
      <4> QED BY <2>1, <4>2, <4>3
    <3>3. CASE i # n + 1
      <4>1. i \in 2 .. n /\ i - 1 \in 1 .. n /\ i \in 1 .. n
        BY <1>3, <3>1, <3>3
      <4>2. r[i - 1] < r[i]
        BY <4>1 DEF BusInv, LaneOrder
      <4> QED BY <1>3, <2>1, <4>1, <4>2
    <3> QED BY <3>2, <3>3
  <2>2. CASE ~(g = h /\ k = l)
    BY <1>2, <2>2 DEF BusInv, LaneOrder
  <2> QED BY <2>1, <2>2
<1>10. NothingDropped'
  <2> SUFFICES ASSUME NEW g \in Handlers, NEW x \in (1 .. published) \ (missed[g] \cup Waiting')
               PROVE  \E k \in Lanes : x \in Range(received'[g][k])
                                         \/ (x = current[k] /\ g \in calls'[k])
    BY <1>1 DEF NothingDropped
  <2>1. x \notin Waiting
    BY <1>1 DEF Waiting
  <2>2. PICK k \in Lanes : x \in Range(received[g][k]) \/ (x = current[k] /\ g \in calls[k])
    BY <2>1 DEF BusInv, NothingDropped
  <2>3. CASE g = h /\ k = l
    <3>1. x \in Range(s)
      <4>1. CASE x \in Range(r)
        <5>1. PICK i \in 1 .. n : r[i] = x
          BY <1>3, <4>1 DEF Range
        <5> HIDE DEF s, r, n
        <5>2. i \in 1 .. n + 1 /\ DOMAIN s = 1 .. n + 1 /\ s[i] = r[i]
          BY <1>3
        <5>3. i \in DOMAIN s /\ s[i] = x
          BY <5>1, <5>2
        <5> QED BY ONLY <5>3 DEF Range
      <4>2. CASE x = current[l]
        <5>1. n + 1 \in DOMAIN s /\ s[n + 1] = x
          BY <1>3, <4>2
        <5> HIDE DEF s, r
        <5> QED BY ONLY <5>1 DEF Range
      <4> QED BY <2>2, <2>3, <4>1, <4>2
    <3> HIDE DEF r, n
    <3> QED BY ONLY <2>3, <3>1
  <2>4. CASE ~(g = h /\ k = l)
    <3>1. received'[g][k] = received[g][k] /\ current' = current
      BY <1>1, <1>2, <2>4
    <3>2. g \in calls[k] => g \in calls'[k]
      BY <1>2, <2>4
    <3> QED BY <2>2, <3>1, <3>2
  <2> QED BY <2>3, <2>4
<1> QED BY <1>4, <1>6, <1>7, <1>8, <1>9, <1>10 DEF BusInv

LEMMA BusStep == BusInv /\ [BusNext]_busVars => BusInv'
<1> SUFFICES ASSUME BusInv, [BusNext]_busVars
             PROVE  BusInv'
  OBVIOUS
<1>t. BusTyped
  BY DEF BusInv
<1>1. CASE UNCHANGED busVars
  <2>1. BusTyped' /\ UNCHANGED <<lanes, current, received, published, calls, missed, subscribed>>
    BY <1>1, <1>t DEF busVars, BusTyped
  <2> QED BY <2>1, LanesStand DEF BusInv, StrangersMiss, NothingDropped
<1>2. ASSUME NEW h \in Handlers, Subscribe(h)
      PROVE  BusInv'
  <2>1. /\ subscribed' = subscribed \cup {h}
        /\ UNCHANGED <<lanes, current, received, published, calls, missed>>
    BY <1>2 DEF Subscribe
  <2>2. BusTyped'
    BY <1>t, <2>1 DEF BusTyped
  <2> QED BY <2>1, <2>2, LanesStand DEF BusInv, StrangersMiss, NothingDropped
<1>3. ASSUME NEW h \in Handlers, Unsubscribe(h)
      PROVE  BusInv'
  <2>1. /\ subscribed' = subscribed \ {h}
        /\ missed' = [missed EXCEPT ![h] = @ \cup Waiting]
        /\ UNCHANGED <<lanes, current, received, published, calls>>
    BY <1>3 DEF Unsubscribe
  <2>2. BusTyped'
    BY <1>t, <2>1 DEF BusTyped
  <2>3. \A g \in Handlers : missed'[g] = IF g = h THEN missed[h] \cup Waiting ELSE missed[g]
    BY <1>t, <2>1 DEF BusTyped
  <2>4. StrangersMiss'
    BY <2>1, <2>2, <2>3, LanesStand DEF BusInv, StrangersMiss
  <2>5. NothingDropped'
    BY <2>1, <2>2, <2>3, LanesStand DEF BusInv, NothingDropped
  <2> QED BY <2>1, <2>2, <2>4, <2>5, LanesStand DEF BusInv
<1>4. CASE StartBus
  <2>1. BusTyped' /\ UNCHANGED <<lanes, current, received, published, calls, missed, subscribed>>
    BY <1>4, <1>t DEF StartBus, BusTyped
  <2> QED BY <2>1, LanesStand DEF BusInv, StrangersMiss, NothingDropped
<1>5. CASE StopBus
  <2>1. /\ calls' = [l \in Lanes |-> {}]
        /\ missed' = [h \in Handlers |->
                        missed[h] \cup {current[l] : l \in {k \in Lanes : h \in calls[k]}}]
        /\ UNCHANGED <<lanes, current, received, published, subscribed>>
    BY <1>5 DEF StopBus
  <2>2. BusTyped' /\ \A l \in Lanes : calls'[l] \subseteq calls[l]
    BY <1>t, <2>1 DEF BusTyped
  <2>3. StrangersMiss'
    BY <2>1, <2>2, LanesStand DEF BusInv, StrangersMiss
  <2>4. NothingDropped'
    <3> SUFFICES ASSUME NEW h \in Handlers, NEW x \in (1 .. published) \ (missed'[h] \cup Waiting)
                 PROVE  \E k \in Lanes : x \in Range(received[h][k])
      BY <2>1, <2>2, LanesStand DEF NothingDropped
    <3>1. x \notin missed[h] /\ \A k \in Lanes : h \in calls[k] => x # current[k]
      BY <2>1
    <3> QED BY <3>1 DEF BusInv, NothingDropped
  <2> QED BY <2>1, <2>2, <2>3, <2>4, LanesStand DEF BusInv
<1> QED BY <1>1, <1>2, <1>3, <1>4, <1>5, PublishKeeps, TakeKeeps, ReturnKeeps DEF BusNext

(***************************************************************************)
(* The scanner and the request for feeds.                                  *)
(***************************************************************************)
(* What the snapshot says of an attempt that is over.                      *)
HowItWent ==
  IF observed.error THEN "failed"
  ELSE IF observed.attempt = 0 THEN "none"
  ELSE IF observed.success >= observed.attempt THEN "succeeded" ELSE "interrupted"

ScanTyped ==
  /\ scanTask \in [at : {"none", "loop", "reading"}, due : Nat, mine : Nat]
  /\ scanGeneration \in Nat /\ scanClock \in Nat \ {0}
  /\ stopping \in BOOLEAN /\ replaySlot \in BOOLEAN
  /\ observed \in [attempt : Nat, success : Nat, error : BOOLEAN, running : BOOLEAN,
                   cycle : BOOLEAN, engines : {"none", "live", "replay"}]

TaskFollowed ==
  /\ stopping => scanTask.at # "none"
  /\ scanTask.at # "none" /\ ~stopping => scanTask.mine = scanGeneration
  /\ observed.running <=> scanTask.at # "none" /\ ~stopping
  /\ ~stopping => (observed.cycle <=> scanTask.at = "reading")

AttemptFollowed ==
  /\ scanTask.at # "reading" => attempt = HowItWent
  /\ scanTask.at = "reading" =>
       /\ attempt = "in_progress" /\ ~observed.error
       /\ observed.attempt # 0 /\ observed.success < observed.attempt
  /\ observed.attempt <= scanClock /\ observed.success <= scanClock
  /\ observed.success = 0 <=> observed.engines = "none"

ScanInv == ScanTyped /\ TaskFollowed /\ AttemptFollowed /\ ResultsLive /\ CyclesSpaced

LEMMA ScanTold == ScanInv => ResultsLive /\ AttemptTold /\ CyclesSpaced
<1> SUFFICES ASSUME ScanInv
             PROVE  AttemptTold
  BY DEF ScanInv
<1>1. scanTask.at # "reading" /\ ~observed.cycle => LatestAttempt = attempt
  BY DEF ScanInv, ScanTyped, AttemptFollowed, HowItWent, LatestAttempt
<1>2. scanTask.at = "reading" /\ observed.cycle => LatestAttempt = attempt
  BY DEF ScanInv, ScanTyped, AttemptFollowed, LatestAttempt
<1>3. attempt = "succeeded" => observed.success # 0
  BY DEF ScanInv, ScanTyped, AttemptFollowed, HowItWent
<1>4. ~stopping => LatestAttempt = attempt
  BY <1>1, <1>2 DEF ScanInv, ScanTyped, TaskFollowed
<1> QED BY <1>3, <1>4 DEF ScanInv, ScanTyped, TaskFollowed, AttemptFollowed, AttemptTold, Observation

LEMMA ScanStart == ScanInit => ScanInv
<1> SUFFICES ASSUME ScanInit
             PROVE  ScanInv
  OBVIOUS
<1>a. scanTask \in [at : {"none", "loop", "reading"}, due : Nat, mine : Nat] /\ scanTask.at = "none"
  BY DEF ScanInit, NoScanTask
<1>b. observed \in [attempt : Nat, success : Nat, error : BOOLEAN, running : BOOLEAN,
                   cycle : BOOLEAN, engines : {"none", "live", "replay"}]
  BY DEF ScanInit
<1>c. scanGeneration \in Nat /\ scanClock \in Nat \ {0}
  BY DEF ScanInit
<1>d. stopping \in BOOLEAN /\ replaySlot \in BOOLEAN
  BY Zenon DEF ScanInit
<1>1. ScanTyped /\ scanTask.at = "none"
  BY <1>a, <1>b, <1>c, <1>d DEF ScanTyped
<1>2. /\ ~stopping /\ attempt = "none" /\ ~observed.error /\ ~observed.running /\ ~observed.cycle
      /\ observed.attempt = 0 /\ observed.success = 0 /\ observed.engines = "none" /\ scanClock = 1
  BY DEF ScanInit
<1> QED BY <1>1, <1>2 DEF ScanInv, TaskFollowed, AttemptFollowed, ResultsLive, CyclesSpaced, HowItWent

(* The next due time is the first instant of the grid after the present.   *)
LEMMA GridAhead ==
  ASSUME NEW d \in Nat, NEW i \in Nat \ {0}
  PROVE  /\ (d \div i + 1) * i \in Nat
         /\ d < (d \div i + 1) * i /\ (d \div i + 1) * i <= d + i
<1> DEFINE q == d \div i
<1>1. q \in Nat /\ d % i \in 0 .. i - 1 /\ d = i * q + (d % i)
  OBVIOUS
<1>2. (q + 1) * i = i * q + i /\ i * q \in Nat
  BY <1>1
<1> QED BY <1>1, <1>2

LEMMA DueKeeps ==
  ASSUME ScanInv, CycleDue
  PROVE  ScanInv'
<1> USE DEF ScanInv, ScanTyped, TaskFollowed, AttemptFollowed, ResultsLive, CyclesSpaced, HowItWent
<1> DEFINE d == scanClock - scanTask.due
           due == NextDue(scanTask.due)
<1>1. d \in Nat /\ scanClock = scanTask.due + d /\ scanTask.due \in Nat
  BY DEF CycleDue
<1>2. due \in Nat /\ scanClock < due /\ due <= scanClock + ScanInterval
  <2>1. /\ (d \div ScanInterval + 1) * ScanInterval \in Nat
        /\ d < (d \div ScanInterval + 1) * ScanInterval
        /\ (d \div ScanInterval + 1) * ScanInterval <= d + ScanInterval
    BY <1>1, ScanAssumption, GridAhead
  <2>2. due = scanTask.due + (d \div ScanInterval + 1) * ScanInterval
    BY DEF NextDue
  <2> HIDE DEF d, due
  <2> QED BY <1>1, <2>1, <2>2, ScanAssumption
<1> HIDE DEF due, d
<1>w. /\ scanTask.at = "loop" /\ ~stopping /\ observed.success < scanClock
      /\ UNCHANGED <<scanGeneration, stopping, replaySlot, admits, scanClock>>
  BY DEF CycleDue, StampsLater
<1>3. CASE Admission = "no" /\ scanTask' = [scanTask EXCEPT !.due = due] /\ UNCHANGED <<observed, attempt>>
  <2>1. scanTask'.at = "loop" /\ scanTask'.mine = scanTask.mine /\ ScanTyped'
    BY <1>w, <1>2, <1>3
  <2> QED BY <1>w, <1>3, <2>1
<1>4. CASE /\ scanTask' = [scanTask EXCEPT !.due = due]
           /\ observed' = [observed EXCEPT !.attempt = scanClock, !.error = TRUE]
           /\ attempt' = "failed"
  <2>1. scanTask'.at = "loop" /\ scanTask'.mine = scanTask.mine /\ ScanTyped'
    BY <1>w, <1>2, <1>4
  <2>2. /\ observed'.error = TRUE /\ observed'.attempt = scanClock
        /\ observed'.success = observed.success /\ observed'.engines = observed.engines
        /\ observed'.running = observed.running /\ observed'.cycle = observed.cycle
    BY <1>4
  <2> QED BY <1>w, <1>4, <2>1, <2>2
<1>5. CASE /\ scanTask' = [scanTask EXCEPT !.at = "reading", !.due = due]
           /\ observed' = [observed EXCEPT !.attempt = scanClock, !.error = FALSE, !.cycle = TRUE]
           /\ attempt' = "in_progress"
  <2>1. scanTask'.at = "reading" /\ scanTask'.mine = scanTask.mine /\ scanTask'.due = due /\ ScanTyped'
    BY <1>w, <1>2, <1>5
  <2>2. /\ observed'.error = FALSE /\ observed'.attempt = scanClock
        /\ observed'.success = observed.success /\ observed'.engines = observed.engines
        /\ observed'.running = observed.running /\ observed'.cycle = TRUE
    BY <1>5
  <2> QED BY <1>w, <1>2, <1>5, <2>1, <2>2
<1> QED BY <1>3, <1>4, <1>5 DEF CycleDue, due

LEMMA CycleEndKeeps ==
  ASSUME ScanInv, CycleEnds
  PROVE  ScanInv'
<1> USE DEF ScanInv, ScanTyped, TaskFollowed, AttemptFollowed, ResultsLive, CyclesSpaced, HowItWent
<1>1. /\ scanTask.at = "reading" /\ scanTask' = [scanTask EXCEPT !.at = "loop"]
      /\ UNCHANGED <<scanGeneration, stopping, replaySlot, admits, scanClock>>
  BY DEF CycleEnds
<1>t. scanTask'.at = "loop" /\ scanTask'.mine = scanTask.mine /\ scanTask' \in [at : {"none", "loop", "reading"}, due : Nat, mine : Nat]
  BY <1>1
<1>2. CASE ScanPublished
  <2>1. Engines = "live" /\ ~stopping
    BY <1>2 DEF ScanPublished, StillAdmitted, OwnsSnapshot, Admission, Engines
  <2>2. /\ observed'.error = observed.error /\ observed'.attempt = observed.attempt
        /\ observed'.success = scanClock /\ observed'.engines = "live"
        /\ observed'.running = observed.running /\ observed'.cycle = FALSE
        /\ attempt' = "succeeded" /\ ScanTyped'
    BY <1>1, <1>t, <1>2, <2>1 DEF ScanPublished
  <2> QED BY <1>1, <1>t, <2>1, <2>2
<1>3. CASE ScanRefused
  <2>1. /\ observed'.error = observed.error /\ observed'.attempt = observed.attempt
        /\ observed'.success = observed.success /\ observed'.engines = observed.engines
        /\ observed'.running = observed.running
        /\ observed'.cycle = IF OwnsSnapshot THEN FALSE ELSE observed.cycle
        /\ attempt' = "interrupted" /\ ScanTyped'
    BY <1>1, <1>t, <1>3 DEF ScanRefused
  <2> QED BY <1>1, <1>t, <2>1 DEF OwnsSnapshot
<1>4. CASE ScanFails
  <2>1. CASE OwnsSnapshot
    <3>1. /\ observed'.error = TRUE /\ observed'.attempt = observed.attempt
          /\ observed'.success = observed.success /\ observed'.engines = observed.engines
          /\ observed'.running = observed.running /\ observed'.cycle = FALSE
          /\ attempt' = "failed" /\ ScanTyped'
      BY <1>1, <1>t, <1>4, <2>1 DEF ScanFails
    <3> QED BY <1>1, <1>t, <3>1
  <2>2. CASE ~OwnsSnapshot
    <3>1. observed' = observed /\ attempt' = "interrupted" /\ stopping
      BY <1>1, <1>4, <2>2 DEF ScanFails, OwnsSnapshot
    <3> QED BY <1>1, <1>t, <3>1
  <2> QED BY <2>1, <2>2
<1> QED BY <1>2, <1>3, <1>4 DEF CycleEnds

LEMMA ScanStep == ScanInv /\ [ScanNext]_scanVars => ScanInv'
<1> SUFFICES ASSUME ScanInv, [ScanNext]_scanVars
             PROVE  ScanInv'
  OBVIOUS
<1> USE DEF ScanInv, ScanTyped, TaskFollowed, AttemptFollowed, ResultsLive, CyclesSpaced, HowItWent
<1>1. CASE StartWorker
  <2>1. /\ scanTask'.at = "loop" /\ scanTask'.mine = scanGeneration'
        /\ UNCHANGED <<stopping, replaySlot, scanClock, attempt>> /\ ~stopping /\ scanTask.at = "none"
        /\ observed'.error = observed.error /\ observed'.attempt = observed.attempt
        /\ observed'.success = observed.success /\ observed'.engines = observed.engines
        /\ observed'.running = TRUE /\ observed'.cycle = FALSE
    BY <1>1 DEF StartWorker
  <2>2. scanTask' \in [at : {"none", "loop", "reading"}, due : Nat, mine : Nat]
    BY <1>1 DEF StartWorker
  <2>3. ScanTyped'
    BY <1>1, <2>2 DEF StartWorker
  <2> QED BY <2>1, <2>3
<1>2. CASE StopBegins
  <2>1. /\ scanTask' = scanTask /\ stopping' /\ ~stopping /\ scanTask.at # "none"
        /\ UNCHANGED <<replaySlot, scanClock, attempt>>
        /\ observed'.error = observed.error /\ observed'.attempt = observed.attempt
        /\ observed'.success = observed.success /\ observed'.engines = observed.engines
        /\ observed'.running = FALSE /\ observed'.cycle = observed.cycle
    BY <1>2 DEF StopBegins
  <2>2. observed' \in [attempt : Nat, success : Nat, error : BOOLEAN, running : BOOLEAN,
                       cycle : BOOLEAN, engines : {"none", "live", "replay"}]
    BY <1>2 DEF StopBegins
  <2>3. scanGeneration' \in Nat /\ stopping' \in BOOLEAN
    BY <1>2 DEF StopBegins
  <2>4. ScanTyped'
    BY <2>1, <2>2, <2>3
  <2> QED BY <2>1, <2>4
<1>3. CASE StopEnds
  BY <1>3 DEF StopEnds, NoScanTask
<1>4. CASE SlotTurns \/ SessionTurns \/ UNCHANGED scanVars
  <2>1. /\ UNCHANGED <<scanTask, scanGeneration, stopping, observed, scanClock, attempt>>
        /\ replaySlot' \in BOOLEAN
    BY <1>4 DEF SlotTurns, SessionTurns, scanVars
  <2> QED BY <2>1
<1>5. CASE TimePasses
  BY <1>5 DEF TimePasses
<1> QED BY <1>1, <1>2, <1>3, <1>4, <1>5, DueKeeps, CycleEndKeeps DEF ScanNext

LEMMA StoppedIsQuiet ==
  ASSUME ScanInv, [ScanNext]_scanVars, stopping
  PROVE  UNCHANGED <<observed.success, observed.error, observed.engines>>
<1>1. CASE StopEnds
  BY <1>1 DEF StopEnds, ScanInv, ScanTyped
<1>2. CASE CycleEnds
  BY <1>2 DEF CycleEnds, ScanPublished, ScanRefused, ScanFails, StillAdmitted, OwnsSnapshot
<1>3. CASE SlotTurns \/ SessionTurns \/ TimePasses \/ UNCHANGED scanVars
  BY <1>3 DEF SlotTurns, SessionTurns, TimePasses, scanVars
<1> QED BY <1>1, <1>2, <1>3 DEF ScanNext, StartWorker, StopBegins, CycleDue

(* The request has been read whole, and every symbol it passed by without  *)
(* being interrupted is streamed, or its subscription is under way.        *)
BatchInv ==
  /\ batch \in [at : {"idle", "reading", "read", "asking", "subscribing", "answered"},
                read : SUBSET FeedTickers, todo : SUBSET FeedTickers, of : Nat,
                sym : FeedTickers \cup {"none"}, failed : BOOLEAN, interrupted : BOOLEAN,
                status : {"none", "refused", "interrupted", "partial_failure", "completed"}]
  /\ streamer \in Nat /\ batch.of <= streamer
  /\ batch.at \notin {"idle", "reading", "read", "answered"} /\ streamer = batch.of
       /\ ~batch.failed /\ ~batch.interrupted
       => batch.read \subseteq streamed \cup batch.todo
                         \cup (IF batch.at = "subscribing" THEN {batch.sym} ELSE {})

LEMMA BatchStart == BatchInit => BatchInv
BY DEF BatchInit, BatchInv, IdleBatch

LEMMA BatchStep == BatchInv /\ [BatchNext]_batchVars => BatchInv'
<1> SUFFICES ASSUME BatchInv, [BatchNext]_batchVars
             PROVE  BatchInv'
  OBVIOUS
<1> USE DEF BatchInv
<1>1. CASE UNCHANGED batchVars
  BY <1>1 DEF batchVars
<1>2. CASE AskFeeds
  BY <1>2 DEF AskFeeds
<1>3. CASE FeedsRead
  BY <1>3 DEF FeedsRead
<1>4. CASE FeedsBegin
  <2>1. CASE streamer = 0 \/ ~streaming
    <3>1. /\ batch' = [batch EXCEPT !.at = "answered", !.status = "refused"]
          /\ UNCHANGED <<streamer, streaming, streamed>>
      BY <1>4, <2>1 DEF FeedsBegin
    <3> QED BY <3>1
  <2>2. CASE ~(streamer = 0 \/ ~streaming)
    <3>1. /\ batch' = [batch EXCEPT !.at = "asking", !.todo = batch.read, !.of = streamer]
          /\ UNCHANGED <<streamer, streaming, streamed>>
      BY <1>4, <2>2 DEF FeedsBegin
    <3>2. batch'.read = batch.read /\ batch'.todo = batch.read /\ batch'.of = streamer /\ batch'.at = "asking"
      BY <3>1
    <3>3. batch' \in [at : {"idle", "reading", "read", "asking", "subscribing", "answered"},
                read : SUBSET FeedTickers, todo : SUBSET FeedTickers, of : Nat,
                sym : FeedTickers \cup {"none"}, failed : BOOLEAN, interrupted : BOOLEAN,
                status : {"none", "refused", "interrupted", "partial_failure", "completed"}]
      BY <3>1
    <3> QED BY <3>1, <3>2, <3>3
  <2> QED BY <2>1, <2>2
<1>5. CASE FeedReturned
  BY <1>5 DEF FeedReturned
<1>6. CASE FeedsAnswered
  BY <1>6 DEF FeedsAnswered
<1>7. ASSUME NEW s \in FeedTickers, FeedsNext(s)
      PROVE  BatchInv'
  <2>1. PICK gone \in BOOLEAN :
          /\ batch' = [batch EXCEPT !.interrupted = gone,
                         !.todo = IF gone THEN {} ELSE batch.todo \ {s}, !.sym = s,
                         !.at = IF ~gone /\ s \notin streamed THEN "subscribing" ELSE "asking"]
          /\ ~gone => ~batch.interrupted
    BY <1>7 DEF FeedsNext, ProviderStands
  <2>2. UNCHANGED <<streamer, streaming, streamed>> /\ batch.at = "asking"
    BY <1>7 DEF FeedsNext
  <2>3. CASE gone
    BY <2>1, <2>2, <2>3
  <2>4. CASE ~gone
    <3>1. /\ batch'.todo = batch.todo \ {s} /\ batch'.sym = s /\ ~batch'.interrupted
          /\ batch'.read = batch.read /\ batch'.of = batch.of /\ batch'.failed = batch.failed
          /\ batch'.at = IF s \notin streamed THEN "subscribing" ELSE "asking"
      BY <2>1, <2>4
    <3>2. batch' \in [at : {"idle", "reading", "read", "asking", "subscribing", "answered"},
                read : SUBSET FeedTickers, todo : SUBSET FeedTickers, of : Nat,
                sym : FeedTickers \cup {"none"}, failed : BOOLEAN, interrupted : BOOLEAN,
                status : {"none", "refused", "interrupted", "partial_failure", "completed"}]
      BY <2>1, <2>4
    <3>3. streamer = batch.of /\ ~batch.failed /\ ~batch.interrupted => batch.read \subseteq streamed \cup batch.todo
      BY <2>2
    <3>4. streamed \cup batch.todo \subseteq
            streamed' \cup batch'.todo \cup (IF batch'.at = "subscribing" THEN {batch'.sym} ELSE {})
      BY ONLY <2>2, <3>1
    <3>5. streamer' \in Nat /\ batch'.of <= streamer'
      BY <2>2, <3>1
    <3>6. streamer' = batch'.of /\ ~batch'.failed
            => batch'.read \subseteq streamed' \cup batch'.todo
                                    \cup (IF batch'.at = "subscribing" THEN {batch'.sym} ELSE {})
      BY ONLY <2>1, <2>2, <3>1, <2>4, <3>3, <3>4
    <3> QED BY <3>2, <3>5, <3>6
  <2> QED BY <2>1, <2>3, <2>4
<1>8. CASE StreamerChanges
  BY <1>8 DEF StreamerChanges
<1> QED BY <1>1, <1>2, <1>3, <1>4, <1>5, <1>6, <1>7, <1>8 DEF BatchNext

LEMMA AskedWhole ==
  ASSUME BatchInv, [BatchNext]_batchVars, batch'.status = "completed", batch.status # "completed"
  PROVE  batch.read \subseteq streamed /\ streamer = batch.of /\ streaming
<1>1. FeedsAnswered
  BY DEF BatchInv, BatchNext, batchVars, AskFeeds, FeedsRead, FeedsBegin, FeedReturned, FeedsNext,
         StreamerChanges
<1>2. ProviderStands /\ ~batch.interrupted /\ ~batch.failed
  BY <1>1 DEF FeedsAnswered, BatchInv
<1> QED BY <1>1, <1>2 DEF FeedsAnswered, BatchInv, ProviderStands

(***************************************************************************)
(* The loops of the context engine.  A stop forgets the global loop, the   *)
(* bootstrap, the refreshes and the symbols' loops in that order, and what *)
(* it has forgotten stays away until the next start; a refresh under way   *)
(* will have read, or has read, the symbol it is for.                      *)
(***************************************************************************)
ContextTasks ==
  [at : {"none", "reading", "read", "ended", "crashed"}, epoch : Nat, read : SUBSET Listable]

ContextTyped ==
  /\ saved \in SUBSET Listable /\ promised \in SUBSET Listable
  /\ adder \in [Adders -> [task : ContextTasks, sym : Listable \cup {"none"}]]
  /\ bootstrap \in ContextTasks /\ contextEpoch \in Nat /\ contextOn \in BOOLEAN
  /\ globalTask \in {"none", "alive", "crashed"}
  /\ symbolTasks \in [Listable -> {"none", "alive", "crashed", "cancelled"}]
  /\ stopAt \in {"off", "global", "boot", "refresh", "loops", "raised"}

StoppedInOrder ==
  /\ contextOn => stopAt = "off"
  /\ stopAt \in {"boot", "refresh", "loops"} => globalTask = "none"
  /\ stopAt \in {"refresh", "loops"} => bootstrap.at = "none"
  /\ stopAt = "loops" => \A a \in Adders : adder[a].task.at \in {"none", "ended"}

RefreshSees(a) ==
  /\ adder[a].task.at = "reading" => adder[a].sym \in saved
  /\ adder[a].task.at = "read" => adder[a].sym \in adder[a].task.read /\ adder[a].sym \in saved

ContextInv ==
  /\ ContextTyped /\ StoppedInOrder
  /\ \A a \in Adders : RefreshSees(a)
  /\ AdditionsTracked /\ StopIsComplete

LEMMA ContextStart == ContextInit => ContextInv
<1> SUFFICES ASSUME ContextInit
             PROVE  ContextInv
  OBVIOUS
<1>1. IdleTask \in ContextTasks /\ IdleTask.at = "none"
  BY DEF IdleTask, ContextTasks
<1>2. adder \in [Adders -> [task : ContextTasks, sym : Listable \cup {"none"}]]
      /\ \A a \in Adders : adder[a].task.at = "none"
  BY <1>1 DEF ContextInit
<1>3. symbolTasks \in [Listable -> {"none", "alive", "crashed", "cancelled"}]
      /\ \A s \in Listable : symbolTasks[s] = "none"
  BY DEF ContextInit
<1>4. /\ saved \in SUBSET Listable /\ promised = {} /\ bootstrap = IdleTask
      /\ contextEpoch \in Nat /\ globalTask = "none" /\ stopAt = "off"
  BY DEF ContextInit
<1>5. contextOn \in BOOLEAN /\ ~contextOn
  BY Zenon DEF ContextInit
<1>6. ContextTyped
  BY <1>1, <1>2, <1>3, <1>4, <1>5 DEF ContextTyped
<1> QED BY <1>1, <1>2, <1>3, <1>4, <1>5, <1>6
        DEF ContextInv, StoppedInOrder, RefreshSees, AdditionsTracked, StopIsComplete

LEMMA TrackedKeeps ==
  ASSUME ContextTyped, NEW task
  PROVE  /\ Tracked(task) \in [Listable -> {"none", "alive", "crashed", "cancelled"}]
         /\ \A s \in Listable : symbolTasks[s] # "none" => Tracked(task)[s] # "none"
         /\ ~contextOn => Tracked(task) = symbolTasks
         /\ \A s \in Listable : MayTrack(task) /\ s \in task.read => Tracked(task)[s] # "none"
BY DEF ContextTyped, Tracked, MayTrack

LEMMA AdderKeeps ==
  ASSUME ContextInv, NEW a \in Adders,
         \/ RefreshReads(a) \/ RefreshFails(a) \/ RefreshTracks(a)
         \/ \E s \in Listable : AddSymbol(a, s)
  PROVE  ContextInv'
<1>t. ContextTyped
  BY DEF ContextInv
<1>a. /\ adder[a].task \in ContextTasks /\ adder[a].sym \in Listable \cup {"none"}
      /\ \A b \in Adders : adder[b].task \in ContextTasks /\ adder[b].sym \in Listable \cup {"none"}
  BY <1>t DEF ContextTyped
<1>u. UNCHANGED <<contextOn, contextEpoch, globalTask, bootstrap, stopAt>>
  BY DEF RefreshReads, RefreshFails, RefreshTracks, AddSymbol
<1>b. \A s \in Listable : s \in saved => s \in saved'
  BY DEF RefreshReads, RefreshFails, RefreshTracks, AddSymbol
<1>c. ASSUME adder' \in [Adders -> [task : ContextTasks, sym : Listable \cup {"none"}]],
             \A b \in Adders : b # a => adder'[b] = adder[b],
             saved' \in SUBSET Listable,
             promised' \in SUBSET Listable,
             symbolTasks' \in [Listable -> {"none", "alive", "crashed", "cancelled"}],
             ~contextOn => UNCHANGED symbolTasks,
             ~contextOn => \/ adder'[a].task.at = "ended"
                           \/ adder'[a].task.at = "read" /\ adder[a].task.at = "reading",
             adder'[a].task.at = "reading" => adder'[a].sym \in saved',
             adder'[a].task.at = "read" => adder'[a].sym \in adder'[a].task.read /\ adder'[a].sym \in saved',
             AdditionsTracked'
      PROVE  ContextInv'
  <2>1. ContextTyped'
    BY <1>t, <1>u, <1>c DEF ContextTyped
  <2>3. StoppedInOrder'
    BY <1>t, <1>u, <1>c DEF ContextInv, ContextTyped, StoppedInOrder
  <2>4. ASSUME NEW b \in Adders
        PROVE  RefreshSees(b)'
    <3>1. CASE b = a
      BY <1>c, <3>1 DEF RefreshSees
    <3>2. CASE b # a
      BY <1>b, <1>c, <3>2, <1>t DEF ContextInv, ContextTyped, RefreshSees
    <3> QED BY <3>1, <3>2
  <2>5. StopIsComplete'
    BY <1>u, <1>c DEF ContextInv, StopIsComplete
  <2> QED BY <1>c, <2>1, <2>3, <2>4, <2>5 DEF ContextInv
<1>1. CASE RefreshReads(a)
  <2>1. adder[a].task.at = "reading" /\ UNCHANGED <<saved, promised, symbolTasks>>
    BY <1>1 DEF RefreshReads
  <2>2. /\ adder'[a].task.at = "read" /\ adder'[a].task.read = saved /\ adder'[a].sym = adder[a].sym
        /\ \A b \in Adders : b # a => adder'[b] = adder[b]
    BY <1>1, <1>t DEF RefreshReads, ContextTyped, ContextTasks
  <2>3. adder' \in [Adders -> [task : ContextTasks, sym : Listable \cup {"none"}]]
    <3> DEFINE adder1 == [adder EXCEPT ![a].task.at = "read"]
    <3>1. adder1 \in [Adders -> [task : ContextTasks, sym : Listable \cup {"none"}]]
      BY <1>t DEF ContextTyped, ContextTasks
    <3>2. adder' = [adder1 EXCEPT ![a].task.read = saved]
      BY <1>1 DEF RefreshReads
    <3> HIDE DEF adder1
    <3>3. saved \in SUBSET Listable
      BY <1>t DEF ContextTyped
    <3>4. [adder1[a] EXCEPT !.task.read = saved] \in [task : ContextTasks, sym : Listable \cup {"none"}]
      BY <3>1, <3>3 DEF ContextTasks
    <3>5. adder' = [adder1 EXCEPT ![a] = [adder1[a] EXCEPT !.task.read = saved]]
      BY <3>2
    <3> HIDE DEF ContextTasks
    <3> QED BY ONLY <3>1, <3>4, <3>5
  <2>5. adder[a].sym \in saved
    BY <2>1 DEF ContextInv, RefreshSees
  <2>6. AdditionsTracked'
    BY <1>u, <2>1 DEF ContextInv, AdditionsTracked
  <2> QED BY <1>c, <1>t, <2>1, <2>2, <2>3, <2>5, <2>6 DEF ContextTyped
<1>2. CASE RefreshFails(a)
  <2>1. UNCHANGED <<saved, promised, symbolTasks>>
    BY <1>2 DEF RefreshFails
  <2>2. /\ adder'[a].task.at = "ended"
        /\ \A b \in Adders : b # a => adder'[b] = adder[b]
    BY <1>2, <1>t DEF RefreshFails, ContextTyped, ContextTasks
  <2>3. adder' \in [Adders -> [task : ContextTasks, sym : Listable \cup {"none"}]]
    BY <1>2, <1>t DEF RefreshFails, ContextTyped, ContextTasks
  <2>6. AdditionsTracked'
    BY <1>u, <2>1 DEF ContextInv, AdditionsTracked
  <2> QED BY <1>c, <1>t, <2>1, <2>2, <2>3, <2>6 DEF ContextTyped
<1>3. CASE RefreshTracks(a)
  <2> DEFINE task == adder[a].task
  <2>1. /\ task.at = "read" /\ symbolTasks' = Tracked(task) /\ UNCHANGED saved
        /\ promised' = IF contextOn /\ task.epoch = contextEpoch
                       THEN promised \cup {adder[a].sym} ELSE promised
    BY <1>3 DEF RefreshTracks
  <2>2. /\ adder'[a].task.at = "ended"
        /\ \A b \in Adders : b # a => adder'[b] = adder[b]
    BY <1>3, <1>t DEF RefreshTracks, ContextTyped, ContextTasks
  <2>3. adder' \in [Adders -> [task : ContextTasks, sym : Listable \cup {"none"}]]
    BY <1>3, <1>t DEF RefreshTracks, ContextTyped, ContextTasks
  <2>5. adder[a].sym \in task.read /\ adder[a].sym \in Listable
    BY <1>t, <2>1 DEF ContextInv, RefreshSees, ContextTyped
  <2> HIDE DEF task
  <2>6. AdditionsTracked'
    <3> SUFFICES ASSUME contextOn, NEW s \in promised'
                 PROVE  symbolTasks'[s] # "none"
      BY <1>u DEF AdditionsTracked
    <3>1. CASE s \in promised
      BY <1>t, <2>1, <3>1, TrackedKeeps DEF ContextInv, ContextTyped, AdditionsTracked
    <3>2. CASE s \notin promised
      BY <1>t, <2>1, <2>5, <3>2, TrackedKeeps DEF MayTrack
    <3> QED BY <3>1, <3>2
  <2>7. /\ symbolTasks' \in [Listable -> {"none", "alive", "crashed", "cancelled"}]
        /\ ~contextOn => UNCHANGED symbolTasks
    BY <1>t, <2>1, TrackedKeeps
  <2> QED BY <1>c, <1>t, <2>1, <2>2, <2>3, <2>5, <2>6, <2>7 DEF ContextTyped
<1>4. ASSUME NEW s \in Listable, AddSymbol(a, s)
      PROVE  ContextInv'
  <2> DEFINE t == IF contextOn THEN [IdleTask EXCEPT !.at = "reading", !.epoch = contextEpoch]
                  ELSE [IdleTask EXCEPT !.at = "ended"]
  <2>1. UNCHANGED <<symbolTasks, promised>> /\ saved' = saved \cup {s}
    BY <1>4 DEF AddSymbol
  <2>2. t \in ContextTasks /\ t.at = IF contextOn THEN "reading" ELSE "ended"
    BY <1>t DEF ContextTasks, IdleTask, ContextTyped
  <2>4. adder' = [adder EXCEPT ![a].sym = s, ![a].task = t]
    BY <1>4 DEF AddSymbol
  <2> HIDE DEF t
  <2>5. /\ adder'[a].task = t /\ adder'[a].sym = s
        /\ \A b \in Adders : b # a => adder'[b] = adder[b]
    BY <1>t, <2>4 DEF ContextTyped
  <2>3. adder' \in [Adders -> [task : ContextTasks, sym : Listable \cup {"none"}]]
    BY <1>t, <2>2, <2>4 DEF ContextTyped
  <2>6. AdditionsTracked'
    BY <1>u, <2>1 DEF ContextInv, AdditionsTracked
  <2> QED BY <1>c, <1>t, <2>1, <2>2, <2>3, <2>5, <2>6 DEF ContextTyped
<1> QED BY <1>1, <1>2, <1>3, <1>4

LEMMA StopKeeps ==
  ASSUME ContextInv,
         StopContext \/ GlobalStopped \/ BootstrapStopped \/ RefreshesStopped \/ LoopsStopped
  PROVE  ContextInv'
<1> USE DEF StoppedInOrder, AdditionsTracked, StopIsComplete
<1>t. ContextTyped
  BY DEF ContextInv
<1>i. IdleTask \in ContextTasks /\ IdleTask.at = "none"
  BY DEF IdleTask, ContextTasks
<1>1. CASE StopContext
  <2>1. /\ contextOn' = FALSE /\ contextEpoch' = contextEpoch + 1 /\ stopAt' = "global" /\ promised' = {}
        /\ UNCHANGED <<saved, adder, globalTask, bootstrap, symbolTasks>>
    BY <1>1 DEF StopContext
  <2>2. contextEpoch' \in Nat
    BY <1>t, <2>1 DEF ContextTyped
  <2>3. contextOn' \in BOOLEAN
    BY Zenon, <2>1
  <2>4. ContextTyped'
    BY <1>t, <2>1, <2>2, <2>3 DEF ContextTyped
  <2> QED BY <2>1, <2>4 DEF ContextInv, RefreshSees
<1>2. CASE GlobalStopped
  <2>1. ContextTyped' /\ UNCHANGED <<saved, adder>>
    BY <1>2, <1>t DEF GlobalStopped, ContextTyped
  <2> QED BY <1>2, <2>1 DEF GlobalStopped, ContextInv, ContextTyped, RefreshSees
<1>3. CASE BootstrapStopped
  <2>1. ContextTyped' /\ UNCHANGED <<saved, adder>>
    BY <1>3, <1>t, <1>i DEF BootstrapStopped, ContextTyped
  <2> QED BY <1>3, <1>i, <2>1 DEF BootstrapStopped, ContextInv, ContextTyped, RefreshSees
<1>4. CASE RefreshesStopped
  <2> DEFINE X(a) == IF adder[a].task.at = "none" THEN adder[a]
                     ELSE [adder[a] EXCEPT !.task.at = "ended"]
  <2>1. adder' = [a \in Adders |-> X(a)] /\ stopAt = "refresh" /\ stopAt' = "loops"
        /\ UNCHANGED <<saved, contextOn, contextEpoch, globalTask, bootstrap, symbolTasks, promised>>
    BY <1>4 DEF RefreshesStopped
  <2>2. \A a \in Adders : X(a) \in [task : ContextTasks, sym : Listable \cup {"none"}]
                          /\ X(a).task.at \in {"none", "ended"}
    BY <1>t DEF ContextTyped, ContextTasks
  <2> HIDE DEF X
  <2>3. ContextTyped'
    BY <1>t, <2>1, <2>2 DEF ContextTyped
  <2>4. \A a \in Adders : adder'[a].task.at \in {"none", "ended"}
    BY <2>1, <2>2
  <2> QED BY <2>1, <2>3, <2>4 DEF ContextInv, RefreshSees
<1>5. CASE LoopsStopped
  <2>1. ContextTyped' /\ UNCHANGED <<saved, adder, contextOn, globalTask, bootstrap, promised>>
    BY <1>5, <1>t DEF LoopsStopped, ContextTyped
  <2>2. ~contextOn /\ \A a \in Adders : RefreshSees(a)'
    BY <1>5, <2>1 DEF LoopsStopped, ContextInv, RefreshSees
  <2>3. stopAt' = "off" => \A s \in Listable : symbolTasks'[s] = "none"
    BY <1>5 DEF LoopsStopped
  <2>4. stopAt = "loops" /\ stopAt' \in {"off", "raised"}
    BY <1>5 DEF LoopsStopped
  <2> QED BY <2>1, <2>2, <2>3, <2>4 DEF ContextInv
<1> QED BY <1>1, <1>2, <1>3, <1>4, <1>5

LEMMA ContextStep == ContextInv /\ [ContextNext]_contextVars => ContextInv'
<1> SUFFICES ASSUME ContextInv, [ContextNext]_contextVars
             PROVE  ContextInv'
  OBVIOUS
<1> USE DEF StoppedInOrder, AdditionsTracked, StopIsComplete
<1>t. ContextTyped
  BY DEF ContextInv
<1>1. CASE UNCHANGED contextVars
  BY <1>1 DEF contextVars, ContextInv, ContextTyped, RefreshSees
<1>2. CASE StartContext
  <2> DEFINE t == [IdleTask EXCEPT !.at = "reading", !.epoch = contextEpoch + 1]
  <2>1. t \in ContextTasks
    <3>1. contextEpoch + 1 \in Nat
      BY <1>t DEF ContextTyped
    <3>2. IdleTask \in ContextTasks
      BY DEF IdleTask, ContextTasks
    <3> QED BY <3>1, <3>2 DEF ContextTasks
  <2> HIDE DEF t
  <2>2. /\ contextOn' = TRUE /\ contextEpoch' = contextEpoch + 1 /\ globalTask' = "alive"
        /\ bootstrap' = t /\ promised' = {} /\ stopAt = "off"
        /\ UNCHANGED <<saved, adder, symbolTasks, stopAt>>
    BY <1>2 DEF StartContext, t
  <2>3. ContextTyped'
    BY <1>t, <2>1, <2>2 DEF ContextTyped
  <2> QED BY <2>2, <2>3 DEF ContextInv, RefreshSees
<1>3. CASE BootstrapReads
  <2>1. /\ bootstrap.at = "reading"
        /\ UNCHANGED <<saved, adder, contextOn, contextEpoch, globalTask, symbolTasks, stopAt, promised>>
    BY <1>3 DEF BootstrapReads
  <2>2. bootstrap' \in ContextTasks
    BY <1>3, <1>t DEF BootstrapReads, ContextTyped, ContextTasks
  <2>3. ContextTyped'
    BY <1>t, <2>1, <2>2 DEF ContextTyped
  <2> QED BY <2>1, <2>3 DEF ContextInv, RefreshSees
<1>4. CASE BootstrapTracks
  <2>1. /\ bootstrap.at = "read" /\ symbolTasks' = Tracked(bootstrap)
        /\ UNCHANGED <<saved, adder, contextOn, contextEpoch, globalTask, stopAt, promised>>
    BY <1>4 DEF BootstrapTracks
  <2>2. bootstrap' \in ContextTasks
    BY <1>4, <1>t DEF BootstrapTracks, ContextTyped, ContextTasks
  <2>3. ContextTyped'
    BY <1>t, <2>1, <2>2, TrackedKeeps DEF ContextTyped
  <2>4. AdditionsTracked'
    BY <1>t, <2>1, TrackedKeeps DEF ContextInv, ContextTyped
  <2> QED BY <2>1, <2>3, <2>4 DEF ContextInv, RefreshSees
<1>5. CASE LoopCrashes
  <2>1. UNCHANGED <<saved, adder, contextOn, contextEpoch, bootstrap, stopAt, promised>>
    BY <1>5 DEF LoopCrashes
  <2>2. ContextTyped'
    BY <1>5, <1>t DEF LoopCrashes, ContextTyped
  <2>3. globalTask = "none" => globalTask' = "none"
    BY <1>5 DEF LoopCrashes
  <2>4. \A s \in Listable : symbolTasks'[s] = "none" <=> symbolTasks[s] = "none"
    BY <1>5, <1>t DEF LoopCrashes, ContextTyped
  <2> QED BY <1>t, <2>1, <2>2, <2>3, <2>4 DEF ContextInv, ContextTyped, RefreshSees
<1>6. ASSUME NEW s \in Listable, RemoveSymbol(s)
      PROVE  ContextInv'
  <2>1. ContextTyped' /\ UNCHANGED <<adder, contextOn, globalTask, bootstrap, symbolTasks, stopAt, promised>>
    BY <1>6, <1>t DEF RemoveSymbol, ContextTyped
  <2>2. \A a \in Adders : RefreshSees(a)'
    BY <1>6, <2>1 DEF RemoveSymbol, ContextInv, RefreshSees
  <2> QED BY <2>1, <2>2 DEF ContextInv
<1> QED BY <1>1, <1>2, <1>3, <1>4, <1>5, <1>6, AdderKeeps, StopKeeps DEF ContextNext

LEMMA NoneRevived ==
  ASSUME ContextInv, [ContextNext]_contextVars, ~contextOn, NEW s \in Listable,
         symbolTasks'[s] = "alive"
  PROVE  symbolTasks[s] = "alive"
<1>t. ContextTyped
  BY DEF ContextInv
<1>1. CASE \E a \in Adders : RefreshTracks(a)
  BY <1>1, <1>t, TrackedKeeps DEF RefreshTracks
<1>2. CASE BootstrapTracks
  BY <1>2, <1>t, TrackedKeeps DEF BootstrapTracks
<1>3. CASE LoopsStopped \/ LoopCrashes
  BY <1>3, <1>t DEF LoopsStopped, LoopCrashes, ContextTyped
<1> QED BY <1>1, <1>2, <1>3
        DEF ContextNext, contextVars, StartContext, StopContext, GlobalStopped, BootstrapStopped,
            RefreshesStopped, BootstrapReads, RefreshReads, RefreshFails, AddSymbol, RemoveSymbol

(***************************************************************************)
(* The recorder of outcomes.  What the worker records has been closed, and *)
(* what it stores as the entry's snapshot knew no closure unless there is  *)
(* one; the entry of a recorded trade is over, so that no fill follows.    *)
(***************************************************************************)
RecordTyped ==
  /\ closings \in Seq(RecordedTrades)
  /\ DOMAIN entryFills = RecordedTrades /\ DOMAIN story = RecordedTrades
  /\ DOMAIN verdict = RecordedTrades
  /\ entrySnapshot \in [RecordedTrades -> [fills : Nat, closed : BOOLEAN]]
  /\ entryFills \in [RecordedTrades -> Nat]
  /\ recordedAs \in [RecordedTrades ->
                       [entry : [fills : Nat, closed : BOOLEAN], fills : Nat, made : BOOLEAN]]

ItemHonest ==
  /\ step = "record" => item[2] \in Closed
  /\ step = "store" => /\ held.closed => item[2] \in Closed
                       /\ item[2] \in RecordedTrades => held \in [fills : Nat, closed : BOOLEAN]

OutcomeOfWhole(t) ==
  recordedAs[t].made =>
    /\ t \in Closed /\ story[t] = "ended"
    /\ recordedAs[t].fills = entryFills[t] /\ ~recordedAs[t].entry.closed

RecorderInv ==
  /\ RecordTyped /\ ItemHonest
  /\ \A t \in RecordedTrades : ~entrySnapshot[t].closed /\ OutcomeOfWhole(t)

LEMMA RecorderWhole == RecorderInv => OutcomesWhole
BY DEF RecorderInv, OutcomesWhole, OutcomeOfWhole

LEMMA RecorderStart == RecorderInit => RecorderInv
<1> SUFFICES ASSUME RecorderInit
             PROVE  RecorderInv
  OBVIOUS
<1>1. NoSnapshot \in [fills : Nat, closed : BOOLEAN] /\ ~NoSnapshot.closed
  BY DEF NoSnapshot
<1>2. NoOutcome \in [entry : [fills : Nat, closed : BOOLEAN], fills : Nat, made : BOOLEAN]
      /\ ~NoOutcome.made
  BY <1>1 DEF NoOutcome
<1>3. step = "idle" /\ closings = <<>>
      /\ \A t \in RecordedTrades : entrySnapshot[t] = NoSnapshot /\ recordedAs[t] = NoOutcome
  BY DEF RecorderInit
<1>4. RecordTyped
  BY <1>1, <1>2, <1>3 DEF RecorderInit, RecordTyped
<1> QED BY <1>1, <1>2, <1>3, <1>4 DEF RecorderInv, ItemHonest, OutcomeOfWhole

(* A step that leaves the rows of the ledger and of the verdicts alone.    *)
LEMMA RowsStand ==
  ASSUME RecorderInv, UNCHANGED ledgerRows, UNCHANGED verdictRows, ItemHonest'
  PROVE  RecorderInv'
<1>1. UNCHANGED <<entryFills, closings, story, entrySnapshot, verdict, recordedAs>>
  BY DEF ledgerRows, verdictRows
<1> QED BY <1>1 DEF RecorderInv, RecordTyped, OutcomeOfWhole, Closed

LEMMA ItemStands ==
  ASSUME RecorderInv, UNCHANGED closings, step' = step, item' = item, held' = held
  PROVE  ItemHonest'
BY DEF RecorderInv, ItemHonest, Closed

LEMMA LedgerMoves ==
  ASSUME RecorderInv, NEW t \in RecordedTrades,
         EntryFilled(t) \/ EntryCancelled(t) \/ TradeClosed(t)
  PROVE  RecorderInv'
<1>t. RecordTyped
  BY DEF RecorderInv
<1>1. CASE EntryFilled(t)
  <2>1. /\ story[t] = "working" /\ entryFills' = [entryFills EXCEPT ![t] = @ + 1]
        /\ UNCHANGED <<closings, entrySnapshot, verdict, recordedAs, item, step, held>>
        /\ DOMAIN story' = RecordedTrades
        /\ \A u \in RecordedTrades : u # t => story'[u] = story[u]
    BY <1>1, <1>t DEF EntryFilled, RecordTyped, verdictRows
  <2>2. RecordTyped'
    BY <1>t, <2>1 DEF RecordTyped
  <2>3. ~recordedAs[t].made
    BY <2>1 DEF RecorderInv, OutcomeOfWhole
  <2>4. \A u \in RecordedTrades : OutcomeOfWhole(u)'
    BY <1>t, <2>1, <2>3 DEF RecorderInv, RecordTyped, OutcomeOfWhole, Closed
  <2> QED BY <2>1, <2>2, <2>4, ItemStands DEF RecorderInv
<1>2. CASE EntryCancelled(t)
  <2>1. /\ story[t] = "working" /\ story' = [story EXCEPT ![t] = "ended"]
        /\ UNCHANGED <<entryFills, closings, entrySnapshot, verdict, recordedAs, item, step, held>>
    BY <1>2 DEF EntryCancelled, verdictRows
  <2>2. RecordTyped'
    BY <1>t, <2>1 DEF RecordTyped
  <2>4. \A u \in RecordedTrades : OutcomeOfWhole(u)'
    BY <1>t, <2>1 DEF RecorderInv, RecordTyped, OutcomeOfWhole, Closed
  <2> QED BY <2>1, <2>2, <2>4, ItemStands DEF RecorderInv
<1>3. CASE TradeClosed(t)
  <2>1. /\ t \notin Closed /\ closings' = Append(closings, t)
        /\ UNCHANGED <<entryFills, entrySnapshot, verdict, recordedAs, item, step, held>>
        /\ DOMAIN story' = RecordedTrades
        /\ \A u \in RecordedTrades : u # t => story'[u] = story[u]
    BY <1>3, <1>t DEF TradeClosed, RecordTyped, verdictRows
  <2>2. RecordTyped'
    BY <1>t, <2>1 DEF RecordTyped
  <2>3. Closed \subseteq Closed'
    <3>1. DOMAIN closings = 1 .. Len(closings) /\ DOMAIN closings' = 1 .. Len(closings) + 1
          /\ Len(closings) \in Nat
          /\ \A i \in 1 .. Len(closings) : closings'[i] = closings[i]
      BY <1>t, <2>1 DEF RecordTyped
    <3> QED BY <3>1 DEF Closed, Range
  <2>4. ~recordedAs[t].made
    BY <2>1 DEF RecorderInv, OutcomeOfWhole
  <2>5. \A u \in RecordedTrades : OutcomeOfWhole(u)'
    BY <2>1, <2>3, <2>4 DEF RecorderInv, OutcomeOfWhole
  <2>6. ItemHonest'
    BY <2>1, <2>3 DEF RecorderInv, ItemHonest
  <2> QED BY <2>1, <2>2, <2>5, <2>6 DEF RecorderInv
<1> QED BY <1>1, <1>2, <1>3

LEMMA RecordingKeeps ==
  ASSUME RecorderInv, NEW t \in Closed, Recorded(t), UNCHANGED ledgerRows, UNCHANGED entrySnapshot
  PROVE  /\ RecordTyped' /\ \A u \in RecordedTrades : ~entrySnapshot'[u].closed /\ OutcomeOfWhole(u)'
         /\ \A u \in RecordedTrades :
              Settled(u) => verdict'[u] = verdict[u] /\ recordedAs'[u] = recordedAs[u]
<1>t. RecordTyped
  BY DEF RecorderInv
<1>0. UNCHANGED <<entryFills, closings, story>> /\ Closed' = Closed
  BY DEF ledgerRows, Closed
<1>1. t \in RecordedTrades
  BY <1>t DEF RecordTyped, Closed, Range
<1>2. CASE UNCHANGED <<verdict, recordedAs>>
  BY <1>t, <1>0, <1>2 DEF RecorderInv, RecordTyped, OutcomeOfWhole
<1>3. CASE ~Settled(t) /\ Supported(t)
  <2> DEFINE o == [entry |-> entrySnapshot[t], fills |-> entryFills[t], made |-> TRUE]
  <2>1. /\ verdict' = [verdict EXCEPT ![t] = "recorded"]
        /\ recordedAs' = [recordedAs EXCEPT ![t] = o]
    BY <1>3 DEF Recorded
  <2>2. /\ o \in [entry : [fills : Nat, closed : BOOLEAN], fills : Nat, made : BOOLEAN]
        /\ o.entry = entrySnapshot[t] /\ o.fills = entryFills[t]
    BY <1>t, <1>1 DEF RecordTyped
  <2> HIDE DEF o
  <2>3. RecordTyped'
    BY <1>t, <1>0, <1>1, <2>1, <2>2 DEF RecordTyped
  <2>4. \A u \in RecordedTrades : recordedAs'[u] = IF u = t THEN o ELSE recordedAs[u]
    BY <1>t, <2>1 DEF RecordTyped
  <2>5. \A u \in RecordedTrades : u # t => verdict'[u] = verdict[u]
    BY <1>t, <2>1 DEF RecordTyped
  <2>6. \A u \in RecordedTrades : OutcomeOfWhole(u)'
    BY <1>0, <1>1, <1>3, <2>2, <2>4 DEF RecorderInv, OutcomeOfWhole, Supported
  <2> QED BY <1>3, <2>3, <2>4, <2>5, <2>6 DEF RecorderInv
<1>4. CASE ~Settled(t) /\ ~Supported(t)
  <2>1. verdict' = [verdict EXCEPT ![t] = "blocked"] /\ UNCHANGED recordedAs
    BY <1>4 DEF Recorded
  <2> QED BY <1>t, <1>0, <1>4, <2>1 DEF RecorderInv, RecordTyped, OutcomeOfWhole
<1> QED BY <1>2, <1>3, <1>4 DEF Recorded

LEMMA StoringKeeps ==
  ASSUME RecorderInv, StoreEntry
  PROVE  /\ RecorderInv'
         /\ \A u \in RecordedTrades :
              entrySnapshot'[u] # entrySnapshot[u] => entrySnapshot[u] = NoSnapshot /\ u \notin Closed
<1>t. RecordTyped
  BY DEF RecorderInv
<1>0. /\ UNCHANGED <<entryFills, closings, story, verdict, recordedAs>>
      /\ step = "store" /\ step' = "idle" /\ Closed' = Closed
  BY DEF StoreEntry, EndItem, WorkerStill, ledgerRows, Closed
<1>1. CASE MayStore(item[2]) /\ item[2] \in RecordedTrades
  <2> DEFINE t == item[2]
  <2>1. entrySnapshot' = [entrySnapshot EXCEPT ![t] = held]
    BY <1>1 DEF StoreEntry
  <2>2. ~held.closed /\ held \in [fills : Nat, closed : BOOLEAN]
    BY <1>0, <1>1 DEF RecorderInv, ItemHonest, MayStore
  <2>3. t \notin Closed /\ entrySnapshot[t] = NoSnapshot /\ t \in RecordedTrades
    BY <1>1 DEF MayStore
  <2> HIDE DEF t
  <2>4. RecordTyped'
    BY <1>t, <1>0, <2>1, <2>2, <2>3 DEF RecordTyped
  <2>5. \A u \in RecordedTrades : entrySnapshot'[u] = IF u = t THEN held ELSE entrySnapshot[u]
    BY <1>t, <2>1 DEF RecordTyped
  <2>6. ItemHonest' /\ \A u \in RecordedTrades : OutcomeOfWhole(u)'
    BY <1>0 DEF RecorderInv, ItemHonest, OutcomeOfWhole
  <2> QED BY <2>2, <2>3, <2>4, <2>5, <2>6 DEF RecorderInv
<1>2. CASE ~(MayStore(item[2]) /\ item[2] \in RecordedTrades)
  <2>1. entrySnapshot' = entrySnapshot
    BY <1>2, <1>t DEF StoreEntry, RecordTyped
  <2>2. UNCHANGED ledgerRows /\ UNCHANGED verdictRows
    BY <1>0, <2>1 DEF ledgerRows, verdictRows
  <2>3. ItemHonest'
    BY <1>0 DEF ItemHonest
  <2> QED BY <2>1, <2>2, <2>3, RowsStand
<1> QED BY <1>1, <1>2

LEMMA MarkingKeeps ==
  ASSUME RecorderInv, MarkRetry
  PROVE  /\ RecorderInv'
         /\ \A u \in RecordedTrades : Settled(u) => verdict'[u] = verdict[u]
<1>t. RecordTyped
  BY DEF RecorderInv
<1>0. /\ UNCHANGED <<entryFills, closings, story, entrySnapshot, recordedAs>>
      /\ step' = "idle" /\ Closed' = Closed
      /\ verdict' = IF MayMark(item[2]) THEN [verdict EXCEPT ![item[2]] = "pending_retry"] ELSE verdict
  BY DEF MarkRetry, EndItem, WorkerStill, ledgerRows, Closed
<1>1. DOMAIN verdict' = RecordedTrades
      /\ \A u \in RecordedTrades : Settled(u) => verdict'[u] = verdict[u]
  BY <1>0, <1>t DEF RecordTyped, Settled, MayMark
<1>2. RecordTyped'
  BY <1>0, <1>1, <1>t DEF RecordTyped
<1> QED BY <1>0, <1>1, <1>2 DEF RecorderInv, ItemHonest, OutcomeOfWhole

LEMMA RecorderStep == RecorderInv /\ [RecorderNext]_recorderVars => RecorderInv'
<1> SUFFICES ASSUME RecorderInv, [RecorderNext]_recorderVars
             PROVE  RecorderInv'
  OBVIOUS
<1>t. RecordTyped
  BY DEF RecorderInv
<1>1. CASE UNCHANGED recorderVars
  BY <1>1, RowsStand, ItemStands DEF recorderVars, ledgerRows
<1>2. CASE StartRecorder \/ StopRecorder \/ Drained \/ StartupScan \/ Sweep
  BY <1>2, RowsStand, ItemStands
     DEF StartRecorder, StopRecorder, Drained, StartupScan, Sweep, ledgerRows
<1>3. CASE CrashRecorder \/ ItemFails \/ EndRead \/ GetItem
  <2>1. UNCHANGED ledgerRows /\ UNCHANGED verdictRows /\ step' \in {"idle", "read"}
    BY <1>3 DEF CrashRecorder, ItemFails, EndRead, GetItem, EndItem, WorkerStill
  <2>2. ItemHonest'
    BY <2>1 DEF ItemHonest
  <2> QED BY <2>1, <2>2, RowsStand
<1>4. CASE ReadItem
  <2>1. /\ UNCHANGED ledgerRows /\ UNCHANGED verdictRows /\ item' = item
        /\ step' \in {"capture", "record", "done"}
        /\ step' = "record" => item[2] \in Closed
    BY <1>4 DEF ReadItem, WorkerStill
  <2>2. ItemHonest'
    BY <2>1 DEF ItemHonest, ledgerRows, Closed
  <2> QED BY <2>1, <2>2, RowsStand
<1>5. CASE CaptureEntry
  <2>1. /\ UNCHANGED ledgerRows /\ UNCHANGED verdictRows /\ item' = item
        /\ step' = "store" /\ held' = Known(item[2])
    BY <1>5 DEF CaptureEntry, WorkerStill
  <2>2. /\ held'.closed => item[2] \in Closed
        /\ item[2] \in RecordedTrades => held' \in [fills : Nat, closed : BOOLEAN]
    <3>1. held' = [fills |-> entryFills[item[2]], closed |-> item[2] \in Closed]
      BY <2>1 DEF Known
    <3>2. item[2] \in RecordedTrades => entryFills[item[2]] \in Nat
      BY <1>t DEF RecordTyped
    <3>3. CASE item[2] \in Closed
      <4>1. (item[2] \in Closed) = TRUE
        BY <3>3
      <4>2. held' = [fills |-> entryFills[item[2]], closed |-> TRUE]
        BY <3>1, <4>1
      <4> QED BY <3>2, <3>3, <4>2
    <3>4. CASE item[2] \notin Closed
      <4>1. (item[2] \in Closed) = FALSE
        BY <3>4
      <4>2. held' = [fills |-> entryFills[item[2]], closed |-> FALSE]
        BY <3>1, <4>1
      <4> QED BY <3>2, <3>4, <4>2
    <3> QED BY <3>3, <3>4
  <2>3. ItemHonest'
    BY <2>1, <2>2 DEF ItemHonest, ledgerRows, Closed
  <2> QED BY <2>1, <2>3, RowsStand
<1>6. CASE RecordOutcome \/ RecordFails
  <2>1. /\ UNCHANGED ledgerRows /\ UNCHANGED entrySnapshot /\ item[2] \in Closed
        /\ step' \in {"idle", "retry"}
    BY <1>6 DEF RecordOutcome, RecordFails, EndItem, WorkerStill, RecorderInv, ItemHonest
  <2>2. ItemHonest'
    BY <2>1 DEF ItemHonest
  <2>3. CASE Recorded(item[2])
    BY <2>1, <2>2, <2>3, RecordingKeeps DEF RecorderInv
  <2>4. CASE UNCHANGED <<verdict, recordedAs>>
    BY <2>1, <2>2, <2>4, RowsStand DEF verdictRows
  <2> QED BY <1>6, <2>3, <2>4 DEF RecordOutcome, RecordFails
<1> QED BY <1>1, <1>2, <1>3, <1>4, <1>5, <1>6, LedgerMoves, StoringKeeps, MarkingKeeps
        DEF RecorderNext, WorkItem

LEMMA VerdictsKept ==
  ASSUME RecorderInv, [RecorderNext]_recorderVars, NEW t \in RecordedTrades
  PROVE  /\ Settled(t) => verdict'[t] = verdict[t] /\ recordedAs'[t] = recordedAs[t]
         /\ entrySnapshot'[t] # entrySnapshot[t] => entrySnapshot[t] = NoSnapshot /\ t \notin Closed
<1>1. CASE UNCHANGED verdictRows
  BY <1>1 DEF verdictRows
<1>2. CASE RecordOutcome \/ RecordFails
  <2>1. /\ UNCHANGED ledgerRows /\ UNCHANGED entrySnapshot /\ item[2] \in Closed
    BY <1>2 DEF RecordOutcome, RecordFails, EndItem, WorkerStill, RecorderInv, ItemHonest
  <2>2. Recorded(item[2]) \/ UNCHANGED <<verdict, recordedAs>>
    BY <1>2 DEF RecordOutcome, RecordFails
  <2> QED BY <2>1, <2>2, RecordingKeeps
<1>3. CASE StoreEntry
  BY <1>3, StoringKeeps DEF StoreEntry
<1>4. CASE MarkRetry
  BY <1>4, MarkingKeeps DEF MarkRetry
<1>5. CASE \E u \in RecordedTrades : EntryFilled(u) \/ EntryCancelled(u) \/ TradeClosed(u)
  BY <1>1, <1>5 DEF EntryFilled, EntryCancelled, TradeClosed
<1> QED BY <1>1, <1>2, <1>3, <1>4, <1>5
        DEF RecorderNext, WorkItem, recorderVars, StartRecorder, StopRecorder, Drained, StartupScan,
            Sweep, CrashRecorder, ItemFails, EndRead, GetItem, ReadItem, CaptureEntry

(***************************************************************************)
(* The feed of protected symbols.  The holder of the send lock is the      *)
(* restoring supervisor or a call that has not returned, and the frame     *)
(* under way is its own; the inventory differs from what the socket was    *)
(* asked for by that frame at most.  A cycle that has looked saw the whole *)
(* ledger, unless news or a wake is still to come.                         *)
(***************************************************************************)
CallsKnown ==
  /\ asked \in Nat
  /\ \A r \in requests : \/ r.id = FeedCall /\ r.op = "subscribe"
                         \/ r.id \in 1 .. asked
  /\ \A r, q \in requests : r.id = q.id => r = q

SocketKnown ==
  /\ gen \in Nat /\ sent.on \in Nat /\ sent.on <= gen
  /\ alive => connected
  /\ connected => supervisor \notin {"off", "retrying"} /\ gen >= 1
  /\ supervisor \notin {"off", "retrying"} => connected
  /\ enabled <=> supervisor # "off"
  /\ ~connected => local = {}

SenderKnown ==
  /\ sender = Restorer <=> supervisor = "restoring"
  /\ sender = Nobody => sent = NoFrame
  /\ sender \notin {Nobody, Restorer} =>
       \E r \in requests : /\ r.id = sender /\ r.sym = sent.sym
                           /\ sent.on = gen /\ r.op = "subscribe" => r.sym \in served
  /\ sender = Restorer /\ sent # NoFrame => sent.on = gen /\ sent.sym \in served

InventoryFollowed ==
  connected /\ alive => local \subseteq served \cup (IF sent.on = gen THEN {sent.sym} ELSE {})

RestoreFollowed ==
  supervisor = "restoring" =>
    desired \subseteq local \cup restore \cup (IF sent # NoFrame THEN {sent.sym} ELSE {})

Looked == {"looking", "asking", "cooling", "waiting"}

CycleFollowed ==
  /\ \A r \in requests : r.id = FeedCall => cycle = "asking"
  /\ cycle \in {"looking", "asking"} => outcome # "read_failed"
  /\ cycle \in Looked /\ ~wake =>
       /\ outcome # "read_failed" => news \/ protected \subseteq seen
       /\ cycle \in {"cooling", "waiting"} /\ outcome = "no_provider" => ~owner

FeedInv ==
  /\ CallsKnown /\ SocketKnown /\ SenderKnown
  /\ InventoryFollowed /\ RestoreFollowed /\ CycleFollowed

LEMMA FeedTold == FeedInv => InventoryHonest /\ NoSleepingOnNews
BY DEF FeedInv, InventoryFollowed, CycleFollowed, Looked, InventoryHonest, NoSleepingOnNews

LEMMA FeedStart == FeedInit => FeedInv
BY DEF FeedInit, FeedInv, CallsKnown, SocketKnown, SenderKnown, InventoryFollowed, RestoreFollowed,
       CycleFollowed, Looked, NoFrame, Nobody, Restorer

(* The parts that rest on what some steps leave alone.                     *)
ConnectionStill ==
  UNCHANGED <<enabled, connected, gen, alive, desired, local, served, supervisor, restore, sender, sent>>

LEMMA ConnectionStands ==
  ASSUME FeedInv, ConnectionStill, \A r \in requests : r.id = sender => r \in requests'
  PROVE  SocketKnown' /\ SenderKnown' /\ InventoryFollowed' /\ RestoreFollowed'
<1>1. SocketKnown' /\ InventoryFollowed' /\ RestoreFollowed'
  BY DEF FeedInv, SocketKnown, InventoryFollowed, RestoreFollowed, ConnectionStill
<1>2. SenderKnown'
  BY DEF FeedInv, SenderKnown, ConnectionStill
<1> QED BY <1>1, <1>2

LEMMA CycleStands ==
  ASSUME FeedInv, UNCHANGED <<requests, cycle, outcome, news, protected, seen, owner>>, wake => wake'
  PROVE  CycleFollowed'
BY DEF FeedInv, CycleFollowed, Looked

LEMMA CallsStand ==
  ASSUME FeedInv, requests' \subseteq requests, UNCHANGED asked
  PROVE  CallsKnown'
BY DEF FeedInv, CallsKnown

LEMMA SocketsKeep ==
  ASSUME FeedInv,
         ConnectFeed \/ DisconnectFeed \/ SocketDies \/ LoseSocket \/ ReopenSocket
  PROVE  FeedInv'
<1>1. UNCHANGED <<requests, asked, cycle, outcome, news, protected, seen, owner, wake>>
  BY DEF ConnectFeed, DisconnectFeed, SocketDies, LoseSocket, ReopenSocket, cycleVars, ownerVars, taskVars
<1>2. CycleFollowed' /\ CallsKnown'
  BY <1>1, CycleStands, CallsStand
<1> USE DEF FeedInv, SocketKnown, SenderKnown, InventoryFollowed, RestoreFollowed
<1>3. CASE ConnectFeed \/ ReopenSocket
  <2>1. /\ supervisor \in {"off", "retrying"} /\ gen' = gen + 1 /\ connected' = TRUE /\ alive' = TRUE
        /\ supervisor' \in {"listening", "reopened"} /\ enabled' = TRUE /\ served' = {}
        /\ UNCHANGED <<desired, local, restore, sender, sent>>
    BY <1>3 DEF ConnectFeed, ReopenSocket, OpenSocket
  <2>2. SocketKnown' /\ local' = {}
    BY <2>1
  <2>3. SenderKnown'
    BY <1>1, <2>1
  <2> QED BY <1>2, <2>1, <2>2, <2>3
<1>4. CASE DisconnectFeed
  <2>1. /\ enabled' = FALSE /\ connected' = FALSE /\ alive' = FALSE /\ local' = {} /\ supervisor' = "off"
        /\ UNCHANGED <<gen, served>>
        /\ IF sender = Restorer THEN sender' = Nobody /\ sent' = NoFrame ELSE UNCHANGED <<sender, sent>>
    BY <1>4 DEF DisconnectFeed
  <2>2. SocketKnown'
    BY <2>1 DEF NoFrame
  <2>3. SenderKnown'
    BY <1>1, <2>1 DEF NoFrame, Restorer, Nobody
  <2> QED BY <1>2, <2>1, <2>2, <2>3
<1>5. CASE SocketDies
  <2>1. /\ alive' = FALSE
        /\ UNCHANGED <<enabled, connected, gen, desired, local, served, supervisor, restore, sender, sent>>
    BY <1>5 DEF SocketDies, taskVars
  <2>2. SocketKnown' /\ RestoreFollowed'
    BY <2>1
  <2>3. SenderKnown'
    BY <1>1, <2>1
  <2> QED BY <1>2, <2>1, <2>2, <2>3
<1>6. CASE LoseSocket
  <2>1. /\ supervisor \in {"listening", "resumed", "restoring"} /\ ~alive
        /\ IF supervisor = "restoring" THEN sender' = Nobody /\ sent' = NoFrame
           ELSE UNCHANGED <<sender, sent>>
        /\ connected' = FALSE /\ local' = {} /\ supervisor' = "retrying"
        /\ UNCHANGED <<enabled, gen, alive, desired, served>>
    BY <1>6 DEF LoseSocket
  <2>2. SocketKnown'
    BY <2>1 DEF NoFrame
  <2>3. SenderKnown'
    BY <1>1, <2>1 DEF NoFrame, Restorer, Nobody
  <2> QED BY <1>2, <2>1, <2>2, <2>3
<1> QED BY <1>3, <1>4, <1>5, <1>6

LEMMA RestoreKeeps ==
  ASSUME FeedInv, BeginRestore \/ RestoreOne \/ RestoreReturned \/ Restored
  PROVE  FeedInv'
<1>1. UNCHANGED <<requests, asked, cycle, outcome, news, protected, seen, owner>> /\ (wake => wake')
  BY DEF BeginRestore, RestoreOne, RestoreReturned, Restored, Signal, cycleVars, ownerVars
<1>2. CycleFollowed' /\ CallsKnown'
  BY <1>1, CycleStands, CallsStand
<1> USE DEF FeedInv, SocketKnown, SenderKnown, InventoryFollowed, RestoreFollowed
<1>3. CASE BeginRestore
  <2>1. /\ supervisor = "reopened" /\ sender = Nobody /\ sent = NoFrame
        /\ sender' = Restorer /\ restore' = desired /\ supervisor' = "restoring"
        /\ UNCHANGED <<enabled, connected, gen, alive, desired, local, served, sent>>
    BY <1>3 DEF BeginRestore, ToRestore
  <2>2. SocketKnown' /\ InventoryFollowed' /\ RestoreFollowed'
    BY <2>1
  <2>3. SenderKnown'
    BY <2>1
  <2> QED BY <1>2, <2>2, <2>3
<1>4. CASE RestoreOne
  <2>1. PICK s \in restore :
          /\ supervisor = "restoring" /\ sent = NoFrame /\ restore' = restore \ {s}
          /\ IF s \in desired THEN Issue(s) ELSE UNCHANGED <<served, sent>>
          /\ UNCHANGED <<enabled, connected, gen, alive, desired, local, supervisor, sender>>
    BY <1>4 DEF RestoreOne
  <2>2. CASE s \in desired
    <3>1. alive /\ served' = served \cup {s} /\ sent' = [sym |-> s, on |-> gen]
      BY <2>1, <2>2 DEF Issue
    <3>2. sent'.sym = s /\ sent'.on = gen /\ gen >= 1 /\ gen \in Nat
      BY <3>1
    <3>3. sent' # NoFrame /\ sent.on = 0
      BY <2>1, <3>2 DEF NoFrame
    <3>4. SocketKnown' /\ SenderKnown'
      BY <2>1, <3>1, <3>2 DEF Restorer, Nobody
    <3>5. InventoryFollowed' /\ RestoreFollowed'
      BY <2>1, <3>1, <3>2, <3>3
    <3> QED BY <1>2, <3>4, <3>5
  <2>3. CASE s \notin desired
    <3>1. UNCHANGED <<served, sent>>
      BY <2>1, <2>3
    <3>2. SocketKnown' /\ SenderKnown'
      BY <1>1, <2>1, <3>1
    <3>3. InventoryFollowed' /\ RestoreFollowed'
      BY <2>1, <2>3, <3>1
    <3> QED BY <1>2, <3>2, <3>3
  <2> QED BY <2>2, <2>3
<1>5. CASE RestoreReturned
  <2>1. /\ supervisor = "restoring" /\ sent # NoFrame /\ alive
        /\ local' = local \cup {sent.sym} /\ sent' = NoFrame
        /\ UNCHANGED <<enabled, connected, gen, alive, desired, served, supervisor, restore, sender>>
    BY <1>5 DEF RestoreReturned
  <2>2. sent.on = gen /\ sent.sym \in served /\ sent'.on = 0 /\ connected
    BY <2>1 DEF NoFrame
  <2>3. SocketKnown' /\ SenderKnown'
    BY <2>1, <2>2 DEF Restorer, Nobody
  <2>4. InventoryFollowed' /\ RestoreFollowed'
    BY <2>1, <2>2
  <2> QED BY <1>2, <2>3, <2>4
<1>6. CASE Restored
  <2>1. /\ supervisor = "restoring" /\ sent = NoFrame
        /\ supervisor' = "resumed" /\ sender' = Nobody
        /\ UNCHANGED <<enabled, connected, gen, alive, desired, local, served, restore, sent>>
    BY <1>6 DEF Restored
  <2> QED BY <1>2, <2>1 DEF Restorer, Nobody
<1> QED BY <1>3, <1>4, <1>5, <1>6

LEMMA AskRouteKeeps ==
  ASSUME FeedInv, AskRoute
  PROVE  FeedInv'
<1>1. PICK s \in FeedSymbols, op \in {"subscribe", "unsubscribe"} :
        /\ requests' = requests \cup {Call(asked + 1, op, s)} /\ asked' = asked + 1
        /\ desired' \subseteq desired
        /\ UNCHANGED <<enabled, connected, gen, alive, local, served, supervisor, restore, sender, sent,
                       cycle, outcome, news, protected, seen, owner, wake>>
  BY DEF AskRoute, ownerVars, cycleVars
<1> DEFINE c == Call(asked + 1, op, s)
<1>2. c.id = asked + 1 /\ asked \in Nat
  BY DEF Call, FeedInv, CallsKnown
<1> HIDE DEF c
<1>3. requests' = requests \cup {c}
  BY <1>1 DEF c
<1>4. c.id # FeedCall
  BY <1>2 DEF FeedCall
<1>5. CallsKnown'
  BY <1>1, <1>2, <1>3 DEF FeedInv, CallsKnown, FeedCall
<1>6. SenderKnown'
  BY <1>1 DEF FeedInv, SenderKnown
<1>7. SocketKnown' /\ InventoryFollowed'
  BY <1>1 DEF FeedInv, SocketKnown, InventoryFollowed
<1>8. RestoreFollowed'
  BY <1>1 DEF FeedInv, RestoreFollowed
<1>9. CycleFollowed'
  BY <1>1, <1>3, <1>4 DEF FeedInv, CycleFollowed, Looked
<1> QED BY <1>5, <1>6, <1>7, <1>8, <1>9 DEF FeedInv

LEMMA StartKeeps ==
  ASSUME FeedInv, NEW r \in requests, StartRequest(r)
  PROVE  FeedInv'
<1>1. /\ sender = Nobody
      /\ UNCHANGED <<enabled, connected, gen, alive, local, supervisor, restore, asked,
                     wake, cycle, seen, owner, protected, news>>
      /\ requests' \subseteq requests
  BY DEF StartRequest, ownerVars
<1>2. CallsKnown'
  BY <1>1, CallsStand
<1>3. outcome' = outcome \/ (r.id = FeedCall /\ outcome' = "failing")
  BY DEF StartRequest, Raised
<1>4. CycleFollowed'
  BY <1>1, <1>3 DEF FeedInv, CycleFollowed, Looked
<1>5. sent = NoFrame /\ sent.on = 0 /\ supervisor # "restoring"
  BY <1>1 DEF FeedInv, SenderKnown, NoFrame, Nobody, Restorer
<1>6. RestoreFollowed'
  BY <1>1, <1>5 DEF RestoreFollowed
<1> USE DEF FeedInv, SocketKnown, SenderKnown, InventoryFollowed
<1>7. CASE Skip(r) \/ ~alive
  <2>1. UNCHANGED <<sender, sent, served>>
    BY <1>7 DEF StartRequest
  <2> QED BY <1>1, <1>2, <1>4, <1>5, <1>6, <2>1 DEF Nobody, Restorer
<1>8. CASE ~(Skip(r) \/ ~alive)
  <2>1. /\ alive /\ sender' = r.id /\ sent' = [sym |-> r.sym, on |-> gen]
        /\ served' = IF r.op = "subscribe" THEN served \cup {r.sym} ELSE served \ {r.sym}
        /\ UNCHANGED requests
    BY <1>8 DEF StartRequest
  <2>2. sent'.sym = r.sym /\ sent'.on = gen /\ gen \in Nat /\ gen >= 1
    BY <1>1, <2>1
  <2>3. r.id \notin {Nobody, Restorer}
    BY DEF CallsKnown, Nobody, Restorer, FeedCall
  <2>4. SocketKnown'
    BY <1>1, <2>2
  <2>5. SenderKnown'
    BY <1>1, <1>5, <2>1, <2>2, <2>3
  <2>6. InventoryFollowed'
    BY <1>1, <1>5, <2>1, <2>2
  <2> QED BY <1>2, <1>4, <1>6, <2>4, <2>5, <2>6
<1> QED BY <1>7, <1>8

LEMMA ReturnedKeeps ==
  ASSUME FeedInv, NEW r \in requests, RequestReturned(r)
  PROVE  FeedInv'
<1>1. /\ sender = r.id /\ sender' = Nobody /\ sent' = NoFrame /\ requests' = requests \ {r}
      /\ UNCHANGED <<enabled, connected, gen, alive, desired, served, supervisor, restore, asked,
                     wake, cycle, seen, owner, protected, news>>
  BY DEF RequestReturned, ownerVars
<1>2. CallsKnown'
  BY <1>1, CallsStand
<1>3. outcome' = outcome \/ (r.id = FeedCall /\ outcome' = "failing")
  BY DEF RequestReturned, Raised
<1>4. CycleFollowed'
  BY <1>1, <1>3 DEF FeedInv, CycleFollowed, Looked
<1>5. sender \notin {Nobody, Restorer} /\ supervisor # "restoring"
  BY <1>1 DEF FeedInv, SenderKnown, CallsKnown, Nobody, Restorer, FeedCall
<1>6. RestoreFollowed'
  BY <1>1, <1>5 DEF RestoreFollowed
<1>7. r.sym = sent.sym /\ (sent.on = gen /\ r.op = "subscribe" => r.sym \in served)
  BY <1>1, <1>5 DEF FeedInv, SenderKnown, CallsKnown
<1>8. sent'.on = 0
  BY <1>1 DEF NoFrame
<1> USE DEF FeedInv, SocketKnown, SenderKnown, InventoryFollowed
<1>9. SenderKnown'
  BY <1>1, <1>5 DEF Nobody, Restorer
<1>10. CASE alive /\ sent.on = gen
  <2>1. local' = IF r.op = "subscribe" THEN local \cup {r.sym} ELSE local \ {r.sym}
    BY <1>10 DEF RequestReturned
  <2>2. SocketKnown'
    BY <1>1, <1>8, <1>10
  <2>3. InventoryFollowed'
    BY <1>1, <1>7, <1>10, <2>1
  <2> QED BY <1>2, <1>4, <1>6, <1>9, <2>2, <2>3
<1>11. CASE ~(alive /\ sent.on = gen)
  <2>1. UNCHANGED local
    BY <1>11 DEF RequestReturned
  <2>2. SocketKnown'
    BY <1>1, <1>8, <2>1
  <2>3. InventoryFollowed'
    BY <1>1, <1>11, <2>1
  <2> QED BY <1>2, <1>4, <1>6, <1>9, <2>2, <2>3
<1> QED BY <1>10, <1>11

LEMMA LedgerNewsKeeps ==
  ASSUME FeedInv, Commit \/ AnnounceNews \/ ChangeOwner
  PROVE  FeedInv'
<1>1. ConnectionStill /\ UNCHANGED <<requests, asked, cycle, seen, outcome>>
  BY DEF Commit, AnnounceNews, ChangeOwner, ProviderStill, taskVars, cycleVars, ConnectionStill
<1>2. CallsKnown' /\ SocketKnown' /\ SenderKnown' /\ InventoryFollowed' /\ RestoreFollowed'
  BY <1>1, ConnectionStands, CallsStand
<1> USE DEF FeedInv, CycleFollowed, Looked
<1>3. CASE Commit
  <2>1. /\ news' = TRUE \/ (news' = news /\ protected' \subseteq protected)
        /\ UNCHANGED <<owner, wake>>
    BY <1>3 DEF Commit
  <2> QED BY <1>1, <1>2, <2>1
<1>4. CASE AnnounceNews \/ ChangeOwner
  <2>1. cycle # "stopped" => wake'
    BY <1>4 DEF AnnounceNews, ChangeOwner, Signal
  <2> QED BY <1>1, <1>2, <2>1
<1> QED BY <1>3, <1>4

LEMMA ReconcileKeeps ==
  ASSUME FeedInv, Reconcile \/ StopReconciler
  PROVE  FeedInv'
<1> USE DEF FeedInv, CycleFollowed, Looked
<1>1. CASE Read \/ Look \/ CooledDown \/ BeginCycle
  <2>1. ConnectionStill /\ UNCHANGED <<requests, asked, news, protected, owner>>
    BY <1>1 DEF Read, Look, CooledDown, BeginCycle, ProviderStill, taskVars, ownerVars, ConnectionStill
  <2>2. CallsKnown' /\ SocketKnown' /\ SenderKnown' /\ InventoryFollowed' /\ RestoreFollowed'
    BY <2>1, ConnectionStands, CallsStand
  <2>3. CASE Read
    BY <2>1, <2>2, <2>3 DEF Read, EndCycle, Retried
  <2>4. CASE Look
    BY <2>1, <2>2, <2>4 DEF Look, EndCycle, Retried
  <2>5. CASE CooledDown \/ BeginCycle
    BY <2>1, <2>2, <2>5 DEF CooledDown, BeginCycle
  <2> QED BY <1>1, <2>3, <2>4, <2>5
<1>2. CASE AskNext
  <2>1. /\ ConnectionStill /\ UNCHANGED <<asked, wake, seen, news, protected, owner>>
        /\ cycle = "asking" /\ \A r \in requests : r.id # FeedCall
    BY <1>2 DEF AskNext, ProviderStill, ownerVars, ConnectionStill
  <2>2. CASE ask # {} /\ owner /\ connected
    <3>1. PICK s \in ask : requests' = requests \cup {Call(FeedCall, "subscribe", s)}
                           /\ UNCHANGED <<cycle, outcome>>
      BY <1>2, <2>2 DEF AskNext
    <3> DEFINE c == Call(FeedCall, "subscribe", s)
    <3>2. c.id = FeedCall /\ c.op = "subscribe"
      BY DEF Call
    <3> HIDE DEF c
    <3>3. requests' = requests \cup {c}
      BY <3>1 DEF c
    <3>4. CallsKnown'
      BY <2>1, <3>2, <3>3 DEF CallsKnown
    <3>5. CycleFollowed'
      BY <2>1, <3>1, <3>2, <3>3
    <3> QED BY <2>1, <3>3, <3>4, <3>5, ConnectionStands
  <2>3. CASE ~(ask # {} /\ owner /\ connected)
    <3>1. /\ UNCHANGED requests
          /\ outcome' \in {"interrupted", "disconnected", "with_failures", "completed"}
          /\ cycle' \in {"cooling", "waiting"}
      BY <1>2, <2>3 DEF AskNext, EndCycle
    <3>2. CallsKnown' /\ SocketKnown' /\ SenderKnown' /\ InventoryFollowed' /\ RestoreFollowed'
      BY <2>1, <3>1, ConnectionStands, CallsStand
    <3> QED BY <2>1, <3>1, <3>2
  <2> QED BY <2>2, <2>3
<1>3. CASE StopReconciler
  <2>1. /\ cycle' = "stopped" /\ requests' = {r \in requests : r.id # FeedCall}
        /\ IF sender = FeedCall THEN sender' = Nobody /\ sent' = NoFrame
           ELSE UNCHANGED <<sender, sent>>
        /\ UNCHANGED <<enabled, connected, gen, alive, desired, local, served, supervisor, restore, asked>>
    BY <1>3 DEF StopReconciler, ProviderStill
  <2>2. CallsKnown' /\ CycleFollowed'
    BY <2>1, CallsStand
  <2>3. CASE sender # FeedCall
    BY <2>1, <2>2, <2>3, ConnectionStands DEF ConnectionStill
  <2>4. CASE sender = FeedCall
    <3>1. sender' = Nobody /\ sent' = NoFrame /\ sent'.on = 0 /\ supervisor # "restoring"
      BY <2>1, <2>4 DEF SenderKnown, NoFrame, FeedCall, Restorer
    <3>2. SocketKnown' /\ RestoreFollowed'
      BY <2>1, <3>1 DEF SocketKnown, RestoreFollowed
    <3>3. SenderKnown'
      BY <2>1, <3>1 DEF SenderKnown, Nobody, Restorer
    <3>4. InventoryFollowed'
      <4>1. PICK r \in requests : /\ r.id = FeedCall /\ r.sym = sent.sym
                                  /\ sent.on = gen /\ r.op = "subscribe" => r.sym \in served
        BY <2>4 DEF SenderKnown, Nobody, Restorer, FeedCall
      <4>2. r.op = "subscribe"
        BY <4>1 DEF CallsKnown, FeedCall
      <4> QED BY <2>1, <3>1, <4>1, <4>2 DEF InventoryFollowed
    <3> QED BY <2>2, <3>2, <3>3, <3>4
  <2> QED BY <2>3, <2>4
<1> QED BY <1>1, <1>2, <1>3 DEF Reconcile

LEMMA FeedStep == FeedInv /\ [FeedNext]_feedVars => FeedInv'
<1> SUFFICES ASSUME FeedInv, [FeedNext]_feedVars
             PROVE  FeedInv'
  OBVIOUS
<1>1. CASE UNCHANGED feedVars
  <2>1. ConnectionStill
        /\ UNCHANGED <<requests, asked, cycle, seen, outcome, news, protected, owner, wake>>
    BY <1>1 DEF feedVars, ConnectionStill
  <2> QED BY <2>1, ConnectionStands, CycleStands, CallsStand DEF FeedInv
<1> QED BY <1>1, SocketsKeep, RestoreKeeps, AskRouteKeeps, StartKeeps, ReturnedKeeps, LedgerNewsKeeps,
           ReconcileKeeps
        DEF FeedNext, Supervise, Serve

LEMMA RestorationWhole ==
  ASSUME FeedInv, [FeedNext]_feedVars, supervisor = "restoring", supervisor' = "resumed"
  PROVE  desired \subseteq local'
<1>1. Restored
  BY DEF FeedNext, Supervise, Serve, Reconcile, feedVars, ConnectFeed, DisconnectFeed, SocketDies,
         AskRoute, Commit, AnnounceNews, ChangeOwner, StopReconciler, LoseSocket, ReopenSocket,
         BeginRestore, RestoreOne, RestoreReturned, StartRequest, RequestReturned, Read, Look, AskNext,
         CooledDown, BeginCycle, taskVars
<1> QED BY <1>1 DEF Restored, FeedInv, RestoreFollowed

(***************************************************************************)
(* The providers and their roles.  The calls of Finnhub's routes have its  *)
(* lock, so that at most one of them runs and an adapter that connects is  *)
(* the route's own.  What holds while one call runs alone is said of its   *)
(* step (Alone), and gives what holds at rest.                             *)
(***************************************************************************)
RouteOps == {"none", "connect_polygon", "connect_finnhub", "connect_ibkr",
             "disconnect_finnhub", "disconnect_polygon", "disconnect_broker"}
RouteSteps == {"none", "connecting", "disconnecting", "settling", "cleanup", "leaving"}
RouteRecords == [op : RouteOps, at : RouteSteps, me : Nat, old : Nat]
Kinds == {"polygon", "finnhub", "ibkr"}
TakingOver == {"disconnecting", "settling"}

RolesTyped ==
  /\ kinds \in Seq(Kinds) /\ up \subseteq 1 .. Len(kinds)
  /\ {polygon, finnhub, streamingRole, historical} \subseteq 0 .. Len(kinds)
  /\ polygon # NoOne => kinds[polygon] = "polygon"
  /\ finnhub # NoOne => kinds[finnhub] = "finnhub"
  /\ historical # NoOne => kinds[historical] # "finnhub"
  /\ routeCall \in [RouteCalls -> RouteRecords]
  /\ routeFaults \in Nat

(* What the step of one call means.                                        *)
CallKnown(c) ==
  LET r == routeCall[c]
  IN /\ r.op = "none" <=> r.at = "none"
     /\ r.at = "connecting" => r.op \in {"connect_finnhub", "connect_ibkr"}
     /\ r.at \in TakingOver \cup {"cleanup"} =>
          r.op \in {"connect_polygon", "connect_finnhub", "connect_ibkr"}
     /\ r.at = "leaving" => r.op \in {"disconnect_finnhub", "disconnect_polygon", "disconnect_broker"}
     /\ r.op \in {"connect_polygon", "connect_finnhub", "connect_ibkr"} => r.me \in 1 .. Len(kinds)
     /\ r.op = "connect_polygon" => kinds[r.me] = "polygon"
     /\ r.op = "connect_finnhub" => kinds[r.me] = "finnhub"
     /\ r.op = "connect_ibkr" => kinds[r.me] = "ibkr"

FinnhubCall(c) == routeCall[c].op \in {"connect_finnhub", "disconnect_finnhub"}

FinnhubKnown(c) ==
  LET r == routeCall[c]
  IN /\ FinnhubCall(c) => ownerLock = c
     /\ r.op = "connect_finnhub" /\ r.at # "cleanup" => r.me = finnhub
     /\ r.op = "connect_finnhub" /\ r.at = "connecting" => r.me \notin up
     /\ r.op = "disconnect_finnhub" => finnhub \notin up

CallsAre == \A c \in RouteCalls : CallKnown(c) /\ FinnhubKnown(c)

FinnhubOne == \A a \in up : kinds[a] = "finnhub" => a = finnhub

(* While one call runs alone.                                              *)
Alone(c) ==
  LET r == routeCall[c]
  IN /\ r.op \in {"connect_ibkr", "connect_polygon"} /\ r.at \in TakingOver => finnhub \notin up
     /\ r.op = "disconnect_polygon" => polygon \notin up
     /\ r.op = "disconnect_broker" => finnhub \notin up
     /\ finnhub \in up => streamingRole = finnhub \/ (r.op = "connect_finnhub" /\ r.at \in TakingOver)

(* And as long as nothing failed.                                          *)
AloneUnfailed(c) ==
  LET r == routeCall[c]
  IN /\ r.at # "cleanup"
     /\ r.at \in {"none", "connecting"} => {streamingRole, historical} \subseteq up \cup {NoOne}
     /\ r.at \in TakingOver => historical \in up \cup {NoOne} /\ r.me \in up
     /\ r.op = "disconnect_finnhub" =>
          streamingRole \in up \cup {NoOne, finnhub} /\ historical \in up \cup {NoOne}
     /\ r.op = "disconnect_polygon" => {streamingRole, historical} \subseteq up \cup {NoOne, polygon}

Sequential ==
  ~overlapping =>
    /\ \A c, d \in RouteCalls : routeCall[c].op # "none" /\ routeCall[d].op # "none" => c = d
    /\ \A a \in up : kinds[a] = "polygon" => a = polygon
    /\ \A c \in RouteCalls :
         /\ routeCall[c].op # "none" => Alone(c)
         /\ routeCall[c].op # "none" /\ routeFaults = 0 => AloneUnfailed(c)
    /\ AtRest => /\ finnhub \in up => streamingRole = finnhub
                 /\ routeFaults = 0 => {streamingRole, historical} \subseteq up \cup {NoOne}

RolesInv == RolesTyped /\ CallsAre /\ FinnhubOne /\ Sequential

LEMMA RolesTold == RolesInv => FinnhubOwned /\ RolesHonest
<1> SUFFICES ASSUME RolesInv
             PROVE  FinnhubOwned /\ RolesHonest
  OBVIOUS
<1>1. \A a \in up : a # NoOne /\ Kind(a) = kinds[a]
  BY DEF RolesInv, RolesTyped, Kind, NoOne
<1> QED BY <1>1 DEF RolesInv, FinnhubOne, Sequential, FinnhubOwned, RolesHonest

LEMMA RolesStart == RolesInit => RolesInv
<1> SUFFICES ASSUME RolesInit
             PROVE  RolesInv
  OBVIOUS
<1>1. NoCall \in RouteRecords /\ NoCall.op = "none" /\ NoCall.at = "none"
  BY DEF NoCall, RouteRecords, RouteOps, RouteSteps, NoOne
<1>2. \A c \in RouteCalls : routeCall[c] = NoCall
  BY DEF RolesInit
<1>3. RolesTyped /\ up = {} /\ kinds = <<>>
  BY <1>1 DEF RolesInit, RolesTyped, NoOne
<1>4. CallsAre
  BY <1>1, <1>2 DEF CallsAre, CallKnown, FinnhubKnown, FinnhubCall, TakingOver
<1>5. Sequential
  BY <1>1, <1>2, <1>3 DEF Sequential, RolesInit
<1> QED BY <1>3, <1>4, <1>5 DEF RolesInv, FinnhubOne

(* A call that may begin runs alone, or overlaps.                          *)
LEMMA CallBegins ==
  ASSUME RolesInv, NEW c \in RouteCalls, Called(c)
  PROVE  /\ routeCall[c].op = "none"
         /\ ~overlapping' =>
              /\ AtRest /\ ~overlapping
              /\ \A a \in up : kinds[a] = "polygon" => a = polygon
              /\ finnhub \in up => streamingRole = finnhub
              /\ routeFaults = 0 => {streamingRole, historical} \subseteq up \cup {NoOne}
BY DEF RolesInv, Called, Sequential, AtRest

(* A running call that does not overlap is the only one.                   *)
LEMMA RunsAlone ==
  ASSUME RolesInv, NEW c \in RouteCalls, routeCall[c].op # "none", ~overlapping
  PROVE  /\ \A d \in RouteCalls : d # c => routeCall[d].op = "none"
         /\ \A a \in up : kinds[a] = "polygon" => a = polygon
         /\ Alone(c) /\ (routeFaults = 0 => AloneUnfailed(c))
BY DEF RolesInv, Sequential

(* The routes one by one.  What becomes of the call c is x.                *)
LEMMA CallBecomes ==
  ASSUME RolesInv, NEW c \in RouteCalls, NEW x \in RouteRecords, Becomes(c, x)
  PROVE  /\ routeCall' \in [RouteCalls -> RouteRecords]
         /\ routeCall'[c] = x
         /\ \A d \in RouteCalls : d # c => routeCall'[d] = routeCall[d]
BY DEF RolesInv, RolesTyped, Becomes

LEMMA SequentialBy ==
  ASSUME RolesInv, NEW c \in RouteCalls, NEW x \in RouteRecords, Becomes(c, x),
         x.op = "none" <=> x.at = "none",
         ~overlapping' =>
           /\ \A d \in RouteCalls : d # c => routeCall[d].op = "none"
           /\ \A a \in up' : kinds'[a] = "polygon" => a = polygon',
         ~overlapping' /\ x.op # "none" =>
           /\ x.op \in {"connect_ibkr", "connect_polygon"} /\ x.at \in TakingOver => finnhub' \notin up'
           /\ x.op = "disconnect_polygon" => polygon' \notin up'
           /\ x.op = "disconnect_broker" => finnhub' \notin up',
         ~overlapping' =>
           (finnhub' \in up' => streamingRole' = finnhub' \/ (x.op = "connect_finnhub" /\ x.at \in TakingOver)),
         ~overlapping' /\ routeFaults' = 0 =>
           /\ x.at # "cleanup"
           /\ x.at \in {"none", "connecting"} => {streamingRole', historical'} \subseteq up' \cup {NoOne}
           /\ x.at \in TakingOver => historical' \in up' \cup {NoOne} /\ x.me \in up'
           /\ x.op = "disconnect_finnhub" =>
                streamingRole' \in up' \cup {NoOne, finnhub'} /\ historical' \in up' \cup {NoOne}
           /\ x.op = "disconnect_polygon" => {streamingRole', historical'} \subseteq up' \cup {NoOne, polygon'}
  PROVE  Sequential'
<1> SUFFICES ASSUME ~overlapping'
             PROVE  Sequential'
  BY DEF Sequential
<1>1. routeCall'[c] = x /\ \A d \in RouteCalls : d # c => routeCall'[d].op = "none"
  BY CallBecomes
<1>2. \A a, b \in RouteCalls : routeCall'[a].op # "none" /\ routeCall'[b].op # "none" => a = b
  BY <1>1
<1>3. x.op # "none" => Alone(c)'
  BY <1>1 DEF Alone
<1>4. x.op # "none" /\ routeFaults' = 0 => AloneUnfailed(c)'
  BY <1>1 DEF AloneUnfailed
<1>5. AtRest' => x.op = "none"
  BY <1>1 DEF AtRest
<1> QED BY <1>1, <1>2, <1>3, <1>4, <1>5 DEF Sequential, TakingOver

(* What the other calls know stands if Finnhub stands while they call it.  *)
LEMMA OthersKnow ==
  ASSUME RolesInv, NEW c \in RouteCalls, NEW x \in RouteRecords, Becomes(c, x),
         CallKnown(c)', FinnhubKnown(c)',
         Len(kinds') >= Len(kinds), \A i \in 1 .. Len(kinds) : kinds'[i] = kinds[i],
         kinds' \in Seq(Kinds),
         \A d \in RouteCalls : d # c /\ FinnhubCall(d) =>
           UNCHANGED <<ownerLock, finnhub>> /\ (finnhub \in up' => finnhub \in up)
  PROVE  CallsAre'
<1> SUFFICES ASSUME NEW d \in RouteCalls, d # c
             PROVE  CallKnown(d)' /\ FinnhubKnown(d)'
  BY DEF CallsAre
<1>1. routeCall'[d] = routeCall[d] /\ routeCall[d] \in RouteRecords
  BY CallBecomes DEF RolesInv, RolesTyped
<1>2. CallKnown(d) /\ FinnhubKnown(d)
  BY DEF RolesInv, CallsAre
<1>3. Len(kinds) \in Nat /\ Len(kinds') \in Nat
  BY DEF RolesInv, RolesTyped
<1>4. CallKnown(d)'
  BY <1>1, <1>2, <1>3 DEF CallKnown, RouteRecords
<1>5. FinnhubKnown(d)'
  BY <1>1, <1>2 DEF FinnhubKnown, FinnhubCall
<1> QED BY <1>4, <1>5

(* A new adapter is the last one.                                          *)
LEMMA AdapterMade ==
  ASSUME RolesInv, NEW k \in Kinds, Makes(k)
  PROVE  /\ kinds' \in Seq(Kinds) /\ Len(kinds') = Len(kinds) + 1 /\ Len(kinds) \in Nat
         /\ NewAdapter = Len(kinds) + 1 /\ NewAdapter \in Nat \ {0} /\ kinds'[NewAdapter] = k
         /\ \A i \in 1 .. Len(kinds) : kinds'[i] = kinds[i]
         /\ NewAdapter \notin up /\ 1 .. Len(kinds) \subseteq 1 .. Len(kinds')
BY DEF RolesInv, RolesTyped, Makes, NewAdapter

(* Finnhub's lock is free: no other call is of Finnhub's routes.           *)
LEMMA LockFree ==
  ASSUME RolesInv, OwnerLockFree
  PROVE  \A d \in RouteCalls : ~FinnhubCall(d)
BY RolesAssumption DEF RolesInv, CallsAre, FinnhubKnown, FinnhubCall, OwnerLockFree

LEMMA LockHeld ==
  ASSUME RolesInv, NEW c \in RouteCalls, FinnhubCall(c)
  PROVE  ownerLock = c /\ \A d \in RouteCalls : d # c => ~FinnhubCall(d)
BY DEF RolesInv, CallsAre, FinnhubKnown, FinnhubCall

LEMMA ConnectPolygonKeeps ==
  ASSUME RolesInv, NEW c \in RouteCalls, ConnectPolygon(c)
  PROVE  RolesInv'
<1> DEFINE n == NewAdapter
           x == IF streamingRole = NoOne
                THEN [op |-> "connect_polygon", at |-> "settling", me |-> n, old |-> NoOne]
                ELSE routeCall[c]
<1>1. /\ Called(c) /\ polygon \notin up /\ Makes("polygon") /\ polygon' = n /\ historical' = n
      /\ up' = up \cup {n}
      /\ UNCHANGED <<finnhub, streamingRole, ownerLock, routeFaults>>
  BY DEF ConnectPolygon, NoFault
<1>2. /\ kinds' \in Seq(Kinds) /\ Len(kinds') = Len(kinds) + 1 /\ Len(kinds) \in Nat
      /\ n = Len(kinds) + 1 /\ n \in Nat \ {0} /\ kinds'[n] = "polygon"
      /\ \A i \in 1 .. Len(kinds) : kinds'[i] = kinds[i]
      /\ n \notin up /\ 1 .. Len(kinds) \subseteq 1 .. Len(kinds')
  BY <1>1, AdapterMade DEF Kinds
<1>3. routeCall[c] \in RouteRecords /\ routeCall[c].op = "none" /\ routeCall[c].at = "none"
  BY <1>1, CallBegins DEF RolesInv, RolesTyped, CallsAre, CallKnown
<1> HIDE DEF n
<1>4. x \in RouteRecords
  BY <1>2, <1>3 DEF RouteRecords, RouteOps, RouteSteps, NoOne
<1>5. Becomes(c, x)
  <2>1. CASE streamingRole = NoOne
    BY <2>1 DEF ConnectPolygon, n
  <2>2. CASE streamingRole # NoOne
    BY <2>2 DEF ConnectPolygon, Becomes, RolesInv, RolesTyped
  <2> QED BY <2>1, <2>2
<1>6. IF streamingRole = NoOne THEN x.op = "connect_polygon" /\ x.at = "settling" /\ x.me = n
                               ELSE x.op = "none" /\ x.at = "none"
  BY <1>3
<1> HIDE DEF x
<1>7. routeCall' \in [RouteCalls -> RouteRecords] /\ routeCall'[c] = x
  BY <1>4, <1>5, CallBecomes
<1>t. RolesTyped'
  <2>a. up \subseteq 1 .. Len(kinds) /\ polygon' \in 0 .. Len(kinds') /\ historical' \in 0 .. Len(kinds')
        /\ n \in 1 .. Len(kinds')
    BY <1>1, <1>2 DEF RolesInv, RolesTyped
  <2>b. finnhub' \in 0 .. Len(kinds') /\ streamingRole' \in 0 .. Len(kinds')
    BY <1>1, <1>2 DEF RolesInv, RolesTyped
  <2>c. up' \subseteq 1 .. Len(kinds')
    <3>1. 1 .. Len(kinds) \subseteq 1 .. Len(kinds')
      BY <1>2
    <3>2. up' = up \cup {n}
      BY <1>1
    <3> QED BY <2>a, <3>1, <3>2
  <2>1. up' \subseteq 1 .. Len(kinds')
        /\ {polygon', finnhub', streamingRole', historical'} \subseteq 0 .. Len(kinds')
    BY <2>a, <2>b, <2>c
  <2>2. /\ kinds'[polygon'] = "polygon" /\ kinds'[historical'] = "polygon"
        /\ finnhub' # NoOne => kinds'[finnhub'] = "finnhub"
    BY <1>1, <1>2 DEF RolesInv, RolesTyped, NoOne
  <2> QED BY <1>1, <1>2, <1>7, <2>1, <2>2 DEF RolesInv, RolesTyped
<1>8. CallKnown(c)' /\ FinnhubKnown(c)'
  BY <1>2, <1>6, <1>7 DEF CallKnown, FinnhubKnown, FinnhubCall, TakingOver
<1>9. finnhub # n
  BY <1>2 DEF RolesInv, RolesTyped
<1>10. CallsAre'
  BY <1>1, <1>2, <1>4, <1>5, <1>8, <1>9, OthersKnow
<1>11. FinnhubOne'
  BY <1>1, <1>2 DEF RolesInv, RolesTyped, FinnhubOne
<1>12. Sequential'
  <2>1. ~overlapping' => /\ \A d \in RouteCalls : d # c => routeCall[d].op = "none"
                         /\ \A a \in up : kinds[a] = "polygon" => a = polygon
                         /\ finnhub \in up => streamingRole = finnhub
                         /\ routeFaults = 0 => {streamingRole, historical} \subseteq up \cup {NoOne}
    BY <1>1, CallBegins DEF AtRest
  <2>2. ~overlapping' => \A a \in up' : kinds'[a] = "polygon" => a = polygon'
    BY <1>1, <1>2, <2>1 DEF RolesInv, RolesTyped
  <2>3. NoOne \notin up
    BY DEF RolesInv, RolesTyped, NoOne
  <2> QED BY <1>1, <1>4, <1>5, <1>6, <1>9, <2>1, <2>2, <2>3, SequentialBy DEF TakingOver
<1> QED BY <1>t, <1>10, <1>11, <1>12 DEF RolesInv

LEMMA ConnectFinnhubKeeps ==
  ASSUME RolesInv, NEW c \in RouteCalls, ConnectFinnhub(c)
  PROVE  RolesInv'
<1> DEFINE n == NewAdapter
           x == [op |-> "connect_finnhub", at |-> "connecting", me |-> n, old |-> NoOne]
<1>1. /\ Called(c) /\ OwnerLockFree /\ finnhub \notin up /\ Makes("finnhub") /\ finnhub' = n
      /\ ownerLock' = c /\ Becomes(c, x)
      /\ UNCHANGED <<up, polygon, streamingRole, historical, routeFaults>>
  BY DEF ConnectFinnhub, NoFault, Registry
<1>2. /\ kinds' \in Seq(Kinds) /\ Len(kinds') = Len(kinds) + 1 /\ Len(kinds) \in Nat
      /\ n = Len(kinds) + 1 /\ n \in Nat \ {0} /\ kinds'[n] = "finnhub"
      /\ \A i \in 1 .. Len(kinds) : kinds'[i] = kinds[i]
      /\ n \notin up
  BY <1>1, AdapterMade DEF Kinds
<1> HIDE DEF n
<1>4. x \in RouteRecords /\ x.op = "connect_finnhub" /\ x.at = "connecting" /\ x.me = n
  BY <1>2 DEF RouteRecords, RouteOps, RouteSteps, NoOne
<1> HIDE DEF x
<1>7. routeCall' \in [RouteCalls -> RouteRecords] /\ routeCall'[c] = x
  BY <1>1, <1>4, CallBecomes
<1>t. RolesTyped'
  <2>1. up' \subseteq 1 .. Len(kinds')
        /\ {polygon', finnhub', streamingRole', historical'} \subseteq 0 .. Len(kinds')
    BY <1>1, <1>2 DEF RolesInv, RolesTyped
  <2>2. /\ kinds'[finnhub'] = "finnhub"
        /\ polygon' # NoOne => kinds'[polygon'] = "polygon"
        /\ historical' # NoOne => kinds'[historical'] # "finnhub"
    BY <1>1, <1>2 DEF RolesInv, RolesTyped, NoOne
  <2> QED BY <1>1, <1>2, <1>7, <2>1, <2>2 DEF RolesInv, RolesTyped
<1>8. CallKnown(c)' /\ FinnhubKnown(c)'
  BY <1>1, <1>2, <1>4, <1>7 DEF CallKnown, FinnhubKnown, FinnhubCall, TakingOver
<1>10. CallsAre'
  BY <1>1, <1>2, <1>4, <1>8, LockFree, OthersKnow
<1>11. FinnhubOne'
  BY <1>1, <1>2 DEF RolesInv, RolesTyped, FinnhubOne
<1>12. Sequential'
  <2>1. ~overlapping' => /\ \A d \in RouteCalls : d # c => routeCall[d].op = "none"
                         /\ \A a \in up : kinds[a] = "polygon" => a = polygon
                         /\ routeFaults = 0 => {streamingRole, historical} \subseteq up \cup {NoOne}
    BY <1>1, CallBegins DEF AtRest
  <2>2. ~overlapping' => \A a \in up' : kinds'[a] = "polygon" => a = polygon'
    BY <1>1, <1>2, <2>1 DEF RolesInv, RolesTyped
  <2> QED BY <1>1, <1>2, <1>4, <2>1, <2>2, SequentialBy DEF TakingOver
<1> QED BY <1>t, <1>10, <1>11, <1>12 DEF RolesInv

LEMMA ConnectIBKRKeeps ==
  ASSUME RolesInv, NEW c \in RouteCalls, ConnectIBKR(c)
  PROVE  RolesInv'
<1> DEFINE n == NewAdapter
           x == [op |-> "connect_ibkr", at |-> "connecting", me |-> n, old |-> NoOne]
<1>1. /\ Called(c) /\ Makes("ibkr") /\ Becomes(c, x)
      /\ UNCHANGED <<up, ownerLock, polygon, finnhub, streamingRole, historical, routeFaults>>
  BY DEF ConnectIBKR, NoFault, Registry, Owners
<1>2. /\ kinds' \in Seq(Kinds) /\ Len(kinds') = Len(kinds) + 1 /\ Len(kinds) \in Nat
      /\ n = Len(kinds) + 1 /\ n \in Nat \ {0} /\ kinds'[n] = "ibkr"
      /\ \A i \in 1 .. Len(kinds) : kinds'[i] = kinds[i]
  BY <1>1, AdapterMade DEF Kinds
<1> HIDE DEF n
<1>4. x \in RouteRecords /\ x.op = "connect_ibkr" /\ x.at = "connecting" /\ x.me = n
  BY <1>2 DEF RouteRecords, RouteOps, RouteSteps, NoOne
<1> HIDE DEF x
<1>7. routeCall' \in [RouteCalls -> RouteRecords] /\ routeCall'[c] = x
  BY <1>1, <1>4, CallBecomes
<1>t. RolesTyped'
  <2>1. up' \subseteq 1 .. Len(kinds')
        /\ {polygon', finnhub', streamingRole', historical'} \subseteq 0 .. Len(kinds')
    BY <1>1, <1>2 DEF RolesInv, RolesTyped
  <2>2. /\ finnhub' # NoOne => kinds'[finnhub'] = "finnhub"
        /\ polygon' # NoOne => kinds'[polygon'] = "polygon"
        /\ historical' # NoOne => kinds'[historical'] # "finnhub"
    BY <1>1, <1>2 DEF RolesInv, RolesTyped, NoOne
  <2> QED BY <1>1, <1>2, <1>7, <2>1, <2>2 DEF RolesInv, RolesTyped
<1>8. CallKnown(c)' /\ FinnhubKnown(c)'
  BY <1>1, <1>2, <1>4, <1>7 DEF CallKnown, FinnhubKnown, FinnhubCall, TakingOver
<1>10. CallsAre'
  BY <1>1, <1>2, <1>4, <1>8, OthersKnow
<1>11. FinnhubOne'
  BY <1>1, <1>2 DEF RolesInv, RolesTyped, FinnhubOne
<1>12. Sequential'
  <2>1. ~overlapping' => /\ \A d \in RouteCalls : d # c => routeCall[d].op = "none"
                         /\ \A a \in up : kinds[a] = "polygon" => a = polygon
                         /\ finnhub \in up => streamingRole = finnhub
                         /\ routeFaults = 0 => {streamingRole, historical} \subseteq up \cup {NoOne}
    BY <1>1, CallBegins DEF AtRest
  <2>2. ~overlapping' => \A a \in up' : kinds'[a] = "polygon" => a = polygon'
    BY <1>1, <1>2, <2>1 DEF RolesInv, RolesTyped
  <2> QED BY <1>1, <1>4, <2>1, <2>2, SequentialBy DEF TakingOver
<1> QED BY <1>t, <1>10, <1>11, <1>12 DEF RolesInv

(* Steps that make no adapter.                                             *)
LEMMA NoneMade ==
  ASSUME RolesInv, UNCHANGED kinds
  PROVE  /\ kinds' \in Seq(Kinds) /\ Len(kinds') >= Len(kinds) /\ Len(kinds) \in Nat
         /\ \A i \in 1 .. Len(kinds) : kinds'[i] = kinds[i]
         /\ NoOne \notin up
BY DEF RolesInv, RolesTyped, NoOne

LEMMA ConnectedKeeps ==
  ASSUME RolesInv, NEW c \in RouteCalls, AdapterConnected(c)
  PROVE  RolesInv'
<1> DEFINE r == routeCall[c]
           now == up \cup {r.me}
           goes == MustDisconnect(streamingRole, r.me)
           x == [op |-> r.op, at |-> IF goes THEN "disconnecting" ELSE "settling", me |-> r.me,
                 old |-> IF goes THEN streamingRole ELSE NoOne]
<1>1. /\ r.at = "connecting" /\ Becomes(c, x)
      /\ up' = IF goes THEN now \ {streamingRole} ELSE now
      /\ UNCHANGED <<kinds, ownerLock, polygon, finnhub, streamingRole, historical, routeFaults,
                     overlapping>>
  BY DEF AdapterConnected, TakeOver, NoFault, Registry, Owners, Running
<1>2. goes <=> streamingRole \notin {NoOne, r.me} /\ historical # streamingRole
  BY DEF MustDisconnect
<1>3. r \in RouteRecords /\ CallKnown(c) /\ FinnhubKnown(c)
      /\ streamingRole \in Nat /\ Len(kinds) \in Nat
  BY DEF RolesInv, RolesTyped, CallsAre
<1>4. x \in RouteRecords /\ x.op = r.op /\ x.at \in TakingOver /\ x.me = r.me
  BY <1>3 DEF RouteRecords, RouteSteps, NoOne, TakingOver
<1> HIDE DEF x
<1>5. /\ r.op \in {"connect_finnhub", "connect_ibkr"} /\ r.me \in 1 .. Len(kinds)
      /\ r.op = "connect_finnhub" => kinds[r.me] = "finnhub" /\ r.me = finnhub
      /\ r.op = "connect_ibkr" => kinds[r.me] = "ibkr"
  BY <1>1, <1>3 DEF CallKnown, FinnhubKnown
<1>6. historical # finnhub \/ historical = NoOne
  BY DEF RolesInv, RolesTyped
<1>f. finnhub = r.me \/ (finnhub \in up' => finnhub \in up)
  BY <1>1
<1> HIDE DEF goes
<1>7. routeCall' \in [RouteCalls -> RouteRecords] /\ routeCall'[c] = x
  BY <1>1, <1>4, CallBecomes
<1>t. RolesTyped'
  BY <1>1, <1>5, <1>7 DEF RolesInv, RolesTyped
<1>8. CallKnown(c)' /\ FinnhubKnown(c)'
  BY <1>1, <1>3, <1>4, <1>5, <1>7 DEF CallKnown, FinnhubKnown, FinnhubCall, TakingOver
<1>9. finnhub = r.me => r.op = "connect_finnhub"
  BY <1>5 DEF RolesInv, RolesTyped, NoOne
<1>10. CallsAre'
  <2>1. \A d \in RouteCalls : d # c /\ FinnhubCall(d) => r.op # "connect_finnhub"
    BY LockHeld DEF FinnhubCall
  <2> QED BY <1>1, <1>4, <1>8, <1>9, <1>f, <2>1, NoneMade, OthersKnow
<1>11. FinnhubOne'
  BY <1>1, <1>5 DEF RolesInv, FinnhubOne
<1>12. Sequential'
  <2> SUFFICES ASSUME ~overlapping'
               PROVE  Sequential'
    BY DEF Sequential
  <2>1. /\ \A d \in RouteCalls : d # c => routeCall[d].op = "none"
        /\ \A a \in up : kinds[a] = "polygon" => a = polygon
        /\ Alone(c) /\ (routeFaults = 0 => AloneUnfailed(c))
    BY <1>1, <1>5, RunsAlone
  <2>2. \A a \in up' : kinds'[a] = "polygon" => a = polygon'
    BY <1>1, <1>5, <2>1
  <2>3. finnhub \in up => streamingRole = finnhub /\ finnhub # NoOne
    BY <1>1, <2>1, NoneMade DEF Alone, TakingOver
  <2>4. r.op = "connect_ibkr" => finnhub \notin up'
    BY <1>1, <1>2, <1>5, <1>6, <1>9, <2>3
  <2>5. routeFaults = 0 => historical \in up' \cup {NoOne} /\ r.me \in up'
    BY <1>1, <1>2, <2>1 DEF AloneUnfailed
  <2> QED BY <1>1, <1>4, <1>5, <2>1, <2>2, <2>4, <2>5, SequentialBy DEF TakingOver
<1> QED BY <1>t, <1>10, <1>11, <1>12 DEF RolesInv

LEMMA RefusedKeeps ==
  ASSUME RolesInv, NEW c \in RouteCalls, AdapterRefused(c)
  PROVE  RolesInv'
<1> DEFINE r == routeCall[c]
<1>1. /\ r.at = "connecting" /\ Becomes(c, NoCall) /\ routeFaults' = routeFaults + 1
      /\ finnhub' = (IF finnhub = r.me THEN NoOne ELSE finnhub)
      /\ ownerLock' = (IF ownerLock = c THEN NoOne ELSE ownerLock)
      /\ UNCHANGED <<kinds, up, polygon, streamingRole, historical, overlapping>>
  BY DEF AdapterRefused, RouteFault, Returns, Unlocked, Registry, Running
<1>3. r \in RouteRecords /\ CallKnown(c) /\ FinnhubKnown(c) /\ routeFaults \in Nat
  BY DEF RolesInv, RolesTyped, CallsAre
<1>4. NoCall \in RouteRecords /\ NoCall.op = "none" /\ NoCall.at = "none"
  BY DEF NoCall, RouteRecords, RouteOps, RouteSteps, NoOne
<1>5. /\ r.op \in {"connect_finnhub", "connect_ibkr"} /\ r.me \in 1 .. Len(kinds)
      /\ r.op = "connect_finnhub" => r.me = finnhub /\ r.me \notin up
      /\ r.op = "connect_ibkr" => kinds[r.me] = "ibkr"
  BY <1>1, <1>3 DEF CallKnown, FinnhubKnown
<1>6. finnhub = r.me <=> r.op = "connect_finnhub"
  BY <1>5 DEF RolesInv, RolesTyped, NoOne
<1>7. routeCall' \in [RouteCalls -> RouteRecords] /\ routeCall'[c] = NoCall
  BY <1>1, <1>4, CallBecomes
<1>t. RolesTyped'
  BY <1>1, <1>3, <1>7 DEF RolesInv, RolesTyped, NoOne
<1>8. CallKnown(c)' /\ FinnhubKnown(c)'
  BY <1>4, <1>7 DEF CallKnown, FinnhubKnown, FinnhubCall, TakingOver
<1>10. CallsAre'
  <2>1. \A d \in RouteCalls : d # c /\ FinnhubCall(d) => r.op # "connect_finnhub" /\ ownerLock = d
    BY LockHeld DEF FinnhubCall
  <2> QED BY <1>1, <1>4, <1>6, <1>8, <2>1, NoneMade, OthersKnow
<1>11. FinnhubOne'
  BY <1>1, <1>5, <1>6 DEF RolesInv, FinnhubOne
<1>12. Sequential'
  <2> SUFFICES ASSUME ~overlapping'
               PROVE  Sequential'
    BY DEF Sequential
  <2>1. /\ \A d \in RouteCalls : d # c => routeCall[d].op = "none"
        /\ \A a \in up : kinds[a] = "polygon" => a = polygon
        /\ Alone(c)
    BY <1>1, <1>5, RunsAlone
  <2>3. finnhub' \in up => streamingRole = finnhub'
    BY <1>1, <2>1, NoneMade DEF Alone, TakingOver
  <2> QED BY <1>1, <1>3, <1>4, <2>1, <2>3, SequentialBy DEF TakingOver
<1> QED BY <1>t, <1>10, <1>11, <1>12 DEF RolesInv

LEMMA OldGoneKeeps ==
  ASSUME RolesInv, NEW c \in RouteCalls, OldDisconnected(c)
  PROVE  RolesInv'
<1> DEFINE r == routeCall[c]
           x == [r EXCEPT !.at = "settling"]
<1>1. /\ r.at = "disconnecting" /\ Becomes(c, x)
      /\ UNCHANGED <<kinds, up, ownerLock, polygon, finnhub, streamingRole, historical, routeFaults,
                     overlapping>>
  BY DEF OldDisconnected, Turns, NoFault, Registry, Owners, Running
<1>3. r \in RouteRecords /\ CallKnown(c) /\ FinnhubKnown(c) /\ routeFaults \in Nat
  BY DEF RolesInv, RolesTyped, CallsAre
<1>4. x \in RouteRecords /\ x.op = r.op /\ x.at = "settling" /\ x.me = r.me
  BY <1>3 DEF RouteRecords, RouteSteps
<1> HIDE DEF x
<1>5. r.op \in {"connect_polygon", "connect_finnhub", "connect_ibkr"}
  BY <1>1, <1>3 DEF CallKnown, TakingOver
<1>7. routeCall' \in [RouteCalls -> RouteRecords] /\ routeCall'[c] = x
  BY <1>1, <1>4, CallBecomes
<1>t. RolesTyped'
  BY <1>1, <1>7 DEF RolesInv, RolesTyped
<1>8. CallKnown(c)' /\ FinnhubKnown(c)'
  BY <1>1, <1>3, <1>4, <1>5, <1>7 DEF CallKnown, FinnhubKnown, FinnhubCall, TakingOver
<1>10. CallsAre'
  BY <1>1, <1>4, <1>8, NoneMade, OthersKnow
<1>11. FinnhubOne'
  BY <1>1 DEF RolesInv, FinnhubOne
<1>12. Sequential'
  <2> SUFFICES ASSUME ~overlapping'
               PROVE  Sequential'
    BY DEF Sequential
  <2>1. /\ \A d \in RouteCalls : d # c => routeCall[d].op = "none"
        /\ \A a \in up : kinds[a] = "polygon" => a = polygon
        /\ Alone(c) /\ (routeFaults = 0 => AloneUnfailed(c))
    BY <1>1, <1>5, RunsAlone
  <2> QED BY <1>1, <1>4, <1>5, <2>1, SequentialBy DEF TakingOver, Alone, AloneUnfailed
<1> QED BY <1>t, <1>10, <1>11, <1>12 DEF RolesInv

LEMMA InstallsKeeps ==
  ASSUME RolesInv, NEW c \in RouteCalls, Installs(c)
  PROVE  RolesInv'
<1> DEFINE r == routeCall[c]
<1>1. /\ r.at = "settling" /\ Becomes(c, NoCall) /\ streamingRole' = r.me
      /\ historical' = (IF r.op = "connect_ibkr" THEN r.me ELSE historical)
      /\ ownerLock' = (IF ownerLock = c THEN NoOne ELSE ownerLock)
      /\ UNCHANGED <<kinds, up, polygon, finnhub, routeFaults, overlapping>>
  BY DEF Installs, NoFault, Returns, Unlocked, Owners, Running
<1>3. r \in RouteRecords /\ CallKnown(c) /\ FinnhubKnown(c) /\ routeFaults \in Nat
  BY DEF RolesInv, RolesTyped, CallsAre
<1>4. NoCall \in RouteRecords /\ NoCall.op = "none" /\ NoCall.at = "none"
  BY DEF NoCall, RouteRecords, RouteOps, RouteSteps, NoOne
<1>5. /\ r.op \in {"connect_polygon", "connect_finnhub", "connect_ibkr"} /\ r.me \in 1 .. Len(kinds)
      /\ r.op = "connect_finnhub" => r.me = finnhub
      /\ r.op = "connect_ibkr" => kinds[r.me] = "ibkr"
  BY <1>1, <1>3 DEF CallKnown, FinnhubKnown, TakingOver
<1>7. routeCall' \in [RouteCalls -> RouteRecords] /\ routeCall'[c] = NoCall
  BY <1>1, <1>4, CallBecomes
<1>t. RolesTyped'
  BY <1>1, <1>5, <1>7 DEF RolesInv, RolesTyped, NoOne
<1>8. CallKnown(c)' /\ FinnhubKnown(c)'
  BY <1>4, <1>7 DEF CallKnown, FinnhubKnown, FinnhubCall, TakingOver
<1>10. CallsAre'
  <2>1. \A d \in RouteCalls : d # c /\ FinnhubCall(d) => ownerLock = d
    BY LockHeld
  <2> QED BY <1>1, <1>4, <1>8, <2>1, NoneMade, OthersKnow
<1>11. FinnhubOne'
  BY <1>1 DEF RolesInv, FinnhubOne
<1>12. Sequential'
  <2> SUFFICES ASSUME ~overlapping'
               PROVE  Sequential'
    BY DEF Sequential
  <2>1. /\ \A d \in RouteCalls : d # c => routeCall[d].op = "none"
        /\ \A a \in up : kinds[a] = "polygon" => a = polygon
        /\ Alone(c) /\ (routeFaults = 0 => AloneUnfailed(c))
    BY <1>1, <1>5, RunsAlone
  <2>3. finnhub \in up => streamingRole' = finnhub
    BY <1>1, <1>5, <2>1 DEF Alone, TakingOver
  <2>4. routeFaults = 0 => {streamingRole', historical'} \subseteq up \cup {NoOne}
    BY <1>1, <1>5, <2>1 DEF AloneUnfailed, TakingOver
  <2> QED BY <1>1, <1>4, <2>1, <2>3, <2>4, SequentialBy DEF TakingOver
<1> QED BY <1>t, <1>10, <1>11, <1>12 DEF RolesInv

LEMMA TakeOverFailsKeeps ==
  ASSUME RolesInv, NEW c \in RouteCalls, TakeOverFails(c)
  PROVE  RolesInv'
<1> DEFINE r == routeCall[c]
           x == [r EXCEPT !.at = "cleanup"]
<1>1. /\ r.at \in TakingOver /\ Becomes(c, x) /\ routeFaults' = routeFaults + 1
      /\ up' = up \ {r.me}
      /\ polygon' = (IF r.op = "connect_polygon" /\ polygon = r.me THEN NoOne ELSE polygon)
      /\ finnhub' = (IF r.op = "connect_finnhub" /\ finnhub = r.me THEN NoOne ELSE finnhub)
      /\ historical' = (IF r.op = "connect_polygon" /\ historical = r.me THEN NoOne ELSE historical)
      /\ UNCHANGED <<kinds, streamingRole, ownerLock, overlapping>>
  BY DEF TakeOverFails, RouteFault, Running, TakingOver
<1>3. r \in RouteRecords /\ CallKnown(c) /\ FinnhubKnown(c) /\ routeFaults \in Nat
  BY DEF RolesInv, RolesTyped, CallsAre
<1>4. x \in RouteRecords /\ x.op = r.op /\ x.at = "cleanup" /\ x.me = r.me
  BY <1>3 DEF RouteRecords, RouteSteps
<1> HIDE DEF x
<1>5. /\ r.op \in {"connect_polygon", "connect_finnhub", "connect_ibkr"} /\ r.me \in 1 .. Len(kinds)
      /\ r.op = "connect_finnhub" => r.me = finnhub
      /\ r.op # "none"
  BY <1>1, <1>3 DEF CallKnown, FinnhubKnown, TakingOver
<1>7. routeCall' \in [RouteCalls -> RouteRecords] /\ routeCall'[c] = x
  BY <1>1, <1>4, CallBecomes
<1>t. RolesTyped'
  <2>1. polygon' \in {NoOne, polygon} /\ finnhub' \in {NoOne, finnhub} /\ historical' \in {NoOne, historical}
    BY <1>1
  <2>2. routeFaults' \in Nat /\ up' \subseteq up
    BY <1>1, <1>3
  <2>3. UNCHANGED <<kinds, streamingRole>>
    BY <1>1
  <2>4. RolesTyped
    BY DEF RolesInv
  <2> QED BY ONLY <1>7, <2>1, <2>2, <2>3, <2>4 DEF RolesTyped, NoOne
<1>8. CallKnown(c)' /\ FinnhubKnown(c)'
  <2>1. FinnhubKnown(c)'
    <3>1. routeCall'[c].me = r.me /\ routeCall'[c].op = r.op
      BY <1>4, <1>7
    <3>2. r.op = "connect_finnhub" => finnhub' = NoOne
      BY <1>1, <1>5
    <3> QED BY <3>1, <3>2, <1>1, <1>3, <1>4, <1>5, <1>7 DEF FinnhubKnown, FinnhubCall
  <2>2. CallKnown(c)'
    BY <1>1, <1>3, <1>4, <1>5, <1>7 DEF CallKnown, TakingOver
  <2> QED BY <2>1, <2>2
<1>10. CallsAre'
  <2>1. \A d \in RouteCalls : d # c /\ FinnhubCall(d) => r.op # "connect_finnhub"
    BY LockHeld DEF FinnhubCall
  <2> QED BY <1>1, <1>4, <1>8, <2>1, NoneMade, OthersKnow
<1>11. FinnhubOne'
  BY <1>1 DEF RolesInv, FinnhubOne
<1>12. Sequential'
  <2> SUFFICES ASSUME ~overlapping'
               PROVE  Sequential'
    BY DEF Sequential
  <2>1. /\ \A d \in RouteCalls : d # c => routeCall[d].op = "none"
        /\ \A a \in up : kinds[a] = "polygon" => a = polygon
        /\ Alone(c) /\ (routeFaults = 0 => AloneUnfailed(c))
    BY <1>1, <1>5, RunsAlone
  <2>3. finnhub' \in up' => streamingRole' = finnhub'
    BY <1>1, <1>5, <2>1, NoneMade DEF Alone, TakingOver
  <2>4. \A a \in up' : kinds'[a] = "polygon" => a = polygon'
    BY <1>1, <2>1
  <2> QED BY <1>1, <1>3, <1>4, <1>5, <2>1, <2>3, <2>4, SequentialBy DEF TakingOver
<1> QED BY <1>t, <1>10, <1>11, <1>12 DEF RolesInv

LEMMA CleanedUpKeeps ==
  ASSUME RolesInv, NEW c \in RouteCalls, CleanedUp(c)
  PROVE  RolesInv'
<1> DEFINE r == routeCall[c]
<1>1. /\ r.at = "cleanup" /\ Becomes(c, NoCall)
      /\ ownerLock' = (IF ownerLock = c THEN NoOne ELSE ownerLock)
      /\ UNCHANGED <<kinds, up, polygon, finnhub, streamingRole, historical, routeFaults, overlapping>>
  BY DEF CleanedUp, NoFault, Returns, Unlocked, Registry, Owners, Running
<1>3. r \in RouteRecords /\ CallKnown(c) /\ FinnhubKnown(c) /\ routeFaults \in Nat
  BY DEF RolesInv, RolesTyped, CallsAre
<1>4. NoCall \in RouteRecords /\ NoCall.op = "none" /\ NoCall.at = "none"
  BY DEF NoCall, RouteRecords, RouteOps, RouteSteps, NoOne
<1>5. r.op # "none"
  BY <1>1, <1>3 DEF CallKnown
<1>7. routeCall' \in [RouteCalls -> RouteRecords] /\ routeCall'[c] = NoCall
  BY <1>1, <1>4, CallBecomes
<1>t. RolesTyped'
  BY <1>1, <1>7 DEF RolesInv, RolesTyped
<1>8. CallKnown(c)' /\ FinnhubKnown(c)'
  BY <1>4, <1>7 DEF CallKnown, FinnhubKnown, FinnhubCall, TakingOver
<1>10. CallsAre'
  <2>1. \A d \in RouteCalls : d # c /\ FinnhubCall(d) => ownerLock = d
    BY LockHeld
  <2> QED BY <1>1, <1>4, <1>8, <2>1, NoneMade, OthersKnow
<1>11. FinnhubOne'
  BY <1>1 DEF RolesInv, FinnhubOne
<1>12. Sequential'
  <2> SUFFICES ASSUME ~overlapping'
               PROVE  Sequential'
    BY DEF Sequential
  <2>1. /\ \A d \in RouteCalls : d # c => routeCall[d].op = "none"
        /\ \A a \in up : kinds[a] = "polygon" => a = polygon
        /\ Alone(c) /\ (routeFaults = 0 => AloneUnfailed(c))
    BY <1>1, <1>5, RunsAlone
  <2>3. /\ finnhub \in up => streamingRole = finnhub
        /\ routeFaults # 0
    BY <1>1, <2>1 DEF Alone, AloneUnfailed, TakingOver
  <2> QED BY <1>1, <1>4, <2>1, <2>3, SequentialBy DEF TakingOver
<1> QED BY <1>t, <1>10, <1>11, <1>12 DEF RolesInv

LEMMA DisconnectFinnhubKeeps ==
  ASSUME RolesInv, NEW c \in RouteCalls, DisconnectFinnhub(c)
  PROVE  RolesInv'
<1> DEFINE x == [op |-> "disconnect_finnhub", at |-> "leaving", me |-> NoOne, old |-> NoOne]
<1>1. /\ Called(c) /\ OwnerLockFree /\ finnhub # NoOne /\ Becomes(c, x)
      /\ up' = up \ {finnhub} /\ ownerLock' = c
      /\ UNCHANGED <<kinds, polygon, finnhub, streamingRole, historical, routeFaults>>
  BY DEF DisconnectFinnhub, NoFault, Registry, Owners
<1>4. x \in RouteRecords /\ x.op = "disconnect_finnhub" /\ x.at = "leaving"
  BY DEF RouteRecords, RouteOps, RouteSteps, NoOne
<1> HIDE DEF x
<1>7. routeCall' \in [RouteCalls -> RouteRecords] /\ routeCall'[c] = x
  BY <1>1, <1>4, CallBecomes
<1>t. RolesTyped'
  BY <1>1, <1>7 DEF RolesInv, RolesTyped, NoOne
<1>8. CallKnown(c)' /\ FinnhubKnown(c)'
  BY <1>1, <1>4, <1>7 DEF CallKnown, FinnhubKnown, FinnhubCall, TakingOver
<1>10. CallsAre'
  BY <1>1, <1>4, <1>8, LockFree, NoneMade, OthersKnow
<1>11. FinnhubOne'
  BY <1>1 DEF RolesInv, FinnhubOne
<1>12. Sequential'
  <2> SUFFICES ASSUME ~overlapping'
               PROVE  Sequential'
    BY DEF Sequential
  <2>1. /\ \A d \in RouteCalls : d # c => routeCall[d].op = "none"
        /\ \A a \in up : kinds[a] = "polygon" => a = polygon
        /\ finnhub \in up => streamingRole = finnhub
        /\ routeFaults = 0 => {streamingRole, historical} \subseteq up \cup {NoOne}
    BY <1>1, CallBegins DEF AtRest
  <2>2. \A a \in up' : kinds'[a] = "polygon" => a = polygon'
    BY <1>1, <2>1
  <2>3. historical # finnhub
    BY <1>1 DEF RolesInv, RolesTyped
  <2> QED BY <1>1, <1>4, <2>1, <2>2, <2>3, SequentialBy DEF TakingOver
<1> QED BY <1>t, <1>10, <1>11, <1>12 DEF RolesInv

LEMMA DisconnectPolygonKeeps ==
  ASSUME RolesInv, NEW c \in RouteCalls, DisconnectPolygon(c)
  PROVE  RolesInv'
<1> DEFINE x == [op |-> "disconnect_polygon", at |-> "leaving", me |-> NoOne, old |-> NoOne]
<1>1. /\ Called(c) /\ Becomes(c, x) /\ up' = up \ {polygon}
      /\ UNCHANGED <<kinds, ownerLock, polygon, finnhub, streamingRole, historical, routeFaults>>
  BY DEF DisconnectPolygon, NoFault, Registry, Owners
<1>4. x \in RouteRecords /\ x.op = "disconnect_polygon" /\ x.at = "leaving"
  BY DEF RouteRecords, RouteOps, RouteSteps, NoOne
<1> HIDE DEF x
<1>7. routeCall' \in [RouteCalls -> RouteRecords] /\ routeCall'[c] = x
  BY <1>1, <1>4, CallBecomes
<1>t. RolesTyped'
  BY <1>1, <1>7 DEF RolesInv, RolesTyped, NoOne
<1>8. CallKnown(c)' /\ FinnhubKnown(c)'
  BY <1>1, <1>4, <1>7 DEF CallKnown, FinnhubKnown, FinnhubCall, TakingOver
<1>10. CallsAre'
  BY <1>1, <1>4, <1>8, NoneMade, OthersKnow
<1>11. FinnhubOne'
  BY <1>1 DEF RolesInv, FinnhubOne
<1>12. Sequential'
  <2> SUFFICES ASSUME ~overlapping'
               PROVE  Sequential'
    BY DEF Sequential
  <2>1. /\ \A d \in RouteCalls : d # c => routeCall[d].op = "none"
        /\ \A a \in up : kinds[a] = "polygon" => a = polygon
        /\ finnhub \in up => streamingRole = finnhub
        /\ routeFaults = 0 => {streamingRole, historical} \subseteq up \cup {NoOne}
    BY <1>1, CallBegins DEF AtRest
  <2>2. \A a \in up' : kinds'[a] = "polygon" => a = polygon'
    BY <1>1, <2>1
  <2> QED BY <1>1, <1>4, <2>1, <2>2, SequentialBy DEF TakingOver
<1> QED BY <1>t, <1>10, <1>11, <1>12 DEF RolesInv

LEMMA DisconnectBrokerKeeps ==
  ASSUME RolesInv, NEW c \in RouteCalls, DisconnectBroker(c)
  PROVE  RolesInv'
<1> DEFINE none == streamingRole = NoOne
           x == IF none THEN routeCall[c]
                ELSE [op |-> "disconnect_broker", at |-> "leaving", me |-> NoOne, old |-> NoOne]
<1>1. /\ Called(c) /\ up' = up \ {streamingRole}
      /\ historical' = (IF none THEN NoOne ELSE historical)
      /\ UNCHANGED <<kinds, ownerLock, polygon, finnhub, streamingRole, routeFaults>>
  BY DEF DisconnectBroker, NoFault, Owners
<1>3. routeCall[c] \in RouteRecords /\ routeCall[c].op = "none" /\ routeCall[c].at = "none"
  BY <1>1, CallBegins DEF RolesInv, RolesTyped, CallsAre, CallKnown
<1>4. x \in RouteRecords
  BY <1>3 DEF RouteRecords, RouteOps, RouteSteps, NoOne
<1>5. Becomes(c, x)
  <2>1. CASE none
    BY <2>1 DEF DisconnectBroker, Becomes, RolesInv, RolesTyped
  <2>2. CASE ~none
    BY <2>2 DEF DisconnectBroker
  <2> QED BY <2>1, <2>2
<1>6. IF none THEN x.op = "none" /\ x.at = "none" ELSE x.op = "disconnect_broker" /\ x.at = "leaving"
  BY <1>3
<1> HIDE DEF x
<1>7. routeCall' \in [RouteCalls -> RouteRecords] /\ routeCall'[c] = x
  BY <1>4, <1>5, CallBecomes
<1>t. RolesTyped'
  BY <1>1, <1>7 DEF RolesInv, RolesTyped, NoOne
<1>8. CallKnown(c)' /\ FinnhubKnown(c)'
  BY <1>1, <1>6, <1>7 DEF CallKnown, FinnhubKnown, FinnhubCall, TakingOver
<1>10. CallsAre'
  BY <1>1, <1>4, <1>5, <1>8, NoneMade, OthersKnow
<1>11. FinnhubOne'
  BY <1>1 DEF RolesInv, FinnhubOne
<1>12. Sequential'
  <2> SUFFICES ASSUME ~overlapping'
               PROVE  Sequential'
    BY DEF Sequential
  <2>1. /\ \A d \in RouteCalls : d # c => routeCall[d].op = "none"
        /\ \A a \in up : kinds[a] = "polygon" => a = polygon
        /\ finnhub \in up => streamingRole = finnhub
        /\ routeFaults = 0 => {streamingRole, historical} \subseteq up \cup {NoOne}
    BY <1>1, CallBegins DEF AtRest
  <2>2. \A a \in up' : kinds'[a] = "polygon" => a = polygon'
    BY <1>1, <2>1
  <2>3. finnhub \notin up'
    BY <1>1, <2>1
  <2> QED BY <1>1, <1>4, <1>5, <1>6, <2>1, <2>2, <2>3, SequentialBy DEF TakingOver
<1> QED BY <1>t, <1>10, <1>11, <1>12 DEF RolesInv

LEMMA LeftKeeps ==
  ASSUME RolesInv, NEW c \in RouteCalls, Left(c)
  PROVE  RolesInv'
<1> DEFINE r == routeCall[c]
<1>1. /\ r.at = "leaving" /\ Becomes(c, NoCall)
      /\ ownerLock' = (IF ownerLock = c THEN NoOne ELSE ownerLock)
      /\ UNCHANGED <<kinds, up, routeFaults, overlapping>>
  BY DEF Left, NoFault, Returns, Unlocked, Running
<1>3. r \in RouteRecords /\ CallKnown(c) /\ FinnhubKnown(c) /\ routeFaults \in Nat
  BY DEF RolesInv, RolesTyped, CallsAre
<1>4. NoCall \in RouteRecords /\ NoCall.op = "none" /\ NoCall.at = "none"
  BY DEF NoCall, RouteRecords, RouteOps, RouteSteps, NoOne
<1>5. r.op \in {"disconnect_finnhub", "disconnect_polygon", "disconnect_broker"} /\ r.op # "none"
  BY <1>1, <1>3 DEF CallKnown
<1>6. /\ r.op = "disconnect_finnhub" =>
           /\ streamingRole' = (IF streamingRole = finnhub THEN NoOne ELSE streamingRole)
           /\ finnhub' = NoOne /\ UNCHANGED <<historical, polygon>>
      /\ r.op = "disconnect_polygon" =>
           /\ streamingRole' = (IF streamingRole = polygon THEN NoOne ELSE streamingRole)
           /\ historical' = (IF historical = polygon THEN NoOne ELSE historical)
           /\ polygon' = NoOne /\ UNCHANGED finnhub
      /\ r.op = "disconnect_broker" =>
           streamingRole' = NoOne /\ historical' = NoOne /\ UNCHANGED <<polygon, finnhub>>
  BY DEF Left, Vacated, Owners
<1>7. routeCall' \in [RouteCalls -> RouteRecords] /\ routeCall'[c] = NoCall
  BY <1>1, <1>4, CallBecomes
<1>t. RolesTyped'
  <2>1. {polygon', finnhub', streamingRole', historical'} \subseteq {NoOne, polygon, finnhub, streamingRole, historical}
        /\ polygon' \in {NoOne, polygon} /\ finnhub' \in {NoOne, finnhub} /\ historical' \in {NoOne, historical}
    BY <1>5, <1>6
  <2>2. RolesTyped /\ UNCHANGED <<kinds, up, routeFaults>>
    BY <1>1 DEF RolesInv
  <2> QED BY ONLY <1>7, <2>1, <2>2 DEF RolesTyped, NoOne
<1>8. CallKnown(c)' /\ FinnhubKnown(c)'
  BY <1>4, <1>7 DEF CallKnown, FinnhubKnown, FinnhubCall, TakingOver
<1>10. CallsAre'
  <2>1. \A d \in RouteCalls : d # c /\ FinnhubCall(d) => r.op # "disconnect_finnhub" /\ ownerLock = d
    BY LockHeld DEF FinnhubCall
  <2> QED BY <1>1, <1>4, <1>5, <1>6, <1>8, <2>1, NoneMade, OthersKnow
<1>11. FinnhubOne'
  BY <1>1, <1>3, <1>5, <1>6 DEF RolesInv, FinnhubOne, FinnhubKnown
<1>12. Sequential'
  <2> SUFFICES ASSUME ~overlapping'
               PROVE  Sequential'
    BY DEF Sequential
  <2>1. /\ \A d \in RouteCalls : d # c => routeCall[d].op = "none"
        /\ \A a \in up : kinds[a] = "polygon" => a = polygon
        /\ Alone(c) /\ (routeFaults = 0 => AloneUnfailed(c))
    BY <1>1, <1>5, RunsAlone
  <2>2. \A a \in up : kinds[a] = "polygon" => a = polygon'
    BY <1>5, <1>6, <2>1 DEF Alone
  <2>3. finnhub' \in up => streamingRole' = finnhub'
    BY <1>1, <1>5, <1>6, <2>1, NoneMade DEF Alone
  <2>4. routeFaults = 0 => {streamingRole', historical'} \subseteq up \cup {NoOne}
    BY <1>5, <1>6, <2>1 DEF AloneUnfailed
  <2> QED BY <1>1, <1>4, <2>1, <2>2, <2>3, <2>4, SequentialBy DEF TakingOver
<1> QED BY <1>t, <1>10, <1>11, <1>12 DEF RolesInv

LEMMA LostKeeps ==
  ASSUME RolesInv, ConnectionLost
  PROVE  RolesInv'
<1> PICK a \in up : Kind(a) = "ibkr" /\ up' = up \ {a}
  BY DEF ConnectionLost
<1>1. /\ routeFaults' = routeFaults + 1 /\ routeFaults' # 0 /\ routeFaults' \in Nat
      /\ UNCHANGED <<kinds, ownerLock, routeCall, overlapping, polygon, finnhub, streamingRole, historical>>
  BY DEF ConnectionLost, RouteFault, Registry, Owners, RolesInv, RolesTyped
<1>2. RolesTyped'
  BY <1>1 DEF RolesInv, RolesTyped
<1>3. CallsAre'
  BY <1>1 DEF RolesInv, CallsAre, CallKnown, FinnhubKnown, FinnhubCall
<1>4. FinnhubOne'
  BY <1>1 DEF RolesInv, FinnhubOne
<1>5. Sequential'
  <2>1. \A c \in RouteCalls : Alone(c) => Alone(c)'
    BY <1>1 DEF Alone
  <2> QED BY <1>1, <2>1 DEF RolesInv, Sequential, AtRest
<1> QED BY <1>2, <1>3, <1>4, <1>5 DEF RolesInv

LEMMA RolesStep == RolesInv /\ [RolesNext]_rolesVars => RolesInv'
<1> SUFFICES ASSUME RolesInv, [RolesNext]_rolesVars
             PROVE  RolesInv'
  OBVIOUS
<1>1. CASE UNCHANGED rolesVars
  BY <1>1 DEF rolesVars, RolesInv, RolesTyped, CallsAre, CallKnown, FinnhubKnown, FinnhubCall,
              FinnhubOne, Sequential, Alone, AloneUnfailed, AtRest
<1>2. ASSUME NEW c \in RouteCalls,
             \/ ConnectPolygon(c) \/ ConnectFinnhub(c) \/ ConnectIBKR(c)
             \/ AdapterConnected(c) \/ AdapterRefused(c)
             \/ OldDisconnected(c) \/ Installs(c) \/ TakeOverFails(c) \/ CleanedUp(c)
             \/ DisconnectFinnhub(c) \/ DisconnectPolygon(c) \/ DisconnectBroker(c) \/ Left(c)
      PROVE  RolesInv'
  BY <1>2, ConnectPolygonKeeps, ConnectFinnhubKeeps, ConnectIBKRKeeps, ConnectedKeeps, RefusedKeeps,
     OldGoneKeeps, InstallsKeeps, TakeOverFailsKeeps, CleanedUpKeeps, DisconnectFinnhubKeeps,
     DisconnectPolygonKeeps, DisconnectBrokerKeeps, LeftKeeps
<1> QED BY <1>1, <1>2, LostKeeps DEF RolesNext

(***************************************************************************)
(* The fundamentals.  The row's period is of a report that is filed, and   *)
(* the reports that a loop has in hand, if any is of a quarter, are as new *)
(* as the row.                                                             *)
(***************************************************************************)
JobPhases == {"off", "sleeping", "calendar", "asking", "asked", "dead"}
JobRecords == [at : JobPhases, reports : Nat]

FiguresKnown ==
  /\ firstReport \in Nat \ {0} /\ filed \in Nat
  /\ fundamentals = [checked |-> fundamentals.checked, period |-> fundamentals.period,
                     figures |-> fundamentals.figures]
  /\ fundamentals.period \in Nat
  /\ jobs \in [Jobs -> JobRecords]

FundamentalsInv ==
  /\ FiguresKnown
  /\ fundamentals.period <= PeriodOf(filed)
  /\ LET r == jobs["filings"]
     IN r.at = "asked" =>
          r.reports <= filed /\ (PeriodOf(r.reports) = 0 \/ PeriodOf(r.reports) >= fundamentals.period)

(* The period of n reports is its newest quarter's.                        *)
LEMMA PeriodIs ==
  ASSUME firstReport \in Nat \ {0}, NEW n \in Nat
  PROVE  /\ PeriodOf(n) \in Nat
         /\ PeriodOf(n) \in {0} \cup {k \in firstReport .. n : OfAQuarter(k)}
         /\ \A k \in firstReport .. n : OfAQuarter(k) => k <= PeriodOf(n)
<1> DEFINE S == {0} \cup {k \in firstReport .. n : OfAQuarter(k)}
<1>1. S \subseteq Nat
  OBVIOUS
<1>2. \E x \in S : \A y \in S : y <= x
  <2>1. CASE n < firstReport
    <3>1. S = {0}
      BY <2>1
    <3> QED BY <3>1
  <2>2. CASE n >= firstReport /\ OfAQuarter(n)
    <3>1. n \in S /\ \A y \in S : y <= n
      BY <2>2
    <3> QED BY <3>1
  <2>3. CASE n >= firstReport /\ ~OfAQuarter(n)
    <3>1. n % 4 = 0 /\ n - 1 \in Nat
      BY <2>3 DEF OfAQuarter
    <3>2. (n - 1) % 4 # 0
      BY <3>1
    <3>3. CASE n - 1 >= firstReport
      <4>1. n - 1 \in S
        BY <3>1, <3>2, <3>3 DEF OfAQuarter
      <4>2. \A y \in S : y <= n - 1
        BY <2>3, <3>1, <3>3
      <4> QED BY <4>1, <4>2
    <3>4. CASE n - 1 < firstReport
      <4>1. S = {0}
        BY <2>3, <3>1, <3>4
      <4> QED BY <4>1
    <3> QED BY <3>1, <3>3, <3>4
  <2> QED BY <2>1, <2>2, <2>3
<1>3. PeriodOf(n) = CHOOSE x \in S : \A y \in S : y <= x
  BY DEF PeriodOf, Max
<1>4. PeriodOf(n) \in S /\ \A y \in S : y <= PeriodOf(n)
  <2> DEFINE P(x) == x \in S /\ \A y \in S : y <= x
  <2>1. \E x : P(x)
    BY <1>2
  <2>2. PeriodOf(n) = CHOOSE x : P(x)
    BY <1>3
  <2> HIDE DEF S
  <2> QED BY <2>1, <2>2
<1> QED BY <1>1, <1>4

(* With more reports it is no earlier.                                     *)
LEMMA PeriodGrows ==
  ASSUME firstReport \in Nat \ {0}, NEW n \in Nat, NEW k \in Nat, k <= n
  PROVE  PeriodOf(k) <= PeriodOf(n)
BY PeriodIs DEF OfAQuarter

(* The same of the next state.                                             *)
LEMMA PeriodStands ==
  ASSUME UNCHANGED company, NEW n
  PROVE  PeriodOf(n)' = PeriodOf(n)
BY DEF company, PeriodOf

LEMMA FundamentalsStart == FundamentalsInit => FundamentalsInv
<1> SUFFICES ASSUME FundamentalsInit
             PROVE  FundamentalsInv
  OBVIOUS
<1>1. firstReport \in Nat \ {0} /\ filed \in Nat /\ fundamentals.period = 0
  BY FundamentalsAssumption DEF FundamentalsInit, NoRow
<1>2. jobs \in [Jobs -> JobRecords] /\ jobs["filings"].at = "off"
  BY DEF FundamentalsInit, At, Jobs, JobRecords, JobPhases
<1>3. FiguresKnown
  BY <1>1, <1>2 DEF FundamentalsInit, FiguresKnown, NoRow
<1> QED BY <1>1, <1>2, <1>3, PeriodIs DEF FundamentalsInv

(* Whatever moves a loop elsewhere, and leaves the row's period, keeps it. *)
LEMMA FiguresKept ==
  ASSUME FundamentalsInv, UNCHANGED company, filed' \in Nat, filed' >= filed,
         fundamentals' = [checked |-> fundamentals'.checked, period |-> fundamentals.period,
                          figures |-> fundamentals.figures],
         jobs' \in [Jobs -> JobRecords],
         jobs'["filings"].at = "asked" => jobs'["filings"] = jobs["filings"]
  PROVE  FundamentalsInv' /\ fundamentals'.period = fundamentals.period
                          /\ fundamentals'.figures = fundamentals.figures
<1>1. fundamentals'.period = fundamentals.period /\ fundamentals'.figures = fundamentals.figures
  OBVIOUS
<1>2. FiguresKnown'
  BY <1>1 DEF FundamentalsInv, FiguresKnown, company
<1>3. fundamentals'.period <= PeriodOf(filed)'
  <2>1. PeriodOf(filed) <= PeriodOf(filed') /\ PeriodOf(filed) \in Nat /\ PeriodOf(filed') \in Nat
    BY PeriodGrows, PeriodIs DEF FundamentalsInv, FiguresKnown
  <2>2. PeriodOf(filed)' = PeriodOf(filed')
    BY DEF PeriodOf, company
  <2> QED BY <1>1, <2>1, <2>2 DEF FundamentalsInv, FiguresKnown
<1>4. ASSUME jobs'["filings"].at = "asked"
      PROVE  /\ jobs'["filings"].reports <= filed'
             /\ \/ PeriodOf(jobs["filings"].reports)' = 0
                \/ PeriodOf(jobs["filings"].reports)' >= fundamentals'.period
  <2>1. PeriodOf(jobs["filings"].reports)' = PeriodOf(jobs["filings"].reports)
    BY <1>4 DEF PeriodOf, company
  <2>2. jobs["filings"].reports \in Nat
    BY DEF FundamentalsInv, FiguresKnown, Jobs, JobRecords
  <2> QED BY <1>1, <1>4, <2>1, <2>2 DEF FundamentalsInv, FiguresKnown
<1> QED BY <1>1, <1>2, <1>3, <1>4 DEF FundamentalsInv

(* Moving a loop to a step other than "asked" is such a move.              *)
LEMMA MovedElsewhere ==
  ASSUME FundamentalsInv, NEW j \in Jobs, NEW p \in JobPhases, NEW n \in Nat, Moves(j, p, n),
         j = "filings" => p # "asked"
  PROVE  /\ jobs' \in [Jobs -> JobRecords]
         /\ jobs'["filings"].at = "asked" => jobs'["filings"] = jobs["filings"]
<1>1. jobs \in [Jobs -> JobRecords] /\ "filings" \in Jobs
  BY DEF FundamentalsInv, FiguresKnown, Jobs
<1>2. At(p, n) \in JobRecords /\ At(p, n).at = p
  BY DEF At, JobRecords
<1>3. jobs' = [jobs EXCEPT ![j] = At(p, n)]
  BY DEF Moves
<1> HIDE DEF At
<1> QED BY <1>1, <1>2, <1>3

LEMMA FundamentalsStep ==
  ASSUME FundamentalsInv, [FundamentalsNext]_fundamentalsVars
  PROVE  /\ FundamentalsInv' /\ fundamentals'.period >= fundamentals.period
         /\ (\E m \in Metrics : fundamentals.figures[m] # <<>>) =>
               \E m \in Metrics : fundamentals'.figures[m] # <<>>
<1> DEFINE Keeps == /\ FundamentalsInv' /\ fundamentals'.period = fundamentals.period
                    /\ fundamentals'.figures = fundamentals.figures
<1>k. /\ firstReport \in Nat \ {0} /\ filed \in Nat /\ fundamentals.period \in Nat
      /\ fundamentals = [checked |-> fundamentals.checked, period |-> fundamentals.period,
                         figures |-> fundamentals.figures]
      /\ jobs \in [Jobs -> JobRecords] /\ "filings" \in Jobs /\ filed >= filed
  BY DEF FundamentalsInv, FiguresKnown, Jobs
<1>a. \A p \in JobPhases : AfterThread(p) \in JobPhases /\ (p # "asked" => AfterThread(p) # "asked")
  BY DEF AfterThread, JobPhases
<1>r. ASSUME NEW j \in Jobs, NEW p \in JobPhases, p # "asked", Refused(j, p)
      PROVE  /\ jobs' \in [Jobs -> JobRecords] /\ UNCHANGED fundamentals
             /\ jobs'["filings"].at = "asked" => jobs'["filings"] = jobs["filings"]
  BY <1>r, <1>a, MovedElsewhere DEF Refused, JobPhases
<1>c. ASSUME NEW s, fundamentals' = Checked(s)
      PROVE  fundamentals' = [checked |-> fundamentals'.checked, period |-> fundamentals.period,
                              figures |-> fundamentals.figures]
  BY <1>c, <1>k DEF Checked
<1>1. CASE UNCHANGED fundamentalsVars
  <2>1. Keeps
    BY <1>1, <1>k, FiguresKept DEF fundamentalsVars, company
  <2> QED BY <2>1, <1>k
<1>2. CASE StartJobs \/ StopJobs \/ CrashJobs
  <2>1. jobs' \in [Jobs -> JobRecords] /\ (jobs'["filings"].at = "asked" => jobs'["filings"] = jobs["filings"])
    BY <1>2, <1>k DEF StartJobs, StopJobs, CrashJobs, At, JobRecords, JobPhases
  <2>2. Keeps
    BY <1>2, <1>k, <2>1, FiguresKept DEF StartJobs, StopJobs, CrashJobs
  <2> QED BY <2>2, <1>k
<1>3. CASE QuarterFiled
  <2>1. filed' \in Nat /\ filed' >= filed /\ UNCHANGED company /\ UNCHANGED <<fundamentals, jobs>>
    BY <1>3, <1>k DEF QuarterFiled
  <2>2. Keeps
    BY <1>k, <2>1, FiguresKept
  <2> QED BY <2>2, <1>k
<1>4. ASSUME NEW j \in Jobs, BatchBegins(j)
      PROVE  Keeps
  <2>1. /\ jobs' \in [Jobs -> JobRecords]
        /\ jobs'["filings"].at = "asked" => jobs'["filings"] = jobs["filings"]
    BY <1>4, MovedElsewhere DEF BatchBegins, JobPhases
  <2>2. UNCHANGED company /\ UNCHANGED <<filed, fundamentals>>
    BY <1>4 DEF BatchBegins
  <2> QED BY <1>k, <2>1, <2>2, FiguresKept
<1>5. ASSUME NEW j \in SimpleJobs, RefreshSimple(j)
      PROVE  Keeps
  <2>0. j \in Jobs
    BY DEF Jobs
  <2>1. UNCHANGED company /\ UNCHANGED filed
    BY <1>5 DEF RefreshSimple
  <2>2. CASE fundamentals' = Checked(j) /\ Moves(j, AfterThread("sleeping"), 0)
    BY <1>a, <1>c, <1>k, <2>0, <2>1, <2>2, MovedElsewhere, FiguresKept DEF JobPhases
  <2>3. CASE Refused(j, "sleeping")
    BY <1>k, <1>r, <2>0, <2>1, <2>3, FiguresKept DEF JobPhases
  <2> QED BY <1>5, <2>2, <2>3 DEF RefreshSimple
<1>6. ASSUME RefreshEarnings
      PROVE  Keeps
  <2>1. UNCHANGED company /\ UNCHANGED filed
    BY <1>6 DEF RefreshEarnings
  <2>2. CASE fundamentals' = Checked("earnings") /\ Moves("filings", AfterThread("asking"), 0)
    BY <1>a, <1>c, <1>k, <2>1, <2>2, MovedElsewhere, FiguresKept DEF JobPhases
  <2>3. CASE Refused("filings", "asking")
    BY <1>k, <1>r, <2>1, <2>3, FiguresKept DEF JobPhases
  <2> QED BY <1>6, <2>2, <2>3 DEF RefreshEarnings
<1>7. ASSUME AskQuarterly
      PROVE  Keeps
  <2>1. UNCHANGED company /\ UNCHANGED filed
    BY <1>7 DEF AskQuarterly
  <2>2. ASSUME NEW n \in {0, filed}, Moves("filings", "asked", n), UNCHANGED fundamentals
        PROVE  Keeps
    <3>1. jobs' \in [Jobs -> JobRecords] /\ jobs'["filings"] = At("asked", n) /\ n \in Nat /\ n <= filed
      BY <1>k, <2>2 DEF Moves, At, JobRecords, JobPhases
    <3>2. PeriodOf(n) = 0 \/ PeriodOf(n) >= fundamentals.period
      BY <1>k, PeriodIs DEF FundamentalsInv, FiguresKnown
    <3>3. jobs'["filings"].reports = n /\ jobs'["filings"].at = "asked"
      BY <3>1 DEF At
    <3>4. PeriodOf(n)' = PeriodOf(n) /\ PeriodOf(filed)' = PeriodOf(filed)
      BY <2>1 DEF PeriodOf, company
    <3>5. FiguresKnown'
      BY <1>k, <2>1, <2>2, <3>1 DEF FundamentalsInv, FiguresKnown, company
    <3>6. PeriodOf(jobs["filings"].reports)' = PeriodOf(n)'
      BY <3>3 DEF PeriodOf
    <3> QED BY <2>1, <2>2, <3>1, <3>2, <3>3, <3>4, <3>5, <3>6 DEF FundamentalsInv
  <2>3. CASE Refused("filings", "sleeping")
    BY <1>k, <1>r, <2>1, <2>3, FiguresKept DEF JobPhases
  <2> QED BY <1>7, <2>2, <2>3 DEF AskQuarterly
<1>8. ASSUME RefreshFinancials
      PROVE  /\ FundamentalsInv' /\ fundamentals'.period >= fundamentals.period
             /\ (\E m \in Metrics : fundamentals.figures[m] # <<>>) =>
                   \E m \in Metrics : fundamentals'.figures[m] # <<>>
  <2>1. UNCHANGED company /\ UNCHANGED filed /\ jobs["filings"].at = "asked"
    BY <1>8 DEF RefreshFinancials
  <2>2. CASE Refused("filings", "sleeping")
    <3>1. Keeps
      BY <1>k, <1>r, <2>1, <2>2, FiguresKept DEF JobPhases
    <3> QED BY <1>k, <3>1
  <2>3. CASE Moves("filings", AfterThread("sleeping"), 0) /\ fundamentals' = Checked("financials")
    <3>1. Keeps
      BY <1>a, <1>c, <1>k, <2>1, <2>3, MovedElsewhere, FiguresKept DEF JobPhases
    <3> QED BY <1>k, <3>1
  <2>4. ASSUME NEW n, NEW figures, n = jobs["filings"].reports, Derived(n, figures),
               Moves("filings", AfterThread("sleeping"), 0),
               fundamentals' = [Checked("financials") EXCEPT !.period = PeriodOf(n), !.figures = figures]
        PROVE  /\ FundamentalsInv' /\ fundamentals'.period >= fundamentals.period
               /\ \E m \in Metrics : fundamentals'.figures[m] # <<>>
    <3>1. n \in Nat /\ n <= filed /\ PeriodOf(n) >= fundamentals.period
      BY <1>k, <2>1, <2>4 DEF FundamentalsInv, Derived, JobRecords
    <3>2. PeriodOf(n) \in Nat /\ PeriodOf(n) <= PeriodOf(filed)
      BY <1>k, <3>1, PeriodIs, PeriodGrows
    <3>3. fundamentals' = [checked |-> fundamentals'.checked, period |-> PeriodOf(n), figures |-> figures]
      BY <1>k, <2>4 DEF Checked
    <3>4. fundamentals'.period = PeriodOf(n) /\ fundamentals'.figures = figures
      BY <3>3
    <3>5. jobs' \in [Jobs -> JobRecords] /\ jobs'["filings"].at # "asked"
      BY <1>k, <1>a, <2>4 DEF Moves, At, JobRecords, JobPhases
    <3>6. PeriodOf(filed)' = PeriodOf(filed)
      BY <2>1 DEF PeriodOf, company
    <3>7. FiguresKnown'
      BY <1>k, <2>1, <3>2, <3>3, <3>4, <3>5 DEF FiguresKnown, company
    <3>8. \E m \in Metrics : figures[m] # <<>>
      BY <2>4 DEF Derived
    <3> QED BY <3>1, <3>2, <3>4, <3>5, <3>6, <3>7, <3>8 DEF FundamentalsInv
  <2> QED BY <1>8, <2>2, <2>3, <2>4 DEF RefreshFinancials
<1> QED BY <1>k, <1>1, <1>2, <1>3, <1>4, <1>5, <1>6, <1>7, <1>8 DEF FundamentalsNext

(***************************************************************************)
(* The lifespan.  What each phase has up, holds and shows; in a rollback   *)
(* and in a shutdown nothing that was passed by is up, because whatever is *)
(* up and optional is kept.                                                *)
(***************************************************************************)
Base == {"bus"} \cup Core
Optional == Pipeline \cup {"protected", "scanner", "outcomes"}
Takers == {"authorizer", "engine"}
Shown == {"monitor", "portfolio", "protected", "scanner", "context", "candidates"}
BeforeStart == {"core", "providers", "venue", "portfolio", "reconcile", "blocked",
                "blocked_portfolio", "hydrate"}
WithCore == {"venue", "portfolio", "reconcile", "blocked", "blocked_portfolio", "hydrate",
             "scanner", "outcomes", "serving", "rollback"}

LifespanKnown ==
  /\ phase \in BeforeStart \cup WithCore \cup {"off", "stopping", "abandoned"}
  /\ stepNo \in Nat /\ servicesUp \subseteq Services /\ taking \subseteq Takers
  /\ exposed \subseteq Shown
  /\ phase \in WithCore => Base \subseteq servicesUp
  /\ phase \in WithCore => servicesUp \cap Optional \subseteq holds
  /\ phase \notin {"scanner", "outcomes", "serving", "stopping", "abandoned"} => exposed = {}
  /\ startupStatus = "ready" => phase \in {"scanner", "outcomes", "serving"}

Starting ==
  /\ phase = "off" => servicesUp = {} /\ taking = {} /\ ~venueRegistered
  /\ phase = "core" => servicesUp = {"bus"}
  /\ phase = "providers" => servicesUp = Base
  /\ phase \in BeforeStart => taking = {}
  /\ phase \in BeforeStart \ {"hydrate"} => ~venueRegistered
  /\ phase = "venue" => holds = {}
  /\ phase = "portfolio" => holds = {"venue"} /\ "venue" \in servicesUp
  /\ phase \in {"reconcile", "blocked", "blocked_portfolio"} => holds = {"venue", "portfolio"}
  /\ phase \in {"reconcile", "blocked", "hydrate"} => {"venue", "portfolio"} \subseteq servicesUp
  /\ phase = "blocked_portfolio" => "venue" \notin servicesUp
  /\ phase = "hydrate" => /\ holds = Pipeline /\ venueRegistered
                          /\ servicesUp \cap {"authorizer", "engine", "monitor", "protected"} = {}

PipelineReady ==
  /\ Pipeline \subseteq servicesUp /\ Pipeline \cup {"protected"} \subseteq holds
  /\ venueRegistered /\ taking = Takers

Served ==
  /\ phase \in {"scanner", "outcomes"} => startupStatus = "ready"
  /\ startupStatus = "ready" => PipelineReady
  /\ phase \in {"scanner", "outcomes", "serving"} => exposed \subseteq servicesUp
  /\ phase = "serving" /\ startupStatus # "ready" =>
       servicesUp \cap Pipeline = {} /\ taking = {} /\ ~venueRegistered

RollingBack ==
  phase = "rollback" =>
    /\ stepNo \in 1 .. 9 /\ ~venueRegistered /\ startupStatus # "ready"
    /\ \A i \in 1 .. stepNo - 1 : RollbackOrder[i] \notin servicesUp
    /\ taking # {} => /\ taking = Takers /\ Pipeline \subseteq servicesUp
                      /\ "scanner" \notin holds /\ "protected" \in holds /\ stepNo <= 2

Stopping ==
  /\ phase \in {"stopping", "abandoned"} =>
       /\ exposed = {} /\ startupStatus = "none"
       /\ HandOverWhole
  /\ phase = "stopping" =>
       /\ stepNo \in 1 .. 20
       /\ servicesUp \cap Optional \subseteq holds
       /\ \A i \in 1 .. stepNo - 1 : ShutdownOrder[i] \notin servicesUp
       /\ "authorizer" \in taking => stepNo <= 16 /\ "authorizer" \in holds
       /\ "engine" \in taking => stepNo <= 17 /\ "engine" \in holds
       /\ venueRegistered => "venue" \in holds

LifespanInv == LifespanKnown /\ Starting /\ Served /\ RollingBack /\ Stopping

LEMMA LifespanTold == LifespanInv => HandOverWhole /\ StatusTrue /\ NothingLeftAlive
<1> SUFFICES ASSUME LifespanInv
             PROVE  HandOverWhole /\ StatusTrue /\ NothingLeftAlive
  OBVIOUS
<1>1. NothingLeftAlive
  BY DEF LifespanInv, Starting, NothingLeftAlive
<1>2. StatusTrue
  BY DEF LifespanInv, LifespanKnown, Served, PipelineReady, Stopping, StatusTrue, Takers
<1>3. HandOverWhole
  <2>1. CASE startupStatus = "ready"
    BY <2>1 DEF LifespanInv, Served, PipelineReady, HandOverWhole, Takers, Pipeline
  <2>2. CASE phase = "rollback"
    BY <2>2 DEF LifespanInv, RollingBack, HandOverWhole, Takers, Pipeline
  <2>3. CASE phase \in {"stopping", "abandoned"}
    BY <2>3 DEF LifespanInv, Stopping
  <2> QED BY <2>1, <2>2, <2>3 
     DEF LifespanInv, LifespanKnown, Starting, Served, PipelineReady, HandOverWhole, BeforeStart, WithCore
<1> QED BY <1>1, <1>2, <1>3

LEMMA LifespanStart == LifespanInit => LifespanInv
BY DEF LifespanInit, LifespanInv, LifespanKnown, Starting, Served, RollingBack, Stopping, BeforeStart, WithCore

(* A pipeline that is put back: what it holds includes all that is up.     *)
LEMMA RollbackKeeps ==
  ASSUME LifespanInv, NEW started, NEW kept, RollsBack(started, kept),
         Base \subseteq servicesUp', servicesUp' \subseteq Services, servicesUp' \cap Optional \subseteq kept,
         started \subseteq Takers, "scanner" \notin kept,
         "protected" \in kept => started = {} \/ (started = Takers /\ Pipeline \subseteq servicesUp')
  PROVE  LifespanInv'
<1>1. /\ phase' = "rollback" /\ stepNo' = 1 /\ startupStatus' = "startup_failed"
      /\ ~venueRegistered' /\ exposed' = {} /\ holds' = kept
      /\ taking' = StillTaking(started, kept)
  BY DEF RollsBack
<1>2. taking' \subseteq Takers /\ (taking' # {} => taking' = started /\ "protected" \in kept)
  BY <1>1 DEF StillTaking
<1>3. LifespanKnown'
  BY <1>1, <1>2 DEF LifespanKnown, WithCore
<1>4. Starting' /\ Served' /\ Stopping'
  BY <1>1 DEF Starting, Served, Stopping, BeforeStart
<1>5. RollingBack'
  BY <1>1, <1>2 DEF RollingBack
<1> QED BY <1>3, <1>4, <1>5 DEF LifespanInv

LEMMA StartStep ==
  ASSUME LifespanInv,
         \/ BusStarts \/ CoreStarts \/ ProvidersConnect
         \/ VenueConnects \/ PortfolioStarts \/ Reconciles \/ BlockedVenue \/ BlockedPortfolio
  PROVE  LifespanInv'
<1> USE DEF LifespanInv
<1>s. {"venue", "portfolio"} \subseteq Services /\ Base \subseteq Services /\ "providers" \in Services
  BY DEF Services, Base, Pipeline
<1>o. /\ "venue" \in Optional /\ "portfolio" \in Optional /\ "providers" \notin Optional
      /\ Base \cap Optional = {} /\ "providers" \notin Base
      /\ "venue" \notin Base /\ "portfolio" \notin Base
  BY DEF Base, Optional, Pipeline, Core, Subscribers
<1>1. CASE BusStarts
  BY <1>1 DEF BusStarts, LifespanKnown, Starting, Served, RollingBack, Stopping, BeforeStart, WithCore, Services
<1>2. CASE CoreStarts
  <2>1. servicesUp' = Base
    BY <1>2 DEF CoreStarts, Starting, Base
  <2> QED BY <1>2, <1>s, <2>1
          DEF CoreStarts, LifespanKnown, Starting, Served, RollingBack, Stopping, BeforeStart, WithCore
<1>3. CASE ProvidersConnect
  <2>1. servicesUp' \in {Base, Base \cup {"providers"}} /\ taking' = {} /\ ~venueRegistered'
    BY <1>3 DEF ProvidersConnect, Starting, BeforeStart
  <2> QED BY <1>3, <1>s, <1>o, <2>1
          DEF ProvidersConnect, LifespanKnown, Starting, Served, RollingBack, Stopping, BeforeStart, WithCore
<1>4. CASE VenueConnects
  <2>0. phase = "venue" /\ holds = {} /\ taking = {} /\ ~venueRegistered /\ Base \subseteq servicesUp
        /\ servicesUp \cap Optional = {} /\ servicesUp \subseteq Services
        /\ exposed = {} /\ startupStatus # "ready" /\ stepNo \in Nat
    BY <1>4 DEF VenueConnects, LifespanKnown, Starting, BeforeStart, WithCore
  <2>1. CASE RollsBack(taking, holds \cup {"venue"}) /\ UNCHANGED servicesUp
    BY <2>0, <2>1, RollbackKeeps
  <2>2. CASE phase' = "portfolio"
    <3>1. holds' = {"venue"} /\ servicesUp' = servicesUp \cup {"venue"}
          /\ UNCHANGED <<stepNo, taking, exposed, startupStatus, venueRegistered>>
      BY <1>4, <2>0, <2>2 DEF VenueConnects, RollsBack
    <3> QED BY <1>s, <2>0, <2>2, <3>1
            DEF LifespanKnown, Starting, Served, RollingBack, Stopping, BeforeStart, WithCore
  <2> QED BY <1>4, <2>1, <2>2 DEF VenueConnects
<1>5. CASE PortfolioStarts
  <2>0. phase = "portfolio" /\ holds = {"venue"} /\ taking = {} /\ ~venueRegistered /\ Base \subseteq servicesUp
        /\ servicesUp \cap Optional \subseteq {"venue"} /\ servicesUp \subseteq Services
        /\ "venue" \in servicesUp
        /\ exposed = {} /\ startupStatus # "ready" /\ stepNo \in Nat
    BY <1>5 DEF PortfolioStarts, LifespanKnown, Starting, BeforeStart, WithCore
  <2>1. CASE RollsBack(taking, holds \cup {"portfolio"})
             /\ servicesUp' \in {servicesUp, servicesUp \cup {"portfolio"}}
    BY <1>s, <2>0, <2>1, RollbackKeeps
  <2>2. CASE phase' = "reconcile"
    <3>1. holds' = {"venue", "portfolio"} /\ servicesUp' = servicesUp \cup {"portfolio"}
          /\ UNCHANGED <<stepNo, taking, exposed, startupStatus, venueRegistered>>
      BY <1>5, <2>0, <2>2 DEF PortfolioStarts, RollsBack
    <3> QED BY <1>s, <2>0, <2>2, <3>1
            DEF LifespanKnown, Starting, Served, RollingBack, Stopping, BeforeStart, WithCore
  <2> QED BY <1>5, <2>1, <2>2 DEF PortfolioStarts
<1>6. CASE Reconciles
  <2>0. phase = "reconcile" /\ holds = {"venue", "portfolio"} /\ taking = {} /\ ~venueRegistered
        /\ Base \subseteq servicesUp
        /\ servicesUp \cap Optional \subseteq holds /\ servicesUp \subseteq Services
        /\ {"venue", "portfolio"} \subseteq servicesUp
        /\ exposed = {} /\ startupStatus # "ready" /\ stepNo \in Nat
        /\ UNCHANGED servicesUp
    BY <1>6 DEF Reconciles, LifespanKnown, Starting, BeforeStart, WithCore
  <2>1. CASE RollsBack(taking, holds)
    BY <2>0, <2>1, RollbackKeeps
  <2>2. CASE phase' = "hydrate"
    <3>1. holds' = Pipeline /\ venueRegistered'
          /\ UNCHANGED <<stepNo, taking, exposed, startupStatus>>
      BY <1>6, <2>0, <2>2 DEF Reconciles, RollsBack, Pipeline
    <3>2. servicesUp \cap {"authorizer", "engine", "monitor", "protected"} = {}
          /\ servicesUp \cap Optional \subseteq Pipeline
      BY <2>0 DEF Optional, Pipeline
    <3> QED BY <2>0, <2>2, <3>1, <3>2
            DEF LifespanKnown, Starting, Served, RollingBack, Stopping, BeforeStart, WithCore
  <2>3. CASE phase' = "blocked"
    <3>1. UNCHANGED <<stepNo, taking, exposed, startupStatus, venueRegistered, holds>>
      BY <1>6, <2>0, <2>3 DEF Reconciles, RollsBack
    <3> QED BY <2>0, <2>3, <3>1
            DEF LifespanKnown, Starting, Served, RollingBack, Stopping, BeforeStart, WithCore
  <2> QED BY <1>6, <2>1, <2>2, <2>3 DEF Reconciles
<1>7. CASE BlockedVenue
  <2>0. phase = "blocked" /\ holds = {"venue", "portfolio"} /\ taking = {} /\ ~venueRegistered
        /\ Base \subseteq servicesUp
        /\ servicesUp \cap Optional \subseteq holds /\ servicesUp \subseteq Services
        /\ exposed = {} /\ startupStatus # "ready" /\ stepNo \in Nat
    BY <1>7 DEF BlockedVenue, LifespanKnown, Starting, BeforeStart, WithCore
  <2>1. CASE RollsBack(taking, holds) /\ UNCHANGED servicesUp
    BY <2>0, <2>1, RollbackKeeps
  <2>2. CASE phase' = "blocked_portfolio"
    <3>1. servicesUp' = servicesUp \ {"venue"}
          /\ UNCHANGED <<stepNo, taking, holds, exposed, startupStatus, venueRegistered>>
      BY <1>7, <2>0, <2>2 DEF BlockedVenue, RollsBack
    <3> QED BY <1>o, <2>0, <2>2, <3>1
            DEF LifespanKnown, Starting, Served, RollingBack, Stopping, BeforeStart, WithCore
  <2> QED BY <1>7, <2>1, <2>2 DEF BlockedVenue
<1>8. CASE BlockedPortfolio
  <2>0. phase = "blocked_portfolio" /\ holds = {"venue", "portfolio"} /\ taking = {} /\ ~venueRegistered
        /\ Base \subseteq servicesUp
        /\ servicesUp \cap Optional \subseteq {"portfolio"} /\ servicesUp \subseteq Services
        /\ exposed = {} /\ startupStatus # "ready" /\ stepNo \in Nat
    BY <1>8 DEF BlockedPortfolio, LifespanKnown, Starting, BeforeStart, WithCore
  <2>1. CASE RollsBack(taking, holds) /\ UNCHANGED servicesUp
    BY <2>0, <2>1, RollbackKeeps
  <2>2. CASE phase' = "serving"
    <3>1. servicesUp' = servicesUp \ {"portfolio"} /\ holds' = {}
          /\ startupStatus' = "reconciliation_blocked" /\ exposed' = {"context", "candidates"}
          /\ UNCHANGED <<stepNo, taking, venueRegistered>>
      BY <1>8, <2>0, <2>2 DEF BlockedPortfolio, RollsBack
    <3>2. servicesUp' \cap Optional = {} /\ Base \subseteq servicesUp' /\ servicesUp' \subseteq Services
      BY <1>o, <2>0, <3>1
    <3>3. Pipeline \subseteq Optional /\ {"context", "candidates"} \subseteq Base
          /\ {"context", "candidates"} \subseteq Shown
      BY DEF Optional, Base, Core, Subscribers, Shown
    <3> QED BY <2>0, <2>2, <3>1, <3>2, <3>3
            DEF LifespanKnown, Starting, Served, RollingBack, Stopping, BeforeStart, WithCore
  <2> QED BY <1>8, <2>1, <2>2 DEF BlockedPortfolio
<1> QED BY <1>1, <1>2, <1>3, <1>4, <1>5, <1>6, <1>7, <1>8

(* After hydration n of the four have been started.                        *)
LEMMA StartedWhich ==
  /\ \A n \in 0 .. 4 : StartedBy(n) \subseteq {"authorizer", "engine", "monitor", "protected"}
  /\ \A n \in 0 .. 2 : StartedBy(n) \subseteq {"authorizer", "engine"}
  /\ \A n \in 3 .. 4 : {"authorizer", "engine", "monitor"} \subseteq StartedBy(n)
  /\ "protected" \in StartedBy(4) /\ Len(StartOrder) = 4
<1>1. /\ StartOrder[1] = "authorizer" /\ StartOrder[2] = "engine" /\ StartOrder[3] = "monitor"
      /\ StartOrder[4] = "protected" /\ Len(StartOrder) = 4
  BY DEF StartOrder
<1>2. \A n \in 0 .. 4 : \A i \in 1 .. n : i \in {1, 2, 3, 4}
  OBVIOUS
<1>3. \A n \in 0 .. 2 : \A i \in 1 .. n : i \in {1, 2}
  OBVIOUS
<1>4. \A n \in 0 .. 4 : StartedBy(n) = {StartOrder[i] : i \in 1 .. n}
  BY DEF StartedBy
<1>5. \A n \in 3 .. 4 : StartOrder[1] \in StartedBy(n) /\ StartOrder[2] \in StartedBy(n) /\ StartOrder[3] \in StartedBy(n)
  BY DEF StartedBy
<1>6. StartOrder[4] \in StartedBy(4)
  BY DEF StartedBy
<1>7. \A n \in 0 .. 4 : \A s \in StartedBy(n) : \E i \in 1 .. n : s = StartOrder[i]
  BY DEF StartedBy
<1> QED BY <1>1, <1>2, <1>3, <1>5, <1>6, <1>7

LEMMA PipelineStep ==
  ASSUME LifespanInv, PipelineStarts
  PROVE  LifespanInv'
<1>0. phase = "hydrate" /\ holds = Pipeline /\ taking = {} /\ venueRegistered /\ Base \subseteq servicesUp
      /\ servicesUp \cap Optional \subseteq Pipeline /\ servicesUp \subseteq Services
      /\ {"venue", "portfolio"} \subseteq servicesUp
      /\ exposed = {} /\ startupStatus # "ready" /\ stepNo \in Nat
  BY DEF PipelineStarts, LifespanInv, LifespanKnown, Starting, BeforeStart, WithCore
<1>1. PICK n \in 0 .. 4 :
        LET takes == StartedBy(n) \cap {"authorizer", "engine"}
            kept == holds \cup (IF n < 3 THEN {} ELSE {"protected"})
        IN /\ servicesUp' = servicesUp \cup StartedBy(n)
           /\ \/ /\ n = 4
                 /\ phase' = "scanner"
                 /\ taking' = takes /\ holds' = kept
                 /\ exposed' = exposed \cup {"monitor", "portfolio", "protected"}
                 /\ startupStatus' = "ready"
                 /\ UNCHANGED <<stepNo, venueRegistered>>
              \/ RollsBack(takes, kept)
  BY StartedWhich DEF PipelineStarts
<1> DEFINE takes == StartedBy(n) \cap {"authorizer", "engine"}
           kept == holds \cup (IF n < 3 THEN {} ELSE {"protected"})
<1>2. /\ Pipeline = {"venue", "portfolio"} \cup {"authorizer", "engine", "monitor"}
      /\ Pipeline \subseteq Services /\ "protected" \in Services
      /\ Optional = Pipeline \cup {"protected", "scanner", "outcomes"}
      /\ "scanner" \notin Pipeline /\ "protected" \notin Pipeline
  BY DEF Pipeline, Services, Optional
<1>3. takes \subseteq Takers /\ (n >= 3 => takes = Takers /\ Pipeline \subseteq servicesUp')
  BY <1>0, <1>1, <1>2, StartedWhich DEF Takers
<1>4. Base \subseteq servicesUp' /\ servicesUp' \subseteq Services
  BY <1>0, <1>1, <1>2, StartedWhich
<1>5. servicesUp' \cap Optional \subseteq kept
  <2>1. CASE n < 3
    <3>1. StartedBy(n) \subseteq Pipeline
      BY <1>2, <2>1, StartedWhich
    <3> QED BY <1>0, <1>1, <3>1
  <2>2. CASE n >= 3
    <3>1. StartedBy(n) \subseteq Pipeline \cup {"protected"}
      BY <1>2, <2>2, StartedWhich
    <3> QED BY <1>0, <1>1, <2>2, <3>1
  <2> QED BY <2>1, <2>2
<1>6. CASE RollsBack(takes, kept)
  <2>1. "scanner" \notin kept /\ ("protected" \in kept => n >= 3)
    BY <1>0, <1>2
  <2> HIDE DEF takes, kept
  <2> QED BY <1>3, <1>4, <1>5, <1>6, <2>1, RollbackKeeps
<1>7. CASE n = 4 /\ phase' = "scanner" /\ taking' = takes /\ holds' = kept
           /\ exposed' = {"monitor", "portfolio", "protected"}
           /\ startupStatus' = "ready" /\ UNCHANGED <<stepNo, venueRegistered>>
  <2>1. PipelineReady'
    BY <1>0, <1>3, <1>7 DEF PipelineReady
  <2>2. LifespanKnown'
    BY <1>0, <1>3, <1>4, <1>5, <1>7 DEF LifespanKnown, WithCore, Shown
  <2>3. exposed' \subseteq servicesUp'
    BY <1>1, <1>2, <1>3, <1>7, StartedWhich
  <2>4. Starting' /\ RollingBack' /\ Stopping'
    BY <1>7 DEF Starting, RollingBack, Stopping, BeforeStart
  <2> QED BY <1>7, <2>1, <2>2, <2>3, <2>4 DEF LifespanInv, Served
<1>8. \/ RollsBack(takes, kept)
      \/ n = 4 /\ phase' = "scanner" /\ taking' = takes /\ holds' = kept
         /\ exposed' = {"monitor", "portfolio", "protected"}
         /\ startupStatus' = "ready" /\ UNCHANGED <<stepNo, venueRegistered>>
  BY <1>0, <1>1
<1> QED BY <1>6, <1>7, <1>8

LEMMA OptionalStep ==
  ASSUME LifespanInv, ScannerStarts \/ OutcomesStart
  PROVE  LifespanInv'
<1>0. /\ phase \in {"scanner", "outcomes"} /\ startupStatus = "ready" /\ PipelineReady
      /\ exposed \subseteq servicesUp /\ exposed \subseteq Shown /\ stepNo \in Nat
      /\ Base \subseteq servicesUp /\ servicesUp \subseteq Services /\ servicesUp \cap Optional \subseteq holds
  BY DEF ScannerStarts, OutcomesStart, LifespanInv, LifespanKnown, Served, WithCore
<1>1. /\ phase' \in {"outcomes", "serving"}
      /\ UNCHANGED <<stepNo, taking, startupStatus, venueRegistered>>
  BY DEF ScannerStarts, OutcomesStart
<1>2. \/ UNCHANGED <<servicesUp, holds>>
      \/ servicesUp' = servicesUp \cup {"scanner"} /\ holds' = holds \cup {"scanner"}
      \/ servicesUp' = servicesUp \cup {"outcomes"} /\ holds' = holds \cup {"outcomes"}
  BY DEF ScannerStarts, OutcomesStart
<1>3. \/ UNCHANGED exposed
      \/ exposed' = exposed \cup {"scanner"} /\ "scanner" \in servicesUp'
      \/ exposed' = exposed \cup {"context", "candidates"}
  BY DEF ScannerStarts, OutcomesStart
<1>4. {"scanner", "outcomes"} \subseteq Services /\ {"context", "candidates"} \subseteq Base
      /\ {"scanner", "context", "candidates"} \subseteq Shown
  BY DEF Services, Base, Core, Subscribers, Shown
<1>5. /\ Base \subseteq servicesUp' /\ servicesUp' \subseteq Services /\ servicesUp' \cap Optional \subseteq holds'
      /\ servicesUp \subseteq servicesUp' /\ holds \subseteq holds'
  BY <1>0, <1>2, <1>4
<1>6. exposed' \subseteq servicesUp' /\ exposed' \subseteq Shown
  BY <1>0, <1>3, <1>4, <1>5
<1>7. PipelineReady'
  BY <1>0, <1>1, <1>5 DEF PipelineReady
<1>8. LifespanKnown'
  BY <1>0, <1>1, <1>5, <1>6, <1>7 DEF LifespanKnown, WithCore, PipelineReady, Takers
<1>9. Starting' /\ RollingBack' /\ Stopping'
  BY <1>1 DEF Starting, RollingBack, Stopping, BeforeStart
<1> QED BY <1>0, <1>1, <1>6, <1>7, <1>8, <1>9 DEF LifespanInv, Served

(* The order of a rollback.                                                *)
LEMMA RollbackPlaces ==
  /\ Len(RollbackOrder) = 8
  /\ RollbackOrder[1] = "scanner" /\ RollbackOrder[2] = "protected" /\ RollbackOrder[3] = "authorizer"
  /\ RollbackOrder[4] = "monitor" /\ RollbackOrder[5] = "engine" /\ RollbackOrder[6] = "portfolio"
  /\ RollbackOrder[7] = "outcomes" /\ RollbackOrder[8] = "venue"
  /\ \A i \in 1 .. 8 : RollbackOrder[i] \in Optional
  /\ \A s \in Pipeline : \E i \in 1 .. 8 : s = RollbackOrder[i]
  /\ DOMAIN RollbackOrder = 1 .. 8
<1>1. /\ Len(RollbackOrder) = 8
      /\ RollbackOrder[1] = "scanner" /\ RollbackOrder[2] = "protected" /\ RollbackOrder[3] = "authorizer"
      /\ RollbackOrder[4] = "monitor" /\ RollbackOrder[5] = "engine" /\ RollbackOrder[6] = "portfolio"
      /\ RollbackOrder[7] = "outcomes" /\ RollbackOrder[8] = "venue"
      /\ DOMAIN RollbackOrder = 1 .. 8
  BY DEF RollbackOrder
<1>2. \A i \in 1 .. 8 : i \in {1, 2, 3, 4, 5, 6, 7, 8}
  OBVIOUS
<1>3. {1, 2, 3, 4, 5, 6, 7, 8} \subseteq 1 .. 8
  OBVIOUS
<1>4. \A i \in {1, 2, 3, 4, 5, 6, 7, 8} : RollbackOrder[i] \in Optional
  BY <1>1 DEF Optional, Pipeline
<1>5. \A s \in Pipeline : \E i \in {1, 2, 3, 4, 5, 6, 7, 8} : s = RollbackOrder[i]
  BY <1>1 DEF Pipeline
<1> QED BY <1>1, <1>2, <1>3, <1>4, <1>5

LEMMA RollbackPasses ==
  ASSUME LifespanInv, phase = "rollback", NEW i \in stepNo .. 9, \A k \in stepNo .. i - 1 : ~Awaited(k)
  PROVE  /\ i \in 1 .. 9 /\ stepNo \in 1 .. 9
         /\ \A k \in 1 .. i - 1 : RollbackOrder[k] \notin servicesUp
<1>1. stepNo \in 1 .. 9 /\ servicesUp \cap Optional \subseteq holds
      /\ \A k \in 1 .. stepNo - 1 : RollbackOrder[k] \notin servicesUp
  BY DEF LifespanInv, RollingBack, LifespanKnown, WithCore
<1>2. ASSUME NEW k \in 1 .. i - 1
      PROVE  RollbackOrder[k] \notin servicesUp
  <2>1. k \in 1 .. 8
    BY <1>1
  <2>2. CASE k < stepNo
    BY <1>1, <2>2
  <2>3. CASE k >= stepNo
    BY <1>1, <2>1, <2>3, RollbackPlaces DEF Awaited
  <2> QED BY <1>1, <2>2, <2>3
<1> QED BY <1>1, <1>2

(* Nothing leaves before those that hand work to it.                       *)
LeavesInOrder ==
  LET Leaves(s) == s \in servicesUp \ servicesUp'
  IN /\ Leaves("engine") => {"authorizer", "monitor"} \cap servicesUp' = {}
     /\ Leaves("portfolio") \/ Leaves("venue") => "engine" \notin servicesUp'
     /\ (\E s \in Subscribers : Leaves(s)) => "bus" \notin servicesUp'

LEMMA RollingBackStep ==
  ASSUME LifespanInv, RollbackStep
  PROVE  LifespanInv' /\ LeavesInOrder
<1>0. phase = "rollback" /\ Base \subseteq servicesUp /\ servicesUp \subseteq Services
      /\ servicesUp \cap Optional \subseteq holds /\ exposed = {} /\ stepNo \in 1 .. 9
      /\ ~venueRegistered /\ startupStatus # "ready" /\ taking \subseteq Takers
  BY DEF RollbackStep, LifespanInv, LifespanKnown, RollingBack, WithCore
<1>1. PICK i \in stepNo .. 8 :
        /\ \A k \in stepNo .. i - 1 : ~Awaited(k)
        /\ servicesUp' = servicesUp \ {RollbackOrder[i]}
        /\ taking' = StillTaking(taking, holds \ {RollbackOrder[k] : k \in 1 .. i})
        /\ stepNo' = i + 1
        /\ RollbackOrder[i] \in holds
        /\ UNCHANGED <<phase, holds, exposed, startupStatus, venueRegistered>>
  BY RollbackPlaces DEF RollbackStep, Awaited
<1>2. i \in 1 .. 8 /\ \A k \in 1 .. i - 1 : RollbackOrder[k] \notin servicesUp
  BY <1>0, <1>1, RollbackPasses
<1>3. \A k \in 1 .. stepNo' - 1 : RollbackOrder[k] \notin servicesUp'
  BY <1>1, <1>2
<1>4. Base \subseteq servicesUp'
  <2>1. RollbackOrder[i] \notin Base
    BY <1>2, RollbackPlaces DEF Base, Optional, Pipeline, Core, Subscribers
  <2> QED BY <1>0, <1>1, <2>1
<1>5. taking' # {} => /\ taking' = Takers /\ Pipeline \subseteq servicesUp'
                      /\ "scanner" \notin holds' /\ "protected" \in holds' /\ stepNo' <= 2
  <2> SUFFICES ASSUME taking' # {}
               PROVE  /\ taking' = Takers /\ Pipeline \subseteq servicesUp'
                      /\ "scanner" \notin holds' /\ "protected" \in holds' /\ stepNo' <= 2
    OBVIOUS
  <2>1. /\ taking' = taking /\ taking # {}
        /\ {"scanner", "protected"} \cap (holds \ {RollbackOrder[k] : k \in 1 .. i}) # {}
    BY <1>1 DEF StillTaking
  <2>2. /\ taking = Takers /\ Pipeline \subseteq servicesUp
        /\ "scanner" \notin holds /\ "protected" \in holds /\ stepNo <= 2
    BY <1>0, <2>1 DEF LifespanInv, RollingBack
  <2>3. i < 2
    <3> SUFFICES ASSUME i >= 2
                 PROVE  FALSE
      BY <1>2
    <3>1. RollbackOrder[2] \in {RollbackOrder[k] : k \in 1 .. i}
      BY <1>2
    <3> QED BY <2>1, <2>2, <3>1, RollbackPlaces
  <2>4. i = 1
    BY <1>2, <2>3
  <2>5. FALSE
    BY <1>1, <2>2, <2>4, RollbackPlaces
  <2> QED BY <2>5
<1>6. stepNo' \in 1 .. 9 /\ stepNo' \in Nat
  BY <1>1, <1>2
<1>7. taking' \subseteq Takers
  BY <1>0, <1>1 DEF StillTaking
<1>8. RollingBack'
  BY <1>0, <1>1, <1>3, <1>5, <1>6 DEF RollingBack
<1>9. LifespanKnown'
  BY <1>0, <1>1, <1>4, <1>6, <1>7 DEF LifespanKnown, WithCore
<1>10. Starting' /\ Served' /\ Stopping'
  BY <1>0, <1>1 DEF Starting, Served, Stopping, BeforeStart
<1>11. LeavesInOrder
  <2>1. \A s : s \in servicesUp \ servicesUp' => s = RollbackOrder[i]
    BY <1>1
  <2>2. i \in {1, 2, 3, 4, 5, 6, 7, 8}
    BY <1>2
  <2>3. RollbackOrder[i] = "engine" => RollbackOrder[3] \notin servicesUp' /\ RollbackOrder[4] \notin servicesUp'
    <3> SUFFICES ASSUME RollbackOrder[i] = "engine"
                 PROVE  RollbackOrder[3] \notin servicesUp' /\ RollbackOrder[4] \notin servicesUp'
      OBVIOUS
    <3>1. i = 5
      BY <2>2, RollbackPlaces
    <3> QED BY <1>1, <1>3, <3>1
  <2>4. RollbackOrder[i] \in {"portfolio", "venue"} => RollbackOrder[5] \notin servicesUp'
    <3> SUFFICES ASSUME RollbackOrder[i] \in {"portfolio", "venue"}
                 PROVE  RollbackOrder[5] \notin servicesUp'
      OBVIOUS
    <3>1. i \in {6, 8}
      BY <2>2, RollbackPlaces
    <3> QED BY <1>1, <1>3, <3>1
  <2>5. RollbackOrder[i] \notin Subscribers
    BY <1>2, RollbackPlaces DEF Optional, Pipeline, Subscribers
  <2> QED BY <2>1, <2>3, <2>4, <2>5, RollbackPlaces DEF LeavesInOrder
<1> QED BY <1>8, <1>9, <1>10, <1>11 DEF LifespanInv

LEMMA RolledBackStep ==
  ASSUME LifespanInv, RolledBack
  PROVE  LifespanInv'
<1>0. phase = "rollback" /\ Base \subseteq servicesUp /\ servicesUp \subseteq Services
      /\ servicesUp \cap Optional \subseteq holds /\ exposed = {} /\ stepNo \in 1 .. 9
      /\ ~venueRegistered /\ startupStatus # "ready"
      /\ (taking # {} => Pipeline \subseteq servicesUp)
  BY DEF RolledBack, LifespanInv, LifespanKnown, RollingBack, WithCore
<1>1. /\ phase' = "serving" /\ holds' = holds \ Pipeline /\ exposed' = {"context", "candidates"}
      /\ UNCHANGED <<stepNo, servicesUp, taking, startupStatus, venueRegistered>>
  BY <1>0 DEF RolledBack
<1>2. \A k \in 1 .. 8 : RollbackOrder[k] \notin servicesUp
  <2>1. 9 \in stepNo .. 9 /\ \A k \in stepNo .. 9 - 1 : ~Awaited(k)
    BY <1>0, RollbackPlaces DEF RolledBack
  <2>2. \A k \in 1 .. 9 - 1 : RollbackOrder[k] \notin servicesUp
    BY <1>0, <2>1, RollbackPasses
  <2> QED BY <2>2
<1>3. servicesUp \cap Pipeline = {}
  BY <1>2, RollbackPlaces
<1>4. taking = {}
  BY <1>0, <1>3 DEF Pipeline
<1>5. {"context", "candidates"} \subseteq Base /\ {"context", "candidates"} \subseteq Shown
  BY DEF Base, Core, Subscribers, Shown
<1> QED BY <1>0, <1>1, <1>3, <1>4, <1>5
        DEF LifespanInv, LifespanKnown, Starting, Served, RollingBack, Stopping, BeforeStart, WithCore

LEMMA ShutdownStarts ==
  ASSUME LifespanInv, ShutdownBegins
  PROVE  LifespanInv'
<1>0. /\ phase = "serving" /\ stepNo' = 1 /\ phase' = "stopping" /\ exposed' = {} /\ startupStatus' = "none"
      /\ UNCHANGED <<servicesUp, taking, holds, venueRegistered>>
      /\ servicesUp \cap Optional \subseteq holds /\ servicesUp \subseteq Services /\ taking \subseteq Takers
  BY DEF ShutdownBegins, LifespanInv, LifespanKnown, WithCore
<1>1. \/ PipelineReady
      \/ taking = {} /\ ~venueRegistered
  BY <1>0 DEF LifespanInv, Served
<1>2. Stopping'
  <2>1. HandOverWhole'
    BY <1>0, <1>1 DEF HandOverWhole, PipelineReady, Takers, Pipeline
  <2>2. \A i \in 1 .. stepNo' - 1 : FALSE
    BY <1>0
  <2> QED BY <1>0, <1>1, <2>1, <2>2 DEF Stopping, PipelineReady, Pipeline, Takers
<1>3. LifespanKnown'
  BY <1>0 DEF LifespanKnown, WithCore
<1>4. Starting' /\ Served' /\ RollingBack'
  BY <1>0 DEF Starting, Served, RollingBack, BeforeStart
<1> QED BY <1>2, <1>3, <1>4 DEF LifespanInv

(* The order of a shutdown.                                                *)
LEMMA ShutdownPlaces ==
  /\ Len(ShutdownOrder) = 20
  /\ ShutdownOrder[6] = "monitor" /\ ShutdownOrder[7] = "bus" /\ ShutdownOrder[16] = "authorizer"
  /\ ShutdownOrder[17] = "engine" /\ ShutdownOrder[20] = "venue"
  /\ \A i \in 1 .. 20 : /\ ShutdownOrder[i] = "authorizer" => i = 16
                        /\ ShutdownOrder[i] = "engine" => i = 17
                        /\ ShutdownOrder[i] \in {"portfolio", "venue"} => i > 17
                        /\ ShutdownOrder[i] \in Subscribers => i > 7
  /\ \A s \in Services : \E i \in 1 .. 20 : s = ShutdownOrder[i]
  /\ \A s \in Services \ Optional : s \notin Pipeline \cup {"protected", "scanner", "outcomes"}
<1> DEFINE P == {1, 2, 3, 4, 5, 6, 7, 8, 9, 10, 11, 12, 13, 14, 15, 16, 17, 18, 19, 20}
<1>1. /\ Len(ShutdownOrder) = 20
      /\ ShutdownOrder[1] = "scanner" /\ ShutdownOrder[2] = "protected" /\ ShutdownOrder[3] = "providers"
      /\ ShutdownOrder[4] = "context" /\ ShutdownOrder[5] = "fundamentals" /\ ShutdownOrder[6] = "monitor"
      /\ ShutdownOrder[7] = "bus" /\ ShutdownOrder[8] = "candle_recorder" /\ ShutdownOrder[9] = "tick_relay"
      /\ ShutdownOrder[10] = "features" /\ ShutdownOrder[11] = "levels" /\ ShutdownOrder[12] = "market_state"
      /\ ShutdownOrder[13] = "strategies" /\ ShutdownOrder[14] = "opportunities"
      /\ ShutdownOrder[15] = "candidates" /\ ShutdownOrder[16] = "authorizer" /\ ShutdownOrder[17] = "engine"
      /\ ShutdownOrder[18] = "portfolio" /\ ShutdownOrder[19] = "outcomes" /\ ShutdownOrder[20] = "venue"
  BY DEF ShutdownOrder
<1>2. 1 .. 20 = P
  OBVIOUS
<1>3. \A i \in P : /\ ShutdownOrder[i] = "authorizer" => i = 16
                   /\ ShutdownOrder[i] = "engine" => i = 17
                   /\ ShutdownOrder[i] \in {"portfolio", "venue"} => i > 17
                   /\ ShutdownOrder[i] \in Subscribers => i > 7
  BY <1>1 DEF Subscribers
<1>4. \A s \in Services : \E i \in P : s = ShutdownOrder[i]
  BY <1>1 DEF Services, Core, Subscribers, Pipeline
<1> QED BY <1>1, <1>2, <1>3, <1>4 DEF Optional

LEMMA ShutdownStepKeeps ==
  ASSUME LifespanInv, ShutdownStep
  PROVE  LifespanInv' /\ LeavesInOrder
<1> DEFINE s == ShutdownOrder[stepNo]
           raises == s = "context" /\ contextCrashed
           halts == (s \in holds \/ s \notin Pipeline \cup {"protected", "scanner", "outcomes"})
<1>0. /\ phase = "stopping" /\ exposed = {} /\ startupStatus = "none" /\ HandOverWhole
      /\ stepNo \in 1 .. 20 /\ servicesUp \cap Optional \subseteq holds
      /\ \A i \in 1 .. stepNo - 1 : ShutdownOrder[i] \notin servicesUp
      /\ servicesUp \subseteq Services /\ taking \subseteq Takers
  BY DEF ShutdownStep, LifespanInv, LifespanKnown, Stopping
<1>a. /\ "authorizer" \in taking => stepNo <= 16 /\ "authorizer" \in holds
      /\ "engine" \in taking => stepNo <= 17 /\ "engine" \in holds
      /\ venueRegistered => "venue" \in holds
  BY <1>0 DEF LifespanInv, Stopping
<1>1. /\ servicesUp' = (IF halts /\ ~raises THEN servicesUp \ {s} ELSE servicesUp)
      /\ taking' = (IF halts THEN taking \ {s} ELSE taking)
      /\ venueRegistered' = (venueRegistered /\ ~(s = "venue" /\ halts))
      /\ phase' = (IF raises THEN "abandoned" ELSE IF stepNo = 20 THEN "off" ELSE "stopping")
      /\ stepNo' = stepNo + 1
      /\ UNCHANGED <<holds, exposed, startupStatus>>
  BY ShutdownPlaces DEF ShutdownStep
<1>2. ~raises => s \notin servicesUp'
  BY <1>0, <1>1 DEF Optional
<1>3. ~raises => \A i \in 1 .. stepNo' - 1 : ShutdownOrder[i] \notin servicesUp'
  <2> SUFFICES ASSUME ~raises, NEW i \in 1 .. stepNo' - 1
               PROVE  ShutdownOrder[i] \notin servicesUp'
    OBVIOUS
  <2>1. i \in 1 .. stepNo
    BY <1>0, <1>1
  <2>2. CASE i = stepNo
    BY <1>2, <2>2
  <2>3. CASE i # stepNo
    BY <1>0, <1>1, <2>1, <2>3
  <2> QED BY <2>2, <2>3
<1>4. /\ "authorizer" \in taking' => stepNo' <= 16 /\ "authorizer" \in taking
      /\ "engine" \in taking' => stepNo' <= 17 /\ "engine" \in taking
  <2>1. "authorizer" \in taking' => stepNo # 16
    BY <1>1, <1>a, ShutdownPlaces
  <2>2. "engine" \in taking' => stepNo # 17
    BY <1>1, <1>a, ShutdownPlaces
  <2>3. taking' \subseteq taking
    BY <1>1
  <2> QED BY <1>0, <1>1, <1>a, <2>1, <2>2, <2>3
<1>5. venueRegistered' => venueRegistered /\ "venue" \in holds /\ stepNo # 20
  BY <1>1, <1>a, ShutdownPlaces
<1>6. HandOverWhole'
  <2> SUFFICES ASSUME "authorizer" \in taking'
               PROVE  "engine" \in taking' /\ Pipeline \ {"monitor"} \subseteq servicesUp'
    BY DEF HandOverWhole
  <2>1. /\ "authorizer" \in taking /\ stepNo < 16 /\ "engine" \in taking
        /\ Pipeline \ {"monitor"} \subseteq servicesUp
    BY <1>0, <1>1, <1>4 DEF HandOverWhole
  <2>2. s \notin Pipeline \ {"monitor"}
    BY <1>0, <2>1, ShutdownPlaces DEF Pipeline
  <2> QED BY <1>1, <2>1, <2>2 DEF Pipeline
<1>7. taking' \subseteq Takers /\ servicesUp' \subseteq Services /\ servicesUp' \subseteq servicesUp
  BY <1>0, <1>1
<1>8. phase' = "off" => servicesUp' = {} /\ taking' = {} /\ ~venueRegistered'
  <2> SUFFICES ASSUME phase' = "off"
               PROVE  servicesUp' = {} /\ taking' = {} /\ ~venueRegistered'
    OBVIOUS
  <2>1. stepNo = 20 /\ ~raises
    BY <1>1
  <2>2. \A i \in 1 .. 20 : ShutdownOrder[i] \notin servicesUp'
    BY <1>1, <1>3, <2>1
  <2>3. servicesUp' = {}
    BY <1>7, <2>2, ShutdownPlaces
  <2>4. taking' = {}
    BY <1>1, <1>4, <1>7, <2>1 DEF Takers
  <2> QED BY <1>5, <2>1, <2>3, <2>4
<1>9. Stopping'
  <2>1. phase' = "stopping" => ~raises /\ stepNo' \in 1 .. 20
    BY <1>0, <1>1
  <2>2. servicesUp' \cap Optional \subseteq holds'
    BY <1>0, <1>1
  <2> HIDE DEF raises, halts, s
  <2>3. exposed' = {} /\ startupStatus' = "none" /\ holds' = holds
    BY <1>0, <1>1
  <2> QED BY <1>3, <1>4, <1>5, <1>6, <1>a, <2>1, <2>2, <2>3 DEF Stopping
<1>10. LifespanKnown'
  BY <1>0, <1>1, <1>7 DEF LifespanKnown, WithCore
<1>11. Starting' /\ Served' /\ RollingBack'
  BY <1>0, <1>1, <1>8 DEF Starting, Served, RollingBack, BeforeStart
<1>12. LeavesInOrder
  <2>1. \A x \in servicesUp \ servicesUp' : x = s /\ ~raises
    BY <1>1
  <2> DEFINE Passed(i) == i \in 1 .. stepNo - 1 => ShutdownOrder[i] \notin servicesUp'
  <2>2. \A i : Passed(i)
    BY <1>0, <1>7
  <2>3. s = "engine" => {"authorizer", "monitor"} \cap servicesUp' = {}
    <3> SUFFICES ASSUME s = "engine"
                 PROVE  {"authorizer", "monitor"} \cap servicesUp' = {}
      OBVIOUS
    <3>1. stepNo = 17
      BY <1>0, ShutdownPlaces
    <3>2. Passed(6) /\ Passed(16)
      BY <2>2
    <3> QED BY <3>1, <3>2, ShutdownPlaces
  <2>4. s \in {"portfolio", "venue"} => "engine" \notin servicesUp'
    <3> SUFFICES ASSUME s \in {"portfolio", "venue"}
                 PROVE  "engine" \notin servicesUp'
      OBVIOUS
    <3>1. stepNo > 17
      BY <1>0, ShutdownPlaces
    <3>2. Passed(17)
      BY <2>2
    <3> QED BY <1>0, <3>1, <3>2, ShutdownPlaces
  <2>5. s \in Subscribers => "bus" \notin servicesUp'
    <3> SUFFICES ASSUME s \in Subscribers
                 PROVE  "bus" \notin servicesUp'
      OBVIOUS
    <3>1. stepNo > 7
      BY <1>0, ShutdownPlaces
    <3>2. Passed(7)
      BY <2>2
    <3> QED BY <1>0, <3>1, <3>2, ShutdownPlaces
  <2> HIDE DEF raises, halts, s
  <2> QED BY <2>1, <2>3, <2>4, <2>5 DEF LeavesInOrder
<1> QED BY <1>6, <1>9, <1>10, <1>11, <1>12 DEF LifespanInv

LEMMA ProvidersStep ==
  ASSUME LifespanInv, ProvidersChange
  PROVE  LifespanInv' /\ LeavesInOrder
<1>0. /\ phase = "serving" /\ Base \subseteq servicesUp /\ servicesUp \subseteq Services
      /\ servicesUp \cap Optional \subseteq holds /\ exposed \subseteq Shown
      /\ servicesUp' \in {servicesUp \ {"providers"}, servicesUp \cup {"providers"}}
      /\ UNCHANGED <<phase, stepNo, taking, holds, exposed, startupStatus, venueRegistered>>
  BY DEF ProvidersChange, LifespanInv, LifespanKnown, WithCore
<1>1. /\ "providers" \in Services /\ "providers" \notin Base /\ "providers" \notin Optional
      /\ "providers" \notin Shown /\ "providers" \notin Subscribers /\ Pipeline \subseteq Optional
  BY DEF Services, Base, Core, Subscribers, Optional, Pipeline, Shown
<1>2. LifespanKnown'
  BY <1>0, <1>1 DEF LifespanInv, LifespanKnown, WithCore
<1>3. exposed \subseteq servicesUp => exposed' \subseteq servicesUp'
  BY <1>0, <1>1
<1>4. servicesUp' \cap Pipeline = servicesUp \cap Pipeline
  BY <1>0, <1>1
<1>5. Served'
  BY <1>0, <1>3, <1>4 DEF LifespanInv, Served, PipelineReady
<1>6. Starting' /\ RollingBack' /\ Stopping'
  BY <1>0 DEF Starting, RollingBack, Stopping, BeforeStart
<1>7. LeavesInOrder
  BY <1>0, <1>1 DEF LeavesInOrder
<1> QED BY <1>2, <1>5, <1>6, <1>7 DEF LifespanInv

LEMMA LifespanStep ==
  ASSUME LifespanInv, [LifespanNext]_lifespanVars
  PROVE  LifespanInv' /\ LeavesInOrder
<1>1. CASE UNCHANGED lifespanVars
  BY <1>1 DEF lifespanVars, LifespanInv, LifespanKnown, Starting, Served, PipelineReady, RollingBack,
              Stopping, HandOverWhole, LeavesInOrder
<1>2. CASE ContextCrashes
  BY <1>2 DEF ContextCrashes, LifespanInv, LifespanKnown, Starting, Served, PipelineReady, RollingBack,
              Stopping, HandOverWhole, LeavesInOrder
<1>3. CASE \/ BusStarts \/ CoreStarts \/ ProvidersConnect \/ VenueConnects \/ PortfolioStarts
           \/ Reconciles \/ PipelineStarts \/ ScannerStarts \/ OutcomesStart \/ RolledBack \/ ShutdownBegins
  <2>1. LifespanInv'
    BY <1>3, StartStep, PipelineStep, OptionalStep, RolledBackStep, ShutdownStarts
  <2>2. servicesUp \subseteq servicesUp'
    BY <1>3 DEF BusStarts, CoreStarts, ProvidersConnect, VenueConnects, PortfolioStarts, Reconciles,
                PipelineStarts, ScannerStarts, OutcomesStart, RolledBack, ShutdownBegins, LifespanInv, Starting
  <2> QED BY <2>1, <2>2 DEF LeavesInOrder
<1>4. CASE BlockedVenue \/ BlockedPortfolio
  <2>1. LifespanInv'
    BY <1>4, StartStep
  <2>2. "engine" \notin servicesUp
    <3>1. phase \in {"blocked", "blocked_portfolio"}
      BY <1>4 DEF BlockedVenue, BlockedPortfolio
    <3> QED BY <3>1 DEF LifespanInv, LifespanKnown, Starting, Optional, Pipeline, WithCore
  <2>3. servicesUp \ {"venue", "portfolio"} \subseteq servicesUp' /\ servicesUp' \subseteq servicesUp
    BY <1>4 DEF BlockedVenue, BlockedPortfolio
  <2> QED BY <2>1, <2>2, <2>3 DEF LeavesInOrder, Subscribers
<1> QED BY <1>1, <1>2, <1>3, <1>4, RollingBackStep, ShutdownStepKeeps, ProvidersStep DEF LifespanNext

(***************************************************************************)
(* Polling.  The limiter's deque is the end of the calls granted, and what *)
(* it has dropped has left the window.  No tick of a symbol is newer than  *)
(* the bar seen last, and a round asks for no symbol twice.                    *)
(***************************************************************************)
Dropped == Len(granted) - Len(callTimes)

BudgetInv ==
  /\ callTimes \in Seq(Nat) /\ granted \in Seq(Nat) /\ moment \in Nat
  /\ Dropped \in Nat
  /\ \A i \in 1 .. Len(callTimes) : callTimes[i] = granted[Dropped + i]
  /\ \A i \in 1 .. Dropped : moment - granted[i] >= Period
  /\ CallsWithinBudget

LEMMA FirstNumber ==
  ASSUME NEW S \in SUBSET Nat, S # {}
  PROVE  \E m \in S : \A n \in S : m <= n
<1> DEFINE R == {pair \in Nat \X Nat : pair[1] < pair[2]}
<1>1. IsWellFoundedOn(R, Nat)
  BY NatLessThanWellFounded DEF OpToRel
<1>2. \A m, n \in Nat : <<n, m>> \in R <=> n < m
  OBVIOUS
<1> HIDE DEF R
<1>3. PICK m \in S : \A n \in S : ~(<<n, m>> \in R)
  BY <1>1, WFMin
<1>4. ASSUME NEW n \in S PROVE m <= n
  <2>1. m \in Nat /\ n \in Nat /\ ~(n < m)
    BY <1>2, <1>3
  <2> QED BY <2>1
<1> QED BY <1>4

(* What is kept of the deque.                                              *)
LEMMA KeptIs ==
  ASSUME BudgetInv
  PROVE  \E first \in 1 .. Len(callTimes) + 1 :
           /\ Kept = SubSeq(callTimes, first, Len(callTimes))
           /\ Kept \in Seq(Nat) /\ Len(Kept) = Len(callTimes) + 1 - first
           /\ \A i \in 1 .. Len(Kept) : Kept[i] = callTimes[first - 1 + i]
           /\ \A i \in 1 .. first - 1 : moment - callTimes[i] >= Period
<1> DEFINE L == Len(callTimes)
           S == {L + 1} \cup {i \in DOMAIN callTimes : StillCounts(callTimes[i])}
           first == Min(S)
<1>1. callTimes \in Seq(Nat) /\ L \in Nat /\ DOMAIN callTimes = 1 .. L /\ moment \in Nat
  BY DEF BudgetInv
<1>2. S \in SUBSET (1 .. L + 1) /\ S # {} /\ S \in SUBSET Nat
  BY <1>1
<1>3. \E m \in S : \A n \in S : m <= n
  BY <1>2, FirstNumber
<1>4. first \in S /\ \A n \in S : first <= n
  <2> HIDE DEF S
  <2> QED BY <1>3 DEF Min
<1>5. Kept = SubSeq(callTimes, first, L)
  BY DEF Kept
<1>6. \A i \in 1 .. first - 1 : moment - callTimes[i] >= Period
  <2> SUFFICES ASSUME NEW i \in 1 .. first - 1
               PROVE  moment - callTimes[i] >= Period
    OBVIOUS
  <2>1. i \notin S /\ i \in 1 .. L
    BY <1>1, <1>2, <1>4
  <2>2. ~StillCounts(callTimes[i]) /\ callTimes[i] \in Nat
    BY <1>1, <2>1
  <2> QED BY <1>1, <2>2, PollingAssumption DEF StillCounts
<1>7. first \in 1 .. L + 1
  BY <1>2, <1>4
<1> HIDE DEF first, S
<1>8. /\ SubSeq(callTimes, first, L) \in Seq(Nat) /\ Len(SubSeq(callTimes, first, L)) = L + 1 - first
      /\ \A i \in 1 .. L + 1 - first : SubSeq(callTimes, first, L)[i] = callTimes[first - 1 + i]
  BY <1>1, <1>7
<1> QED BY <1>5, <1>6, <1>7, <1>8

LEMMA KeptIsEnd ==
  ASSUME BudgetInv
  PROVE  /\ Kept \in Seq(Nat) /\ Len(Kept) \in Nat /\ Len(Kept) <= Len(granted)
         /\ \A i \in 1 .. Len(Kept) : Kept[i] = granted[Len(granted) - Len(Kept) + i]
         /\ \A i \in 1 .. Len(granted) - Len(Kept) : moment - granted[i] >= Period
<1>1. PICK first \in 1 .. Len(callTimes) + 1 :
           /\ Kept \in Seq(Nat) /\ Len(Kept) = Len(callTimes) + 1 - first
           /\ \A i \in 1 .. Len(Kept) : Kept[i] = callTimes[first - 1 + i]
           /\ \A i \in 1 .. first - 1 : moment - callTimes[i] >= Period
  BY KeptIs
<1> DEFINE L == Len(callTimes)
           G == Len(granted)
           K == Len(Kept)
<1>2. L \in Nat /\ G \in Nat /\ K \in Nat /\ K = L + 1 - first /\ G - L \in Nat /\ first \in Nat
      /\ Dropped = G - L /\ Len(callTimes) = L
  BY <1>1 DEF BudgetInv, Dropped
<1>3. /\ \A i \in 1 .. L : callTimes[i] = granted[G - L + i]
      /\ \A i \in 1 .. G - L : moment - granted[i] >= Period
  BY DEF BudgetInv, Dropped
<1> HIDE DEF L, G, K
<1>4. ASSUME NEW i \in 1 .. K
      PROVE  Kept[i] = granted[G - K + i]
  <2>1. first - 1 + i \in 1 .. L /\ G - L + (first - 1 + i) = G - K + i
    BY <1>2
  <2>2. Kept[i] = callTimes[first - 1 + i]
    BY <1>1 DEF K
  <2> QED BY <1>3, <2>1, <2>2
<1>5. ASSUME NEW i \in 1 .. G - K
      PROVE  moment - granted[i] >= Period
  <2>1. CASE i <= G - L
    BY <1>2, <1>3, <2>1
  <2>2. CASE i > G - L
    <3>1. PICK j \in 1 .. first - 1 : i = G - L + j
      <4>1. i - (G - L) \in 1 .. first - 1 /\ i = G - L + (i - (G - L))
        BY <1>2, <2>2
      <4> QED BY <4>1
    <3>2. j \in 1 .. L
      BY <1>2
    <3> QED BY <1>1, <1>3, <3>1, <3>2
  <2> QED BY <1>2, <2>1, <2>2
<1>6. K <= G
  BY <1>2
<1> QED BY <1>1, <1>2, <1>4, <1>5, <1>6 DEF K, G

LEMMA AcquiredKeeps ==
  ASSUME BudgetInv, NEW c, Acquired(c), UNCHANGED moment
  PROVE  BudgetInv'
<1> DEFINE G == Len(granted)
           K == Len(Kept)
<1>1. /\ Kept \in Seq(Nat) /\ K \in Nat /\ K <= G
      /\ \A i \in 1 .. K : Kept[i] = granted[G - K + i]
      /\ \A i \in 1 .. G - K : moment - granted[i] >= Period
  BY KeptIsEnd
<1>2. granted \in Seq(Nat) /\ G \in Nat /\ moment \in Nat /\ CallsWithinBudget
  BY DEF BudgetInv
<1>3. K < MaxCallsInPeriod /\ callTimes' = Append(Kept, moment) /\ granted' = Append(granted, moment)
      /\ MaxCallsInPeriod \in Nat /\ Period \in Nat
  BY PollingAssumption DEF Acquired
<1>4. /\ callTimes' \in Seq(Nat) /\ granted' \in Seq(Nat) /\ Len(callTimes') = K + 1 /\ Len(granted') = G + 1
      /\ \A i \in 1 .. K : callTimes'[i] = Kept[i]
      /\ callTimes'[K + 1] = moment
      /\ \A i \in 1 .. G : granted'[i] = granted[i]
      /\ granted'[G + 1] = moment
  BY <1>1, <1>2, <1>3
<1>5. Dropped' = G - K /\ Dropped' \in Nat
  BY <1>1, <1>2, <1>4 DEF Dropped
<1> HIDE DEF G, K
<1>6. ASSUME NEW i \in 1 .. K + 1
      PROVE  callTimes'[i] = granted'[G - K + i]
  <2>1. CASE i = K + 1
    <3>1. G - K + i = G + 1
      BY <1>1, <1>2, <2>1
    <3> QED BY <1>4, <2>1, <3>1
  <2>2. CASE i # K + 1
    <3>1. i \in 1 .. K /\ G - K + i \in 1 .. G
      BY <1>1, <1>2, <2>2
    <3> QED BY <1>1, <1>4, <3>1
  <2> QED BY <2>1, <2>2
<1>7. ASSUME NEW i \in 1 .. G - K
      PROVE  moment' - granted'[i] >= Period
  <2>1. i \in 1 .. G
    BY <1>1, <1>2
  <2> QED BY <1>1, <1>4, <2>1
<1>8. ASSUME NEW i \in MaxCallsInPeriod + 1 .. G + 1
      PROVE  granted'[i] - granted'[i - MaxCallsInPeriod] >= Period
  <2>1. CASE i = G + 1
    <3>1. i - MaxCallsInPeriod \in 1 .. G - K /\ i - MaxCallsInPeriod \in 1 .. G
      BY <1>1, <1>2, <1>3, <2>1
    <3> QED BY <1>1, <1>4, <2>1, <3>1
  <2>2. CASE i # G + 1
    <3>1. i \in MaxCallsInPeriod + 1 .. G /\ i \in 1 .. G /\ i - MaxCallsInPeriod \in 1 .. G
      BY <1>2, <1>3, <2>2, PollingAssumption
    <3>2. granted[i] - granted[i - MaxCallsInPeriod] >= Period
      BY <1>2, <3>1 DEF CallsWithinBudget, G
    <3> QED BY <1>4, <3>1, <3>2
  <2> QED BY <2>1, <2>2
<1>9. CallsWithinBudget'
  BY <1>4, <1>8 DEF CallsWithinBudget
<1> QED BY <1>2, <1>4, <1>5, <1>6, <1>7, <1>9 DEF BudgetInv

LEMMA AsleepKeeps ==
  ASSUME BudgetInv, NEW c, SleepsInAcquire(c), UNCHANGED moment
  PROVE  BudgetInv'
<1>1. /\ Kept \in Seq(Nat) /\ Len(Kept) \in Nat /\ Len(Kept) <= Len(granted)
      /\ \A i \in 1 .. Len(Kept) : Kept[i] = granted[Len(granted) - Len(Kept) + i]
      /\ \A i \in 1 .. Len(granted) - Len(Kept) : moment - granted[i] >= Period
  BY KeptIsEnd
<1>2. callTimes' = Kept /\ UNCHANGED granted
  BY DEF SleepsInAcquire
<1>3. Dropped' = Len(granted) - Len(Kept) /\ Dropped' \in Nat
  BY <1>1, <1>2 DEF Dropped, BudgetInv
<1>4. granted \in Seq(Nat) /\ moment \in Nat /\ CallsWithinBudget'
  BY <1>2 DEF BudgetInv, CallsWithinBudget
<1> QED BY <1>1, <1>2, <1>3, <1>4 DEF BudgetInv

LEMMA LaterKeeps ==
  ASSUME BudgetInv, UNCHANGED <<callTimes, granted>>, moment' \in Nat, moment' >= moment
  PROVE  BudgetInv'
<1>1. Dropped' = Dropped /\ CallsWithinBudget'
  BY DEF Dropped, BudgetInv, CallsWithinBudget
<1>2. \A i \in 1 .. Dropped : moment' - granted[i] >= Period
  <2> SUFFICES ASSUME NEW i \in 1 .. Dropped
               PROVE  moment' - granted[i] >= Period
    OBVIOUS
  <2>1. i \in 1 .. Len(granted) /\ granted \in Seq(Nat)
    BY DEF BudgetInv, Dropped
  <2>2. granted[i] \in Nat /\ moment \in Nat /\ moment - granted[i] >= Period
    BY <2>1 DEF BudgetInv
  <2> QED BY <2>2, PollingAssumption
<1> QED BY <1>1, <1>2 DEF BudgetInv

PollRecords == [on : BOOLEAN, at : {"off", "pause", "limit", "fetch", "ended"}, left : Seq(Tickers), since : Nat]

TicksTyped ==
  /\ polling \in PollRecords /\ watched \subseteq Tickers /\ IsFiniteSet(watched)
  /\ seenBar \in [Tickers -> Nat] /\ barNow \in [Tickers -> Nat]
  /\ emitted \in [Tickers -> Seq(Nat)] /\ lateTicks \in [Tickers -> Nat]
  /\ unticked \subseteq Tickers
  /\ \A s \in Tickers : seenBar[s] <= barNow[s]

(* A round under way.                                                      *)
RoundKnown ==
  LET left == polling.left
  IN /\ polling.at = "off" <=> ~polling.on
     /\ polling.at \in {"limit", "fetch"} => left # <<>>
     /\ \A i, j \in 1 .. Len(left) : i # j => left[i] # left[j]
     /\ polling.at = "fetch" => seenBar[Head(left)] <= polling.since
     /\ polling.at \notin {"limit", "fetch"} => left = <<>>

Increasing(q) == \A i \in 2 .. Len(q) : q[i - 1] < q[i]

TicksOf(s) ==
  /\ Increasing(emitted[s])
  /\ lateTicks[s] <= 1
  /\ s \in watched /\ emitted[s] # <<>> => emitted[s][Len(emitted[s])] <= seenBar[s]
  /\ s \in watched /\ lateTicks[s] = 0 /\ s \notin unticked /\ (seenBar[s] # 0 \/ s \in answered) => emitted[s] # <<>>
  /\ s \notin watched /\ seenBar[s] # 0 => lateTicks[s] # 0 \/ s \in unticked
  /\ s \notin watched /\ (\E i \in 1 .. Len(polling.left) : polling.left[i] = s) => lateTicks[s] = 0

TicksInv == TicksTyped /\ RoundKnown /\ ~strayed /\ \A s \in Tickers : TicksOf(s)

PollingInv == BudgetInv /\ TicksInv

LEMMA PollingTold == PollingInv => CallsWithinBudget /\ BarsForward /\ FirstTickComes
<1> SUFFICES ASSUME PollingInv
             PROVE  CallsWithinBudget /\ BarsForward /\ FirstTickComes
  OBVIOUS
<1>1. CallsWithinBudget
  BY DEF PollingInv, BudgetInv
<1>2. BarsForward
  BY DEF PollingInv, TicksInv, TicksOf, Increasing, BarsForward
<1>3. FirstTickComes
  BY DEF PollingInv, TicksInv, TicksOf, FirstTickComes
<1> QED BY <1>1, <1>2, <1>3

LEMMA PollingStart == PollingInit => PollingInv
<1> SUFFICES ASSUME PollingInit
             PROVE  PollingInv
  OBVIOUS
<1>1. BudgetInv
  BY PollingAssumption DEF PollingInit, BudgetInv, Dropped, CallsWithinBudget
<1>2. IsFiniteSet(watched)
  BY FS_EmptySet DEF PollingInit
<1>3. PollingOff \in PollRecords /\ PollingOff.on = FALSE /\ PollingOff.at = "off" /\ PollingOff.left = <<>>
  BY DEF PollingOff, PollRecords
<1>4. TicksTyped
  BY <1>2, <1>3 DEF PollingInit, TicksTyped
<1>5. RoundKnown
  BY <1>3 DEF PollingInit, RoundKnown
<1>6. ASSUME NEW s \in Tickers
      PROVE  TicksOf(s)
  BY <1>3 DEF PollingInit, TicksOf, Increasing
<1> QED BY <1>1, <1>4, <1>5, <1>6 DEF PollingInv, TicksInv, PollingInit

(* The calls granted, whatever the step.                                   *)
LEMMA BudgetStep ==
  ASSUME BudgetInv, [PollingNext]_pollingVars
  PROVE  BudgetInv'
<1>0. UNCHANGED <<callTimes, granted, moment>> => BudgetInv'
  BY LaterKeeps DEF BudgetInv
<1>1. CASE SourceMoves
  <2>1. moment' \in Nat /\ moment' >= moment /\ UNCHANGED <<callTimes, granted>>
    BY <1>1 DEF SourceMoves, Limiter, BudgetInv
  <2> QED BY <2>1, LaterKeeps
<1>2. CASE PollAcquires \/ ReadAcquires
  BY <1>2, AcquiredKeeps, AsleepKeeps DEF PollAcquires, ReadAcquires, SourceStands
<1>3. CASE DisconnectPolling
  BY <1>0, <1>3 DEF DisconnectPolling, SourceStands
<1>4. CASE \/ RoundBegins \/ PollAnswered \/ PollFails \/ ConnectPolling \/ ReadHistory \/ ReadReturns
           \/ \E s \in Tickers : SubscribePolling(s) \/ UnsubscribePolling(s)
  BY <1>0, <1>4 DEF RoundBegins, PollAnswered, PollFails, ConnectPolling, ReadHistory, ReadReturns,
                    SubscribePolling, UnsubscribePolling, SourceStands, Limiter
<1>5. CASE UNCHANGED pollingVars
  BY <1>0, <1>5 DEF pollingVars
<1> QED BY <1>1, <1>2, <1>3, <1>4, <1>5 DEF PollingNext

(* What is left of a round after its first symbol.                         *)
LEMMA RestOf ==
  ASSUME NEW q \in Seq(Tickers), q # <<>>,
         \A i, j \in 1 .. Len(q) : i # j => q[i] # q[j]
  PROVE  /\ Tail(q) \in Seq(Tickers) /\ Head(q) \in Tickers
         /\ \A i, j \in 1 .. Len(Tail(q)) : i # j => Tail(q)[i] # Tail(q)[j]
         /\ \A i \in 1 .. Len(Tail(q)) : Tail(q)[i] # Head(q)
         /\ \A i \in 1 .. Len(Tail(q)) : \E j \in 1 .. Len(q) : Tail(q)[i] = q[j]
         /\ \E j \in 1 .. Len(q) : Head(q) = q[j]
<1>1. Len(q) \in Nat \ {0} /\ Head(q) = q[1] /\ Tail(q) \in Seq(Tickers) /\ Len(Tail(q)) = Len(q) - 1
      /\ q[1] \in Tickers
  OBVIOUS
<1>2. \A i \in 1 .. Len(Tail(q)) : Tail(q)[i] = q[i + 1] /\ i + 1 \in 1 .. Len(q)
  BY <1>1
<1>3. ASSUME NEW i \in 1 .. Len(Tail(q)), NEW j \in 1 .. Len(Tail(q)), i # j
      PROVE  Tail(q)[i] # Tail(q)[j]
  BY <1>1, <1>2, <1>3
<1>4. ASSUME NEW i \in 1 .. Len(Tail(q))
      PROVE  Tail(q)[i] # Head(q)
  <2>1. i + 1 # 1 /\ i + 1 \in 1 .. Len(q) /\ 1 \in 1 .. Len(q)
    BY <1>1, <1>2
  <2> QED BY <1>1, <1>2, <2>1
<1>5. 1 \in 1 .. Len(q)
  BY <1>1
<1> QED BY <1>1, <1>2, <1>3, <1>4, <1>5

(* The round goes on to what is left, and the world stands.                *)
LEMMA GoesOn ==
  ASSUME TicksTyped, RoundKnown, polling.at = "fetch", PollGoesOn
  PROVE  /\ polling' \in PollRecords /\ polling'.left = Tail(polling.left) /\ polling'.on = polling.on
         /\ polling'.at = IF Tail(polling.left) = <<>> THEN "pause" ELSE "limit"
         /\ polling.on
         /\ \A i \in 1 .. Len(polling'.left) :
              /\ polling'.left[i] # Head(polling.left)
              /\ \E j \in 1 .. Len(polling.left) : polling'.left[i] = polling.left[j]
         /\ Head(polling.left) \in Tickers /\ \E j \in 1 .. Len(polling.left) : Head(polling.left) = polling.left[j]
<1>1. polling \in PollRecords /\ polling.left \in Seq(Tickers) /\ polling.left # <<>> /\ polling.on
  BY DEF TicksTyped, RoundKnown, PollRecords
<1>2. /\ Tail(polling.left) \in Seq(Tickers) /\ Head(polling.left) \in Tickers
      /\ \A i \in 1 .. Len(Tail(polling.left)) : Tail(polling.left)[i] # Head(polling.left)
      /\ \A i \in 1 .. Len(Tail(polling.left)) : \E j \in 1 .. Len(polling.left) : Tail(polling.left)[i] = polling.left[j]
      /\ \E j \in 1 .. Len(polling.left) : Head(polling.left) = polling.left[j]
  BY <1>1, RestOf DEF RoundKnown
<1> DEFINE rest == Tail(polling.left)
           to == IF rest = <<>> THEN "pause" ELSE "limit"
<1>3. polling' = [polling EXCEPT !.at = to, !.left = rest] /\ to \in {"pause", "limit"}
  BY DEF PollGoesOn, PollTurns
<1>4. rest \in Seq(Tickers)
  BY <1>2
<1> HIDE DEF rest, to
<1>5. polling' \in PollRecords /\ polling'.left = rest /\ polling'.on = polling.on /\ polling'.at = to
  BY <1>1, <1>3, <1>4 DEF PollRecords
<1> QED BY <1>1, <1>2, <1>5 DEF rest, to

LEMMA RoundGoesOn ==
  ASSUME TicksTyped, RoundKnown, polling.at = "fetch", PollGoesOn
  PROVE  RoundKnown'
<1>1. /\ polling' \in PollRecords /\ polling'.left = Tail(polling.left) /\ polling'.on = polling.on
      /\ polling'.at = IF Tail(polling.left) = <<>> THEN "pause" ELSE "limit"
      /\ polling.on
  BY GoesOn
<1>2. \A i, j \in 1 .. Len(Tail(polling.left)) : i # j => Tail(polling.left)[i] # Tail(polling.left)[j]
  <2>1. polling.left \in Seq(Tickers) /\ polling.left # <<>>
    BY DEF TicksTyped, RoundKnown, PollRecords
  <2> QED BY <2>1, RestOf DEF RoundKnown
<1> QED BY <1>1, <1>2 DEF RoundKnown

(* An exception ends the round, and an answer does one or the other.       *)
LEMMA GoesOnOrEnds ==
  ASSUME TicksTyped, RoundKnown, polling.at = "fetch", PollGoesOn \/ PollEnds
  PROVE  /\ polling' \in PollRecords /\ polling.on /\ RoundKnown'
         /\ \A i \in 1 .. Len(polling'.left) :
              /\ polling'.left[i] # Head(polling.left)
              /\ \E j \in 1 .. Len(polling.left) : polling'.left[i] = polling.left[j]
         /\ Head(polling.left) \in Tickers /\ \E j \in 1 .. Len(polling.left) : Head(polling.left) = polling.left[j]
<1>1. CASE PollGoesOn
  BY <1>1, GoesOn, RoundGoesOn
<1>2. CASE PollEnds
  <2>1. polling \in PollRecords /\ polling.left \in Seq(Tickers) /\ polling.left # <<>> /\ polling.on
    BY DEF TicksTyped, RoundKnown, PollRecords
  <2>2. polling' = [polling EXCEPT !.at = "ended", !.left = <<>>]
    BY <1>2 DEF PollEnds, PollTurns
  <2>e. <<>> \in Seq(Tickers) /\ polling.on \in BOOLEAN
    BY <2>1 DEF PollRecords
  <2>3. polling' \in PollRecords /\ polling'.left = <<>> /\ polling'.on /\ polling'.at = "ended"
    BY <2>1, <2>2, <2>e DEF PollRecords
  <2>4. RoundKnown'
    BY <2>3 DEF RoundKnown
  <2>5. Head(polling.left) \in Tickers /\ \E j \in 1 .. Len(polling.left) : Head(polling.left) = polling.left[j]
    BY <2>1, RestOf DEF RoundKnown
  <2> QED BY <2>1, <2>3, <2>4, <2>5
<1> QED BY <1>1, <1>2

(* A round of what is watched asks for each once.                          *)
LEMMA RoundIs ==
  ASSUME IsFiniteSet(watched), watched \subseteq Tickers, NEW order \in SetToSeqs(watched)
  PROVE  /\ order \in Seq(Tickers)
         /\ \A i, j \in 1 .. Len(order) : i # j => order[i] # order[j]
         /\ \A i \in 1 .. Len(order) : order[i] \in watched
<1>1. Cardinality(watched) \in Nat
  BY FS_CardinalityType
<1>2. order \in [1 .. Cardinality(watched) -> watched]
      /\ \A i, j \in 1 .. Cardinality(watched) : i # j => order[i] # order[j]
  BY DEF SetToSeqs
<1>3. order \in Seq(Tickers) /\ Len(order) = Cardinality(watched)
  BY <1>1, <1>2
<1> QED BY <1>2, <1>3

(* A bar appended to the ticks of a symbol.                                *)
LEMMA AppendedTick ==
  ASSUME NEW q \in Seq(Nat), NEW bar \in Nat, Increasing(q), q # <<>> => q[Len(q)] < bar
  PROVE  /\ Append(q, bar) \in Seq(Nat) /\ Increasing(Append(q, bar)) /\ Append(q, bar) # <<>>
         /\ Append(q, bar)[Len(Append(q, bar))] = bar
<1> DEFINE n == Len(q)
           a == Append(q, bar)
<1>1. n \in Nat /\ a \in Seq(Nat) /\ Len(a) = n + 1 /\ a[n + 1] = bar /\ \A i \in 1 .. n : a[i] = q[i]
  OBVIOUS
<1>2. a # <<>>
  BY <1>1
<1>3. ASSUME NEW i \in 2 .. n + 1
      PROVE  a[i - 1] < a[i]
  <2>1. CASE i = n + 1
    <3>1. q # <<>> /\ i - 1 = n /\ n \in 1 .. n
      BY <1>1, <2>1
    <3> QED BY <1>1, <2>1, <3>1
  <2>2. CASE i # n + 1
    <3>1. i \in 2 .. n /\ i - 1 \in 1 .. n /\ i \in 1 .. n
      BY <1>1, <2>2
    <3> QED BY <1>1, <3>1 DEF Increasing
  <2> QED BY <2>1, <2>2
<1> HIDE DEF a, n
<1> QED BY <1>1, <1>2, <1>3 DEF a, Increasing

(* Steps that leave the symbols alone.                                     *)
LEMMA SymbolsStand ==
  ASSUME TicksInv, UNCHANGED <<watched, seenBar, emitted, answered, lateTicks, unticked, strayed>>,
         barNow' \in [Tickers -> Nat], \A s \in Tickers : barNow'[s] >= barNow[s],
         polling' \in PollRecords, RoundKnown',
         \A i \in 1 .. Len(polling'.left) :
           \/ polling'.left[i] \in watched
           \/ \E j \in 1 .. Len(polling.left) : polling'.left[i] = polling.left[j]
  PROVE  TicksInv'
<1>1. TicksTyped'
  <2>1. \A s \in Tickers : seenBar[s] <= barNow'[s]
    BY DEF TicksInv, TicksTyped
  <2> QED BY <2>1 DEF TicksInv, TicksTyped
<1>2. ASSUME NEW s \in Tickers
      PROVE  TicksOf(s)'
  <2>1. TicksOf(s)
    BY DEF TicksInv
  <2>2. s \notin watched /\ (\E i \in 1 .. Len(polling'.left) : polling'.left[i] = s) =>
          \E j \in 1 .. Len(polling.left) : polling.left[j] = s
    OBVIOUS
  <2> QED BY <2>1, <2>2 DEF TicksOf
<1> QED BY <1>1, <1>2 DEF TicksInv

LEMMA RoundSteps ==
  ASSUME TicksInv, RoundBegins \/ PollAcquires \/ PollFails
  PROVE  TicksInv'
<1>0. /\ polling \in PollRecords /\ IsFiniteSet(watched) /\ watched \subseteq Tickers
      /\ seenBar \in [Tickers -> Nat] /\ barNow \in [Tickers -> Nat]
      /\ \A s \in Tickers : seenBar[s] <= barNow[s] /\ barNow[s] >= barNow[s]
      /\ TicksTyped /\ RoundKnown
  BY DEF TicksInv, TicksTyped
<1>1. UNCHANGED <<watched, seenBar, emitted, answered, lateTicks, unticked, strayed, barNow>>
  BY DEF RoundBegins, PollAcquires, PollFails, PollingHistory, SourceStands
<1>2. CASE RoundBegins
  <2>1. PICK order \in SetToSeqs(watched) :
          polling' = [polling EXCEPT !.at = IF order = <<>> THEN "pause" ELSE "limit", !.left = order]
    BY <1>2 DEF RoundBegins, PollTurns
  <2>2. /\ order \in Seq(Tickers)
        /\ \A i, j \in 1 .. Len(order) : i # j => order[i] # order[j]
        /\ \A i \in 1 .. Len(order) : order[i] \in watched
    BY <1>0, RoundIs
  <2>3. /\ polling' \in PollRecords /\ polling'.left = order /\ polling'.on = polling.on
        /\ polling'.at = IF order = <<>> THEN "pause" ELSE "limit"
    BY <1>0, <2>1, <2>2 DEF PollRecords
  <2>4. polling.on
    BY <1>0, <1>2 DEF RoundBegins, RoundKnown
  <2>5. RoundKnown'
    BY <2>2, <2>3, <2>4 DEF RoundKnown
  <2> QED BY <1>0, <1>1, <2>2, <2>3, <2>5, SymbolsStand
<1>3. CASE PollAcquires
  <2>1. CASE UNCHANGED polling
    <3>1. RoundKnown'
      BY <1>0, <1>1, <2>1 DEF RoundKnown
    <3> QED BY <1>0, <1>1, <2>1, <3>1, SymbolsStand
  <2>2. CASE polling' = [polling EXCEPT !.at = "fetch", !.since = barNow[Head(polling.left)]]
    <3>1. polling.at = "limit" /\ polling.left # <<>> /\ polling.left \in Seq(Tickers) /\ Head(polling.left) \in Tickers
      BY <1>0, <1>3, RestOf DEF PollAcquires, RoundKnown, PollRecords
    <3> DEFINE b == barNow[Head(polling.left)]
    <3>2. b \in Nat /\ seenBar[Head(polling.left)] <= b
      BY <1>0, <3>1
    <3> HIDE DEF b
    <3>3. /\ polling' \in PollRecords /\ polling'.left = polling.left /\ polling'.on = polling.on
          /\ polling'.at = "fetch" /\ polling'.since = b
      BY <1>0, <2>2, <3>2 DEF PollRecords, b
    <3>4. RoundKnown'
      BY <1>0, <1>1, <3>1, <3>2, <3>3 DEF RoundKnown
    <3> QED BY <1>0, <1>1, <3>3, <3>4, SymbolsStand
  <2> QED BY <1>3, <2>1, <2>2 DEF PollAcquires
<1>4. CASE PollFails
  <2>1. polling.at = "fetch" /\ PollGoesOn
    BY <1>4 DEF PollFails
  <2>2. RoundKnown'
    BY <1>0, <2>1, RoundGoesOn
  <2>3. /\ polling' \in PollRecords
        /\ \A i \in 1 .. Len(polling'.left) : \E j \in 1 .. Len(polling.left) : polling'.left[i] = polling.left[j]
    BY <1>0, <2>1, GoesOn
  <2> QED BY <1>0, <1>1, <2>2, <2>3, SymbolsStand
<1> QED BY <1>2, <1>3, <1>4

LEMMA AnsweredKeeps ==
  ASSUME TicksInv, PollAnswered
  PROVE  TicksInv'
<1>0. /\ polling.at = "fetch" /\ (PollGoesOn \/ PollEnds) /\ TicksTyped /\ RoundKnown /\ UNCHANGED <<watched, barNow>>
      /\ ~strayed
  BY DEF PollAnswered, TickMade, TickRaises, TicksInv, SourceStands
<1>s. PICK s \in Tickers : s = Head(polling.left)
  BY <1>0, GoesOnOrEnds
<1>1. /\ polling' \in PollRecords
      /\ polling.on
      /\ \A i \in 1 .. Len(polling'.left) :
           /\ polling'.left[i] # s
           /\ \E j \in 1 .. Len(polling.left) : polling'.left[i] = polling.left[j]
      /\ s \in Tickers /\ \E j \in 1 .. Len(polling.left) : s = polling.left[j]
  BY <1>0, <1>s, GoesOnOrEnds
<1>2. PICK bar \in polling.since .. barNow[s] :
        /\ answered' = IF bar = 0 THEN answered ELSE answered \cup {s}
        /\ \/ /\ NewBar(s, bar) /\ seenBar' = [seenBar EXCEPT ![s] = bar]
              /\ TickMade(s, bar) \/ TickRaises(s)
           \/ /\ ~NewBar(s, bar)
              /\ UNCHANGED <<seenBar, emitted, lateTicks, unticked, strayed>>
  BY <1>s DEF PollAnswered
<1>3. /\ bar \in Nat /\ seenBar[s] <= bar /\ bar <= barNow[s] /\ seenBar[s] \in Nat /\ barNow[s] \in Nat
      /\ lateTicks[s] \in Nat /\ emitted[s] \in Seq(Nat)
  <2>1. polling.since \in Nat /\ barNow[s] \in Nat /\ seenBar[s] <= polling.since /\ seenBar[s] \in Nat
        /\ lateTicks[s] \in Nat /\ emitted[s] \in Seq(Nat)
    BY <1>0, <1>1, <1>s DEF TicksTyped, RoundKnown, PollRecords
  <2> QED BY <1>2, <2>1
<1>4. RoundKnown'
  BY <1>0, GoesOnOrEnds
<1>5. \A t \in Tickers : TicksOf(t)
  BY DEF TicksInv
<1>6. \A t \in Tickers : (\E i \in 1 .. Len(polling'.left) : polling'.left[i] = t) =>
        t # s /\ \E j \in 1 .. Len(polling.left) : polling.left[j] = t
  BY <1>1
<1>7. ASSUME NEW t \in Tickers, t # s
      PROVE  TicksOf(t)'
  <2>1. /\ seenBar'[t] = seenBar[t] /\ emitted'[t] = emitted[t] /\ lateTicks'[t] = lateTicks[t]
        /\ (t \in answered' => t \in answered) /\ (t \in unticked' <=> t \in unticked)
    BY <1>0, <1>2, <1>7 DEF TicksTyped, TickMade, TickRaises
  <2> QED BY <1>0, <1>5, <1>6, <1>7, <2>1 DEF TicksOf
<1>8. CASE ~NewBar(s, bar)
  <2>1. UNCHANGED <<seenBar, emitted, lateTicks, unticked, strayed>>
    BY <1>2, <1>8
  <2>2. TicksTyped'
    BY <1>0, <1>1, <2>1 DEF TicksTyped
  <2>3. bar \in {0, seenBar[s]}
    BY <1>8 DEF NewBar
  <2>4. TicksOf(s)'
    BY <1>0, <1>1, <1>2, <1>5, <1>6, <2>1, <2>3 DEF TicksOf
  <2> QED BY <1>0, <1>4, <1>7, <2>1, <2>2, <2>4 DEF TicksInv
<1>9. CASE NewBar(s, bar) /\ TickMade(s, bar)
  <2>1. /\ seenBar' = [seenBar EXCEPT ![s] = bar]
        /\ emitted' = [emitted EXCEPT ![s] = IF s \in watched THEN Append(@, bar) ELSE @]
        /\ lateTicks' = [lateTicks EXCEPT ![s] = IF s \in watched THEN @ ELSE @ + 1]
        /\ strayed' = (strayed \/ ~polling.on) /\ UNCHANGED unticked
    BY <1>2, <1>9 DEF TickMade
  <2>2. bar # 0 /\ bar # seenBar[s] /\ bar > seenBar[s]
    BY <1>3, <1>9 DEF NewBar
  <2>3. ~strayed'
    BY <1>0, <1>1, <2>1
  <2>4. seenBar'[s] = bar
        /\ emitted'[s] = (IF s \in watched THEN Append(emitted[s], bar) ELSE emitted[s])
        /\ lateTicks'[s] = (IF s \in watched THEN lateTicks[s] ELSE lateTicks[s] + 1)
    BY <1>0, <1>1, <2>1 DEF TicksTyped
  <2>5. TicksOf(s)
    BY <1>1, <1>5
  <2>6. s \in watched => /\ Append(emitted[s], bar) \in Seq(Nat) /\ Increasing(Append(emitted[s], bar))
                         /\ Append(emitted[s], bar) # <<>>
                         /\ Append(emitted[s], bar)[Len(Append(emitted[s], bar))] = bar
    BY <1>3, <2>2, <2>5, AppendedTick DEF TicksOf
  <2>7. TicksOf(s)'
    <3>1. CASE s \in watched
      BY <1>0, <2>4, <2>5, <2>6, <3>1 DEF TicksOf
    <3>2. CASE s \notin watched
      <4>1. lateTicks[s] = 0 /\ lateTicks'[s] = 1
        BY <1>1, <2>4, <2>5, <3>2 DEF TicksOf
      <4> QED BY <1>0, <1>6, <2>4, <2>5, <3>2, <4>1 DEF TicksOf
    <3> QED BY <3>1, <3>2
  <2>8. TicksTyped'
    <3>1. emitted' \in [Tickers -> Seq(Nat)]
      <4> DEFINE e == IF s \in watched THEN Append(emitted[s], bar) ELSE emitted[s]
      <4>1. e \in Seq(Nat) /\ emitted' = [emitted EXCEPT ![s] = e]
        BY <1>3, <2>1, <2>6
      <4> HIDE DEF e
      <4> QED BY <1>0, <4>1 DEF TicksTyped
    <3>2. lateTicks' \in [Tickers -> Nat]
      <4> DEFINE l == IF s \in watched THEN lateTicks[s] ELSE lateTicks[s] + 1
      <4>1. l \in Nat /\ lateTicks' = [lateTicks EXCEPT ![s] = l]
        BY <1>3, <2>1
      <4> HIDE DEF l
      <4> QED BY <1>0, <4>1 DEF TicksTyped
    <3>3. seenBar' \in [Tickers -> Nat] /\ \A t \in Tickers : seenBar'[t] <= barNow[t]
      BY <1>0, <1>1, <1>3, <2>1 DEF TicksTyped
    <3> QED BY <1>0, <1>1, <2>1, <3>1, <3>2, <3>3 DEF TicksTyped
  <2> QED BY <1>4, <1>7, <2>3, <2>7, <2>8 DEF TicksInv
<1>10. CASE NewBar(s, bar) /\ TickRaises(s)
  <2>1. /\ seenBar' = [seenBar EXCEPT ![s] = bar] /\ unticked' = unticked \cup {s}
        /\ UNCHANGED <<emitted, lateTicks, strayed>>
    BY <1>2, <1>10 DEF TickRaises
  <2>2. bar > seenBar[s]
    BY <1>3, <1>10 DEF NewBar
  <2>3. seenBar'[s] = bar /\ s \in unticked'
    BY <1>0, <1>1, <2>1 DEF TicksTyped
  <2>4. TicksOf(s)
    BY <1>1, <1>5
  <2>5. emitted[s] # <<>> => emitted[s][Len(emitted[s])] \in Nat
    BY <1>3
  <2>6. TicksOf(s)'
    BY <1>0, <1>1, <1>3, <1>6, <2>1, <2>2, <2>3, <2>4, <2>5 DEF TicksOf
  <2>7. TicksTyped'
    BY <1>0, <1>1, <1>3, <2>1 DEF TicksTyped
  <2> QED BY <1>0, <1>4, <1>7, <2>1, <2>6, <2>7 DEF TicksInv
<1> QED BY <1>2, <1>8, <1>9, <1>10

LEMMA FeedCalls ==
  ASSUME TicksInv,
         \/ ConnectPolling \/ DisconnectPolling \/ ReadHistory \/ ReadAcquires \/ ReadReturns \/ SourceMoves
  PROVE  TicksInv'
<1>0. /\ polling \in PollRecords /\ barNow \in [Tickers -> Nat] /\ RoundKnown
      /\ \A s \in Tickers : barNow[s] >= barNow[s]
      /\ UNCHANGED <<watched, seenBar, emitted, answered, lateTicks, unticked, strayed>>
  BY DEF TicksInv, TicksTyped, ConnectPolling, DisconnectPolling, ReadHistory, ReadAcquires, ReadReturns,
         SourceMoves, PollingHistory
<1>1. CASE ConnectPolling
  <2>1. polling' = [PollingOff EXCEPT !.on = TRUE, !.at = "pause"] /\ UNCHANGED barNow
    BY <1>1 DEF ConnectPolling, SourceStands
  <2>2. polling' \in PollRecords /\ polling'.left = <<>> /\ polling'.on = TRUE /\ polling'.at = "pause"
    <3>1. polling' = [on |-> TRUE, at |-> "pause", left |-> <<>>, since |-> 0]
      BY <2>1 DEF PollingOff
    <3> QED BY <3>1 DEF PollRecords
  <2>3. RoundKnown'
    BY <2>2 DEF RoundKnown
  <2> QED BY <1>0, <2>1, <2>2, <2>3, SymbolsStand
<1>2. CASE DisconnectPolling
  <2>1. polling' = PollingOff /\ UNCHANGED barNow
    BY <1>2 DEF DisconnectPolling, SourceStands, PollCancelled
  <2>2. polling' \in PollRecords /\ polling'.left = <<>> /\ polling'.at = "off" /\ ~polling'.on
    BY <2>1 DEF PollingOff, PollRecords
  <2>3. RoundKnown'
    BY <2>2 DEF RoundKnown
  <2> QED BY <1>0, <2>1, <2>2, <2>3, SymbolsStand
<1>3. CASE ReadHistory \/ ReadAcquires \/ ReadReturns
  <2>1. UNCHANGED <<polling, barNow>>
    BY <1>3 DEF ReadHistory, ReadAcquires, ReadReturns, SourceStands
  <2>2. RoundKnown'
    BY <1>0, <2>1 DEF RoundKnown
  <2> QED BY <1>0, <2>1, <2>2, SymbolsStand
<1>4. CASE SourceMoves
  <2>1. UNCHANGED polling /\ \E new \in SUBSET {s \in Tickers : barNow[s] < LastBar} :
          barNow' = [s \in Tickers |-> IF s \in new THEN barNow[s] + 1 ELSE barNow[s]]
    BY <1>4 DEF SourceMoves
  <2>2. barNow' \in [Tickers -> Nat] /\ \A s \in Tickers : barNow'[s] >= barNow[s]
    BY <1>0, <2>1
  <2>3. RoundKnown'
    BY <1>0, <2>1 DEF RoundKnown
  <2> QED BY <1>0, <2>1, <2>2, <2>3, SymbolsStand
<1> QED BY <1>1, <1>2, <1>3, <1>4

LEMMA Subscriptions ==
  ASSUME TicksInv, NEW s \in Tickers, SubscribePolling(s) \/ UnsubscribePolling(s)
  PROVE  TicksInv'
<1>0. /\ TicksTyped /\ RoundKnown /\ ~strayed /\ UNCHANGED <<polling, barNow, strayed>>
      /\ \A t \in Tickers : TicksOf(t)
  BY DEF TicksInv, SubscribePolling, UnsubscribePolling, SourceStands
<1>1. CASE SubscribePolling(s)
  <2>1. /\ s \notin watched /\ watched' = watched \cup {s} /\ emitted' = [emitted EXCEPT ![s] = <<>>]
        /\ answered' = answered \ {s} /\ UNCHANGED <<seenBar, lateTicks, unticked>>
    BY <1>1 DEF SubscribePolling
  <2>2. IsFiniteSet(watched')
    BY <1>0, <2>1, FS_AddElement DEF TicksTyped
  <2>3. emitted' \in [Tickers -> Seq(Nat)] /\ emitted'[s] = <<>>
        /\ \A t \in Tickers : t # s => emitted'[t] = emitted[t]
    BY <1>0, <2>1 DEF TicksTyped
  <2>4. TicksTyped'
    BY <1>0, <2>1, <2>2, <2>3 DEF TicksTyped
  <2>5. RoundKnown'
    BY <1>0, <2>1 DEF RoundKnown
  <2>6. ASSUME NEW t \in Tickers
        PROVE  TicksOf(t)'
    <3>0. TicksOf(t)
      BY <1>0
    <3>1. CASE t = s
      BY <1>0, <2>1, <2>3, <3>0, <3>1 DEF TicksOf, Increasing
    <3>2. CASE t # s
      BY <1>0, <2>1, <2>3, <3>0, <3>2 DEF TicksOf
    <3> QED BY <3>1, <3>2
  <2> QED BY <1>0, <2>4, <2>5, <2>6 DEF TicksInv
<1>2. CASE UnsubscribePolling(s)
  <2>1. /\ s \in watched /\ watched' = watched \ {s} /\ seenBar' = [seenBar EXCEPT ![s] = 0]
        /\ lateTicks' = [lateTicks EXCEPT ![s] = 0] /\ unticked' = unticked \ {s}
        /\ UNCHANGED <<emitted, answered>>
    BY <1>2 DEF UnsubscribePolling, BarForgotten
  <2>2. IsFiniteSet(watched')
    BY <1>0, <2>1, FS_RemoveElement DEF TicksTyped
  <2>3. /\ seenBar' \in [Tickers -> Nat] /\ seenBar'[s] = 0 /\ lateTicks' \in [Tickers -> Nat] /\ lateTicks'[s] = 0
        /\ \A t \in Tickers : t # s => seenBar'[t] = seenBar[t] /\ lateTicks'[t] = lateTicks[t]
        /\ \A t \in Tickers : seenBar'[t] <= seenBar[t] /\ seenBar[t] \in Nat /\ barNow[t] \in Nat
    BY <1>0, <2>1 DEF TicksTyped
  <2>4. \A t \in Tickers : seenBar'[t] <= barNow[t]
    BY <1>0, <2>3 DEF TicksTyped
  <2>5. TicksTyped'
    BY <1>0, <2>1, <2>2, <2>3, <2>4 DEF TicksTyped
  <2>6. RoundKnown'
    <3>1. polling.at = "fetch" => seenBar'[Head(polling.left)] <= polling.since
      <4> SUFFICES ASSUME polling.at = "fetch"
                   PROVE  seenBar'[Head(polling.left)] <= polling.since
        OBVIOUS
      <4>1. polling.left \in Seq(Tickers) /\ polling.left # <<>> /\ polling.since \in Nat
            /\ seenBar[Head(polling.left)] <= polling.since
        BY <1>0 DEF TicksTyped, RoundKnown, PollRecords
      <4>2. Head(polling.left) \in Tickers
        BY <4>1
      <4> QED BY <2>3, <4>1, <4>2
    <3> QED BY <1>0, <3>1 DEF RoundKnown
  <2>7. ASSUME NEW t \in Tickers
        PROVE  TicksOf(t)'
    <3>0. TicksOf(t)
      BY <1>0
    <3>1. CASE t = s
      BY <1>0, <2>1, <2>3, <3>0, <3>1 DEF TicksOf
    <3>2. CASE t # s
      BY <1>0, <2>1, <2>3, <3>0, <3>2 DEF TicksOf
    <3> QED BY <3>1, <3>2
  <2> QED BY <1>0, <2>5, <2>6, <2>7 DEF TicksInv
<1> QED BY <1>1, <1>2

LEMMA PollingStep == PollingInv /\ [PollingNext]_pollingVars => PollingInv'
<1> SUFFICES ASSUME PollingInv, [PollingNext]_pollingVars
             PROVE  TicksInv'
  BY BudgetStep DEF PollingInv
<1>1. CASE UNCHANGED pollingVars
  <2>0. TicksInv
    BY DEF PollingInv
  <2>1. UNCHANGED pollingVars
    BY <1>1
  <2>2. TicksTyped' /\ RoundKnown' /\ ~strayed'
    BY ONLY <2>0, <2>1 DEF pollingVars, Limiter, PollingHistory, TicksInv, TicksTyped, RoundKnown
  <2>3. \A s \in Tickers : TicksOf(s)'
    BY ONLY <2>0, <2>1 DEF pollingVars, Limiter, PollingHistory, TicksInv, TicksOf
  <2> QED BY <2>2, <2>3 DEF TicksInv
<1>2. CASE PollingNext
  <2>0. TicksInv
    BY DEF PollingInv
  <2>1. CASE RoundBegins \/ PollAcquires \/ PollFails
    BY ONLY <2>0, <2>1, RoundSteps
  <2>2. CASE PollAnswered
    BY ONLY <2>0, <2>2, AnsweredKeeps
  <2>3. CASE \/ ConnectPolling \/ DisconnectPolling \/ ReadHistory \/ ReadAcquires \/ ReadReturns \/ SourceMoves
    BY ONLY <2>0, <2>3, FeedCalls
  <2>4. CASE \E s \in Tickers : SubscribePolling(s) \/ UnsubscribePolling(s)
    BY ONLY <2>0, <2>4, Subscriptions
  <2> QED BY <1>2, <2>1, <2>2, <2>3, <2>4 DEF PollingNext
<1> QED BY <1>1, <1>2

---------------------------------------------------------------------------
(***************************************************************************)
(* The types of the services' variables: what the invariants above leave   *)
(* open of bounds, counters and histories.                                 *)
(***************************************************************************)
(* Every request that IB serves for a symbol, and every call that is to    *)
(* ask for one, is of a call of its own.                                   *)
AskersOf(s) == {c \in IBCallers : AsksFor(c, s)}

IBKRCounted ==
  /\ crossed \subseteq IBSymbols /\ ibCallsMade \in Nat
  /\ \A s \in IBSymbols : /\ IsFiniteSet(AskersOf(s))
                          /\ streams[s] + Cardinality(AskersOf(s)) <= ibCallsMade

LEMMA IBKRCountedStart == IBKRInit => IBKRCounted
<1> SUFFICES ASSUME IBKRInit
             PROVE  IBKRCounted
  OBVIOUS
<1>1. \A s \in IBSymbols : AskersOf(s) = {} /\ streams[s] = 0
  BY DEF IBKRInit, IBIdle, AskersOf, AsksFor
<1> QED BY <1>1, FS_EmptySet DEF IBKRInit, IBKRCounted

LEMMA OneElement ==
  ASSUME NEW S, IsFiniteSet(S), NEW x
  PROVE  /\ Cardinality(S) \in Nat
         /\ IsFiniteSet(S \cup {x}) /\ Cardinality(S \cup {x}) \in Nat
         /\ Cardinality(S \cup {x}) <= Cardinality(S) + 1
         /\ IsFiniteSet(S \ {x}) /\ Cardinality(S \ {x}) \in Nat
         /\ Cardinality(S \ {x}) <= Cardinality(S)
         /\ x \in S => Cardinality(S \ {x}) = Cardinality(S) - 1
<1>1. Cardinality(S) \in Nat
  BY FS_CardinalityType
<1>2. /\ IsFiniteSet(S \cup {x})
      /\ Cardinality(S \cup {x}) = Cardinality(S) \/ Cardinality(S \cup {x}) = Cardinality(S) + 1
  BY FS_AddElement
<1>3. /\ IsFiniteSet(S \ {x})
      /\ x \in S => Cardinality(S \ {x}) = Cardinality(S) - 1
      /\ x \notin S => Cardinality(S \ {x}) = Cardinality(S)
  BY FS_RemoveElement
<1>4. Cardinality(S \ {x}) \in Nat
  BY <1>3, FS_CardinalityType
<1> QED BY <1>1, <1>2, <1>3, <1>4

(* Askers of a symbol change by the one that calls or is answered.         *)
LEMMA AskersMove ==
  ASSUME IBKRInv, NEW c \in IBCallers, NEW r, ibCall' = [ibCall EXCEPT ![c] = r],
         NEW s \in IBSymbols, IsFiniteSet(AskersOf(s))
  PROVE  /\ IsFiniteSet(AskersOf(s)')
         /\ Cardinality(AskersOf(s)) \in Nat /\ Cardinality(AskersOf(s)') \in Nat
         /\ Cardinality(AskersOf(s)') <= Cardinality(AskersOf(s)) + 1
         /\ ~(r.op = "subscribe" /\ r.symbol = s) =>
              /\ Cardinality(AskersOf(s)') <= Cardinality(AskersOf(s))
              /\ AsksFor(c, s) => Cardinality(AskersOf(s)') = Cardinality(AskersOf(s)) - 1
<1>0. Cardinality(AskersOf(s)) \in Nat
  BY FS_CardinalityType
<1>1. \A d \in IBCallers : ibCall'[d] = IF d = c THEN r ELSE ibCall[d]
  BY DEF IBKRInv
<1>2. CASE r.op = "subscribe" /\ r.symbol = s
  <2>1. AskersOf(s)' = AskersOf(s) \cup {c}
    BY <1>1, <1>2 DEF AskersOf, AsksFor
  <2>2. IsFiniteSet(AskersOf(s)') /\ Cardinality(AskersOf(s)') \in Nat
        /\ Cardinality(AskersOf(s)') <= Cardinality(AskersOf(s)) + 1
    BY ONLY IsFiniteSet(AskersOf(s)), <2>1, OneElement
  <2> QED BY <1>0, <1>2, <2>2
<1>3. CASE ~(r.op = "subscribe" /\ r.symbol = s)
  <2>1. AskersOf(s)' = AskersOf(s) \ {c} /\ (AsksFor(c, s) <=> c \in AskersOf(s))
    BY <1>1, <1>3 DEF AskersOf, AsksFor
  <2>2. /\ IsFiniteSet(AskersOf(s)') /\ Cardinality(AskersOf(s)') \in Nat
        /\ Cardinality(AskersOf(s)') <= Cardinality(AskersOf(s))
        /\ AsksFor(c, s) => Cardinality(AskersOf(s)') = Cardinality(AskersOf(s)) - 1
    BY ONLY IsFiniteSet(AskersOf(s)), <2>1, OneElement
  <2> QED BY <1>0, <1>3, <2>2
<1> QED BY <1>2, <1>3

LEMMA AskersStand ==
  ASSUME UNCHANGED ibCall
  PROVE  \A s \in IBSymbols : AskersOf(s)' = AskersOf(s)
BY DEF AskersOf, AsksFor

LEMMA IBKRCountedStep == IBKRInv /\ IBKRCounted /\ [IBKRNext]_ibkrVars => IBKRCounted'
<1> SUFFICES ASSUME IBKRInv, IBKRCounted, [IBKRNext]_ibkrVars
             PROVE  IBKRCounted'
  OBVIOUS
<1>t. streams \in [IBSymbols -> Nat] /\ crossed \subseteq IBSymbols /\ ibCallsMade \in Nat
  BY DEF IBKRInv, IBKRCounted
<1>c. \A s \in IBSymbols : /\ IsFiniteSet(AskersOf(s)) /\ Cardinality(AskersOf(s)) \in Nat
                           /\ streams[s] + Cardinality(AskersOf(s)) <= ibCallsMade
  BY FS_CardinalityType DEF IBKRCounted
<1>1. CASE UNCHANGED ibkrVars \/ ConnectLink
  <2>1. UNCHANGED <<ibCall, streams, crossed, ibCallsMade>>
    BY <1>1 DEF ibkrVars, ConnectLink
  <2> QED BY <1>c, <1>t, <2>1, AskersStand DEF IBKRCounted
<1>2. CASE LinkDown
  <2>1. UNCHANGED <<ibCall, crossed, ibCallsMade>> /\ \A s \in IBSymbols : streams'[s] = 0
    BY <1>2 DEF LinkDown
  <2>2. \A s \in IBSymbols : streams'[s] + Cardinality(AskersOf(s)) <= ibCallsMade
    BY <1>c, <1>t, <2>1
  <2> QED BY <1>c, <1>t, <2>1, <2>2, AskersStand DEF IBKRCounted
<1>3. ASSUME NEW c \in IBCallers, NEW t \in IBSymbols, SubscribeSymbol(c, t)
      PROVE  IBKRCounted'
  <2>1. ibCallsMade' = ibCallsMade + 1 /\ UNCHANGED streams /\ crossed' \subseteq IBSymbols
    BY <1>t, <1>3 DEF SubscribeSymbol, IBCalls
  <2>2. CASE UNCHANGED ibCall
    <3>1. \A s \in IBSymbols : streams[s] + Cardinality(AskersOf(s)) <= ibCallsMade + 1
      BY <1>c, <1>t
    <3> QED BY <1>c, <1>t, <2>1, <2>2, <3>1, AskersStand DEF IBKRCounted
  <2>3. CASE ibCall' = [ibCall EXCEPT ![c] = [op |-> "subscribe", symbol |-> t]]
    <3> SUFFICES ASSUME NEW s \in IBSymbols
                 PROVE  /\ IsFiniteSet(AskersOf(s)')
                        /\ streams[s] + Cardinality(AskersOf(s)') <= ibCallsMade + 1
      BY <1>t, <2>1 DEF IBKRCounted
    <3>1. /\ IsFiniteSet(AskersOf(s)') /\ Cardinality(AskersOf(s)') \in Nat
          /\ Cardinality(AskersOf(s)') <= Cardinality(AskersOf(s)) + 1
      BY <1>c, <2>3, AskersMove
    <3> QED BY <1>c, <1>t, <3>1
  <2> QED BY <1>3, <2>2, <2>3 DEF SubscribeSymbol, IBAwaits
<1>4. ASSUME NEW c \in IBCallers, NEW t \in IBSymbols, UnsubscribeSymbol(c, t) \/ ReadIBHistory(c, t)
      PROVE  IBKRCounted'
  <2>1. ibCallsMade' = ibCallsMade + 1 /\ UNCHANGED crossed
    BY <1>4 DEF UnsubscribeSymbol, ReadIBHistory, IBCalls
  <2>2. \A s \in IBSymbols : streams'[s] \in Nat /\ streams'[s] <= streams[s]
    BY <1>t, <1>4 DEF UnsubscribeSymbol, ReadIBHistory
  <2>3. \A s \in IBSymbols : /\ IsFiniteSet(AskersOf(s)') /\ Cardinality(AskersOf(s)') \in Nat
                             /\ Cardinality(AskersOf(s)') <= Cardinality(AskersOf(s))
    <3>1. CASE UNCHANGED ibCall
      BY <1>c, <3>1, AskersStand
    <3>2. CASE ibCall' = [ibCall EXCEPT ![c] = [op |-> "history", symbol |-> t]]
      <4> DEFINE r == [op |-> "history", symbol |-> t]
      <4>1. r.op # "subscribe" /\ ibCall' = [ibCall EXCEPT ![c] = r]
        BY <3>2
      <4> HIDE DEF r
      <4> QED BY <1>c, <4>1, AskersMove
    <3> QED BY <1>4, <3>1, <3>2 DEF UnsubscribeSymbol, ReadIBHistory, IBAwaits
  <2>4. \A s \in IBSymbols : streams'[s] + Cardinality(AskersOf(s)') <= ibCallsMade + 1
    BY <1>c, <1>t, <2>2, <2>3
  <2> QED BY <1>t, <2>1, <2>3, <2>4 DEF IBKRCounted
<1>5. ASSUME NEW c \in IBCallers, RequestRaises(c) \/ IBHistoryRead(c)
      PROVE  IBKRCounted'
  <2>1. ibCall' = [ibCall EXCEPT ![c] = IBIdle] /\ UNCHANGED <<streams, crossed, ibCallsMade>>
    BY <1>5 DEF RequestRaises, IBHistoryRead, IBReturns
  <2>2. \A s \in IBSymbols : /\ IsFiniteSet(AskersOf(s)') /\ Cardinality(AskersOf(s)') \in Nat
                             /\ Cardinality(AskersOf(s)') <= Cardinality(AskersOf(s))
    <3>1. IBIdle.op # "subscribe"
      BY DEF IBIdle
    <3> QED BY <1>c, <2>1, <3>1, AskersMove
  <2>3. \A s \in IBSymbols : streams[s] + Cardinality(AskersOf(s)') <= ibCallsMade
    BY <1>c, <1>t, <2>2
  <2> QED BY <1>t, <2>1, <2>2, <2>3 DEF IBKRCounted
<1>6. ASSUME NEW c \in IBCallers, RequestSymbol(c)
      PROVE  IBKRCounted'
  <2>1. PICK t \in IBSymbols : t = ibCall[c].symbol
    BY <1>6 DEF RequestSymbol, IBKRInv
  <2>2. /\ ibCall' = [ibCall EXCEPT ![c] = IBIdle] /\ UNCHANGED <<crossed, ibCallsMade>>
        /\ streams' = [streams EXCEPT ![t] = @ + 1] /\ AsksFor(c, t)
    BY <1>6, <2>1 DEF RequestSymbol, IBReturns, AsksFor
  <2> SUFFICES ASSUME NEW s \in IBSymbols
               PROVE  /\ IsFiniteSet(AskersOf(s)')
                      /\ streams'[s] + Cardinality(AskersOf(s)') <= ibCallsMade
    BY <1>t, <2>2 DEF IBKRCounted
  <2>3. /\ IsFiniteSet(AskersOf(s)') /\ Cardinality(AskersOf(s)') \in Nat
        /\ Cardinality(AskersOf(s)') <= Cardinality(AskersOf(s))
        /\ AsksFor(c, s) => Cardinality(AskersOf(s)') = Cardinality(AskersOf(s)) - 1
    <3>1. IBIdle.op # "subscribe"
      BY DEF IBIdle
    <3> QED BY <1>c, <2>2, <3>1, AskersMove
  <2>4. streams'[s] = IF s = t THEN streams[s] + 1 ELSE streams[s]
    BY <1>t, <2>2
  <2> QED BY <1>c, <1>t, <2>2, <2>3, <2>4
<1> QED BY <1>1, <1>2, <1>3, <1>4, <1>5, <1>6 DEF IBKRNext

LEMMA IBKRTypes == IBKRInv /\ IBKRCounted => IBKRTypeOK
<1> SUFFICES ASSUME IBKRInv, IBKRCounted, NEW s \in IBSymbols
             PROVE  streams[s] \in 0 .. ibCallsMade
  BY DEF IBKRTypeOK, IBKRInv, IBKRCounted
<1> QED BY FS_CardinalityType DEF IBKRInv, IBKRCounted

(***************************************************************************)
(* The bus and the process.                                                *)
(***************************************************************************)
BusCounted ==
  /\ published <= MaxPublished
  /\ \A l \in Lanes : calls[l] # {} => running /\ current[l] # None

LEMMA BusCountedStart == BusInit => BusCounted
BY BusAssumption DEF BusInit, BusCounted

LEMMA BusCountedStep == BusInv /\ BusCounted /\ [BusNext]_busVars => BusCounted'
<1> SUFFICES ASSUME BusInv, BusCounted, [BusNext]_busVars
             PROVE  BusCounted'
  OBVIOUS
<1>t. BusTyped
  BY DEF BusInv
<1>1. ASSUME NEW l \in Lanes, Publish(l)
      PROVE  BusCounted'
  BY <1>1, <1>t, BusAssumption DEF Publish, BusCounted, BusTyped
<1>2. ASSUME NEW l \in Lanes, Take(l)
      PROVE  BusCounted'
  <2>1. lanes[l] # <<>> /\ lanes[l] \in Seq(Nat) /\ LaneSorted(l) /\ current[l] \in Nat
    BY <1>2, <1>t DEF Take, BusTyped, BusInv
  <2>2. 1 \in 1 .. Len(lanes[l]) /\ Head(lanes[l]) = lanes[l][1] /\ lanes[l][1] \in Nat
    BY <2>1
  <2>3. Head(lanes[l]) # None
    BY <2>1, <2>2 DEF LaneSorted, None
  <2> QED BY <1>2, <1>t, <2>3 DEF Take, BusCounted, BusTyped
<1>3. ASSUME NEW l \in Lanes, NEW h \in Handlers, Return(l, h)
      PROVE  BusCounted'
  BY <1>3, <1>t DEF Return, BusCounted, BusTyped
<1>4. CASE StopBus
  BY <1>4 DEF StopBus, BusCounted
<1>5. CASE StartBus \/ UNCHANGED busVars \/ \E h \in Handlers : Subscribe(h) \/ Unsubscribe(h)
  BY <1>5 DEF StartBus, busVars, Subscribe, Unsubscribe, BusCounted
<1> QED BY <1>1, <1>2, <1>3, <1>4, <1>5 DEF BusNext

LEMMA BusTypes == BusInv /\ BusCounted => BusTypeOK
BY BusAssumption DEF BusInv, BusTyped, BusCounted, BusTypeOK

(* The process: lives are counted, and what it holds is a service.         *)
LifespanCounted ==
  /\ lifespans \in 0 .. MaxLifespans /\ holds \subseteq Services
  /\ startupStatus \in {"none", "ready", "reconciliation_blocked", "startup_failed"}
  /\ venueRegistered \in BOOLEAN /\ contextCrashed \in BOOLEAN

LEMMA LifespanCountedStart == LifespanInit => LifespanCounted
<1> SUFFICES ASSUME LifespanInit
             PROVE  LifespanCounted
  OBVIOUS
<1>1. lifespans = 0 /\ holds = {} /\ startupStatus = "none"
  BY DEF LifespanInit
<1>2. venueRegistered \in BOOLEAN
  BY DEF LifespanInit
<1>3. contextCrashed \in BOOLEAN
  BY DEF LifespanInit
<1> QED BY <1>1, <1>2, <1>3, LifespanAssumption DEF LifespanCounted

LEMMA LifespanCountedStep == LifespanInv /\ LifespanCounted /\ [LifespanNext]_lifespanVars => LifespanCounted'
<1> SUFFICES ASSUME LifespanInv, LifespanCounted, [LifespanNext]_lifespanVars
             PROVE  LifespanCounted'
  OBVIOUS
<1> USE LifespanAssumption DEF LifespanCounted, Services, Pipeline
<1>1. CASE UNCHANGED lifespanVars
  BY <1>1 DEF lifespanVars
<1>2. CASE BusStarts
  BY <1>2 DEF BusStarts
<1>9. CASE CoreStarts \/ ProvidersConnect
  BY <1>9 DEF CoreStarts, ProvidersConnect
<1>3. CASE VenueConnects \/ PortfolioStarts \/ Reconciles
  BY <1>3 DEF VenueConnects, PortfolioStarts, Reconciles, RollsBack
<1>4. CASE BlockedVenue \/ BlockedPortfolio
  BY <1>4 DEF BlockedVenue, BlockedPortfolio, RollsBack
<1>5. CASE PipelineStarts
  BY <1>5 DEF PipelineStarts, RollsBack
<1>6. CASE ScannerStarts \/ OutcomesStart \/ RollbackStep \/ RolledBack
  BY <1>6 DEF ScannerStarts, OutcomesStart, RollbackStep, RolledBack
<1>7. CASE ShutdownBegins \/ ContextCrashes \/ ProvidersChange
  BY <1>7 DEF ShutdownBegins, ContextCrashes, ProvidersChange
<1>8. CASE ShutdownStep
  BY <1>8 DEF ShutdownStep
<1> QED BY <1>1, <1>2, <1>3, <1>4, <1>5, <1>6, <1>7, <1>8, <1>9 DEF LifespanNext

LEMMA LifespanTypes == LifespanInv /\ LifespanCounted => LifespanTypeOK
<1> SUFFICES ASSUME LifespanInv, LifespanCounted
             PROVE  LifespanTypeOK
  OBVIOUS
<1>1. phase \in BeforeStart \cup WithCore \cup {"off", "stopping", "abandoned"}
      /\ stepNo \in Nat /\ servicesUp \subseteq Services /\ taking \subseteq Takers /\ exposed \subseteq Shown
  BY DEF LifespanInv, LifespanKnown
<1>2. Shown \subseteq Services
  BY DEF Shown, Services, Pipeline, Core, Subscribers
<1> QED BY <1>1, <1>2 DEF LifespanCounted, LifespanTypeOK, BeforeStart, WithCore, Takers

(***************************************************************************)
(* The scanner and the context engine: a start makes the generation odd, a *)
(* stop makes it even again, so that a start within the bound is followed  *)
(* by a stop within it.                                                    *)
(***************************************************************************)
ScanCounted ==
  /\ scanGeneration <= 2 * MaxScanStarts
  /\ scanGeneration % 2 = (IF observed.running THEN 1 ELSE 0)
  /\ scanClock <= LastScanTick /\ admits \in {"yes", "no", "raises"}
  /\ observed.attempt <= scanClock /\ observed.success <= scanClock

LEMMA ScanCountedStart == ScanInit => ScanCounted
BY ScanAssumption DEF ScanInit, ScanCounted

LEMMA ScanCountedStep == ScanInv /\ ScanCounted /\ [ScanNext]_scanVars => ScanCounted'
<1> SUFFICES ASSUME ScanInv, ScanCounted, [ScanNext]_scanVars
             PROVE  ScanCounted'
  OBVIOUS
<1>t. ScanTyped /\ TaskFollowed
  BY DEF ScanInv
<1>a. LastScanTick \in Nat /\ MaxScanStarts \in Nat
  BY ScanAssumption
<1>1. CASE StartWorker
  <2>1. ~observed.running
    BY <1>1, <1>t DEF StartWorker, TaskFollowed
  <2>2. observed'.running /\ observed'.attempt = observed.attempt /\ observed'.success = observed.success
        /\ scanGeneration' = scanGeneration + 1 /\ scanGeneration < 2 * MaxScanStarts
        /\ UNCHANGED <<scanClock, admits>>
    BY <1>1, <1>t DEF StartWorker, ScanTyped
  <2>3. (scanGeneration + 1) % 2 = 1 /\ scanGeneration + 1 <= 2 * MaxScanStarts
    BY <1>a, <1>t, <2>1, <2>2 DEF ScanCounted, ScanTyped
  <2> QED BY <2>2, <2>3 DEF ScanCounted
<1>2. CASE StopBegins
  <2>1. observed.running
    BY <1>2, <1>t DEF StopBegins, TaskFollowed
  <2>2. ~observed'.running /\ observed'.attempt = observed.attempt /\ observed'.success = observed.success
        /\ scanGeneration' = scanGeneration + 1 /\ UNCHANGED <<scanClock, admits>>
    BY <1>2, <1>t DEF StopBegins, ScanTyped
  <2>3. (scanGeneration + 1) % 2 = 0 /\ scanGeneration + 1 <= 2 * MaxScanStarts
    BY <1>a, <1>t, <2>1 DEF ScanCounted, ScanTyped
  <2> QED BY <2>2, <2>3 DEF ScanCounted
<1>3. CASE StopEnds
  <2>1. ~observed.running
    BY <1>3, <1>t DEF StopEnds, TaskFollowed
  <2>2. ~observed'.running /\ observed'.attempt = observed.attempt /\ observed'.success = observed.success
        /\ UNCHANGED <<scanGeneration, scanClock, admits>>
    BY <1>3, <1>t DEF StopEnds, ScanTyped
  <2> QED BY <2>1, <2>2 DEF ScanCounted
<1>4. CASE CycleDue \/ CycleEnds
  <2>1. UNCHANGED <<scanGeneration, scanClock, admits>>
    BY <1>4 DEF CycleDue, CycleEnds
  <2>2. /\ observed'.running = observed.running
        /\ observed'.attempt \in {observed.attempt, scanClock}
        /\ observed'.success \in {observed.success, scanClock}
    <3>1. CASE CycleDue
      BY <3>1, <1>t DEF CycleDue, ScanPublished, ScanRefused, ScanFails, ScanTyped
    <3>2. CASE CycleEnds
      BY <3>2, <1>t DEF CycleEnds, ScanPublished, ScanRefused, ScanFails, ScanTyped
    <3> QED BY <1>4, <3>1, <3>2
  <2>3. scanClock \in Nat
    BY <1>t DEF ScanTyped
  <2> QED BY <2>1, <2>2, <2>3 DEF ScanCounted
<1>5. CASE SlotTurns \/ SessionTurns \/ UNCHANGED scanVars
  BY <1>5 DEF SlotTurns, SessionTurns, scanVars, ScanCounted
<1>6. CASE TimePasses
  <2>1. UNCHANGED <<scanGeneration, observed, admits>> /\ scanClock' = scanClock + 1 /\ scanClock < LastScanTick
    BY <1>6 DEF TimePasses
  <2>2. observed.attempt \in Nat /\ observed.success \in Nat /\ scanClock \in Nat
    BY <1>t DEF ScanTyped
  <2> QED BY <1>a, <2>1, <2>2 DEF ScanCounted
<1> QED BY <1>1, <1>2, <1>3, <1>4, <1>5, <1>6 DEF ScanNext

LEMMA ScanTypes == ScanInv /\ ScanCounted => ScanTypeOK
<1> SUFFICES ASSUME ScanInv, ScanCounted
             PROVE  ScanTypeOK
  OBVIOUS
<1>1. ScanTyped /\ LastScanTick \in Nat /\ MaxScanStarts \in Nat
  BY ScanAssumption DEF ScanInv
<1>2. observed.attempt \in 0 .. LastScanTick /\ observed.success \in 0 .. LastScanTick
  BY <1>1 DEF ScanTyped, ScanCounted
<1>3. observed \in [attempt : 0 .. LastScanTick, success : 0 .. LastScanTick, error : BOOLEAN,
                    running : BOOLEAN, cycle : BOOLEAN, engines : {"none", "live", "replay"}]
  BY <1>1, <1>2 DEF ScanTyped
<1> QED BY <1>1, <1>3 DEF ScanTyped, ScanCounted, ScanTypeOK

(* The request of feeds: providers are counted.                            *)
BatchCounted ==
  /\ streamer <= MaxProviders /\ streamed \in SUBSET FeedTickers /\ streaming \in BOOLEAN
  /\ batch.at = "subscribing" => batch.sym \in FeedTickers

LEMMA BatchCountedStart == BatchInit => BatchCounted
<1> SUFFICES ASSUME BatchInit
             PROVE  BatchCounted
  OBVIOUS
<1>1. batch.at = "idle" /\ streamer = 0 /\ streaming = FALSE /\ streamed = {}
  BY DEF BatchInit, IdleBatch
<1>2. MaxProviders \in Nat
  BY FeedRequestAssumption
<1>3. streaming \in BOOLEAN
  BY <1>1
<1>4. streamer <= MaxProviders /\ streamed \in SUBSET FeedTickers
  BY <1>1, <1>2
<1> QED BY <1>1, <1>3, <1>4 DEF BatchCounted

LEMMA BatchCountedStep == BatchInv /\ BatchCounted /\ [BatchNext]_batchVars => BatchCounted'
<1> SUFFICES ASSUME BatchInv, BatchCounted, [BatchNext]_batchVars
             PROVE  BatchCounted'
  OBVIOUS
<1>t. streamer \in Nat /\ MaxProviders \in Nat
      /\ batch \in [at : {"idle", "reading", "read", "asking", "subscribing", "answered"},
                read : SUBSET FeedTickers, todo : SUBSET FeedTickers, of : Nat,
                sym : FeedTickers \cup {"none"}, failed : BOOLEAN, interrupted : BOOLEAN,
                status : {"none", "refused", "interrupted", "partial_failure", "completed"}]
  BY FeedRequestAssumption DEF BatchInv
<1>1. CASE StreamerChanges
  <2>1. UNCHANGED batch
    BY <1>1 DEF StreamerChanges
  <2>2. CASE streamer < MaxProviders /\ streamer' = streamer + 1 /\ streaming' = TRUE /\ streamed' = {}
    BY <1>t, <2>1, <2>2 DEF BatchCounted
  <2>3. CASE streaming' = ~streaming /\ UNCHANGED <<streamer, streamed>>
    BY <1>t, <2>1, <2>3 DEF BatchCounted
  <2> QED BY <1>1, <2>2, <2>3 DEF StreamerChanges
<1>2. CASE FeedReturned
  <2>1. batch'.at = "asking" /\ UNCHANGED <<streamer, streaming>>
    BY <1>2, <1>t DEF FeedReturned
  <2>2. streamed' \subseteq streamed \cup {batch.sym} /\ batch.sym \in FeedTickers
    BY <1>2, <1>t DEF FeedReturned, BatchCounted
  <2> QED BY <2>1, <2>2 DEF BatchCounted
<1>3. ASSUME NEW s \in FeedTickers, FeedsNext(s)
      PROVE  BatchCounted'
  <2>1. batch'.sym = s /\ UNCHANGED <<streamer, streaming, streamed>>
    BY <1>3, <1>t DEF FeedsNext
  <2> QED BY <2>1 DEF BatchCounted
<1>4. CASE AskFeeds \/ FeedsRead \/ FeedsBegin \/ FeedsAnswered
  <2>1. batch'.at # "subscribing" /\ UNCHANGED <<streamer, streaming, streamed>>
    BY <1>4, <1>t DEF AskFeeds, FeedsRead, FeedsBegin, FeedsAnswered
  <2> QED BY <2>1 DEF BatchCounted
<1>5. CASE UNCHANGED batchVars
  BY <1>5 DEF batchVars, BatchCounted
<1> QED BY <1>1, <1>2, <1>3, <1>4, <1>5 DEF BatchNext

LEMMA BatchTypes == BatchInv /\ BatchCounted => BatchTypeOK
<1> SUFFICES ASSUME BatchInv, BatchCounted
             PROVE  BatchTypeOK
  OBVIOUS
<1>1. batch.of \in 0 .. MaxProviders /\ streamer \in 0 .. MaxProviders
  BY FeedRequestAssumption DEF BatchInv, BatchCounted
<1> QED BY <1>1 DEF BatchInv, BatchCounted, BatchTypeOK

EpochOf(task) == task.epoch <= contextEpoch

(* The context engine: starts, crashes and removals are counted.           *)
ContextCounted ==
  /\ contextEpoch <= 2 * MaxContextStarts
  /\ contextEpoch % 2 = (IF contextOn THEN 1 ELSE 0)
  /\ EpochOf(bootstrap) /\ \A a \in Adders : EpochOf(adder[a].task)

LEMMA ContextCountedStart == ContextInit => ContextCounted
BY ContextAssumption DEF ContextInit, ContextCounted, EpochOf, IdleTask

(* A task is of the present generation or keeps the one it has.            *)
LEMMA EpochsKeep ==
  ASSUME ContextInv, ContextCounted, contextEpoch' \in Nat, contextEpoch' >= contextEpoch,
         bootstrap'.epoch \in {bootstrap.epoch, contextEpoch', 0},
         \A a \in Adders : adder'[a].task.epoch \in {adder[a].task.epoch, contextEpoch', 0}
  PROVE  EpochOf(bootstrap)' /\ \A a \in Adders : EpochOf(adder[a].task)'
<1>1. bootstrap.epoch \in Nat /\ contextEpoch \in Nat /\ \A a \in Adders : adder[a].task.epoch \in Nat
  BY DEF ContextInv, ContextTyped, ContextTasks
<1> QED BY <1>1 DEF ContextCounted, EpochOf

LEMMA AdderEpoch ==
  ASSUME ContextInv, NEW a \in Adders, RefreshReads(a) \/ RefreshFails(a) \/ RefreshTracks(a)
  PROVE  \A b \in Adders : adder'[b].task.epoch = adder[b].task.epoch
<1>1. adder \in [Adders -> [task : ContextTasks, sym : Listable \cup {"none"}]]
  BY DEF ContextInv, ContextTyped
<1> QED BY <1>1 DEF RefreshReads, RefreshFails, RefreshTracks, ContextTasks

LEMMA ContextCountedStep == ContextInv /\ ContextCounted /\ [ContextNext]_contextVars => ContextCounted'
<1> SUFFICES ASSUME ContextInv, ContextCounted, [ContextNext]_contextVars
             PROVE  ContextCounted'
  OBVIOUS
<1>t. ContextTyped /\ contextEpoch \in Nat /\ contextOn \in BOOLEAN
  BY DEF ContextInv, ContextTyped
<1>a. MaxContextStarts \in Nat
  BY ContextAssumption
<1>s. ASSUME UNCHANGED <<contextOn, contextEpoch>>,
             bootstrap'.epoch \in {bootstrap.epoch, contextEpoch', 0},
             \A a \in Adders : adder'[a].task.epoch \in {adder[a].task.epoch, contextEpoch', 0}
      PROVE  ContextCounted'
  BY <1>s, <1>t, EpochsKeep DEF ContextCounted
<1>1. CASE StartContext
  <2>1. bootstrap'.epoch = contextEpoch' /\ UNCHANGED adder
    BY <1>1 DEF StartContext, IdleTask
  <2>2. /\ ~contextOn /\ contextOn' /\ contextEpoch' = contextEpoch + 1 /\ contextEpoch < 2 * MaxContextStarts
    BY <1>1 DEF StartContext
  <2>3. (contextEpoch + 1) % 2 = 1 /\ contextEpoch + 1 <= 2 * MaxContextStarts
    BY <1>a, <1>t, <2>2 DEF ContextCounted
  <2>4. EpochOf(bootstrap)' /\ \A a \in Adders : EpochOf(adder[a].task)'
    BY <1>t, <2>1, <2>2, EpochsKeep
  <2> QED BY <2>2, <2>3, <2>4 DEF ContextCounted
<1>2. CASE StopContext
  <2>1. UNCHANGED <<bootstrap, adder>>
    BY <1>2 DEF StopContext
  <2>2. contextOn /\ ~contextOn' /\ contextEpoch' = contextEpoch + 1
    BY <1>2 DEF StopContext
  <2>3. (contextEpoch + 1) % 2 = 0 /\ contextEpoch + 1 <= 2 * MaxContextStarts
    BY <1>a, <1>t, <2>2 DEF ContextCounted
  <2>4. EpochOf(bootstrap)' /\ \A a \in Adders : EpochOf(adder[a].task)'
    BY <1>t, <2>1, <2>2, EpochsKeep
  <2> QED BY <2>2, <2>3, <2>4 DEF ContextCounted
<1>3. CASE GlobalStopped \/ LoopsStopped \/ LoopCrashes \/ UNCHANGED contextVars \/ \E s \in Listable : RemoveSymbol(s)
  <2>1. UNCHANGED <<contextOn, contextEpoch, bootstrap, adder>>
    BY <1>3 DEF GlobalStopped, LoopsStopped, LoopCrashes, contextVars, RemoveSymbol
  <2> QED BY <1>s, <2>1
<1>4. CASE BootstrapStopped \/ BootstrapReads \/ BootstrapTracks
  <2>1. UNCHANGED <<contextOn, contextEpoch, adder>>
    BY <1>4 DEF BootstrapStopped, BootstrapReads, BootstrapTracks
  <2>2. bootstrap'.epoch \in {bootstrap.epoch, 0}
    <3>0. bootstrap \in ContextTasks
      BY <1>t DEF ContextTyped
    <3>1. CASE BootstrapStopped
      BY <3>1 DEF BootstrapStopped, IdleTask
    <3>2. CASE BootstrapReads
      BY <3>0, <3>2 DEF BootstrapReads, ContextTasks
    <3>3. CASE BootstrapTracks
      BY <3>0, <3>3 DEF BootstrapTracks, ContextTasks
    <3> QED BY <1>4, <3>1, <3>2, <3>3
  <2> QED BY <1>s, <2>1, <2>2
<1>5. CASE RefreshesStopped
  <2>1. UNCHANGED <<contextOn, contextEpoch, bootstrap>>
    BY <1>5 DEF RefreshesStopped
  <2>2. \A a \in Adders : adder'[a].task.epoch = adder[a].task.epoch
    BY <1>5, <1>t DEF RefreshesStopped, ContextTyped, ContextTasks
  <2> QED BY <1>s, <2>1, <2>2
<1>6. ASSUME NEW a \in Adders, RefreshReads(a) \/ RefreshFails(a) \/ RefreshTracks(a)
      PROVE  ContextCounted'
  <2>1. UNCHANGED <<contextOn, contextEpoch, bootstrap>>
    BY <1>6 DEF RefreshReads, RefreshFails, RefreshTracks
  <2> QED BY <1>s, <1>6, <2>1, AdderEpoch
<1>7. ASSUME NEW a \in Adders, NEW s \in Listable, AddSymbol(a, s)
      PROVE  ContextCounted'
  <2>1. UNCHANGED <<contextOn, contextEpoch, bootstrap>>
    BY <1>7 DEF AddSymbol
  <2>2. \A b \in Adders : adder'[b].task.epoch \in {adder[b].task.epoch, contextEpoch, 0}
    BY <1>7, <1>t DEF AddSymbol, IdleTask, ContextTyped, ContextTasks
  <2> QED BY <1>s, <2>1, <2>2
<1> QED BY <1>1, <1>2, <1>3, <1>4, <1>5, <1>6, <1>7 DEF ContextNext

LEMMA ContextTypes == ContextInv /\ ContextCounted => ContextTypeOK
<1> SUFFICES ASSUME ContextInv, ContextCounted
             PROVE  ContextTypeOK
  OBVIOUS
<1> DEFINE Tasks == [at : {"none", "reading", "read", "ended", "crashed"},
                     epoch : 0 .. 2 * MaxContextStarts, read : SUBSET Listable]
<1>1. ContextTyped /\ contextEpoch \in Nat /\ MaxContextStarts \in Nat
  BY ContextAssumption DEF ContextInv, ContextTyped
<1>2. ASSUME NEW task \in ContextTasks, EpochOf(task)
      PROVE  task \in Tasks
  BY <1>1, <1>2 DEF ContextTasks, EpochOf, ContextCounted
<1>3. bootstrap \in Tasks
  BY <1>1, <1>2 DEF ContextTyped, ContextCounted
<1>4. adder \in [Adders -> [task : Tasks, sym : Listable \cup {"none"}]]
  <2>1. ASSUME NEW a \in Adders
        PROVE  adder[a] \in [task : Tasks, sym : Listable \cup {"none"}]
    <3>1. adder[a] \in [task : ContextTasks, sym : Listable \cup {"none"}] /\ EpochOf(adder[a].task)
      BY <1>1 DEF ContextTyped, ContextCounted
    <3>2. adder[a].task \in Tasks
      BY <1>2, <3>1
    <3> HIDE DEF Tasks
    <3> QED BY <3>1, <3>2
  <2> HIDE DEF Tasks
  <2> QED BY <1>1, <2>1 DEF ContextTyped
<1> QED BY <1>1, <1>3, <1>4 DEF ContextTyped, ContextTypeOK

(* The polling feed: the source's clock and bars stay within their bounds. *)
PollingCounted ==
  /\ polling.since <= LastBar /\ \A s \in Tickers : barNow[s] <= LastBar
  /\ reading \in {"none", "limit", "fetch"} /\ limiterLock \in Callers \cup {"nobody"}

LEMMA PollingCountedStart == PollingInit => PollingCounted
<1> SUFFICES ASSUME PollingInit
             PROVE  PollingCounted
  OBVIOUS
<1>1. polling.since = 0 /\ \A s \in Tickers : barNow[s] = 0
  BY DEF PollingInit, PollingOff
<1> QED BY <1>1, PollingAssumption DEF PollingInit, PollingCounted

LEMMA PollingCountedStep == PollingInv /\ PollingCounted /\ [PollingNext]_pollingVars => PollingCounted'
<1> SUFFICES ASSUME PollingInv, PollingCounted, [PollingNext]_pollingVars
             PROVE  PollingCounted'
  OBVIOUS
<1>t. /\ polling \in PollRecords /\ barNow \in [Tickers -> Nat] /\ RoundKnown
      /\ LastBar \in Nat
  BY PollingAssumption DEF PollingInv, TicksInv, TicksTyped
<1>u. {"poll", "read"} = Callers
  BY DEF Callers
<1>1. CASE RoundBegins \/ PollAnswered \/ PollFails
  <2>1. polling'.since = polling.since
    <3>1. PICK at, left : polling' = [polling EXCEPT !.at = at, !.left = left]
      <4>1. CASE RoundBegins
        BY <4>1, Zenon DEF RoundBegins, PollTurns
      <4>2. CASE PollGoesOn
        BY <4>2, Zenon DEF PollGoesOn, PollTurns
      <4>3. CASE PollEnds
        BY <4>3, Zenon DEF PollEnds, PollTurns
      <4> QED BY <1>1, <4>1, <4>2, <4>3 DEF PollAnswered, TickMade, TickRaises, PollFails
    <3> QED BY <1>t, <3>1 DEF PollRecords
  <2>2. UNCHANGED <<reading, limiterLock, barNow>>
    BY <1>1 DEF RoundBegins, PollAnswered, PollFails, Limiter, SourceStands
  <2> QED BY <2>1, <2>2 DEF PollingCounted
<1>2. CASE PollAcquires
  <2>1. UNCHANGED <<reading, barNow>> /\ limiterLock' \in {"poll", "nobody"} /\ polling.at = "limit"
    BY <1>2 DEF PollAcquires, Acquired, SleepsInAcquire, SourceStands
  <2>2. PICK s \in Tickers : s = Head(polling.left)
    <3>1. polling.left \in Seq(Tickers) /\ polling.left # <<>>
      BY <1>t, <2>1 DEF PollRecords, RoundKnown
    <3> QED BY <3>1
  <2>3. polling'.since \in {polling.since, barNow[s]}
    BY <1>2, <1>t, <2>2 DEF PollAcquires, PollRecords
  <2> QED BY <1>u, <2>1, <2>3 DEF PollingCounted
<1>3. CASE ConnectPolling \/ DisconnectPolling
  <2>1. UNCHANGED <<reading, barNow>>
    BY <1>3 DEF ConnectPolling, DisconnectPolling, SourceStands
  <2>2. limiterLock' \in {limiterLock, "nobody"}
    BY <1>3 DEF ConnectPolling, DisconnectPolling, PollCancelled, Limiter
  <2>3. polling' = PollingOff \/ polling' = [PollingOff EXCEPT !.on = TRUE, !.at = "pause"]
    BY <1>3 DEF ConnectPolling, DisconnectPolling, PollCancelled
  <2>4. polling'.since = 0
    <3>1. CASE polling' = PollingOff
      BY <3>1 DEF PollingOff
    <3>2. CASE polling' = [PollingOff EXCEPT !.on = TRUE, !.at = "pause"]
      <4>1. polling' = [on |-> TRUE, at |-> "pause", left |-> <<>>, since |-> 0]
        BY <3>2 DEF PollingOff
      <4> QED BY <4>1
    <3> QED BY <2>3, <3>1, <3>2
  <2> QED BY <1>t, <2>1, <2>2, <2>4 DEF PollingCounted
<1>4. CASE ReadHistory \/ ReadAcquires \/ ReadReturns
  <2>1. UNCHANGED <<polling, barNow>> /\ limiterLock' \in {limiterLock, "read", "nobody"}
        /\ reading' \in {"none", "limit", "fetch"}
    BY <1>4 DEF ReadHistory, ReadAcquires, ReadReturns, Acquired, SleepsInAcquire, Limiter, SourceStands
  <2> QED BY <1>u, <2>1 DEF PollingCounted
<1>5. CASE UNCHANGED pollingVars \/ \E s \in Tickers : SubscribePolling(s) \/ UnsubscribePolling(s)
  <2>1. UNCHANGED <<polling, reading, limiterLock, barNow>>
    BY <1>5 DEF pollingVars, SubscribePolling, UnsubscribePolling, Limiter, SourceStands
  <2> QED BY <2>1 DEF PollingCounted
<1>6. CASE SourceMoves
  <2>1. UNCHANGED <<polling, reading, limiterLock>>
    BY <1>6 DEF SourceMoves, Limiter
  <2>2. PICK new \in SUBSET {s \in Tickers : barNow[s] < LastBar} :
          barNow' = [s \in Tickers |-> IF s \in new THEN barNow[s] + 1 ELSE barNow[s]]
    BY <1>6 DEF SourceMoves
  <2>3. \A s \in Tickers : barNow'[s] <= LastBar
    BY <1>t, <2>2 DEF PollingCounted
  <2> QED BY <2>1, <2>3 DEF PollingCounted
<1> QED BY <1>1, <1>2, <1>3, <1>4, <1>5, <1>6 DEF PollingNext

LEMMA PollingTypes == PollingInv /\ PollingCounted => PollingTypeOK
<1> SUFFICES ASSUME PollingInv, PollingCounted
             PROVE  PollingTypeOK
  OBVIOUS
<1>1. /\ polling \in PollRecords /\ watched \subseteq Tickers /\ LastBar \in Nat
      /\ seenBar \in [Tickers -> Nat] /\ barNow \in [Tickers -> Nat] /\ unticked \subseteq Tickers
      /\ \A s \in Tickers : seenBar[s] <= barNow[s]
  BY PollingAssumption DEF PollingInv, TicksInv, TicksTyped
<1>2. \A s \in Tickers : seenBar[s] \in 0 .. LastBar
  BY <1>1 DEF PollingCounted
<1>3. polling.since \in 0 .. LastBar
  BY <1>1 DEF PollingCounted, PollRecords
<1> QED BY <1>1, <1>2, <1>3 DEF PollingCounted, PollingTypeOK, PollRecords

(* The lock of Finnhub's routes is held by a call of theirs.               *)
RolesCounted ==
  /\ Len(kinds) <= MaxAdapters
  /\ ownerLock # NoOne => ownerLock \in RouteCalls /\ FinnhubCall(ownerLock)

LEMMA RolesCountedStart == RolesInit => RolesCounted
BY RolesAssumption DEF RolesInit, RolesCounted

LEMMA LockStands ==
  ASSUME RolesCounted, NEW c \in RouteCalls, UNCHANGED <<kinds, ownerLock>>,
         \A d \in RouteCalls : d # c => routeCall'[d] = routeCall[d],
         FinnhubCall(c) => FinnhubCall(c)'
  PROVE  RolesCounted'
BY DEF RolesCounted, FinnhubCall

LEMMA LockGiven ==
  ASSUME RolesCounted, NEW c \in RouteCalls, UNCHANGED kinds, Unlocked(c),
         \A d \in RouteCalls : d # c => routeCall'[d] = routeCall[d]
  PROVE  RolesCounted'
BY DEF RolesCounted, FinnhubCall, Unlocked

LEMMA RolesCountedStep == RolesInv /\ RolesCounted /\ [RolesNext]_rolesVars => RolesCounted'
<1> SUFFICES ASSUME RolesInv, RolesCounted, [RolesNext]_rolesVars
             PROVE  RolesCounted'
  OBVIOUS
<1>t. kinds \in Seq(Kinds) /\ routeCall \in [RouteCalls -> RouteRecords] /\ MaxAdapters \in Nat
  BY RolesAssumption DEF RolesInv, RolesTyped
<1>b. ASSUME NEW c \in RouteCalls, NEW r, Becomes(c, r)
      PROVE  /\ routeCall'[c] = r
             /\ \A d \in RouteCalls : d # c => routeCall'[d] = routeCall[d]
  BY <1>b, <1>t DEF Becomes
<1>m. ASSUME NEW kind, kind \in Kinds, Makes(kind)
      PROVE  Len(kinds') <= MaxAdapters
  BY <1>m, <1>t DEF Makes
<1>1. ASSUME NEW c \in RouteCalls, ConnectPolygon(c)
      PROVE  RolesCounted'
  <2>1. UNCHANGED ownerLock /\ Len(kinds') <= MaxAdapters /\ ~FinnhubCall(c)
    BY <1>1, <1>m DEF ConnectPolygon, Called, FinnhubCall, Kinds
  <2>2. \A d \in RouteCalls : d # c => routeCall'[d] = routeCall[d]
    BY <1>1, <1>b DEF ConnectPolygon
  <2> QED BY <2>1, <2>2 DEF RolesCounted, FinnhubCall
<1>2. ASSUME NEW c \in RouteCalls, ConnectFinnhub(c)
      PROVE  RolesCounted'
  <2>1. ownerLock' = c /\ Len(kinds') <= MaxAdapters
    BY <1>2, <1>m DEF ConnectFinnhub, Kinds
  <2>2. routeCall'[c].op = "connect_finnhub"
    BY <1>2, <1>b DEF ConnectFinnhub
  <2> QED BY <2>1, <2>2 DEF RolesCounted, FinnhubCall
<1>3. ASSUME NEW c \in RouteCalls, ConnectIBKR(c)
      PROVE  RolesCounted'
  <2>1. UNCHANGED ownerLock /\ Len(kinds') <= MaxAdapters /\ ~FinnhubCall(c)
    BY <1>3, <1>m DEF ConnectIBKR, Called, FinnhubCall, Kinds
  <2>2. \A d \in RouteCalls : d # c => routeCall'[d] = routeCall[d]
    BY <1>3, <1>b DEF ConnectIBKR
  <2> QED BY <2>1, <2>2 DEF RolesCounted, FinnhubCall
<1>4. ASSUME NEW c \in RouteCalls, DisconnectFinnhub(c)
      PROVE  RolesCounted'
  <2>1. ownerLock' = c /\ UNCHANGED kinds
    BY <1>4 DEF DisconnectFinnhub
  <2>2. routeCall'[c].op = "disconnect_finnhub"
    BY <1>4, <1>b DEF DisconnectFinnhub
  <2> QED BY <2>1, <2>2 DEF RolesCounted, FinnhubCall
<1>5. ASSUME NEW c \in RouteCalls, DisconnectPolygon(c) \/ DisconnectBroker(c)
      PROVE  RolesCounted'
  <2>1. UNCHANGED <<kinds, ownerLock>> /\ ~FinnhubCall(c)
    BY <1>5 DEF DisconnectPolygon, DisconnectBroker, Called, FinnhubCall
  <2>2. \A d \in RouteCalls : d # c => routeCall'[d] = routeCall[d]
    BY <1>5, <1>b DEF DisconnectPolygon, DisconnectBroker
  <2> QED BY <2>1, <2>2, LockStands
<1>6. ASSUME NEW c \in RouteCalls, AdapterRefused(c) \/ Installs(c) \/ CleanedUp(c) \/ Left(c)
      PROVE  RolesCounted'
  <2>1. UNCHANGED kinds /\ Unlocked(c) /\ Becomes(c, NoCall)
    BY <1>6 DEF AdapterRefused, Installs, CleanedUp, Left, Returns
  <2> QED BY <1>b, <2>1, LockGiven
<1>7. ASSUME NEW c \in RouteCalls, AdapterConnected(c) \/ OldDisconnected(c) \/ TakeOverFails(c)
      PROVE  RolesCounted'
  <2>1. UNCHANGED <<kinds, ownerLock>>
    BY <1>7 DEF AdapterConnected, OldDisconnected, TakeOverFails
  <2>2. PICK r : Becomes(c, r) /\ r.op = routeCall[c].op
    <3>1. CASE AdapterConnected(c)
      BY <3>1 DEF AdapterConnected, TakeOver
    <3>2. CASE OldDisconnected(c) \/ TakeOverFails(c)
      BY <3>2, <1>t DEF OldDisconnected, TakeOverFails, Turns, RouteRecords
    <3> QED BY <1>7, <3>1, <3>2
  <2>3. FinnhubCall(c) => FinnhubCall(c)'
    BY <1>b, <2>2 DEF FinnhubCall
  <2> QED BY <1>b, <2>1, <2>2, <2>3, LockStands
<1>8. CASE ConnectionLost \/ UNCHANGED rolesVars
  BY <1>8 DEF ConnectionLost, rolesVars, RolesCounted, FinnhubCall
<1> QED BY <1>1, <1>2, <1>3, <1>4, <1>5, <1>6, <1>7, <1>8 DEF RolesNext

LEMMA RolesTypes == RolesInv /\ RolesCounted => RolesTypeOK
<1> SUFFICES ASSUME RolesInv, RolesCounted
             PROVE  RolesTypeOK
  OBVIOUS
<1>1. /\ kinds \in Seq(Kinds) /\ up \subseteq 1 .. Len(kinds)
      /\ {polygon, finnhub, streamingRole, historical} \subseteq 0 .. Len(kinds)
  BY DEF RolesInv, RolesTyped
<1>2. 0 .. Len(kinds) \subseteq Roles
  BY <1>1, RolesAssumption DEF RolesCounted, Roles, Adapters, NoOne
<1>3. AtRest => ownerLock = NoOne
  BY DEF RolesCounted, FinnhubCall, AtRest
<1> QED BY <1>1, <1>2, <1>3 DEF RolesTypeOK

(***************************************************************************)
(* Fundamentals: nothing is filed beyond what the company earns, and a     *)
(* derived figure is one number or none.                                   *)
(***************************************************************************)
Columns == Jobs \cup {"earnings", "financials"}

FundamentalsCounted ==
  /\ earned \in Earnings /\ filed <= Len(earned)
  /\ fundamentals.checked \subseteq Columns
  /\ \A m \in Metrics : Len(fundamentals.figures[m]) <= 1

LEMMA FundamentalsCountedStart == FundamentalsInit => FundamentalsCounted
<1> SUFFICES ASSUME FundamentalsInit
             PROVE  FundamentalsCounted
  OBVIOUS
<1>1. earned \in Earnings /\ firstReport \in DOMAIN earned /\ earned \in Seq(Int) /\ filed = firstReport - 1
  BY FundamentalsAssumption DEF FundamentalsInit
<1>2. filed <= Len(earned)
  BY <1>1
<1>3. fundamentals.checked = {} /\ \A m \in Metrics : fundamentals.figures[m] = <<>>
  BY DEF FundamentalsInit, NoRow
<1> QED BY <1>1, <1>2, <1>3 DEF FundamentalsCounted

LEMMA FigureIsOne ==
  ASSUME NEW n, NEW k, NEW m \in Metrics
  PROVE  Len(DeriveTTM(n, k)[m]) <= 1
<1>1. DeriveTTM(n, k)[m] = DeriveMetric(n, k, m)
  BY DEF DeriveTTM
<1>2. DeriveMetric(n, k, m) = <<>>
      \/ DeriveMetric(n, k, m) = <<FoldSeq(LAMBDA q, sum : q + sum, 0, Collected(n, k, m))>>
  BY DEF DeriveMetric
<1>3. CASE DeriveMetric(n, k, m) = <<>>
  BY <1>1, <1>3
<1>4. ASSUME NEW x, DeriveMetric(n, k, m) = <<x>>
      PROVE  Len(DeriveMetric(n, k, m)) = 1
  BY <1>4
<1>5. CASE \E x : DeriveMetric(n, k, m) = <<x>>
  BY <1>1, <1>4, <1>5
<1> QED BY <1>2, <1>3, <1>5

LEMMA FundamentalsCountedStep ==
  FundamentalsInv /\ FundamentalsCounted /\ [FundamentalsNext]_fundamentalsVars => FundamentalsCounted'
<1> SUFFICES ASSUME FundamentalsInv, FundamentalsCounted, [FundamentalsNext]_fundamentalsVars
             PROVE  FundamentalsCounted'
  OBVIOUS
<1>r. /\ fundamentals = [checked |-> fundamentals.checked, period |-> fundamentals.period,
                         figures |-> fundamentals.figures]
      /\ filed \in Nat
  BY DEF FundamentalsInv, FiguresKnown
<1>c. ASSUME NEW j \in Columns, fundamentals' = Checked(j)
      PROVE  fundamentals'.checked \subseteq Columns /\ fundamentals'.figures = fundamentals.figures
  BY <1>c, <1>r DEF Checked, FundamentalsCounted
<1>1. CASE UNCHANGED <<earned, filed, fundamentals>>
  BY <1>1 DEF FundamentalsCounted
<1>2. CASE UNCHANGED fundamentalsVars \/ StartJobs \/ StopJobs \/ CrashJobs \/ \E j \in Jobs : BatchBegins(j)
  BY <1>1, <1>2 DEF fundamentalsVars, StartJobs, StopJobs, CrashJobs, BatchBegins, company
<1>3. CASE QuarterFiled
  <2>1. earned \in Seq(Int) /\ UNCHANGED <<earned, fundamentals>> /\ filed < Len(earned) /\ filed' = filed + 1
    BY <1>3, FundamentalsAssumption DEF QuarterFiled, company, FundamentalsCounted
  <2>2. Len(earned) \in Nat /\ filed' <= Len(earned)
    BY <1>r, <2>1
  <2> QED BY <2>1, <2>2 DEF FundamentalsCounted
<1>4. ASSUME NEW j \in SimpleJobs, RefreshSimple(j)
      PROVE  FundamentalsCounted'
  <2>1. UNCHANGED <<earned, filed>> /\ (fundamentals' = Checked(j) \/ UNCHANGED fundamentals)
    BY <1>4 DEF RefreshSimple, Refused, company
  <2>2. j \in Columns
    BY DEF Columns, Jobs
  <2> QED BY <1>1, <1>c, <2>1, <2>2 DEF FundamentalsCounted
<1>5. CASE RefreshEarnings
  <2>1. UNCHANGED <<earned, filed>> /\ (fundamentals' = Checked("earnings") \/ UNCHANGED fundamentals)
    BY <1>5 DEF RefreshEarnings, Refused, company
  <2> QED BY <1>1, <1>c, <2>1 DEF FundamentalsCounted, Columns
<1>6. CASE AskQuarterly
  <2>1. UNCHANGED <<earned, filed, fundamentals>>
    BY <1>6 DEF AskQuarterly, Refused, company
  <2> QED BY <1>1, <2>1
<1>7. CASE RefreshFinancials
  <2>1. UNCHANGED <<earned, filed>>
    BY <1>7 DEF RefreshFinancials, company
  <2>2. CASE fundamentals' = Checked("financials") \/ UNCHANGED fundamentals
    BY <1>1, <1>c, <2>1, <2>2 DEF FundamentalsCounted, Columns
  <2>3. ASSUME NEW n, NEW p,
               fundamentals' = [Checked("financials") EXCEPT !.period = p, !.figures = DeriveTTM(n, filed)]
        PROVE  FundamentalsCounted'
    <3>1. fundamentals'.checked = fundamentals.checked \cup {"financials"}
          /\ fundamentals'.figures = DeriveTTM(n, filed)
      BY <1>r, <2>3 DEF Checked
    <3>2. \A m \in Metrics : Len(fundamentals'.figures[m]) <= 1
      BY <3>1, FigureIsOne
    <3> QED BY <2>1, <3>1, <3>2 DEF FundamentalsCounted, Columns
  <2>4. \/ fundamentals' = Checked("financials") \/ UNCHANGED fundamentals
        \/ \E n, p : fundamentals' = [Checked("financials") EXCEPT !.period = p, !.figures = DeriveTTM(n, filed)]
    BY <1>7 DEF RefreshFinancials, Refused
  <2> QED BY <2>2, <2>3, <2>4
<1> QED BY <1>2, <1>3, <1>4, <1>5, <1>6, <1>7 DEF FundamentalsNext

LEMMA FundamentalsTypes == FundamentalsInv /\ FundamentalsCounted => FundamentalsTypeOK
<1> SUFFICES ASSUME FundamentalsInv, FundamentalsCounted
             PROVE  FundamentalsTypeOK
  OBVIOUS
<1>1. firstReport \in Nat \ {0} /\ filed \in Nat /\ fundamentals.period \in Nat
      /\ fundamentals.period <= PeriodOf(filed)
  BY DEF FundamentalsInv, FiguresKnown
<1>2. PeriodOf(filed) \in Nat /\ PeriodOf(filed) <= filed
  BY <1>1, PeriodIs
<1>3. earned \in Seq(Int) /\ filed <= Len(earned)
  BY FundamentalsAssumption DEF FundamentalsCounted
<1>4. Len(earned) \in Nat
  BY <1>3
<1> QED BY <1>1, <1>2, <1>3, <1>4 DEF FundamentalsTypeOK, FundamentalsCounted, Columns

(***************************************************************************)
(* The feed: only symbols of the ledger and of calls are asked for, by     *)
(* calls within the bound.                                                 *)
(***************************************************************************)
FeedCounted ==
  /\ asked <= MaxRequests
  /\ supervisor \in {"off", "listening", "retrying", "reopened", "restoring", "resumed"}
  /\ cycle \in {"reading", "looking", "asking", "cooling", "waiting", "stopped"}
  /\ desired \subseteq FeedSymbols /\ local \subseteq FeedSymbols /\ served \subseteq FeedSymbols
  /\ restore \subseteq FeedSymbols /\ protected \subseteq FeedSymbols
  /\ seen \subseteq FeedSymbols /\ ask \subseteq FeedSymbols
  /\ \A r \in requests : r.sym \in FeedSymbols

LEMMA FeedCountedStart == FeedInit => FeedCounted
BY ProtectedFeedAssumption DEF FeedInit, FeedCounted

LEMMA CycleTurns ==
  ASSUME NEW o, EndCycle(o)
  PROVE  cycle' \in {"cooling", "waiting"}
BY DEF EndCycle

LEMMA FeedCountedStep == FeedInv /\ FeedCounted /\ [FeedNext]_feedVars => FeedCounted'
<1> SUFFICES ASSUME FeedInv, FeedCounted, [FeedNext]_feedVars
             PROVE  FeedCounted'
  OBVIOUS
<1> USE DEF FeedCounted
<1>b. asked \in Nat /\ MaxRequests \in Nat
  BY ProtectedFeedAssumption DEF FeedInv, CallsKnown
<1>1. CASE UNCHANGED feedVars
  BY <1>1 DEF feedVars
<1>2. CASE ConnectFeed \/ ReopenSocket \/ DisconnectFeed \/ SocketDies \/ LoseSocket
  <2>1. UNCHANGED <<requests, asked, protected, cycle, seen, ask>>
    BY <1>2 DEF ConnectFeed, ReopenSocket, DisconnectFeed, SocketDies, LoseSocket, taskVars, ownerVars, cycleVars
  <2>2. /\ supervisor' \in {supervisor, "listening", "reopened", "off", "retrying"}
        /\ desired' \in {desired, {}} /\ local' \in {local, {}} /\ served' \in {served, {}}
        /\ restore' \in {restore, {}}
    BY <1>2 DEF ConnectFeed, ReopenSocket, DisconnectFeed, SocketDies, LoseSocket, OpenSocket, taskVars
  <2> QED BY <2>1, <2>2
<1>3. CASE BeginRestore \/ Restored
  <2>1. UNCHANGED <<requests, asked, protected, cycle, seen, ask, desired, local, served>>
    BY <1>3 DEF BeginRestore, Restored, ownerVars, cycleVars
  <2>2. supervisor' \in {"restoring", "resumed"} /\ restore' \in {restore, desired}
    BY <1>3 DEF BeginRestore, Restored, ToRestore
  <2> QED BY <2>1, <2>2
<1>4. CASE RestoreOne
  <2>1. UNCHANGED <<requests, asked, protected, cycle, seen, ask, desired, local, supervisor>>
    BY <1>4 DEF RestoreOne, ownerVars, cycleVars
  <2>2. PICK s \in restore : restore' = restore \ {s} /\ served' \in {served, served \cup {s}}
    BY <1>4 DEF RestoreOne, Issue
  <2> QED BY <2>1, <2>2
<1>5. CASE RestoreReturned
  <2>1. UNCHANGED <<requests, asked, protected, cycle, seen, ask, desired, served, supervisor, restore>>
        /\ local' = local \cup {sent.sym} /\ supervisor = "restoring" /\ sent # NoFrame
    BY <1>5 DEF RestoreReturned, ownerVars, cycleVars
  <2>2. sent.sym \in served
    BY <2>1 DEF FeedInv, SenderKnown
  <2> QED BY <2>1, <2>2
<1>6. CASE AskRoute
  <2>1. /\ UNCHANGED <<protected, cycle, seen, ask, local, served, supervisor, restore>>
        /\ asked < MaxRequests /\ asked' = asked + 1
    BY <1>6 DEF AskRoute, ownerVars, cycleVars
  <2>2. PICK s \in FeedSymbols, op \in {"subscribe", "unsubscribe"} :
          desired' \in {desired, desired \ {s}} /\ requests' = requests \cup {Call(asked + 1, op, s)}
    BY <1>6 DEF AskRoute
  <2>3. \A r \in requests' : r.sym \in FeedSymbols
    BY <2>2 DEF Call
  <2> QED BY <1>b, <2>1, <2>2, <2>3
<1>7. ASSUME NEW r \in requests, StartRequest(r)
      PROVE  FeedCounted'
  <2>1. UNCHANGED <<asked, protected, cycle, seen, ask, local, supervisor, restore>> /\ requests' \subseteq requests
    BY <1>7 DEF StartRequest, ownerVars
  <2>2. desired' \subseteq desired \cup {r.sym} /\ served' \subseteq served \cup {r.sym}
    BY <1>7 DEF StartRequest
  <2> QED BY <2>1, <2>2
<1>8. ASSUME NEW r \in requests, RequestReturned(r)
      PROVE  FeedCounted'
  <2>1. UNCHANGED <<asked, protected, cycle, seen, ask, desired, served, supervisor, restore>>
        /\ requests' \subseteq requests /\ local' \subseteq local \cup {r.sym}
    BY <1>8 DEF RequestReturned, ownerVars
  <2> QED BY <2>1
<1>9. CASE Commit \/ AnnounceNews \/ ChangeOwner
  <2>1. UNCHANGED <<asked, requests, cycle, seen, ask, desired, local, served, supervisor, restore>>
        /\ protected' \subseteq protected \cup FeedSymbols
    BY <1>9 DEF Commit, AnnounceNews, ChangeOwner, ProviderStill, taskVars, cycleVars
  <2> QED BY <2>1
<1>10. CASE Read \/ Look \/ CooledDown \/ BeginCycle
  <2>1. UNCHANGED <<asked, requests, desired, local, served, supervisor, restore, protected>>
    BY <1>10 DEF Read, Look, CooledDown, BeginCycle, ProviderStill, taskVars, ownerVars
  <2>2. seen' \in {seen, protected} /\ ask' \in {ask, seen \ local}
    BY <1>10 DEF Read, Look, CooledDown, BeginCycle, Missing
  <2>3. cycle' \in {"reading", "looking", "asking", "cooling", "waiting"}
    BY <1>10, CycleTurns DEF Read, Look, CooledDown, BeginCycle
  <2> QED BY <2>1, <2>2, <2>3
<1>11. CASE AskNext
  <2>1. UNCHANGED <<asked, desired, local, served, supervisor, restore, protected, seen>> /\ cycle = "asking"
    BY <1>11 DEF AskNext, ProviderStill, ownerVars
  <2>2. CASE ask # {} /\ owner /\ connected
    <3>1. PICK s \in ask : ask' = ask \ {s} /\ requests' = requests \cup {Call(FeedCall, "subscribe", s)}
                           /\ UNCHANGED cycle
      BY <1>11, <2>2 DEF AskNext
    <3>2. \A r \in requests' : r.sym \in FeedSymbols
      BY <3>1 DEF Call
    <3> QED BY <2>1, <3>1, <3>2
  <2>3. CASE ~(ask # {} /\ owner /\ connected)
    <3>1. ask' = {} /\ UNCHANGED requests /\ cycle' \in {"cooling", "waiting"}
      BY <1>11, <2>3, CycleTurns DEF AskNext
    <3> QED BY <2>1, <3>1
  <2> QED BY <2>2, <2>3
<1>12. CASE StopReconciler
  <2>1. UNCHANGED <<asked, desired, local, served, supervisor, restore, protected, seen>>
        /\ cycle' = "stopped" /\ ask' = {} /\ requests' \subseteq requests
    BY <1>12 DEF StopReconciler, ProviderStill, ownerVars
  <2> QED BY <2>1
<1> QED BY <1>1, <1>2, <1>3, <1>4, <1>5, <1>6, <1>7, <1>8, <1>9, <1>10, <1>11, <1>12
        DEF FeedNext, Supervise, Serve, Reconcile

LEMMA FeedTypes == FeedInv /\ FeedCounted => FeedTypeOK
<1> SUFFICES ASSUME FeedInv, FeedCounted
             PROVE  FeedTypeOK
  OBVIOUS
<1>1. asked \in Nat /\ MaxRequests \in Nat /\ asked <= MaxRequests
  BY ProtectedFeedAssumption DEF FeedInv, CallsKnown, FeedCounted
<1>2. sender \in {Nobody, Restorer, FeedCall} \cup 1 .. MaxRequests
  <2>1. CASE sender \notin {Nobody, Restorer}
    <3>1. PICK r \in requests : r.id = sender
      BY <2>1 DEF FeedInv, SenderKnown
    <3>2. r.id = FeedCall \/ r.id \in 1 .. asked
      BY DEF FeedInv, CallsKnown
    <3> QED BY <1>1, <3>1, <3>2
  <2> QED BY <2>1
<1>3. (sender = Restorer <=> supervisor = "restoring") /\ (enabled <=> supervisor # "off")
      /\ (connected => enabled)
  BY DEF FeedInv, SenderKnown, SocketKnown
<1> QED BY <1>2, <1>3 DEF FeedCounted, FeedTypeOK

(***************************************************************************)
(* The recorder: an item is one of the queue's until its step is over, a   *)
(* working entry has a lot left, and a row stands for every "recorded".    *)
(***************************************************************************)
LEMMA ListedIn ==
  ASSUME NEW S, S \subseteq Int, IsFiniteSet(S)
  PROVE  /\ Cardinality(S) \in Nat /\ Listed(S) \in [1 .. Cardinality(S) -> S]
         /\ Listed(S) \in Seq(S)
<1> DEFINE N == Cardinality(S)
           rank == [i \in S |-> Cardinality(Below(S, i))]
<1>1. N \in Nat
  BY FS_CardinalityType
<1>2. \A i \in S : IsFiniteSet(Below(S, i)) /\ rank[i] \in Nat
  <2>1. ASSUME NEW i \in S
        PROVE  IsFiniteSet(Below(S, i)) /\ Cardinality(Below(S, i)) \in Nat
    <3>1. Below(S, i) \in SUBSET S
      BY DEF Below
    <3>2. IsFiniteSet(Below(S, i))
      BY <3>1, FS_Subset
    <3> QED BY <3>2, FS_CardinalityType
  <2> QED BY <2>1
<1>3. ASSUME NEW i \in S, NEW T \in SUBSET S, Below(S, i) \subseteq T, i \notin Below(S, i), i \in T
      PROVE  rank[i] < Cardinality(T) /\ Cardinality(T) \in Nat
  <2>1. IsFiniteSet(T) /\ Cardinality(T) \in Nat
    BY FS_Subset, FS_CardinalityType
  <2>2. IsFiniteSet(Below(S, i)) /\ Cardinality(Below(S, i)) = rank[i]
    BY <1>2
  <2>3. Cardinality(Below(S, i) \cup {i}) = Cardinality(Below(S, i)) + 1
    BY <1>3, <2>2, FS_AddElement
  <2>4. Below(S, i) \cup {i} \in SUBSET T
    BY <1>3
  <2>5. Cardinality(Below(S, i) \cup {i}) <= Cardinality(T)
    BY <2>1, <2>4, FS_Subset
  <2> HIDE DEF rank
  <2> QED BY <1>2, <2>1, <2>2, <2>3, <2>5
<1>4. \A i \in S : i \notin Below(S, i) /\ Below(S, i) \in SUBSET S
  BY DEF Below
<1>5. \A i \in S : rank[i] \in 0 .. N - 1
  <2>1. ASSUME NEW i \in S
        PROVE  rank[i] < N
    BY <1>3, <1>4
  <2> HIDE DEF rank, N
  <2> QED BY <1>1, <1>2, <2>1
<1>6. \A i, j \in S : i < j => rank[i] < rank[j]
  <2>1. ASSUME NEW i \in S, NEW j \in S, i < j
        PROVE  rank[i] < Cardinality(Below(S, j))
    <3>0. i \in Int /\ j \in Int
      OBVIOUS
    <3>1. ASSUME NEW k \in S, k < i
          PROVE  k < j
      BY <2>1, <3>0, <3>1
    <3>2. Below(S, i) \subseteq Below(S, j) /\ i \in Below(S, j)
      BY <2>1, <3>1 DEF Below
    <3> QED BY <1>3, <1>4, <3>2
  <2> QED BY <2>1
<1>7. rank \in Injection(S, 0 .. N - 1)
  <2>1. rank \in [S -> 0 .. N - 1]
    BY <1>5
  <2>2. \A i, j \in S : rank[i] = rank[j] => i = j
    <3> HIDE DEF rank, N
    <3> QED BY <1>2, <1>6
  <2> HIDE DEF rank, N
  <2> QED BY <2>1, <2>2 DEF Injection, IsInjective
<1>8. IsFiniteSet(0 .. N - 1) /\ Cardinality(0 .. N - 1) = N
  <2> HIDE DEF N
  <2>1. 0 \in Int /\ N - 1 \in Int
    BY <1>1
  <2>2. IsFiniteSet(0 .. N - 1) /\ Cardinality(0 .. N - 1) = IF 0 > N - 1 THEN 0 ELSE N - 1 - 0 + 1
    BY ONLY <2>1, FS_Interval
  <2> QED BY <1>1, <2>2
<1>9. rank \in Surjection(S, 0 .. N - 1)
  BY <1>7, <1>8, FS_Injection
<1>10. ASSUME NEW n \in 1 .. N
       PROVE  (CHOOSE i \in S : Cardinality(Below(S, i)) = n - 1) \in S
  <2>1. n - 1 \in 0 .. N - 1
    BY <1>1
  <2>2. \E i \in S : rank[i] = n - 1
    <3> HIDE DEF rank, N
    <3> QED BY <1>9, <2>1 DEF Surjection
  <2>3. \E i \in S : Cardinality(Below(S, i)) = n - 1
    BY <2>2
  <2> QED BY <2>3
<1>11. Listed(S) \in [1 .. N -> S]
  BY <1>10 DEF Listed
<1> HIDE DEF N
<1>12. Listed(S) \in Seq(S)
  BY <1>1, <1>11
<1> QED BY <1>1, <1>11, <1>12 DEF N

(* Of the keys that are offered some join the queue.                       *)
LEMMA EnqueuedIn ==
  ASSUME NEW K, NEW q \in Seq(K), NEW keys \in Seq(K)
  PROVE  Enqueued(q, keys) \in Seq(K)
<1> DEFINE S == {i \in DOMAIN keys : keys[i] \notin Range(q) \cup {item}}
           more == [n \in DOMAIN Listed(S) |-> keys[Listed(S)[n]]]
<1>1. Len(keys) \in Nat /\ DOMAIN keys = 1 .. Len(keys) /\ \A i \in DOMAIN keys : keys[i] \in K
  OBVIOUS
<1>2. S \subseteq Int /\ S \in SUBSET (1 .. Len(keys))
  BY <1>1
<1>3. IsFiniteSet(S)
  <2>1. IsFiniteSet(1 .. Len(keys))
    BY <1>1, FS_Interval
  <2> HIDE DEF S
  <2> QED BY <1>2, <2>1, FS_Subset
<1>4. /\ Cardinality(S) \in Nat /\ Listed(S) \in [1 .. Cardinality(S) -> S]
      /\ \A i \in S : keys[i] \in K
  BY <1>1, <1>2, <1>3, ListedIn
<1>5. more \in Seq(K)
  <2> HIDE DEF S
  <2>1. more \in [1 .. Cardinality(S) -> K]
    BY <1>4
  <2> HIDE DEF more
  <2> QED BY <1>4, <2>1
<1>6. Enqueued(q, keys) = q \o more
  BY DEF Enqueued
<1> HIDE DEF more
<1> QED BY <1>5, <1>6

RecorderKeys == {"entry", "close"} \X RecordedTrades

LEMMA PageIn ==
  ASSUME RecordTyped, BatchSize \in Nat, NEW c
  PROVE  Closes(PendingAfter(c)) \in Seq(RecorderKeys)
<1> DEFINE left == {i \in DOMAIN closings : i > c /\ verdict[closings[i]] \notin {"recorded", "blocked"}}
           page == Listed(left)
           most == IF Len(page) < BatchSize THEN Len(page) ELSE BatchSize
<1>1. Len(closings) \in Nat /\ DOMAIN closings = 1 .. Len(closings)
      /\ \A i \in DOMAIN closings : closings[i] \in RecordedTrades
  BY DEF RecordTyped
<1>2. left \in SUBSET (1 .. Len(closings)) /\ left \subseteq Int
  BY <1>1
<1>3. IsFiniteSet(left)
  <2>1. IsFiniteSet(1 .. Len(closings))
    BY <1>1, FS_Interval
  <2> HIDE DEF left
  <2> QED BY <1>2, <2>1, FS_Subset
<1>4. page \in Seq(left)
  <2> HIDE DEF left
  <2> QED BY <1>2, <1>3, ListedIn
<1>5. \A i \in left : <<"close", closings[i]>> \in RecorderKeys
  BY <1>1 DEF RecorderKeys
<1>6. PendingAfter(c) = SubSeq(page, 1, most)
  BY DEF PendingAfter
<1> HIDE DEF left, page
<1>7. Len(page) \in Nat
  BY <1>4
<1>8. SubSeq(page, 1, most) \in Seq(left)
  BY <1>4, <1>7
<1> HIDE DEF most
<1>9. ASSUME NEW p \in Seq(left)
      PROVE  Closes(p) \in Seq(RecorderKeys)
  <2>1. Len(p) \in Nat /\ DOMAIN p = 1 .. Len(p) /\ \A i \in DOMAIN p : p[i] \in left
    OBVIOUS
  <2>2. Closes(p) \in [1 .. Len(p) -> RecorderKeys]
    BY <1>5, <2>1 DEF Closes
  <2> QED BY <2>1, <2>2
<1> QED BY <1>6, <1>8, <1>9


RecorderCounted ==
  /\ work \in Seq(RecorderKeys)
  /\ step \in {"idle", "read", "done", "capture", "store", "record", "retry"}
  /\ item # NoItem <=> step # "idle"
  /\ verdict \in [RecordedTrades -> {"pending", "pending_retry", "recorded", "blocked"}]
  /\ \A t \in RecordedTrades :
       /\ entryFills[t] <= EntryLots[t] /\ (story[t] = "working" => entryFills[t] < EntryLots[t])
       /\ recordedAs[t].made <=> verdict[t] = "recorded"

LEMMA RecorderCountedStart == RecorderInit => RecorderCounted
<1> SUFFICES ASSUME RecorderInit
             PROVE  RecorderCounted
  OBVIOUS
<1>1. work = <<>> /\ step = "idle" /\ item = NoItem
      /\ verdict = [t \in RecordedTrades |-> "pending"]
  BY DEF RecorderInit
<1>2. \A t \in RecordedTrades : /\ entryFills[t] = 0 /\ recordedAs[t] = NoOutcome
                                /\ EntryLots[t] \in Nat \ {0}
  BY RecorderAssumption DEF RecorderInit
<1>3. NoOutcome.made = FALSE
  BY DEF NoOutcome
<1> QED BY <1>1, <1>2, <1>3 DEF RecorderCounted

LEMMA KeysAreItems ==
  ASSUME NEW k \in RecorderKeys
  PROVE  k # NoItem
BY DEF RecorderKeys, NoItem

(* A notice finds its key waiting already, or adds it.                     *)
LEMMA HeardIn ==
  ASSUME RecorderCounted, NEW key \in RecorderKeys
  PROVE  Heard(key) \in Seq(RecorderKeys)
<1>1. <<key>> \in Seq(RecorderKeys) /\ work \in Seq(RecorderKeys)
  BY DEF RecorderCounted
<1>2. Enqueued(work, <<key>>) \in Seq(RecorderKeys)
  BY <1>1, EnqueuedIn
<1> QED BY <1>1, <1>2 DEF Heard

LEMMA LedgerCounted ==
  ASSUME RecorderInv, RecorderCounted, NEW t \in RecordedTrades,
         EntryFilled(t) \/ EntryCancelled(t) \/ TradeClosed(t)
  PROVE  RecorderCounted'
<1>t. RecordTyped /\ EntryLots[t] \in Nat
  BY RecorderAssumption DEF RecorderInv
<1>k. <<"entry", t>> \in RecorderKeys /\ <<"close", t>> \in RecorderKeys
  BY DEF RecorderKeys
<1>0. UNCHANGED <<verdict, recordedAs, item, step>>
  BY DEF EntryFilled, EntryCancelled, TradeClosed, verdictRows
<1>1. CASE EntryFilled(t)
  <2>1. /\ story[t] = "working" /\ entryFills' = [entryFills EXCEPT ![t] = entryFills[t] + 1]
        /\ work' = Heard(<<"entry", t>>)
        /\ story'[t] = "working" => entryFills[t] + 1 # EntryLots[t]
        /\ \A u \in RecordedTrades : u # t => story'[u] = story[u]
    BY <1>1, <1>t DEF EntryFilled, RecordTyped
  <2>2. work' \in Seq(RecorderKeys)
    BY <1>k, <2>1, HeardIn
  <2>3. entryFills[t] \in Nat /\ entryFills[t] < EntryLots[t] /\ entryFills'[t] = entryFills[t] + 1
    BY <1>t, <2>1 DEF RecordTyped, RecorderCounted
  <2>4. \A u \in RecordedTrades : u # t => entryFills'[u] = entryFills[u]
    BY <1>t, <2>1 DEF RecordTyped
  <2>5. \A u \in RecordedTrades :
          entryFills'[u] <= EntryLots[u] /\ (story'[u] = "working" => entryFills'[u] < EntryLots[u])
    BY <1>t, <2>1, <2>3, <2>4 DEF RecorderCounted
  <2> QED BY <1>0, <2>2, <2>5 DEF RecorderCounted
<1>2. CASE EntryCancelled(t) \/ TradeClosed(t)
  <2>1. /\ UNCHANGED entryFills /\ work' \in {work, Heard(<<"close", t>>)}
        /\ \A u \in RecordedTrades : story'[u] = "working" => story[u] = "working"
    BY <1>2, <1>t DEF EntryCancelled, TradeClosed, RecordTyped
  <2>2. work' \in Seq(RecorderKeys)
    BY <1>k, <2>1, HeardIn DEF RecorderCounted
  <2> QED BY <1>0, <2>1, <2>2 DEF RecorderCounted
<1> QED BY <1>1, <1>2

LEMMA RecordingCounted ==
  ASSUME RecorderInv, RecorderCounted, NEW t \in Closed,
         Recorded(t) \/ UNCHANGED <<verdict, recordedAs>>
  PROVE  /\ verdict' \in [RecordedTrades -> {"pending", "pending_retry", "recorded", "blocked"}]
         /\ \A u \in RecordedTrades : recordedAs'[u].made <=> verdict'[u] = "recorded"
<1>c. RecordTyped
  BY DEF RecorderInv
<1>d. closings \in Seq(RecordedTrades) /\ \E i \in DOMAIN closings : t = closings[i]
  BY <1>c DEF RecordTyped, Closed, Range
<1>t. RecordTyped /\ t \in RecordedTrades
  BY <1>c, <1>d
<1>v. verdict \in [RecordedTrades -> {"pending", "pending_retry", "recorded", "blocked"}]
      /\ \A u \in RecordedTrades : recordedAs[u].made <=> verdict[u] = "recorded"
  BY DEF RecorderCounted
<1>1. CASE UNCHANGED <<verdict, recordedAs>>
  BY <1>1, <1>v
<1>2. CASE Recorded(t) /\ ~Settled(t) /\ Supported(t)
  <2> DEFINE o == [entry |-> entrySnapshot[t], fills |-> entryFills[t], made |-> TRUE]
  <2>1. verdict' = [verdict EXCEPT ![t] = "recorded"] /\ recordedAs' = [recordedAs EXCEPT ![t] = o]
    BY <1>2 DEF Recorded
  <2>2. o.made = TRUE
    OBVIOUS
  <2> HIDE DEF o
  <2>3. \A u \in RecordedTrades : recordedAs'[u] = IF u = t THEN o ELSE recordedAs[u]
    BY <1>t, <2>1 DEF RecordTyped
  <2>4. \A u \in RecordedTrades : verdict'[u] = IF u = t THEN "recorded" ELSE verdict[u]
    BY <1>v, <2>1
  <2>5. verdict' \in [RecordedTrades -> {"pending", "pending_retry", "recorded", "blocked"}]
    BY <1>v, <2>1
  <2> QED BY <1>v, <2>2, <2>3, <2>4, <2>5
<1>3. CASE Recorded(t) /\ ~Settled(t) /\ ~Supported(t)
  <2>1. verdict' = [verdict EXCEPT ![t] = "blocked"] /\ recordedAs' = recordedAs /\ verdict[t] # "recorded"
    BY <1>3 DEF Recorded, Settled
  <2> QED BY <1>t, <1>v, <2>1
<1> QED BY <1>1, <1>2, <1>3 DEF Recorded

LEMMA RecorderCountedStep ==
  RecorderInv /\ RecorderCounted /\ [RecorderNext]_recorderVars => RecorderCounted'
<1> SUFFICES ASSUME RecorderInv, RecorderCounted, [RecorderNext]_recorderVars
             PROVE  RecorderCounted'
  OBVIOUS
<1>t. RecordTyped /\ BatchSize \in Nat
  BY RecorderAssumption DEF RecorderInv
<1>i. NoItem = NoItem /\ (item # NoItem <=> step # "idle")
  BY DEF RecorderCounted
<1>1. ASSUME UNCHANGED <<entryFills, story, verdict, recordedAs, item, step>>, work' \in Seq(RecorderKeys)
      PROVE  RecorderCounted'
  BY <1>1 DEF RecorderCounted
<1>2. CASE UNCHANGED recorderVars \/ StartRecorder \/ StopRecorder \/ Drained
  <2>1. UNCHANGED <<entryFills, story, verdict, recordedAs, item, step, work>>
    BY <1>2 DEF recorderVars, StartRecorder, StopRecorder, Drained, ledgerRows, verdictRows
  <2> QED BY <1>1, <2>1 DEF RecorderCounted
<1>3. CASE StartupScan \/ Sweep
  <2>1. UNCHANGED <<entryFills, story, verdict, recordedAs, item, step>>
    BY <1>3 DEF StartupScan, Sweep, ledgerRows, verdictRows
  <2>2. PICK c : work' = Enqueued(work, Closes(PendingAfter(c)))
    BY <1>3 DEF StartupScan, Sweep, Rotated
  <2>3. work' \in Seq(RecorderKeys)
    BY <1>t, <2>2, PageIn, EnqueuedIn DEF RecorderCounted
  <2> QED BY <1>1, <2>1, <2>3
<1>4. CASE \E t \in RecordedTrades : EntryFilled(t) \/ EntryCancelled(t) \/ TradeClosed(t)
  BY <1>4, LedgerCounted
<1>5. ASSUME UNCHANGED <<entryFills, story, verdict, recordedAs>>, work' \in {work, <<>>},
             \/ item' = NoItem /\ step' = "idle"
             \/ item' = item /\ step # "idle" /\ step' \in {"done", "capture", "store", "record", "retry"}
      PROVE  RecorderCounted'
  <2>0. <<>> \in Seq(RecorderKeys) /\ work \in Seq(RecorderKeys)
    BY DEF RecorderCounted
  <2>1. work' \in Seq(RecorderKeys)
    BY <1>5, <2>0
  <2>2. (item' # NoItem <=> step' # "idle")
        /\ step' \in {"idle", "read", "done", "capture", "store", "record", "retry"}
    BY <1>5, <1>i DEF NoItem
  <2> QED BY <1>5, <2>1, <2>2 DEF RecorderCounted
<1>6. CASE CrashRecorder
  BY <1>5, <1>6 DEF CrashRecorder, ledgerRows, verdictRows
<1>7. CASE GetItem
  <2>1. UNCHANGED <<entryFills, story, verdict, recordedAs>> /\ item' = Head(work) /\ work' = Tail(work)
        /\ step' = "read" /\ work # <<>>
    BY <1>7 DEF GetItem, ledgerRows, verdictRows
  <2>2. Head(work) \in RecorderKeys /\ Tail(work) \in Seq(RecorderKeys)
    BY <2>1 DEF RecorderCounted
  <2>3. item' # NoItem
    BY <2>1, <2>2, KeysAreItems
  <2>4. NoItem' = NoItem
    BY DEF NoItem
  <2> QED BY <2>1, <2>2, <2>3, <2>4 DEF RecorderCounted
<1>8. CASE ItemFails \/ EndRead
  BY <1>5, <1>8 DEF ItemFails, EndRead, EndItem, WorkerStill, ledgerRows, verdictRows
<1>9. CASE ReadItem \/ CaptureEntry
  BY <1>5, <1>9 DEF ReadItem, CaptureEntry, WorkerStill, ledgerRows, verdictRows
<1>10. CASE StoreEntry
  BY <1>5, <1>10 DEF StoreEntry, EndItem, WorkerStill, ledgerRows
<1>11. CASE RecordOutcome \/ RecordFails
  <2>1. /\ UNCHANGED <<entryFills, story, work>> /\ item[2] \in Closed /\ step = "record"
        /\ Recorded(item[2]) \/ UNCHANGED <<verdict, recordedAs>>
        /\ \/ item' = NoItem /\ step' = "idle"
           \/ item' = item /\ step' = "retry"
    BY <1>11 DEF RecordOutcome, RecordFails, EndItem, WorkerStill, ledgerRows, RecorderInv, ItemHonest
  <2>2. /\ verdict' \in [RecordedTrades -> {"pending", "pending_retry", "recorded", "blocked"}]
        /\ \A u \in RecordedTrades : recordedAs'[u].made <=> verdict'[u] = "recorded"
    BY <2>1, RecordingCounted
  <2>3. (item' # NoItem <=> step' # "idle")
    BY <2>1, <1>i
  <2> QED BY <2>1, <2>2, <2>3 DEF RecorderCounted, NoItem
<1>12. CASE MarkRetry
  <2>1. /\ UNCHANGED <<entryFills, story, recordedAs, work>> /\ item' = NoItem /\ step' = "idle"
        /\ verdict' = IF MayMark(item[2]) THEN [verdict EXCEPT ![item[2]] = "pending_retry"] ELSE verdict
    BY <1>12 DEF MarkRetry, EndItem, WorkerStill, ledgerRows
  <2>2. verdict' \in [RecordedTrades -> {"pending", "pending_retry", "recorded", "blocked"}]
    BY <2>1 DEF RecorderCounted
  <2>3. \A u \in RecordedTrades : verdict'[u] = "recorded" <=> verdict[u] = "recorded"
    BY <2>1 DEF RecorderCounted, MayMark
  <2> QED BY <2>1, <2>2, <2>3 DEF RecorderCounted, NoItem
<1> QED BY <1>2, <1>3, <1>4, <1>6, <1>7, <1>8, <1>9, <1>10, <1>11, <1>12 DEF RecorderNext, WorkItem

LEMMA RecorderTypes == RecorderInv /\ RecorderCounted => RecorderTypeOK
<1> SUFFICES ASSUME RecorderInv, RecorderCounted
             PROVE  RecorderTypeOK
  OBVIOUS
<1>1. \A t \in RecordedTrades : entryFills[t] \in Nat /\ EntryLots[t] \in Nat
  BY RecorderAssumption DEF RecorderInv, RecordTyped
<1>2. \A t \in RecordedTrades : entryFills[t] \in 0 .. EntryLots[t]
  BY <1>1 DEF RecorderCounted
<1>3. Closed \subseteq RecordedTrades
  BY DEF RecorderInv, RecordTyped, Closed, Range
<1> QED BY <1>2, <1>3 DEF RecorderTypeOK, RecorderCounted

---------------------------------------------------------------------------
(***************************************************************************)
(* The services together.  A step is one component's own, and no other     *)
(* component moves: every invariant above holds at all times.              *)
(***************************************************************************)
ServicesInv ==
  /\ FeedInv /\ BusInv /\ RecorderInv /\ ScanInv /\ ContextInv /\ BatchInv
  /\ LifespanInv /\ PollingInv /\ RolesInv /\ FundamentalsInv /\ IBKRInv

EachMovesAlone ==
  /\ [FeedNext]_feedVars /\ [BusNext]_busVars /\ [RecorderNext]_recorderVars /\ [ScanNext]_scanVars
  /\ [ContextNext]_contextVars /\ [BatchNext]_batchVars /\ [LifespanNext]_lifespanVars
  /\ [PollingNext]_pollingVars /\ [RolesNext]_rolesVars /\ [FundamentalsNext]_fundamentalsVars
  /\ [IBKRNext]_ibkrVars

LEMMA MovesAlone == [Next]_vars => EachMovesAlone
<1> SUFFICES ASSUME [Next]_vars
             PROVE  EachMovesAlone
  OBVIOUS
<1>1. CASE UNCHANGED vars
  BY <1>1 DEF vars, EachMovesAlone
<1>2. CASE Next
  <2>1. PICK c \in {"feed", "bus", "outcomes", "scanner", "context", "request", "lifespan",
                    "polling", "roles", "fundamentals", "ibkr"} :
          /\ component = c /\ OthersStay
          /\ c = "feed" => FeedNext
          /\ c = "bus" => BusNext
          /\ c = "outcomes" => RecorderNext
          /\ c = "scanner" => ScanNext
          /\ c = "context" => ContextNext
          /\ c = "request" => BatchNext
          /\ c = "lifespan" => LifespanNext
          /\ c = "polling" => PollingNext
          /\ c = "roles" => RolesNext
          /\ c = "fundamentals" => FundamentalsNext
          /\ c = "ibkr" => IBKRNext
    BY <1>2 DEF Next, Only
  <2>2. /\ c # "feed" => UNCHANGED feedVars
        /\ c # "bus" => UNCHANGED busVars
        /\ c # "outcomes" => UNCHANGED recorderVars
        /\ c # "scanner" => UNCHANGED scanVars
        /\ c # "context" => UNCHANGED contextVars
        /\ c # "request" => UNCHANGED batchVars
        /\ c # "lifespan" => UNCHANGED lifespanVars
        /\ c # "polling" => UNCHANGED pollingVars
        /\ c # "roles" => UNCHANGED rolesVars
        /\ c # "fundamentals" => UNCHANGED fundamentalsVars
        /\ c # "ibkr" => UNCHANGED ibkrVars
    BY <2>1 DEF OthersStay, Stay
  <2> QED BY <2>1, <2>2 DEF EachMovesAlone
<1> QED BY <1>1, <1>2

LEMMA ServicesStep ==
  ASSUME ServicesInv, [Next]_vars
  PROVE  ServicesInv'
<1>1. EachMovesAlone
  BY MovesAlone
<1>2. FeedInv' /\ BusInv' /\ RecorderInv' /\ ScanInv' /\ ContextInv' /\ BatchInv'
  BY <1>1, FeedStep, BusStep, RecorderStep, ScanStep, ContextStep, BatchStep DEF ServicesInv, EachMovesAlone
<1>3. LifespanInv' /\ PollingInv' /\ RolesInv' /\ FundamentalsInv' /\ IBKRInv'
  BY <1>1, LifespanStep, PollingStep, RolesStep, FundamentalsStep, IBKRStep DEF ServicesInv, EachMovesAlone
<1> QED BY <1>2, <1>3 DEF ServicesInv

(* The invariants of the eleven services (MCServices' components), which   *)
(* say of each what its steps rest on, hold in every state of the          *)
(* composition: no service's handlers can bring another one out of them.   *)
THEOREM ServicesInductive == Spec => []ServicesInv
<1>1. Init => ServicesInv
  BY FeedStart, BusStart, RecorderStart, ScanStart, ContextStart, BatchStart, LifespanStart, PollingStart,
     RolesStart, FundamentalsStart, IBKRStart DEF Init, ServicesInv
<1>2. ServicesInv /\ [Next]_vars => ServicesInv'
  BY ServicesStep
<1> QED BY <1>1, <1>2, PTL DEF Spec

(* Whatever is delivered, recorded, served or shown is right, for any      *)
(* symbols, handlers, adapters and bounds: lanes keep their order and drop *)
(* nothing; inventories are honest; the scanner's results, the tracked     *)
(* additions, start-up and shutdown, the budget and the ticks of polling,  *)
(* the roles of providers, recorded outcomes and IB's subscriptions are    *)
(* what DeliveryKept says of event_bus/bus.py, finnhub_provider.py,        *)
(* scanner.py, context_engine/engine.py, main.py, polygon_provider.py,     *)
(* broker_registry.py, outcome_recorder.py and ibkr_adapter.py.            *)
THEOREM DeliveryIsKept == Spec => []DeliveryKept
<1>1. ServicesInv => DeliveryKept
  BY FeedTold, ScanTold, LifespanTold, PollingTold, RolesTold, RecorderWhole
     DEF ServicesInv, BusInv, ContextInv, IBKRInv, DeliveryKept
<1> QED BY <1>1, ServicesInductive, PTL

(* No step takes back what a service has said, whatever fails, stops or    *)
(* crashes: a restoration is complete before it is over, a settled verdict *)
(* stands, a scanner that stops publishes nothing, no task of a stopped    *)
(* context engine revives, a request completes when all was asked for,     *)
(* nobody is stopped before those that hand work to it, and figures of the *)
(* fundamentals never go back to an earlier period.                        *)
THEOREM NothingIsUndone == Spec => NothingUndone
<1> DEFINE Keeps ==
      /\ [supervisor = "restoring" /\ supervisor' = "resumed" => desired \subseteq local']_feedVars
      /\ [\A t \in RecordedTrades :
            /\ Settled(t) => verdict'[t] = verdict[t] /\ recordedAs'[t] = recordedAs[t]
            /\ entrySnapshot'[t] # entrySnapshot[t] => entrySnapshot[t] = NoSnapshot /\ t \notin Closed]_recorderVars
      /\ [stopping => /\ observed'.success = observed.success
                      /\ observed'.error = observed.error
                      /\ observed'.engines = observed.engines]_scanVars
      /\ [~contextOn => \A s \in Listable : symbolTasks'[s] = "alive" => symbolTasks[s] = "alive"]_contextVars
      /\ [batch'.status = "completed" /\ batch.status # "completed" =>
            batch.read \subseteq streamed /\ streamer = batch.of /\ streaming]_batchVars
      /\ [LeavesInOrder]_lifespanVars
      /\ [/\ fundamentals'.period >= fundamentals.period
          /\ (\E m \in Metrics : fundamentals.figures[m] # <<>>) =>
               \E m \in Metrics : fundamentals'.figures[m] # <<>>]_fundamentalsVars
<1>1. ServicesInv /\ [Next]_vars => Keeps
  <2> SUFFICES ASSUME ServicesInv, [Next]_vars
               PROVE  Keeps
    OBVIOUS
  <2>1. EachMovesAlone
    BY MovesAlone
  <2>2. supervisor = "restoring" /\ supervisor' = "resumed" => desired \subseteq local'
    BY <2>1, RestorationWhole DEF EachMovesAlone, ServicesInv
  <2>3. \A t \in RecordedTrades :
          /\ Settled(t) => verdict'[t] = verdict[t] /\ recordedAs'[t] = recordedAs[t]
          /\ entrySnapshot'[t] # entrySnapshot[t] => entrySnapshot[t] = NoSnapshot /\ t \notin Closed
    BY <2>1, VerdictsKept DEF EachMovesAlone, ServicesInv
  <2>4. stopping => /\ observed'.success = observed.success
                    /\ observed'.error = observed.error
                    /\ observed'.engines = observed.engines
    BY <2>1, StoppedIsQuiet DEF EachMovesAlone, ServicesInv
  <2>5. ~contextOn => \A s \in Listable : symbolTasks'[s] = "alive" => symbolTasks[s] = "alive"
    BY <2>1, NoneRevived DEF EachMovesAlone, ServicesInv
  <2>6. batch'.status = "completed" /\ batch.status # "completed" =>
          batch.read \subseteq streamed /\ streamer = batch.of /\ streaming
    BY <2>1, AskedWhole DEF EachMovesAlone, ServicesInv
  <2>7. LeavesInOrder
    BY <2>1, LifespanStep DEF EachMovesAlone, ServicesInv
  <2>8. /\ fundamentals'.period >= fundamentals.period
        /\ (\E m \in Metrics : fundamentals.figures[m] # <<>>) =>
             \E m \in Metrics : fundamentals'.figures[m] # <<>>
    BY <2>1, FundamentalsStep DEF EachMovesAlone, ServicesInv
  <2> QED BY <2>2, <2>3, <2>4, <2>5, <2>6, <2>7, <2>8
<1> QED BY <1>1, ServicesInductive, PTL
        DEF Spec, NothingUndone, RestoreIsComplete, VerdictsStand, NothingAfterStop, NothingRevived,
            CompletedMeansAsked, ConsumersLast, FiguresStay, LeavesInOrder

ServicesCounted ==
  /\ FeedCounted /\ BusCounted /\ RecorderCounted /\ ScanCounted /\ ContextCounted /\ BatchCounted
  /\ LifespanCounted /\ PollingCounted /\ RolesCounted /\ FundamentalsCounted /\ IBKRCounted

LEMMA ServicesCountedStep ==
  ASSUME ServicesInv, ServicesCounted, [Next]_vars
  PROVE  ServicesCounted'
<1>1. EachMovesAlone
  BY MovesAlone
<1>2. FeedCounted' /\ BusCounted' /\ RecorderCounted'
  BY <1>1, FeedCountedStep, BusCountedStep, RecorderCountedStep
     DEF ServicesInv, ServicesCounted, EachMovesAlone
<1>3. ScanCounted' /\ ContextCounted' /\ BatchCounted'
  BY <1>1, ScanCountedStep, ContextCountedStep, BatchCountedStep
     DEF ServicesInv, ServicesCounted, EachMovesAlone
<1>4. LifespanCounted' /\ PollingCounted' /\ RolesCounted'
  BY <1>1, LifespanCountedStep, PollingCountedStep, RolesCountedStep
     DEF ServicesInv, ServicesCounted, EachMovesAlone
<1>5. FundamentalsCounted' /\ IBKRCounted'
  BY <1>1, FundamentalsCountedStep, IBKRCountedStep DEF ServicesInv, ServicesCounted, EachMovesAlone
<1> QED BY <1>2, <1>3, <1>4, <1>5 DEF ServicesCounted

(* Every variable of the eleven services keeps its type: counters stay     *)
(* within the bounds, symbols, tasks and calls are those that exist, an    *)
(* item of the outcome recorder has a step, a recorded verdict its row.    *)
THEOREM ServicesTypeCorrect == Spec => []TypeOK
<1>1. Init => ServicesInv /\ ServicesCounted
  <2> SUFFICES ASSUME Init
               PROVE  ServicesInv /\ ServicesCounted
    OBVIOUS
  <2>1. ServicesInv
    BY FeedStart, BusStart, RecorderStart, ScanStart, ContextStart, BatchStart, LifespanStart, PollingStart,
       RolesStart, FundamentalsStart, IBKRStart DEF Init, ServicesInv
  <2>2. ServicesCounted
    BY FeedCountedStart, BusCountedStart, RecorderCountedStart, ScanCountedStart, ContextCountedStart,
       BatchCountedStart, LifespanCountedStart, PollingCountedStart, RolesCountedStart,
       FundamentalsCountedStart, IBKRCountedStart DEF Init, ServicesCounted
  <2> QED BY <2>1, <2>2
<1>2. ServicesInv /\ ServicesCounted /\ [Next]_vars => ServicesInv' /\ ServicesCounted'
  BY ServicesStep, ServicesCountedStep
<1>3. ServicesInv /\ ServicesCounted => TypeOK
  BY FeedTypes, BusTypes, RecorderTypes, ScanTypes, ContextTypes, BatchTypes, LifespanTypes, PollingTypes,
     RolesTypes, FundamentalsTypes, IBKRTypes DEF ServicesInv, ServicesCounted, TypeOK
<1> QED BY <1>1, <1>2, <1>3, PTL DEF Spec
=============================================================================
