---------------------------- MODULE DecisionsProofs ---------------------------
(***************************************************************************)
(* The stages from closed candles to approved entries, for every value of  *)
(* the constants.  First what an approval of an entry risks: the snapshot  *)
(* of Portfolio State is current whenever it is ready, no decision that    *)
(* saw every opening passes the limit of positions, and the exposures      *)
(* together never risk more than the loss of a day may be.  Then           *)
(* candidates, selection and claims, the strategies that decide from       *)
(* candles, and what the composition checks.                               *)
(***************************************************************************)
EXTENDS MCDecisions, FiniteSetTheorems, SequenceTheorems, WellFoundedInduction, TLAPS

---------------------------------------------------------------------------
(* The inductive invariant of Portfolio State and the authorizer           *)

Effects == {"open", "close"}
Fills == Entries \X Effects
Statuses == {"none", "reserved", "filled", "closed", "cancelled"}
OrderNotes == [kind : {"order"}, entry : Entries]
PriceNotes == [kind : {"price"}, symbol : Symbols, ts : Nat, fillsBefore : Nat]
NoteTypes == OrderNotes \cup {Refresh} \cup {n \in PriceNotes : n.fillsBefore > 0 => n.ts > 0}

PortfolioTyped ==
  /\ status \in [Entries -> Statuses] /\ fills \in Seq(Fills) /\ applied \in 0 .. Len(fills)
  /\ state \in [cursor : Nat, positions : SUBSET Entries, inflight : SUBSET Entries]
  /\ state.cursor <= applied
  /\ ready \in BOOLEAN /\ unresolved \subseteq Entries
  /\ pc \in {"idle", "load", "pending", "apply"}
  /\ marks \in [Entries -> Int] /\ clock \in Nat
  /\ bus \in Seq(NoteTypes) /\ queue \in Seq(NoteTypes) /\ batch \in Seq(Fills)
  /\ heard \in [fills : Nat, reserved : SUBSET Entries] /\ heard.fills <= Len(fills)
  /\ closedEvents \in Seq(Entries)

(* Each entry is filled once and closed once, and its status says so.      *)
FillsSound ==
  /\ \A i, j \in DOMAIN fills : fills[i] = fills[j] => i = j
  /\ \A i \in DOMAIN fills : \/ fills[i][2] = "open" /\ status[fills[i][1]] \in {"filled", "closed"}
                             \/ fills[i][2] = "close" /\ status[fills[i][1]] = "closed"
  /\ \A e \in Entries : status[e] \in {"filled", "closed"} =>
       \E i \in DOMAIN fills : fills[i] = <<e, "open">>

(* What is installed is the ledger as of its cursor.                       *)
CacheSound ==
  /\ state.positions = OpenAfter(state.cursor)
  /\ \A p \in Entries : marks[p] # NoMark => p \in state.positions /\ marks[p] > 0

(* A fill recorded since the last wake-up still has its notification.      *)
FillsTold == \A i \in DOMAIN fills : i > heard.fills => fills[i][1] \in Announced

(* An entry is counted, over, about to be announced, or its fill is about  *)
(* to be applied.                                                          *)
Heeded(e) ==
  \/ e \in Snapshot \cup Announced
  \/ status[e] \in {"closed", "cancelled"}
  \/ \E i \in state.cursor + 1 .. heard.fills : fills[i] = <<e, "open">>

WorkerSound ==
  /\ ready => pc = "idle" /\ state.cursor >= heard.fills
  /\ \A e \in heard.reserved : status[e] # "none"
  /\ ready \/ pc \in {"pending", "apply"} => \A e \in heard.reserved : Heeded(e)
  /\ pc = "apply" => /\ state.cursor + Len(batch) \in heard.fills .. Len(fills)
                     /\ \A i \in 1 .. Len(batch) : batch[i] = fills[state.cursor + i]

ClosingsSound ==
  /\ \A i, j \in DOMAIN closedEvents : closedEvents[i] = closedEvents[j] => i = j
  /\ \A i \in DOMAIN closedEvents : \E k \in 1 .. applied : fills[k] = <<closedEvents[i], "close">>

(* One opportunity is in hand, and only the commit of its decision         *)
(* reserves it.                                                            *)
DecisionSound ==
  /\ waiting \subseteq Entries
  /\ outcome \in [Entries -> {"none", "approved", "rejected", "dropped"}]
  /\ \/ current = Nobody
     \/ current \in [entry : Entries \ waiting, step : {"decide", "commit", "publish"}]
  /\ \A e \in waiting : status[e] = "none"
  /\ current.step \in {"decide", "commit"} => status[current.entry] = "none"
  /\ current.step = "publish" => status[current.entry] # "none"
  /\ \A e \in Entries : outcome[e] = "approved" => status[e] # "none"

(* Between a decision and its commit exposures only end.                   *)
PlaceLeft ==
  current.step = "commit" => /\ Cardinality(Exposed) < MaxOpen
                             /\ \A x \in Exposed : SymbolOf[x] # SymbolOf[current.entry]
LimitKept ==
  blind = {} => /\ Cardinality(Exposed) <= MaxOpen
                /\ \A d, e \in Exposed : SymbolOf[d] = SymbolOf[e] => d = e
                /\ PlaceLeft

PortfolioInv ==
  /\ PortfolioTyped /\ FillsSound /\ CacheSound /\ FillsTold /\ WorkerSound /\ ClosingsSound
  /\ DecisionSound /\ LimitKept

---------------------------------------------------------------------------
LEMMA PortfolioStarts == Init => PortfolioInv
<1> SUFFICES ASSUME Init
             PROVE  PortfolioInv
  OBVIOUS
<1> USE DEF Init, PortfolioInit
<1>1. PortfolioTyped
  BY PortfolioAssumption DEF PortfolioTyped, Statuses, Restored, NoMark
<1>2. FillsSound /\ FillsTold /\ WorkerSound /\ ClosingsSound
  BY DEF FillsSound, FillsTold, WorkerSound, ClosingsSound, Restored
<1>3. CacheSound
  BY DEF CacheSound, Restored, OpenAfter, Applied, NoMark
<1>4. DecisionSound
  BY DEF DecisionSound, Nobody
<1>5. LimitKept
  <2>1. Exposed = {}
    BY DEF Exposed
  <2> QED BY <2>1, FS_EmptySet, AuthorizationAssumption DEF LimitKept, PlaceLeft, Nobody
<1> QED BY <1>1, <1>2, <1>3, <1>4, <1>5 DEF PortfolioInv

(* Every step is one of these; a step of Portfolio State leaves the        *)
(* authorizer alone.                                                       *)
LEMMA DecisionSteps ==
  ASSUME [Next]_vars
  PROVE  \/ \E e \in Entries : Begin(e)
         \/ Decide \/ Commit \/ Publish
         \/ /\ UNCHANGED authVars
            /\ \/ Deliver \/ TakePrice \/ Take \/ Load \/ Pending \/ Apply \/ Resolve
               \/ Raise \/ Retry \/ Elsewhere
               \/ \E e \in Entries : CancelEntry(e)
               \/ \E e \in Entries, effect \in Effects : RecordFill(e, effect)
               \/ \E s \in Symbols : Price(s)
         \/ UNCHANGED vars
BY DEF Next, Authorize, Environment, PortfolioNext, Worker, Effects

---------------------------------------------------------------------------
(* Notes travel from the bus to the queue; what was announced stays        *)
(* announced until the worker takes it.                                    *)

LEMMA RangeAppended ==
  ASSUME NEW S, NEW s \in Seq(S), NEW x
  PROVE  Range(Append(s, x)) = Range(s) \cup {x}
<1>1. /\ DOMAIN Append(s, x) = 1 .. Len(s) + 1 /\ Append(s, x)[Len(s) + 1] = x
      /\ \A i \in 1 .. Len(s) : Append(s, x)[i] = s[i]
  OBVIOUS
<1> QED BY <1>1 DEF Range

LEMMA RangeTaken ==
  ASSUME NEW S, NEW s \in Seq(S), s # <<>>
  PROVE  Range(s) = {Head(s)} \cup Range(Tail(s))
<1>1. /\ DOMAIN Tail(s) = 1 .. Len(s) - 1 /\ Len(s) \in Nat \ {0} /\ Head(s) = s[1]
      /\ \A i \in 1 .. Len(s) - 1 : Tail(s)[i] = s[i + 1]
  OBVIOUS
<1>2. ASSUME NEW i \in 1 .. Len(s)
      PROVE  s[i] \in {Head(s)} \cup Range(Tail(s))
  <2>1. CASE i = 1
    BY <1>1, <2>1
  <2>2. CASE i # 1
    <3>1. i - 1 \in DOMAIN Tail(s) /\ Tail(s)[i - 1] = s[i]
      BY <1>1, <2>2
    <3> QED BY <3>1 DEF Range
  <2> QED BY <2>1, <2>2
<1>3. ASSUME NEW i \in DOMAIN Tail(s)
      PROVE  Tail(s)[i] \in Range(s)
  <2>1. i + 1 \in DOMAIN s /\ Tail(s)[i] = s[i + 1]
    BY <1>1
  <2> QED BY <2>1 DEF Range
<1>4. Head(s) \in Range(s)
  BY <1>1 DEF Range
<1> QED BY <1>2, <1>3, <1>4 DEF Range

(* The notes of all steps but Take, and of Take.                           *)
LEMMA NotesKept ==
  ASSUME PortfolioTyped, [Next]_vars, ~Take
  PROVE  Announced \subseteq Announced'
<1> DEFINE Notes == Range(bus) \cup Range(queue)
<1>1. \/ Notes' = Notes
      \/ \E x : Notes' = Notes \cup {x}
      \/ \E x \in Notes : x.kind = "price" /\ Notes = Notes' \cup {x}
  <2> USE DEF PortfolioTyped
  <2>1. CASE Deliver
    <3>1. Range(bus) = {Head(bus)} \cup Range(Tail(bus)) /\ bus' = Tail(bus)
      BY <2>1, RangeTaken DEF Deliver
    <3>2. CASE queue' = Append(queue, Head(bus))
      BY <3>1, <3>2, RangeAppended
    <3>3. CASE Head(bus).kind = "price" /\ queue' = queue
      BY <3>1, <3>3
    <3> QED BY <2>1, <3>2, <3>3 DEF Deliver
  <2>2. CASE TakePrice
    <3>1. Range(queue) = {Head(queue)} \cup Range(Tail(queue)) /\ queue' = Tail(queue) /\ bus' = bus
      BY <2>2, RangeTaken DEF TakePrice, LedgerStill
    <3> QED BY <2>2, <3>1 DEF TakePrice
  <2>3. CASE bus' = bus /\ (queue' = queue \/ queue' = Append(queue, Refresh))
    <3>1. Range(Append(queue, Refresh)) = Range(queue) \cup {Refresh}
      BY RangeAppended
    <3>2. CASE queue' = queue
      BY <2>3, <3>2
    <3>3. CASE queue' = Append(queue, Refresh)
      <4>1. Notes' = Notes \cup {Refresh}
        BY <2>3, <3>1, <3>3
      <4> QED BY <4>1
    <3> QED BY <2>3, <3>2, <3>3
  <2>4. CASE queue' = queue /\ \E x : bus' = Append(bus, x)
    <3>1. PICK x : bus' = Append(bus, x)
      BY <2>4
    <3>2. Range(Append(bus, x)) = Range(bus) \cup {x}
      BY RangeAppended
    <3>3. Notes' = Notes \cup {x}
      BY <2>4, <3>1, <3>2
    <3> QED BY <3>3
  <2> HIDE DEF Notes, PortfolioTyped
  <2>5. ASSUME NEW e \in Entries, Begin(e) PROVE bus' = bus /\ queue' = queue
    BY <2>5 DEF Begin, portfolioVars, engineVars
  <2>6. CASE Decide
    BY <2>6, <2>3 DEF Decide, portfolioVars, engineVars
  <2>7. CASE Commit
    BY <2>7, <2>3 DEF Commit, engineVars
  <2>8. CASE Publish
    BY <2>8, <2>4 DEF Publish, Announce, engineVars
  <2>9. CASE Load \/ Pending \/ Resolve \/ Retry
    BY <2>9, <2>3 DEF Load, Pending, Fail, Resolve, Retry, LedgerStill
  <2>10. CASE Apply
    BY <2>10, <2>3 DEF Apply
  <2>11. CASE Raise
    BY <2>11, <2>3 DEF Raise, Fail
  <2>12. CASE Elsewhere
    BY <2>12, <2>3 DEF Elsewhere, EngineStill, engineVars
  <2>13. ASSUME NEW e \in Entries, CancelEntry(e) PROVE queue' = queue /\ \E x : bus' = Append(bus, x)
    BY <2>13 DEF CancelEntry, Announce, EngineStill, engineVars
  <2>14. ASSUME NEW e \in Entries, NEW effect, RecordFill(e, effect)
         PROVE  queue' = queue /\ \E x : bus' = Append(bus, x)
    BY <2>14 DEF RecordFill, Announce, EngineStill, engineVars
  <2>15. ASSUME NEW s, Price(s) PROVE queue' = queue /\ \E x : bus' = Append(bus, x)
    BY <2>15 DEF Price, EngineStill, engineVars
  <2>16. CASE UNCHANGED vars
    BY <2>16, <2>3 DEF vars, portfolioVars, engineVars
  <2> QED BY <2>1, <2>2, <2>3, <2>4, <2>5, <2>6, <2>7, <2>8, <2>9, <2>10, <2>11, <2>12, <2>13,
             <2>14, <2>15, <2>16, DecisionSteps
<1> QED BY <1>1 DEF Announced

---------------------------------------------------------------------------
(* The ledger grows at its end                                             *)

LEMMA FillsGrow ==
  ASSUME PortfolioTyped, [Next]_vars
  PROVE  /\ fills' \in Seq(Fills) /\ Len(fills') >= Len(fills)
         /\ \A i \in 1 .. Len(fills) : fills'[i] = fills[i]
<1> USE DEF PortfolioTyped
<1>1. CASE fills' = fills
  BY <1>1
<1>2. ASSUME NEW e \in Entries, NEW effect \in Effects, RecordFill(e, effect)
      PROVE  /\ fills' \in Seq(Fills) /\ Len(fills') >= Len(fills)
             /\ \A i \in 1 .. Len(fills) : fills'[i] = fills[i]
  <2>1. fills' = Append(fills, <<e, effect>>) /\ <<e, effect>> \in Fills
    BY <1>2 DEF RecordFill, Fills
  <2> HIDE DEF Fills
  <2> QED BY <2>1, AppendProperties
<1>3. \/ fills' = fills
      \/ \E e \in Entries, effect \in Effects : RecordFill(e, effect)
  <2> HIDE DEF PortfolioTyped
  <2> USE DEF ledgerVars, portfolioVars, vars, LedgerStill
  <2>1. ASSUME NEW e \in Entries, Begin(e) PROVE fills' = fills
    BY <2>1 DEF Begin
  <2>2. CASE Decide
    BY <2>2 DEF Decide
  <2>3. CASE Commit \/ Publish
    BY <2>3 DEF Commit, Publish
  <2>4. CASE Deliver \/ TakePrice \/ Take \/ Load \/ Pending \/ Apply \/ Resolve
    BY <2>4 DEF Deliver, TakePrice, Take, Load, Pending, Apply, Resolve
  <2>5. CASE Raise \/ Retry \/ Elsewhere
    BY <2>5 DEF Raise, Retry, Elsewhere
  <2>6. ASSUME NEW e \in Entries, CancelEntry(e) PROVE fills' = fills
    BY <2>6 DEF CancelEntry
  <2>7. ASSUME NEW s \in Symbols, Price(s) PROVE fills' = fills
    BY <2>7 DEF Price
  <2>8. CASE UNCHANGED vars
    BY <2>8
  <2> QED BY <2>1, <2>2, <2>3, <2>4, <2>5, <2>6, <2>7, <2>8, DecisionSteps
<1> QED BY <1>1, <1>2, <1>3

LEMMA OpenAfterKept ==
  ASSUME PortfolioTyped, [Next]_vars, NEW n \in 0 .. Len(fills)
  PROVE  OpenAfter(n)' = OpenAfter(n)
<1>1. \A i \in 1 .. n : fills'[i] = fills[i]
  BY FillsGrow DEF PortfolioTyped
<1>2. Applied(n)' = Applied(n)
  BY <1>1 DEF Applied
<1> QED BY <1>2 DEF OpenAfter

---------------------------------------------------------------------------
(* Typing                                                                  *)

LEMMA InstalledTyped ==
  ASSUME NEW n \in Nat
  PROVE  /\ LedgerState(n) \in [cursor : Nat, positions : SUBSET Entries, inflight : SUBSET Entries]
         /\ LedgerState(n).cursor = n /\ LedgerState(n).positions = OpenAfter(n)
         /\ LedgerState(n).inflight = {e \in Entries : status[e] = "reserved"}
BY DEF LedgerState, OpenAfter

LEMMA InstallTyped ==
  ASSUME PortfolioTyped, NEW n \in Nat, Install(LedgerState(n))
  PROVE  /\ state' \in [cursor : Nat, positions : SUBSET Entries, inflight : SUBSET Entries]
         /\ state'.cursor = n /\ marks' \in [Entries -> Int]
<1>1. state' = LedgerState(n)
  BY DEF Install
<1>2. marks' \in [Entries -> Int]
  BY DEF Install, PortfolioTyped, NoMark
<1> QED BY <1>1, <1>2, InstalledTyped

LEMMA AppendTyped ==
  ASSUME NEW S, NEW s \in Seq(S), NEW x \in S
  PROVE  Append(s, x) \in Seq(S)
BY AppendProperties

LEMMA TypedStep ==
  ASSUME PortfolioTyped, WorkerSound, DecisionSound, [Next]_vars
  PROVE  PortfolioTyped'
<1> DEFINE States == [cursor : Nat, positions : SUBSET Entries, inflight : SUBSET Entries]
           Heards == [fills : Nat, reserved : SUBSET Entries]
<1> USE DEF PortfolioTyped, LedgerStill, EngineStill, engineVars, ledgerVars
<1>1. ASSUME NEW e \in Entries, Begin(e) PROVE PortfolioTyped'
  BY <1>1 DEF Begin, portfolioVars
<1>2. CASE Decide
  BY <1>2 DEF Decide, portfolioVars
<1>3. CASE Commit
  <2>1. status' \in [Entries -> Statuses]
    BY <1>3 DEF Commit, Statuses
  <2> QED BY <1>3, <2>1 DEF Commit
<1>4. CASE Publish
  <2>1. current.entry \in Entries
    BY <1>4 DEF DecisionSound, Nobody, Publish
  <2>2. bus' \in Seq(NoteTypes)
    <3>1. [kind |-> "order", entry |-> current.entry] \in NoteTypes
      BY <2>1 DEF NoteTypes, OrderNotes
    <3> QED BY <1>4, <3>1, AppendTyped DEF Publish, Announce
  <2> QED BY <1>4, <2>2 DEF Publish
<1>5. CASE Deliver
  <2>1. Head(bus) \in NoteTypes /\ Tail(bus) \in Seq(NoteTypes)
    BY <1>5 DEF Deliver
  <2>2. Append(queue, Head(bus)) \in Seq(NoteTypes)
    BY <2>1, AppendTyped
  <2>3. queue' \in Seq(NoteTypes)
    BY <1>5, <2>2 DEF Deliver
  <2> QED BY <1>5, <2>1, <2>3 DEF Deliver
<1>6. CASE TakePrice
  <2>1. Head(queue) \in NoteTypes /\ Tail(queue) \in Seq(NoteTypes) /\ Head(queue).kind = "price"
    BY <1>6 DEF TakePrice
  <2>2. Head(queue).ts \in Int
    BY <2>1 DEF NoteTypes, OrderNotes, PriceNotes, Refresh
  <2>3. marks' \in [Entries -> Int]
    BY <1>6, <2>2 DEF TakePrice
  <2> QED BY <1>6, <2>1, <2>3 DEF TakePrice
<1>7. CASE Take
  <2>1. Head(queue) \in NoteTypes /\ Tail(queue) \in Seq(NoteTypes) /\ Head(queue).kind # "price"
    BY <1>7 DEF Take
  <2>2. unresolved' \subseteq Entries
    BY <1>7, <2>1 DEF Take, NoteTypes, OrderNotes, PriceNotes, Refresh
  <2>3. heard' \in Heards /\ heard'.fills = Len(fills)
    BY <1>7 DEF Take
  <2>4. /\ queue' = Tail(queue) /\ ready' = FALSE /\ pc' = "load"
        /\ UNCHANGED <<status, fills, applied, state, marks, bus, clock, batch, closedEvents>>
    BY <1>7 DEF Take
  <2>5. /\ status' \in [Entries -> Statuses] /\ fills' \in Seq(Fills) /\ applied' \in 0 .. Len(fills')
        /\ state' \in States /\ state'.cursor <= applied' /\ heard'.fills <= Len(fills')
    BY <2>3, <2>4
  <2>6. /\ marks' \in [Entries -> Int] /\ clock' \in Nat
        /\ bus' \in Seq(NoteTypes) /\ queue' \in Seq(NoteTypes) /\ batch' \in Seq(Fills)
        /\ closedEvents' \in Seq(Entries)
    BY <2>1, <2>4
  <2>7. ready' \in BOOLEAN /\ pc' \in {"idle", "load", "pending", "apply"}
    BY <2>4
  <2> QED BY <2>2, <2>3, <2>5, <2>6, <2>7
<1>8. CASE Load
  <2>1. state' \in States /\ state'.cursor = applied /\ marks' \in [Entries -> Int]
    BY <1>8, InstallTyped DEF Load
  <2> QED BY <1>8, <2>1 DEF Load
<1>9. CASE Pending
  <2>1. CASE Fail /\ UNCHANGED <<failures, closedEvents>> /\ LedgerStill
    <3>1. <<>> \in Seq(Fills)
      OBVIOUS
    <3> QED BY <2>1, <3>1 DEF Fail
  <2>2. SubSeq(fills, applied + 1, Len(fills)) \in Seq(Fills)
    OBVIOUS
  <2> QED BY <1>9, <2>1, <2>2 DEF Pending
<1>10. CASE Apply
  <2>1. CASE state.cursor < applied
    <3>1. state' \in States /\ state'.cursor = applied /\ marks' \in [Entries -> Int]
      BY <1>10, <2>1, InstallTyped DEF Apply
    <3>2. queue' \in Seq(NoteTypes)
      <4>1. Append(queue, Refresh) \in Seq(NoteTypes)
        BY AppendTyped DEF NoteTypes
      <4> QED BY <1>10, <2>1, <4>1 DEF Apply
    <3>3. /\ batch' = <<>> /\ pc' = "idle"
          /\ UNCHANGED <<status, fills, applied, ready, unresolved, clock, heard, bus, closedEvents>>
      BY <1>10, <2>1 DEF Apply
    <3>4. batch' \in Seq(Fills)
      BY <3>3
    <3> QED BY <3>1, <3>2, <3>3, <3>4
  <2>2. CASE state.cursor = applied
    <3>1. state' \in States /\ state'.cursor = applied + 1 /\ marks' \in [Entries -> Int]
      <4>1. Install(LedgerState(applied + 1)) /\ applied + 1 \in Nat
        BY <1>10, <2>2 DEF Apply
      <4> HIDE DEF PortfolioTyped
      <4> QED BY <4>1, InstallTyped
    <3>2. Head(batch) \in Fills /\ Tail(batch) \in Seq(Fills) /\ Head(batch)[1] \in Entries
      <4>1. batch \in Seq(Fills) /\ batch # <<>>
        BY <1>10 DEF Apply
      <4>2. Head(batch) \in Fills /\ Tail(batch) \in Seq(Fills)
        BY <4>1
      <4> QED BY <4>2 DEF Fills
    <3>3. closedEvents' \in Seq(Entries)
      <4>1. Append(closedEvents, Head(batch)[1]) \in Seq(Entries)
        BY <3>2, AppendTyped
      <4> QED BY <1>10, <2>2, <4>1 DEF Apply
    <3>4. applied + 1 <= Len(fills)
      <4>1. batch # <<>> /\ pc = "apply"
        BY <1>10 DEF Apply
      <4> QED BY <2>2, <4>1, EmptySeq DEF WorkerSound
    <3>5. /\ applied' = applied + 1 /\ batch' = Tail(batch)
          /\ UNCHANGED <<status, fills, ready, unresolved, clock, heard, queue, pc, bus>>
      BY <1>10, <2>2 DEF Apply
    <3>6. applied' \in 0 .. Len(fills') /\ state'.cursor <= applied' /\ applied' \in Nat
      BY <3>1, <3>4, <3>5
    <3>7. batch' \in Seq(Fills)
      BY <3>2, <3>5
    <3> QED BY <3>1, <3>3, <3>5, <3>6, <3>7
  <2>3. state.cursor \in Int /\ applied \in Int /\ state.cursor <= applied
    OBVIOUS
  <2> HIDE DEF PortfolioTyped
  <2> QED BY <2>1, <2>2, <2>3
<1>11. CASE Resolve
  BY <1>11 DEF Resolve
<1>12. CASE Raise
  <2>1. <<>> \in Seq(Fills)
    OBVIOUS
  <2>2. ASSUME pc = "apply", batch # <<>>, state.cursor = applied
        PROVE  applied + 1 <= Len(fills)
    BY <2>2, EmptySeq DEF WorkerSound
  <2>3. applied' \in 0 .. Len(fills) /\ applied' >= applied
    BY <1>12, <2>2 DEF Raise
  <2> QED BY <1>12, <2>1, <2>3 DEF Raise, Fail
<1>13. CASE Retry
  <2>1. queue' \in Seq(NoteTypes)
    BY <1>13, AppendTyped DEF Retry, NoteTypes
  <2> QED BY <1>13, <2>1 DEF Retry
<1>14. CASE Elsewhere
  BY <1>14 DEF Elsewhere
<1>15. ASSUME NEW e \in Entries, CancelEntry(e) PROVE PortfolioTyped'
  <2>1. bus' \in Seq(NoteTypes)
    <3>1. [kind |-> "order", entry |-> e] \in NoteTypes
      BY DEF NoteTypes, OrderNotes
    <3> QED BY <1>15, <3>1, AppendTyped DEF CancelEntry, Announce
  <2>2. status' \in [Entries -> Statuses]
    BY <1>15 DEF CancelEntry, Statuses
  <2> QED BY <1>15, <2>1, <2>2 DEF CancelEntry
<1>16. ASSUME NEW e \in Entries, NEW effect \in Effects, RecordFill(e, effect) PROVE PortfolioTyped'
  <2>1. bus' \in Seq(NoteTypes)
    <3>1. [kind |-> "order", entry |-> e] \in NoteTypes
      BY DEF NoteTypes, OrderNotes
    <3> QED BY <1>16, <3>1, AppendTyped DEF RecordFill, Announce
  <2>2. status' \in [Entries -> Statuses]
    BY <1>16 DEF RecordFill, Statuses
  <2>3. fills' \in Seq(Fills) /\ Len(fills') = Len(fills) + 1
    <3>1. <<e, effect>> \in Fills
      BY DEF Fills
    <3> QED BY <1>16, <3>1, AppendProperties DEF RecordFill
  <2> QED BY <1>16, <2>1, <2>2, <2>3 DEF RecordFill
<1>17. ASSUME NEW s \in Symbols, Price(s) PROVE PortfolioTyped'
  <2>1. PICK ts \in {clock, clock + 1} :
          bus' = Append(bus, [kind |-> "price", symbol |-> s, ts |-> ts,
                              fillsBefore |-> IF ts = clock THEN 0 ELSE Len(fills)])
    BY <1>17 DEF Price
  <2>2. [kind |-> "price", symbol |-> s, ts |-> ts,
         fillsBefore |-> IF ts = clock THEN 0 ELSE Len(fills)] \in NoteTypes
    <3>1. /\ ts \in Nat /\ (IF ts = clock THEN 0 ELSE Len(fills)) \in Nat
          /\ (IF ts = clock THEN 0 ELSE Len(fills)) > 0 => ts > 0
      OBVIOUS
    <3> HIDE DEF PortfolioTyped
    <3> QED BY <3>1 DEF NoteTypes, PriceNotes
  <2>3. bus' \in Seq(NoteTypes)
    BY <2>1, <2>2, AppendTyped
  <2> QED BY <1>17, <2>3 DEF Price
<1>18. CASE UNCHANGED vars
  BY <1>18 DEF vars, portfolioVars
<1> HIDE DEF PortfolioTyped
<1> QED BY <1>1, <1>2, <1>3, <1>4, <1>5, <1>6, <1>7, <1>8, <1>9, <1>10, <1>11, <1>12, <1>13,
           <1>14, <1>15, <1>16, <1>17, <1>18, DecisionSteps

---------------------------------------------------------------------------
(* The ledger                                                              *)

Committed(e) ==
  /\ current.step = "commit" /\ e = current.entry /\ status[e] = "none"
  /\ status' = [status EXCEPT ![e] = "reserved"] /\ fills' = fills

LEMMA LedgerSteps ==
  ASSUME DecisionSound, [Next]_vars
  PROVE  \/ UNCHANGED <<status, fills>>
         \/ \E e \in Entries : Committed(e)
         \/ \E e \in Entries : CancelEntry(e)
         \/ \E e \in Entries, effect \in Effects : RecordFill(e, effect)
<1> USE DEF LedgerStill, ledgerVars, portfolioVars, vars
<1>1. ASSUME NEW e \in Entries, Begin(e) PROVE UNCHANGED <<status, fills>>
  BY <1>1 DEF Begin
<1>2. CASE Decide \/ Publish
  BY <1>2 DEF Decide, Publish
<1>3. CASE Commit
  <2>1. current.step = "commit" /\ fills' = fills
    BY <1>3 DEF Commit
  <2>2. current.entry \in Entries /\ status[current.entry] = "none"
    BY <2>1 DEF DecisionSound, Nobody
  <2>3. CASE status' = status
    BY <2>1, <2>3
  <2>4. CASE status' = [status EXCEPT ![current.entry] = "reserved"]
    BY <2>1, <2>2, <2>4 DEF Committed
  <2> QED BY <1>3, <2>3, <2>4 DEF Commit
<1>4. CASE Deliver \/ TakePrice \/ Take \/ Load \/ Pending \/ Apply \/ Resolve
  BY <1>4 DEF Deliver, TakePrice, Take, Load, Pending, Apply, Resolve
<1>5. CASE Raise \/ Retry \/ Elsewhere
  BY <1>5 DEF Raise, Retry, Elsewhere
<1>6. ASSUME NEW s \in Symbols, Price(s) PROVE UNCHANGED <<status, fills>>
  BY <1>6 DEF Price
<1>7. CASE UNCHANGED vars
  BY <1>7
<1> QED BY <1>1, <1>2, <1>3, <1>4, <1>5, <1>6, <1>7, DecisionSteps

(* The status of an entry only moves forward.                              *)
LEMMA StatusForward ==
  ASSUME PortfolioTyped, DecisionSound, [Next]_vars, NEW x \in Entries
  PROVE  /\ status[x] # "none" => status'[x] # "none"
         /\ status[x] \in {"filled", "closed"} => status'[x] \in {"filled", "closed"}
         /\ status[x] = "closed" => status'[x] = "closed"
         /\ status[x] = "cancelled" => status'[x] = "cancelled"
         /\ status'[x] \in {"reserved", "filled"} =>
              \/ status[x] \in {"reserved", "filled"}
              \/ Committed(x)
<1> USE DEF PortfolioTyped
<1>1. CASE UNCHANGED <<status, fills>>
  BY <1>1
<1>2. ASSUME NEW e \in Entries, Committed(e)
      PROVE  /\ status[x] # "none" => status'[x] # "none"
             /\ status[x] \in {"filled", "closed"} => status'[x] = status[x]
             /\ status[x] = "cancelled" => status'[x] = "cancelled"
             /\ status'[x] = status[x] \/ Committed(x)
  BY <1>2 DEF Committed
<1>3. ASSUME NEW e \in Entries, CancelEntry(e)
      PROVE  /\ status[x] # "none" => status'[x] # "none"
             /\ status[x] \in {"filled", "closed"} => status'[x] = status[x]
             /\ status[x] = "cancelled" => status'[x] = "cancelled"
             /\ status'[x] = status[x] \/ status'[x] = "cancelled"
  BY <1>3 DEF CancelEntry
<1>4. ASSUME NEW e \in Entries, NEW effect \in Effects, RecordFill(e, effect)
      PROVE  /\ status[x] # "none" => status'[x] # "none"
             /\ status[x] \in {"filled", "closed"} => status'[x] \in {"filled", "closed"}
             /\ status[x] = "closed" => status'[x] = "closed"
             /\ status[x] = "cancelled" => status'[x] = "cancelled"
             /\ \/ status'[x] = status[x]
                \/ status[x] = "reserved"
                \/ status'[x] = "closed"
  BY <1>4 DEF RecordFill
<1> HIDE DEF PortfolioTyped
<1> QED BY <1>1, <1>2, <1>3, <1>4, LedgerSteps

LEMMA FillsStep ==
  ASSUME PortfolioTyped, FillsSound, DecisionSound, [Next]_vars
  PROVE  FillsSound'
<1> DEFINE Once(fs) == \A i, j \in DOMAIN fs : fs[i] = fs[j] => i = j
           Told(fs, st) == \A i \in DOMAIN fs :
              \/ fs[i][2] = "open" /\ st[fs[i][1]] \in {"filled", "closed"}
              \/ fs[i][2] = "close" /\ st[fs[i][1]] = "closed"
           Opened(fs, st) == \A e \in Entries : st[e] \in {"filled", "closed"} =>
              \E i \in DOMAIN fs : fs[i] = <<e, "open">>
<1>1. FillsSound = (Once(fills) /\ Told(fills, status) /\ Opened(fills, status))
  BY DEF FillsSound
<1>2. FillsSound' = (Once(fills') /\ Told(fills', status') /\ Opened(fills', status'))
  BY DEF FillsSound
<1>3. \A i \in DOMAIN fills : fills[i] \in Fills /\ fills[i][1] \in Entries
  BY DEF PortfolioTyped, Fills
<1>4. CASE fills' = fills /\ \A x \in Entries :
             /\ status[x] = "closed" => status'[x] = "closed"
             /\ status[x] \in {"filled", "closed"} <=> status'[x] \in {"filled", "closed"}
  <2>1. Told(fills, status')
    BY <1>1, <1>3, <1>4
  <2>2. Opened(fills, status')
    BY <1>1, <1>4
  <2> HIDE DEF Once, Told, Opened
  <2> QED BY <1>1, <1>2, <1>4, <2>1, <2>2
<1>5. ASSUME NEW e \in Entries, Committed(e)
      PROVE  fills' = fills /\ \A x \in Entries :
               /\ status[x] = "closed" => status'[x] = "closed"
               /\ status[x] \in {"filled", "closed"} <=> status'[x] \in {"filled", "closed"}
  BY <1>5 DEF Committed, PortfolioTyped
<1>6. ASSUME NEW e \in Entries, CancelEntry(e)
      PROVE  fills' = fills /\ \A x \in Entries :
               /\ status[x] = "closed" => status'[x] = "closed"
               /\ status[x] \in {"filled", "closed"} <=> status'[x] \in {"filled", "closed"}
  BY <1>6 DEF CancelEntry, PortfolioTyped
<1>7. ASSUME NEW e \in Entries, NEW effect \in Effects, RecordFill(e, effect)
      PROVE  FillsSound'
  <2>1. /\ status[e] = IF effect = "open" THEN "reserved" ELSE "filled"
        /\ status' = [status EXCEPT ![e] = IF effect = "open" THEN "filled" ELSE "closed"]
        /\ fills' = Append(fills, <<e, effect>>)
    BY <1>7 DEF RecordFill
  <2>2. /\ DOMAIN fills = 1 .. Len(fills) /\ DOMAIN fills' = 1 .. Len(fills) + 1
        /\ fills'[Len(fills) + 1] = <<e, effect>> /\ Len(fills) \in Nat
        /\ \A i \in 1 .. Len(fills) : fills'[i] = fills[i]
    BY <2>1, AppendProperties DEF PortfolioTyped, Fills
  <2>3. \A i \in DOMAIN fills : fills[i] # <<e, effect>>
    <3>1. SUFFICES ASSUME NEW i \in DOMAIN fills, fills[i] = <<e, effect>>
                   PROVE  FALSE
      OBVIOUS
    <3>2. fills[i][1] = e /\ fills[i][2] = effect
      BY <3>1
    <3>3. \/ effect = "open" /\ status[e] \in {"filled", "closed"}
          \/ effect = "close" /\ status[e] = "closed"
      BY <1>1, <3>2
    <3> QED BY <2>1, <3>3
  <2>4. Once(fills')
    <3>1. SUFFICES ASSUME NEW i \in DOMAIN fills', NEW j \in DOMAIN fills', fills'[i] = fills'[j]
                   PROVE  i = j
      OBVIOUS
    <3>2. CASE i \in 1 .. Len(fills) /\ j \in 1 .. Len(fills)
      <4>1. fills[i] = fills[j]
        BY <2>2, <3>1, <3>2
      <4> QED BY <1>1, <2>2, <3>2, <4>1
    <3>3. CASE i = Len(fills) + 1
      BY <2>2, <2>3, <3>1, <3>3
    <3>4. CASE j = Len(fills) + 1
      BY <2>2, <2>3, <3>1, <3>4
    <3> QED BY <2>2, <3>2, <3>3, <3>4
  <2>5. ASSUME NEW i \in DOMAIN fills'
        PROVE  \/ fills'[i][2] = "open" /\ status'[fills'[i][1]] \in {"filled", "closed"}
               \/ fills'[i][2] = "close" /\ status'[fills'[i][1]] = "closed"
    <3>1. CASE i = Len(fills) + 1
      BY <2>1, <2>2, <3>1 DEF Effects, PortfolioTyped
    <3>2. CASE i \in 1 .. Len(fills)
      <4>1. i \in DOMAIN fills /\ fills'[i] = fills[i] /\ fills[i] \in Fills
        BY <1>3, <2>2, <3>2
      <4>2. PICK x \in Entries, y \in Effects : fills[i] = <<x, y>>
        BY <4>1 DEF Fills
      <4>3. /\ status[x] \in {"filled", "closed"} => status'[x] \in {"filled", "closed"}
            /\ status[x] = "closed" => status'[x] = "closed"
        BY <4>2, StatusForward
      <4>4. \/ y = "open" /\ status[x] \in {"filled", "closed"}
            \/ y = "close" /\ status[x] = "closed"
        <5>1. \/ fills[i][2] = "open" /\ status[fills[i][1]] \in {"filled", "closed"}
              \/ fills[i][2] = "close" /\ status[fills[i][1]] = "closed"
          BY <1>1, <4>1
        <5>2. fills[i][1] = x /\ fills[i][2] = y
          BY <4>2
        <5> HIDE DEF Once, Told, Opened
        <5> QED BY <5>1, <5>2
      <4> QED BY <4>1, <4>2, <4>3, <4>4
    <3> QED BY <2>2, <3>1, <3>2
  <2>6. ASSUME NEW x \in Entries, status'[x] \in {"filled", "closed"}
        PROVE  \E i \in DOMAIN fills' : fills'[i] = <<x, "open">>
    <3>1. CASE x = e /\ effect = "open"
      BY <2>2, <3>1
    <3>2. CASE ~(x = e /\ effect = "open")
      <4>1. status[x] \in {"filled", "closed"}
        BY <2>1, <2>6, <3>2 DEF PortfolioTyped, Effects
      <4>2. PICK i \in DOMAIN fills : fills[i] = <<x, "open">>
        BY <1>1, <4>1
      <4> QED BY <2>2, <4>2
    <3> QED BY <3>1, <3>2
  <2> HIDE DEF Once
  <2> QED BY <1>2, <2>4, <2>5, <2>6
<1>8. CASE UNCHANGED <<status, fills>>
  BY <1>4, <1>8
<1> QED BY <1>4, <1>5, <1>6, <1>7, <1>8, LedgerSteps

---------------------------------------------------------------------------
(* The cache and the notifications                                         *)

(* What the cache holds changes when the worker installs a state of the    *)
(* ledger, and otherwise only by a mark.                                   *)
LEMMA CacheSteps ==
  ASSUME PortfolioTyped, WorkerSound, [Next]_vars
  PROVE  \/ UNCHANGED <<state, marks>>
         \/ TakePrice
         \/ \E n \in 0 .. Len(fills) : Install(LedgerState(n)) /\ UNCHANGED <<status, fills>>
<1> USE DEF LedgerStill, ledgerVars, portfolioVars, engineVars, EngineStill, vars
<1>1. ASSUME NEW e \in Entries, Begin(e) PROVE UNCHANGED <<state, marks>>
  BY <1>1 DEF Begin
<1>2. CASE Decide \/ Publish \/ Commit
  BY <1>2 DEF Decide, Publish, Commit
<1>3. CASE Deliver \/ Take \/ Pending \/ Resolve
  BY <1>3 DEF Deliver, Take, Pending, Fail, Resolve
<1>4. CASE Load
  <2>1. applied \in 0 .. Len(fills)
    BY DEF PortfolioTyped
  <2> QED BY <1>4, <2>1 DEF Load
<1>5. CASE Apply
  <2>1. CASE state.cursor < applied
    <3>1. applied \in 0 .. Len(fills)
      BY DEF PortfolioTyped
    <3> QED BY <1>5, <2>1, <3>1 DEF Apply
  <2>2. CASE ~(state.cursor < applied)
    <3>1. applied + 1 \in 0 .. Len(fills)
      <4>1. batch # <<>> /\ pc = "apply"
        BY <1>5 DEF Apply
      <4> QED BY <2>2, <4>1, EmptySeq DEF WorkerSound, PortfolioTyped
    <3> QED BY <1>5, <2>2, <3>1 DEF Apply
  <2> QED BY <2>1, <2>2
<1>6. CASE Raise \/ Retry \/ Elsewhere
  BY <1>6 DEF Raise, Fail, Retry, Elsewhere
<1>7. ASSUME NEW e \in Entries, CancelEntry(e) PROVE UNCHANGED <<state, marks>>
  BY <1>7 DEF CancelEntry
<1>8. ASSUME NEW e \in Entries, NEW effect, RecordFill(e, effect) PROVE UNCHANGED <<state, marks>>
  BY <1>8 DEF RecordFill
<1>9. ASSUME NEW s \in Symbols, Price(s) PROVE UNCHANGED <<state, marks>>
  BY <1>9 DEF Price
<1>10. CASE UNCHANGED vars
  BY <1>10
<1> QED BY <1>1, <1>2, <1>3, <1>4, <1>5, <1>6, <1>7, <1>8, <1>9, <1>10, DecisionSteps

LEMMA CacheStep ==
  ASSUME PortfolioTyped, CacheSound, WorkerSound, [Next]_vars
  PROVE  CacheSound'
<1>1. CASE UNCHANGED <<state, marks>>
  <2>1. OpenAfter(state.cursor)' = OpenAfter(state.cursor)
    <3>1. state.cursor \in 0 .. Len(fills) /\ state'.cursor = state.cursor
      BY <1>1 DEF PortfolioTyped
    <3> DEFINE n == state.cursor
    <3>2. Applied(state.cursor)' = Applied(state.cursor)
      <4>1. \A i \in 1 .. state.cursor : fills'[i] = fills[i]
        BY <3>1, FillsGrow DEF PortfolioTyped
      <4> QED BY <3>1, <4>1 DEF Applied
    <3> QED BY <3>2 DEF OpenAfter
  <2> QED BY <1>1, <2>1 DEF CacheSound
<1>2. CASE TakePrice
  <2>1. UNCHANGED <<state, fills>>
    BY <1>2 DEF TakePrice, LedgerStill, ledgerVars
  <2>2. OpenAfter(state.cursor)' = OpenAfter(state.cursor)
    BY <2>1 DEF OpenAfter, Applied
  <2> DEFINE t == Head(queue)
  <2>3. t \in NoteTypes /\ t.kind = "price"
    BY <1>2 DEF TakePrice, PortfolioTyped
  <2>4. t.ts \in Nat /\ t.fillsBefore \in Nat /\ (t.fillsBefore > 0 => t.ts > 0)
    BY <2>3 DEF NoteTypes, OrderNotes, PriceNotes, Refresh
  <2>5. ASSUME NEW p \in Entries, marks'[p] # NoMark
        PROVE  p \in state'.positions /\ marks'[p] > 0
    <3>1. CASE p \in state.positions /\ MarkAllowed(p, t)
      <4>1. marks'[p] = t.ts
        BY <1>2, <3>1 DEF TakePrice
      <4>2. \E i \in DOMAIN fills : fills[i] = <<p, "open">>
        <5>1. <<p, "open">> \in Applied(state.cursor)
          BY <3>1 DEF CacheSound, OpenAfter
        <5>2. 1 .. state.cursor \subseteq DOMAIN fills
          BY DEF PortfolioTyped
        <5> QED BY <5>1, <5>2 DEF Applied
      <4>3. OpenedAt(p) \in DOMAIN fills
        BY <4>2 DEF OpenedAt
      <4>4. OpenedAt(p) >= 1
        BY <4>3 DEF PortfolioTyped
      <4> HIDE DEF t
      <4>5. OpenedAt(p) \in Int
        BY <4>3 DEF PortfolioTyped
      <4> QED BY <2>1, <2>4, <3>1, <4>1, <4>4, <4>5 DEF MarkAllowed
    <3>2. CASE ~(p \in state.positions /\ MarkAllowed(p, t))
      BY <1>2, <2>1, <2>5, <3>2 DEF TakePrice, CacheSound
    <3> QED BY <3>1, <3>2
  <2> QED BY <2>1, <2>2, <2>5 DEF CacheSound
<1>3. ASSUME NEW n \in 0 .. Len(fills), Install(LedgerState(n)), UNCHANGED <<status, fills>>
      PROVE  CacheSound'
  <2>1. state'.cursor = n /\ state'.positions = OpenAfter(n)
    <3>1. state' = LedgerState(n) /\ n \in Nat
      BY <1>3 DEF Install, PortfolioTyped
    <3> QED BY <3>1, InstalledTyped
  <2>2. OpenAfter(state.cursor)' = OpenAfter(n)
    BY <1>3, <2>1 DEF OpenAfter, Applied
  <2>3. \A p \in Entries : marks'[p] # NoMark =>
          p \in state.positions \cap state'.positions /\ marks'[p] = marks[p]
    BY <1>3 DEF Install
  <2> QED BY <2>1, <2>2, <2>3 DEF CacheSound
<1> QED BY <1>1, <1>2, <1>3, CacheSteps

LEMMA ToldStep ==
  ASSUME PortfolioTyped, WorkerSound, DecisionSound, FillsTold, [Next]_vars
  PROVE  FillsTold'
<1>1. CASE Take
  BY <1>1 DEF Take, LedgerStill, ledgerVars, FillsTold, PortfolioTyped
<1>2. CASE ~Take
  <2>1. heard' = heard
    <3> USE DEF LedgerStill, portfolioVars, EngineStill, vars
    <3>1. ASSUME NEW e \in Entries, Begin(e) PROVE heard' = heard
      BY <3>1 DEF Begin
    <3>2. CASE Decide \/ Publish \/ Commit
      BY <3>2 DEF Decide, Publish, Commit
    <3>3. CASE Deliver \/ TakePrice \/ Load \/ Pending \/ Apply \/ Resolve
      BY <3>3 DEF Deliver, TakePrice, Load, Pending, Fail, Apply, Resolve
    <3>4. CASE Raise \/ Retry \/ Elsewhere
      BY <3>4 DEF Raise, Fail, Retry, Elsewhere
    <3>5. ASSUME NEW e \in Entries, CancelEntry(e) PROVE heard' = heard
      BY <3>5 DEF CancelEntry
    <3>6. ASSUME NEW e \in Entries, NEW effect, RecordFill(e, effect) PROVE heard' = heard
      BY <3>6 DEF RecordFill
    <3>7. ASSUME NEW s \in Symbols, Price(s) PROVE heard' = heard
      BY <3>7 DEF Price
    <3> QED BY <1>2, <3>1, <3>2, <3>3, <3>4, <3>5, <3>6, <3>7, DecisionSteps
  <2>2. Announced \subseteq Announced'
    BY <1>2, NotesKept
  <2>3. CASE fills' = fills
    BY <2>1, <2>2, <2>3 DEF FillsTold
  <2>4. ASSUME NEW e \in Entries, NEW effect \in Effects, RecordFill(e, effect)
        PROVE  FillsTold'
    <3>1. e \in Announced'
      <4>1. /\ bus' = Append(bus, [kind |-> "order", entry |-> e])
        BY <2>4 DEF RecordFill, Announce
      <4> DEFINE note == [kind |-> "order", entry |-> e]
      <4>2. note \in Range(bus)'
        BY <4>1, RangeAppended DEF PortfolioTyped
      <4>3. note.kind = "order" /\ note.entry = e
        OBVIOUS
      <4> HIDE DEF note
      <4> QED BY <4>2, <4>3 DEF Announced
    <3>2. /\ DOMAIN fills = 1 .. Len(fills) /\ DOMAIN fills' = 1 .. Len(fills) + 1
          /\ fills'[Len(fills) + 1] = <<e, effect>> /\ Len(fills) \in Nat
          /\ \A i \in 1 .. Len(fills) : fills'[i] = fills[i]
      BY <2>4, AppendProperties DEF RecordFill, PortfolioTyped, Fills
    <3>3. ASSUME NEW i \in DOMAIN fills', i > heard.fills PROVE fills'[i][1] \in Announced'
      <4>1. CASE i = Len(fills) + 1
        BY <3>1, <3>2, <4>1
      <4>2. CASE i \in 1 .. Len(fills)
        BY <2>2, <3>2, <3>3, <4>2 DEF FillsTold
      <4> QED BY <3>2, <4>1, <4>2
    <3> QED BY <2>1, <3>3 DEF FillsTold
  <2>5. \/ fills' = fills
        \/ \E e \in Entries, effect \in Effects : RecordFill(e, effect)
    BY LedgerSteps DEF Committed, CancelEntry
  <2> QED BY <2>3, <2>4, <2>5
<1> QED BY <1>1, <1>2

---------------------------------------------------------------------------
(* The worker                                                              *)

LEMMA InstalledHeeds ==
  ASSUME PortfolioTyped, FillsSound, FillsTold, WorkerSound,
         NEW n \in 0 .. Len(fills), state' = LedgerState(n),
         UNCHANGED <<status, fills, heard>>, Announced \subseteq Announced',
         NEW e \in heard.reserved
  PROVE  Heeded(e)'
<1>1. e \in Entries /\ status[e] \in Statuses \ {"none"}
  BY DEF PortfolioTyped, WorkerSound
<1>2. /\ state'.cursor = n /\ state'.positions = OpenAfter(n)
      /\ state'.inflight = {x \in Entries : status[x] = "reserved"}
  BY InstalledTyped
<1>3. CASE status[e] = "reserved"
  BY <1>1, <1>2, <1>3 DEF Heeded, Snapshot
<1>4. CASE status[e] \in {"closed", "cancelled"}
  BY <1>4 DEF Heeded
<1>5. CASE status[e] = "filled"
  <2>1. PICK i \in DOMAIN fills : fills[i] = <<e, "open">>
    BY <1>1, <1>5 DEF FillsSound
  <2>2. CASE i > heard.fills
    <3>1. e \in Announced
      BY <2>1, <2>2 DEF FillsTold
    <3> QED BY <3>1 DEF Heeded
  <2>3. CASE i \in n + 1 .. heard.fills
    BY <1>2, <2>1, <2>3 DEF Heeded
  <2>4. CASE i \in 1 .. n
    <3>1. <<e, "open">> \in Applied(n)
      BY <2>1, <2>4 DEF Applied
    <3>2. <<e, "close">> \notin Applied(n)
      <4>1. SUFFICES ASSUME NEW j \in 1 .. n, fills[j] = <<e, "close">>
                     PROVE  FALSE
        BY DEF Applied
      <4>2. j \in DOMAIN fills /\ fills[j][1] = e /\ fills[j][2] = "close"
        BY <4>1 DEF PortfolioTyped
      <4> QED BY <1>5, <4>2 DEF FillsSound
    <3>3. e \in state'.positions
      BY <1>1, <1>2, <3>1, <3>2 DEF OpenAfter
    <3> QED BY <3>3 DEF Heeded, Snapshot
  <2>5. i \in 1 .. n \/ i \in n + 1 .. heard.fills \/ i > heard.fills
    BY DEF PortfolioTyped
  <2> QED BY <2>2, <2>3, <2>4, <2>5
<1> QED BY <1>1, <1>3, <1>4, <1>5 DEF Statuses

LEMMA HeedStands ==
  ASSUME PortfolioTyped, DecisionSound, [Next]_vars, UNCHANGED <<state, heard>>,
         Announced \subseteq Announced', NEW e \in Entries, Heeded(e)
  PROVE  Heeded(e)'
<1>1. CASE e \in Snapshot \cup Announced
  BY <1>1 DEF Heeded, Snapshot
<1>2. CASE status[e] \in {"closed", "cancelled"}
  BY <1>2, StatusForward DEF Heeded
<1>3. ASSUME NEW i \in state.cursor + 1 .. heard.fills, fills[i] = <<e, "open">>
      PROVE  Heeded(e)'
  <2>1. i \in 1 .. Len(fills)
    BY DEF PortfolioTyped
  <2>2. fills'[i] = <<e, "open">>
    BY <1>3, <2>1, FillsGrow
  <2> QED BY <2>2 DEF Heeded
<1> QED BY <1>1, <1>2, <1>3 DEF Heeded

LEMMA WorkerStep ==
  ASSUME PortfolioTyped, FillsSound, FillsTold, WorkerSound, DecisionSound, [Next]_vars
  PROVE  WorkerSound'
<1> DEFINE Seen == \A e \in heard.reserved : Heeded(e)
           Batched == /\ state.cursor + Len(batch) \in heard.fills .. Len(fills)
                      /\ \A i \in 1 .. Len(batch) : batch[i] = fills[state.cursor + i]
<1>1. CASE Take
  <2>1. /\ ready' = FALSE /\ pc' = "load" /\ status' = status
        /\ heard'.reserved = {e \in Entries : status[e] # "none"}
    BY <1>1 DEF Take, LedgerStill, ledgerVars
  <2> QED BY <2>1 DEF WorkerSound
<1> SUFFICES ASSUME ~Take PROVE WorkerSound'
  BY <1>1
<1>2. Announced \subseteq Announced'
  BY NotesKept
<1>3. heard.reserved \subseteq Entries
  BY DEF PortfolioTyped
<1>4. ASSUME heard' = heard PROVE \A e \in heard'.reserved : status'[e] # "none"
  BY <1>3, <1>4, StatusForward DEF WorkerSound
<1>5. ASSUME UNCHANGED <<state, heard>>, Seen PROVE Seen'
  BY <1>2, <1>3, <1>5, HeedStands
<1>6. CASE UNCHANGED <<state, heard, pc, batch>> /\ (ready' => ready)
  <2>1. (ready \/ pc \in {"pending", "apply"}) => Seen'
    BY <1>5, <1>6 DEF WorkerSound
  <2>2. Batched => Batched'
    <3>1. SUFFICES ASSUME Batched PROVE Batched'
      OBVIOUS
    <3>2. state'.cursor + Len(batch') \in heard'.fills .. Len(fills')
      BY <1>6, <3>1, FillsGrow DEF PortfolioTyped
    <3>3. ASSUME NEW i \in 1 .. Len(batch') PROVE batch'[i] = fills'[state'.cursor + i]
      <4>1. state.cursor + i \in 1 .. Len(fills) /\ batch[i] = fills[state.cursor + i]
        BY <1>6, <3>1, <3>3 DEF PortfolioTyped
      <4> QED BY <1>6, <4>1, FillsGrow
    <3> QED BY <3>2, <3>3
  <2> QED BY <1>4, <1>6, <2>1, <2>2 DEF WorkerSound
<1> USE DEF LedgerStill, ledgerVars
<1>7. CASE Load
  <2>1. /\ pc = "load" /\ pc' = "pending" /\ state' = LedgerState(applied)
        /\ UNCHANGED <<status, fills, heard, ready>>
    BY <1>7 DEF Load, Install
  <2>2. ~ready
    BY <2>1 DEF WorkerSound
  <2>3. applied \in 0 .. Len(fills)
    BY DEF PortfolioTyped
  <2>4. Seen'
    BY <1>2, <2>1, <2>3, InstalledHeeds
  <2> QED BY <1>4, <2>1, <2>2, <2>4 DEF WorkerSound
<1>8. CASE Pending
  <2>1. CASE Fail
    <3>1. ready' = FALSE /\ pc' = "idle" /\ heard' = heard
      BY <2>1 DEF Fail
    <3> QED BY <1>4, <3>1 DEF WorkerSound
  <2>2. CASE ~Fail
    <3>1. /\ pc = "pending" /\ state.cursor = applied
          /\ batch' = SubSeq(fills, applied + 1, Len(fills)) /\ pc' = "apply"
          /\ UNCHANGED <<state, ready, heard, fills>>
      BY <1>8, <2>2 DEF Pending
    <3>2. ~ready /\ Seen
      BY <3>1 DEF WorkerSound
    <3>3. Batched'
      <4>1. /\ Len(batch') = Len(fills) - applied
            /\ \A i \in 1 .. Len(fills) - applied : batch'[i] = fills[applied + i]
        BY <3>1 DEF PortfolioTyped
      <4>2. state'.cursor = applied /\ fills' = fills /\ heard' = heard
        BY <3>1
      <4>3. applied + (Len(fills) - applied) = Len(fills) /\ Len(fills) \in heard.fills .. Len(fills)
        BY DEF PortfolioTyped
      <4> QED BY <4>1, <4>2, <4>3
    <3> QED BY <1>4, <1>5, <3>1, <3>2, <3>3 DEF WorkerSound
  <2> QED BY <2>1, <2>2
<1>9. CASE Apply
  <2>1. pc = "apply" /\ batch # <<>> /\ ~ready
    BY <1>9 DEF Apply, WorkerSound
  <2>2. CASE state.cursor < applied
    <3>1. ready' = ready /\ pc' = "idle" /\ heard' = heard
      BY <1>9, <2>2 DEF Apply
    <3> QED BY <1>4, <2>1, <3>1 DEF WorkerSound
  <2>3. CASE ~(state.cursor < applied)
    <3>1. /\ batch' = Tail(batch) /\ UNCHANGED <<status, fills, ready, heard, pc>>
          /\ state' = LedgerState(applied + 1) /\ state.cursor = applied
      BY <1>9, <2>3 DEF Apply, Install, PortfolioTyped
    <3>2. state'.cursor = state.cursor + 1
      BY <3>1, InstalledTyped DEF PortfolioTyped
    <3>3. Batched
      BY <2>1 DEF WorkerSound
    <3>4. /\ Len(batch) \in Nat \ {0} /\ Len(batch') = Len(batch) - 1
          /\ \A i \in 1 .. Len(batch) - 1 : batch'[i] = batch[i + 1]
      BY <2>1, <3>1, EmptySeq DEF PortfolioTyped
    <3>5. Batched'
      <4>1. state'.cursor + Len(batch') \in heard'.fills .. Len(fills')
        BY <3>1, <3>2, <3>3, <3>4 DEF PortfolioTyped
      <4>2. ASSUME NEW i \in 1 .. Len(batch') PROVE batch'[i] = fills'[state'.cursor + i]
        <5>1. i + 1 \in 1 .. Len(batch) /\ batch'[i] = batch[i + 1]
          BY <3>4
        <5>2. batch[i + 1] = fills[state.cursor + (i + 1)]
          BY <3>3, <5>1
        <5>3. state.cursor + (i + 1) = state'.cursor + i
          BY <3>2, <3>4 DEF PortfolioTyped
        <5> QED BY <3>1, <5>1, <5>2, <5>3
      <4> QED BY <4>1, <4>2
    <3>6. applied + 1 \in 0 .. Len(fills)
      BY <3>1, <3>3, <3>4 DEF PortfolioTyped
    <3>7. Seen'
      BY <1>2, <3>1, <3>6, InstalledHeeds
    <3> HIDE DEF Batched, Seen
    <3>8. heard' = heard /\ pc' = "apply" /\ ~ready'
      BY <2>1, <3>1
    <3>9. \A e \in heard'.reserved : status'[e] # "none"
      BY <1>4, <3>8
    <3> USE DEF Batched, Seen
    <3> QED BY <3>5, <3>7, <3>8, <3>9 DEF WorkerSound
  <2> QED BY <2>2, <2>3
<1>10. CASE Resolve
  <2>1. /\ pc = "apply" /\ batch = <<>> /\ pc' = "idle" /\ ready' \in BOOLEAN
        /\ UNCHANGED <<state, heard>>
    BY <1>10 DEF Resolve
  <2>2. Seen /\ state.cursor >= heard.fills
    BY <2>1 DEF WorkerSound, PortfolioTyped
  <2> QED BY <1>4, <1>5, <2>1, <2>2 DEF WorkerSound
<1>11. CASE Raise
  <2>1. ready' = FALSE /\ pc' = "idle" /\ heard' = heard
    BY <1>11 DEF Raise, Fail
  <2> QED BY <1>4, <2>1 DEF WorkerSound
<1>12. \/ UNCHANGED <<state, heard, pc, batch>> /\ (ready' => ready)
       \/ Load \/ Pending \/ Apply \/ Resolve \/ Raise
  <2> USE DEF portfolioVars, engineVars, EngineStill, vars
  <2>1. ASSUME NEW e \in Entries, Begin(e)
        PROVE  UNCHANGED <<state, heard, pc, batch>> /\ (ready' => ready)
    BY <2>1 DEF Begin
  <2>2. CASE Decide \/ Publish \/ Commit
    BY <2>2 DEF Decide, Publish, Commit
  <2>3. CASE Deliver \/ TakePrice \/ Retry \/ Elsewhere
    BY <2>3 DEF Deliver, TakePrice, Retry, Elsewhere
  <2>4. ASSUME NEW e \in Entries, CancelEntry(e)
        PROVE  UNCHANGED <<state, heard, pc, batch>> /\ (ready' => ready)
    BY <2>4 DEF CancelEntry
  <2>5. ASSUME NEW e \in Entries, NEW effect, RecordFill(e, effect)
        PROVE  UNCHANGED <<state, heard, pc, batch>> /\ (ready' => ready)
    BY <2>5 DEF RecordFill
  <2>6. ASSUME NEW s \in Symbols, Price(s)
        PROVE  UNCHANGED <<state, heard, pc, batch>> /\ (ready' => ready)
    BY <2>6 DEF Price
  <2>7. CASE UNCHANGED vars
    BY <2>7
  <2> QED BY <2>1, <2>2, <2>3, <2>4, <2>5, <2>6, <2>7, DecisionSteps
<1> QED BY <1>6, <1>7, <1>8, <1>9, <1>10, <1>11, <1>12

LEMMA ClosingsStep ==
  ASSUME PortfolioTyped, FillsSound, WorkerSound, DecisionSound, ClosingsSound, [Next]_vars
  PROVE  ClosingsSound'
<1> DEFINE Closing(c) == \E k \in 1 .. applied : fills[k] = <<c, "close">>
<1>1. applied' \in Nat /\ applied' <= Len(fills') /\ Len(fills') \in Nat
  BY TypedStep DEF PortfolioTyped
<1>2. ASSUME applied' >= applied, NEW c, Closing(c) PROVE Closing(c)'
  <2>1. PICK k \in 1 .. applied : fills[k] = <<c, "close">>
    BY <1>2
  <2>2. k \in 1 .. Len(fills) /\ k \in 1 .. applied'
    BY <1>1, <1>2 DEF PortfolioTyped
  <2> QED BY <2>1, <2>2, FillsGrow
<1>3. CASE closedEvents' = closedEvents /\ applied' >= applied
  <2> HIDE DEF Closing
  <2>1. \A i \in DOMAIN closedEvents : Closing(closedEvents[i])
    BY DEF ClosingsSound, Closing
  <2>2. \A i \in DOMAIN closedEvents : Closing(closedEvents[i])'
    BY <1>2, <1>3, <2>1
  <2> QED BY <1>3, <2>2 DEF ClosingsSound, Closing
<1>4. CASE Apply /\ state.cursor = applied
  <2>1. /\ batch # <<>> /\ applied' = applied + 1 /\ pc = "apply" /\ fills' = fills
        /\ closedEvents' = IF Head(batch)[2] = "close"
                           THEN Append(closedEvents, Head(batch)[1]) ELSE closedEvents
    BY <1>4 DEF Apply, PortfolioTyped
  <2>2. CASE Head(batch)[2] # "close"
    BY <1>3, <2>1, <2>2 DEF PortfolioTyped
  <2>3. CASE Head(batch)[2] = "close"
    <3> DEFINE c == Head(batch)[1]
    <3>1. /\ Len(batch) \in Nat \ {0} /\ Head(batch) = batch[1] /\ Head(batch) \in Fills
      BY <2>1, EmptySeq DEF PortfolioTyped
    <3>2. Head(batch) = fills[applied + 1]
      BY <1>4, <2>1, <3>1 DEF WorkerSound
    <3>3. fills[applied + 1] = <<c, "close">> /\ c \in Entries
      BY <2>3, <3>1, <3>2 DEF Fills
    <3>4. applied + 1 \in 1 .. Len(fills)
      BY <1>1, <2>1 DEF PortfolioTyped
    <3>5. /\ closedEvents' = Append(closedEvents, c)
          /\ DOMAIN closedEvents' = 1 .. Len(closedEvents) + 1
          /\ closedEvents'[Len(closedEvents) + 1] = c
          /\ Len(closedEvents) \in Nat /\ DOMAIN closedEvents = 1 .. Len(closedEvents)
          /\ \A i \in 1 .. Len(closedEvents) : closedEvents'[i] = closedEvents[i]
      <4> HIDE DEF c
      <4> QED BY <2>1, <2>3, <3>3, AppendProperties DEF PortfolioTyped, c
    <3> HIDE DEF c
    <3>6. ASSUME NEW i \in DOMAIN closedEvents PROVE closedEvents[i] # c
      <4>1. PICK k \in 1 .. applied : fills[k] = <<closedEvents[i], "close">>
        BY DEF ClosingsSound
      <4>2. k \in DOMAIN fills /\ applied + 1 \in DOMAIN fills /\ k # applied + 1
        BY <3>4 DEF PortfolioTyped
      <4>3. fills[k] # fills[applied + 1]
        BY <4>2 DEF FillsSound
      <4> QED BY <3>3, <4>1, <4>3
    <3>7. ASSUME NEW i \in DOMAIN closedEvents', NEW j \in DOMAIN closedEvents',
                 closedEvents'[i] = closedEvents'[j]
          PROVE  i = j
      <4>1. CASE i \in 1 .. Len(closedEvents) /\ j \in 1 .. Len(closedEvents)
        <5>1. closedEvents[i] = closedEvents[j]
          BY <3>5, <3>7, <4>1
        <5> QED BY <3>5, <4>1, <5>1 DEF ClosingsSound
      <4>2. CASE i = Len(closedEvents) + 1
        BY <3>5, <3>6, <3>7, <4>2
      <4>3. CASE j = Len(closedEvents) + 1
        BY <3>5, <3>6, <3>7, <4>3
      <4> QED BY <3>5, <4>1, <4>2, <4>3
    <3>8. ASSUME NEW i \in DOMAIN closedEvents'
          PROVE  \E k \in 1 .. applied' : fills'[k] = <<closedEvents'[i], "close">>
      <4>1. CASE i = Len(closedEvents) + 1
        BY <2>1, <3>3, <3>4, <3>5, <4>1, <1>1
      <4>2. CASE i \in DOMAIN closedEvents
        <5>1. PICK k \in 1 .. applied : fills[k] = <<closedEvents[i], "close">>
          BY <4>2 DEF ClosingsSound
        <5>2. k \in 1 .. applied'
          BY <2>1 DEF PortfolioTyped
        <5> QED BY <2>1, <3>5, <4>2, <5>1, <5>2
      <4> QED BY <3>5, <4>1, <4>2
    <3> QED BY <3>7, <3>8 DEF ClosingsSound
  <2> QED BY <2>2, <2>3
<1>5. \/ closedEvents' = closedEvents /\ applied' >= applied
      \/ Apply /\ state.cursor = applied
  <2> USE DEF LedgerStill, ledgerVars, portfolioVars, EngineStill, vars, PortfolioTyped
  <2>1. ASSUME NEW e \in Entries, Begin(e) PROVE closedEvents' = closedEvents /\ applied' >= applied
    BY <2>1 DEF Begin
  <2>2. CASE Decide \/ Publish \/ Commit
    BY <2>2 DEF Decide, Publish, Commit
  <2>3. CASE Deliver \/ TakePrice \/ Take \/ Load \/ Resolve
    BY <2>3 DEF Deliver, TakePrice, Take, Load, Resolve
  <2>4. CASE Pending
    BY <2>4 DEF Pending
  <2>5. CASE Apply
    BY <2>5 DEF Apply
  <2>6. CASE Raise \/ Retry \/ Elsewhere
    BY <2>6 DEF Raise, Retry, Elsewhere
  <2>7. ASSUME NEW e \in Entries, CancelEntry(e)
        PROVE  closedEvents' = closedEvents /\ applied' >= applied
    BY <2>7 DEF CancelEntry
  <2>8. ASSUME NEW e \in Entries, NEW effect, RecordFill(e, effect)
        PROVE  closedEvents' = closedEvents /\ applied' >= applied
    BY <2>8 DEF RecordFill
  <2>9. ASSUME NEW s \in Symbols, Price(s) PROVE closedEvents' = closedEvents /\ applied' >= applied
    BY <2>9 DEF Price
  <2>10. CASE UNCHANGED vars
    BY <2>10
  <2> HIDE DEF PortfolioTyped
  <2> QED BY <2>1, <2>2, <2>3, <2>4, <2>5, <2>6, <2>7, <2>8, <2>9, <2>10, DecisionSteps
<1> QED BY <1>3, <1>4, <1>5

---------------------------------------------------------------------------
(* The authorizer                                                          *)

LEMMA DecisionStep ==
  ASSUME PortfolioTyped, DecisionSound, [Next]_vars
  PROVE  DecisionSound'
<1> DEFINE Outcomes == {"none", "approved", "rejected", "dropped"}
           Hands == [entry : Entries \ waiting, step : {"decide", "commit", "publish"}]
<1>1. \A x \in Entries : status[x] # "none" => status'[x] # "none"
  BY StatusForward
<1>2. ASSUME NEW e \in Entries, Begin(e) PROVE DecisionSound'
  <2>1. /\ current = Nobody /\ e \in waiting /\ waiting' = waiting \ {e}
        /\ current' = [entry |-> e, step |-> "decide"] /\ UNCHANGED <<status, outcome>>
    BY <1>2 DEF Begin, portfolioVars, ledgerVars
  <2>2. current' \in [entry : Entries \ waiting', step : {"decide", "commit", "publish"}]
    BY <2>1
  <2> QED BY <2>1, <2>2 DEF DecisionSound
<1>3. CASE Decide
  <2>1. current.step = "decide" /\ current \in Hands /\ UNCHANGED <<status, waiting>>
    BY <1>3 DEF Decide, DecisionSound, Nobody, portfolioVars, ledgerVars
  <2>2. CASE \E ending \in {"dropped", "rejected"} : End(ending)
    <3>1. current' = Nobody /\ outcome' \in [Entries -> Outcomes]
      BY <2>1, <2>2 DEF End, DecisionSound
    <3>2. \A x \in Entries : outcome'[x] = "approved" => outcome[x] = "approved"
      BY <2>1, <2>2 DEF End, DecisionSound
    <3> QED BY <2>1, <3>1, <3>2 DEF DecisionSound, Nobody
  <2>3. CASE current' = [current EXCEPT !.step = "commit"] /\ outcome' = outcome
    <3>1. current' \in [entry : Entries \ waiting', step : {"decide", "commit", "publish"}]
          /\ current'.entry = current.entry /\ current'.step = "commit"
      BY <2>1, <2>3
    <3> QED BY <2>1, <2>3, <3>1 DEF DecisionSound
  <2> QED BY <1>3, <2>2, <2>3 DEF Decide
<1>4. CASE Commit
  <2>1. /\ current.step = "commit" /\ current \in Hands /\ waiting' = waiting
        /\ status[current.entry] = "none"
    BY <1>4 DEF Commit, DecisionSound, Nobody
  <2>2. CASE End("dropped") /\ status' = status
    <3>1. current' = Nobody /\ outcome' \in [Entries -> Outcomes]
      BY <2>1, <2>2 DEF End, DecisionSound
    <3>2. \A x \in Entries : outcome'[x] = "approved" => outcome[x] = "approved"
      BY <2>1, <2>2 DEF End, DecisionSound
    <3> QED BY <2>1, <2>2, <3>1, <3>2 DEF DecisionSound, Nobody
  <2>3. CASE /\ status' = [status EXCEPT ![current.entry] = "reserved"]
             /\ current' = [current EXCEPT !.step = "publish"] /\ outcome' = outcome
    <3>1. current' \in [entry : Entries \ waiting', step : {"decide", "commit", "publish"}]
          /\ current'.entry = current.entry /\ current'.step = "publish"
      BY <2>1, <2>3
    <3>2. status'[current.entry] = "reserved" /\ \A x \in waiting : status'[x] = status[x]
      BY <2>1, <2>3 DEF DecisionSound, PortfolioTyped
    <3> QED BY <1>1, <2>1, <2>3, <3>1, <3>2 DEF DecisionSound
  <2> QED BY <1>4, <2>2, <2>3 DEF Commit
<1>5. CASE Publish
  <2>1. /\ current.step = "publish" /\ current \in Hands /\ UNCHANGED <<status, waiting>>
        /\ status[current.entry] # "none" /\ End("approved")
    BY <1>5 DEF Publish, DecisionSound, Nobody, ledgerVars
  <2>2. current' = Nobody /\ outcome' \in [Entries -> Outcomes]
    BY <2>1 DEF End, DecisionSound
  <2>3. \A x \in Entries : outcome'[x] = "approved" => outcome[x] = "approved" \/ x = current.entry
    BY <2>1 DEF End, DecisionSound
  <2> QED BY <2>1, <2>2, <2>3 DEF DecisionSound, Nobody
<1>6. ASSUME UNCHANGED authVars,
             \A x \in Entries : status[x] = "none" => status'[x] = "none"
      PROVE  DecisionSound'
  <2>1. UNCHANGED <<waiting, current, outcome>>
    BY <1>6 DEF authVars
  <2>2. current = Nobody \/ current.entry \in Entries
    BY DEF DecisionSound
  <2> QED BY <1>1, <1>6, <2>1, <2>2 DEF DecisionSound, Nobody
<1>7. CASE UNCHANGED authVars /\ status' = status
  BY <1>6, <1>7
<1>8. ASSUME UNCHANGED authVars, NEW e \in Entries, CancelEntry(e) PROVE DecisionSound'
  <2>1. \A x \in Entries : status[x] = "none" => status'[x] = "none"
    BY <1>8 DEF CancelEntry, PortfolioTyped
  <2> QED BY <1>6, <1>8, <2>1
<1>9. ASSUME UNCHANGED authVars, NEW e \in Entries, NEW effect \in Effects, RecordFill(e, effect)
      PROVE  DecisionSound'
  <2>1. \A x \in Entries : status[x] = "none" => status'[x] = "none"
    BY <1>9 DEF RecordFill, PortfolioTyped
  <2> QED BY <1>6, <1>9, <2>1
<1>10. CASE UNCHANGED vars
  BY <1>7, <1>10 DEF vars, portfolioVars, ledgerVars
<1>11. CASE /\ UNCHANGED authVars
            /\ \/ Deliver \/ TakePrice \/ Take \/ Load \/ Pending \/ Apply \/ Resolve
               \/ Raise \/ Retry \/ Elsewhere
  <2>1. status' = status
    BY <1>11 DEF LedgerStill, ledgerVars, Deliver, TakePrice, Take, Load, Pending, Apply, Resolve,
         Raise, Retry, Elsewhere
  <2> QED BY <1>7, <1>11, <2>1
<1>12. ASSUME UNCHANGED authVars, NEW s \in Symbols, Price(s) PROVE DecisionSound'
  <2>1. status' = status
    BY <1>12 DEF Price, ledgerVars
  <2> QED BY <1>7, <1>12, <2>1
<1> QED BY <1>2, <1>3, <1>4, <1>5, <1>8, <1>9, <1>10, <1>11, <1>12, DecisionSteps

LEMMA LimitStep ==
  ASSUME PortfolioTyped, DecisionSound, LimitKept, [Next]_vars
  PROVE  LimitKept'
<1>1. IsFiniteSet(Exposed) /\ Exposed \subseteq Entries /\ Cardinality(Exposed) \in Nat
  BY PortfolioAssumption, FS_Subset, FS_CardinalityType DEF Exposed
<1>2. MaxOpen \in Nat
  BY AuthorizationAssumption
<1>3. CASE /\ UNCHANGED <<blind, current>>
           /\ \A x \in Entries : status'[x] \in {"reserved", "filled"} => status[x] \in {"reserved", "filled"}
  <2>1. Exposed' \subseteq Exposed
    BY <1>3 DEF Exposed
  <2>2. Cardinality(Exposed') <= Cardinality(Exposed) /\ Cardinality(Exposed') \in Nat
    BY <1>1, <2>1, FS_Subset, FS_CardinalityType
  <2>3. Cardinality(Exposed)' = Cardinality(Exposed')
    OBVIOUS
  <2> QED BY <1>1, <1>2, <1>3, <2>1, <2>2, <2>3 DEF LimitKept, PlaceLeft
<1>4. CASE Decide
  <2>1. Exposed' = Exposed /\ current.step = "decide" /\ UNCHANGED portfolioVars
    BY <1>4 DEF Decide, Exposed, portfolioVars, ledgerVars
  <2>2. CASE current' = Nobody /\ blind' = blind
    BY <2>1, <2>2 DEF LimitKept, PlaceLeft, Nobody
  <2>3. CASE /\ WithinLimits(current.entry) /\ current' = [current EXCEPT !.step = "commit"]
             /\ blind' = IF Exposed \subseteq Snapshot THEN blind ELSE blind \cup {current.entry}
    <3>1. SUFFICES ASSUME blind' = {} PROVE LimitKept'
      BY DEF LimitKept
    <3>2. blind = {} /\ Exposed \subseteq Snapshot
      BY <2>3, <3>1
    <3>3. IsFiniteSet(Snapshot) /\ Snapshot \subseteq Entries
      BY PortfolioAssumption, FS_Subset DEF Snapshot, PortfolioTyped
    <3>4. Cardinality(Exposed) <= Cardinality(Snapshot) /\ Cardinality(Snapshot) \in Nat
      BY <3>2, <3>3, FS_Subset, FS_CardinalityType
    <3>5. Cardinality(Exposed) < MaxOpen
      BY <1>1, <1>2, <2>3, <3>4 DEF WithinLimits
    <3>6. \A x \in Exposed : SymbolOf[x] # SymbolOf[current.entry]
      BY <2>3, <3>2 DEF WithinLimits
    <3>7. current'.entry = current.entry
      BY <2>1, <2>3 DEF DecisionSound, Nobody
    <3>8. PlaceLeft'
      BY <2>1, <3>5, <3>6, <3>7 DEF PlaceLeft
    <3> QED BY <2>1, <3>2, <3>8 DEF LimitKept
  <2> QED BY <1>4, <2>2, <2>3 DEF Decide, End
<1>5. CASE Commit
  <2> DEFINE e == current.entry
  <2>1. current.step = "commit" /\ e \in Entries /\ status[e] = "none" /\ blind' = blind
    BY <1>5 DEF Commit, DecisionSound, Nobody
  <2>2. CASE status' = status /\ current' = Nobody
    <3>1. Exposed' = Exposed
      BY <2>2 DEF Exposed
    <3> QED BY <2>1, <2>2, <3>1 DEF LimitKept, PlaceLeft, Nobody
  <2>3. CASE /\ status' = [status EXCEPT ![e] = "reserved"]
             /\ current' = [current EXCEPT !.step = "publish"]
    <3>1. SUFFICES ASSUME blind = {} PROVE LimitKept'
      BY <2>1 DEF LimitKept
    <3>2. Exposed' = Exposed \cup {e} /\ e \notin Exposed
      BY <2>1, <2>3 DEF Exposed, PortfolioTyped
    <3>3. Cardinality(Exposed \cup {e}) = Cardinality(Exposed) + 1
      BY <1>1, <3>2, FS_AddElement
    <3>4. PlaceLeft
      BY <3>1 DEF LimitKept
    <3>5. Cardinality(Exposed') <= MaxOpen
      BY <1>1, <1>2, <2>1, <3>2, <3>3, <3>4 DEF PlaceLeft
    <3>6. \A c, d \in Exposed' : SymbolOf[c] = SymbolOf[d] => c = d
      <4>1. \A x \in Exposed : SymbolOf[x] # SymbolOf[e]
        BY <2>1, <3>4 DEF PlaceLeft
      <4> HIDE DEF e
      <4> QED BY <3>1, <3>2, <4>1 DEF LimitKept
    <3>7. current'.step = "publish"
      BY <2>1, <2>3 DEF DecisionSound, Nobody
    <3> QED BY <3>5, <3>6, <3>7 DEF LimitKept, PlaceLeft
  <2> QED BY <1>5, <2>2, <2>3 DEF Commit, End
<1>6. CASE Publish
  <2>1. Exposed' = Exposed /\ current' = Nobody /\ blind' = blind
    BY <1>6 DEF Publish, End, Exposed, ledgerVars
  <2> QED BY <2>1 DEF LimitKept, PlaceLeft, Nobody
<1>7. ASSUME NEW e \in Entries, Begin(e) PROVE LimitKept'
  <2>1. Exposed' = Exposed /\ current'.step = "decide" /\ blind' = blind
    BY <1>7 DEF Begin, Exposed, portfolioVars, ledgerVars
  <2> QED BY <2>1 DEF LimitKept, PlaceLeft
<1>8. CASE UNCHANGED vars
  BY <1>3, <1>8 DEF vars, authVars, portfolioVars, ledgerVars
<1>9. CASE UNCHANGED authVars /\ ~Commit
  <2>1. UNCHANGED <<blind, current>>
    BY <1>9 DEF authVars
  <2>2. ASSUME NEW x \in Entries, status'[x] \in {"reserved", "filled"}
        PROVE  status[x] \in {"reserved", "filled"}
    <3>1. CASE UNCHANGED <<status, fills>>
      BY <2>2, <3>1
    <3>2. ASSUME NEW e \in Entries, CancelEntry(e) PROVE status[x] \in {"reserved", "filled"}
      BY <2>2, <3>2 DEF CancelEntry, PortfolioTyped
    <3>3. ASSUME NEW e \in Entries, NEW effect \in Effects, RecordFill(e, effect)
          PROVE  status[x] \in {"reserved", "filled"}
      BY <2>2, <3>3 DEF RecordFill, PortfolioTyped
    <3>4. \/ status'[x] = status[x]
          \/ \E e \in Entries : CancelEntry(e)
          \/ \E e \in Entries, effect \in Effects : RecordFill(e, effect)
      <4> USE DEF LedgerStill, ledgerVars
      <4>1. CASE \/ Deliver \/ TakePrice \/ Take \/ Load \/ Pending \/ Apply \/ Resolve
                 \/ Raise \/ Retry \/ Elsewhere
        BY <4>1 DEF Deliver, TakePrice, Take, Load, Pending, Apply, Resolve, Raise, Retry, Elsewhere
      <4>2. ASSUME NEW s \in Symbols, Price(s) PROVE status' = status
        BY <4>2 DEF Price
      <4>3. ASSUME NEW e \in Entries, Begin(e) PROVE status' = status
        BY <4>3 DEF Begin, portfolioVars
      <4>4. CASE Decide \/ Publish \/ UNCHANGED vars
        BY <4>4 DEF Decide, Publish, vars, portfolioVars
      <4> QED BY <1>9, <4>1, <4>2, <4>3, <4>4, DecisionSteps
    <3> QED BY <2>2, <3>2, <3>3, <3>4
  <2> QED BY <1>3, <2>1, <2>2
<1> QED BY <1>4, <1>5, <1>6, <1>7, <1>8, <1>9, DecisionSteps

LEMMA PortfolioStep ==
  ASSUME PortfolioInv, [Next]_vars
  PROVE  PortfolioInv'
BY TypedStep, FillsStep, CacheStep, ToldStep, WorkerStep, ClosingsStep, DecisionStep, LimitStep
   DEF PortfolioInv

(* What the run checks follows.                                            *)
LEMMA PortfolioImplies ==
  ASSUME PortfolioInv
  PROVE  TypeOK /\ ReadyIsCurrent /\ MarksAndClosings /\ LimitUnlessBlind
<1> USE DEF PortfolioInv
<1>1. TypeOK
  BY DEF TypeOK, PortfolioTyped, DecisionSound
<1>2. ReadyIsCurrent
  <2>1. SUFFICES ASSUME ready
                 PROVE  /\ state.cursor >= heard.fills
                        /\ \A e \in heard.reserved : e \in Snapshot \cup Announced
                                                     \/ status[e] \in {"closed", "cancelled"}
    BY DEF ReadyIsCurrent
  <2>2. state.cursor >= heard.fills /\ \A e \in heard.reserved : Heeded(e)
    BY <2>1 DEF WorkerSound
  <2>3. state.cursor + 1 .. heard.fills = {}
    BY <2>2 DEF PortfolioTyped
  <2> QED BY <2>2, <2>3 DEF Heeded
<1>3. MarksAndClosings
  <2>1. ASSUME NEW i \in DOMAIN closedEvents PROVE closedEvents[i] \notin OpenAfter(applied)
    BY DEF ClosingsSound, OpenAfter, Applied
  <2> QED BY <2>1 DEF MarksAndClosings, CacheSound, ClosingsSound
<1>4. LimitUnlessBlind
  BY DEF LimitKept, LimitUnlessBlind
<1> QED BY <1>1, <1>2, <1>3, <1>4

---------------------------------------------------------------------------
(* Sums over finite sets: the fold of the community modules is a           *)
(* recursive function of the subsets, told here by an equation.            *)

Picked(T) == CHOOSE x \in T : TRUE
IsTotal(f, w, S) ==
  f = [T \in SUBSET S |-> IF T = {} THEN 0 ELSE w[Picked(T)] + f[T \ {Picked(T)}]]

LEMMA SmallestSet ==
  ASSUME NEW S, IsFiniteSet(S), NEW Bad \in SUBSET (SUBSET S), Bad # {}
  PROVE  \E T \in Bad : \A U \in SUBSET T : U # T => U \notin Bad
<1> DEFINE R == StrictSubsetOrdering(S)
<1>1. IsWellFoundedOn(R, SUBSET S)
  BY FS_StrictSubsetOrderingWellFounded, FS_FiniteSubsetsOfFinite
<1>2. \A T \in SUBSET S : \A U \in SUBSET T : U # T => <<U, T>> \in R
  BY DEF StrictSubsetOrdering
<1> HIDE DEF R
<1>3. PICK T \in Bad : \A U \in Bad : ~(<<U, T>> \in R)
  BY <1>1, WFMin
<1> QED BY <1>2, <1>3

LEMMA LeastNumber ==
  ASSUME NEW S \in SUBSET Nat, S # {}
  PROVE  \E m \in S : \A n \in S : m <= n
<1> DEFINE R == {pair \in Nat \X Nat : pair[1] < pair[2]}
<1>1. IsWellFoundedOn(R, Nat)
  BY NatLessThanWellFounded DEF OpToRel
<1>2. \A m, n \in Nat : <<n, m>> \in R <=> n < m
  OBVIOUS
<1> HIDE DEF R
<1>3. PICK m \in S : \A n \in S : ~(<<n, m>> \in R)
  BY <1>1, WFMin
<1>4. ASSUME NEW n \in S PROVE m <= n
  <2>1. m \in Nat /\ n \in Nat /\ ~(n < m)
    BY <1>2, <1>3
  <2> QED BY <2>1
<1> QED BY <1>4

LEMMA PickedIn ==
  ASSUME NEW T, T # {}
  PROVE  Picked(T) \in T
BY DEF Picked

(* Totals exist: otherwise take the smallest size up to which there are    *)
(* none.                                                                   *)
LEMMA TotalExists ==
  ASSUME NEW S, IsFiniteSet(S), NEW w
  PROVE  \E f : IsTotal(f, w, S)
<1> DEFINE Sub(k) == {T \in SUBSET S : Cardinality(T) <= k}
           Turn(f, T) == IF T = {} THEN 0 ELSE w[Picked(T)] + f[T \ {Picked(T)}]
           Part(f, k) == f = [T \in Sub(k) |-> Turn(f, T)]
           Without == {k \in Nat : \A f : ~Part(f, k)}
<1>1. ASSUME NEW T \in SUBSET S
      PROVE  /\ IsFiniteSet(T) /\ Cardinality(T) \in Nat /\ Cardinality(T) <= Cardinality(S)
             /\ Cardinality(T) = 0 <=> T = {}
             /\ T # {} => T \ {Picked(T)} \in SUBSET S /\ Cardinality(T \ {Picked(T)}) = Cardinality(T) - 1
  <2>1. IsFiniteSet(T) /\ Cardinality(T) <= Cardinality(S)
    BY FS_Subset
  <2>2. Cardinality(T) \in Nat /\ (Cardinality(T) = 0 <=> T = {})
    BY <2>1, FS_CardinalityType, FS_EmptySet
  <2>3. T # {} => Cardinality(T \ {Picked(T)}) = Cardinality(T) - 1
    BY <2>1, PickedIn, FS_RemoveElement
  <2> QED BY <2>1, <2>2, <2>3
<1>2. Without = {}
  <2>1. SUFFICES ASSUME Without # {} PROVE FALSE
    OBVIOUS
  <2>2. PICK k \in Without : \A j \in Without : k <= j
    <3>1. Without \in SUBSET Nat
      OBVIOUS
    <3> HIDE DEF Without
    <3> QED BY <2>1, <3>1, LeastNumber
  <2>3. k \in Nat /\ \A f : ~Part(f, k)
    BY <2>2
  <2>4. CASE k = 0
    <3> DEFINE g == [T \in Sub(0) |-> 0]
    <3>1. ASSUME NEW T \in Sub(0) PROVE T = {}
      <4>1. T \in SUBSET S /\ Cardinality(T) <= 0
        OBVIOUS
      <4>2. Cardinality(T) \in Nat /\ (Cardinality(T) = 0 <=> T = {})
        BY <1>1, <4>1
      <4> QED BY <4>1, <4>2
    <3>2. Part(g, 0)
      BY <3>1
    <3> QED BY <2>3, <2>4, <3>2
  <2>5. CASE k # 0
    <3>1. k - 1 \in Nat /\ k - 1 \notin Without
      <4> HIDE DEF Without
      <4>1. k - 1 \in Nat /\ ~(k <= k - 1)
        BY <2>3, <2>5
      <4> QED BY <2>2, <4>1
    <3>2. PICK f : Part(f, k - 1)
      <4> HIDE DEF Part
      <4> QED BY <3>1
    <3> DEFINE g == [T \in Sub(k) |-> Turn(f, T)]
    <3>3. ASSUME NEW T \in Sub(k), T # {}
          PROVE  LET U == T \ {Picked(T)} IN U \in Sub(k - 1) /\ U \in Sub(k) /\ g[U] = f[U]
      <4> DEFINE U == T \ {Picked(T)}
      <4>1. U \in Sub(k - 1) /\ U \in Sub(k)
        <5>1. T \in SUBSET S /\ Cardinality(T) <= k
          OBVIOUS
        <5>2. U \in SUBSET S /\ Cardinality(U) = Cardinality(T) - 1 /\ Cardinality(T) \in Nat
          BY <1>1, <3>3, <5>1
        <5> HIDE DEF U
        <5> QED BY <2>3, <5>1, <5>2
      <4>2. f[U] = Turn(f, U)
        <5> HIDE DEF U, Turn, Sub
        <5> QED BY <3>2, <4>1
      <4>3. g[U] = Turn(f, U)
        <5> HIDE DEF U, Turn, Sub
        <5> QED BY <4>1
      <4> HIDE DEF U, g
      <4> QED BY <4>1, <4>2, <4>3 DEF U
    <3>4. \A T \in Sub(k) : Turn(f, T) = Turn(g, T)
      <4> HIDE DEF Sub, g
      <4> QED BY <3>3
    <3>5. Part(g, k)
      <4> HIDE DEF Sub, Turn
      <4> QED BY <3>4
    <3> QED BY <2>3, <3>5
  <2> QED BY <2>4, <2>5
<1>3. Cardinality(S) \in Nat /\ Sub(Cardinality(S)) = SUBSET S
  <2>1. Cardinality(S) \in Nat
    BY FS_CardinalityType
  <2> QED BY <1>1, <2>1
<1>4. PICK f : Part(f, Cardinality(S))
  <2> HIDE DEF Part, Sub
  <2> QED BY <1>2, <1>3
<1>5. f = [T \in SUBSET S |-> Turn(f, T)]
  <2> HIDE DEF Sub, Turn
  <2> QED BY <1>3, <1>4
<1> QED BY <1>5 DEF IsTotal

(* Equal weights give equal totals, which are integers.                    *)
LEMMA TotalsAgree ==
  ASSUME NEW S, IsFiniteSet(S), NEW R \in SUBSET S, NEW w \in [S -> Int], NEW v, NEW f, NEW g,
         IsTotal(f, w, S), IsTotal(g, v, R), \A x \in R : v[x] = w[x]
  PROVE  \A T \in SUBSET R : f[T] = g[T] /\ f[T] \in Int
<1> DEFINE Bad == {U \in SUBSET R : ~(f[U] = g[U] /\ f[U] \in Int)}
<1>1. SUFFICES ASSUME Bad # {} PROVE FALSE
  OBVIOUS
<1>2. PICK U \in Bad : \A V \in SUBSET U : V # U => V \notin Bad
  <2>1. Bad \in SUBSET (SUBSET S)
    OBVIOUS
  <2> HIDE DEF Bad
  <2> QED BY <1>1, <2>1, SmallestSet
<1>3. U \in SUBSET R /\ U \in SUBSET S /\ ~(f[U] = g[U] /\ f[U] \in Int)
  OBVIOUS
<1>4. /\ f[U] = IF U = {} THEN 0 ELSE w[Picked(U)] + f[U \ {Picked(U)}]
      /\ g[U] = IF U = {} THEN 0 ELSE v[Picked(U)] + g[U \ {Picked(U)}]
  BY <1>3 DEF IsTotal
<1>5. CASE U = {}
  BY <1>3, <1>4, <1>5
<1>6. CASE U # {}
  <2> DEFINE V == U \ {Picked(U)}
  <2>1. Picked(U) \in U
    BY <1>6, PickedIn
  <2>2. V \in SUBSET U /\ V # U
    BY <2>1
  <2>3. f[V] = g[V] /\ f[V] \in Int
    BY <1>2, <1>3, <2>2
  <2>4. w[Picked(U)] \in Int /\ v[Picked(U)] = w[Picked(U)]
    BY <1>3, <2>1
  <2> QED BY <1>3, <1>4, <1>6, <2>3, <2>4
<1> QED BY <1>5, <1>6

(* A new member adds its weight, whichever member is picked first.         *)
LEMMA TotalsAdd ==
  ASSUME NEW S, IsFiniteSet(S), NEW w \in [S -> Int], NEW f, IsTotal(f, w, S),
         NEW T \in SUBSET S, NEW x \in S, x \notin T
  PROVE  f[T \cup {x}] = f[T] + w[x]
<1> DEFINE Adds(U) == \A z \in S \ U : f[U \cup {z}] = f[U] + w[z]
           Bad == {U \in SUBSET S : ~Adds(U)}
<1>1. SUFFICES ASSUME Bad # {} PROVE FALSE
  OBVIOUS
<1>2. PICK U \in Bad : \A V \in SUBSET U : V # U => V \notin Bad
  <2>1. Bad \in SUBSET (SUBSET S)
    OBVIOUS
  <2> HIDE DEF Bad
  <2> QED BY <1>1, <2>1, SmallestSet
<1>3. PICK z \in S \ U : f[U \cup {z}] # f[U] + w[z]
  BY <1>2
<1>4. U \in SUBSET S /\ \A V \in SUBSET U : V # U => Adds(V)
  <2> HIDE DEF Adds
  <2> QED BY <1>2
<1> DEFINE W == U \cup {z}
           y == Picked(W)
           V == U \ {y}
<1>5. W \in SUBSET S /\ W # {} /\ y \in W
  <2>1. W \in SUBSET S /\ W # {}
    BY <1>3, <1>4
  <2> HIDE DEF W
  <2> QED BY <2>1, PickedIn
<1>6. f[W] = w[y] + f[W \ {y}]
  <2> HIDE DEF W
  <2> QED BY <1>5 DEF IsTotal
<1> HIDE DEF y
<1>7. \A Y \in SUBSET S : f[Y] \in Int
  BY TotalsAgree
<1>8. f[U] \in Int /\ w[z] \in Int /\ w[y] \in Int /\ f[W] # f[U] + w[z]
  BY <1>3, <1>4, <1>5, <1>7
<1>9. CASE y = z
  <2>1. W \ {y} = U
    BY <1>3, <1>9
  <2> HIDE DEF W
  <2>2. f[W] = w[z] + f[U]
    BY <1>6, <1>9, <2>1
  <2> QED BY <1>8, <2>2
<1>10. CASE y # z
  <2>1. y \in U /\ V \in SUBSET U /\ V # U /\ y \in S \ V /\ z \in S \ V
        /\ W \ {y} = V \cup {z} /\ U = V \cup {y}
    BY <1>3, <1>4, <1>5, <1>10
  <2> HIDE DEF V, W
  <2>2. f[V \cup {z}] = f[V] + w[z] /\ f[V \cup {y}] = f[V] + w[y]
    BY <1>4, <2>1
  <2>3. f[V] \in Int
    BY <1>4, <1>7, <2>1
  <2>4. f[W] = w[y] + (f[V] + w[z]) /\ f[U] = f[V] + w[y]
    BY <1>6, <2>1, <2>2
  <2> QED BY <1>8, <2>3, <2>4
<1> QED BY <1>9, <1>10

(* Smaller weights give smaller totals.                                    *)
LEMMA TotalsLess ==
  ASSUME NEW S, IsFiniteSet(S), NEW w \in [S -> Int], NEW v \in [S -> Int], NEW f, NEW g,
         IsTotal(f, w, S), IsTotal(g, v, S), \A x \in S : w[x] <= v[x], NEW T \in SUBSET S
  PROVE  f[T] <= g[T]
<1> DEFINE Bad == {U \in SUBSET S : ~(f[U] <= g[U])}
<1>1. SUFFICES ASSUME Bad # {} PROVE FALSE
  OBVIOUS
<1>2. PICK U \in Bad : \A V \in SUBSET U : V # U => V \notin Bad
  <2>1. Bad \in SUBSET (SUBSET S)
    OBVIOUS
  <2> HIDE DEF Bad
  <2> QED BY <1>1, <2>1, SmallestSet
<1>3. U \in SUBSET S /\ ~(f[U] <= g[U])
  OBVIOUS
<1>4. /\ f[U] = IF U = {} THEN 0 ELSE w[Picked(U)] + f[U \ {Picked(U)}]
      /\ g[U] = IF U = {} THEN 0 ELSE v[Picked(U)] + g[U \ {Picked(U)}]
  BY <1>3 DEF IsTotal
<1>5. CASE U = {}
  BY <1>3, <1>4, <1>5
<1>6. CASE U # {}
  <2> DEFINE V == U \ {Picked(U)}
  <2>1. Picked(U) \in U
    BY <1>6, PickedIn
  <2>2. V \in SUBSET U /\ V # U /\ V \in SUBSET S
    BY <1>3, <2>1
  <2>3. f[V] <= g[V]
    BY <1>2, <2>2
  <2>4. f[V] \in Int /\ g[V] \in Int
    BY <2>2, TotalsAgree
  <2>5. w[Picked(U)] \in Int /\ v[Picked(U)] \in Int /\ w[Picked(U)] <= v[Picked(U)]
    BY <1>3, <2>1
  <2> QED BY <1>3, <1>4, <1>6, <2>3, <2>4, <2>5
<1> QED BY <1>5, <1>6

---------------------------------------------------------------------------
(* What the exposures can lose                                             *)

Plans == [symbol : RuleSymbols, side : {"BUY", "SELL"}, qty : Nat, entry : Int, stop : Int]
RiskOf(S) == MapThenSumSet(PlannedRisk, S)
Risks(S) == [p \in S |-> PlannedRisk(p)]
Worsts(S) == [p \in S |-> WorstOf(p)]

LEMMA AbsTyped ==
  ASSUME NEW n \in Int
  PROVE  Abs(n) \in Nat /\ (Abs(n) = n \/ Abs(n) = -n)
BY DEF Abs

LEMMA AtLeast0Typed ==
  ASSUME NEW n \in Int
  PROVE  AtLeast0(n) \in Nat /\ AtLeast0(n) >= n /\ (AtLeast0(n) = n \/ AtLeast0(n) = 0)
BY DEF AtLeast0

LEMMA ProductNat ==
  ASSUME NEW m \in Nat, NEW n \in Nat
  PROVE  m * n \in Nat
OBVIOUS

LEMMA RiskTyped ==
  ASSUME NEW p \in Plans
  PROVE  PlannedRisk(p) \in Nat
<1> DEFINE a == Abs(p.entry - p.stop)
<1>1. p.qty \in Nat /\ p.entry - p.stop \in Int
  BY DEF Plans
<1>2. a \in Nat
  BY <1>1, AbsTyped
<1> HIDE DEF a
<1>3. p.qty * a \in Nat
  BY <1>1, <1>2, ProductNat
<1> QED BY <1>3 DEF PlannedRisk, a

(* The sum of the planned risks is a total of their function.              *)
LEMMA RiskIsTotal ==
  ASSUME NEW S, IsFiniteSet(S)
  PROVE  \E f : IsTotal(f, Risks(S), S) /\ RiskOf(S) = f[S]
<1> DEFINE Eq(f) == f = [T \in SUBSET S |-> IF T = {} THEN 0
                                            ELSE PlannedRisk(Picked(T)) + f[T \ {Picked(T)}]]
           g == CHOOSE f : Eq(f)
<1>1. RiskOf(S) = g[S]
  BY DEF RiskOf, MapThenSumSet, MapThenFoldSet, Picked
<1>2. \A f : Eq(f) <=> IsTotal(f, Risks(S), S)
  <2>1. \A T \in SUBSET S : T # {} => Risks(S)[Picked(T)] = PlannedRisk(Picked(T))
    <3>1. \A T \in SUBSET S : T # {} => Picked(T) \in S
      BY PickedIn
    <3> QED BY <3>1 DEF Risks
  <2> SUFFICES ASSUME NEW f
               PROVE  \A T \in SUBSET S :
                        (IF T = {} THEN 0 ELSE PlannedRisk(Picked(T)) + f[T \ {Picked(T)}])
                        = (IF T = {} THEN 0 ELSE Risks(S)[Picked(T)] + f[T \ {Picked(T)}])
    BY DEF IsTotal
  <2> QED BY <2>1
<1> HIDE DEF Eq
<1>3. Eq(g)
  BY <1>2, TotalExists
<1> HIDE DEF g
<1> QED BY <1>1, <1>2, <1>3

LEMMA WorstIsTotal ==
  ASSUME NEW S, IsFiniteSet(S)
  PROVE  \E f : IsTotal(f, Worsts(S), S) /\ MapThenSumSet(WorstOf, S) = f[S]
<1> DEFINE Eq(f) == f = [T \in SUBSET S |-> IF T = {} THEN 0
                                            ELSE WorstOf(Picked(T)) + f[T \ {Picked(T)}]]
           g == CHOOSE f : Eq(f)
<1>1. MapThenSumSet(WorstOf, S) = g[S]
  BY DEF MapThenSumSet, MapThenFoldSet, Picked
<1>2. \A f : Eq(f) <=> IsTotal(f, Worsts(S), S)
  <2>1. \A T \in SUBSET S : T # {} => Worsts(S)[Picked(T)] = WorstOf(Picked(T))
    <3>1. \A T \in SUBSET S : T # {} => Picked(T) \in S
      BY PickedIn
    <3> QED BY <3>1 DEF Worsts
  <2> SUFFICES ASSUME NEW f
               PROVE  \A T \in SUBSET S :
                        (IF T = {} THEN 0 ELSE WorstOf(Picked(T)) + f[T \ {Picked(T)}])
                        = (IF T = {} THEN 0 ELSE Worsts(S)[Picked(T)] + f[T \ {Picked(T)}])
    BY DEF IsTotal
  <2> QED BY <2>1
<1> HIDE DEF Eq
<1>3. Eq(g)
  BY <1>2, TotalExists
<1> HIDE DEF g
<1> QED BY <1>1, <1>2, <1>3

LEMMA RiskAdded ==
  ASSUME NEW S \in SUBSET Plans, IsFiniteSet(S), NEW p \in Plans, p \notin S
  PROVE  RiskOf(S \cup {p}) = RiskOf(S) + PlannedRisk(p) /\ RiskOf(S) \in Int
<1> DEFINE R == S \cup {p}
<1>1. IsFiniteSet(R)
  BY FS_AddElement
<1>2. S \in SUBSET R /\ p \in R /\ R = S \cup {p} /\ R \in SUBSET Plans
  OBVIOUS
<1> HIDE DEF R
<1>3. Risks(R) \in [R -> Int] /\ \A x \in S : Risks(S)[x] = Risks(R)[x]
  <2>1. \A x \in R : PlannedRisk(x) \in Int
    BY <1>2, RiskTyped
  <2> QED BY <1>2, <2>1 DEF Risks
<1>4. PICK f : IsTotal(f, Risks(R), R) /\ RiskOf(R) = f[R]
  BY <1>1, RiskIsTotal
<1>5. PICK g : IsTotal(g, Risks(S), S) /\ RiskOf(S) = g[S]
  BY RiskIsTotal
<1> DEFINE w == Risks(R)
           v == Risks(S)
<1>6. w \in [R -> Int] /\ (\A x \in S : v[x] = w[x]) /\ IsTotal(f, w, R) /\ IsTotal(g, v, S)
      /\ S \in SUBSET S
  BY <1>3, <1>4, <1>5
<1>7. w[p] = PlannedRisk(p)
  BY <1>2 DEF Risks
<1> HIDE DEF w, v
<1>8. f[S] = g[S] /\ f[S] \in Int
  <2>1. \A T \in SUBSET S : f[T] = g[T] /\ f[T] \in Int
    BY <1>1, <1>2, <1>6, TotalsAgree, SMTT(20)
  <2> QED BY <2>1
<1>9. f[S \cup {p}] = f[S] + w[p]
  BY <1>1, <1>2, <1>6, TotalsAdd
<1> QED BY <1>2, <1>4, <1>5, <1>7, <1>8, <1>9

LEMMA NoRisk == RiskOf({}) = 0
<1>1. PICK f : IsTotal(f, Risks({}), {}) /\ RiskOf({}) = f[{}]
  BY RiskIsTotal, FS_EmptySet
<1> QED BY <1>1 DEF IsTotal

(* Without a member it is less by its risk.                                *)
LEMMA RiskRemoved ==
  ASSUME NEW S \in SUBSET Plans, IsFiniteSet(S), NEW p \in S
  PROVE  RiskOf(S) = RiskOf(S \ {p}) + PlannedRisk(p) /\ RiskOf(S \ {p}) \in Int
<1> DEFINE R == S \ {p}
<1>1. R \in SUBSET Plans /\ p \in Plans /\ p \notin R /\ S = R \cup {p} /\ IsFiniteSet(R)
  BY FS_RemoveElement
<1> HIDE DEF R
<1>2. RiskOf(R \cup {p}) = RiskOf(R) + PlannedRisk(p) /\ RiskOf(R) \in Int
  BY <1>1, RiskAdded
<1> QED BY <1>1, <1>2 DEF R

(* What a position is reckoned to lose is at least what it is planned to.  *)
LEMMA WorstAtLeastRisk ==
  ASSUME NEW S \in SUBSET Plans, IsFiniteSet(S), market \in [RuleSymbols -> Int]
  PROVE  MapThenSumSet(WorstOf, S) \in Int /\ RiskOf(S) <= MapThenSumSet(WorstOf, S)
<1> DEFINE w == Risks(S)
           v == Worsts(S)
<1>1. ASSUME NEW p \in S
      PROVE  PlannedRisk(p) \in Int /\ WorstOf(p) \in Int /\ PlannedRisk(p) <= WorstOf(p)
  <2> DEFINE k == PlannedRisk(p)
             u == Unrealized(p)
  <2>1. k \in Nat
    BY RiskTyped
  <2>2. u \in Int
    <3> DEFINE a == market[p.symbol] - p.entry
    <3>1. a \in Int /\ p.qty \in Int /\ Sign(p.side) \in {1, -1}
      BY DEF Plans, Sign
    <3> HIDE DEF a
    <3>2. Sign(p.side) * a \in Int
      BY <3>1
    <3>3. (Sign(p.side) * a) * p.qty \in Int
      BY <3>1, <3>2
    <3> QED BY <3>3 DEF Unrealized, a
  <2>3. WorstOf(p) = IF k > -u THEN k ELSE -u
    BY DEF WorstOf
  <2> HIDE DEF k, u
  <2>4. k \in Int /\ WorstOf(p) \in Int /\ k <= WorstOf(p)
    BY <2>1, <2>2, <2>3
  <2> QED BY <2>4 DEF k
<1>2. w \in [S -> Int] /\ v \in [S -> Int] /\ \A x \in S : w[x] <= v[x]
  BY <1>1 DEF Risks, Worsts
<1>3. PICK f : IsTotal(f, Risks(S), S) /\ RiskOf(S) = f[S]
  BY RiskIsTotal
<1>4. PICK g : IsTotal(g, Worsts(S), S) /\ MapThenSumSet(WorstOf, S) = g[S]
  BY WorstIsTotal
<1>5. IsTotal(f, w, S) /\ IsTotal(g, v, S) /\ S \in SUBSET S
  BY <1>3, <1>4
<1> HIDE DEF w, v
<1>6. f[S] <= g[S]
  BY <1>2, <1>5, TotalsLess
<1>7. g[S] \in Int
  BY <1>2, <1>5, TotalsAgree
<1> QED BY <1>3, <1>4, <1>6, <1>7

---------------------------------------------------------------------------
(* The inductive invariant of the rules: an exposure is alone with its     *)
(* symbol, so what is approved or filled is new among them.                *)

RulesTyped ==
  /\ market \in [RuleSymbols -> Nat] /\ marked \subseteq RuleSymbols
  /\ positions \subseteq Plans /\ entering \subseteq Plans /\ IsFiniteSet(Exposures)
  /\ pnl \in Int /\ slippage \in Nat /\ Cardinality(Exposures) <= RuleSlots
ExposuresApart ==
  /\ positions \cap entering = {}
  /\ \A e, p \in Exposures : e.symbol = p.symbol => e = p
RulesInv == RulesTyped /\ ExposuresApart /\ RealizedLoss + RiskOf(Exposures) <= LossCap + slippage

LEMMA RulesStart == RulesInit => RulesInv
<1> SUFFICES ASSUME RulesInit PROVE RulesInv
  OBVIOUS
<1> USE DEF RulesInit
<1>1. {LossCap, RuleSlots} \subseteq Nat
  BY RulesAssumption
<1>2. Exposures = {}
  BY DEF Exposures
<1>3. RulesTyped
  BY <1>1, <1>2, FS_EmptySet DEF RulesTyped, NoPrice
<1>4. RealizedLoss = 0
  <2>1. pnl = 0 /\ \A n \in Int : n = 0 => AtLeast0(-n) = 0
    BY DEF AtLeast0
  <2>2. pnl \in Int
    BY <2>1
  <2> QED BY <2>1, <2>2 DEF RealizedLoss
<1>5. RealizedLoss + RiskOf(Exposures) <= LossCap + slippage
  BY <1>1, <1>2, <1>4, NoRisk
<1> QED BY <1>2, <1>3, <1>5 DEF RulesInv, ExposuresApart

LEMMA RealizedTyped ==
  ASSUME pnl \in Int
  PROVE  RealizedLoss \in Nat
BY AtLeast0Typed DEF RealizedLoss

(* A position and an entry on their way are both among the exposures.      *)
LEMMA ExposuresTyped ==
  ASSUME RulesInv
  PROVE  /\ Exposures \in SUBSET Plans /\ IsFiniteSet(Exposures) /\ IsFiniteSet(positions)
         /\ RiskOf(Exposures) \in Int /\ RealizedLoss \in Nat /\ {LossCap, RuleSlots} \subseteq Nat
<1>1. Exposures \in SUBSET Plans /\ IsFiniteSet(Exposures) /\ pnl \in Int
  BY DEF RulesInv, RulesTyped, Exposures
<1>2. IsFiniteSet(positions)
  BY <1>1, FS_Subset DEF Exposures
<1>3. RiskOf(Exposures) \in Int
  <2>1. CASE Exposures = {}
    BY <2>1, NoRisk
  <2>2. CASE Exposures # {}
    <3>1. PICK p \in Exposures : TRUE
      BY <2>2
    <3>2. PlannedRisk(p) \in Int
      BY <1>1, RiskTyped
    <3>3. RiskOf(Exposures) = RiskOf(Exposures \ {p}) + PlannedRisk(p) /\ RiskOf(Exposures \ {p}) \in Int
      BY <1>1, RiskRemoved
    <3> QED BY <3>2, <3>3
  <2> QED BY <2>1, <2>2
<1> QED BY <1>1, <1>2, <1>3, RealizedTyped, RulesAssumption

(* What no exposure adds to leaves the balance alone.                      *)
LEMMA PlanTyped ==
  ASSUME RulesTyped, NEW s \in RuleSymbols, NEW side \in {"BUY", "SELL"}, NEW stop \in RulePrices,
         market[s] # NoPrice
  PROVE  Plan(s, side, market[s], stop) \in Plans
<1> DEFINE m == market[s]
<1>1. m \in Nat \ {0} /\ Notional \in Nat /\ stop \in Int
  BY RulesAssumption DEF RulesTyped, NoPrice
<1> HIDE DEF m
<1>2. Notional \div m \in Nat
  BY <1>1
<1>3. Plan(s, side, m, stop) \in Plans
  BY <1>1, <1>2 DEF Plan, Plans, Size
<1> QED BY <1>3 DEF m

LEMMA ApproveStep ==
  ASSUME RulesInv, ApproveEntry
  PROVE  RulesInv'
<1>1. PICK s \in RuleSymbols, side \in {"BUY", "SELL"}, stop \in RulePrices, target \in RulePrices :
        /\ ~PlanRefused(side, market[s], stop, target)
        /\ Approves(Plan(s, side, market[s], stop))
        /\ entering' = entering \cup {Plan(s, side, market[s], stop)}
  BY Zenon DEF ApproveEntry
<1> DEFINE p == Plan(s, side, market[s], stop)
<1>2. UNCHANGED <<market, positions, marked, pnl, slippage>>
  BY DEF ApproveEntry
<1>3. p \in Plans /\ p.symbol = s
  <2>1. market[s] # NoPrice
    BY <1>1 DEF PlanRefused
  <2> QED BY <2>1, PlanTyped DEF RulesInv, Plan
<1>4. /\ \A e \in Exposures : e.symbol # p.symbol
      /\ Cardinality(Exposures) < RuleSlots
      /\ entering = {}
      /\ RealizedLoss + ExposureLoss + PlannedRisk(p) <= LossCap
  BY <1>1 DEF Approves, ExposureKnown, WithinCap
<1> HIDE DEF p
<1>5. /\ Exposures \in SUBSET Plans /\ IsFiniteSet(Exposures) /\ IsFiniteSet(positions)
      /\ RiskOf(Exposures) \in Int /\ RealizedLoss \in Nat /\ {LossCap, RuleSlots} \subseteq Nat
  BY ExposuresTyped
<1>6. p \notin Exposures /\ Exposures' = Exposures \cup {p} /\ positions = Exposures
  BY <1>1, <1>2, <1>4 DEF Exposures, p
<1>7. IsFiniteSet(Exposures') /\ Cardinality(Exposures') = Cardinality(Exposures) + 1
  BY <1>5, <1>6, FS_AddElement
<1>8. RulesTyped'
  <2>1. Cardinality(Exposures') <= RuleSlots
    BY <1>4, <1>5, <1>7, FS_CardinalityType
  <2> QED BY <1>1, <1>2, <1>3, <1>7, <2>1 DEF RulesInv, RulesTyped, p
<1>9. ExposuresApart'
  <2>1. (positions \cap entering)' = {}
    <3>1. entering' = {p} /\ positions' = positions
      BY <1>1, <1>2, <1>4 DEF p
    <3> QED BY <1>6, <3>1
  <2>2. \A e, q \in Exposures \cup {p} : e.symbol = q.symbol => e = q
    BY <1>4 DEF RulesInv, ExposuresApart
  <2> QED BY <1>6, <2>1, <2>2 DEF ExposuresApart
<1>10. RealizedLoss' + RiskOf(Exposures') <= LossCap + slippage'
  <2>1. RiskOf(Exposures') = RiskOf(Exposures) + PlannedRisk(p)
    BY <1>3, <1>5, <1>6, RiskAdded
  <2>2. market \in [RuleSymbols -> Int] /\ slippage \in Nat
    BY DEF RulesInv, RulesTyped
  <2>3. ExposureLoss \in Int /\ RiskOf(Exposures) <= ExposureLoss
    BY <1>5, <1>6, <2>2, WorstAtLeastRisk DEF ExposureLoss
  <2>4. PlannedRisk(p) \in Nat
    BY <1>3, RiskTyped
  <2>5. RealizedLoss' = RealizedLoss /\ slippage' = slippage
    BY <1>2 DEF RealizedLoss
  <2>6. LossCap \in Nat
    BY <1>5
  <2> QED BY <1>4, <1>5, <2>1, <2>2, <2>3, <2>4, <2>5, <2>6
<1> QED BY <1>8, <1>9, <1>10 DEF RulesInv

LEMMA PriceStep ==
  ASSUME RulesInv, RulePriceMoves
  PROVE  RulesInv'
<1>1. PICK s \in RuleSymbols, p \in RulePrices :
        market' = [market EXCEPT ![s] = p] /\ marked' = marked \cup {s}
  BY Zenon DEF RulePriceMoves
<1>2. UNCHANGED <<positions, entering, pnl, slippage>>
  BY DEF RulePriceMoves
<1>3. Exposures' = Exposures /\ RealizedLoss' = RealizedLoss
  BY <1>2 DEF Exposures, RealizedLoss
<1>4. market' \in [RuleSymbols -> Nat] /\ marked' \subseteq RuleSymbols
  <2>1. p \in Nat
    BY RulesAssumption
  <2> QED BY <1>1, <2>1 DEF RulesInv, RulesTyped
<1>5. RiskOf(Exposures') = RiskOf(Exposures)
  BY <1>3
<1> QED BY <1>2, <1>3, <1>4, <1>5 DEF RulesInv, RulesTyped, ExposuresApart

(* An exposure less: a cancelled entry, or a closed position whose loss    *)
(* beyond the plan is slippage.                                            *)
LEMMA ExposureLess ==
  ASSUME RulesInv, NEW p \in Exposures, Exposures' = Exposures \ {p},
         positions' \subseteq positions, entering' \subseteq entering, UNCHANGED <<market, marked>>,
         pnl' \in Int, slippage' \in Nat,
         RealizedLoss' <= RealizedLoss + PlannedRisk(p) + (slippage' - slippage)
  PROVE  RulesInv'
<1>1. /\ Exposures \in SUBSET Plans /\ IsFiniteSet(Exposures)
      /\ RiskOf(Exposures) \in Int /\ RealizedLoss \in Nat /\ {LossCap, RuleSlots} \subseteq Nat
  BY ExposuresTyped
<1>2. IsFiniteSet(Exposures') /\ Cardinality(Exposures') <= Cardinality(Exposures)
      /\ Cardinality(Exposures) \in Nat /\ Cardinality(Exposures') \in Nat
  <2>1. Exposures' \in SUBSET Exposures
    OBVIOUS
  <2> QED BY <1>1, <2>1, FS_Subset, FS_CardinalityType
<1>3. RulesTyped'
  <2>1. Cardinality(Exposures') <= RuleSlots
    BY <1>1, <1>2 DEF RulesInv, RulesTyped
  <2> QED BY <1>2, <2>1 DEF RulesInv, RulesTyped
<1>4. ExposuresApart'
  <2>1. Exposures' \subseteq Exposures
    OBVIOUS
  <2> QED BY <2>1 DEF RulesInv, ExposuresApart
<1>5. RealizedLoss' + RiskOf(Exposures') <= LossCap + slippage'
  <2>1. RiskOf(Exposures) = RiskOf(Exposures') + PlannedRisk(p) /\ RiskOf(Exposures') \in Int
    BY <1>1, RiskRemoved
  <2>2. PlannedRisk(p) \in Nat /\ RealizedLoss' \in Nat
    BY <1>1, RiskTyped, AtLeast0Typed DEF RealizedLoss
  <2>3. slippage \in Nat /\ LossCap \in Nat /\ RealizedLoss + RiskOf(Exposures) <= LossCap + slippage
    BY <1>1 DEF RulesInv, RulesTyped
  <2> QED BY <1>1, <2>1, <2>2, <2>3
<1> QED BY <1>3, <1>4, <1>5 DEF RulesInv

LEMMA EndStep ==
  ASSUME RulesInv, EntryEnds
  PROVE  RulesInv'
<1>1. PICK e \in entering : entering' = entering \ {e}
  BY Zenon DEF EntryEnds
<1>2. UNCHANGED <<market, positions, marked, pnl, slippage>>
  BY DEF EntryEnds
<1>3. e \in Exposures /\ Exposures' = Exposures \ {e}
  BY <1>1, <1>2 DEF Exposures, RulesInv, ExposuresApart
<1>4. pnl \in Int /\ slippage \in Nat /\ e \in Plans
  BY <1>1 DEF RulesInv, RulesTyped
<1>5. RealizedLoss' <= RealizedLoss + PlannedRisk(e) + (slippage' - slippage)
  <2>1. RealizedLoss' = RealizedLoss /\ RealizedLoss \in Nat /\ PlannedRisk(e) \in Nat
    BY <1>2, <1>4, RealizedTyped, RiskTyped DEF RealizedLoss
  <2> QED BY <1>2, <1>4, <2>1
<1> QED BY <1>1, <1>2, <1>3, <1>4, <1>5, ExposureLess

(* An entry is filled at the market: what is farther from the stop than    *)
(* planned is slippage.                                                    *)
LEMMA FillStep ==
  ASSUME RulesInv, EntryFills
  PROVE  RulesInv'
<1>1. PICK e \in entering :
        /\ positions' = positions \cup {[e EXCEPT !.entry = market[e.symbol]]}
        /\ entering' = entering \ {e} /\ marked' = marked \ {e.symbol}
        /\ slippage' = slippage + AtLeast0(Abs(market[e.symbol] - e.stop) - Abs(e.entry - e.stop)) * e.qty
  BY Zenon DEF EntryFills
<1> DEFINE m == market[e.symbol]
           p == [e EXCEPT !.entry = m]
           a == Abs(m - e.stop)
           b == Abs(e.entry - e.stop)
           c == AtLeast0(a - b)
           R == Exposures \ {e}
<1>2. UNCHANGED <<market, pnl>>
  BY DEF EntryFills
<1>3. e \in Plans /\ e \in Exposures /\ e \notin positions
  BY <1>1 DEF RulesInv, RulesTyped, ExposuresApart, Exposures
<1>4. e.symbol \in RuleSymbols /\ e.qty \in Nat /\ e.entry \in Int /\ e.stop \in Int
  BY <1>3 DEF Plans
<1>5. m \in Int
  BY <1>4 DEF RulesInv, RulesTyped
<1>6. p \in Plans /\ p.symbol = e.symbol /\ p.qty = e.qty /\ p.stop = e.stop /\ p.entry = m
  <2> HIDE DEF m
  <2> QED BY <1>3, <1>5 DEF Plans
<1>7. a \in Nat /\ b \in Nat
  <2> HIDE DEF m
  <2> QED BY <1>4, <1>5, AbsTyped
<1>8. PlannedRisk(e) = e.qty * b /\ PlannedRisk(p) = e.qty * a
  <2> HIDE DEF p, m
  <2> QED BY <1>6 DEF PlannedRisk
<1>9. slippage' = slippage + c * e.qty
  BY <1>1
<1> HIDE DEF p, m, a, b
<1>10. c \in Nat /\ c >= a - b
  BY <1>7, AtLeast0Typed
<1> HIDE DEF c
<1>11. c * e.qty \in Nat /\ e.qty * a <= e.qty * b + c * e.qty
  <2>1. c * e.qty \in Nat /\ e.qty * (c + b - a) \in Nat
    <3>1. c + b - a \in Nat
      BY <1>7, <1>10
    <3> QED BY <1>4, <1>10, <3>1, ProductNat
  <2>2. e.qty * (c + b - a) = c * e.qty + e.qty * b - e.qty * a
    BY <1>4, <1>7, <1>10
  <2>3. e.qty * a \in Nat /\ e.qty * b \in Nat
    BY <1>4, <1>7, ProductNat
  <2> QED BY <2>1, <2>2, <2>3
<1>12. /\ Exposures \in SUBSET Plans /\ IsFiniteSet(Exposures)
       /\ RiskOf(Exposures) \in Int /\ RealizedLoss \in Nat /\ {LossCap, RuleSlots} \subseteq Nat
  BY ExposuresTyped
<1>13. /\ Exposures' = R \cup {p} /\ R \in SUBSET Plans /\ \A q \in R : q.symbol # p.symbol
  <2>1. positions' = positions \cup {p} /\ entering' = entering \ {e}
    BY <1>1 DEF p, m
  <2>2. Exposures' = R \cup {p}
    BY <1>3, <2>1 DEF Exposures
  <2>3. \A q \in R : q.symbol # e.symbol
    BY <1>3 DEF RulesInv, ExposuresApart
  <2> QED BY <1>6, <1>12, <2>2, <2>3
<1>14. /\ IsFiniteSet(R) /\ Cardinality(R) = Cardinality(Exposures) - 1 /\ p \notin R
       /\ IsFiniteSet(Exposures') /\ Cardinality(Exposures') = Cardinality(R) + 1
       /\ Cardinality(Exposures) \in Nat
  <2>1. p \notin R
    BY <1>13
  <2>2. IsFiniteSet(R) /\ Cardinality(R) = Cardinality(Exposures) - 1
    BY <1>3, <1>12, FS_RemoveElement
  <2> HIDE DEF R
  <2>3. IsFiniteSet(Exposures') /\ Cardinality(Exposures') = Cardinality(R) + 1
    BY <1>13, <2>1, <2>2, FS_AddElement
  <2> QED BY <1>12, <2>1, <2>2, <2>3, FS_CardinalityType
<1>15. slippage \in Nat /\ slippage' \in Nat
  <2>1. slippage \in Nat
    BY DEF RulesInv, RulesTyped
  <2> QED BY <1>9, <1>11, <2>1
<1>16. RulesTyped'
  <2>1. Cardinality(Exposures') <= RuleSlots
    BY <1>14 DEF RulesInv, RulesTyped
  <2>2. positions' \subseteq Plans /\ entering' \subseteq Plans /\ marked' \subseteq RuleSymbols
    BY <1>1, <1>6 DEF RulesInv, RulesTyped, p, m
  <2>3. market' \in [RuleSymbols -> Nat] /\ pnl' \in Int
    BY <1>2 DEF RulesInv, RulesTyped
  <2> QED BY <1>14, <1>15, <2>1, <2>2, <2>3 DEF RulesTyped
<1>17. ExposuresApart'
  <2>1. positions' = positions \cup {p} /\ entering' = entering \ {e}
    BY <1>1 DEF p, m
  <2>2. p \notin entering'
    <3>1. entering' \subseteq R
      BY <2>1 DEF Exposures
    <3> QED BY <1>14, <3>1
  <2>3. (positions \cap entering)' = {}
    BY <2>1, <2>2 DEF RulesInv, ExposuresApart
  <2>4. \A q, r \in R : q.symbol = r.symbol => q = r
    BY DEF RulesInv, ExposuresApart
  <2> HIDE DEF R
  <2>5. \A q, r \in R \cup {p} : q.symbol = r.symbol => q = r
    BY <1>13, <2>4
  <2> QED BY <1>13, <2>3, <2>5 DEF ExposuresApart
<1>18. RealizedLoss' + RiskOf(Exposures') <= LossCap + slippage'
  <2>1. RiskOf(Exposures) = RiskOf(R) + PlannedRisk(e) /\ RiskOf(R) \in Int
    BY <1>3, <1>12, RiskRemoved
  <2> HIDE DEF R
  <2>2. RiskOf(Exposures') = RiskOf(R) + PlannedRisk(p)
    BY <1>6, <1>13, <1>14, RiskAdded
  <2>3. RealizedLoss' = RealizedLoss /\ RealizedLoss + RiskOf(Exposures) <= LossCap + slippage
    BY <1>2 DEF RealizedLoss, RulesInv
  <2> DEFINE x == e.qty * b
             y == e.qty * a
             z == c * e.qty
  <2>4. x \in Nat /\ y \in Nat /\ z \in Nat /\ y <= x + z
        /\ PlannedRisk(e) = x /\ PlannedRisk(p) = y /\ slippage' = slippage + z
    BY <1>4, <1>7, <1>8, <1>9, <1>11, ProductNat
  <2> HIDE DEF x, y, z
  <2>5. LossCap \in Nat
    BY <1>12
  <2> QED BY <1>12, <1>15, <2>1, <2>2, <2>3, <2>4, <2>5
<1> QED BY <1>16, <1>17, <1>18 DEF RulesInv

LEMMA CloseStep ==
  ASSUME RulesInv, PositionCloses
  PROVE  RulesInv'
<1>1. PICK p \in positions :
        /\ positions' = positions \ {p} /\ pnl' = pnl + Unrealized(p)
        /\ slippage' = slippage + AtLeast0(-Unrealized(p) - PlannedRisk(p))
  BY Zenon DEF PositionCloses
<1> DEFINE u == Unrealized(p)
           k == PlannedRisk(p)
           a == AtLeast0(-u - k)
<1>2. UNCHANGED <<market, entering, marked>>
  BY DEF PositionCloses
<1>3. p \in Exposures /\ Exposures' = Exposures \ {p} /\ p \in Plans
  BY <1>1, <1>2 DEF Exposures, RulesInv, RulesTyped, ExposuresApart
<1>4. pnl \in Int /\ slippage \in Nat /\ market \in [RuleSymbols -> Nat]
  BY DEF RulesInv, RulesTyped
<1>5. k \in Nat /\ u \in Int
  <2> DEFINE d == market[p.symbol] - p.entry
  <2>1. d \in Int /\ p.qty \in Int /\ Sign(p.side) \in {1, -1}
    BY <1>3, <1>4 DEF Plans, Sign
  <2> HIDE DEF d
  <2>2. Sign(p.side) * d \in Int
    BY <2>1
  <2>3. (Sign(p.side) * d) * p.qty \in Int
    BY <2>1, <2>2
  <2> QED BY <1>3, <2>3, RiskTyped DEF Unrealized, d
<1>6. pnl' = pnl + u /\ slippage' = slippage + a
  BY <1>1
<1> HIDE DEF u, k
<1>7. a \in Nat /\ a >= -u - k
  BY <1>5, AtLeast0Typed
<1> HIDE DEF a
<1>8. RealizedLoss' <= RealizedLoss + k + a
  BY <1>4, <1>5, <1>6, <1>7 DEF RealizedLoss, AtLeast0
<1>9. /\ pnl' \in Int /\ slippage' \in Nat
      /\ RealizedLoss' <= RealizedLoss + PlannedRisk(p) + (slippage' - slippage)
  <2>1. RealizedLoss \in Nat /\ slippage' - slippage = a
    BY <1>4, <1>6, <1>7, RealizedTyped
  <2> QED BY <1>4, <1>5, <1>6, <1>7, <1>8, <2>1 DEF k
<1> QED BY <1>1, <1>2, <1>3, <1>9, ExposureLess

LEMMA RulesStep ==
  ASSUME RulesInv, [RulesNext]_ruleVars
  PROVE  RulesInv'
<1>1. CASE UNCHANGED ruleVars
  <2>1. Exposures' = Exposures /\ RealizedLoss' = RealizedLoss
    BY <1>1 DEF ruleVars, Exposures, RealizedLoss
  <2>2. RiskOf(Exposures') = RiskOf(Exposures)
    BY <2>1
  <2> QED BY <1>1, <2>1, <2>2 DEF ruleVars, RulesInv, RulesTyped, ExposuresApart
<1> QED BY <1>1, ApproveStep, PriceStep, FillStep, EndStep, CloseStep DEF RulesNext

LEMMA RulesImplies == RulesInv => RulesTypeOK /\ LossStaysWithinCap
BY DEF RulesInv, RulesTyped, RulesTypeOK, LossStaysWithinCap, RiskOf

---------------------------------------------------------------------------
(* Candidates                                                              *)

(* The boundary of a running reader lies in the session it rolled into,    *)
(* and outside of sessions after the last one.                             *)
BoundarySound ==
  /\ boundary <= now
  /\ reader = "running" =>
       /\ session # NoSession => boundary >= session
       /\ session = NoSession /\ ~slept => \A u \in boundary .. now - 1 : SessionOf[u] = NoSession

CandidateInv == CandidateTypeOK /\ NoCandidateUnderOutage /\ NothingFromBefore /\ BoundarySound

LEMMA CandidatesStart == CandidateInit => CandidateInv
<1> SUFFICES ASSUME CandidateInit
             PROVE  CandidateInv
  OBVIOUS
<1> USE DEF CandidateInit
<1>1. CandidateTypeOK
  <2>1. 0 \in Times
    BY CandidateAssumption DEF Times
  <2>2. slots \in [Strategies -> Record \cup {NoRecord}] /\ unavailable \in [Timeframes -> Times \cup {NoOutage}]
    OBVIOUS
  <2> QED BY <2>1, <2>2 DEF CandidateTypeOK
<1>2. NoCandidateUnderOutage /\ NothingFromBefore /\ BoundarySound
  BY DEF NoCandidateUnderOutage, NothingFromBefore, BoundarySound
<1> QED BY <1>1, <1>2 DEF CandidateInv

(* A batch changes slots and outages as the reducer allows.                *)
LEMMA BatchStep ==
  ASSUME CandidateInv, NEW f \in Timeframes, NEW t \in Times, ApplyBatch(f, t), UNCHANGED boundary,
         UNCHANGED retired
  PROVE  /\ slots' \in [Strategies -> Record \cup {NoRecord}]
         /\ unavailable' \in [Timeframes -> Times \cup {NoOutage}]
         /\ NoCandidateUnderOutage' /\ NothingFromBefore'
         /\ \A s \in Strategies : SlotForward(s)
<1> USE DEF CandidateInv, CandidateTypeOK
<1>1. t \in Int /\ now \in Int /\ t >= boundary /\ boundary \in Nat
  BY CandidateAssumption DEF ApplyBatch, Times
<1>2. \A s \in Strategies : slots[s] # NoRecord =>
        /\ slots[s] \in Record /\ slots[s].ts \in Int /\ slots[s].tf \in Timeframes
        /\ slots[s].invalid \in BOOLEAN /\ slots[s].content \in Contents /\ slots[s].ts \in Times
  BY CandidateAssumption DEF Record, Times
<1>3. \A g \in Timeframes : unavailable[g] \in Int
  BY CandidateAssumption DEF Times, NoOutage
<1>4. CASE UNCHANGED <<slots, unavailable>>
  BY <1>4 DEF NoCandidateUnderOutage, NothingFromBefore, SlotForward
<1>5. CASE /\ unavailable[f] < t /\ \A s \in Strategies : ~(slots[s].tf = f /\ slots[s].ts = t)
           /\ slots' = [s \in Strategies |-> IF Hit(slots[s], f, t) THEN Invalidated(slots[s]) ELSE slots[s]]
           /\ unavailable' = [unavailable EXCEPT ![f] = t]
  <2>1. \A s \in Strategies :
          /\ slots[s] = NoRecord => slots'[s] = NoRecord
          /\ slots[s] # NoRecord =>
               /\ slots'[s] \in Record /\ slots'[s].ts = slots[s].ts /\ slots'[s].tf = slots[s].tf
               /\ slots'[s].content = slots[s].content
               /\ ~slots'[s].invalid => ~slots[s].invalid /\ ~Hit(slots[s], f, t)
               /\ slots'[s] = slots[s] \/ slots'[s] = Invalidated(slots[s])
    <3>1. SUFFICES ASSUME NEW s \in Strategies
          PROVE /\ slots[s] = NoRecord => slots'[s] = NoRecord
                /\ slots[s] # NoRecord =>
                     /\ slots'[s] \in Record /\ slots'[s].ts = slots[s].ts /\ slots'[s].tf = slots[s].tf
                     /\ slots'[s].content = slots[s].content
                     /\ ~slots'[s].invalid => ~slots[s].invalid /\ ~Hit(slots[s], f, t)
                     /\ slots'[s] = slots[s] \/ slots'[s] = Invalidated(slots[s])
      OBVIOUS
    <3>2. CASE slots[s] = NoRecord
      BY <1>5, <3>2 DEF Hit, NoRecord
    <3>3. CASE slots[s] # NoRecord /\ Hit(slots[s], f, t)
      <4>1. slots'[s] = Invalidated(slots[s]) /\ slots[s] \in Record
        BY <1>2, <1>5, <3>3
      <4> QED BY <3>3, <4>1 DEF Record, Invalidated
    <3>4. CASE slots[s] # NoRecord /\ ~Hit(slots[s], f, t)
      BY <1>2, <1>5, <3>4
    <3> QED BY <3>2, <3>3, <3>4
  <2>2. slots' \in [Strategies -> Record \cup {NoRecord}]
    <3>1. \A s \in Strategies : slots'[s] \in Record \cup {NoRecord}
      BY <2>1
    <3> QED BY <1>5, <3>1
  <2>3. /\ unavailable' \in [Timeframes -> Times \cup {NoOutage}] /\ unavailable'[f] = t
        /\ \A g \in Timeframes : g # f => unavailable'[g] = unavailable[g]
    BY <1>5
  <2>4. NoCandidateUnderOutage'
    <3>1. SUFFICES ASSUME NEW s \in Strategies, slots'[s] # NoRecord
                   PROVE  /\ slots'[s].content # Gated /\ ~slots'[s].invalid =>
                               slots'[s].ts > unavailable'[slots'[s].tf]
                          /\ slots'[s].ts # unavailable'[slots'[s].tf]
      BY DEF NoCandidateUnderOutage
    <3>2. slots[s] # NoRecord
      BY <2>1, <3>1
    <3>3. CASE slots[s].tf # f
      BY <1>2, <2>1, <2>3, <3>2, <3>3 DEF NoCandidateUnderOutage
    <3>4. CASE slots[s].tf = f
      <4>1. slots[s].ts # t /\ slots[s].ts \in Int
        BY <1>2, <1>5, <3>2, <3>4
      <4> QED BY <1>1, <2>1, <2>3, <3>2, <3>4, <4>1 DEF Hit
    <3> QED BY <3>3, <3>4
  <2>5. NothingFromBefore'
    <3>1. \A s \in Strategies : slots'[s] # NoRecord => slots'[s].ts >= boundary' /\ s \notin retired'
      BY <2>1 DEF NothingFromBefore
    <3>2. \A g \in Timeframes : unavailable'[g] # NoOutage => unavailable'[g] >= boundary'
      BY <1>1, <2>3 DEF NothingFromBefore
    <3> QED BY <3>1, <3>2 DEF NothingFromBefore
  <2>6. \A s \in Strategies : SlotForward(s)
    BY <2>1 DEF SlotForward
  <2> QED BY <2>2, <2>3, <2>4, <2>5, <2>6
<1>6. ASSUME NEW of \in SUBSET Strategies, NEW d \in [of -> Contents], unavailable[f] < t,
             unavailable' = unavailable,
             slots' = [s \in Strategies |-> IF s \in DOMAIN d /\ Accepts(s, f, t)
                                            THEN [ts |-> t, tf |-> f, content |-> d[s], invalid |-> FALSE]
                                            ELSE slots[s]]
      PROVE  /\ slots' \in [Strategies -> Record \cup {NoRecord}]
             /\ unavailable' \in [Timeframes -> Times \cup {NoOutage}]
             /\ NoCandidateUnderOutage' /\ NothingFromBefore'
             /\ \A s \in Strategies : SlotForward(s)
  <2>1. ASSUME NEW s \in Strategies
        PROVE  \/ slots'[s] = slots[s]
               \/ /\ slots'[s] \in Record /\ slots'[s].ts = t /\ slots'[s].tf = f /\ s \notin retired
                  /\ slots[s] # NoRecord => t > slots[s].ts
    <3>1. CASE s \in DOMAIN d /\ Accepts(s, f, t)
      <4>1. d[s] \in Contents /\ slots'[s] = [ts |-> t, tf |-> f, content |-> d[s], invalid |-> FALSE]
        BY <1>6, <3>1
      <4>2. slots'[s] \in Record
        BY <4>1 DEF Record
      <4> QED BY <3>1, <4>1, <4>2 DEF Accepts
    <3>2. CASE ~(s \in DOMAIN d /\ Accepts(s, f, t))
      BY <1>6, <3>2
    <3> QED BY <3>1, <3>2
  <2>2. slots' \in [Strategies -> Record \cup {NoRecord}]
    <3>1. \A s \in Strategies : slots'[s] \in Record \cup {NoRecord}
      BY <2>1
    <3> QED BY <1>6, <3>1
  <2>3. NoCandidateUnderOutage'
    BY <1>1, <1>3, <1>6, <2>1 DEF NoCandidateUnderOutage
  <2>4. NothingFromBefore'
    BY <1>1, <1>6, <2>1 DEF NothingFromBefore
  <2>5. \A s \in Strategies : SlotForward(s)
    BY <2>1 DEF SlotForward
  <2> QED BY <1>6, <2>2, <2>3, <2>4, <2>5
<1> QED BY <1>1, <1>3, <1>4, <1>5, <1>6 DEF ApplyBatch, ApplyUnavailable, ApplyAvailable

(* A reset leaves no record.                                               *)
LEMMA Emptied ==
  ASSUME slots' = [s \in Strategies |-> NoRecord], unavailable' = [f \in Timeframes |-> NoOutage]
  PROVE  /\ slots' \in [Strategies -> Record \cup {NoRecord}]
         /\ unavailable' \in [Timeframes -> Times \cup {NoOutage}]
         /\ NoCandidateUnderOutage' /\ NothingFromBefore'
         /\ \A s \in Strategies : SlotForward(s)
<1>1. \A s \in Strategies : slots'[s] = NoRecord
  OBVIOUS
<1>2. \A f \in Timeframes : unavailable'[f] = NoOutage
  OBVIOUS
<1>3. NoCandidateUnderOutage' /\ NothingFromBefore' /\ \A s \in Strategies : SlotForward(s)
  BY <1>1, <1>2 DEF NoCandidateUnderOutage, NothingFromBefore, SlotForward
<1>4. /\ slots' \in [Strategies -> Record \cup {NoRecord}]
      /\ unavailable' \in [Timeframes -> Times \cup {NoOutage}]
  OBVIOUS
<1> QED BY <1>3, <1>4

LEMMA CandidateStep ==
  ASSUME CandidateInv, [CandidateNext]_candidateVars
  PROVE  CandidateInv' /\ [\A s \in Strategies : SlotForward(s)]_candidateVars
<1> USE DEF CandidateInv
<1> DEFINE Reached == CandidateInv' /\ [\A s \in Strategies : SlotForward(s)]_candidateVars
<1>1. now \in 0 .. MaxNow /\ boundary \in Nat /\ MaxNow \in Nat
  BY CandidateAssumption DEF CandidateTypeOK, Times
<1>2. Key \in Nat \cup {NoSession} /\ (Key # NoSession => Key \in Nat /\ Key <= now)
  BY <1>1, CandidateAssumption DEF Key
<1>3. CASE Roll
  <2>1. /\ session' = Key /\ slept' = FALSE /\ UNCHANGED <<retired, reader, now>> /\ reader = "running"
        /\ boundary' = Larger(boundary, IF Key = NoSession THEN now ELSE Key)
        /\ slots' = [s \in Strategies |-> NoRecord] /\ unavailable' = [f \in Timeframes |-> NoOutage]
    BY <1>3 DEF Roll, Reset
  <2>2. /\ boundary' \in Nat /\ boundary' <= now
        /\ Key = NoSession => boundary' = now
        /\ Key # NoSession => boundary' >= Key
    BY <1>1, <1>2, <2>1 DEF Larger, BoundarySound
  <2>3. BoundarySound'
    BY <1>1, <2>1, <2>2 DEF BoundarySound
  <2>4. CandidateTypeOK'
    BY <1>2, <2>1, <2>2, Emptied DEF CandidateTypeOK
  <2> QED BY <2>1, <2>3, <2>4, Emptied
<1>4. CASE OnBatch
  <2>1. PICK f \in Timeframes, t \in Times : ApplyBatch(f, t)
    BY <1>4 DEF OnBatch
  <2>2. UNCHANGED <<retired, boundary, reader, session, now, slept>>
    BY <1>4 DEF OnBatch
  <2>3. /\ slots' \in [Strategies -> Record \cup {NoRecord}]
        /\ unavailable' \in [Timeframes -> Times \cup {NoOutage}]
        /\ NoCandidateUnderOutage' /\ NothingFromBefore'
        /\ \A s \in Strategies : SlotForward(s)
    BY <2>1, <2>2, BatchStep
  <2>4. BoundarySound'
    BY <2>2 DEF BoundarySound
  <2>5. CandidateTypeOK'
    BY <2>2, <2>3 DEF CandidateTypeOK
  <2> QED BY <2>3, <2>4, <2>5
<1>5. CASE StartReader
  <2>1. /\ session' = Key /\ slept' = FALSE /\ reader' = "running" /\ retired' = {} /\ boundary' = now
        /\ now' = now
        /\ slots' = [s \in Strategies |-> NoRecord] /\ unavailable' = [f \in Timeframes |-> NoOutage]
    BY <1>5 DEF StartReader
  <2>2. BoundarySound'
    BY <1>1, <1>2, <2>1 DEF BoundarySound
  <2>3. CandidateTypeOK'
    <3>1. /\ slots' \in [Strategies -> Record \cup {NoRecord}]
          /\ unavailable' \in [Timeframes -> Times \cup {NoOutage}]
      BY <2>1, Emptied
    <3>2. /\ retired' \subseteq Strategies /\ boundary' \in Nat /\ now' \in Times
          /\ session' \in Nat \cup {NoSession}
      BY <1>1, <1>2, <2>1 DEF Times
    <3> QED BY <2>1, <3>1, <3>2 DEF CandidateTypeOK
  <2> QED BY <2>1, <2>2, <2>3, Emptied
<1>6. CASE StopReader
  <2>1. reader' = "stopped" /\ UNCHANGED <<slots, unavailable, retired, boundary, session, now, slept>>
    BY <1>6 DEF StopReader
  <2>2. BoundarySound' /\ NoCandidateUnderOutage' /\ NothingFromBefore' /\ CandidateTypeOK'
    BY <2>1 DEF BoundarySound, NoCandidateUnderOutage, NothingFromBefore, CandidateTypeOK
  <2> QED BY <2>1, <2>2 DEF SlotForward
<1>7. CASE OwnershipChanged
  <2>1. /\ UNCHANGED <<retired, reader, session, now, slept>> /\ reader = "running"
        /\ boundary' = Larger(boundary, now)
        /\ slots' = [s \in Strategies |-> NoRecord] /\ unavailable' = [f \in Timeframes |-> NoOutage]
    BY <1>7 DEF OwnershipChanged, Reset
  <2>2. boundary' = now
    BY <1>1, <2>1 DEF Larger, BoundarySound
  <2>3. BoundarySound'
    BY <1>1, <2>1, <2>2 DEF BoundarySound, CandidateTypeOK
  <2>4. CandidateTypeOK'
    BY <1>1, <2>1, <2>2, Emptied DEF CandidateTypeOK, Times
  <2> QED BY <2>1, <2>3, <2>4, Emptied
<1>8. CASE RetireVersion
  <2>1. PICK v \in Strategies : retired' = retired \cup {v} /\ slots' = [slots EXCEPT ![v] = NoRecord]
    BY <1>8 DEF RetireVersion
  <2>2. UNCHANGED <<unavailable, boundary, reader, session, now, slept>>
    BY <1>8 DEF RetireVersion
  <2>3. /\ slots' \in [Strategies -> Record \cup {NoRecord}] /\ slots'[v] = NoRecord
        /\ \A s \in Strategies : s # v => slots'[s] = slots[s]
    BY <2>1 DEF CandidateTypeOK
  <2>4. NoCandidateUnderOutage' /\ NothingFromBefore'
    BY <2>1, <2>2, <2>3 DEF NoCandidateUnderOutage, NothingFromBefore
  <2>5. BoundarySound' /\ CandidateTypeOK'
    BY <2>1, <2>2, <2>3 DEF BoundarySound, CandidateTypeOK
  <2>6. \A s \in Strategies : SlotForward(s)
    BY <2>3 DEF SlotForward
  <2> QED BY <2>4, <2>5, <2>6
<1>9. CASE CandidateTick
  <2>1. /\ now < MaxNow /\ now' = now + 1 /\ slept' = (slept \/ (Key # NoSession /\ ~Rolled))
        /\ UNCHANGED <<slots, unavailable, retired, boundary, reader, session>>
    BY <1>9 DEF CandidateTick
  <2>2. NoCandidateUnderOutage' /\ NothingFromBefore' /\ CandidateTypeOK'
    BY <1>1, <2>1 DEF NoCandidateUnderOutage, NothingFromBefore, CandidateTypeOK, Times
  <2>3. ASSUME reader = "running", session = NoSession, ~slept', NEW u \in boundary .. now
        PROVE  SessionOf[u] = NoSession
    <3>1. ~slept /\ (Key = NoSession \/ session = Key)
      BY <2>1, <2>3 DEF Rolled, CandidateTypeOK
    <3>2. CASE u = now
      BY <2>3, <3>1, <3>2 DEF Key
    <3>3. CASE u \in boundary .. now - 1
      BY <2>3, <3>1, <3>3 DEF BoundarySound
    <3> QED BY <1>1, <3>2, <3>3
  <2>4. BoundarySound'
    <3>1. boundary' <= now' /\ now' - 1 = now
      BY <1>1, <2>1 DEF BoundarySound
    <3>2. reader' = "running" /\ session' # NoSession => boundary' >= session'
      BY <2>1 DEF BoundarySound
    <3>3. reader' = "running" /\ session' = NoSession /\ ~slept' =>
            \A u \in boundary' .. now' - 1 : SessionOf[u] = NoSession
      BY <2>1, <2>3, <3>1
    <3> QED BY <3>1, <3>2, <3>3 DEF BoundarySound
  <2> QED BY <2>1, <2>2, <2>4 DEF SlotForward
<1>10. CASE UNCHANGED candidateVars
  <2>1. BoundarySound' /\ NoCandidateUnderOutage' /\ NothingFromBefore' /\ CandidateTypeOK'
    BY <1>10 DEF candidateVars, BoundarySound, NoCandidateUnderOutage, NothingFromBefore, CandidateTypeOK
  <2> QED BY <1>10, <2>1
<1> HIDE DEF CandidateInv
<1> QED BY <1>3, <1>4, <1>5, <1>6, <1>7, <1>8, <1>9, <1>10 DEF CandidateNext

LEMMA CandidateImplies ==
  ASSUME CandidateInv
  PROVE  CandidateTypeOK /\ CandidatesSound
<1> USE DEF CandidateInv
<1>1. SUFFICES ASSUME reader = "running", NEW s \in Shown
               PROVE  IF Key # NoSession THEN slots[s].ts >= Key
                      ELSE slept \/ \A u \in slots[s].ts .. now : SessionOf[u] = NoSession
  BY DEF CandidatesSound, ShownIsOfSession
<1>2. s \in Strategies /\ slots[s] # NoRecord /\ session = Key
  BY <1>1 DEF Shown, Eligible, Rolled
<1>3. slots[s].ts >= boundary /\ slots[s].ts \in Int
  BY <1>2, CandidateAssumption DEF NothingFromBefore, CandidateTypeOK, Record, Times
<1>4. boundary \in Nat /\ now \in Nat
  BY CandidateAssumption DEF CandidateTypeOK, Times
<1>5. CASE Key # NoSession
  <2>1. boundary >= session /\ session \in Nat
    BY <1>1, <1>2, <1>5 DEF BoundarySound, CandidateTypeOK
  <2> QED BY <1>2, <1>3, <1>4, <1>5, <2>1
<1>6. CASE Key = NoSession
  <2>1. SUFFICES ASSUME ~slept, NEW u \in slots[s].ts .. now PROVE SessionOf[u] = NoSession
    BY <1>6
  <2>2. CASE u = now
    BY <1>6, <2>2 DEF Key
  <2>3. CASE u \in boundary .. now - 1
    BY <1>1, <1>2, <1>6, <2>1, <2>3 DEF BoundarySound
  <2> QED BY <1>3, <1>4, <2>2, <2>3
<1> QED BY <1>5, <1>6

---------------------------------------------------------------------------
(* Selection and acceptance                                                *)

Made(r) ==
  /\ r.captured \subseteq Candidates /\ r.portfolio \in Portfolios
  /\ r.selected = Selected(r.portfolio, r.captured, r.attempted)
  /\ r.reasons = IF r.selected # {} THEN {} ELSE Reasons(r.portfolio, r.captured, r.attempted)

Rows == [status : {"stored"}, shadow : BOOLEAN, selected : SUBSET Candidates]
Claims == [status : {"claimed"}, candidate : Candidates, selection : Selections]

SelectionInv ==
  /\ tried \subseteq Candidates
  /\ result = NoSelection \/ Made(result)
  /\ journal \in [Selections -> Rows \cup {NoRow}]
  /\ \A s \in Selections : journal[s] # NoRow => Cardinality(journal[s].selected) <= 1
  /\ claims \in [AcceptedTrades -> Claims \cup {NoClaim, Legacy}]
  /\ AcceptedOnce

LEMMA SelectionStarts == SelectionInit => SelectionInv
BY DEF SelectionInit, SelectionInv, NoRow, NoClaim, AcceptedOnce

(* What is left of a capture is finite, and one or none of it is chosen.   *)
LEMMA SelectedAtMostOne ==
  ASSUME NEW p, NEW captured \in SUBSET Candidates, NEW attempted
  PROVE  /\ Survivors(p, captured) \subseteq captured /\ IsFiniteSet(Survivors(p, captured))
         /\ Cardinality(Survivors(p, captured)) \in Nat
         /\ Selected(p, captured, attempted) \subseteq Survivors(p, captured)
         /\ Cardinality(Selected(p, captured, attempted)) <= 1
         /\ Selected(p, captured, attempted) # {} => Cardinality(Survivors(p, captured)) = 1
<1> DEFINE left == Survivors(p, captured)
<1>1. left \subseteq captured
  BY DEF Survivors
<1>2. IsFiniteSet(left) /\ Cardinality(left) \in Nat
  BY <1>1, SelectionAssumption, FS_Subset, FS_CardinalityType
<1>3. Selected(p, captured, attempted) = IF Cardinality(left) = 1 THEN left \ attempted ELSE {}
  BY DEF Selected
<1> HIDE DEF left
<1>4. Cardinality(Selected(p, captured, attempted)) <= 1
  <2>1. CASE Cardinality(left) = 1
    <3>1. left \ attempted \subseteq left
      OBVIOUS
    <3>2. Cardinality(left \ attempted) <= Cardinality(left)
      BY <1>2, <3>1, FS_Subset
    <3> QED BY <1>3, <2>1, <3>2
  <2>2. CASE Cardinality(left) # 1
    BY <1>3, <2>2, FS_EmptySet
  <2> QED BY <2>1, <2>2
<1>5. Selected(p, captured, attempted) \subseteq left
  BY <1>3
<1> QED BY <1>1, <1>2, <1>3, <1>4, <1>5 DEF left

LEMMA SelectionStep ==
  ASSUME SelectionInv, [SelectionNext]_selectionVars
  PROVE  /\ SelectionInv'
         /\ \A s \in Selections : journal[s] # NoRow => journal'[s] = journal[s]
         /\ \A t \in AcceptedTrades : claims[t] # NoClaim => claims'[t] = claims[t]
<1> DEFINE Stands == /\ \A s \in Selections : journal[s] # NoRow => journal'[s] = journal[s]
                     /\ \A t \in AcceptedTrades : claims[t] # NoClaim => claims'[t] = claims[t]
<1>1. ASSUME UNCHANGED <<journal, claims>>, tried' \subseteq Candidates,
             result' = NoSelection \/ Made(result)'
      PROVE  SelectionInv' /\ Stands
  BY <1>1 DEF SelectionInv, AcceptedOnce
<1>2. CASE Select
  <2>1. PICK a \in [Candidates -> {"not_eligible", "late", "eligible"}], p \in Portfolios :
          result' = [status |-> "made", captured |-> Captured(a), portfolio |-> p, attempted |-> tried,
                     selected |-> Selected(p, Captured(a), tried),
                     reasons |-> IF Selected(p, Captured(a), tried) # {} THEN {} ELSE Reasons(p, Captured(a), tried)]
    BY <1>2, Zenon DEF Select
  <2>2. Captured(a) \subseteq Candidates
    BY DEF Captured
  <2>3. /\ result'.captured = Captured(a) /\ result'.portfolio = p /\ result'.attempted = tried
        /\ result'.selected = Selected(p, Captured(a), tried)
        /\ result'.reasons = IF Selected(p, Captured(a), tried) # {} THEN {} ELSE Reasons(p, Captured(a), tried)
    BY <2>1
  <2>4. Made(result')
    BY <2>2, <2>3 DEF Made
  <2>5. Made(result)' = Made(result')
    BY DEF Made, Selected, Survivors, Reasons, BecauseAttempted, FreeSlots, Busy, Usable, Portfolios, SelectionSymbols
  <2> QED BY <1>1, <1>2, <2>4, <2>5 DEF Select, SelectionInv
<1>3. CASE RecordAttempt
  <2>1. tried' \subseteq Candidates /\ UNCHANGED <<result, journal, claims>>
    BY <1>3 DEF RecordAttempt, SelectionInv
  <2>2. result' = NoSelection \/ Made(result)'
    BY <2>1 DEF SelectionInv, Made
  <2> QED BY <1>1, <2>1, <2>2
<1>4. CASE AppendSelection
  <2>1. result # NoSelection /\ result' = NoSelection /\ UNCHANGED <<tried, claims>> /\ Made(result)
    BY <1>4 DEF AppendSelection, SelectionInv
  <2>2. PICK s \in Selections, shadow \in BOOLEAN :
          journal' = IF Recordable(result)
                     THEN Appended(s, [status |-> "stored", shadow |-> shadow, selected |-> result.selected])
                     ELSE journal
    BY <1>4 DEF AppendSelection
  <2> DEFINE row == [status |-> "stored", shadow |-> shadow, selected |-> result.selected]
  <2>3. result.selected \subseteq Candidates /\ Cardinality(result.selected) <= 1
    <3>1. result.captured \in SUBSET Candidates
      BY <2>1 DEF Made
    <3>2. /\ Selected(result.portfolio, result.captured, result.attempted)
               \subseteq Survivors(result.portfolio, result.captured)
          /\ Survivors(result.portfolio, result.captured) \subseteq result.captured
          /\ Cardinality(Selected(result.portfolio, result.captured, result.attempted)) <= 1
      BY <3>1, SelectedAtMostOne
    <3> QED BY <2>1, <3>1, <3>2 DEF Made
  <2>4. row \in Rows /\ row.selected = result.selected
    BY <2>3 DEF Rows
  <2>5. journal' = journal \/ (journal[s] = NoRow /\ journal' = [journal EXCEPT ![s] = row])
    BY <2>2 DEF Appended
  <2> HIDE DEF row
  <2>6. \A u \in Selections : journal[u] # NoRow => journal'[u] = journal[u]
    BY <2>5 DEF SelectionInv
  <2>7. journal' \in [Selections -> Rows \cup {NoRow}]
    BY <2>4, <2>5 DEF SelectionInv
  <2>8. \A u \in Selections : journal'[u] # NoRow => Cardinality(journal'[u].selected) <= 1
    BY <2>3, <2>4, <2>5 DEF SelectionInv
  <2>9. AcceptedOnce'
    <3>1. ASSUME NEW t \in AcceptedTrades, claims[t].status = "claimed"
          PROVE  journal'[claims[t].selection] = journal[claims[t].selection]
      <4>1. claims[t].selection \in Selections
        BY <3>1 DEF SelectionInv, Claims, NoClaim, Legacy
      <4>2. journal[claims[t].selection].status = "stored"
        BY <3>1 DEF SelectionInv, AcceptedOnce
      <4>3. journal[claims[t].selection] # NoRow
        BY <4>2 DEF NoRow
      <4> QED BY <2>6, <4>1, <4>3
    <3> QED BY <2>1, <3>1 DEF SelectionInv, AcceptedOnce
  <2> QED BY <2>1, <2>6, <2>7, <2>8, <2>9 DEF SelectionInv
<1>5. CASE Approve
  <2>1. PICK t \in AcceptedTrades :
          \/ \E c \in Candidates, s \in Selections :
               /\ Claimable(t, c, s)
               /\ claims' = [claims EXCEPT ![t] = [status |-> "claimed", candidate |-> c, selection |-> s]]
          \/ claims[t] = NoClaim /\ claims' = [claims EXCEPT ![t] = Legacy]
    BY <1>5 DEF Approve
  <2>2. UNCHANGED <<tried, result, journal>>
    BY <1>5 DEF Approve
  <2>3. ASSUME NEW c \in Candidates, NEW s \in Selections, Claimable(t, c, s),
               claims' = [claims EXCEPT ![t] = [status |-> "claimed", candidate |-> c, selection |-> s]]
        PROVE  SelectionInv' /\ Stands
    <3> DEFINE claim == [status |-> "claimed", candidate |-> c, selection |-> s]
    <3>1. /\ claim \in Claims /\ claim.status = "claimed" /\ claim.candidate = c /\ claim.selection = s
      BY DEF Claims
    <3>2. claims' = [claims EXCEPT ![t] = claim]
      BY <2>3
    <3> HIDE DEF claim
    <3>3. claims' \in [AcceptedTrades -> Claims \cup {NoClaim, Legacy}] /\ claims'[t] = claim
          /\ \A u \in AcceptedTrades : u # t => claims'[u] = claims[u]
      BY <3>1, <3>2 DEF SelectionInv
    <3>4. /\ journal[s].status = "stored" /\ ~journal[s].shadow /\ journal[s].selected = {c}
          /\ claims[t] = NoClaim /\ \A u \in AcceptedTrades : claims[u].candidate # c
      BY <2>3 DEF Claimable, Supports
    <3>5. AcceptedOnce'
      BY <2>2, <3>1, <3>3, <3>4 DEF SelectionInv, AcceptedOnce
    <3>6. result' = NoSelection \/ Made(result)'
      BY <2>2 DEF SelectionInv, Made
    <3> QED BY <2>2, <3>3, <3>4, <3>5, <3>6 DEF SelectionInv
  <2>4. CASE claims[t] = NoClaim /\ claims' = [claims EXCEPT ![t] = Legacy]
    <3>1. claims' \in [AcceptedTrades -> Claims \cup {NoClaim, Legacy}] /\ claims'[t] = Legacy
          /\ \A u \in AcceptedTrades : u # t => claims'[u] = claims[u]
      BY <2>4 DEF SelectionInv
    <3>2. Legacy.status # "claimed" /\ AcceptedOnce
      BY DEF Legacy, SelectionInv
    <3>3. ASSUME NEW u \in AcceptedTrades, claims'[u].status = "claimed"
          PROVE  claims'[u] = claims[u]
      BY <3>1, <3>2, <3>3
    <3>4. AcceptedOnce'
      BY <2>2, <3>2, <3>3 DEF AcceptedOnce
    <3>5. result' = NoSelection \/ Made(result)'
      BY <2>2 DEF SelectionInv, Made
    <3> QED BY <2>2, <2>4, <3>1, <3>4, <3>5 DEF SelectionInv
  <2> QED BY <2>1, <2>3, <2>4
<1>6. CASE UNCHANGED selectionVars
  <2>1. UNCHANGED <<tried, result, journal, claims>>
    BY <1>6 DEF selectionVars
  <2>2. result' = NoSelection \/ Made(result)'
    BY <2>1 DEF SelectionInv, Made
  <2> QED BY <1>1, <2>1, <2>2 DEF SelectionInv
<1> QED BY <1>2, <1>3, <1>4, <1>5, <1>6 DEF SelectionNext

LEMMA SymbolsFinite == IsFiniteSet(SelectionSymbols)
<1> DEFINE f == [c \in Candidates |-> SymbolFor[c]]
<1>1. f \in Surjection(Candidates, SelectionSymbols)
  BY DEF Surjection, SelectionSymbols
<1> HIDE DEF f
<1> QED BY <1>1, SelectionAssumption, FS_Surjection

(* Several survivors stand in groups that cover them.                      *)
LEMMA GroupsCover ==
  ASSUME NEW left \in SUBSET Candidates
  PROVE  /\ Cardinality(left) < 2 => ConflictGroups(left) = {}
         /\ Cardinality(left) >= 2 => ConflictGroups(left) # {} /\ UNION ConflictGroups(left) = left
<1> DEFINE ofSymbol == {{c \in left : SymbolFor[c] = s} : s \in SelectionSymbols}
           several == {g \in ofSymbol : Cardinality(g) > 1}
           all == {g \in {left} : left \notin ofSymbol}
<1>1. Cardinality(left) \in Nat
  BY SelectionAssumption, FS_Subset, FS_CardinalityType
<1>2. Cardinality(left) < 2 => ConflictGroups(left) = {}
  BY DEF ConflictGroups
<1>3. ASSUME Cardinality(left) >= 2
      PROVE  ConflictGroups(left) # {} /\ UNION ConflictGroups(left) = left
  <2>1. ConflictGroups(left) = several \cup all
    BY <1>1, <1>3 DEF ConflictGroups
  <2>2. \A g \in ofSymbol : g \subseteq left
    OBVIOUS
  <2> HIDE DEF ofSymbol
  <2>3. left \in several \cup all
    BY <1>1, <1>3
  <2>4. \A g \in several \cup all : g \subseteq left
    BY <2>2
  <2> HIDE DEF several, all
  <2> QED BY <2>1, <2>3, <2>4
<1> QED BY <1>2, <1>3

LEMMA SelectionImplies ==
  ASSUME SelectionInv
  PROVE  /\ SelectionTypeOK /\ AcceptedOnce /\ AttemptsPromoteNobody /\ ChoiceFits /\ DecisionsTold
<1> USE DEF SelectionInv
<1>1. SelectionTypeOK
  <2>1. \A t \in AcceptedTrades : claims[t] \in Claims \cup {NoClaim, Legacy}
    OBVIOUS
  <2> QED BY <2>1 DEF SelectionTypeOK, Claims, NoClaim, Legacy
<1>2. AttemptsPromoteNobody
  BY DEF AttemptsPromoteNobody, Made, Selected
<1> SUFFICES ASSUME result # NoSelection
             PROVE  ChoiceFits /\ DecisionsTold
  BY <1>1, <1>2 DEF ChoiceFits, DecisionsTold
<1> DEFINE p == result.portfolio
           captured == result.captured
           left == Survivors(p, captured)
<1>3. Made(result) /\ captured \in SUBSET Candidates /\ p \in Portfolios
  BY DEF Made
<1>4. /\ left \subseteq captured /\ IsFiniteSet(left) /\ Cardinality(left) \in Nat
      /\ result.selected \subseteq left
      /\ result.selected # {} => Cardinality(left) = 1
  BY <1>3, SelectedAtMostOne DEF Made
<1>5. \A c \in left : Usable(p) /\ FreeSlots(p) > 0 /\ ~Busy(p, c)
  <2>1. p.slots \in Int /\ p.open \subseteq SelectionSymbols /\ p.inflight \subseteq SelectionSymbols
    BY <1>3 DEF Portfolios
  <2>2. IsFiniteSet(SelectionSymbols)
    BY SymbolsFinite
  <2>3. Cardinality(p.open) \in Nat /\ Cardinality(p.inflight) \in Nat
    BY <2>1, <2>2, FS_Subset, FS_CardinalityType
  <2>4. FreeSlots(p) \in Int
    BY <2>1, <2>3 DEF FreeSlots
  <2> HIDE DEF p, captured
  <2> QED BY <2>4 DEF Survivors
<1>6. ChoiceFits
  <2>1. SUFFICES ASSUME NEW c \in result.selected
                 PROVE  /\ SymbolFor[c] \notin p.open \cup p.inflight
                        /\ Cardinality(p.open \cup p.inflight) < p.slots
    BY DEF ChoiceFits
  <2>2. FreeSlots(p) > 0 /\ ~Busy(p, c)
    BY <1>4, <1>5
  <2>3. /\ p.slots \in Int /\ p.open \subseteq SelectionSymbols /\ p.inflight \subseteq SelectionSymbols
        /\ p.open \cap p.inflight = {}
    BY <1>3 DEF Portfolios
  <2>4. IsFiniteSet(SelectionSymbols)
    BY SymbolsFinite
  <2> HIDE DEF p
  <2>5. IsFiniteSet(p.open) /\ IsFiniteSet(p.inflight)
    BY <2>3, <2>4, FS_Subset
  <2>6. Cardinality(p.open \cup p.inflight) = Cardinality(p.open) + Cardinality(p.inflight)
    <3>1. /\ Cardinality(p.open \cup p.inflight)
               = Cardinality(p.open) + Cardinality(p.inflight) - Cardinality(p.open \cap p.inflight)
          /\ Cardinality(p.open) \in Nat /\ Cardinality(p.inflight) \in Nat
      BY <2>5, FS_Union, FS_CardinalityType
    <3>2. Cardinality(p.open \cap p.inflight) = 0
      BY <2>3, FS_EmptySet
    <3> QED BY <3>1, <3>2
  <2>7. Cardinality(p.open) \in Nat /\ Cardinality(p.inflight) \in Nat
    BY <2>5, FS_CardinalityType
  <2> QED BY <2>2, <2>3, <2>6, <2>7 DEF FreeSlots, Busy
<1>7. result.reasons = {"multiple"} <=> Cardinality(left) >= 2
  <2>1. CASE ~Usable(p)
    <3>1. left = {}
      BY <2>1 DEF Survivors
    <3>2. result.selected = {} /\ result.reasons = {"unusable"}
      BY <1>3, <1>4, <2>1, <3>1 DEF Made, Reasons
    <3> QED BY <3>1, <3>2, FS_EmptySet
  <2>2. CASE Usable(p) /\ left = {}
    <3>1. result.selected = {} /\ result.reasons = Reasons(p, captured, result.attempted)
      BY <1>3, <1>4, <2>2 DEF Made
    <3>2. (IF captured = {} THEN "none eligible" ELSE "all excluded") \in result.reasons
      BY <2>2, <3>1 DEF Reasons
    <3>3. result.reasons # {"multiple"}
      BY <3>2
    <3> QED BY <2>2, <3>3, FS_EmptySet
  <2>3. CASE Usable(p) /\ left # {} /\ Cardinality(left) > 1
    <3>1. result.selected = {}
      BY <1>4, <2>3
    <3>2. result.reasons = {"multiple"}
      BY <1>3, <2>3, <3>1 DEF Made, Reasons
    <3> QED BY <1>4, <2>3, <3>2
  <2>4. CASE Usable(p) /\ left # {} /\ ~(Cardinality(left) > 1)
    <3>1. result.reasons = {} \/ result.reasons = BecauseAttempted(left, result.attempted)
      BY <1>3, <2>4 DEF Made, Reasons
    <3>2. result.reasons # {"multiple"}
      BY <3>1 DEF BecauseAttempted
    <3> QED BY <1>4, <2>4, <3>2
  <2> QED BY <2>1, <2>2, <2>3, <2>4
<1>8. Recordable(result)
  <2>1. CASE result.selected # {}
    <3>1. Usable(p)
      BY <1>4, <1>5, <2>1
    <3> QED BY <1>3, <1>4, <2>1, <3>1 DEF Recordable, Made, Usable
  <2>2. CASE result.selected = {}
    <3>1. result.reasons = Reasons(p, captured, result.attempted)
      BY <1>3, <2>2 DEF Made
    <3>2. ASSUME ~Usable(p) PROVE result.reasons # {}
      BY <3>1, <3>2 DEF Reasons
    <3>3. ASSUME Usable(p), left = {} PROVE result.reasons # {}
      BY <3>1, <3>3 DEF Reasons
    <3>4. ASSUME Usable(p), left # {}, Cardinality(left) > 1 PROVE result.reasons # {}
      BY <3>1, <3>4 DEF Reasons
    <3>5. ASSUME Usable(p), left # {}, ~(Cardinality(left) > 1) PROVE result.reasons # {}
      <4>1. Cardinality(left) = 1
        BY <1>4, <3>5, FS_EmptySet
      <4>2. left \subseteq result.attempted
        BY <1>3, <2>2, <4>1 DEF Made, Selected
      <4>3. result.reasons = BecauseAttempted(left, result.attempted)
        BY <3>1, <3>5 DEF Reasons
      <4> QED BY <4>2, <4>3 DEF BecauseAttempted
    <3> QED BY <2>2, <3>2, <3>3, <3>4, <3>5 DEF Recordable
  <2> QED BY <2>1, <2>2
<1>9. ASSUME Selected(p, captured, {}) # result.selected PROVE result.reasons = {"attempted"}
  <2>1. Cardinality(left) = 1
    BY <1>3, <1>9 DEF Made, Selected
  <2>2. left # {}
    <3>1. Cardinality({}) = 0
      BY FS_EmptySet
    <3> HIDE DEF left
    <3> QED BY <2>1, <3>1
  <2>3. PICK x : left = {x}
    BY <1>4, <2>1, FS_Singleton
  <2>4. result.selected = left \ result.attempted /\ Selected(p, captured, {}) = left
    BY <1>3, <2>1 DEF Made, Selected
  <2>5. result.selected = {} /\ left \subseteq result.attempted
    BY <1>9, <2>3, <2>4
  <2>6. Usable(p)
    BY <1>5, <2>2
  <2>7. result.reasons = BecauseAttempted(left, result.attempted)
    <3>1. result.reasons = Reasons(p, captured, result.attempted)
      BY <1>3, <2>5 DEF Made
    <3>2. ~(Cardinality(left) > 1)
      BY <2>1
    <3> QED BY <2>2, <2>6, <3>1, <3>2 DEF Reasons
  <2> QED BY <2>5, <2>7 DEF BecauseAttempted
<1>10. DecisionsTold
  <2>1. left \in SUBSET Candidates
    BY <1>3, <1>4
  <2>2. /\ ConflictGroups(left) # {} <=> Cardinality(left) >= 2
        /\ ConflictGroups(left) # {} => UNION ConflictGroups(left) = left
    <3> HIDE DEF left
    <3> QED BY <1>4, <2>1, GroupsCover
  <2>3. (result.reasons = {"multiple"}) <=> ConflictGroups(left) # {}
    BY <1>7, <2>2
  <2> HIDE DEF SelectionInv
  <2> QED BY <1>8, <1>9, <2>2, <2>3 DEF DecisionsTold
<1> QED BY <1>6, <1>10

---------------------------------------------------------------------------
(* Days, and least and greatest members                                    *)

LEMMA DayOf ==
  ASSUME NEW t \in Int
  PROVE  /\ Day(t) \in Int /\ t % MinutesADay \in 0 .. MinutesADay - 1
         /\ t = Day(t) * MinutesADay + (t % MinutesADay)
BY SignalsAssumption DEF Day

LEMMA DayMonotone ==
  ASSUME NEW t \in Int, NEW u \in Int, t <= u
  PROVE  Day(t) <= Day(u)
<1> DEFINE M == MinutesADay
           a == Day(t)
           b == Day(u)
           r == t % M
           s == u % M
<1>1. /\ M \in Nat \ {0} /\ a \in Int /\ b \in Int /\ r \in 0 .. M - 1 /\ s \in 0 .. M - 1
      /\ t = a * M + r /\ u = b * M + s
  BY DayOf, SignalsAssumption
<1> HIDE DEF M, a, b, r, s
<1>2. SUFFICES ASSUME a >= b + 1 PROVE FALSE
  BY <1>1 DEF a, b
<1>3. a * M >= (b + 1) * M /\ (b + 1) * M = b * M + M /\ a * M \in Int /\ b * M \in Int
  BY <1>1, <1>2
<1> QED BY <1>1, <1>3

(* A finite set of integers has a least and a greatest member: otherwise   *)
(* take a smallest one without.                                            *)
LEMMA LeastOfFinite ==
  ASSUME NEW S \in SUBSET Int, IsFiniteSet(S), S # {}
  PROVE  (\E m \in S : \A n \in S : m <= n) /\ (\E m \in S : \A n \in S : m >= n)
<1> DEFINE Bounded(T) == (\E m \in T : \A n \in T : m <= n) /\ (\E m \in T : \A n \in T : m >= n)
           Without == {k \in Nat : \E T \in SUBSET Int :
                         IsFiniteSet(T) /\ T # {} /\ Cardinality(T) = k /\ ~Bounded(T)}
<1>1. SUFFICES ASSUME ~Bounded(S) PROVE FALSE
  OBVIOUS
<1>2. Cardinality(S) \in Without
  BY <1>1, FS_CardinalityType
<1>3. PICK k \in Without : \A j \in Without : k <= j
  <2>1. Without \in SUBSET Nat /\ Without # {}
    BY <1>2
  <2> HIDE DEF Without
  <2> QED BY <2>1, LeastNumber
<1>4. PICK T \in SUBSET Int : IsFiniteSet(T) /\ T # {} /\ Cardinality(T) = k /\ ~Bounded(T)
  <2> HIDE DEF Bounded
  <2> QED BY <1>3
<1>5. PICK x \in T : TRUE
  BY <1>4
<1> DEFINE U == T \ {x}
<1>6. IsFiniteSet(U) /\ Cardinality(U) = k - 1 /\ U \in SUBSET Int /\ T = U \cup {x} /\ k \in Nat
      /\ Cardinality(U) \in Nat
  BY <1>3, <1>4, <1>5, FS_RemoveElement, FS_CardinalityType
<1> HIDE DEF U
<1>7. CASE U = {}
  <2>1. T = {x} /\ x \in Int
    BY <1>5, <1>6, <1>7
  <2>2. Bounded(T)
    BY <2>1
  <2> HIDE DEF Bounded
  <2> QED BY <1>4, <2>2
<1>8. CASE U # {}
  <2>1. Bounded(U)
    <3> HIDE DEF Bounded
    <3>1. SUFFICES ASSUME ~Bounded(U) PROVE FALSE
      OBVIOUS
    <3>2. Cardinality(U) \in Without
      BY <1>6, <1>8, <3>1
    <3> HIDE DEF Without
    <3>3. k <= Cardinality(U)
      BY <1>3, <3>2
    <3> QED BY <1>6, <3>3
  <2>2. PICK low \in U : \A n \in U : low <= n
    BY <2>1
  <2>3. PICK high \in U : \A n \in U : high >= n
    BY <2>1
  <2>4. x \in Int /\ low \in Int /\ high \in Int /\ \A n \in U : n \in Int
    BY <1>5, <1>6, <2>2, <2>3
  <2>5. \E m \in T : \A n \in T : m <= n
    <3>1. CASE x <= low
      BY <1>6, <2>2, <2>4, <3>1
    <3>2. CASE low <= x
      BY <1>6, <2>2, <2>4, <3>2
    <3> QED BY <2>4, <3>1, <3>2
  <2>6. \E m \in T : \A n \in T : m >= n
    <3>1. CASE x >= high
      BY <1>6, <2>3, <2>4, <3>1
    <3>2. CASE high >= x
      BY <1>6, <2>3, <2>4, <3>2
    <3> QED BY <2>4, <3>1, <3>2
  <2> QED BY <1>4, <2>5, <2>6
<1> QED BY <1>7, <1>8

LEMMA MinAndMax ==
  ASSUME NEW S \in SUBSET Int, IsFiniteSet(S), S # {}
  PROVE  /\ Min(S) \in S /\ \A n \in S : Min(S) <= n
         /\ Max(S) \in S /\ \A n \in S : Max(S) >= n
<1>1. \E m \in S : \A n \in S : m <= n
  BY LeastOfFinite
<1>2. \E m \in S : \A n \in S : m >= n
  BY LeastOfFinite
<1>3. Min(S) \in S /\ \A n \in S : Min(S) <= n
  BY <1>1 DEF Min
<1>4. Max(S) \in S /\ \A n \in S : Max(S) >= n
  BY <1>2 DEF Max
<1> QED BY <1>3, <1>4

LEMMA OfTwo ==
  ASSUME NEW a \in Int, NEW b \in Int
  PROVE  /\ Min({a, b}) \in Int /\ Min({a, b}) \in {a, b} /\ Min({a, b}) <= a /\ Min({a, b}) <= b
         /\ Max({a, b}) \in Int /\ Max({a, b}) \in {a, b} /\ Max({a, b}) >= a /\ Max({a, b}) >= b
<1>1. IsFiniteSet({a, b}) /\ {a, b} \in SUBSET Int /\ {a, b} # {}
  <2>1. IsFiniteSet({a} \cup {b})
    BY FS_Singleton, FS_Union
  <2>2. {a, b} = {a} \cup {b}
    OBVIOUS
  <2> QED BY <2>1, <2>2
<1> QED BY <1>1, MinAndMax

---------------------------------------------------------------------------
(* The inductive invariant of the signals                                  *)

Candles == [ts : 0 .. LastSignalMinute, open : Int, close : Int, side : TrendSides, volume : Int,
            regularOpen : Int, gap : Int]
States == [ts : Nat, side : TrendSides, acceleration : {"none", "up", "down", "steady"}]
Remembers == IF strategy = "Momentum" THEN [low : Int, high : Int] ELSE Int
Memories == [day : Int, high : Int, low : Int, seen : Nat, formed : BOOLEAN,
             fired : SUBSET Directions, firedAt : Int, recent : Seq(Remembers)]
Proposals == [ts : 0 .. LastSignalMinute, direction : Directions, close : Int, stop : Int,
              target : Int, side : TrendSides]

SignalsTyped ==
  /\ strategy \in ByCandle /\ features \in Candles \cup {NoFeatures}
  /\ recomputes \in Nat /\ marketStates \in Seq(States) /\ recomputes + Len(marketStates) <= 2
  /\ pending \/ recomputes > 0 => features \in Candles
  /\ memory \in Memories /\ memory.day <= Day(features.ts) /\ Len(memory.recent) <= Lookback
  /\ proposals \in Seq(Proposals) /\ evaluated \subseteq 0 .. LastSignalMinute

(* A state on its way is of the latest candle and its side, or of an       *)
(* earlier one.                                                            *)
StatesSound ==
  \A i \in DOMAIN marketStates :
    /\ features \in Candles /\ marketStates[i].ts <= features.ts
    /\ marketStates[i].ts = features.ts => marketStates[i].side = features.side

(* The range counts minutes of the window, each once unless some candle    *)
(* was evaluated again.                                                    *)
Window(day) == day * MinutesADay + 1 .. day * MinutesADay + OrMinutes
RangeSound ==
  strategy = "ORB" =>
    /\ memory.seen > 0 => memory.low <= memory.high
    /\ memory.formed => memory.seen >= OrMinutes
    /\ repeated = {} /\ memory.day = Day(features.ts) =>
         memory.seen <= Cardinality(evaluated \cap Window(memory.day))

(* What was proposed today is remembered.                                  *)
Fired(p, m) ==
  CASE strategy = "ORB" -> p.direction \in m.fired
    [] strategy = "Gap" -> m.fired # {}
    [] OTHER -> m.firedAt >= p.ts
ProposalsKept ==
  \A i \in DOMAIN proposals :
    LET p == proposals[i]
    IN /\ features \in Candles /\ p.ts <= features.ts /\ Day(p.ts) <= memory.day
       /\ p.ts = features.ts => p.side = features.side
       /\ Day(p.ts) = memory.day => Fired(p, memory)

SignalsInv ==
  /\ SignalsTyped /\ StatesSound /\ RangeSound /\ ProposalsKept /\ ProposalsSound /\ ProposedOnce

LEMMA SignalsStart == SignalsInit => SignalsInv
<1> SUFFICES ASSUME SignalsInit
             PROVE  SignalsInv
  OBVIOUS
<1> USE DEF SignalsInit
<1>1. SignalsTyped
  <2>1. Blank \in Memories /\ Len(Blank.recent) <= Lookback
    BY SignalsAssumption DEF Blank, Memories
  <2>2. Day(-1) >= -1
    <3> DEFINE D == Day(-1)
               M == MinutesADay
               k == (-1) % M
    <3>1. M \in Nat \ {0} /\ D \in Int /\ k \in 0 .. M - 1 /\ -1 = D * M + k
      BY DayOf, SignalsAssumption
    <3> HIDE DEF D, M, k
    <3>2. D <= -2 => D * M <= (-2) * M
      BY <3>1
    <3>3. D >= -1
      BY <3>1, <3>2
    <3> QED BY <3>3 DEF D
  <2>3. features.ts = -1 /\ memory.day = -1
    BY DEF NoFeatures, Blank
  <2>4. memory.day <= Day(features.ts)
    BY <2>2, <2>3
  <2> QED BY <2>1, <2>4 DEF SignalsTyped
<1>2. RangeSound
  <2>1. IsFiniteSet(evaluated \cap Window(memory.day)) /\ Cardinality(evaluated \cap Window(memory.day)) = 0
    BY FS_EmptySet
  <2> QED BY <2>1 DEF RangeSound, Blank
<1>3. StatesSound /\ ProposalsKept /\ ProposalsSound /\ ProposedOnce
  BY DEF StatesSound, ProposalsKept, ProposalsSound, ProposedOnce
<1> QED BY <1>1, <1>2, <1>3 DEF SignalsInv

---------------------------------------------------------------------------
(* The evaluation of a candle                                              *)

(* The memory an evaluation starts from is of the candle's day.            *)
LEMMA TodayTyped ==
  ASSUME SignalsTyped, features \in Candles
  PROVE  /\ Today \in Memories /\ Today.day = Day(features.ts) /\ Len(Today.recent) <= Lookback
         /\ memory.day = Day(features.ts) => Today = memory
         /\ memory.day # Day(features.ts) => /\ Today.seen = 0 /\ ~Today.formed
                                             /\ Today.fired = {} /\ Today.firedAt = -1
<1>1. CASE memory.day = Day(features.ts)
  BY <1>1 DEF Today, SignalsTyped
<1>2. CASE memory.day # Day(features.ts)
  <2>1. Today = [Blank EXCEPT !.day = Day(features.ts)] /\ Day(features.ts) \in Int
    BY <1>2, DayOf, SignalsAssumption DEF Today, Candles
  <2>2. Today = [day |-> Day(features.ts), high |-> 0, low |-> 0, seen |-> 0, formed |-> FALSE,
                 fired |-> {}, firedAt |-> -1, recent |-> <<>>]
    BY <2>1 DEF Blank
  <2>3. Blank \in Memories
    BY DEF Blank, Memories
  <2>4. Today \in Memories
    BY <2>1, <2>3 DEF Memories
  <2> QED BY <1>2, <2>2, <2>4, SignalsAssumption
<1> QED BY <1>1, <1>2

LEMMA TargetBeyond ==
  ASSUME NEW c \in Int, NEW stop \in Int, c # stop
  PROVE  /\ Target("BUY", c, stop) \in Int /\ Target("BUY", c, stop) > c
         /\ Target("SELL", c, stop) \in Int /\ Target("SELL", c, stop) < c
<1> DEFINE far == Max({c - stop, stop - c})
<1>1. far \in Int /\ far > 0
  <2> DEFINE a == c - stop
             b == stop - c
  <2>1. a \in Int /\ b \in Int /\ (a > 0 \/ b > 0)
    OBVIOUS
  <2> HIDE DEF a, b
  <2>2. Max({a, b}) \in Int /\ Max({a, b}) >= a /\ Max({a, b}) >= b
    BY <2>1, OfTwo
  <2> QED BY <2>1, <2>2 DEF a, b
<1>2. Target("BUY", c, stop) = c + 2 * far /\ Target("SELL", c, stop) = c - 2 * far
  BY DEF Target
<1> HIDE DEF far
<1> QED BY <1>1, <1>2

(* What every evaluation of the latest candle with a state of that candle  *)
(* does: it forgets nothing of the day, and what it proposes goes with the *)
(* trend, leaves room for the target and was not proposed yet.             *)
Fits(d, stop) ==
  /\ stop \in Int /\ stop # features.close
  /\ strategy # "Momentum" => IF d = "BUY" THEN stop < features.close ELSE stop > features.close
Fresh(d, m) ==
  CASE strategy = "ORB" -> d \notin Today.fired /\ d \in m.fired
    [] strategy = "Gap" -> Today.fired = {} /\ m.fired # {}
    [] OTHER -> ~CoolingDown(Today) /\ m.firedAt = features.ts
EvaluationSound(s, e) ==
  /\ e.memory \in Memories /\ Len(e.memory.recent) <= Lookback
  /\ \/ e = Silent(memory)
     \/ /\ e.memory.day = Day(features.ts) /\ Today.fired \subseteq e.memory.fired
        /\ e.memory.firedAt \in {Today.firedAt, features.ts}
  /\ \/ e.direction = "none"
     \/ /\ e.direction \in Directions /\ e.memory.day = Day(features.ts)
        /\ s.side = SideOf(e.direction) /\ Fits(e.direction, e.stop) /\ Fresh(e.direction, e.memory)

LEMMA RememberedTyped ==
  ASSUME NEW S, NEW r \in Seq(S), NEW x \in S, Len(r) <= Lookback
  PROVE  Remembered(r, x) \in Seq(S) /\ Len(Remembered(r, x)) <= Lookback
<1>1. Lookback \in Nat \ {0}
  BY SignalsAssumption
<1>2. CASE Len(r) < Lookback
  BY <1>1, <1>2, AppendProperties DEF Remembered
<1>3. CASE Len(r) = Lookback
  <2>1. r # <<>> /\ Tail(r) \in Seq(S) /\ Len(Tail(r)) = Len(r) - 1
    BY <1>1, <1>3
  <2>2. Append(Tail(r), x) \in Seq(S) /\ Len(Append(Tail(r), x)) = Len(r)
    BY <2>1, AppendProperties
  <2> QED BY <1>1, <1>3, <2>2 DEF Remembered
<1> QED BY <1>1, <1>2, <1>3

LEMMA CandleTyped ==
  ASSUME features \in Candles
  PROVE  /\ features.ts \in Nat /\ features.ts <= LastSignalMinute
         /\ features.open \in Int /\ features.close \in Int /\ features.volume \in Int
         /\ features.regularOpen \in Int /\ features.side \in TrendSides
<1>1. features.ts \in 0 .. LastSignalMinute
  BY DEF Candles
<1>2. /\ features.open \in Int /\ features.close \in Int /\ features.volume \in Int
      /\ features.regularOpen \in Int /\ features.side \in TrendSides
  BY DEF Candles
<1> QED BY <1>1, <1>2, SignalsAssumption

LEMMA ORBSound ==
  ASSUME SignalsTyped, RangeSound, features \in Candles, Regular(features.ts), strategy = "ORB",
         NEW s \in States
  PROVE  /\ EvaluationSound(s, EvaluateORB(s))
         /\ LET n == EvaluateORB(s).memory
            IN /\ n.day = Day(features.ts)
               /\ n.seen > 0 => n.low <= n.high
               /\ n.formed => n.seen >= OrMinutes
               /\ n.seen <= Today.seen \/ (n.seen <= Today.seen + 1 /\ MinutesSinceOpen(features.ts) < OrMinutes)
<1> DEFINE m == Today
           c == features
           formed == [m EXCEPT !.formed = TRUE]
           matching == {d \in Directions :
                          /\ IF d = "BUY" THEN c.close > m.high ELSE c.close < m.low
                          /\ s.side = SideOf(d) /\ d \notin m.fired}
           e == EvaluateORB(s)
           grown == [m EXCEPT !.high = IF m.seen = 0 THEN High(c) ELSE Max({@, High(c)}),
                              !.low = IF m.seen = 0 THEN Low(c) ELSE Min({@, Low(c)}),
                              !.seen = Min({@ + 1, OrMinutes})]
<1>1. /\ m \in Memories /\ m.day = Day(c.ts) /\ Len(m.recent) <= Lookback
      /\ m.seen > 0 => m.low <= m.high
      /\ m.formed => m.seen >= OrMinutes
  BY TodayTyped, SignalsAssumption DEF RangeSound
<1>2. c.open \in Int /\ c.close \in Int /\ c.side \in TrendSides /\ c.ts \in Nat
  BY CandleTyped
<1>3. OrMinutes \in Nat \ {0}
  BY SignalsAssumption
<1>4. CASE MinutesSinceOpen(c.ts) < OrMinutes
  <2>1. e = Silent(grown)
    BY <1>4 DEF EvaluateORB
  <2>2. /\ Low(c) \in Int /\ High(c) \in Int /\ Low(c) <= High(c)
    BY <1>2, OfTwo DEF Low, High
  <2>3. m.high \in Int /\ m.low \in Int /\ m.seen \in Nat
    BY <1>1 DEF Memories
  <2>4. /\ Max({m.high, High(c)}) \in Int /\ Max({m.high, High(c)}) >= High(c)
        /\ Min({m.low, Low(c)}) \in Int /\ Min({m.low, Low(c)}) <= Low(c)
        /\ Min({m.seen + 1, OrMinutes}) \in {m.seen + 1, OrMinutes} /\ Min({m.seen + 1, OrMinutes}) <= m.seen + 1
    <3> HIDE DEF m, c
    <3>1. Max({m.high, High(c)}) \in Int /\ Max({m.high, High(c)}) >= High(c)
      BY <2>2, <2>3, OfTwo
    <3>2. Min({m.low, Low(c)}) \in Int /\ Min({m.low, Low(c)}) <= Low(c)
      BY <2>2, <2>3, OfTwo
    <3> DEFINE k == m.seen + 1
    <3>3. k \in Int /\ OrMinutes \in Int
      BY <1>3, <2>3
    <3> HIDE DEF k
    <3>4. Min({k, OrMinutes}) \in {k, OrMinutes} /\ Min({k, OrMinutes}) <= k
      BY <3>3, OfTwo
    <3> QED BY <3>1, <3>2, <3>4 DEF k
  <2> DEFINE hi == IF m.seen = 0 THEN High(c) ELSE Max({m.high, High(c)})
             lo == IF m.seen = 0 THEN Low(c) ELSE Min({m.low, Low(c)})
             sn == Min({m.seen + 1, OrMinutes})
  <2>9. hi \in Int /\ lo \in Int /\ lo <= hi /\ sn \in Nat /\ sn \in {m.seen + 1, OrMinutes} /\ sn <= m.seen + 1
    <3>1. lo <= Low(c) /\ hi >= High(c) /\ hi \in Int /\ lo \in Int
      <4> HIDE DEF m, c
      <4> QED BY <2>2, <2>4
    <3>2. lo <= hi
      <4> HIDE DEF m, c, lo, hi
      <4> QED BY <2>2, <3>1
    <3>3. sn \in Nat /\ sn \in {m.seen + 1, OrMinutes} /\ sn <= m.seen + 1
      <4> HIDE DEF m, c
      <4> QED BY <1>3, <2>3, <2>4
    <3> QED BY <3>1, <3>2, <3>3
  <2>10. grown = [m EXCEPT !.high = hi, !.low = lo, !.seen = sn]
    OBVIOUS
  <2>5. /\ grown \in Memories /\ grown.day = m.day /\ grown.recent = m.recent /\ grown.fired = m.fired
        /\ grown.firedAt = m.firedAt /\ grown.formed = m.formed
        /\ grown.high \in Int /\ grown.low \in Int /\ grown.low <= grown.high
        /\ grown.seen \in {m.seen + 1, OrMinutes} /\ grown.seen <= m.seen + 1
    <3> HIDE DEF m, c, grown, hi, lo, sn
    <3>1. /\ grown \in Memories /\ grown.day = m.day /\ grown.recent = m.recent /\ grown.fired = m.fired
          /\ grown.firedAt = m.firedAt /\ grown.formed = m.formed
          /\ grown.high = hi /\ grown.low = lo /\ grown.seen = sn
      BY <1>1, <2>9, <2>10 DEF Memories
    <3> QED BY <2>9, <3>1
  <2> HIDE DEF m, c, grown, e, matching, formed
  <2>6. e.memory = grown /\ e.direction = "none"
    BY <2>1 DEF Silent
  <2>7. grown.formed => grown.seen >= OrMinutes
    BY <1>1, <1>3, <2>3, <2>5
  <2>8. EvaluationSound(s, e)
    BY <1>1, <2>5, <2>6 DEF EvaluationSound, m, c
  <2> QED BY <1>1, <1>4, <2>3, <2>5, <2>6, <2>7, <2>8 DEF e, m, c
<1>5. ASSUME NEW n, n = m \/ n = formed, e = Silent(n), n = formed => m.formed \/ RangeSeen(m)
      PROVE  /\ EvaluationSound(s, e)
             /\ e.memory.day = Day(c.ts) /\ (e.memory.seen > 0 => e.memory.low <= e.memory.high)
             /\ (e.memory.formed => e.memory.seen >= OrMinutes) /\ e.memory.seen <= m.seen
  <2>1. /\ n \in Memories /\ n.day = m.day /\ n.recent = m.recent /\ n.fired = m.fired
        /\ n.firedAt = m.firedAt /\ n.high = m.high /\ n.low = m.low /\ n.seen = m.seen /\ n.seen \in Nat
        /\ n.formed => m.formed \/ RangeSeen(m)
    <3> HIDE DEF m
    <3> QED BY <1>1, <1>5 DEF Memories
  <2> HIDE DEF m, c, grown, e, matching, formed
  <2>2. e.memory = n /\ e.direction = "none"
    BY <1>5 DEF Silent
  <2>3. n.formed => n.seen >= OrMinutes
    BY <1>1, <2>1 DEF RangeSeen
  <2>4. EvaluationSound(s, e)
    BY <1>1, <2>1, <2>2 DEF EvaluationSound, m, c
  <2> QED BY <1>1, <2>1, <2>2, <2>3, <2>4
<1>6. CASE ~(MinutesSinceOpen(c.ts) < OrMinutes) /\ ~m.formed /\ ~RangeSeen(m)
  <2>1. e = Silent(m)
    BY <1>6 DEF EvaluateORB
  <2>2. m # formed
    <3> HIDE DEF m
    <3> QED BY <1>1, <1>6 DEF Memories
  <2> HIDE DEF c, grown, e, matching, formed
  <2> QED BY <1>5, <2>1, <2>2 DEF e, c
<1>7. CASE ~(MinutesSinceOpen(c.ts) < OrMinutes) /\ (m.formed \/ RangeSeen(m)) /\ matching = {}
  <2>1. e = Silent(formed)
    BY <1>7 DEF EvaluateORB
  <2> HIDE DEF m, c, grown, e, matching, formed
  <2> QED BY <1>5, <1>7, <2>1 DEF e, c, m
<1>8. CASE ~(MinutesSinceOpen(c.ts) < OrMinutes) /\ (m.formed \/ RangeSeen(m)) /\ matching # {}
  <2> DEFINE d == CHOOSE d \in matching : TRUE
             n == [formed EXCEPT !.fired = @ \cup {d}]
             stop == IF d = "BUY" THEN m.low ELSE m.high
  <2>1. e = Proposes(n, d, stop)
    BY <1>8 DEF EvaluateORB
  <2>2. d \in matching
    <3> HIDE DEF matching
    <3> QED BY <1>8
  <2>3. /\ d \in Directions /\ IF d = "BUY" THEN c.close > m.high ELSE c.close < m.low
        /\ s.side = SideOf(d) /\ d \notin m.fired
    BY <2>2
  <2> HIDE DEF d
  <2>4. /\ n \in Memories /\ n.day = m.day /\ n.recent = m.recent /\ n.fired = m.fired \cup {d}
        /\ n.firedAt = m.firedAt /\ n.high = m.high /\ n.low = m.low /\ n.seen = m.seen /\ n.seen \in Nat
        /\ m.low \in Int /\ m.high \in Int
    <3> HIDE DEF m
    <3> QED BY <1>1, <2>3 DEF Memories
  <2>5. m.seen >= OrMinutes
    BY <1>1, <1>8 DEF RangeSeen
  <2>6. m.low <= m.high
    BY <1>1, <1>3, <2>4, <2>5
  <2>7. stop \in Int /\ stop # c.close /\ IF d = "BUY" THEN stop < c.close ELSE stop > c.close
    <3> HIDE DEF m, c
    <3> QED BY <1>2, <2>3, <2>4, <2>6
  <2> HIDE DEF m, c, grown, e, matching, formed, n, stop
  <2>8. e.memory = n /\ e.direction = d /\ e.stop = stop
    BY <2>1 DEF Proposes
  <2>9. Fits(d, stop) /\ Fresh(d, n)
    BY <2>3, <2>4, <2>7 DEF Fits, Fresh, m, c
  <2>10. EvaluationSound(s, e)
    BY <1>1, <2>3, <2>4, <2>8, <2>9 DEF EvaluationSound, m, c
  <2> QED BY <1>1, <2>4, <2>5, <2>6, <2>8, <2>10 DEF e, m, c
<1> QED BY <1>4, <1>6, <1>7, <1>8

LEMMA GapSound ==
  ASSUME SignalsTyped, features \in Candles, Regular(features.ts), strategy = "Gap", NEW s \in States
  PROVE  EvaluationSound(s, EvaluateGap(s))
<1> DEFINE m == Today
           c == features
           d == GapDirection(c, s.side)
           e == EvaluateGap(s)
           n == [m EXCEPT !.fired = {d}]
<1>1. /\ m \in Memories /\ m.day = Day(c.ts) /\ Len(m.recent) <= Lookback
  BY TodayTyped
<1>2. c.close \in Int /\ c.regularOpen \in Int
  BY CandleTyped
<1>3. CASE c.regularOpen = 0
  <2>1. e = Silent(memory)
    BY <1>3 DEF EvaluateGap
  <2> HIDE DEF m, c, d, e, n
  <2>2. e.memory = memory /\ e.direction = "none"
    BY <2>1 DEF Silent
  <2> QED BY <2>1, <2>2 DEF EvaluationSound, SignalsTyped, e
<1>4. CASE c.regularOpen # 0 /\ (m.fired # {} \/ d = "none")
  <2>1. e = Silent(m)
    BY <1>4 DEF EvaluateGap
  <2> HIDE DEF m, c, d, e, n
  <2>2. e.memory = m /\ e.direction = "none"
    BY <2>1 DEF Silent
  <2> QED BY <1>1, <2>1, <2>2 DEF EvaluationSound, e, m, c
<1>5. CASE c.regularOpen # 0 /\ m.fired = {} /\ d # "none"
  <2>1. e = Proposes(n, d, c.regularOpen)
    BY <1>5 DEF EvaluateGap
  <2>2. /\ d \in Directions /\ s.side = SideOf(d)
        /\ IF d = "BUY" THEN c.regularOpen < c.close ELSE c.regularOpen > c.close
    <3> HIDE DEF c
    <3> QED BY <1>2, <1>5 DEF GapDirection, Directions, SideOf
  <2> HIDE DEF d
  <2>3. n \in Memories /\ n.day = m.day /\ n.recent = m.recent /\ n.fired = {d} /\ n.firedAt = m.firedAt
    <3> HIDE DEF m
    <3> QED BY <1>1, <2>2 DEF Memories
  <2> HIDE DEF m, c, e, n
  <2>4. e.memory = n /\ e.direction = d /\ e.stop = c.regularOpen
    BY <2>1 DEF Proposes
  <2>5. Fits(d, c.regularOpen) /\ Fresh(d, n)
    BY <1>2, <1>5, <2>2, <2>3 DEF Fits, Fresh, m, c
  <2> QED BY <1>1, <1>5, <2>2, <2>3, <2>4, <2>5 DEF EvaluationSound, m, c, e
<1> QED BY <1>3, <1>4, <1>5

(* The open of a candle lies on the far side of its close's direction.     *)
LEMMA StopOfCandle ==
  ASSUME features \in Candles
  PROVE  /\ features.close > features.open => Low(features) \in Int /\ Low(features) < features.close
         /\ features.close < features.open => High(features) \in Int /\ High(features) > features.close
<1>1. features.open \in Int /\ features.close \in Int
  BY CandleTyped
<1> DEFINE a == features.open
           b == features.close
           l == Low(features)
           h == High(features)
<1>2. a \in Int /\ b \in Int /\ l = Min({a, b}) /\ h = Max({a, b})
  BY <1>1 DEF Low, High
<1> HIDE DEF a, b, l, h
<1>3. l \in Int /\ l <= a /\ h \in Int /\ h >= a
  BY <1>2, OfTwo
<1>4. (b > a => l \in Int /\ l < b) /\ (b < a => h \in Int /\ h > b)
  BY <1>2, <1>3
<1> QED BY <1>4 DEF a, b, l, h

(* Remembering when it was fired changes nothing else.                     *)
LEMMA FiredAtTyped ==
  ASSUME NEW m \in Memories, NEW t \in Int
  PROVE  LET n == [m EXCEPT !.firedAt = t]
         IN /\ n \in Memories /\ n.day = m.day /\ n.recent = m.recent /\ n.fired = m.fired
            /\ n.firedAt = t
BY DEF Memories

LEMMA VolumeSpikeSound ==
  ASSUME SignalsTyped, features \in Candles, Regular(features.ts), strategy = "VolumeSpike", NEW s \in States
  PROVE  EvaluationSound(s, EvaluateVolumeSpike(s))
<1> DEFINE m == Today
           c == features
           recent == Remembered(m.recent, c.volume)
           next == [m EXCEPT !.recent = Remembered(@, c.volume)]
           d == IF c.close > c.open THEN "BUY" ELSE "SELL"
           n == [next EXCEPT !.firedAt = c.ts]
           stop == IF d = "BUY" THEN Low(c) ELSE High(c)
           e == EvaluateVolumeSpike(s)
<1>1. /\ m \in Memories /\ m.day = Day(c.ts) /\ Len(m.recent) <= Lookback
  BY TodayTyped
<1>2. c.open \in Int /\ c.close \in Int /\ c.volume \in Int /\ c.ts \in Nat
  BY CandleTyped
<1>3. recent \in Seq(Remembers) /\ Len(recent) <= Lookback
  <2>1. m.recent \in Seq(Remembers) /\ c.volume \in Remembers
    BY <1>1, <1>2 DEF Memories, Remembers
  <2> HIDE DEF m, c
  <2> QED BY <1>1, <2>1, RememberedTyped
<1>4. /\ next \in Memories /\ next.day = m.day /\ next.recent = recent /\ next.fired = m.fired
      /\ next.firedAt = m.firedAt
  <2>1. next = [m EXCEPT !.recent = recent]
    OBVIOUS
  <2> HIDE DEF m, c, recent, next
  <2> QED BY <1>1, <1>3, <2>1 DEF Memories
<1>5. CASE e = Silent(next)
  <2> HIDE DEF m, c, recent, next, e
  <2>1. e.memory = next /\ e.direction = "none"
    BY <1>5 DEF Silent
  <2> QED BY <1>1, <1>3, <1>4, <2>1 DEF EvaluationSound, m, c, e
<1>6. CASE e = Proposes(n, d, stop) /\ ~CoolingDown(m) /\ c.close # c.open /\ s.side = SideOf(d)
  <2>1. d \in Directions
    BY DEF Directions
  <2>6. c.open \in Int /\ c.close \in Int /\ c.ts \in Int
    BY CandleTyped
  <2>2. stop \in Int /\ stop # c.close /\ IF d = "BUY" THEN stop < c.close ELSE stop > c.close
    <3>1. CASE c.close > c.open
      <4>1. d = "BUY" /\ stop = Low(c)
        BY <3>1
      <4>2. Low(c) \in Int /\ Low(c) < c.close
        BY <3>1, StopOfCandle
      <4> HIDE DEF c, d, stop
      <4> QED BY <2>6, <4>1, <4>2
    <3>2. CASE c.close < c.open
      <4>1. ~(c.close > c.open)
        BY <2>6, <3>2
      <4>2. d = "SELL" /\ stop = High(c)
        BY <4>1
      <4>3. High(c) \in Int /\ High(c) > c.close
        BY <3>2, StopOfCandle
      <4> HIDE DEF c, d, stop
      <4> QED BY <2>6, <4>2, <4>3
    <3> HIDE DEF d, stop
    <3> QED BY <2>6, <1>6, <3>1, <3>2
  <2>3. /\ n \in Memories /\ n.day = m.day /\ n.recent = recent /\ n.fired = m.fired /\ n.firedAt = c.ts
    <3>1. c.ts \in Int
      BY <2>6
    <3> HIDE DEF m, c, recent, next
    <3> QED BY <1>4, <3>1, FiredAtTyped
  <2> HIDE DEF m, c, recent, next, n, d, stop, e
  <2>4. e.memory = n /\ e.direction = d /\ e.stop = stop
    BY <1>6 DEF Proposes
  <2>5. Fits(d, stop) /\ Fresh(d, n)
    BY <1>6, <2>2, <2>3 DEF Fits, Fresh, m, c
  <2> QED BY <1>1, <1>3, <1>6, <2>1, <2>3, <2>4, <2>5 DEF EvaluationSound, m, c, e
<1>7. \/ e = Silent(next)
      \/ e = Proposes(n, d, stop) /\ ~CoolingDown(m) /\ c.close # c.open /\ s.side = SideOf(d)
  <2> DEFINE quiet == \/ Len(m.recent) < Lookback \/ CoolingDown(m)
                      \/ c.volume * Lookback <= FoldSeq(LAMBDA v, sum : v + sum, 0, m.recent)
                      \/ c.close = c.open \/ s.side # SideOf(d)
  <2>1. e = IF quiet THEN Silent(next) ELSE Proposes(n, d, stop)
    BY DEF EvaluateVolumeSpike
  <2>2. ~quiet => ~CoolingDown(m) /\ c.close # c.open /\ s.side = SideOf(d)
    OBVIOUS
  <2> HIDE DEF quiet, m, c, recent, next, n, d, stop, e
  <2> QED BY <2>1, <2>2
<1> QED BY <1>5, <1>6, <1>7

LEMMA MomentumSound ==
  ASSUME SignalsTyped, features \in Candles, Regular(features.ts), strategy = "Momentum", NEW s \in States
  PROVE  EvaluationSound(s, EvaluateMomentum(s))
<1> DEFINE m == Today
           c == features
           bar == [low |-> Low(c), high |-> High(c)]
           recent == Remembered(m.recent, bar)
           next == [m EXCEPT !.recent = Remembered(@, bar)]
           d == MomentumDirection(s)
           lows == {m.recent[i].low : i \in DOMAIN m.recent}
           highs == {m.recent[i].high : i \in DOMAIN m.recent}
           swing == IF d = "BUY" THEN Min(lows) ELSE Max(highs)
           n == [next EXCEPT !.firedAt = c.ts]
           e == EvaluateMomentum(s)
<1>1. /\ m \in Memories /\ m.day = Day(c.ts) /\ Len(m.recent) <= Lookback
      /\ m.recent \in Seq([low : Int, high : Int])
  BY TodayTyped DEF Memories, Remembers
<1>2. c.open \in Int /\ c.close \in Int /\ c.ts \in Nat
  BY CandleTyped
<1>3. recent \in Seq(Remembers) /\ Len(recent) <= Lookback
  <2>1. Low(c) \in Int /\ High(c) \in Int
    BY <1>2, OfTwo DEF Low, High
  <2>2. m.recent \in Seq(Remembers) /\ bar \in Remembers
    BY <1>1, <2>1 DEF Remembers
  <2> HIDE DEF m, c, bar
  <2> QED BY <1>1, <2>2, RememberedTyped
<1>4. /\ next \in Memories /\ next.day = m.day /\ next.recent = recent /\ next.fired = m.fired
      /\ next.firedAt = m.firedAt
  <2>1. next = [m EXCEPT !.recent = recent]
    OBVIOUS
  <2> HIDE DEF m, c, recent, next
  <2> QED BY <1>1, <1>3, <2>1 DEF Memories
<1>5. CASE e = Silent(next)
  <2> HIDE DEF m, c, recent, next, e
  <2>1. e.memory = next /\ e.direction = "none"
    BY <1>5 DEF Silent
  <2> QED BY <1>1, <1>3, <1>4, <2>1 DEF EvaluationSound, m, c, e
<1>6. CASE e = Silent(memory)
  <2> HIDE DEF m, c, recent, next, e
  <2>1. e.memory = memory /\ e.direction = "none"
    BY <1>6 DEF Silent
  <2> QED BY <1>6, <2>1 DEF EvaluationSound, SignalsTyped, e
<1>7. CASE /\ e = Proposes(n, d, swing) /\ ~CoolingDown(m) /\ d # "none" /\ c.close # swing
           /\ ~(Len(m.recent) < Lookback)
  <2>1. d \in Directions /\ s.side = SideOf(d)
    <3> HIDE DEF m, c, recent, next, n, swing, e
    <3> QED BY <1>7 DEF MomentumDirection, Directions, SideOf
  <2>2. swing \in Int
    <3> DEFINE f == [i \in DOMAIN m.recent |-> m.recent[i].low]
               g == [i \in DOMAIN m.recent |-> m.recent[i].high]
    <3> HIDE DEF m
    <3>1. DOMAIN m.recent = 1 .. Len(m.recent) /\ Len(m.recent) \in Nat \ {0}
      BY <1>1, <1>7, SignalsAssumption
    <3>2. IsFiniteSet(DOMAIN m.recent)
      BY <3>1, FS_Interval
    <3>3. f \in Surjection(DOMAIN m.recent, lows) /\ g \in Surjection(DOMAIN m.recent, highs)
      BY DEF Surjection
    <3> HIDE DEF f, g
    <3>4. IsFiniteSet(lows) /\ IsFiniteSet(highs)
      BY <3>2, <3>3, FS_Surjection
    <3>5. lows \in SUBSET Int /\ highs \in SUBSET Int
      <4> DEFINE r == m.recent
      <4>1. r \in Seq([low : Int, high : Int])
        BY <1>1
      <4> HIDE DEF r
      <4>2. \A i \in DOMAIN r : r[i] \in [low : Int, high : Int]
        BY <4>1, ElementOfSeq, LenProperties
      <4>3. \A i \in DOMAIN r : r[i].low \in Int /\ r[i].high \in Int
        BY <4>2
      <4> QED BY <4>3 DEF r
    <3>6. lows # {} /\ highs # {}
      <4>1. 1 \in DOMAIN m.recent
        BY <3>1
      <4> QED BY <4>1
    <3> HIDE DEF lows, highs
    <3>7. Min(lows) \in Int /\ Max(highs) \in Int
      BY <3>4, <3>5, <3>6, MinAndMax
    <3> QED BY <3>7
  <2>3. /\ n \in Memories /\ n.day = m.day /\ n.recent = recent /\ n.fired = m.fired /\ n.firedAt = c.ts
    <3>1. c.ts \in Int
      BY <1>2
    <3> HIDE DEF m, c, recent, next
    <3> QED BY <1>4, <3>1, FiredAtTyped
  <2> HIDE DEF m, c, recent, next, n, d, swing, e
  <2>4. e.memory = n /\ e.direction = d /\ e.stop = swing
    BY <1>7 DEF Proposes
  <2>5. Fits(d, swing) /\ Fresh(d, n)
    BY <1>7, <2>2, <2>3 DEF Fits, Fresh, m, c
  <2> QED BY <1>1, <1>3, <1>7, <2>1, <2>3, <2>4, <2>5 DEF EvaluationSound, m, c, e
<1>8. \/ e = Silent(next) \/ e = Silent(memory)
      \/ /\ e = Proposes(n, d, swing) /\ ~CoolingDown(m) /\ d # "none" /\ c.close # swing
         /\ ~(Len(m.recent) < Lookback)
  <2> DEFINE quiet == Len(m.recent) < Lookback \/ CoolingDown(m) \/ d = "none" \/ c.close = swing
  <2>1. e = IF s.acceleration = "none" THEN Silent(memory)
            ELSE IF quiet THEN Silent(next) ELSE Proposes(n, d, swing)
    BY DEF EvaluateMomentum
  <2>2. ~quiet => ~CoolingDown(m) /\ d # "none" /\ c.close # swing /\ ~(Len(m.recent) < Lookback)
    OBVIOUS
  <2> HIDE DEF quiet, m, c, recent, next, n, d, swing, e
  <2> QED BY <2>1, <2>2
<1> QED BY <1>5, <1>6, <1>7, <1>8

LEMMA EvaluationsSound ==
  ASSUME SignalsTyped, RangeSound, features \in Candles, Regular(features.ts), NEW s \in States
  PROVE  EvaluationSound(s, Evaluation(s))
<1>1. CASE strategy = "ORB"
  BY <1>1, ORBSound DEF Evaluation
<1>2. CASE strategy = "Gap"
  BY <1>2, GapSound DEF Evaluation
<1>3. CASE strategy = "VolumeSpike"
  BY <1>3, VolumeSpikeSound DEF Evaluation
<1>4. CASE strategy = "Momentum"
  BY <1>4, MomentumSound DEF Evaluation
<1> QED BY <1>1, <1>2, <1>3, <1>4 DEF SignalsTyped, ByCandle

---------------------------------------------------------------------------
(* Every step keeps the invariant                                          *)

(* The minute of the last candle, and what is known before there is one.   *)
LEMMA MinuteTyped ==
  ASSUME SignalsTyped
  PROVE  /\ features.ts \in Int /\ features.ts >= -1 /\ features.ts <= LastSignalMinute
         /\ features.regularOpen \in Int /\ features.gap \in Int
         /\ features.ts >= 0 => features \in Candles
         /\ LastSignalMinute \in Nat
<1>0. LastSignalMinute \in Nat
  BY SignalsAssumption
<1>1. CASE features \in Candles
  <2>1. features.gap \in Int
    BY <1>1 DEF Candles
  <2> QED BY <1>0, <1>1, <2>1, CandleTyped
<1>2. CASE features = NoFeatures
  BY <1>0, <1>2 DEF NoFeatures
<1> QED BY <1>1, <1>2 DEF SignalsTyped

LEMMA ArrivalTyped ==
  ASSUME SignalsTyped, FeaturesArrive
  PROVE  /\ features' \in Candles /\ features'.ts > features.ts
         /\ IF Day(features'.ts) # Day(features.ts) THEN evaluated' = {} /\ repeated' = {}
                                                    ELSE evaluated' = evaluated /\ repeated' = repeated
<1>1. PICK ts \in features.ts + 1 .. features.ts + 2, bar \in SignalBars, side \in SidesThatMatter,
           volume \in IF strategy = "VolumeSpike" THEN SignalVolumes ELSE {1},
           gap \in IF strategy = "Gap" THEN {-1, 0, 1} ELSE {0} :
        LET first == MinutesSinceOpen(ts) >= 0 /\ (Day(ts) # Day(features.ts) \/ features.regularOpen = 0)
        IN /\ ts <= LastSignalMinute
           /\ features' = [ts |-> ts, open |-> bar[1], close |-> bar[2], side |-> side, volume |-> volume,
                           regularOpen |-> IF first THEN bar[1]
                                           ELSE IF Day(ts) # Day(features.ts) THEN 0 ELSE features.regularOpen,
                           gap |-> IF first THEN gap
                                   ELSE IF Day(ts) # Day(features.ts) THEN 0 ELSE features.gap]
           /\ evaluated' = IF Day(ts) # Day(features.ts) THEN {} ELSE evaluated
           /\ repeated' = IF Day(ts) # Day(features.ts) THEN {} ELSE repeated
  BY Zenon DEF FeaturesArrive
<1> DEFINE other == Day(ts) # Day(features.ts)
           first == MinutesSinceOpen(ts) >= 0 /\ (other \/ features.regularOpen = 0)
           open == IF first THEN bar[1] ELSE IF other THEN 0 ELSE features.regularOpen
           gapped == IF first THEN gap ELSE IF other THEN 0 ELSE features.gap
<1>2. features.ts \in Int /\ features.ts >= -1 /\ features.regularOpen \in Int /\ features.gap \in Int
      /\ LastSignalMinute \in Nat
  BY MinuteTyped
<1>3. ts \in Int /\ ts > features.ts /\ ts >= 0 /\ ts <= LastSignalMinute
  BY <1>1, <1>2
<1>4. bar[1] \in Int /\ bar[2] \in Int /\ side \in TrendSides /\ volume \in Int /\ gap \in Int
  <2>1. bar \in Nat \X Nat
    BY SignalsAssumption
  <2>2. volume \in Int
    <3>1. SignalVolumes \subseteq Nat
      BY SignalsAssumption
    <3> QED BY <3>1
  <2> QED BY <2>1, <2>2 DEF SidesThatMatter
<1>5. features' = [ts |-> ts, open |-> bar[1], close |-> bar[2], side |-> side, volume |-> volume,
                   regularOpen |-> open, gap |-> gapped]
      /\ IF other THEN evaluated' = {} /\ repeated' = {} ELSE evaluated' = evaluated /\ repeated' = repeated
  BY <1>1, Zenon
<1>6. open \in Int /\ gapped \in Int
  BY <1>2, <1>4
<1> HIDE DEF open, gapped, first
<1>7. ts \in 0 .. LastSignalMinute
  BY <1>2, <1>3
<1>8. features' \in Candles /\ features'.ts = ts
  BY <1>4, <1>5, <1>6, <1>7 DEF Candles
<1> QED BY <1>3, <1>5, <1>8

LEMMA TriggerTyped ==
  ASSUME recomputes \in Nat, Trigger
  PROVE  recomputes' \in Nat /\ recomputes' <= recomputes + 1
BY DEF Trigger, Run

LEMMA ArrivalStep ==
  ASSUME SignalsInv, FeaturesArrive
  PROVE  SignalsInv'
<1> USE DEF SignalsInv
<1>1. UNCHANGED <<strategy, prevTrend, marketStates, memory, proposals>> /\ Trigger
      /\ recomputes + Len(marketStates) < 2
  BY Zenon DEF FeaturesArrive
<1>2. /\ features' \in Candles /\ features'.ts > features.ts
      /\ IF Day(features'.ts) # Day(features.ts) THEN evaluated' = {} /\ repeated' = {}
                                                 ELSE evaluated' = evaluated /\ repeated' = repeated
  BY ArrivalTyped
<1>3. features.ts \in Int /\ features'.ts \in Int
  <2>1. features'.ts \in 0 .. LastSignalMinute /\ LastSignalMinute \in Nat
    BY <1>2, SignalsAssumption DEF Candles
  <2> QED BY <2>1, MinuteTyped
<1>4. Day(features.ts) \in Int /\ Day(features'.ts) \in Int /\ Day(features.ts) <= Day(features'.ts)
  <2>1. features.ts <= features'.ts
    BY <1>2, <1>3
  <2> QED BY <1>3, <2>1, DayMonotone, DayOf
<1>5. memory.day \in Int /\ memory.day <= Day(features.ts)
  BY DEF SignalsTyped, Memories
<1>6. SignalsTyped'
  <2>1. recomputes' \in Nat /\ recomputes' + Len(marketStates') <= 2
    <3>1. recomputes \in Nat /\ Len(marketStates) \in Nat
      BY DEF SignalsTyped
    <3>2. recomputes' \in Nat /\ recomputes' <= recomputes + 1
      BY <1>1, <3>1, TriggerTyped
    <3> QED BY <1>1, <3>1, <3>2
  <2>2. Remembers' = Remembers
    BY <1>1 DEF Remembers
  <2>3. memory' \in Memories' /\ Memories' = Memories
    BY <1>1, <2>2 DEF SignalsTyped, Memories
  <2>4. memory'.day <= Day(features'.ts)
    BY <1>1, <1>4, <1>5
  <2>5. evaluated' \subseteq 0 .. LastSignalMinute
    BY <1>2 DEF SignalsTyped
  <2> QED BY <1>1, <1>2, <2>1, <2>3, <2>4, <2>5 DEF SignalsTyped
<1>7. StatesSound'
  <2> SUFFICES ASSUME NEW i \in DOMAIN marketStates
               PROVE  /\ marketStates[i].ts <= features'.ts
                      /\ marketStates[i].ts # features'.ts
    BY <1>1, <1>2 DEF StatesSound
  <2>1. marketStates[i].ts \in Nat
    <3>1. marketStates[i] \in States
      BY ElementOfSeq, LenProperties DEF SignalsTyped
    <3> QED BY <3>1 DEF States
  <2>2. marketStates[i].ts <= features.ts
    BY DEF StatesSound
  <2> QED BY <1>2, <1>3, <2>1, <2>2
<1>8. RangeSound'
  <2>1. memory.day # Day(features'.ts) \/ (evaluated' = evaluated /\ repeated' = repeated /\ Day(features'.ts) = Day(features.ts))
    BY <1>2, <1>4, <1>5
  <2> QED BY <1>1, <2>1 DEF RangeSound, Window
<1>9. ProposalsKept'
  <2>1. ASSUME NEW i \in DOMAIN proposals
        PROVE  proposals[i].ts <= features'.ts /\ proposals[i].ts # features'.ts
    <3>1. proposals[i] \in Proposals
      BY ElementOfSeq, LenProperties DEF SignalsTyped
    <3>2. proposals[i].ts \in Int
      BY <3>1, SignalsAssumption DEF Proposals
    <3>3. proposals[i].ts <= features.ts
      BY DEF ProposalsKept
    <3> QED BY <1>2, <1>3, <3>2, <3>3
  <2>2. \A i \in DOMAIN proposals : Fired(proposals[i], memory)' <=> Fired(proposals[i], memory)
    BY <1>1 DEF Fired
  <2> QED BY <1>1, <1>2, <2>1, <2>2 DEF ProposalsKept
<1>10. ProposalsSound' /\ ProposedOnce'
  BY <1>1 DEF ProposalsSound, ProposedOnce
<1> QED BY <1>6, <1>7, <1>8, <1>9, <1>10

(* Of the worker and its throttle nothing but the states on their way      *)
(* concerns the strategies.                                                *)
LEMMA WorkerKeeps ==
  ASSUME SignalsInv, UNCHANGED <<strategy, features, memory, proposals, evaluated, repeated>>,
         recomputes' \in Nat, marketStates' \in Seq(States), recomputes' + Len(marketStates') <= 2,
         pending' \/ recomputes' > 0 => features \in Candles, StatesSound'
  PROVE  SignalsInv'
<1> USE DEF SignalsInv
<1>1. SignalsTyped'
  BY DEF SignalsTyped, Memories, Remembers
<1>2. RangeSound'
  BY DEF RangeSound, Window
<1>3. ProposalsKept'
  <2>1. \A i \in DOMAIN proposals : Fired(proposals[i], memory)' <=> Fired(proposals[i], memory)
    BY DEF Fired
  <2> QED BY <2>1 DEF ProposalsKept
<1>4. ProposalsSound' /\ ProposedOnce'
  BY DEF ProposalsSound, ProposedOnce
<1> QED BY <1>1, <1>2, <1>3, <1>4

LEMMA RunStep ==
  ASSUME SignalsInv, RunAfterDelay \/ RunAtCeiling
  PROVE  SignalsInv'
<1>1. /\ UNCHANGED <<strategy, features, prevTrend, marketStates, memory, proposals, evaluated, repeated>>
      /\ recomputes' = recomputes + 1 /\ recomputes + Len(marketStates) < 2
      /\ features \in Candles
  <2>1. SignalsTyped
    BY DEF SignalsInv
  <2>2. CASE RunAfterDelay
    BY <2>1, <2>2 DEF RunAfterDelay, Run, SignalsTyped
  <2>3. CASE RunAtCeiling
    <3>1. features \in Candles
      BY <2>1, <2>3, MinuteTyped DEF RunAtCeiling
    <3>2. Len(marketStates) = 0
      BY <2>3 DEF RunAtCeiling
    <3> QED BY <2>3, <3>1, <3>2 DEF RunAtCeiling, Run
  <2> QED BY <2>2, <2>3
<1>2. recomputes \in Nat /\ marketStates \in Seq(States) /\ Len(marketStates) \in Nat
  BY DEF SignalsInv, SignalsTyped
<1>3. recomputes' \in Nat /\ recomputes' + Len(marketStates') <= 2
  BY <1>1, <1>2
<1>4. StatesSound'
  BY <1>1 DEF SignalsInv, StatesSound
<1> QED BY <1>1, <1>2, <1>3, <1>4, WorkerKeeps

LEMMA ComputeStep ==
  ASSUME SignalsInv, ComputeState
  PROVE  SignalsInv'
<1>1. /\ UNCHANGED <<strategy, features, pending, memory, proposals, evaluated, repeated>>
      /\ recomputes > 0 /\ recomputes' = recomputes - 1 /\ marketStates' = Append(marketStates, Computed)
  BY DEF ComputeState
<1>2. /\ recomputes \in Nat /\ marketStates \in Seq(States) /\ Len(marketStates) \in Nat
      /\ recomputes + Len(marketStates) <= 2
      /\ (pending \/ recomputes > 0 => features \in Candles)
  BY DEF SignalsInv, SignalsTyped
<1>3. features \in Candles
  BY <1>1, <1>2
<1>4. Computed \in States /\ Computed.ts = features.ts /\ Computed.side = features.side
  <2>1. Acceleration \in {"none", "up", "down", "steady"}
    BY DEF Acceleration
  <2>2. features.ts \in Nat /\ features.side \in TrendSides
    BY <1>3, CandleTyped
  <2> QED BY <2>1, <2>2 DEF Computed, States
<1>5. /\ marketStates' \in Seq(States) /\ Len(marketStates') = Len(marketStates) + 1
      /\ \A i \in 1 .. Len(marketStates) : marketStates'[i] = marketStates[i]
      /\ marketStates'[Len(marketStates) + 1] = Computed
  <2> HIDE DEF Computed
  <2> QED BY <1>1, <1>2, <1>4, AppendProperties
<1>6. StatesSound'
  <2> SUFFICES ASSUME NEW i \in 1 .. Len(marketStates) + 1
               PROVE  /\ marketStates'[i].ts <= features.ts
                      /\ marketStates'[i].ts = features.ts => marketStates'[i].side = features.side
    <3>1. DOMAIN marketStates' = 1 .. Len(marketStates) + 1
      BY <1>5
    <3> QED BY <1>1, <1>3, <3>1 DEF StatesSound
  <2>1. CASE i \in 1 .. Len(marketStates)
    <3>1. i \in DOMAIN marketStates
      BY <1>2, <2>1
    <3> QED BY <1>5, <2>1, <3>1 DEF SignalsInv, StatesSound
  <2>2. CASE i = Len(marketStates) + 1
    <3>1. features.ts \in Nat
      BY <1>3, CandleTyped
    <3> QED BY <1>4, <1>5, <2>2, <3>1
  <2> QED BY <1>2, <2>1, <2>2
<1>7. recomputes' \in Nat /\ recomputes' + Len(marketStates') <= 2
  BY <1>1, <1>2, <1>5
<1> QED BY <1>1, <1>3, <1>5, <1>6, <1>7, WorkerKeeps

(* What was proposed for the day of the latest candle is in the memory the *)
(* evaluation starts from.                                                 *)
LEMMA FiredToday ==
  ASSUME SignalsInv, features \in Candles, NEW i \in DOMAIN proposals,
         Day(proposals[i].ts) = Day(features.ts)
  PROVE  Today = memory /\ Fired(proposals[i], Today)
<1> USE DEF SignalsInv
<1>1. /\ Day(proposals[i].ts) <= memory.day /\ memory.day <= Day(features.ts)
      /\ Day(proposals[i].ts) = memory.day => Fired(proposals[i], memory)
  BY DEF ProposalsKept, SignalsTyped
<1>2. memory.day \in Int /\ Day(features.ts) \in Int
  <2>1. features.ts \in Int
    BY CandleTyped
  <2> QED BY <2>1, DayOf DEF SignalsTyped, Memories
<1>3. memory.day = Day(features.ts)
  BY <1>1, <1>2
<1> QED BY <1>1, <1>3, TodayTyped

(* A minute of the opening window belongs to the window of its day.        *)
LEMMA InWindow ==
  ASSUME NEW t \in Int, Regular(t), MinutesSinceOpen(t) < OrMinutes
  PROVE  t \in Window(Day(t))
<1> DEFINE D == Day(t)
           M == MinutesADay
           r == t % M
           p == D * M
<1>1. D \in Int /\ M \in Nat \ {0} /\ r \in 0 .. M - 1 /\ t = D * M + r /\ OrMinutes \in Nat \ {0}
  BY DayOf, SignalsAssumption
<1>2. r - 1 >= 0 /\ r - 1 < OrMinutes
  BY DEF Regular, MinutesSinceOpen
<1>3. p \in Int /\ t = p + r /\ r \in Int
  <2> HIDE DEF D, M, r
  <2> QED BY <1>1
<1> HIDE DEF p, r
<1>4. t \in p + 1 .. p + OrMinutes
  BY <1>1, <1>2, <1>3
<1> QED BY <1>4 DEF Window, p

(* Evaluating a new minute of the window counts it, any other changes      *)
(* nothing.                                                                *)
LEMMA WindowCounted ==
  ASSUME evaluated \subseteq 0 .. LastSignalMinute, NEW t \in Nat, NEW day \in Int
  PROVE  LET before == Cardinality(evaluated \cap Window(day))
             after == Cardinality((evaluated \cup {t}) \cap Window(day))
         IN /\ before \in Nat /\ after \in Nat /\ before <= after
            /\ t \in Window(day) /\ t \notin evaluated => after = before + 1
<1> DEFINE W == Window(day)
           A == evaluated \cap W
           B == (evaluated \cup {t}) \cap W
<1>1. IsFiniteSet(W)
  <2>1. day * MinutesADay + 1 \in Int /\ day * MinutesADay + OrMinutes \in Int
    BY SignalsAssumption
  <2> QED BY <2>1, FS_Interval DEF Window
<1>2. IsFiniteSet(A) /\ IsFiniteSet(B) /\ A \subseteq B
  <2> HIDE DEF W
  <2>1. A \subseteq W /\ B \subseteq W /\ A \subseteq B
    OBVIOUS
  <2> QED BY <1>1, <2>1, FS_Subset
<1>3. Cardinality(A) \in Nat /\ Cardinality(B) \in Nat /\ Cardinality(A) <= Cardinality(B)
  <2> HIDE DEF A, B
  <2> QED BY <1>2, FS_CardinalityType, FS_Subset
<1>4. ASSUME t \in W, t \notin evaluated PROVE Cardinality(B) = Cardinality(A) + 1
  <2>1. B = A \cup {t} /\ t \notin A
    BY <1>4
  <2> HIDE DEF A, B
  <2> QED BY <1>2, <2>1, FS_AddElement
<1> QED BY <1>3, <1>4

(* The steps of the scheduler that evaluate.                               *)
Proposal(e) == [ts |-> features.ts, direction |-> e.direction, close |-> features.close, stop |-> e.stop,
                target |-> Target(e.direction, features.close, e.stop), side |-> features.side]
Evaluates(s) ==
  LET e == Evaluation(s)
  IN /\ memory' = e.memory /\ evaluated' = evaluated \cup {features.ts}
     /\ repeated' = IF features.ts \in evaluated THEN repeated \cup {features.ts} ELSE repeated
     /\ proposals' = IF e.direction = "none" THEN proposals ELSE Append(proposals, Proposal(e))

LEMMA ProposalFits ==
  ASSUME SignalsTyped, features \in Candles, NEW s \in States, s.side = features.side,
         NEW e, EvaluationSound(s, e), e.direction # "none"
  PROVE  LET p == Proposal(e)
             sign == IF p.direction = "BUY" THEN 1 ELSE -1
         IN /\ p \in Proposals /\ p.ts = features.ts /\ p.direction = e.direction /\ p.side = features.side
            /\ p.side = SideOf(p.direction)
            /\ strategy # "Momentum" => sign * (p.close - p.stop) > 0
            /\ sign * (p.target - p.close) > 0
<1> DEFINE p == Proposal(e)
           c == features.close
           d == e.direction
           t == Target(d, c, e.stop)
<1>1. d \in Directions /\ s.side = SideOf(d) /\ Fits(d, e.stop)
  BY DEF EvaluationSound
<1>2. c \in Int /\ features.side \in TrendSides /\ features.ts \in 0 .. LastSignalMinute
  BY CandleTyped DEF Candles
<1>3. e.stop \in Int /\ e.stop # c
      /\ (strategy # "Momentum" => IF d = "BUY" THEN e.stop < c ELSE e.stop > c)
  BY <1>1 DEF Fits
<1>4. t \in Int /\ IF d = "BUY" THEN t > c ELSE t < c
  <2> HIDE DEF c, d
  <2>1. CASE d = "BUY"
    BY <1>2, <1>3, <2>1, TargetBeyond
  <2>2. CASE d = "SELL"
    BY <1>2, <1>3, <2>2, TargetBeyond
  <2> QED BY <1>1, <2>1, <2>2 DEF Directions
<1>5. p = [ts |-> features.ts, direction |-> d, close |-> c, stop |-> e.stop, target |-> t, side |-> features.side]
  BY DEF Proposal
<1> HIDE DEF p, c, t
<1>6. /\ p \in Proposals /\ p.ts = features.ts /\ p.direction = d /\ p.side = features.side
      /\ p.close = c /\ p.stop = e.stop /\ p.target = t
  BY <1>1, <1>2, <1>3, <1>4, <1>5 DEF Proposals
<1>7. LET sign == IF p.direction = "BUY" THEN 1 ELSE -1
      IN /\ strategy # "Momentum" => sign * (p.close - p.stop) > 0
         /\ sign * (p.target - p.close) > 0
  <2> HIDE DEF d
  <2>1. CASE d = "BUY"
    BY <1>2, <1>3, <1>4, <1>6, <2>1
  <2>2. CASE d # "BUY"
    <3>1. (-1) * (c - e.stop) = e.stop - c /\ (-1) * (t - c) = c - t
      BY <1>2, <1>3, <1>4
    <3> QED BY <1>2, <1>3, <1>4, <1>6, <2>2, <3>1
  <2> QED BY <2>1, <2>2
<1> QED BY <1>1, <1>6, <1>7 DEF p, d

LEMMA EvaluatesTyped ==
  ASSUME SignalsInv, features \in Candles, Regular(features.ts), NEW s \in States, s.side = features.side,
         Evaluates(s), UNCHANGED <<strategy, features, pending, recomputes>>,
         marketStates' \in Seq(States), Len(marketStates') <= Len(marketStates)
  PROVE  SignalsTyped'
<1> DEFINE e == Evaluation(s)
<1> USE DEF SignalsInv
<1>1. EvaluationSound(s, e)
  BY EvaluationsSound
<1>2. /\ memory' = e.memory /\ evaluated' = evaluated \cup {features.ts}
      /\ proposals' = IF e.direction = "none" THEN proposals ELSE Append(proposals, Proposal(e))
  BY DEF Evaluates
<1> HIDE DEF e
<1>3. memory' \in Memories' /\ Len(memory'.recent) <= Lookback
  <2>1. Memories' = Memories
    BY DEF Memories, Remembers
  <2> QED BY <1>1, <1>2, <2>1 DEF EvaluationSound
<1>4. memory'.day <= Day(features.ts)
  <2>1. e.memory.day = Day(features.ts) \/ e.memory = memory
    BY <1>1 DEF EvaluationSound, Silent
  <2>2. Day(features.ts) \in Int
    BY CandleTyped, DayOf
  <2> QED BY <1>2, <2>1, <2>2 DEF SignalsTyped
<1>5. proposals' \in Seq(Proposals)
  <2>1. CASE e.direction = "none"
    BY <1>2, <2>1 DEF SignalsTyped
  <2>2. CASE e.direction # "none"
    <3> DEFINE p == Proposal(e)
    <3>1. p \in Proposals
      BY <1>1, <2>2, ProposalFits
    <3> HIDE DEF p
    <3>2. Append(proposals, p) \in Seq(Proposals)
      BY <3>1, AppendProperties DEF SignalsTyped
    <3> QED BY <1>2, <2>2, <3>2 DEF p
  <2> QED BY <2>1, <2>2
<1>6. evaluated' \subseteq 0 .. LastSignalMinute
  BY <1>2 DEF SignalsTyped, Candles
<1>7. recomputes' + Len(marketStates') <= 2
  <2>1. recomputes \in Nat /\ Len(marketStates) \in Nat /\ Len(marketStates') \in Nat
        /\ recomputes + Len(marketStates) <= 2
    BY DEF SignalsTyped
  <2> QED BY <2>1
<1> QED BY <1>3, <1>4, <1>5, <1>6, <1>7 DEF SignalsTyped

LEMMA EvaluatesRange ==
  ASSUME SignalsInv, features \in Candles, Regular(features.ts), NEW s \in States,
         Evaluates(s), UNCHANGED <<strategy, features>>
  PROVE  RangeSound'
<1> DEFINE n == Evaluation(s).memory
           D == Day(features.ts)
           B == evaluated \cap Window(D)
           A == (evaluated \cup {features.ts}) \cap Window(D)
<1> USE DEF SignalsInv
<1>1. SUFFICES ASSUME strategy = "ORB"
               PROVE  /\ n.seen > 0 => n.low <= n.high
                      /\ n.formed => n.seen >= OrMinutes
                      /\ repeated' = {} /\ n.day = D => n.seen <= Cardinality(A)
  <2>1. memory' = n /\ evaluated' = evaluated \cup {features.ts}
    BY DEF Evaluates
  <2> HIDE DEF n
  <2> QED BY <2>1 DEF RangeSound, Window
<1>2. Evaluation(s) = EvaluateORB(s)
  BY <1>1 DEF Evaluation
<1>3. /\ EvaluationSound(s, EvaluateORB(s))
      /\ LET k == EvaluateORB(s).memory
         IN /\ k.day = Day(features.ts)
            /\ k.seen > 0 => k.low <= k.high
            /\ k.formed => k.seen >= OrMinutes
            /\ k.seen <= Today.seen \/ (k.seen <= Today.seen + 1 /\ MinutesSinceOpen(features.ts) < OrMinutes)
  BY <1>1, ORBSound
<1>4. /\ n \in Memories
      /\ n.seen > 0 => n.low <= n.high
      /\ n.formed => n.seen >= OrMinutes
      /\ n.seen <= Today.seen \/ (n.seen <= Today.seen + 1 /\ MinutesSinceOpen(features.ts) < OrMinutes)
  <2>1. n = EvaluateORB(s).memory
    BY <1>2
  <2> HIDE DEF n
  <2> QED BY <1>3, <2>1 DEF EvaluationSound
<1>5. ASSUME repeated' = {} PROVE n.seen <= Cardinality(A)
  <2>1. features.ts \notin evaluated /\ repeated = {}
    <3>1. repeated' = IF features.ts \in evaluated THEN repeated \cup {features.ts} ELSE repeated
      BY DEF Evaluates
    <3> QED BY <1>5, <3>1
  <2>2. features.ts \in Nat /\ D \in Int
    BY CandleTyped, DayOf
  <2>3. /\ Cardinality(B) \in Nat /\ Cardinality(A) \in Nat /\ Cardinality(B) <= Cardinality(A)
        /\ features.ts \in Window(D) /\ features.ts \notin evaluated => Cardinality(A) = Cardinality(B) + 1
    <3>1. evaluated \subseteq 0 .. LastSignalMinute
      BY DEF SignalsTyped
    <3> HIDE DEF D
    <3> QED BY <2>2, <3>1, WindowCounted
  <2>4. Today.seen <= Cardinality(B)
    <3>1. CASE memory.day = D
      <4>1. Today = memory
        BY <3>1, TodayTyped
      <4>2. memory.seen <= Cardinality(evaluated \cap Window(memory.day))
        BY <1>1, <2>1, <3>1 DEF RangeSound
      <4> QED BY <3>1, <4>1, <4>2
    <3>2. CASE memory.day # D
      <4>1. Today.seen = 0
        BY <3>2, TodayTyped
      <4> QED BY <2>3, <4>1
    <3> QED BY <3>1, <3>2
  <2>5. MinutesSinceOpen(features.ts) < OrMinutes => features.ts \in Window(D)
    BY <2>2, InWindow
  <2>6. n.seen \in Nat /\ Today.seen \in Nat
    <3>1. Today \in Memories
      BY TodayTyped
    <3> QED BY <1>4, <3>1 DEF Memories
  <2> HIDE DEF n, A, B, D
  <2> QED BY <1>4, <2>1, <2>3, <2>4, <2>5, <2>6
<1> QED BY <1>4, <1>5

LEMMA EvaluatesKept ==
  ASSUME SignalsInv, features \in Candles, Regular(features.ts), NEW s \in States, s.side = features.side,
         Evaluates(s), UNCHANGED <<strategy, features>>
  PROVE  ProposalsKept'
<1> DEFINE e == Evaluation(s)
           p == Proposal(e)
           D == Day(features.ts)
           Kept(q) == /\ q.ts <= features.ts /\ Day(q.ts) <= e.memory.day
                      /\ q.ts = features.ts => q.side = features.side
                      /\ Day(q.ts) = e.memory.day => Fired(q, e.memory)
<1> USE DEF SignalsInv
<1>1. EvaluationSound(s, e)
  BY EvaluationsSound
<1>2. features.ts \in Nat /\ D \in Int /\ proposals \in Seq(Proposals)
  <2>1. features.ts \in Nat
    BY CandleTyped
  <2>2. D \in Int
    BY <2>1, DayOf
  <2>3. proposals \in Seq(Proposals)
    BY DEF SignalsTyped
  <2> QED BY <2>1, <2>2, <2>3
<1>3. ASSUME NEW i \in DOMAIN proposals PROVE Kept(proposals[i])
  <2> DEFINE q == proposals[i]
  <2>1. /\ q.ts <= features.ts /\ Day(q.ts) <= memory.day
        /\ q.ts = features.ts => q.side = features.side
        /\ Day(q.ts) = memory.day => Fired(q, memory)
    BY DEF ProposalsKept
  <2>2. q.ts \in Nat
    <3>1. q \in Proposals
      BY <1>2, ElementOfSeq, LenProperties
    <3> QED BY <3>1 DEF Proposals
  <2>3. CASE e = Silent(memory)
    <3>1. e.memory = memory
      BY <2>3 DEF Silent
    <3> HIDE DEF e
    <3> QED BY <2>1, <3>1
  <2>4. CASE e # Silent(memory)
    <3>1. /\ e.memory.day = D /\ Today.fired \subseteq e.memory.fired
          /\ e.memory.firedAt \in {Today.firedAt, features.ts}
      BY <1>1, <2>4 DEF EvaluationSound
    <3>2. Day(q.ts) <= D
      BY <1>2, <2>1, <2>2, DayMonotone
    <3>3. ASSUME Day(q.ts) = D PROVE Fired(q, e.memory)
      <4>1. Fired(q, Today)
        BY <3>3, FiredToday
      <4>2. Today.firedAt \in Int
        BY TodayTyped DEF Memories
      <4> HIDE DEF e, q
      <4> QED BY <1>2, <2>1, <2>2, <3>1, <4>1, <4>2 DEF Fired
    <3> HIDE DEF e, D
    <3> QED BY <2>1, <3>1, <3>2, <3>3
  <2> QED BY <2>3, <2>4
<1>4. ASSUME e.direction # "none" PROVE Kept(p)
  <2>1. p.ts = features.ts /\ p.side = features.side /\ p.direction = e.direction
    BY DEF Proposal
  <2>2. e.memory.day = D /\ Fresh(e.direction, e.memory)
    BY <1>1, <1>4 DEF EvaluationSound
  <2> HIDE DEF e, p
  <2>3. Fired(p, e.memory)
    BY <1>2, <2>1, <2>2 DEF Fired, Fresh
  <2> QED BY <1>2, <2>1, <2>2, <2>3
<1>5. /\ memory' = e.memory
      /\ proposals' = IF e.direction = "none" THEN proposals ELSE Append(proposals, p)
  BY DEF Evaluates
<1>6. \A i \in DOMAIN proposals' : Kept(proposals'[i])
  <2> HIDE DEF e, p, Kept
  <2>1. CASE e.direction = "none"
    BY <1>3, <1>5, <2>1
  <2>2. CASE e.direction # "none"
    <3>1. proposals' = Append(proposals, p)
      BY <1>5, <2>2
    <3>2. \A i \in DOMAIN proposals' : (i \in DOMAIN proposals /\ proposals'[i] = proposals[i]) \/ proposals'[i] = p
      <4>1. DOMAIN proposals' = 1 .. Len(proposals) + 1 /\ Len(proposals) \in Nat
            /\ DOMAIN proposals = 1 .. Len(proposals)
        BY <1>2, <3>1
      <4>2. \A i \in 1 .. Len(proposals) + 1 : proposals'[i] = IF i <= Len(proposals) THEN proposals[i] ELSE p
        BY <1>2, <3>1
      <4> QED BY <4>1, <4>2
    <3> QED BY <1>3, <1>4, <2>2, <3>2
  <2> QED BY <2>1, <2>2
<1>7. \A i \in DOMAIN proposals' : Fired(proposals[i], memory)' <=> Fired(proposals'[i], e.memory)
  BY <1>5 DEF Fired
<1> HIDE DEF e
<1> QED BY <1>5, <1>6, <1>7 DEF ProposalsKept

(* A candle that was proposed before, or a day, a direction or a moment    *)
(* its strategy does not propose again, is not proposed now.               *)
LEMMA EvaluatesNew ==
  ASSUME SignalsInv, features \in Candles, Regular(features.ts), NEW s \in States, s.side = features.side,
         Evaluation(s).direction # "none", NEW i \in DOMAIN proposals
  PROVE  LET p == proposals[i]
             d == Evaluation(s).direction
             q == features
         IN /\ p.ts < q.ts
            /\ strategy = "ORB" /\ Day(p.ts) = Day(q.ts) => p.direction # d
            /\ strategy = "Gap" => Day(p.ts) # Day(q.ts)
            /\ strategy \in {"VolumeSpike", "Momentum"} /\ Day(p.ts) = Day(q.ts) => q.ts >= p.ts + Cooldown
<1> DEFINE e == Evaluation(s)
           d == e.direction
           p == proposals[i]
           D == Day(features.ts)
<1> USE DEF SignalsInv
<1>1. d \in Directions /\ s.side = SideOf(d) /\ Fresh(d, e.memory)
  <2>1. EvaluationSound(s, e) /\ e.direction # "none"
    BY EvaluationsSound
  <2> HIDE DEF e
  <2> QED BY <2>1 DEF EvaluationSound
<1>2. features.ts \in Nat /\ Cooldown \in Nat \ {0} /\ strategy \in ByCandle
  BY CandleTyped, SignalsAssumption DEF SignalsTyped
<1>3. p \in Proposals /\ p.ts \in Nat
  <2>1. p \in Proposals
    BY ElementOfSeq, LenProperties DEF SignalsTyped
  <2> QED BY <2>1 DEF Proposals
<1>4. p.ts <= features.ts /\ (p.ts = features.ts => p.side = features.side) /\ p.side = SideOf(p.direction)
  BY DEF ProposalsKept, ProposalsSound
<1>5. Day(p.ts) = D => Fired(p, Today)
  BY FiredToday
<1>6. Today.firedAt \in Int
  BY TodayTyped DEF Memories
<1> HIDE DEF d, e, p, D
<1>7. CASE strategy = "ORB"
  <2>1. Day(p.ts) = D => p.direction # d
    BY <1>1, <1>5, <1>7 DEF Fired, Fresh
  <2>2. p.ts # features.ts
    <3>1. SUFFICES ASSUME p.ts = features.ts PROVE FALSE
      OBVIOUS
    <3>2. SideOf(p.direction) = SideOf(d) /\ p.direction \in Directions
      BY <1>1, <1>3, <1>4, <3>1 DEF Proposals
    <3>3. p.direction = d
      BY <1>1, <3>2 DEF SideOf, Directions
    <3> QED BY <2>1, <3>1, <3>3 DEF D
  <2> QED BY <1>2, <1>3, <1>4, <1>7, <2>1, <2>2 DEF d, e, p, D
<1>8. CASE strategy = "Gap"
  <2>1. Day(p.ts) # D
    BY <1>1, <1>5, <1>8 DEF Fired, Fresh
  <2>2. p.ts # features.ts
    BY <2>1 DEF D
  <2> QED BY <1>2, <1>3, <1>4, <1>8, <2>1, <2>2 DEF d, e, p, D
<1>9. CASE strategy \in {"VolumeSpike", "Momentum"}
  <2>1. Day(p.ts) = D => Today.firedAt >= p.ts
    BY <1>5, <1>9 DEF Fired
  <2>2. ~CoolingDown(Today)
    BY <1>1, <1>9 DEF Fresh
  <2>3. Day(p.ts) = D => features.ts >= p.ts + Cooldown
    BY <1>2, <1>3, <1>6, <2>1, <2>2 DEF CoolingDown
  <2>4. p.ts # features.ts
    <3>1. p.ts = features.ts => Day(p.ts) = D
      BY DEF D
    <3> QED BY <1>2, <1>3, <2>3, <3>1
  <2> QED BY <1>2, <1>3, <1>4, <1>9, <2>3, <2>4 DEF d, e, p, D
<1> QED BY <1>2, <1>7, <1>8, <1>9 DEF ByCandle

LEMMA EvaluatesProposals ==
  ASSUME SignalsInv, features \in Candles, Regular(features.ts), NEW s \in States, s.side = features.side,
         Evaluates(s), UNCHANGED strategy
  PROVE  ProposalsSound' /\ ProposedOnce'
<1> DEFINE e == Evaluation(s)
           q == Proposal(e)
<1> USE DEF SignalsInv
<1>1. proposals' = IF e.direction = "none" THEN proposals ELSE Append(proposals, q)
  BY DEF Evaluates
<1>2. CASE e.direction = "none"
  BY <1>1, <1>2 DEF ProposalsSound, ProposedOnce
<1>3. CASE e.direction # "none"
  <2>1. /\ q.ts = features.ts /\ q.direction = e.direction /\ q.side = SideOf(q.direction)
        /\ LET sign == IF q.direction = "BUY" THEN 1 ELSE -1
           IN /\ strategy # "Momentum" => sign * (q.close - q.stop) > 0
              /\ sign * (q.target - q.close) > 0
    <3>1. EvaluationSound(s, e)
      BY EvaluationsSound
    <3> HIDE DEF e
    <3> QED BY <1>3, <3>1, ProposalFits
  <2> DEFINE n == Len(proposals)
  <2>2. /\ n \in Nat /\ DOMAIN proposals' = 1 .. n + 1 /\ DOMAIN proposals = 1 .. n
        /\ \A i \in 1 .. n + 1 : proposals'[i] = IF i <= n THEN proposals[i] ELSE q
    <3>1. proposals \in Seq(Proposals) /\ proposals' = Append(proposals, q)
      BY <1>1, <1>3 DEF SignalsTyped
    <3> HIDE DEF e, q
    <3> QED BY <3>1
  <2>3. \A i \in DOMAIN proposals :
          LET p == proposals[i]
          IN /\ p.ts < q.ts
             /\ strategy = "ORB" /\ Day(p.ts) = Day(q.ts) => p.direction # q.direction
             /\ strategy = "Gap" => Day(p.ts) # Day(q.ts)
             /\ strategy \in {"VolumeSpike", "Momentum"} /\ Day(p.ts) = Day(q.ts) => q.ts >= p.ts + Cooldown
    <3>1. ASSUME NEW i \in DOMAIN proposals
          PROVE  LET p == proposals[i]
                 IN /\ p.ts < features.ts
                    /\ strategy = "ORB" /\ Day(p.ts) = Day(features.ts) => p.direction # e.direction
                    /\ strategy = "Gap" => Day(p.ts) # Day(features.ts)
                    /\ strategy \in {"VolumeSpike", "Momentum"} /\ Day(p.ts) = Day(features.ts)
                         => features.ts >= p.ts + Cooldown
      BY <1>3, EvaluatesNew
    <3> HIDE DEF e, q
    <3> QED BY <2>1, <3>1
  <2> HIDE DEF e, q, n
  <2>4. ProposalsSound'
    <3> SUFFICES ASSUME NEW i \in 1 .. n + 1
                 PROVE  LET p == proposals'[i]
                            sign == IF p.direction = "BUY" THEN 1 ELSE -1
                        IN /\ p.side = SideOf(p.direction)
                           /\ strategy # "Momentum" => sign * (p.close - p.stop) > 0
                           /\ sign * (p.target - p.close) > 0
      BY <2>2 DEF ProposalsSound
    <3>1. CASE i <= n
      <4>1. i \in DOMAIN proposals /\ proposals'[i] = proposals[i]
        BY <2>2, <3>1
      <4> QED BY <4>1 DEF ProposalsSound
    <3>2. CASE i = n + 1
      <4>1. proposals'[i] = q
        BY <2>2, <3>2
      <4> QED BY <2>1, <4>1
    <3> QED BY <2>2, <3>1, <3>2
  <2>5. ProposedOnce'
    <3> DEFINE Apart(p, r) ==
          /\ p.ts < r.ts
          /\ strategy = "ORB" /\ Day(p.ts) = Day(r.ts) => p.direction # r.direction
          /\ strategy = "Gap" => Day(p.ts) # Day(r.ts)
          /\ strategy \in {"VolumeSpike", "Momentum"} /\ Day(p.ts) = Day(r.ts) => r.ts >= p.ts + Cooldown
    <3>1. \A i, j \in DOMAIN proposals : i < j => Apart(proposals[i], proposals[j])
      BY DEF ProposedOnce
    <3>2. \A i \in DOMAIN proposals : Apart(proposals[i], q)
      BY <2>3
    <3>3. SUFFICES \A i, j \in 1 .. n + 1 : i < j => Apart(proposals'[i], proposals'[j])
      BY <2>2 DEF ProposedOnce
    <3> HIDE DEF Apart
    <3> SUFFICES ASSUME NEW i \in 1 .. n + 1, NEW j \in 1 .. n + 1, i < j
                 PROVE  Apart(proposals'[i], proposals'[j])
      OBVIOUS
    <3>4. i \in DOMAIN proposals /\ proposals'[i] = proposals[i]
      BY <2>2
    <3>5. CASE j <= n
      <4>1. j \in DOMAIN proposals /\ proposals'[j] = proposals[j]
        BY <2>2, <3>5
      <4> QED BY <3>1, <3>4, <4>1
    <3>6. CASE j = n + 1
      <4>1. proposals'[j] = q
        BY <2>2, <3>6
      <4> QED BY <3>2, <3>4, <4>1
    <3> QED BY <2>2, <3>5, <3>6
  <2> QED BY <2>4, <2>5
<1> QED BY <1>2, <1>3

(* A state is evaluated if it is of the latest candle, in the session.     *)
LEMMA StateChangeStep ==
  ASSUME SignalsInv, StateChanges
  PROVE  SignalsInv'
<1> DEFINE s == Head(marketStates)
<1>1. /\ marketStates # <<>> /\ marketStates' = Tail(marketStates)
      /\ UNCHANGED <<strategy, features, pending, recomputes, prevTrend>>
      /\ IF ~Coherent(s) \/ ~Regular(s.ts) THEN UNCHANGED <<memory, proposals, evaluated, repeated>> ELSE Evaluates(s)
  BY Zenon DEF StateChanges, Evaluates, Proposal
<1>2. /\ marketStates \in Seq(States) /\ Len(marketStates) \in Nat /\ Len(marketStates) > 0
      /\ recomputes \in Nat /\ recomputes + Len(marketStates) <= 2
      /\ (pending \/ recomputes > 0 => features \in Candles)
  <2>1. marketStates \in Seq(States)
    BY DEF SignalsInv, SignalsTyped
  <2>2. Len(marketStates) \in Nat /\ Len(marketStates) > 0
    BY <1>1, <2>1, EmptySeq, LenProperties
  <2> QED BY <2>1, <2>2 DEF SignalsInv, SignalsTyped
<1>3. /\ marketStates' \in Seq(States) /\ Len(marketStates') = Len(marketStates) - 1
      /\ \A i \in 1 .. Len(marketStates') : i + 1 \in DOMAIN marketStates /\ marketStates'[i] = marketStates[i + 1]
      /\ s \in States /\ s = marketStates[1] /\ 1 \in DOMAIN marketStates
      /\ DOMAIN marketStates' = 1 .. Len(marketStates')
  <2> HIDE DEF States
  <2> QED BY <1>1, <1>2
<1>4. StatesSound'
  <2>1. \A i \in DOMAIN marketStates' : \E j \in DOMAIN marketStates : marketStates'[i] = marketStates[j]
    BY <1>3
  <2>2. \A j \in DOMAIN marketStates :
          /\ features \in Candles /\ marketStates[j].ts <= features.ts
          /\ marketStates[j].ts = features.ts => marketStates[j].side = features.side
    BY DEF SignalsInv, StatesSound
  <2> QED BY <1>1, <2>1, <2>2 DEF StatesSound
<1>5. CASE UNCHANGED <<memory, proposals, evaluated, repeated>>
  <2>1. recomputes' \in Nat /\ recomputes' + Len(marketStates') <= 2
    BY <1>1, <1>2, <1>3
  <2> HIDE DEF s
  <2> QED BY <1>1, <1>2, <1>3, <1>4, <1>5, <2>1, WorkerKeeps
<1>6. CASE Coherent(s) /\ Regular(s.ts) /\ Evaluates(s)
  <2> HIDE DEF s
  <2>1. s.ts = features.ts
    BY <1>6 DEF Coherent
  <2>2. features \in Candles /\ s.side = features.side
    BY <1>3, <2>1 DEF SignalsInv, StatesSound
  <2>3. Regular(features.ts)
    BY <1>6, <2>1
  <2>4. SignalsTyped'
    BY <1>1, <1>2, <1>3, <1>6, <2>2, <2>3, EvaluatesTyped
  <2>5. RangeSound'
    BY <1>1, <1>3, <1>6, <2>2, <2>3, EvaluatesRange
  <2>6. ProposalsKept'
    BY <1>1, <1>3, <1>6, <2>2, <2>3, EvaluatesKept
  <2>7. ProposalsSound' /\ ProposedOnce'
    BY <1>1, <1>3, <1>6, <2>2, <2>3, EvaluatesProposals
  <2> QED BY <1>4, <2>4, <2>5, <2>6, <2>7 DEF SignalsInv
<1> HIDE DEF s
<1> QED BY <1>1, <1>5, <1>6

LEMMA SignalsStep ==
  ASSUME SignalsInv, [SignalsNext]_signalVars
  PROVE  SignalsInv'
<1>1. CASE FeaturesArrive
  BY <1>1, ArrivalStep
<1>2. CASE RunAfterDelay \/ RunAtCeiling
  BY <1>2, RunStep
<1>3. CASE ComputeState
  BY <1>3, ComputeStep
<1>4. CASE StateChanges
  BY <1>4, StateChangeStep
<1>5. CASE UNCHANGED signalVars
  <2>1. SignalsTyped /\ StatesSound
    BY DEF SignalsInv
  <2>2. StatesSound'
    BY <1>5, <2>1 DEF StatesSound, signalVars
  <2> QED BY <1>5, <2>1, <2>2, WorkerKeeps DEF SignalsTyped, signalVars
<1> QED BY <1>1, <1>2, <1>3, <1>4, <1>5 DEF SignalsNext

(* A count as large as the window is a count of all its minutes.           *)
LEMMA WindowWhole ==
  ASSUME NEW day \in Int, OrMinutes <= Cardinality(evaluated \cap Window(day))
  PROVE  Window(day) \subseteq evaluated
<1> DEFINE W == Window(day)
           B == evaluated \cap W
           p == day * MinutesADay
<1>1. p \in Int /\ OrMinutes \in Nat \ {0}
  BY SignalsAssumption
<1>2. W = p + 1 .. p + OrMinutes
  BY DEF Window
<1> HIDE DEF p, W
<1>3. IsFiniteSet(W) /\ Cardinality(W) = OrMinutes
  BY <1>1, <1>2, FS_Interval
<1>4. B \subseteq W
  OBVIOUS
<1> HIDE DEF B
<1>5. Cardinality(B) \in Nat /\ Cardinality(B) <= Cardinality(W) /\ IsFiniteSet(B)
      /\ (Cardinality(B) = Cardinality(W) => B = W)
  BY <1>3, <1>4, FS_Subset, FS_CardinalityType
<1>6. OrMinutes <= Cardinality(B)
  BY DEF B, W
<1>7. B = W
  BY <1>1, <1>3, <1>5, <1>6
<1> QED BY <1>7 DEF B, W

LEMMA SignalsImplies == SignalsInv => SignalsTypeOK /\ ProposalsSound /\ ProposedOnce /\ RangeComplete
<1> SUFFICES ASSUME SignalsInv PROVE SignalsTypeOK /\ RangeComplete
  BY DEF SignalsInv
<1> USE DEF SignalsInv
<1>1. /\ features.ts \in Int /\ features.ts <= LastSignalMinute /\ LastSignalMinute \in Nat
  BY MinuteTyped
<1>2. /\ Day(features.ts) \in Int /\ Day(LastSignalMinute) \in Int
      /\ Day(features.ts) <= Day(LastSignalMinute)
  <2>1. LastSignalMinute \in Int
    BY <1>1
  <2> QED BY <1>1, <2>1, DayOf, DayMonotone
<1>3. memory.day \in Int /\ memory.day <= Day(features.ts)
  BY DEF SignalsTyped, Memories
<1>4. SignalsTypeOK
  <2>1. recomputes \in Nat /\ Len(marketStates) \in Nat /\ recomputes + Len(marketStates) <= 2
    BY DEF SignalsTyped
  <2>2. recomputes \in 0 .. 3
    BY <2>1
  <2>3. memory.day <= Day(LastSignalMinute)
    BY <1>2, <1>3
  <2> QED BY <2>2, <2>3 DEF SignalsTyped, SignalsTypeOK
<1>5. RangeComplete
  <2>1. SUFFICES ASSUME strategy = "ORB", memory.formed, repeated = {}, memory.day = Day(features.ts),
                        NEW k \in 1 .. OrMinutes
                 PROVE  memory.day * MinutesADay + k \in evaluated
    BY DEF RangeComplete
  <2>2. memory.seen >= OrMinutes /\ memory.seen <= Cardinality(evaluated \cap Window(memory.day))
    BY <2>1 DEF RangeSound
  <2> DEFINE c == Cardinality(evaluated \cap Window(memory.day))
  <2>3. c \in Nat
    <3>1. evaluated \subseteq 0 .. LastSignalMinute
      BY DEF SignalsTyped
    <3> QED BY <1>1, <1>3, <3>1, WindowCounted
  <2>4. OrMinutes <= c
    <3>1. memory.seen \in Nat /\ OrMinutes \in Nat
      BY SignalsAssumption DEF SignalsTyped, Memories
    <3> HIDE DEF c
    <3>2. memory.seen <= c
      BY <2>2 DEF c
    <3> QED BY <2>2, <2>3, <3>1, <3>2
  <2>5. Window(memory.day) \subseteq evaluated
    BY <1>3, <2>4, WindowWhole
  <2> DEFINE p == memory.day * MinutesADay
  <2>6. p \in Int /\ OrMinutes \in Nat
    BY <1>3, SignalsAssumption
  <2>7. Window(memory.day) = p + 1 .. p + OrMinutes
    BY DEF Window
  <2> HIDE DEF p
  <2>8. p + k \in p + 1 .. p + OrMinutes
    BY <2>6
  <2> QED BY <2>5, <2>7, <2>8 DEF p
<1> QED BY <1>4, <1>5

---------------------------------------------------------------------------
(* The composition: a step of one stage is a step or a stutter of each     *)

DecisionsInv == PortfolioInv /\ CandidateInv /\ SelectionInv /\ RulesInv /\ SignalsInv

LEMMA DecisionsStart == DecisionsInit => DecisionsInv
BY PortfolioStarts, CandidatesStart, SelectionStarts, RulesStart, SignalsStart
   DEF DecisionsInit, DecisionsInv

LEMMA StagesMove ==
  ASSUME [DecisionsNext]_decisionVars
  PROVE  /\ [Next]_vars /\ [CandidateNext]_candidateVars /\ [SelectionNext]_selectionVars
         /\ [RulesNext]_ruleVars /\ [SignalsNext]_signalVars
BY DEF DecisionsNext, Only, decisionVars

LEMMA DecisionsStep ==
  ASSUME DecisionsInv, [DecisionsNext]_decisionVars
  PROVE  DecisionsInv'
BY StagesMove, PortfolioStep, CandidateStep, SelectionStep, RulesStep, SignalsStep DEF DecisionsInv

(* Each stage keeps the invariant of its own, and a step of another stage  *)
(* leaves its variables alone.                                             *)
THEOREM DecisionsInductive == Decisions => []DecisionsInv
<1>1. DecisionsInit => DecisionsInv
  BY DecisionsStart
<1>2. DecisionsInv /\ [DecisionsNext]_decisionVars => DecisionsInv'
  BY DecisionsStep
<1> QED BY <1>1, <1>2, PTL DEF Decisions

(* The variables of every stage keep their types: a slot, a claim, a row   *)
(* of the journal, the ledger of Portfolio State and what a strategy       *)
(* remembers are never anything the code does not read back.               *)
THEOREM TypesAlwaysOK == Decisions => []TypesOK
<1>1. DecisionsInv => TypesOK
  BY PortfolioImplies, CandidateImplies, SelectionImplies, RulesImplies, SignalsImplies
     DEF DecisionsInv, TypesOK
<1> QED BY <1>1, DecisionsInductive, PTL

(* get_snapshot answers with a cache that is not behind the ledger while   *)
(* the engine is ready, values a position by ticks after its opening only  *)
(* and has announced every closing once.                                   *)
THEOREM SnapshotAlwaysSound == Decisions => []SnapshotSound
<1>1. DecisionsInv => SnapshotSound
  BY PortfolioImplies DEF DecisionsInv, SnapshotSound
<1> QED BY <1>1, DecisionsInductive, PTL

(* The authorizer keeps to the limit of positions unless a decision was    *)
(* taken blind, and the rules keep the loss of the day, with everything    *)
(* open stopped out, within the cap and what fills slipped.                *)
THEOREM RiskAlwaysBounded == Decisions => []RiskBounded
<1>1. DecisionsInv => RiskBounded
  BY PortfolioImplies, RulesImplies DEF DecisionsInv, RiskBounded
<1> QED BY <1>1, DecisionsInductive, PTL

(* What an approval rests on: proposals that are of one candle, made once  *)
(* and from a complete range; candidates an outage has withdrawn stay      *)
(* withdrawn; the choice fits the portfolio it names and is claimed once.  *)
THEOREM ChoiceAlwaysSound == Decisions => []ChoiceSound
<1>1. DecisionsInv => ChoiceSound
  BY CandidateImplies, SelectionImplies, SignalsImplies DEF DecisionsInv, ChoiceSound
<1> QED BY <1>1, DecisionsInductive, PTL

(* A slot never goes back to an older candle or becomes valid again, and   *)
(* rows of the journal and claims of trades are never changed.             *)
THEOREM RecordsAlwaysStand == Decisions => RecordsStand
<1>1. DecisionsInv /\ [DecisionsNext]_decisionVars =>
        [\A s \in Strategies : SlotForward(s)]_candidateVars
  BY StagesMove, CandidateStep DEF DecisionsInv
<1>2. DecisionsInv /\ [DecisionsNext]_decisionVars =>
        [/\ \A s \in Selections : journal[s] # NoRow => journal'[s] = journal[s]
         /\ \A t \in AcceptedTrades : claims[t] # NoClaim => claims'[t] = claims[t]]_selectionVars
  BY StagesMove, SelectionStep DEF DecisionsInv
<1> QED BY <1>1, <1>2, DecisionsInductive, PTL DEF Decisions, RecordsStand, NewestStands, HistoryStands
==============================================================================
