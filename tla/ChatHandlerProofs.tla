------------------------- MODULE ChatHandlerProofs -------------------------
(***************************************************************************)
(* Theorems about ChatHandler, for any providers, token counts and faults. *)
(* A call's entry is only looked at when the call is done; the inductive   *)
(* invariant follows its fields on the way there.                          *)
(***************************************************************************)
EXTENDS ChatHandler, TLAPS

USE ChatAssumption

BeforeBill == {"dispatch", "forward", "proxy", "blocked", "count", "price"}
AfterDeduct == {"daily", "minute", "log", "done"}

\* What is metered of a stream was delivered, unless a flush has failed; then its
\* client counts as gone, so that it is never priced.
Metered ==
    /\ pc = "dispatch" => metered = 0 /\ delivered = 0
    /\ stream => metered <= delivered \/ gone
    /\ stream => cost <= input + delivered

\* What the fields of the entry say about the charge, from point to point.
Billed ==
    /\ pc \in BeforeBill => cost = 0
    /\ pc \in BeforeBill \cup {"deduct"} => charged = 0 /\ problem = "none"
    /\ pc \in AfterDeduct =>
          /\ charged \in {0, cost}
          /\ problem = "none" => charged = cost
          /\ problem # "none" /\ charged > 0 => problem = "deduct" /\ (faulty \/ gone)

\* Which metrics have been raised by now.
Raised ==
    /\ pc \in BeforeBill \cup {"deduct", "daily"} => metrics = {}
    /\ pc \in {"daily", "minute"} => engine
    /\ pc = "minute" /\ ~gone /\ ~faulty => metrics = {"daily_spend_cny"}
    /\ pc \in {"log", "done"} =>
          /\ cost > 0 /\ engine /\ ~gone /\ ~faulty =>
                metrics = {"daily_spend_cny", "spend_per_minute"}
          /\ cost = 0 \/ ~engine => metrics = {}

\* The inductive invariant.
IInv == TypeOK /\ Metered /\ Billed /\ Raised

\* The invariant holds before the first call.
THEOREM InitIInv == Init => IInv
<1> SUFFICES ASSUME Init PROVE IInv
  OBVIOUS
<1>1. TypeOK
  BY DEF Init, TypeOK
<1>2. Metered /\ Billed
  BY DEF Init, Metered, Billed, BeforeBill, AfterDeduct
<1>3. Raised
  BY DEF Init, Raised, BeforeBill
<1> QED
  BY <1>1, <1>2, <1>3 DEF IInv

\* Every step keeps the inductive invariant.
THEOREM NextIInv == IInv /\ [Next]_vars => IInv'
<1> SUFFICES ASSUME IInv, [Next]_vars PROVE IInv'
  OBVIOUS
<1> USE DEF IInv, BeforeBill, AfterDeduct, Goto, answerVars, forwardVars, billVars
<1>1. CASE Arrive
  <2>1. faulty' \in BOOLEAN
    BY <1>1 DEF Arrive
  <2>2. TypeOK'
    BY <1>1, <2>1 DEF Arrive, TypeOK
  <2>3. Metered'
    <3>1. input' \in Nat
      BY <1>1 DEF Arrive
    <3>2. pc' = "dispatch" /\ metered' = 0 /\ delivered' = 0 /\ cost' = 0
      BY <1>1 DEF Arrive
    <3>3. metered' <= delivered' /\ cost' <= input' + delivered'
      <4>1. 0 <= 0 /\ \A n \in Nat : 0 <= n + 0
        OBVIOUS
      <4> QED
        BY <3>1, <3>2, <4>1, Zenon
    <3> QED
      BY <3>2, <3>3 DEF Metered
  <2>4. Billed' /\ Raised'
    BY <1>1 DEF Arrive, Billed, Raised
  <2> QED
    BY <2>2, <2>3, <2>4
<1>2. CASE ClientGone
  BY <1>2 DEF ClientGone, TypeOK, Metered, Billed, Raised
<1>3. CASE Unavailable
  BY <1>3 DEF Unavailable, AfterError, TypeOK, Metered, Billed, Raised
<1>4. CASE Answered
  BY <1>4 DEF Answered, TypeOK, Metered, Billed, Raised
<1>5. CASE ForwardLine
  <2>1. PICK line \in Lines :
           /\ metered' = metered + (IF Counted(line) THEN 1 ELSE 0)
           /\ \/ delivered' = delivered + (IF line.text THEN 1 ELSE 0) /\ UNCHANGED gone
              \/ gone' = TRUE /\ UNCHANGED delivered
           /\ pc' = IF line.mark THEN "count" ELSE "forward"
    BY <1>5 DEF ForwardLine
  <2>2. /\ stream /\ pc \in {"forward", "blocked"} /\ body = "open"
        /\ UNCHANGED <<answerVars, body, billVars, logged>>
    BY <1>5 DEF ForwardLine, Writing
  <2>3. /\ Counted(line) => line.text
        /\ line.text => ok
    BY DEF Counted, Lines
  <2>4. TypeOK'
    <3>1. metered' \in Nat /\ delivered' \in Nat
      BY <2>1 DEF TypeOK
    <3>4. gone' \in BOOLEAN
      BY <2>1, Zenon DEF TypeOK
    <3>2. ~ok => delivered' = 0
      BY <2>1, <2>3 DEF TypeOK
    <3>3. pc' \in {"count", "forward"}
      BY <2>1
    <3> QED
      BY <2>2, <3>1, <3>2, <3>3, <3>4 DEF TypeOK
  <2>5. Metered'
    BY <2>1, <2>2, <2>3 DEF TypeOK, Metered, Billed
  <2>6. Billed' /\ Raised'
    BY <2>1, <2>2 DEF Billed, Raised
  <2> QED
    BY <2>4, <2>5, <2>6
<1>6. CASE WriteFails
  BY <1>6 DEF WriteFails, Writing, TypeOK, Metered, Billed, Raised
<1>7. CASE BodyEnds
  BY <1>7 DEF BodyEnds, TypeOK, Metered, Billed, Raised
<1>8. CASE StreamAbandoned
  BY <1>8 DEF StreamAbandoned, TypeOK, Metered, Billed, Raised
<1>17. CASE WriteBlocks
  <2>1. TypeOK'
    BY <1>17 DEF WriteBlocks, TypeOK
  <2>2. Metered' /\ Billed' /\ Raised'
    BY <1>17 DEF WriteBlocks, Metered, Billed, Raised
  <2> QED
    BY <2>1, <2>2
<1>9. CASE Proxy
  <2>1. TypeOK'
    <3>1. /\ input' \in InputTokens \cup Usages \cup {0} /\ metered' \in Nat
          /\ gone' \in BOOLEAN /\ body' \in {"ended", "broken"}
      BY <1>9 DEF Proxy, TypeOK
    <3> QED
      BY <1>9, <3>1 DEF Proxy, TypeOK
  <2>2. Metered' /\ Billed' /\ Raised'
    BY <1>9 DEF Proxy, TypeOK, Metered, Billed, Raised
  <2> QED
    BY <2>1, <2>2
<1>16. CASE CountTokens
  BY <1>16 DEF CountTokens, TypeOK, Metered, Billed, Raised
<1>10. CASE Price
  BY <1>10 DEF Price, ContextAlive, Owes, TypeOK, Metered, Billed, Raised
<1>11. CASE Deduct
  <2>1. /\ pc = "deduct" /\ pc' = (IF engine THEN "daily" ELSE "log")
        /\ UNCHANGED <<answerVars, forwardVars, cost, metrics, logged>>
        /\ gone' \in BOOLEAN /\ (gone => gone')
        /\ charged' \in {charged, cost}
        /\ problem' \in {problem, "cancelled", "balance", "deduct"}
    BY <1>11 DEF Deduct, Note, AfterCharge, TypeOK
  <2>6. UNCHANGED <<answerVars, forwardVars, cost, metrics, logged>>
    BY <2>1
  <2>7. /\ gone' \in BOOLEAN /\ pc' \in {"daily", "log"} /\ charged' \in Nat
        /\ problem' \in {"none", "upstream", "no_price", "cancelled", "balance", "deduct"}
    BY <2>1 DEF TypeOK
  <2>2. TypeOK'
    <3>1. cost > 0
      BY <2>1 DEF TypeOK
    <3> QED
      BY <2>6, <2>7, <3>1 DEF TypeOK
  <2>3. Metered'
    <3>1. UNCHANGED <<stream, metered, delivered, cost, input>> /\ pc' # "dispatch"
      BY <2>6, <2>7
    <3>2. gone => gone'
      BY <2>1
    <3>3. stream' => metered' <= delivered' \/ gone'
      BY <3>1, <3>2, Zenon DEF Metered
    <3>4. stream' => cost' <= input' + delivered'
      BY <3>1, Zenon DEF Metered
    <3> QED
      BY <3>1, <3>3, <3>4 DEF Metered
  <2>4. Billed'
    BY <1>11, <2>1 DEF Deduct, ContextAlive, Note, Billed
  <2>5. Raised'
    BY <2>1 DEF TypeOK, Raised
  <2> QED
    BY <2>2, <2>3, <2>4, <2>5
<1>12. CASE RecordDaily
  <2>1. TypeOK'
    <3>1. /\ pc = "daily" /\ pc' = "minute"
          /\ metrics' = metrics \/ metrics' = metrics \cup {"daily_spend_cny"}
          /\ UNCHANGED <<answerVars, gone, forwardVars, cost, problem, charged, logged>>
      BY <1>12 DEF RecordDaily, Record, ContextAlive
    <3>2. metrics' \subseteq {"daily_spend_cny", "spend_per_minute"}
      BY <3>1 DEF TypeOK
    <3> QED
      BY <3>1, <3>2 DEF TypeOK
  <2>2. Metered' /\ Billed'
    BY <1>12 DEF RecordDaily, Record, ContextAlive, Metered, Billed
  <2>3. Raised'
    BY <1>12 DEF RecordDaily, Record, ContextAlive, TypeOK, Raised
  <2> QED
    BY <2>1, <2>2, <2>3
<1>13. CASE RecordMinute
  <2>1. TypeOK'
    <3>1. /\ pc = "minute" /\ pc' = "log"
          /\ metrics' = metrics \/ metrics' = metrics \cup {"spend_per_minute"}
          /\ UNCHANGED <<answerVars, gone, forwardVars, cost, problem, charged, logged>>
      BY <1>13 DEF RecordMinute, Record, ContextAlive
    <3>2. metrics' \subseteq {"daily_spend_cny", "spend_per_minute"}
      BY <3>1 DEF TypeOK
    <3> QED
      BY <3>1, <3>2 DEF TypeOK
  <2>2. Metered' /\ Billed'
    BY <1>13 DEF RecordMinute, Record, ContextAlive, Metered, Billed
  <2>3. Raised'
    BY <1>13 DEF RecordMinute, Record, ContextAlive, TypeOK, Raised
  <2> QED
    BY <2>1, <2>2, <2>3
<1>14. CASE Log
  BY <1>14 DEF Log, TypeOK, Metered, Billed, Raised
<1>15. CASE UNCHANGED vars
  BY <1>15 DEF vars, TypeOK, Metered, Billed, Raised
<1> QED
  BY <1>1, <1>2, <1>3, <1>4, <1>5, <1>6, <1>7, <1>8, <1>9, <1>10, <1>11, <1>12,
     <1>13, <1>14, <1>15, <1>16, <1>17 DEF Next

\* The invariant holds throughout every behaviour.
THEOREM Invariant == Spec => []IInv
<1>1. Init => IInv
  BY InitIInv
<1>2. IInv /\ [Next]_vars => IInv'
  BY NextIInv
<1> QED
  BY <1>1, <1>2, PTL DEF Spec

----------------------------------------------------------------------------
\* Type correctness; what is at the wallet has a cost.
THEOREM TypeCorrect == Spec => []TypeOK
<1>1. IInv => TypeOK
  BY DEF IInv
<1> QED
  BY <1>1, Invariant, PTL

\* Nobody pays for streamed text that was not flushed to them, at whatever point the
\* client leaves, a flush fails unnoticed, or the upstream breaks off.
THEOREM NobodyPaysForUndelivered == Spec => []ChargedIsDelivered
<1>1. IInv => ChargedIsDelivered
  BY DEF IInv, TypeOK, Metered, Billed, BeforeBill, AfterDeduct, ChargedIsDelivered
<1> QED
  BY <1>1, Invariant, PTL

\* The entry of a finished call tells what was charged, and an error stands on a
\* charge only if the answer to its commit was lost, with the database or the client.
THEOREM EntryIsTrue == Spec => []EntryTellsCharge
<1>1. IInv => EntryTellsCharge
  BY DEF IInv, Billed, AfterDeduct, EntryTellsCharge
<1> QED
  BY <1>1, Invariant, PTL

\* Both spend metrics are raised for every call with a cost whose client stayed, by a
\* gateway that came up with its rules.
THEOREM SpendIsCounted == Spec => []SpendReachesLimits
<1>1. IInv => SpendReachesLimits
  BY DEF IInv, Raised, SpendReachesLimits
<1> QED
  BY <1>1, Invariant, PTL
=============================================================================
