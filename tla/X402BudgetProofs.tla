-------------------------- MODULE X402BudgetProofs --------------------------
(***************************************************************************)
(* X402Budget for any number of agents, calls, services, prices, caps,     *)
(* days and restarts: what a call pays for was consented to, and how *)
(* far the caps can be exceeded by services that ask what their manifests  *)
(* say.                                                                    *)
(*                                                                         *)
(* The argument for the second: of the calls that were authorised and not yet charged,    *)
(* the one authorised last found what was spent, plus its own price, under *)
(* the cap; every other may still add the most a call can cost.  Covered   *)
(* says so of one line of the budget, and a day that has passed keeps its  *)
(* own account of the receipts that were dated before midnight.            *)
(***************************************************************************)
EXTENDS X402Budget, FiniteSetTheorems, TLAPS

\* The most that one call can be charged.
Most == PerCallMax

\* q[c]: the most that call c can be charged.
quoted == [c \in Calls |-> IF Authorised(c) THEN Price[call[c].manifest] ELSE 0]

\* The calls that may still be charged to line l, and those among them whose
\* receipt is dated d.
InFlight(l) == {c \in Calls : Authorised(c) /\ l \in LinesOf(call[c].service)}
Dated(d, l) == {c \in InFlight(l) : call[c].at = "charging" /\ call[c].day = d}

\* x can grow by what the calls of S are charged and stay within the limit of l.
Covered(x, S, q, l) ==
  \/ x + Cardinality(S) * Most <= Limit(l)
  \/ \E c \in S : x + q[c] + (Cardinality(S) - 1) * Most <= Limit(l)

-----------------------------------------------------------------------------
(* Arithmetic. *)

LEMMA Products ==
  ASSUME NEW i \in Nat, NEW j \in Nat, NEW b \in Nat
  PROVE  /\ i * b \in Nat
         /\ i <= j => i * b <= j * b
         /\ (i - 1) * b = i * b - b
         /\ (i + 1) * b = i * b + b
  OBVIOUS

LEMMA Numbers ==
  /\ Most \in Nat /\ PerCallMax \in Nat
  /\ Cardinality(Calls) \in Nat \ {0}
  /\ \A l \in Capped : Cap[l] \in Nat /\ Limit(l) \in Nat
  /\ \A l \in Capped : Limit(l) = Cap[l] + Cardinality(Calls) * Most - Most
  <1>1. Cardinality(Calls) \in Nat \ {0}
    BY BudgetConfig, FS_CardinalityType, FS_EmptySet
  <1>2. Most \in Nat /\ PerCallMax \in Nat
    BY BudgetConfig, Prices DEF Most
  <1>3. ASSUME NEW l \in Capped PROVE Cap[l] \in Nat
    BY BudgetConfig
  <1>4. /\ (Cardinality(Calls) - 1) * Most = Cardinality(Calls) * Most - Most
        /\ (Cardinality(Calls) - 1) * Most \in Nat
    <2>1. Cardinality(Calls) - 1 \in Nat
      BY <1>1
    <2> QED BY <1>1, <1>2, <2>1, Products
  <1> QED BY <1>1, <1>2, <1>3, <1>4 DEF Limit, Most

\* Less spent, or fewer calls under way, is covered if more is.
LEMMA CoveredLess ==
  ASSUME NEW l \in Capped, NEW x \in Int, NEW y \in Int, y <= x,
         NEW S \in SUBSET Calls, NEW T \in SUBSET S,
         NEW q \in [Calls -> Nat], NEW r \in [Calls -> Nat],
         \A c \in T : r[c] = q[c],
         Covered(x, S, q, l)
  PROVE  Covered(y, T, r, l)
  <1> DEFINE s == Cardinality(S)
             t == Cardinality(T)
  <1>1. IsFiniteSet(S) /\ IsFiniteSet(T) /\ s \in Nat /\ t \in Nat /\ t <= s
    BY BudgetConfig, FS_Subset, FS_CardinalityType
  <1>2. S # T => t <= s - 1
    <2>1. t = s => S = T
      BY <1>1, FS_Subset
    <2> QED BY <1>1, <2>1
  <1>3. /\ s * Most \in Int /\ t * Most \in Int /\ t * Most <= s * Most
        /\ (s - 1) * Most = s * Most - Most /\ (t - 1) * Most = t * Most - Most
        /\ t <= s - 1 => t * Most <= (s - 1) * Most
    <2>1. t <= s - 1 => s - 1 \in Nat
      BY <1>1
    <2> QED BY <1>1, <2>1, Numbers, Products
  <1> HIDE DEF s, t
  <1>4. CASE x + s * Most <= Limit(l)
    <2>1. y + t * Most <= Limit(l)
      BY <1>3, <1>4, Numbers
    <2> QED BY <2>1 DEF Covered, t
  <1>5. CASE \E c \in S : x + q[c] + (s - 1) * Most <= Limit(l)
    <2>1. PICK c \in S : x + q[c] + (s - 1) * Most <= Limit(l)
      BY <1>5
    <2>2. CASE c \in T
      <3>1. y + r[c] + (t - 1) * Most <= Limit(l)
        BY <1>3, <2>1, <2>2, Numbers
      <3> QED BY <2>2, <3>1 DEF Covered, t
    <2>3. CASE c \notin T
      <3>1. y + t * Most <= Limit(l)
        BY <1>1, <1>2, <1>3, <2>1, <2>3, Numbers
      <3> QED BY <3>1 DEF Covered, t
    <2> QED BY <2>2, <2>3
  <1> QED BY <1>4, <1>5 DEF Covered, s

\* A call that is charged no more than it was quoted leaves the rest covered.
LEMMA CoveredCharge ==
  ASSUME NEW l \in Capped, NEW x \in Int, NEW S \in SUBSET Calls, NEW c \in S,
         NEW q \in [Calls -> Nat], NEW r \in [Calls -> Nat], NEW a \in Nat,
         a <= q[c], q[c] <= Most, \A e \in S \ {c} : r[e] = q[e],
         Covered(x, S, q, l)
  PROVE  Covered(x + a, S \ {c}, r, l)
  <1> DEFINE s == Cardinality(S)
             t == Cardinality(S \ {c})
  <1>1. s \in Nat /\ t \in Nat /\ t = s - 1
    BY BudgetConfig, FS_Subset, FS_CardinalityType, FS_RemoveElement
  <1>2. /\ s * Most \in Int /\ (s - 1) * Most = s * Most - Most
        /\ t * Most = s * Most - Most /\ (t - 1) * Most = s * Most - Most - Most
    BY <1>1, Numbers, Products
  <1> HIDE DEF s, t
  <1>3. CASE x + s * Most <= Limit(l)
    <2>1. x + a + t * Most <= Limit(l)
      BY <1>2, <1>3, Numbers
    <2> QED BY <2>1 DEF Covered, t
  <1>4. CASE \E e \in S : x + q[e] + (s - 1) * Most <= Limit(l)
    <2>1. PICK e \in S : x + q[e] + (s - 1) * Most <= Limit(l)
      BY <1>4
    <2>2. CASE e = c
      <3>1. x + a + t * Most <= Limit(l)
        BY <1>2, <2>1, <2>2, Numbers
      <3> QED BY <3>1 DEF Covered, t
    <2>3. CASE e # c
      <3>1. x + a + r[e] + (t - 1) * Most <= Limit(l)
        BY <1>2, <2>1, <2>3, Numbers
      <3> QED BY <2>3, <3>1 DEF Covered, t
    <2> QED BY <2>2, <2>3
  <1> QED BY <1>3, <1>4 DEF Covered, s

\* A call whose price fits under the cap covers itself and every other call.
LEMMA CoveredFresh ==
  ASSUME NEW l \in Capped, NEW x \in Int, NEW S \in SUBSET Calls, NEW c \in S,
         NEW q \in [Calls -> Nat], x + q[c] <= Cap[l]
  PROVE  Covered(x, S, q, l)
  <1> DEFINE s == Cardinality(S)
  <1>1. s \in Nat /\ s <= Cardinality(Calls)
    BY BudgetConfig, FS_Subset, FS_CardinalityType
  <1>2. s * Most <= Cardinality(Calls) * Most /\ (s - 1) * Most = s * Most - Most
        /\ s * Most \in Nat /\ Cardinality(Calls) * Most \in Nat
    BY <1>1, Numbers, Products
  <1>3. x + q[c] + (s - 1) * Most <= Limit(l)
    BY <1>1, <1>2, Numbers
  <1> QED BY <1>3 DEF Covered

\* With no call under way, nothing more is needed than the limit; and what is
\* covered is within it.
LEMMA CoveredNone ==
  ASSUME NEW l \in Capped, NEW x \in Int, NEW q \in [Calls -> Nat], x <= Limit(l)
  PROVE  Covered(x, {}, q, l)
  <1>1. Cardinality({}) = 0 /\ 0 * Most = 0
    BY FS_EmptySet, Numbers
  <1> QED BY <1>1, Numbers DEF Covered

LEMMA CoveredIsWithin ==
  ASSUME NEW l \in Capped, NEW x \in Int, NEW S \in SUBSET Calls,
         NEW q \in [Calls -> Nat], Covered(x, S, q, l)
  PROVE  x <= Limit(l)
  <1>1. Covered(x, {}, q, l)
    BY CoveredLess
  <1>2. Cardinality({}) = 0 /\ 0 * Most = 0
    BY FS_EmptySet, Numbers
  <1> QED BY <1>1, <1>2, Numbers DEF Covered

-----------------------------------------------------------------------------
(* The inductive invariant. *)

\* What a consent has pinned; a call goes on past Verify only with such a
\* manifest.
ConsentInv ==
  /\ \A s \in Services :
       /\ \A a \in Agents : pins[<<a, s>>] # NoPin => pins[<<a, s>>] \in pinned[s]
       /\ userPin[s] # NoPin => userPin[s] \in pinned[s]
  /\ \A c \in Calls : call[c].at \in {"verified", "paying", "charging"} =>
                        call[c].manifest \in pinned[call[c].service]

\* An authorised call was quoted within the maxima and every cap.
QuoteInv ==
  \A c \in Calls : Authorised(c) =>
    /\ Price[call[c].manifest] <= PerCallMax
    /\ Price[call[c].manifest] <= call[c].max
    /\ \A l \in LinesOf(call[c].service) \cap Capped :
         Price[call[c].manifest] <= Cap[l]

\* A receipt to be charged is for no more than was quoted, and is not of tomorrow.
ReceiptInv ==
  \A c \in Calls : call[c].at = "charging" =>
    /\ call[c].amount <= Price[call[c].manifest]
    /\ call[c].day <= clock

\* Nothing is recorded of days to come.
FutureInv ==
  /\ spend.day <= clock
  /\ \A d \in Days, l \in Capped : clock < d => charged[d][l] = 0

\* Today's spend covers the calls under way, and but for what the restarts
\* forgot it is the sum of today's receipts.
TodayInv ==
  \A l \in Capped :
    /\ Covered(Today.line[l], InFlight(l), quoted, l)
    /\ charged[clock][l] <= restarts * Limit(l) + Today.line[l]

\* The receipts dated d, but for what the restarts account for.
Since(d, l) == charged[d][l] - restarts * Limit(l)

\* A day that has passed covers the calls whose receipts are dated that day.
PastInv ==
  \A d \in Days, l \in Capped : d < clock =>
    Covered(Since(d, l), Dated(d, l), quoted, l)

BudgetInv ==
  /\ TypeOK /\ QuoteInv /\ ReceiptInv /\ FutureInv
  /\ OvershootIsBounded /\ TodayInv /\ PastInv

-----------------------------------------------------------------------------
(* Types. *)

\* What a call holds at each step.
LEMMA CallTypes ==
  ASSUME TypeOK, NEW c \in Calls
  PROVE  /\ call[c].at \in {"idle", "read", "verified", "paying", "charging"}
         /\ call[c].at = "idle" => call[c] = NoCall
         /\ call[c].at # "idle" =>
              /\ call[c].service \in Services /\ call[c].manifest \in Manifests
              /\ call[c].max \in MaxPrices /\ call[c].max \in Nat
              /\ Price[call[c].manifest] \in Nat
         /\ call[c].at = "read" => call[c] \in Holding("read")
         /\ call[c].at = "verified" => call[c] \in Holding("verified")
         /\ call[c].at = "paying" => call[c] \in Holding("paying")
         /\ call[c].at = "charging" =>
              /\ call[c] \in Answered(Amounts)
              /\ call[c].amount \in Amounts /\ call[c].amount \in Nat
              /\ call[c].day \in Days
  <1>1. call[c] \in {NoCall} \cup Holding("read") \cup Holding("verified")
                    \cup Holding("paying") \cup Answered(Amounts)
    BY DEF TypeOK
  <1>2. Amounts \subseteq Nat
    BY Prices DEF Amounts
  <1>3. CASE call[c] = NoCall
    BY <1>3 DEF NoCall
  <1>4. CASE call[c] \in Holding("read")
    BY <1>4, Prices DEF Holding
  <1>5. CASE call[c] \in Holding("verified")
    BY <1>5, Prices DEF Holding
  <1>6. CASE call[c] \in Holding("paying")
    BY <1>6, Prices DEF Holding
  <1>7. CASE call[c] \in Answered(Amounts)
    BY <1>2, <1>7, Prices DEF Answered
  <1> QED BY <1>1, <1>3, <1>4, <1>5, <1>6, <1>7

LEMMA TodayType ==
  ASSUME TypeOK
  PROVE  /\ Today \in [day : Days, line : [Lines -> Nat]]
         /\ Today.day = clock
  BY DEF TypeOK, Today, Zero

\* A line of the lines after a charge.
LEMMA PlusType ==
  ASSUME NEW line \in [Lines -> Nat], NEW r, r.amount \in Nat
  PROVE  /\ Plus(line, r) \in [Lines -> Nat]
         /\ \A l \in Lines : Plus(line, r)[l] =
              line[l] + IF l \in LinesOf(r.service) THEN r.amount ELSE 0
  BY DEF Plus

LEMMA TypeInit == Init => TypeOK
  BY X402Bounds DEF Init, TypeOK, Days, Zero, Lines

LEMMA TypeStep == TypeOK /\ [Next]_vars => TypeOK'
  <1> SUFFICES ASSUME TypeOK, [Next]_vars PROVE TypeOK'
    OBVIOUS
  <1> USE DEF registry
  <1>1. ASSUME NEW s \in Services, NEW m \in Manifests, AddManifest(s, m) PROVE TypeOK'
    BY <1>1, X402Bounds DEF TypeOK, AddManifest, Changes
  <1>2. ASSUME NEW s \in Services, NEW a \in Agents, Approve(a, s) PROVE TypeOK'
    BY <1>2, X402Bounds DEF TypeOK, Approve, Changes
  <1>3. ASSUME NEW s \in Services, NEW a \in Agents, Revoke(a, s) PROVE TypeOK'
    BY <1>3, X402Bounds DEF TypeOK, Revoke, Changes
  <1>4. ASSUME NEW s \in Services, SetUserEnabled(s) PROVE TypeOK'
    BY <1>4, X402Bounds DEF TypeOK, SetUserEnabled, Changes
  <1>5. ASSUME NEW s \in Services, SetUserDisabled(s) PROVE TypeOK'
    BY <1>5, X402Bounds DEF TypeOK, SetUserDisabled, Changes
  <1>6. ASSUME NEW c \in Calls, NEW s \in Services, NEW max \in MaxPrices,
               ReadManifest(c, s, max)
        PROVE TypeOK'
    <2>1. [at |-> "read", service |-> s, manifest |-> manifest[s], max |-> max]
            \in Holding("read")
      BY DEF TypeOK, Holding
    <2> QED BY <1>6, <2>1 DEF TypeOK, ReadManifest, CallOnly
  <1>7. ASSUME NEW c \in Calls, Resolve(c) PROVE TypeOK'
    <2>1. [call[c] EXCEPT !.at = "verified"] \in Holding("verified")
      BY <1>7, CallTypes DEF Resolve, Holding
    <2> QED BY <1>7, <2>1 DEF TypeOK, Resolve, CallOnly
  <1>8. ASSUME NEW c \in Calls, Authorize(c) PROVE TypeOK'
    <2>1. [call[c] EXCEPT !.at = "paying"] \in Holding("paying")
      BY <1>8, CallTypes DEF Authorize, Holding
    <2> QED BY <1>8, <2>1, TodayType DEF TypeOK, Authorize, CallOnly
  <1>9. ASSUME NEW c \in Calls, Answer(c) PROVE TypeOK'
    <2>0. PICK amount \in Asked[call[c].manifest] :
                 call' = [call EXCEPT ![c] =
                            [at |-> "charging", service |-> call[c].service,
                             manifest |-> call[c].manifest, max |-> call[c].max,
                             amount |-> amount, day |-> clock]]
      BY <1>9 DEF Answer, CallOnly
    <2>1. [at |-> "charging", service |-> call[c].service,
           manifest |-> call[c].manifest, max |-> call[c].max,
           amount |-> amount, day |-> clock] \in Answered(Amounts)
      <3>1. amount \in Amounts
        BY <1>9, CallTypes DEF Answer, Amounts
      <3> QED BY <1>9, <3>1, CallTypes DEF TypeOK, Answer, Answered
    <2> QED BY <1>9, <2>0, <2>1 DEF TypeOK, Answer, CallOnly
  <1>10. ASSUME NEW c \in Calls, NoReceipt(c) PROVE TypeOK'
    BY <1>10 DEF TypeOK, NoReceipt, CallOnly
  <1>11. ASSUME NEW c \in Calls, Charge(c) PROVE TypeOK'
    <2>1. call[c].amount \in Nat /\ call[c].day \in Days
      BY <1>11, CallTypes DEF Charge
    <2>2. spend' \in [day : Days, line : [Lines -> Nat]]
      BY <1>11, <2>1, TodayType, PlusType DEF Charge
    <2>3. charged' \in [Days -> [Lines -> Nat]]
      BY <1>11, <2>1, PlusType DEF TypeOK, Charge
    <2> QED BY <1>11, <2>2, <2>3 DEF TypeOK, Charge, CallOnly
  <1>12. CASE Midnight
    BY <1>12, X402Bounds DEF TypeOK, Midnight, Days
  <1>13. CASE Restart
    BY <1>13, X402Bounds DEF TypeOK, Restart, ReloadedPins, Zero
  <1>14. CASE UNCHANGED vars
    BY <1>14 DEF TypeOK, vars
  <1> QED BY <1>1, <1>2, <1>3, <1>4, <1>5, <1>6, <1>7, <1>8, <1>9, <1>10, <1>11,
             <1>12, <1>13, <1>14 DEF Next

\* The quotes are numbers, and those of a line are its calls'.
LEMMA QuotedType ==
  ASSUME TypeOK
  PROVE  /\ quoted \in [Calls -> Nat]
         /\ \A l, d : Dated(d, l) \in SUBSET InFlight(l)
         /\ \A l : InFlight(l) \in SUBSET Calls
         /\ \A l \in Capped : Today.line[l] \in Nat
         /\ \A d \in Days, l \in Capped : charged[d][l] \in Nat
         /\ \A l \in Capped : restarts * Limit(l) \in Nat
         /\ \A d \in Days, l \in Capped : Since(d, l) \in Int
  <1>1. quoted \in [Calls -> Nat]
    BY CallTypes, Prices DEF quoted, Authorised
  <1>2. \A l, d : Dated(d, l) \in SUBSET InFlight(l) /\ InFlight(l) \in SUBSET Calls
    BY DEF Dated, InFlight
  <1>3. \A l \in Capped : Today.line[l] \in Nat
    BY TodayType, BudgetConfig
  <1>4. \A d \in Days, l \in Capped : charged[d][l] \in Nat
    BY BudgetConfig DEF TypeOK
  <1>5. \A l \in Capped : restarts * Limit(l) \in Nat
    BY Numbers, Products, X402Bounds DEF TypeOK
  <1>6. \A d \in Days, l \in Capped : Since(d, l) \in Int
    BY <1>4, <1>5 DEF Since
  <1> QED BY <1>1, <1>2, <1>3, <1>4, <1>5, <1>6

-----------------------------------------------------------------------------
(* The steps. *)

LEMMA BudgetInit == Init => BudgetInv
  <1> SUFFICES ASSUME Init PROVE BudgetInv
    OBVIOUS
  <1>1. TypeOK
    BY TypeInit
  <1>2. QuoteInv /\ ReceiptInv /\ FutureInv
    BY BudgetConfig DEF Init, QuoteInv, ReceiptInv, FutureInv,
       Authorised, NoCall, Zero
  <1>3. ASSUME NEW l \in Capped
        PROVE  /\ InFlight(l) = {} /\ Today.line[l] = 0 /\ spend.line[l] = 0
               /\ charged[clock][l] = 0
    BY BudgetConfig, X402Bounds DEF Init, InFlight, Authorised, NoCall, Today, Zero, Days
  <1>4. OvershootIsBounded /\ TodayInv
    <2> SUFFICES ASSUME NEW l \in Capped
                 PROVE  /\ spend.line[l] <= Limit(l)
                        /\ Covered(Today.line[l], InFlight(l), quoted, l)
                        /\ charged[clock][l] <= restarts * Limit(l) + Today.line[l]
      BY DEF OvershootIsBounded, TodayInv
    <2>1. Covered(0, {}, quoted, l)
      BY <1>1, QuotedType, Numbers, CoveredNone
    <2>2. restarts * Limit(l) \in Nat /\ Limit(l) \in Nat
      BY <1>1, QuotedType, Numbers
    <2>3. Covered(Today.line[l], InFlight(l), quoted, l)
      BY <1>3, <2>1, Zenon
    <2>4. spend.line[l] = 0 /\ Today.line[l] = 0 /\ charged[clock][l] = 0
      BY <1>3
    <2> QED BY <2>2, <2>3, <2>4
  <1>5. PastInv
    BY DEF Init, PastInv, Days
  <1> QED BY <1>1, <1>2, <1>4, <1>5 DEF BudgetInv

\* What is spent today is within the limit, on every line.
LEMMA SpentIsWithin ==
  ASSUME BudgetInv, NEW l \in Capped
  PROVE  Today.line[l] <= Limit(l)
  BY QuotedType, CoveredIsWithin DEF BudgetInv, TodayInv

\* A step that authorises no call, charges none and lets no midnight pass: the
\* calls under way may only become fewer, and a receipt is dated today.
LEMMA FewerCalls ==
  ASSUME BudgetInv, TypeOK',
         UNCHANGED <<clock, restarts, charged>>, spend' \in {spend, Today},
         \A c \in Calls : Authorised(c)' =>
           /\ Authorised(c)
           /\ call'[c].service = call[c].service
           /\ call'[c].manifest = call[c].manifest
           /\ call'[c].max = call[c].max
           /\ call'[c].at = "charging" =>
                \/ call'[c] = call[c]
                \/ /\ call'[c].day = clock
                   /\ call'[c].amount <= Price[call[c].manifest]
  PROVE  /\ QuoteInv' /\ ReceiptInv' /\ FutureInv' /\ OvershootIsBounded'
         /\ TodayInv' /\ PastInv'
  <1> USE DEF BudgetInv
  <1>1. QuoteInv'
    BY DEF QuoteInv, Authorised
  <1>2. ReceiptInv'
    <2> SUFFICES ASSUME NEW c \in Calls, call'[c].at = "charging"
                 PROVE  /\ call'[c].amount <= Price[call'[c].manifest]
                        /\ call'[c].day <= clock
      BY DEF ReceiptInv
    <2>1. Authorised(c)'
      BY DEF Authorised
    <2>2. clock \in Int
      BY DEF TypeOK, Days
    <2> QED BY <2>1, <2>2 DEF ReceiptInv
  <1>3. FutureInv' /\ OvershootIsBounded'
    <2>1. \A l \in Capped : Today.line[l] <= Limit(l)
      BY SpentIsWithin
    <2>2. spend'.day <= clock
      BY TodayType DEF FutureInv, TypeOK, Days
    <2> QED BY <2>1, <2>2 DEF FutureInv, OvershootIsBounded
  <1>4. \A l : InFlight(l)' \in SUBSET InFlight(l)
    BY DEF InFlight
  <1>5. \A d, l : d # clock => Dated(d, l)' \in SUBSET Dated(d, l)
    BY DEF Dated, InFlight, Authorised
  <1>6. \A l : \A c \in InFlight(l)' : quoted'[c] = quoted[c]
    BY DEF InFlight, quoted
  <1>7. /\ quoted \in [Calls -> Nat] /\ quoted' \in [Calls -> Nat]
        /\ Today' = Today
        /\ \A l : InFlight(l) \in SUBSET Calls
        /\ \A d, l : Dated(d, l) \in SUBSET InFlight(l)
        /\ \A d, l : Dated(d, l)' \in SUBSET InFlight(l)'
    <2>1. Today' = Today
      BY TodayType DEF Today
    <2>2. quoted' \in [Calls -> Nat]
      BY CallTypes, QuotedType, Prices DEF quoted, Authorised
    <2> QED BY <2>1, <2>2, QuotedType DEF Dated
  <1>8. TodayInv'
    <2> SUFFICES ASSUME NEW l \in Capped
                 PROVE  /\ Covered(Today.line[l], InFlight(l)', quoted', l)
                        /\ charged[clock][l] <= restarts * Limit(l) + Today.line[l]
      BY <1>7 DEF TodayInv
    <2>1. Covered(Today.line[l], InFlight(l), quoted, l) /\ Today.line[l] \in Int
      BY QuotedType DEF TodayInv
    <2>2. Covered(Today.line[l], InFlight(l)', quoted', l)
      BY <1>4, <1>6, <1>7, <2>1, CoveredLess
    <2> QED BY <2>2 DEF TodayInv
  <1>9. PastInv'
    <2> SUFFICES ASSUME NEW d \in Days, NEW l \in Capped, d < clock
                 PROVE  Covered(Since(d, l), Dated(d, l)', quoted', l)
      <3>1. \A d \in Days, l \in Capped : Since(d, l)' = Since(d, l)
        BY DEF Since
      <3> QED BY <3>1 DEF PastInv
    <2>1. Covered(Since(d, l), Dated(d, l), quoted, l) /\ Since(d, l) \in Int
      BY QuotedType DEF PastInv
    <2>2. /\ Dated(d, l)' \in SUBSET Dated(d, l) /\ Dated(d, l) \in SUBSET Calls
          /\ \A c \in Dated(d, l)' : quoted'[c] = quoted[c]
      <3>1. d # clock
        BY DEF TypeOK, Days
      <3> QED BY <1>5, <1>6, <1>7, <3>1
    <2> QED BY <1>7, <2>1, <2>2, CoveredLess
  <1> QED BY <1>1, <1>2, <1>3, <1>8, <1>9

LEMMA MidnightStep ==
  ASSUME BudgetInv, TypeOK', Midnight
  PROVE  /\ QuoteInv' /\ ReceiptInv' /\ FutureInv' /\ OvershootIsBounded'
         /\ TodayInv' /\ PastInv'
  <1> USE DEF BudgetInv
  <1>1. /\ clock \in Nat /\ clock' = clock + 1 /\ clock' \in Days
        /\ UNCHANGED <<call, spend, restarts, charged>>
    BY DEF Midnight, TypeOK, Days
  <1>2. QuoteInv' /\ OvershootIsBounded'
    BY <1>1 DEF QuoteInv, Authorised, OvershootIsBounded
  <1>3. ReceiptInv'
    <2> SUFFICES ASSUME NEW c \in Calls, call[c].at = "charging"
                 PROVE  /\ call[c].amount <= Price[call[c].manifest]
                        /\ call[c].day <= clock + 1
      BY <1>1 DEF ReceiptInv
    <2>1. call[c].day \in Int
      BY CallTypes DEF Days
    <2> QED BY <1>1, <2>1 DEF ReceiptInv
  <1>4. FutureInv'
    <2>1. spend.day \in Int
      BY DEF TypeOK, Days
    <2>2. \A d \in Days : clock + 1 < d => clock < d
      BY <1>1 DEF Days
    <2> QED BY <1>1, <2>1, <2>2 DEF FutureInv
  <1>5. /\ \A l, d : InFlight(l)' = InFlight(l) /\ Dated(d, l)' = Dated(d, l)
        /\ quoted' = quoted
        /\ \A d, l : Since(d, l)' = Since(d, l)
    BY <1>1 DEF InFlight, Dated, quoted, Authorised, Since
  <1>6. TodayInv'
    <2> SUFFICES ASSUME NEW l \in Capped
                 PROVE  /\ Covered(Today'.line[l], InFlight(l), quoted, l)
                        /\ charged[clock + 1][l] <= restarts * Limit(l) + Today'.line[l]
      BY <1>1, <1>5 DEF TodayInv
    <2>1. Today'.line[l] = 0
      <3>1. spend.day # clock + 1
        BY <1>1 DEF FutureInv, TypeOK, Days
      <3> QED BY <1>1, <3>1, BudgetConfig DEF Today, Zero
    <2>2. Covered(0, InFlight(l), quoted, l)
      <3>1. CASE InFlight(l) = {}
        BY <3>1, QuotedType, CoveredNone, Numbers
      <3>2. CASE InFlight(l) # {}
        <4>1. PICK c \in InFlight(l) : TRUE
          BY <3>2
        <4>2. quoted[c] = Price[call[c].manifest]
          BY <4>1 DEF InFlight, quoted
        <4>3. Price[call[c].manifest] <= Cap[l] /\ Price[call[c].manifest] \in Nat
          BY <4>1, CallTypes DEF InFlight, QuoteInv, Authorised
        <4>4. 0 + quoted[c] <= Cap[l]
          BY <4>2, <4>3, Numbers
        <4> QED BY <4>1, <4>4, QuotedType, CoveredFresh
      <3> QED BY <3>1, <3>2
    <2>3. charged[clock + 1][l] = 0 /\ restarts * Limit(l) \in Nat
      BY <1>1, QuotedType DEF FutureInv
    <2> QED BY <2>1, <2>2, <2>3
  <1>7. PastInv'
    <2> SUFFICES ASSUME NEW d \in Days, NEW l \in Capped, d < clock + 1
                 PROVE  Covered(Since(d, l), Dated(d, l), quoted, l)
      BY <1>1, <1>5 DEF PastInv
    <2>1. CASE d < clock
      BY <2>1 DEF PastInv
    <2>2. CASE d = clock
      <3>1. Covered(Today.line[l], InFlight(l), quoted, l)
        BY DEF TodayInv
      <3>2. Since(d, l) <= Today.line[l]
        BY <2>2, QuotedType DEF TodayInv, Since
      <3> QED BY <3>1, <3>2, QuotedType, CoveredLess
    <2> QED BY <1>1, <2>1, <2>2 DEF Days
  <1> QED BY <1>2, <1>3, <1>4, <1>6, <1>7

LEMMA RestartStep ==
  ASSUME BudgetInv, TypeOK', Restart
  PROVE  /\ QuoteInv' /\ ReceiptInv' /\ FutureInv' /\ OvershootIsBounded'
         /\ TodayInv' /\ PastInv'
  <1> USE DEF BudgetInv
  <1>1. /\ clock \in Days /\ clock' = clock /\ charged' = charged
        /\ restarts \in Nat /\ restarts' = restarts + 1
        /\ \A c \in Calls : call'[c] = NoCall
        /\ spend' = [day |-> clock, line |-> Zero]
    BY X402Bounds DEF Restart, TypeOK
  <1>2. QuoteInv' /\ ReceiptInv'
    BY <1>1 DEF QuoteInv, ReceiptInv, Authorised, NoCall
  <1>3. /\ \A l, d : InFlight(l)' = {} /\ Dated(d, l)' = {}
        /\ quoted' \in [Calls -> Nat]
        /\ Today' = spend'
    BY <1>1 DEF InFlight, Dated, quoted, Authorised, NoCall, Today
  <1>4. \A l \in Capped : spend'.line[l] = 0
    BY <1>1, BudgetConfig DEF Zero
  <1>5. FutureInv' /\ OvershootIsBounded'
    BY <1>1, <1>4, Numbers DEF FutureInv, OvershootIsBounded, Days
  <1>6. ASSUME NEW l \in Capped
        PROVE  (restarts + 1) * Limit(l) = restarts * Limit(l) + Limit(l)
               /\ restarts * Limit(l) \in Nat /\ Limit(l) \in Nat
    BY <1>1, Numbers, Products
  <1>7. TodayInv'
    <2> SUFFICES ASSUME NEW l \in Capped
                 PROVE  /\ Covered(0, {}, quoted', l)
                        /\ charged[clock][l] <= (restarts + 1) * Limit(l) + 0
      BY <1>1, <1>3, <1>4 DEF TodayInv
    <2>1. Today.line[l] <= Limit(l) /\ Today.line[l] \in Nat
      BY SpentIsWithin, QuotedType
    <2>2. charged[clock][l] <= restarts * Limit(l) + Today.line[l]
          /\ charged[clock][l] \in Nat
      BY <1>1, QuotedType DEF TodayInv
    <2>3. charged[clock][l] <= (restarts + 1) * Limit(l) + 0
      BY <1>6, <2>1, <2>2
    <2> QED BY <1>3, <1>6, <2>3, CoveredNone
  <1>8. PastInv'
    <2> SUFFICES ASSUME NEW d \in Days, NEW l \in Capped, d < clock
                 PROVE  Covered(Since(d, l)', {}, quoted', l)
      BY <1>1, <1>3 DEF PastInv
    <2>1. Since(d, l) <= Limit(l)
      <3>1. Covered(Since(d, l), Dated(d, l), quoted, l)
        BY DEF PastInv
      <3>2. Dated(d, l) \in SUBSET Calls
        BY QuotedType
      <3> QED BY <3>1, <3>2, QuotedType, CoveredIsWithin
    <2>2. Since(d, l)' = Since(d, l) - Limit(l)
      BY <1>1, <1>6, QuotedType DEF Since
    <2>3. Since(d, l)' <= Limit(l) /\ Since(d, l)' \in Int
      BY <1>6, <2>1, <2>2, QuotedType
    <2> QED BY <1>3, <2>3, CoveredNone
  <1> QED BY <1>2, <1>5, <1>7, <1>8

\* A call that Authorize lets through found its price under every cap.
LEMMA AuthorizeStep ==
  ASSUME BudgetInv, TypeOK', NEW c \in Calls, Authorize(c)
  PROVE  /\ QuoteInv' /\ ReceiptInv' /\ FutureInv' /\ OvershootIsBounded'
         /\ TodayInv' /\ PastInv'
  <1> USE DEF BudgetInv
  <1>1. /\ call[c].at = "verified" /\ spend' = Today
        /\ UNCHANGED <<clock, restarts, charged>>
        /\ \A e \in Calls : e # c => call'[e] = call[e]
    BY DEF Authorize, CallOnly, registry, TypeOK
  <1> DEFINE m == call[c].manifest
             v == call[c].service
  <1>2. CASE ~ Fits(v, Price[m], call[c].max)
    <2>1. call'[c] = NoCall
      BY <1>2 DEF Authorize, CallOnly, TypeOK
    <2>2. \A e \in Calls : Authorised(e)' => e # c /\ call'[e] = call[e]
      BY <1>1, <2>1 DEF Authorised, NoCall
    <2> QED BY <1>1, <2>2, FewerCalls DEF Authorised
  <1>3. CASE Fits(v, Price[m], call[c].max)
    <2>1. call'[c] = [call[c] EXCEPT !.at = "paying"]
      BY <1>3 DEF Authorize, CallOnly, TypeOK
    <2>2. /\ call'[c].at = "paying" /\ call'[c].service = v /\ call'[c].manifest = m
          /\ call'[c].max = call[c].max
      BY <1>1, <2>1, CallTypes DEF Holding
    <2>3. /\ Price[m] <= PerCallMax /\ Price[m] <= call[c].max /\ Price[m] \in Nat
          /\ \A l \in LinesOf(v) \cap Capped : Today.line[l] + Price[m] <= Cap[l]
      BY <1>1, <1>3, CallTypes DEF Fits
    <2> HIDE DEF m, v
    <2>4. \A e \in Calls : e # c /\ Authorised(e)' => Authorised(e)
      BY <1>1 DEF Authorised
    <2>5. QuoteInv'
      <3> SUFFICES ASSUME NEW e \in Calls, Authorised(e)'
                   PROVE  /\ Price[call'[e].manifest] <= PerCallMax
                          /\ Price[call'[e].manifest] <= call'[e].max
                          /\ \A l \in LinesOf(call'[e].service) \cap Capped :
                               Price[call'[e].manifest] <= Cap[l]
        BY DEF QuoteInv
      <3>1. CASE e = c
        BY <2>2, <2>3, <3>1, QuotedType, Numbers
      <3>2. CASE e # c
        BY <1>1, <2>4, <3>2 DEF QuoteInv
      <3> QED BY <3>1, <3>2
    <2>6. ReceiptInv'
      BY <1>1, <2>2 DEF ReceiptInv
    <2>7. FutureInv' /\ OvershootIsBounded' /\ Today' = Today
      <3>1. Today.day = clock /\ clock \in Int
        BY TodayType DEF TypeOK, Days
      <3>2. \A l \in Capped : Today.line[l] <= Limit(l)
        BY SpentIsWithin
      <3> QED BY <1>1, <3>1, <3>2 DEF FutureInv, OvershootIsBounded, Today
    <2>8. /\ \A e \in Calls : e # c => quoted'[e] = quoted[e]
          /\ quoted'[c] = Price[m]
          /\ quoted' \in [Calls -> Nat]
      <3>1. quoted' \in [Calls -> Nat]
        BY CallTypes, <1>1, <2>2, <2>3, Numbers, QuotedType DEF quoted, Authorised
      <3> QED BY <1>1, <2>2, <3>1 DEF quoted, Authorised
    <2>9. TodayInv'
      <3> SUFFICES ASSUME NEW l \in Capped
                   PROVE  Covered(Today.line[l], InFlight(l)', quoted', l)
        BY <1>1, <2>7 DEF TodayInv
      <3>1. InFlight(l)' \in SUBSET Calls /\ Today.line[l] \in Nat /\ Cap[l] \in Nat
        BY QuotedType, Numbers DEF InFlight
      <3>2. CASE l \in LinesOf(v)
        <4>1. c \in InFlight(l)'
          BY <2>2, <3>2 DEF InFlight, Authorised
        <4>2. Today.line[l] + quoted'[c] <= Cap[l]
          BY <2>3, <2>8, <3>1, <3>2, Numbers
        <4> QED BY <2>8, <3>1, <4>1, <4>2, CoveredFresh
      <3>3. CASE l \notin LinesOf(v)
        <4>1. InFlight(l)' \in SUBSET InFlight(l) /\ c \notin InFlight(l)'
          BY <1>1, <2>2, <2>4, <3>3 DEF InFlight
        <4>2. Covered(Today.line[l], InFlight(l), quoted, l)
          BY DEF TodayInv
        <4> QED BY <2>8, <3>1, <4>1, <4>2, QuotedType, CoveredLess
      <3> QED BY <3>2, <3>3
    <2>10. PastInv'
      <3>1. \A d \in Days, l \in Capped : Since(d, l)' = Since(d, l)
        BY <1>1 DEF Since
      <3> SUFFICES ASSUME NEW d \in Days, NEW l \in Capped, d < clock
                   PROVE  Covered(Since(d, l), Dated(d, l)', quoted', l)
        BY <1>1, <3>1 DEF PastInv
      <3>2. /\ Dated(d, l)' \in SUBSET Dated(d, l) /\ Dated(d, l) \in SUBSET Calls
            /\ \A e \in Dated(d, l)' : e \in Calls /\ e # c
        BY <1>1, <2>2, <2>4 DEF Dated, InFlight
      <3>3. Covered(Since(d, l), Dated(d, l), quoted, l)
        BY DEF PastInv
      <3> QED BY <2>8, <3>2, <3>3, QuotedType, CoveredLess
    <2> QED BY <2>5, <2>6, <2>7, <2>9, <2>10
  <1> QED BY <1>2, <1>3

\* A charge moves what a call was quoted from the calls under way to what is
\* spent today, and to the receipts of the day it is dated.
LEMMA ChargeStep ==
  ASSUME BudgetInv, TypeOK', NEW c \in Calls, Charge(c)
  PROVE  /\ QuoteInv' /\ ReceiptInv' /\ FutureInv' /\ OvershootIsBounded'
         /\ TodayInv' /\ PastInv'
  <1> USE DEF BudgetInv
  <1> DEFINE r == call[c]
             Due(l) == IF l \in LinesOf(r.service) THEN r.amount ELSE 0
  <1>1. /\ r.at = "charging" /\ UNCHANGED <<clock, restarts>>
        /\ call'[c] = NoCall /\ \A e \in Calls : e # c => call'[e] = call[e]
        /\ r.amount \in Nat /\ r.day \in Days /\ r.day <= clock /\ clock \in Days
    BY CallTypes DEF Charge, CallOnly, TypeOK, ReceiptInv
  <1>2. /\ Today' = spend' /\ spend'.day = clock
        /\ \A l \in Capped : Today'.line[l] = Today.line[l] + Due(l)
    <2>1. /\ spend' = [Today EXCEPT !.line = Plus(Today.line, r)]
          /\ Today \in [day : Days, line : [Lines -> Nat]] /\ Today.day = clock
      BY TodayType DEF Charge
    <2>2. spend'.day = clock /\ spend'.line = Plus(Today.line, r)
      BY <2>1
    <2>3. \A l \in Lines : spend'.line[l] = Today.line[l] + Due(l)
      BY <1>1, <2>1, <2>2, PlusType
    <2> QED BY <1>1, <2>2, <2>3, BudgetConfig DEF Today
  <1>3. \A d \in Days, l \in Capped :
          charged'[d][l] = charged[d][l] + IF d = r.day THEN Due(l) ELSE 0
    <2>1. /\ charged' = [charged EXCEPT ![r.day] = Plus(charged[r.day], r)]
          /\ charged[r.day] \in [Lines -> Nat] /\ charged \in [Days -> [Lines -> Nat]]
      BY <1>1 DEF Charge, TypeOK
    <2>2. \A l \in Lines : Plus(charged[r.day], r)[l] = charged[r.day][l] + Due(l)
      BY <1>1, <2>1, PlusType
    <2> QED BY <1>1, <2>1, <2>2, BudgetConfig, QuotedType
  <1>4. /\ \A e \in Calls : Authorised(e)' => e # c /\ Authorised(e)
        /\ Authorised(c)
    BY <1>1 DEF Authorised, NoCall
  <1>5. /\ quoted[c] = Price[r.manifest] /\ r.amount <= quoted[c]
        /\ quoted[c] <= Most
    BY <1>1, <1>4, CallTypes, Numbers DEF quoted, ReceiptInv, QuoteInv, Most
  <1>6. /\ quoted \in [Calls -> Nat] /\ quoted' \in [Calls -> Nat]
        /\ \A e \in Calls : e # c => quoted'[e] = quoted[e]
    <2>1. \A e \in Calls : e # c => quoted'[e] = quoted[e]
      BY <1>1 DEF quoted, Authorised
    <2>2. quoted'[c] = 0
      BY <1>4 DEF quoted
    <2>3. quoted' \in [Calls -> Nat]
      BY <2>1, <2>2, QuotedType DEF quoted
    <2> QED BY <2>1, <2>3, QuotedType
  <1>7. \A l : /\ InFlight(l)' \in SUBSET Calls
               /\ l \in LinesOf(r.service) =>
                    c \in InFlight(l) /\ InFlight(l)' = InFlight(l) \ {c}
               /\ l \notin LinesOf(r.service) => InFlight(l)' = InFlight(l)
               /\ c \notin InFlight(l)'
    BY <1>1, <1>4 DEF InFlight, Authorised
  <1>8. \A d, l : /\ Dated(d, l)' \in SUBSET Calls
                  /\ l \in LinesOf(r.service) /\ d = r.day =>
                       c \in Dated(d, l) /\ Dated(d, l)' = Dated(d, l) \ {c}
                  /\ ~ (l \in LinesOf(r.service) /\ d = r.day) =>
                       Dated(d, l)' \in SUBSET Dated(d, l)
                  /\ c \notin Dated(d, l)'
    BY <1>1, <1>7 DEF Dated
  <1>9. \A l : Due(l) \in Nat /\ (l \notin LinesOf(r.service) => Due(l) = 0)
               /\ (l \in LinesOf(r.service) => Due(l) = r.amount)
    BY <1>1
  <1>10. QuoteInv' /\ ReceiptInv'
    BY <1>1, <1>4 DEF QuoteInv, ReceiptInv, NoCall
  <1> HIDE DEF Due, r
  <1>11. ASSUME NEW l \in Capped PROVE Covered(Today'.line[l], InFlight(l)', quoted', l)
    <2>1. Covered(Today.line[l], InFlight(l), quoted, l) /\ Today.line[l] \in Int
          /\ InFlight(l) \in SUBSET Calls
      BY QuotedType DEF TodayInv
    <2>2. CASE l \in LinesOf(r.service)
      <3>1. Covered(Today.line[l] + r.amount, InFlight(l) \ {c}, quoted', l)
        BY <1>1, <1>5, <1>6, <1>7, <2>1, <2>2, CoveredCharge
      <3>2. Today'.line[l] = Today.line[l] + r.amount
        BY <1>2, <1>9, <2>2
      <3> QED BY <1>7, <2>2, <3>1, <3>2
    <2>3. CASE l \notin LinesOf(r.service)
      <3>1. Today'.line[l] = Today.line[l]
        BY <1>2, <1>9, <2>1, <2>3
      <3>2. \A e \in InFlight(l)' : quoted'[e] = quoted[e]
        BY <1>6, <1>7
      <3>3. InFlight(l)' \in SUBSET InFlight(l)
        BY <1>7, <2>3
      <3> QED BY <1>6, <2>1, <3>1, <3>2, <3>3, CoveredLess
    <2> QED BY <2>2, <2>3
  <1>12. FutureInv' /\ OvershootIsBounded'
    <2>1. \A l \in Capped : spend'.line[l] <= Limit(l)
      BY <1>2, <1>6, <1>7, <1>9, <1>11, QuotedType, CoveredIsWithin
    <2>2. \A d \in Days : clock < d => d # r.day
      BY <1>1 DEF Days
    <2>3. \A d \in Days, l \in Capped : clock < d => charged'[d][l] = 0
      BY <1>3, <2>2, QuotedType DEF FutureInv
    <2> QED BY <1>1, <1>2, <2>1, <2>3 DEF FutureInv, OvershootIsBounded, Days
  <1>13. TodayInv'
    <2> SUFFICES ASSUME NEW l \in Capped
                 PROVE  charged'[clock][l] <= restarts * Limit(l) + Today'.line[l]
      BY <1>1, <1>11 DEF TodayInv
    <2>1. charged[clock][l] <= restarts * Limit(l) + Today.line[l]
      BY DEF TodayInv
    <2>2. charged[clock][l] \in Nat /\ restarts * Limit(l) \in Nat
          /\ Today.line[l] \in Nat /\ Due(l) \in Nat
      BY <1>1, <1>9, QuotedType
    <2>3. charged'[clock][l] <= charged[clock][l] + Due(l)
      BY <1>1, <1>3, <2>2
    <2>4. charged'[clock][l] \in Nat
      BY <1>1, <1>3, <2>2
    <2> QED BY <1>2, <2>1, <2>2, <2>3, <2>4
  <1>14. PastInv'
    <2> SUFFICES ASSUME NEW d \in Days, NEW l \in Capped, d < clock
                 PROVE  Covered(Since(d, l)', Dated(d, l)', quoted', l)
      BY <1>1 DEF PastInv
    <2>1. Covered(Since(d, l), Dated(d, l), quoted, l) /\ Since(d, l) \in Int
          /\ Dated(d, l) \in SUBSET Calls
      BY QuotedType DEF PastInv
    <2>2. Since(d, l)' = Since(d, l) + IF d = r.day THEN Due(l) ELSE 0
      <3>1. charged[d][l] \in Nat /\ restarts * Limit(l) \in Nat /\ Due(l) \in Nat
        BY <1>9, QuotedType
      <3> QED BY <1>1, <1>3, <3>1 DEF Since
    <2>3. CASE l \in LinesOf(r.service) /\ d = r.day
      <3>1. Covered(Since(d, l) + r.amount, Dated(d, l) \ {c}, quoted', l)
        BY <1>1, <1>5, <1>6, <1>8, <2>1, <2>3, CoveredCharge
      <3> QED BY <1>8, <1>9, <2>2, <2>3, <3>1
    <2>4. CASE ~ (l \in LinesOf(r.service) /\ d = r.day)
      <3>1. Since(d, l)' = Since(d, l)
        BY <1>9, <2>1, <2>2, <2>4
      <3>2. \A e \in Dated(d, l)' : quoted'[e] = quoted[e]
        BY <1>6, <1>8
      <3>3. Dated(d, l)' \in SUBSET Dated(d, l)
        BY <1>8, <2>4
      <3> QED BY <1>6, <2>1, <3>1, <3>2, <3>3, CoveredLess
    <2> QED BY <2>3, <2>4
  <1> QED BY <1>10, <1>12, <1>13, <1>14

\* What a call reads of catalog and approvals is at times stale; Verify compares
\* the two, and what was pinned once has been consented to.
LEMMA ConsentStep ==
  ASSUME TypeOK, ConsentInv, [Next]_vars
  PROVE  ConsentInv'
  <1> USE DEF registry
  <1>1. ASSUME NEW s \in Services, NEW m \in Manifests, AddManifest(s, m)
        PROVE  ConsentInv'
    BY <1>1 DEF ConsentInv, AddManifest
  <1>2. ASSUME NEW s \in Services, (\E a \in Agents : Approve(a, s)) \/ SetUserEnabled(s)
        PROVE  ConsentInv'
    <2>1. /\ UNCHANGED call /\ manifest[s] \in Manifests
          /\ pinned' = [pinned EXCEPT ![s] = pinned[s] \cup {manifest[s]}]
          /\ \A v \in Services :
               /\ \A e \in Agents : \/ pins'[<<e, v>>] = pins[<<e, v>>]
                                    \/ v = s /\ pins'[<<e, v>>] = manifest[s]
               /\ userPin'[v] = userPin[v] \/ (v = s /\ userPin'[v] = manifest[s])
      BY <1>2 DEF Approve, SetUserEnabled, TypeOK
    <2>2. \A v \in Services : pinned[v] \subseteq pinned'[v]
      BY <2>1 DEF TypeOK
    <2>3. manifest[s] \in pinned'[s]
      BY <2>1 DEF TypeOK
    <2>4. \A c \in Calls : call[c].at \in {"verified", "paying", "charging"} =>
                             call[c].service \in Services
      BY CallTypes
    <2> QED BY <2>1, <2>2, <2>3, <2>4 DEF ConsentInv
  <1>3. ASSUME NEW s \in Services, (\E a \in Agents : Revoke(a, s)) \/ SetUserDisabled(s)
        PROVE  ConsentInv'
    BY <1>3 DEF ConsentInv, Revoke, SetUserDisabled, TypeOK
  <1>4. ASSUME NEW c \in Calls,
               UNCHANGED <<pins, userPin, pinned>>,
               \A e \in Calls : e # c => call'[e] = call[e],
               \/ call'[c].at \in {"idle", "read"}
               \/ /\ call'[c].service = call[c].service
                  /\ call'[c].manifest = call[c].manifest
                  /\ call[c].manifest \in pinned[call[c].service]
        PROVE  ConsentInv'
    BY <1>4 DEF ConsentInv
  <1>5. ASSUME NEW c \in Calls, NEW s \in Services, NEW max \in MaxPrices,
               ReadManifest(c, s, max)
        PROVE  ConsentInv'
    <2>1. call'[c].at = "read"
      BY <1>5 DEF ReadManifest, CallOnly, TypeOK
    <2> QED BY <1>4, <1>5, <2>1 DEF ReadManifest, CallOnly, TypeOK
  <1>6. ASSUME NEW c \in Calls, Resolve(c) PROVE ConsentInv'
    <2>1. call[c] \in Holding("read") /\ call[c].manifest # NoPin
          /\ call[c].service \in Services
      BY <1>6, CallTypes, Prices DEF Resolve
    <2>2. CASE PinOf(call[c].service) = call[c].manifest
      <3>1. call[c].manifest \in pinned[call[c].service]
        BY <2>1, <2>2, AgentsAreOrdered DEF ConsentInv, PinOf
      <3>2. call'[c] = [call[c] EXCEPT !.at = "verified"]
        BY <1>6, <2>2 DEF Resolve, CallOnly, TypeOK
      <3>3. call'[c].service = call[c].service /\ call'[c].manifest = call[c].manifest
        BY <2>1, <3>2 DEF Holding
      <3> QED BY <1>4, <1>6, <3>1, <3>3 DEF Resolve, CallOnly, TypeOK
    <2>3. CASE PinOf(call[c].service) # call[c].manifest
      <3>1. call'[c].at = "idle"
        BY <1>6, <2>3 DEF Resolve, CallOnly, TypeOK, NoCall
      <3> QED BY <1>4, <1>6, <3>1 DEF Resolve, CallOnly, TypeOK
    <2> QED BY <2>2, <2>3
  <1>7. ASSUME NEW c \in Calls, Authorize(c) PROVE ConsentInv'
    <2>1. call[c] \in Holding("verified")
          /\ call[c].manifest \in pinned[call[c].service]
      BY <1>7, CallTypes DEF Authorize, ConsentInv
    <2>2. \/ call'[c].at = "idle"
          \/ call'[c].service = call[c].service /\ call'[c].manifest = call[c].manifest
      BY <1>7, <2>1 DEF Authorize, CallOnly, TypeOK, NoCall, Holding
    <2> QED BY <1>4, <1>7, <2>1, <2>2 DEF Authorize, CallOnly, TypeOK
  <1>8. ASSUME NEW c \in Calls, Answer(c) PROVE ConsentInv'
    <2>1. call[c].manifest \in pinned[call[c].service]
      BY <1>8 DEF Answer, ConsentInv
    <2>2. call'[c].service = call[c].service /\ call'[c].manifest = call[c].manifest
      BY <1>8 DEF Answer, CallOnly, TypeOK
    <2> QED BY <1>4, <1>8, <2>1, <2>2 DEF Answer, CallOnly, TypeOK
  <1>9. ASSUME NEW c \in Calls, NoReceipt(c) \/ Charge(c) PROVE ConsentInv'
    <2>1. call'[c].at = "idle"
      BY <1>9 DEF NoReceipt, Charge, CallOnly, TypeOK, NoCall
    <2> QED BY <1>4, <1>9, <2>1 DEF NoReceipt, Charge, CallOnly, TypeOK
  <1>10. CASE Midnight
    BY <1>10 DEF Midnight, ConsentInv
  <1>11. CASE Restart
    <2>1. \A a \in Agents, s \in Services :
            pins'[<<a, s>>] # NoPin => \E b \in Agents : pins'[<<a, s>>] = pins[<<b, s>>]
      BY <1>11 DEF Restart, ReloadedPins
    <2> QED BY <1>11, <2>1 DEF Restart, ConsentInv, NoCall
  <1>12. CASE UNCHANGED vars
    BY <1>12 DEF vars, ConsentInv
  <1> QED BY <1>1, <1>2, <1>3, <1>5, <1>6, <1>7, <1>8, <1>9, <1>10, <1>11, <1>12
          DEF Next

LEMMA BudgetStep == NoSurcharge /\ BudgetInv /\ [Next]_vars => BudgetInv'
  <1> SUFFICES ASSUME NoSurcharge, BudgetInv, [Next]_vars PROVE BudgetInv'
    OBVIOUS
  <1>1. TypeOK'
    BY TypeStep DEF BudgetInv
  <1> DEFINE Rest == /\ QuoteInv /\ ReceiptInv /\ FutureInv /\ OvershootIsBounded
                     /\ TodayInv /\ PastInv
  <1> HIDE DEF Rest
  <1>3. ASSUME UNCHANGED <<call, clock, spend, restarts, charged>> PROVE Rest'
    <2>1. \A c \in Calls : Authorised(c)' => Authorised(c) /\ call'[c] = call[c]
      BY <1>3 DEF Authorised
    <2> QED BY <1>1, <1>3, <2>1, FewerCalls DEF Rest
  <1>4. ASSUME NEW c \in Calls, UNCHANGED <<clock, spend, restarts, charged>>,
               \A e \in Calls : e # c => call'[e] = call[e],
               call'[c].at \notin {"paying", "charging"}
        PROVE  Rest'
    <2>1. \A e \in Calls : Authorised(e)' => Authorised(e) /\ call'[e] = call[e]
      BY <1>4 DEF Authorised
    <2> QED BY <1>1, <1>4, <2>1, FewerCalls DEF Rest
  <1>5. ASSUME NEW s \in Services,
               \/ \E m \in Manifests : AddManifest(s, m)
               \/ \E a \in Agents : Approve(a, s) \/ Revoke(a, s)
               \/ SetUserEnabled(s) \/ SetUserDisabled(s)
        PROVE  Rest'
    BY <1>3, <1>5 DEF AddManifest, Approve, Revoke, SetUserEnabled, SetUserDisabled
  <1>6. ASSUME NEW c \in Calls, NEW s \in Services, NEW max \in MaxPrices,
               ReadManifest(c, s, max)
        PROVE  Rest'
    <2>1. call'[c].at = "read"
      BY <1>6 DEF ReadManifest, CallOnly, BudgetInv, TypeOK
    <2> QED BY <1>4, <1>6, <2>1 DEF ReadManifest, CallOnly, BudgetInv, TypeOK
  <1>7. ASSUME NEW c \in Calls, Resolve(c) PROVE Rest'
    <2>1. call'[c].at \in {"idle", "verified"}
      <3>1. call[c] \in Holding("read")
        BY <1>7, CallTypes DEF Resolve, BudgetInv
      <3> QED BY <1>7, <3>1 DEF Resolve, CallOnly, BudgetInv, TypeOK, NoCall, Holding
    <2> QED BY <1>4, <1>7, <2>1 DEF Resolve, CallOnly, BudgetInv, TypeOK
  <1>8. ASSUME NEW c \in Calls, NoReceipt(c) PROVE Rest'
    <2>1. call'[c].at = "idle"
      BY <1>8 DEF NoReceipt, CallOnly, BudgetInv, TypeOK, NoCall
    <2> QED BY <1>4, <1>8, <2>1 DEF NoReceipt, CallOnly, BudgetInv, TypeOK
  <1>9. ASSUME NEW c \in Calls, Answer(c) PROVE Rest'
    <2>1. /\ \A e \in Calls : e # c => call'[e] = call[e]
          /\ UNCHANGED <<clock, spend, restarts, charged>>
          /\ call[c].at = "paying" /\ call'[c].day = clock
          /\ call'[c].service = call[c].service /\ call'[c].manifest = call[c].manifest
          /\ call'[c].max = call[c].max
          /\ call'[c].amount \in Asked[call[c].manifest]
      BY <1>9 DEF Answer, CallOnly, BudgetInv, TypeOK
    <2>2. call'[c].amount <= Price[call[c].manifest]
      BY <2>1, CallTypes DEF NoSurcharge, BudgetInv
    <2> QED BY <1>1, <2>1, <2>2, FewerCalls DEF Rest, Authorised
  <1>10. ASSUME NEW c \in Calls, Authorize(c) PROVE Rest'
    BY <1>1, <1>10, AuthorizeStep DEF Rest
  <1>11. ASSUME NEW c \in Calls, Charge(c) PROVE Rest'
    BY <1>1, <1>11, ChargeStep DEF Rest
  <1>12. ASSUME Midnight PROVE Rest'
    BY <1>1, <1>12, MidnightStep DEF Rest
  <1>13. ASSUME Restart PROVE Rest'
    BY <1>1, <1>13, RestartStep DEF Rest
  <1>14. ASSUME UNCHANGED vars PROVE Rest'
    BY <1>3, <1>14 DEF vars
  <1>15. Rest'
    BY <1>5, <1>6, <1>7, <1>8, <1>9, <1>10, <1>11, <1>12, <1>13, <1>14 DEF Next
  <1> QED BY <1>1, <1>15 DEF BudgetInv, Rest

\* BudgetInv holds in every state, if no service asks more than its manifest says.
THEOREM BudgetInvariant == NoSurcharge => (Spec => []BudgetInv)
  <1> SUFFICES ASSUME NoSurcharge PROVE Spec => []BudgetInv
    OBVIOUS
  <1>1. BudgetInv /\ [Next]_vars => BudgetInv'
    BY BudgetStep
  <1> QED BY <1>1, BudgetInit, PTL DEF Spec

-----------------------------------------------------------------------------
(* The theorems. *)

\* The state of X402Budget keeps its types, whatever services ask.
THEOREM BudgetTypeCorrect == Spec => []TypeOK
  BY TypeInit, TypeStep, PTL DEF Spec

\* A call pays for a manifest that was consented to as it is, whatever catalog
\* and approvals have become since it read them, whatever services ask, and
\* whichever pins a restart hands to whom.
THEOREM Consent == Spec => []PaidAsConsented
  <1>1. Init => ConsentInv
    BY DEF Init, ConsentInv, NoCall
  <1>2. TypeOK /\ ConsentInv /\ [Next]_vars => ConsentInv'
    BY ConsentStep
  <1>3. ConsentInv => PaidAsConsented
    BY DEF ConsentInv, PaidAsConsented, Authorised
  <1> QED BY <1>1, <1>2, <1>3, BudgetTypeCorrect, PTL DEF Spec

\* However many calls run between Authorize and Charge, the daemon never counts
\* more on a capped line than the cap and what all calls but one can cost, if no
\* service asks more than its manifest says.
THEOREM OvershootBound == NoSurcharge => (Spec => []OvershootIsBounded)
  <1>1. BudgetInv => OvershootIsBounded
    BY DEF BudgetInv
  <1> QED BY <1>1, BudgetInvariant, PTL

\* The receipts dated one day stay within that limit once for every start of the
\* daemon, although NewBudget forgets what was spent and a charge after midnight
\* counts on the next day.
THEOREM DayBound == NoSurcharge => (Spec => []ADayIsBounded)
  <1>1. BudgetInv => ADayIsBounded
    <2> SUFFICES ASSUME BudgetInv, NEW d \in Days, NEW l \in Capped
                 PROVE  charged[d][l] <= (1 + restarts) * Limit(l)
      BY DEF ADayIsBounded
    <2> USE DEF BudgetInv
    <2>1. /\ restarts \in Nat /\ Limit(l) \in Nat /\ restarts * Limit(l) \in Nat
          /\ (restarts + 1) * Limit(l) = restarts * Limit(l) + Limit(l)
          /\ 1 + restarts = restarts + 1
          /\ charged[d][l] \in Nat /\ clock \in Int /\ d \in Int
      <3>1. restarts \in Nat /\ clock \in Int /\ d \in Int
        BY X402Bounds DEF TypeOK, Days
      <3> QED BY <3>1, Numbers, Products, QuotedType
    <2>2. CASE d = clock
      <3>1. Today.line[l] <= Limit(l) /\ Today.line[l] \in Nat
        BY SpentIsWithin, QuotedType
      <3> QED BY <2>1, <2>2, <3>1 DEF TodayInv
    <2>3. CASE d < clock
      <3>1. Covered(Since(d, l), Dated(d, l), quoted, l)
            /\ Dated(d, l) \in SUBSET Calls
        BY <2>3, QuotedType DEF PastInv
      <3>2. Since(d, l) <= Limit(l)
        BY <3>1, QuotedType, CoveredIsWithin
      <3> QED BY <2>1, <3>2 DEF Since
    <2>4. CASE clock < d
      BY <2>1, <2>4 DEF FutureInv
    <2>5. d = clock \/ d < clock \/ clock < d
      BY <2>1
    <2> QED BY <2>2, <2>3, <2>4, <2>5
  <1> QED BY <1>1, BudgetInvariant, PTL

\* The caps are kept as documented by an agent that makes one call at a time, of
\* services that ask what their manifests say, under a daemon that never restarts.
THEOREM CapsOfOneCall ==
  NoSurcharge /\ Cardinality(Calls) = 1 /\ MaxRestarts = 0 => (Spec => []CapsAreKept)
  <1> SUFFICES ASSUME NoSurcharge, Cardinality(Calls) = 1, MaxRestarts = 0
               PROVE  Spec => []CapsAreKept
    OBVIOUS
  <1>1. TypeOK /\ ADayIsBounded => CapsAreKept
    <2> SUFFICES ASSUME TypeOK, ADayIsBounded, NEW d \in Days, NEW l \in Capped
                 PROVE  charged[d][l] <= Cap[l]
      BY DEF CapsAreKept
    <2>1. restarts = 0 /\ Cap[l] \in Nat /\ PerCallMax \in Nat
      BY BudgetConfig DEF TypeOK
    <2>2. Limit(l) = Cap[l]
      BY <2>1 DEF Limit
    <2>3. charged[d][l] <= (1 + 0) * Cap[l]
      BY <2>1, <2>2 DEF ADayIsBounded
    <2> QED BY <2>1, <2>3
  <1> QED BY <1>1, BudgetTypeCorrect, DayBound, PTL

\* A call is charged no more than its caller's maximum and the per-call maximum,
\* if no service asks more than its manifest says.
THEOREM CallersMax == NoSurcharge => (Spec => []WithinCallersMax)
  <1>1. BudgetInv => WithinCallersMax
    <2> SUFFICES ASSUME BudgetInv, NEW c \in Calls, call[c].at = "charging"
                 PROVE  call[c].amount <= call[c].max /\ call[c].amount <= PerCallMax
      BY DEF WithinCallersMax
    <2> USE DEF BudgetInv
    <2>1. /\ call[c].amount \in Nat /\ call[c].max \in Nat
          /\ Price[call[c].manifest] \in Nat
      BY CallTypes
    <2>2. /\ call[c].amount <= Price[call[c].manifest]
          /\ Price[call[c].manifest] <= call[c].max
          /\ Price[call[c].manifest] <= PerCallMax
      BY DEF ReceiptInv, QuoteInv, Authorised
    <2> QED BY <2>1, <2>2, Numbers
  <1> QED BY <1>1, BudgetInvariant, PTL
=============================================================================
