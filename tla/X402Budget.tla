----------------------------- MODULE X402Budget -----------------------------
(***************************************************************************)
(* What one agent may spend on x402 services (pkg/x402: Registry, Pin,     *)
(* Budget, Backend.StreamCall).                                            *)
(*                                                                         *)
(* A call reads the service's manifest, then the approval it was pinned    *)
(* at, then asks the budget, each under a lock of its own; it pays with no *)
(* lock held, and only then is the budget charged.  Calls of one agent run *)
(* concurrently, the catalog and the approvals change under them, midnight *)
(* passes, and the daemon restarts.  Other agents share the registry.      *)
(***************************************************************************)
EXTENDS Integers, FiniteSets

CONSTANTS
  Agents,        \* agent ids, compared as the code compares strings
  Caller,        \* the agent whose calls and budget these are
  Calls,         \* the calls of the agent that can run at one time
  Services,
  Manifests,     \* versions of a manifest: what its hash tells apart
  Price,         \* Price[m]: MaxPriceUSDC of manifest m
  NoPin,
  Daily,         \* the line of the budget that every service counts on
  Capped,        \* the lines that have a cap: Daily, or a service's id
  Cap,           \* dailyCap and perService
  PerCallMax,
  MaxPrices,     \* the max_price_usdc an agent may give
  Asked,         \* Asked[m]: amounts that a service with manifest m may ask
  MaxDay,        \* bound: midnights that pass
  MaxRestarts,   \* bound: restarts of the daemon
  MaxChanges     \* bound: changes of catalog and approvals

Lines == {Daily} \cup Services
LinesOf(s) == {Daily, s}

ASSUME BudgetConfig ==
  /\ IsFiniteSet(Calls) /\ Calls # {}
  /\ Daily \notin Services /\ Capped \subseteq Lines
  /\ Cap \in [Capped -> Nat] /\ PerCallMax \in Nat

ASSUME AgentsAreOrdered == Agents \subseteq Nat /\ Caller \in Agents

\* A service may ask more than its manifest says: nothing compares the two.
ASSUME Prices ==
  /\ Price \in [Manifests -> Nat] /\ MaxPrices \subseteq Nat
  /\ Asked \in [Manifests -> SUBSET Nat] /\ \A m \in Manifests : Price[m] \in Asked[m]
  /\ NoPin \notin Manifests

ASSUME X402Bounds == MaxDay \in Nat /\ MaxRestarts \in Nat /\ MaxChanges \in Nat

VARIABLES
  manifest,   \* manifest[s]: the catalog's manifest of s
  approvals,  \* the <<agent, service>> with an approval
  pins,       \* pins[<<a, s>>]: what a's approval of s is pinned at, or NoPin
  userPin,    \* userPin[s]: the same for the user-level enable
  call,       \* call[c]: where call c is, and what it holds
  clock,      \* the calendar day
  spend,      \* spentToday: the day it was opened for, and the total of each line
  restarts, changes,
  pinned,     \* history: pinned[s] is every manifest of s that was consented to
  charged     \* history: charged[d][l] is the sum of the receipts dated d

registry == <<manifest, approvals, pins, userPin>>
vars == <<registry, call, clock, spend, restarts, changes, pinned, charged>>

NoCall == [at |-> "idle"]
Zero == [l \in Lines |-> 0]
Days == 0 .. MaxDay

\* A call that holds the manifest it read; one that was authorised and has no
\* answer yet; one whose receipt is to be charged.
Holding(step) ==
  [at : {step}, service : Services, manifest : Manifests, max : MaxPrices]
Answered(amounts) ==
  [at : {"charging"}, service : Services, manifest : Manifests, max : MaxPrices,
   amount : amounts, day : Days]

Authorised(c) == call[c].at \in {"paying", "charging"}

Init ==
  /\ manifest \in [Services -> Manifests]
  /\ approvals = {} /\ pins = [k \in Agents \X Services |-> NoPin]
  /\ userPin = [s \in Services |-> NoPin]
  /\ call = [c \in Calls |-> NoCall]
  /\ clock = 0 /\ spend = [day |-> 0, line |-> Zero]
  /\ restarts = 0 /\ changes = 0
  /\ pinned = [s \in Services |-> {}]
  /\ charged = [d \in Days |-> Zero]

-----------------------------------------------------------------------------
(* The registry. *)

Changes == changes < MaxChanges /\ changes' = changes + 1

\* AddManifest, by a catalog refresh: approvals and pins stay as they are.
AddManifest(s, m) ==
  /\ Changes
  /\ manifest[s] # m
  /\ manifest' = [manifest EXCEPT ![s] = m]
  /\ UNCHANGED <<approvals, pins, userPin, call, clock, spend, restarts, pinned, charged>>

\* Approve pins the manifest the catalog has now.
Approve(a, s) ==
  /\ Changes
  /\ approvals' = approvals \cup {<<a, s>>}
  /\ pins' = [pins EXCEPT ![<<a, s>>] = manifest[s]]
  /\ pinned' = [pinned EXCEPT ![s] = @ \cup {manifest[s]}]
  /\ UNCHANGED <<manifest, userPin, call, clock, spend, restarts, charged>>

Revoke(a, s) ==
  /\ Changes
  /\ approvals' = approvals \ {<<a, s>>}
  /\ pins' = [pins EXCEPT ![<<a, s>>] = NoPin]
  /\ UNCHANGED <<manifest, userPin, call, clock, spend, restarts, pinned, charged>>

SetUserEnabled(s) ==
  /\ Changes
  /\ userPin' = [userPin EXCEPT ![s] = manifest[s]]
  /\ pinned' = [pinned EXCEPT ![s] = @ \cup {manifest[s]}]
  /\ UNCHANGED <<manifest, approvals, pins, call, clock, spend, restarts, charged>>

SetUserDisabled(s) ==
  /\ Changes
  /\ userPin' = [userPin EXCEPT ![s] = NoPin]
  /\ UNCHANGED <<manifest, approvals, pins, call, clock, spend, restarts, pinned, charged>>

-----------------------------------------------------------------------------
(* StreamCall. *)

CallOnly(c, state) ==
  /\ call' = [call EXCEPT ![c] = state]
  /\ UNCHANGED <<registry, clock, restarts, changes, pinned>>

\* StreamCall up to registry.Manifest.
ReadManifest(c, s, max) ==
  /\ call[c].at = "idle"
  /\ CallOnly(c, [at |-> "read", service |-> s, manifest |-> manifest[s],
                  max |-> max])
  /\ UNCHANGED <<spend, charged>>

\* resolveAuthorization: an approval of the agent comes first, even if its pin is
\* missing.
PinOf(s) == IF <<Caller, s>> \in approvals THEN pins[<<Caller, s>>] ELSE userPin[s]

\* Mutant of Resolve: Verify compares no hash.
ResolveUnverified(c) ==
  /\ call[c].at = "read"
  /\ CallOnly(c, IF PinOf(call[c].service) # NoPin
                 THEN [call[c] EXCEPT !.at = "verified"] ELSE NoCall)
  /\ UNCHANGED <<spend, charged>>

\* Mutant of Resolve: the call goes on with what the pin says, if there is one.
ResolvePinned(c) ==
  /\ call[c].at = "read"
  /\ CallOnly(c, [call[c] EXCEPT !.at = "verified",
                                 !.manifest = PinOf(call[c].service)])
  /\ UNCHANGED <<spend, charged>>

\* resolveAuthorization and Pin.Verify, of the manifest the call read before.
Resolve(c) ==
  /\ call[c].at = "read"
  /\ CallOnly(c, IF PinOf(call[c].service) = call[c].manifest
                 THEN [call[c] EXCEPT !.at = "verified"] ELSE NoCall)
  /\ UNCHANGED <<spend, charged>>

\* dayLocked: the spend record of today, new after midnight.
Today == IF spend.day = clock THEN spend ELSE [day |-> clock, line |-> Zero]

\* Authorize: the quote is within the caller's maximum, the per-call maximum
\* and what is left today of every cap.
Fits(s, quote, max) ==
  /\ quote <= max /\ quote <= PerCallMax
  /\ \A l \in LinesOf(s) \cap Capped : Today.line[l] + quote <= Cap[l]

\* Nothing is reserved.  The first two refusals come before dayLocked, which
\* then makes the same record whenever it is next called.
Authorize(c) ==
  /\ call[c].at = "verified"
  /\ spend' = Today
  /\ CallOnly(c, IF Fits(call[c].service, Price[call[c].manifest], call[c].max)
                 THEN [call[c] EXCEPT !.at = "paying"] ELSE NoCall)
  /\ UNCHANGED charged

\* Stream signs whatever the live challenge asks, and its answer carries a receipt:
\* the amount is the service's word, or the challenge's, or else the manifest's
\* price.  It is dated here.
Answer(c) ==
  /\ call[c].at = "paying"
  /\ \E amount \in Asked[call[c].manifest] :
       CallOnly(c, [at |-> "charging", service |-> call[c].service,
                    manifest |-> call[c].manifest, max |-> call[c].max,
                    amount |-> amount, day |-> clock])
  /\ UNCHANGED <<spend, charged>>

\* The request failed, was answered for free, its payment was not accepted, or
\* the receipt was missing or did not parse: the call returns and charges nothing.
NoReceipt(c) ==
  /\ call[c].at = "paying"
  /\ CallOnly(c, NoCall)
  /\ UNCHANGED <<spend, charged>>

\* r's amount on the lines of its service.
Plus(line, r) ==
  [l \in Lines |-> line[l] + IF l \in LinesOf(r.service) THEN r.amount ELSE 0]

\* Charge: today's spend, whatever day the receipt says.
Charge(c) ==
  LET r == call[c] IN
  /\ r.at = "charging"
  /\ spend' = [Today EXCEPT !.line = Plus(@, r)]
  /\ charged' = [charged EXCEPT ![r.day] = Plus(@, r)]
  /\ CallOnly(c, NoCall)

-----------------------------------------------------------------------------
Midnight ==
  /\ clock < MaxDay
  /\ clock' = clock + 1
  /\ UNCHANGED <<registry, call, spend, restarts, changes, pinned, charged>>

\* NewRegistry: the saved pins do not say whose they are.  All pins of a service
\* go to the first agent that has an approval of it, the last one read stays, and
\* persistLocked leaves open which that is.
ReloadedPins ==
  {p \in [Agents \X Services -> Manifests \cup {NoPin}] :
     \A a \in Agents, s \in Services :
       LET first == /\ <<a, s>> \in approvals
                    /\ \A b \in Agents : <<b, s>> \in approvals => a <= b
           saved == {pins[<<b, s>>] : b \in Agents} \ {NoPin}
       IN p[<<a, s>>] \in IF first /\ saved # {} THEN saved ELSE {NoPin}}

\* NewBudget after a stop: the receipts are loaded, spentToday is empty, and
\* ensureBudget sets the same caps again.  The rest of the registry comes back as
\* it was saved.
Restart ==
  /\ restarts < MaxRestarts
  /\ restarts' = restarts + 1
  /\ call' = [c \in Calls |-> NoCall]
  /\ spend' = [day |-> clock, line |-> Zero]
  /\ pins' \in ReloadedPins
  /\ UNCHANGED <<manifest, approvals, userPin, clock, changes, pinned, charged>>

Next ==
  \/ \E s \in Services :
       \/ \E m \in Manifests : AddManifest(s, m)
       \/ \E a \in Agents : Approve(a, s) \/ Revoke(a, s)
       \/ SetUserEnabled(s)
       \/ SetUserDisabled(s)
  \/ \E c \in Calls :
       \/ \E s \in Services, max \in MaxPrices : ReadManifest(c, s, max)
       \/ Resolve(c)
       \/ Authorize(c)
       \/ Answer(c)
       \/ NoReceipt(c)
       \/ Charge(c)
  \/ Midnight
  \/ Restart

Spec == Init /\ [][Next]_vars

-----------------------------------------------------------------------------
(* Properties. *)

Amounts == UNION {Asked[m] : m \in Manifests}

\* The types of the state: a call holds what its step has learned, and what it
\* is charged is an amount that a service asks.
TypeOK ==
  /\ manifest \in [Services -> Manifests]
  /\ approvals \in SUBSET (Agents \X Services)
  /\ pins \in [Agents \X Services -> Manifests \cup {NoPin}]
  /\ userPin \in [Services -> Manifests \cup {NoPin}]
  /\ call \in [Calls -> {NoCall} \cup Holding("read") \cup Holding("verified")
                        \cup Holding("paying") \cup Answered(Amounts)]
  /\ clock \in Days
  /\ spend \in [day : Days, line : [Lines -> Nat]]
  /\ restarts \in 0 .. MaxRestarts /\ changes \in 0 .. MaxChanges
  /\ pinned \in [Services -> SUBSET Manifests]
  /\ charged \in [Days -> [Lines -> Nat]]

\* A call under way pays for a manifest that was consented to as it is, by the
\* user or for some agent, although catalog and approvals may have changed since
\* it read them and a restart hands the pins of one agent to another (Pin.Verify,
\* NewRegistry).
PaidAsConsented ==
  \A c \in Calls : Authorised(c) => call[c].manifest \in pinned[call[c].service]

\* "The budget caps ensure no single bad service can do more than the cap's worth
\* of damage in a day": the receipts of a day stay within every cap, although
\* calls run at once, midnight passes and the daemon restarts (Authorize, Charge,
\* NewBudget).
CapsAreKept == \A d \in Days, l \in Capped : charged[d][l] <= Cap[l]

\* "Transport refuses to sign if the live quote exceeds the caller's
\* max_price_usdc": what a call is charged is within the maximum its caller gave
\* and the per-call maximum (StreamCall, Authorize, Stream).
WithinCallersMax ==
  \A c \in Calls : call[c].at = "charging" =>
    call[c].amount <= call[c].max /\ call[c].amount <= PerCallMax

-----------------------------------------------------------------------------
(* What is left of the two, when no service asks more than its manifest says. *)

NoSurcharge == \A m \in Manifests : \A amount \in Asked[m] : amount <= Price[m]

\* What a day's spend on line l can reach.  Authorize reserves nothing, so of
\* the calls that were authorised together all but one may come on top of the
\* cap.
Limit(l) == Cap[l] + (Cardinality(Calls) - 1) * PerCallMax

\* What the daemon counts as spent on a day.
OvershootIsBounded == \A l \in Capped : spend.line[l] <= Limit(l)

\* What the receipts of a day add up to: a restart forgets what was spent.
ADayIsBounded ==
  \A d \in Days, l \in Capped : charged[d][l] <= (1 + restarts) * Limit(l)
=============================================================================
