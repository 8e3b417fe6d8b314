------------------------------ MODULE Billing ------------------------------
(***************************************************************************)
(* An organisation's plan as Stripe's events set it (billing.py).  Events  *)
(* come in any order, more than once, and two at a time; each says what a  *)
(* subscription was when the event was made.  A handler loads the row,     *)
(* may ask Stripe, and commits the columns it changed.  Only events about  *)
(* the current subscription count, and a subscription that is bought while *)
(* the current one is live is kept aside.                                  *)
(***************************************************************************)
EXTENDS Naturals, FiniteSets

CONSTANTS
    Handlers,       \* requests that handle an event
    NSubs,          \* bound: subscriptions, bought one after another
    MaxEvents,      \* bound: events Stripe makes
    MaxDeliveries,  \* bound
    MaxFaults       \* bound: handlers that die, audit entries that fail

SubsAssumption ==
    IsFiniteSet(Handlers) /\ {NSubs, MaxEvents, MaxDeliveries, MaxFaults} \subseteq Nat

Subs == 1 .. NSubs
NoSub == 0

\* The statuses a subscription goes through; an event's number is its place in them.
Events ==
    [kind : {"checkout"}, sub : Subs, number : {1}] \cup
    [kind : {"active", "unpaid", "deleted"}, sub : Subs, number : 1 .. MaxEvents]

VARIABLES
    status, number,   \* status[s], and how many statuses it has had
    sent,             \* the events Stripe has made
    handled,          \* those that were answered with success
    plan, current,    \* the row: plan, stripe_subscription_id
    handler,          \* handler[h]
    enterprise,       \* history: sales moved the organisation to enterprise
    aside,            \* history: subscriptions that were live, or live again, while
                      \* another was the current one
    late,             \* history: an event that an answered, newer one contradicts was obeyed
    raced,            \* history: handlers met, at the row or at one subscription, or
                      \* Stripe's answer was overtaken before it was used
    unaudited,        \* history: an audit entry failed and took the plan's change with it
    deliveries, faults

billingVars == <<status, number, sent, handled, plan, current, handler, enterprise, aside,
                 late, raced, unaudited, deliveries, faults>>

NoEvent == [kind |-> "none", sub |-> NoSub, number |-> 0]
Idle == [at |-> "idle", event |-> NoEvent, plan |-> "free", current |-> NoSub, kept |-> FALSE]

TypeOK ==
    /\ status \in [Subs -> {"none", "active", "unpaid", "deleted"}]
    /\ number \in [Subs -> 0 .. MaxEvents]
    /\ sent \subseteq Events /\ handled \subseteq sent
    /\ plan \in {"free", "team", "enterprise"} /\ current \in Subs \cup {NoSub}
    /\ \A h \in Handlers :
          /\ handler[h].at \in {"idle", "loaded", "asked", "downgraded"}
          /\ handler[h].event \in Events \cup {NoEvent}
          /\ handler[h].plan \in {"free", "team", "enterprise"}
          /\ handler[h].current \in Subs \cup {NoSub} /\ handler[h].kept \in BOOLEAN
    /\ enterprise \in BOOLEAN /\ aside \subseteq Subs
    /\ late \in BOOLEAN /\ raced \in BOOLEAN /\ unaudited \in BOOLEAN
    /\ deliveries \in 0 .. MaxDeliveries /\ faults \in 0 .. MaxFaults

Init ==
    /\ status = [s \in Subs |-> "none"] /\ number = [s \in Subs |-> 0]
    /\ sent = {} /\ handled = {}
    /\ plan = "free" /\ current = NoSub
    /\ handler = [h \in Handlers |-> Idle]
    /\ enterprise = FALSE /\ aside = {} /\ late = FALSE /\ raced = FALSE /\ unaudited = FALSE
    /\ deliveries = 0 /\ faults = 0

stripeVars  == <<status, number, sent>>
historyVars == <<enterprise, aside, late, raced, unaudited>>

-----------------------------------------------------------------------------
(***************************************************************************)
(* Stripe.  A checkout that began while the row had no subscription may be *)
(* completed at any later time.                                            *)
(***************************************************************************)
Buy(s) ==
    /\ status[s] = "none" /\ \A r \in 1 .. s - 1 : status[r] # "none"
    /\ status' = [status EXCEPT ![s] = "active"] /\ number' = [number EXCEPT ![s] = 1]
    /\ Cardinality(sent) < MaxEvents
    /\ sent' = sent \cup {[kind |-> "checkout", sub |-> s, number |-> 1]}
    /\ UNCHANGED <<handled, plan, current, handler, historyVars, deliveries, faults>>

\* A checkout was told that s is not live, and has not replaced it yet.
Answered(s) ==
    \E h \in Handlers : /\ handler[h].at = "asked" /\ ~handler[h].kept
                       /\ handler[h].current = s /\ handler[h].event.sub # s

\* Its seats change, a payment fails or succeeds, it is cancelled.
Turns(s, to) ==
    /\ status[s] \in {"active", "unpaid"} /\ Cardinality(sent) < MaxEvents
    /\ status' = [status EXCEPT ![s] = to] /\ number' = [number EXCEPT ![s] = @ + 1]
    /\ sent' = sent \cup {[kind |-> to, sub |-> s, number |-> number[s] + 1]}
    /\ raced' = (raced \/ (to = "active" /\ Answered(s)))
    /\ UNCHANGED <<handled, plan, current, handler, enterprise, aside, late, unaudited,
                   deliveries, faults>>

\* An operator moves the organisation to enterprise (users.apply_plan).
SetEnterprise ==
    /\ plan' = "enterprise" /\ enterprise' = TRUE
    /\ plan # "enterprise" /\ ~enterprise
    /\ UNCHANGED <<stripeVars, handled, current, handler, aside, late, raced, unaudited,
                   deliveries, faults>>

-----------------------------------------------------------------------------
\* An event is delivered, again perhaps, and its handler loads the row.
Load(h, e) ==
    /\ handler[h].at = "idle" /\ deliveries < MaxDeliveries
    /\ deliveries' = deliveries + 1
    /\ handler' = [handler EXCEPT ![h] =
           [at |-> "loaded", event |-> e, plan |-> plan, current |-> current, kept |-> FALSE]]
    /\ UNCHANGED <<stripeVars, handled, plan, current, historyVars, faults>>

Live(s) == status[s] = "active"

\* A checkout asks Stripe whether another current subscription is live.
AskStripe(h) ==
    LET c == handler[h]
    IN  /\ c.at = "loaded" /\ c.event.kind = "checkout"
        /\ handler' = [handler EXCEPT ![h].at = "asked",
               ![h].kept = c.current \notin {NoSub, c.event.sub} /\ Live(c.current)]
        /\ UNCHANGED <<stripeVars, handled, plan, current, historyVars, deliveries, faults>>

Paid(p) == IF p = "enterprise" THEN p ELSE "team"

\* What an ORM commit leaves: a column the handler did not change stays as it is.
Written(now, loaded, new) == IF new = loaded THEN now ELSE new

\* The event was about to be obeyed although a newer one of its subscription was answered.
Outdated(e) == \E f \in handled : f.sub = e.sub /\ f.number > e.number

\* The row changed since the handler read it, or another one works on the same subscription.
Meets(h) ==
    \/ <<plan, current>> # <<handler[h].plan, handler[h].current>>
    \/ \E g \in Handlers \ {h} : handler[g].event.sub = handler[h].event.sub

Adopts(h) ==
    LET c == handler[h]
    IN  \/ c.at = "asked" /\ ~c.kept
        \/ c.at = "loaded" /\ c.event.kind = "active" /\ c.current \in {NoSub, c.event.sub}

\* The event's subscription becomes, or stays, the current one and is paid for.
Adopt(h) ==
    LET c == handler[h]
    IN  /\ Adopts(h)
        /\ plan' = Written(plan, c.plan, Paid(c.plan))
        /\ current' = Written(current, c.current, c.event.sub)
        /\ late' = (late \/ Outdated(c.event))
        /\ raced' = (raced \/ Meets(h))
        /\ handled' = handled \cup {c.event}
        /\ handler' = [handler EXCEPT ![h] = Idle]
        /\ UNCHANGED <<stripeVars, enterprise, aside, unaudited, deliveries, faults>>

\* Other seats are put on record before the commit: when that fails, the adoption is rolled
\* back with it, and the event counts as answered.
AdoptUnaudited(h) ==
    /\ Adopts(h) /\ handler[h].at = "loaded" /\ faults < MaxFaults
    /\ faults' = faults + 1 /\ unaudited' = TRUE
    /\ raced' = (raced \/ Meets(h))
    /\ handled' = handled \cup {handler[h].event}
    /\ handler' = [handler EXCEPT ![h] = Idle]
    /\ UNCHANGED <<stripeVars, plan, current, enterprise, aside, late, deliveries>>

\* Mutant of Ends: an end of any subscription is obeyed.
EndsAny(h) ==
    /\ handler[h].at = "loaded" /\ handler[h].event.kind \in {"unpaid", "deleted"}
    /\ handler[h].current # NoSub

\* The event ends the current subscription.
Ends(h) ==
    /\ handler[h].at = "loaded" /\ handler[h].event.kind \in {"unpaid", "deleted"}
    /\ handler[h].current = handler[h].event.sub

(***************************************************************************)
(* _downgrade: the audit entry commits the plan's change with it, and when *)
(* it fails it is rolled back with the change.  The subscription goes with *)
(* the commit after that.                                                  *)
(***************************************************************************)
Downgrade(h, ok) ==
    LET c == handler[h]
    IN  /\ Ends(h)
        /\ ok \/ (c.plan = "team" /\ faults < MaxFaults)
        /\ plan' = IF ok /\ c.plan = "team" THEN "free" ELSE plan
        /\ late' = (late \/ Outdated(c.event))
        /\ raced' = (raced \/ Meets(h))
        /\ unaudited' = (unaudited \/ ~ok)
        /\ faults' = faults + (IF ok THEN 0 ELSE 1)
        /\ handler' = [handler EXCEPT ![h].at = "downgraded", ![h].plan = plan',
                                      ![h].current = current]
        /\ UNCHANGED <<stripeVars, handled, current, enterprise, aside, deliveries>>

Forget(h) ==
    LET c == handler[h]
    IN  /\ c.at = "downgraded"
        /\ current' = NoSub
        /\ raced' = (raced \/ Meets(h))
        /\ handled' = handled \cup {c.event}
        /\ handler' = [handler EXCEPT ![h] = Idle]
        /\ UNCHANGED <<stripeVars, plan, enterprise, aside, late, unaudited, deliveries, faults>>

\* The event changes nothing: it is of another subscription than the current one.
Ignore(h) ==
    LET c == handler[h]
    IN  /\ c.at = "asked" \/ (c.at = "loaded" /\ c.event.kind # "checkout")
        /\ ~Adopts(h) /\ ~Ends(h)
        /\ aside' = aside \cup
               {s \in {c.event.sub} : c.at = "asked" \/ (c.event.kind = "active" /\ c.event.number > 1)}
        /\ raced' = (raced \/ Meets(h))
        /\ handled' = handled \cup {c.event}
        /\ handler' = [handler EXCEPT ![h] = Idle]
        /\ UNCHANGED <<stripeVars, plan, current, enterprise, late, unaudited,
                       deliveries, faults>>

\* A handler dies, or Stripe cannot be asked: the event is not answered, and comes again.
Fail(h) ==
    /\ handler[h].at # "idle" /\ faults < MaxFaults
    /\ faults' = faults + 1
    /\ handler' = [handler EXCEPT ![h] = Idle]
    /\ UNCHANGED <<stripeVars, handled, plan, current, historyVars, deliveries>>

Next ==
    \/ \E s \in Subs : Buy(s) \/ \E to \in {"active", "unpaid", "deleted"} : Turns(s, to)
    \/ SetEnterprise
    \/ \E h \in Handlers :
          \/ \E e \in sent : Load(h, e)
          \/ AskStripe(h) \/ Adopt(h) \/ AdoptUnaudited(h) \/ Ignore(h) \/ Forget(h) \/ Fail(h)
          \/ \E ok \in BOOLEAN : Downgrade(h, ok)

Spec == Init /\ [][Next]_billingVars

-----------------------------------------------------------------------------
Settled == handled = sent /\ \A h \in Handlers : handler[h].at = "idle"

(***************************************************************************)
(* When every event was answered, the organisation has the plan that is    *)
(* paid for: team only while its current subscription is live, and no live *)
(* one is passed over, but for one that was live beside another;           *)
(* enterprise once sales gave it.  An event that was obeyed too late,      *)
(* handlers that met at the row, an answer of Stripe's that was overtaken  *)
(* and a failed audit entry are excused (billing.py _handle_event,         *)
(* _downgrade).                                                            *)
(***************************************************************************)
PlanSettles ==
    Settled /\ ~late /\ ~raced /\ ~unaudited =>
        /\ plan = "enterprise" <=> enterprise
        /\ plan = "team" => current # NoSub /\ Live(current)
        /\ current # NoSub => Live(current)
        /\ \A s \in Subs : Live(s) => current # NoSub \/ s \in aside

=============================================================================
