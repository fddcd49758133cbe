--------------------------- MODULE PaymentOrders ---------------------------
(***************************************************************************)
(* Buying credits: CheckoutService opens an order and a Stripe Checkout    *)
(* session, the buyer pays (or not), and webhooks and look-ups report the  *)
(* outcome to PaymentFulfillmentService, which settles, fails, expires,    *)
(* refunds or disputes the order and moves the workspace's credits.        *)
(*                                                                         *)
(* A fulfilment transaction reads the order when it begins and writes the  *)
(* whole row when it commits: PaymentOrder has no version column and is    *)
(* not locked, so a copy read before another commit is written over it.    *)
(* Its ledger operation is one AtomicLedger step of the same commit, which *)
(* CreditLedger shows the code to implement.                               *)
(*                                                                         *)
(* Stripe is external.  It may deliver an event late, twice, out of order  *)
(* or never; look-ups stay possible.  Events that are only recorded        *)
(* (WebhookResultKind.IGNORED) are left out, and so are charges and        *)
(* administrators, whose operations are CreditLedger's.                    *)
(***************************************************************************)
EXTENDS LedgerOps, FiniteSetsExt

CONSTANTS
    Orders,         \* payment orders, one Checkout session each
    Account,        \* order -> the workspace that buys
    Price,          \* order -> the credits of its package
    Threads         \* webhook requests, success-page polls and the sweep

ASSUME OrdersAssumption == Orders \subseteq Ids /\ IsFiniteSet(Orders)
ASSUME AccountAssumption == Account \in [Orders -> Workspaces]
ASSUME PriceAssumption == Price \in [Orders -> Nat \ {0}]

VARIABLES
    order,                  \* payment_orders
    grants,                 \* orders with a credit_grants row
    events,                 \* payment_events: the provider events already processed
    session,                \* Stripe's Checkout session of each order
    sent,                   \* webhook events Stripe has to deliver
    pc, ev, seen            \* per thread: its step, its event, the order as it read it

books == <<row, ledger, recorded>>
stripe == <<session, sent>>
threads == <<pc, ev, seen>>
vars == <<books, order, grants, events, stripe, threads>>

L == INSTANCE AtomicLedger

Terminal == {"SUCCEEDED", "FAILED", "EXPIRED", "REFUNDED"}
PaymentStatus == {"CREATED", "PENDING"} \cup Terminal

(* payRef: providerPaymentRef is set.  "none" is an order not yet saved.   *)
OrderRow == [status : PaymentStatus \cup {"none"}, payRef : BOOLEAN]
NoOrder == [status |-> "none", payRef |-> FALSE]

(* A webhook kind, or the result of a look-up.  PART is a charge.refunded  *)
(* event whose amount_refunded is less than the order's.                   *)
Webhooks == {"PAID", "FAILED", "ATTEMPT_FAILED", "EXPIRED", "REFUNDED", "PART", "DISPUTED"}
Lookups == {"LOOKUP_PAID", "LOOKUP_EXPIRED"}
Event == [kind : Webhooks \cup Lookups, order : Orders]
NoEvent == [kind |-> "none", order |-> "none"]
Of(kind, o) == [kind |-> kind, order |-> o]

(* wrong: the session charges another amount or currency than the order    *)
(* ("a tampered or misconfigured checkout").                               *)
Session == [state : {"none", "open", "paid", "failed", "expired"}, wrong : BOOLEAN]

TypeOK ==
    /\ L!TypeOK
    /\ order \in [Orders -> OrderRow]
    /\ grants \subseteq Orders
    /\ events \subseteq Event
    /\ session \in [Orders -> Session]
    /\ sent \subseteq Event
    /\ pc \in [Threads -> {"idle", "asked", "begun"}]
    /\ ev \in [Threads -> Event \cup {NoEvent}]
    /\ seen \in [Threads -> OrderRow]

Init ==
    /\ L!Init
    /\ order = [o \in Orders |-> NoOrder]
    /\ grants = {}
    /\ events = {}
    /\ session = [o \in Orders |-> [state |-> "none", wrong |-> FALSE]]
    /\ sent = {}
    /\ pc = [t \in Threads |-> "idle"]
    /\ ev = [t \in Threads |-> NoEvent]
    /\ seen = [t \in Threads |-> NoOrder]

(* The ledger operations of an order. *)
Operation(type, o, id, amount) ==
    [type |-> type, ws |-> Account[o], id |-> id, amount |-> amount, force |-> FALSE]
Purchase(o) == Operation("PURCHASE", o, o, Price[o])
ClawBack(o) == Operation("REFUND_CLAWBACK", o, o, Price[o])
Suspension(o) == Operation("ACCOUNT_SUSPENDED", o, NoId, 0)

Credited(o) == KeyOf(Purchase(o)) \in recorded
ClawedBack(o) == KeyOf(ClawBack(o)) \in recorded

-----------------------------------------------------------------------------
(* CheckoutService.start: the order is saved, Stripe is asked for a        *)
(* session, the answer is saved.  A crash may stop it after any of them.   *)
Start(o) ==
    /\ order[o].status = "none"
    /\ order' = [order EXCEPT ![o].status = "CREATED"]
    /\ UNCHANGED <<books, grants, events, stripe, threads>>

CreateCheckout(o) ==
    /\ order[o].status = "CREATED"
    /\ session[o].state = "none"
    /\ \E wrong \in BOOLEAN : session' = [session EXCEPT ![o] = [state |-> "open", wrong |-> wrong]]
    /\ UNCHANGED <<books, order, grants, events, sent, threads>>

SaveCheckout(o) ==
    /\ order[o].status = "CREATED"
    /\ session[o].state = "open"
    /\ order' = [order EXCEPT ![o].status = "PENDING"]
    /\ UNCHANGED <<books, grants, events, stripe, threads>>

(* Stripe refused, or its answer was lost.  The call is over long before   *)
(* a session would expire.                                                 *)
CheckoutFails(o) ==
    /\ order[o].status = "CREATED"
    /\ session[o].state \in {"none", "open"}
    /\ order' = [order EXCEPT ![o].status = "FAILED"]
    /\ UNCHANGED <<books, grants, events, stripe, threads>>

-----------------------------------------------------------------------------
(* Stripe and the buyer, who has the session's URL once the order is       *)
(* PENDING.  A payment reported failed may still settle, as markPaid       *)
(* expects.                                                                *)
Stripe(o, state, kinds) ==
    /\ session' = [session EXCEPT ![o].state = state]
    /\ sent' = sent \cup {Of(k, o) : k \in kinds}
    /\ UNCHANGED <<books, order, grants, events, threads>>

Decline(o) == session[o].state = "open" /\ order[o].status = "PENDING" /\ Stripe(o, "open", {"ATTEMPT_FAILED"})
Pay(o) ==
    /\ \/ session[o].state = "open" /\ order[o].status = "PENDING"
       \/ session[o].state = "failed"
    /\ Stripe(o, "paid", {"PAID"})
AsyncFails(o) == session[o].state = "open" /\ order[o].status = "PENDING" /\ Stripe(o, "failed", {"FAILED"})
Expire(o) == session[o].state = "open" /\ Stripe(o, "expired", {"EXPIRED"})

(* Of a wrong session, whose order is never settled, a refund is ignored   *)
(* and a dispute finds no order: they are left out.                        *)
Charged(o) == session[o].state = "paid" /\ ~ session[o].wrong
Refund(o) == Charged(o) /\ \E k \in {"REFUNDED", "PART"} : Stripe(o, "paid", {k})
Dispute(o) == Charged(o) /\ Stripe(o, "paid", {"DISPUTED"})

-----------------------------------------------------------------------------
(* resolveOrder: by the order id in the event's metadata; a dispute has    *)
(* none and is found by the payment reference markPaid stored.             *)
Resolve(e) ==
    IF e.kind = "DISPUTED" /\ ~ order[e.order].payRef THEN NoOrder ELSE order[e.order]

(* process: an event already recorded is a duplicate and changes nothing,  *)
(* so only the others are begun.                                           *)
BeginWith(t, e) ==
    /\ e \notin events
    /\ pc' = [pc EXCEPT ![t] = "begun"]
    /\ ev' = [ev EXCEPT ![t] = e]
    /\ seen' = [seen EXCEPT ![t] = Resolve(e)]
    /\ UNCHANGED <<books, order, grants, events, stripe>>

Deliver(t, e) ==
    /\ pc[t] = "idle"
    /\ e \in sent
    /\ BeginWith(t, e)

(* The orders OrderReconciler looks at, and the wrong ones.                *)
Unsaved == "CREATED"
LookedUp == "PENDING"

(* OrderReconciler.refresh, from the success page's poll or the sweep: an  *)
(* order read PENDING has its session looked up...                         *)
Lookup(t, o) ==
    /\ pc[t] = "idle"
    /\ order[o].status = LookedUp
    /\ \/ session[o].state = "paid" /\ ev' = [ev EXCEPT ![t] = Of("LOOKUP_PAID", o)]
       \/ session[o].state = "expired" /\ ev' = [ev EXCEPT ![t] = Of("LOOKUP_EXPIRED", o)]
    /\ pc' = [pc EXCEPT ![t] = "asked"]
    /\ UNCHANGED <<books, order, grants, events, stripe, seen>>

(* ... and what Stripe says is processed like a webhook.                   *)
BeginLookup(t) ==
    /\ pc[t] = "asked"
    /\ BeginWith(t, ev[t])

Finished(t) ==
    /\ pc' = [pc EXCEPT ![t] = "idle"]
    /\ ev' = [ev EXCEPT ![t] = NoEvent]
    /\ seen' = [seen EXCEPT ![t] = NoOrder]

LookupIsDuplicate(t) ==
    /\ pc[t] = "asked"
    /\ ev[t] \in events
    /\ Finished(t)
    /\ UNCHANGED <<books, order, grants, events, stripe>>

(* The commit of a transaction: the event row, whose unique index refuses  *)
(* a second one, and the end of the thread's work.                         *)
CommitEvent(t, kinds) ==
    /\ pc[t] = "begun"
    /\ ev[t].kind \in kinds
    /\ ev[t] \notin events
    /\ events' = events \cup {ev[t]}
    /\ Finished(t)
    /\ UNCHANGED stripe

(* orders.save: every column, from the copy the transaction read.          *)
Save(t, copy) == order' = [order EXCEPT ![ev[t].order] = copy]

(* The ledger applies an operation unless its key is taken or its change   *)
(* already in force; PostAgain is the ledger without its keys.             *)
PostAgain(c) ==
    /\ row' = [row EXCEPT ![c.ws] = Posted(row[c.ws], c)]
    /\ ledger' = [ledger EXCEPT ![c.ws] = WithLine(ledger[c.ws], row[c.ws], c)]
    /\ recorded' = WithKey(recorded, c)

Post(c) ==
    IF KeyOf(c) \in recorded \/ NoChange(row[c.ws], c)
    THEN UNCHANGED books
    ELSE L!Post(c)

Found(t) == seen[t].status # "none"
IsPaid == {"PAID", "LOOKUP_PAID"}
IsExpired == {"EXPIRED", "LOOKUP_EXPIRED"}

(* "no matching order": only the event is recorded. *)
MatchNothing(t) ==
    /\ CommitEvent(t, {"DISPUTED"})
    /\ ~ Found(t)
    /\ UNCHANGED <<books, order, grants>>

(* markPaid: an order already settled or refunded stays as it is.          *)
AlreadySettled(s) == s \in {"SUCCEEDED", "REFUNDED"}

PaidAgain(t) ==
    /\ CommitEvent(t, IsPaid)
    /\ AlreadySettled(seen[t].status)
    /\ UNCHANGED <<books, order, grants>>

(* A wrong amount or currency is noted and credits nothing. *)
Mismatch(o) == session[o].wrong

RejectPayment(t) ==
    /\ CommitEvent(t, IsPaid)
    /\ ~ AlreadySettled(seen[t].status)
    /\ Mismatch(ev[t].order)
    /\ Save(t, seen[t])
    /\ UNCHANGED <<books, grants>>

Settle(t) ==
    /\ CommitEvent(t, IsPaid)
    /\ ~ AlreadySettled(seen[t].status)
    /\ ~ Mismatch(ev[t].order)
    /\ Save(t, [status |-> "SUCCEEDED", payRef |-> TRUE])
    /\ Post(Purchase(ev[t].order))
    /\ grants' = grants \cup {ev[t].order}

(* transitionTo FAILED or EXPIRED, and noteFailedAttempt: only an order    *)
(* read as open is touched.                                                *)
KindAsStatus(kind) == kind
ClosedAs(kind) == IF kind = "FAILED" THEN "FAILED" ELSE "EXPIRED"

Close(t) ==
    /\ CommitEvent(t, {"FAILED"} \cup IsExpired)
    /\ IF seen[t].status \in Terminal
       THEN UNCHANGED order
       ELSE Save(t, [seen[t] EXCEPT !.status = ClosedAs(ev[t].kind)])
    /\ UNCHANGED <<books, grants>>

NoteFailedAttempt(t) ==
    /\ CommitEvent(t, {"ATTEMPT_FAILED"})
    /\ IF seen[t].status \in Terminal THEN UNCHANGED order ELSE Save(t, seen[t])
    /\ UNCHANGED <<books, grants>>

(* refund: ignored unless the order is SUCCEEDED; a partial one is noted.  *)
Refundable(s) == s = "SUCCEEDED"

IgnoreRefund(t) ==
    /\ CommitEvent(t, {"REFUNDED", "PART"})
    /\ ~ Refundable(seen[t].status)
    /\ UNCHANGED <<books, order, grants>>

NotePartialRefund(t) ==
    /\ CommitEvent(t, {"PART"})
    /\ Refundable(seen[t].status)
    /\ Save(t, seen[t])
    /\ UNCHANGED <<books, grants>>

TakeBack(t) ==
    /\ CommitEvent(t, {"REFUNDED"})
    /\ Refundable(seen[t].status)
    /\ Save(t, [seen[t] EXCEPT !.status = "REFUNDED"])
    /\ Post(ClawBack(ev[t].order))
    /\ UNCHANGED grants

SuspendWorkspace(t) ==
    /\ CommitEvent(t, {"DISPUTED"})
    /\ Found(t)
    /\ Save(t, seen[t])
    /\ Post(Suspension(ev[t].order))
    /\ UNCHANGED grants

(* Another thread recorded the event meanwhile: the unique index rolls the *)
(* transaction back.  A webhook is answered 500, a look-up is content.     *)
EventRecorded(t) ==
    /\ pc[t] = "begun"
    /\ ev[t] \in events
    /\ Finished(t)
    /\ UNCHANGED <<books, order, grants, events, stripe>>

(* The service or its database connection fails before the commit. *)
Crash(t) ==
    /\ pc[t] # "idle"
    /\ Finished(t)
    /\ UNCHANGED <<books, order, grants, events, stripe>>

Apply(t) ==
    \/ MatchNothing(t) \/ PaidAgain(t) \/ RejectPayment(t) \/ Settle(t) \/ Close(t)
    \/ NoteFailedAttempt(t) \/ IgnoreRefund(t) \/ NotePartialRefund(t) \/ TakeBack(t)
    \/ SuspendWorkspace(t)

Next ==
    \/ \E o \in Orders :
          \/ Start(o) \/ CreateCheckout(o) \/ SaveCheckout(o) \/ CheckoutFails(o)
          \/ Decline(o) \/ Pay(o) \/ AsyncFails(o) \/ Expire(o) \/ Refund(o) \/ Dispute(o)
    \/ \E t \in Threads :
          \/ \E e \in sent : Deliver(t, e)
          \/ \E o \in Orders : Lookup(t, o)
          \/ BeginLookup(t) \/ LookupIsDuplicate(t) \/ Apply(t) \/ EventRecorded(t) \/ Crash(t)

Spec == Init /\ [][Next]_vars

(* The sweep runs every minute and the database answers; crashes do not    *)
(* cut off every attempt.  No webhook need ever arrive.                    *)
FairSpec ==
    /\ Spec
    /\ \A o \in Orders : SF_vars(\E t \in Threads : Lookup(t, o))
    /\ \A t \in Threads :
          /\ SF_vars(BeginLookup(t)) /\ SF_vars(Apply(t))
          /\ WF_vars(LookupIsDuplicate(t) \/ EventRecorded(t))

-----------------------------------------------------------------------------
(* A report of payment is never used up without its credits: once it is    *)
(* recorded, and so will be answered "duplicate" from then on, the order   *)
(* is credited, even if it had been closed before.                         *)
PaidEventCredits ==
    \A e \in events :
        e.kind \in IsPaid /\ ~ session[e.order].wrong => Credited(e.order)

(* Credits come only from money: a session that was paid, with the amount  *)
(* and currency of the order.                                              *)
CreditNeedsPayment ==
    \A o \in Orders : Credited(o) => Charged(o)

(* Whatever copies were written over one another, an order that says       *)
(* SUCCEEDED or REFUNDED has its ledger lines and its audit rows.          *)
SettledIsCredited ==
    \A o \in Orders :
        /\ order[o].status \in {"SUCCEEDED", "REFUNDED"} => Credited(o)
        /\ order[o].status = "REFUNDED" => ClawedBack(o)
        /\ ClawedBack(o) => Credited(o) /\ Of("REFUNDED", o) \in events
        /\ Credited(o) <=> o \in grants

(* A workspace holds the credits of its orders paid and not refunded, each *)
(* once, however many webhooks, polls and sweeps saw them.                 *)
Worth(o) == IF Credited(o) /\ ~ ClawedBack(o) THEN Price[o] ELSE 0

BalanceIsPaidFor ==
    \A w \in Workspaces :
        row[w].balance =
            SumFunctionOnSet([o \in Orders |-> Worth(o)], {o \in Orders : Account[o] = w})

(* The four together: credits follow the money, whichever webhooks, polls  *)
(* and sweeps report it, in whatever order and over whatever stale copies. *)
CreditsFollowMoney ==
    /\ PaidEventCredits
    /\ CreditNeedsPayment
    /\ SettledIsCredited
    /\ BalanceIsPaidFor

(* "A paid order settles even when the webhook never arrives"              *)
(* (credit-system-api.md): look-ups credit it.  A payment first reported   *)
(* failed is the exception: that report closes the order to look-ups, and  *)
(* only the webhook can settle it.                                         *)
PendingPaidIsCredited ==
    \A o \in Orders :
        Charged(o) /\ order[o].status = "PENDING" ~> Credited(o) \/ Of("FAILED", o) \in events

(* PaymentStatus: "PENDING advances to a terminal state; the one exception *)
(* is a payment that settles after the order was marked FAILED or EXPIRED, *)
(* which still becomes SUCCEEDED"; a settled order can only be refunded.   *)
StatusAdvances ==
    [][\A o \in Orders :
          /\ order[o].status \in Terminal
          /\ order'[o].status # order[o].status
          => <<order[o].status, order'[o].status>> \in
                {<<"FAILED", "SUCCEEDED">>, <<"EXPIRED", "SUCCEEDED">>, <<"SUCCEEDED", "REFUNDED">>}]_vars

(* "charge.refunded: full refund: order REFUNDED, credits removed"         *)
(* (credit-system-api.md): no order keeps credits for a payment whose full *)
(* refund was reported.                                                    *)
RefundTakesCredits ==
    \A o \in Orders : Of("REFUNDED", o) \in events /\ Credited(o) => ClawedBack(o)
=============================================================================
