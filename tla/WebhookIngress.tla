--------------------------- MODULE WebhookIngress ---------------------------
(***************************************************************************)
(* POST /webhooks/razorpay: the signature, the deduplication at the        *)
(* boundary, the stored FinancialEvent, and the dispatch to the outcome    *)
(* layer (OutcomeLedger). The provider repeats a notification that is not  *)
(* answered 200.                                                           *)
(***************************************************************************)
EXTENDS Integers, FiniteSets

CONSTANTS
    Event,          \* the provider's notifications
    MaxTime         \* bound: last clock tick

VARIABLES
    razorpayMode,   \* the adapter the factory can make: "live", "keyless" or "stub"
    clock,          \* the time of receipt
    seen,           \* _processed_event_ids
    stored,         \* rows of financial_event
    dispatched,     \* events the outcome layer has processed
    answer          \* answer[e]: the last answer to event e

ingressVars == <<razorpayMode, clock, seen, stored, dispatched, answer>>

IngressInit ==
    /\ razorpayMode \in {"live", "keyless", "stub"}
    /\ clock = 0
    /\ seen = {}
    /\ stored = {}
    /\ dispatched = {}
    /\ answer = [e \in Event |-> 0]

\* FinancialEvent(source=..., event_type=..., payload=...): the id and the time of
\* creation have defaults, the deduplication key is not given.
Row(e) == [source |-> "razorpay", event_type |-> e, payload |-> e]

Given == {"id", "source", "event_type", "payload", "created_at"}

\* The columns of financial_event that may not be null.
Required == {"id", "source", "event_type", "payload", "deduplication_key", "created_at"}

\* session.commit raises IntegrityError if a column that may not be null is not given.
Commits == Required \subseteq Given

\* _generate_event_id: the event, the payment and the time of receipt.
EventId(e) == <<e, clock>>

Receive(e, signature) ==
    LET code == CASE razorpayMode = "live" /\ signature = "wrong" -> 400
                  [] razorpayMode # "live"      -> 500
                  [] EventId(e) \in seen        -> 200
                  [] ~ Commits                  -> 500
                  [] OTHER                      -> 200
        fresh == /\ razorpayMode = "live" /\ signature # "wrong"
                 /\ EventId(e) \notin seen
    IN  /\ answer[e] # 200
        /\ answer' = [answer EXCEPT ![e] = code]
        /\ seen' = IF fresh THEN seen \cup {EventId(e)} ELSE seen
        /\ stored' = IF fresh /\ Commits THEN stored \cup {Row(e)} ELSE stored
        /\ dispatched' = IF fresh /\ Commits THEN dispatched \cup {e} ELSE dispatched
        /\ UNCHANGED <<razorpayMode, clock>>

IngressTick ==
    /\ clock < MaxTime
    /\ clock' = clock + 1
    /\ UNCHANGED <<razorpayMode, seen, stored, dispatched, answer>>

IngressNext ==
    \/ \E e \in Event, signature \in {"none", "right", "wrong"} : Receive(e, signature)
    \/ IngressTick

IngressSpec == IngressInit /\ [][IngressNext]_ingressVars

\* "Persists as FinancialEvent", and "dispatches the same event to the outcome webhook
\* handler": a notification that got past the deduplication was stored and dispatched.
SeenIsStored ==
    \A e \in Event : (\E t \in 0 .. MaxTime : <<e, t>> \in seen) =>
                        Row(e) \in stored /\ e \in dispatched
=============================================================================
