--------------------------- MODULE ProviderListing ---------------------------
(***************************************************************************)
(* Iterating over what the provider lists: payments, orders, links,        *)
(* refunds or settlements, each by the same loop. The provider lists the   *)
(* newest first, and items keep arriving and changing their status between *)
(* two pages; a page may be answered with an error, which ends the         *)
(* iteration after what it has yielded so far.                             *)
(***************************************************************************)
EXTENDS Integers, Sequences, FiniteSets

CONSTANTS
    Resources,      \* what a caller lists
    MaxItems,       \* bound: items the provider ever has
    Initially,      \* items the provider has at first
    PageLimit,      \* MAX_COUNT, which is also the most the provider returns
    Counts          \* the values of count a caller passes

Resource == {"payments", "orders", "payment_links", "refunds", "settlements"}

ASSUME ListingAssumption ==
    /\ Resources \subseteq Resource
    /\ MaxItems \in Nat /\ Initially \in 0 .. MaxItems /\ PageLimit \in Nat \ {0}
    /\ Counts \subseteq Nat \ {0}

VARIABLES
    resource,       \* what is listed
    status,         \* status[i]: what the provider says of its i-th item, by age
    params,         \* count and skip of the next request
    yielded,        \* what the iteration has yielded
    present,        \* history variable: the items there were when it started
    lister          \* is the iteration "ready", "paging", "done" or "raised"?

listVars == <<resource, status, params, yielded, present, lister>>

ListInit ==
    /\ resource \in Resources
    /\ status = [i \in 1 .. Initially |-> "created"]
    /\ params = [count |-> 0, skip |-> 0]
    /\ yielded = <<>>
    /\ present = 0
    /\ lister = "ready"

\* The status that says the money has moved.
MovedStatus(r) == CASE r = "payments" -> "captured"
                    [] r \in {"orders", "payment_links"} -> "paid"
                    [] OTHER -> "processed"

KnownStatus(r) ==
    {"created", MovedStatus(r)} \cup
    CASE r = "payments"      -> {"authorized", "failed", "refunded"}
      [] r = "orders"        -> {"attempted", "failed"}
      [] r = "payment_links" -> {"partially_paid", "expired", "cancelled"}
      [] OTHER               -> {"failed"}

\* _map_*_status: an unknown status of a payment is read as a failure, of anything else
\* as just created.
MapStatus(r, s) ==
    IF s \in KnownStatus(r) THEN s ELSE IF r = "payments" THEN "failed" ELSE "created"

\* _normalize_*, as far as an identifier and a status go.
Normalized(i) == [id |-> i, status |-> MapStatus(resource, status[i])]

\* An item arrives, is put under a review the adapter knows nothing of, or is decided.
ProviderMoves ==
    /\ \/ Len(status) < MaxItems /\ status' = Append(status, "created")
       \/ \E i \in 1 .. Len(status) :
             /\ status[i] # MovedStatus(resource)
             /\ \E s \in {"under_review", MovedStatus(resource)} : status' = [status EXCEPT ![i] = s]
    /\ UNCHANGED <<resource, params, yielded, present, lister>>

\* Mutant: the count is passed on as it is.
RequestedCount(c) == c

\* min(count, MAX_COUNT)
PageCount(c) == IF c < PageLimit THEN c ELSE PageLimit

BeginListing(c) ==
    /\ lister = "ready"
    /\ params' = [count |-> PageCount(c), skip |-> 0]
    /\ present' = Len(status)
    /\ lister' = "paging"
    /\ UNCHANGED <<resource, status, yielded>>

\* What the provider returns: the newest first, from skip on, at most count of them
\* and never more than it returns at once.
Page ==
    LET size == IF params.count < PageLimit THEN params.count ELSE PageLimit
        last == Len(status) - params.skip
        n    == IF last < size THEN last ELSE size
    IN  [k \in 1 .. n |-> last - k + 1]

LastPage(page) == Len(page) < params.count

ReadPage ==
    /\ lister = "paging"
    /\ yielded' = yielded \o [k \in DOMAIN Page |-> Normalized(Page[k])]
    /\ lister' = IF LastPage(Page) THEN "done" ELSE "paging"
    /\ params' = IF LastPage(Page) THEN params
               ELSE [params EXCEPT !.skip = @ + Len(Page)]
    /\ UNCHANGED <<resource, status, present>>

PageFails ==
    /\ lister = "paging"
    /\ lister' = "raised"
    /\ UNCHANGED <<resource, status, params, yielded, present>>

ListNext ==
    \/ ProviderMoves
    \/ \E c \in Counts : BeginListing(c)
    \/ ReadPage
    \/ PageFails

ListSpec == ListInit /\ [][ListNext]_listVars

-----------------------------------------------------------------------------
(***************************************************************************)
(* Properties.                                                             *)
(***************************************************************************)
Listed == {yielded[k].id : k \in DOMAIN yielded}

\* Whatever arrives between two pages, an iteration that ends without an error has
\* yielded every item there was when it started (some it may yield twice), and what it
\* tells of money that has moved is so, whatever status the provider invents.
NothingIsSkipped ==
    /\ lister = "done" => 1 .. present \subseteq Listed
    /\ \A k \in DOMAIN yielded :
          yielded[k].status = MovedStatus(resource) =>
              status[yielded[k].id] = MovedStatus(resource)
=============================================================================
