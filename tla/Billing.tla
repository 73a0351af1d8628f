------------------------------ MODULE Billing ------------------------------
(***************************************************************************)
(* What the gateway promises the ledger about one client request, whatever *)
(* credentials and rungs the request went through: an answer a provider    *)
(* generated and the gateway read is owed a row; each is settled once, and *)
(* is let off only by a ledger write that failed, which is logged, or by   *)
(* the client, once, hanging up.                                           *)
(***************************************************************************)
CONSTANT Dispatches  \* the times one request can be sent to a provider

VARIABLES
    owed,    \* dispatches whose answer was read and has no row yet
    booked,  \* dispatches with a row in usage_event
    waived,  \* dispatches that will never have one
    client   \* "there" or "gone"

bill == <<owed, booked, waived, client>>

Init ==
    /\ owed = {}
    /\ booked = {}
    /\ waived = {}
    /\ client = "there"

Generate ==
    /\ \E n \in Dispatches \ (owed \cup booked \cup waived) : owed' = owed \cup {n}
    /\ UNCHANGED <<booked, waived, client>>

Book ==
    /\ \E n \in owed : owed' = owed \ {n} /\ booked' = booked \cup {n}
    /\ UNCHANGED <<waived, client>>

WriteFails ==
    /\ \E n \in owed : owed' = owed \ {n} /\ waived' = waived \cup {n}
    /\ UNCHANGED <<booked, client>>

HangUp ==
    /\ client = "there"
    /\ client' = "gone"
    /\ \E S \in SUBSET owed : owed' = owed \ S /\ waived' = waived \cup S
    /\ UNCHANGED booked

Next == Generate \/ Book \/ WriteFails \/ HangUp

Safe == Init /\ [][Next]_bill

(* What is owed is settled in the end.                                     *)
Spec == Safe /\ WF_bill(Book \/ WriteFails)
=============================================================================
