----------------------------- MODULE BodyRelay -----------------------------
(***************************************************************************)
(* What an HTTP tunnel promises for the bodies of requests, whichever way  *)
(* they travel: the relay accepts or refuses a request once, and the local *)
(* service gets the body of an accepted one whole, unmixed with others and *)
(* at most once, and nothing of a refused one.                             *)
(***************************************************************************)
EXTENDS Sequences

CONSTANTS Requests, Contents

VARIABLES
    content,    \* the body of each request
    outcome,    \* what the relay made of it: open, accepted or refused
    got         \* the bodies the local service was given for it

vars == <<content, outcome, got>>

Init ==
    /\ content \in [Requests -> Contents]
    /\ outcome = [r \in Requests |-> "open"]
    /\ got = [r \in Requests |-> <<>>]

Settle(r, how) ==
    /\ outcome[r] = "open"
    /\ outcome' = [outcome EXCEPT ![r] = how]
    /\ UNCHANGED <<content, got>>

Deliver(r) ==
    /\ outcome[r] = "accepted" /\ got[r] = <<>>
    /\ got' = [got EXCEPT ![r] = <<content[r]>>]
    /\ UNCHANGED <<content, outcome>>

Next == \E r \in Requests : Settle(r, "accepted") \/ Settle(r, "refused") \/ Deliver(r)

Spec == Init /\ [][Next]_vars
=============================================================================
