------------------------- MODULE PublicationPromise -------------------------
(* What the publication of plans promises whoever submits them
   (contracts/publication.py): a plan is in progress, refused or published
   (PLAN_STATES_IN_PROGRESS, PLAN_STATES_REFUSED, PLAN_STATE_PUBLISHED), a
   refusal is final, and a plan is published by one step with its passport at
   its coordinate, which never shows another one afterwards.  A published plan
   may still be refused, as execute_publish can do when it is redelivered; its
   version stays. *)
CONSTANTS
    Plan,
    Coordinate,
    CoordinateOf,     \* where each plan publishes
    DigestOf,         \* and what
    NoDigest

VARIABLES
    verdict,      \* what the caller is told of each plan
    catalog       \* what anybody can read at each coordinate

promisedVars == <<verdict, catalog>>

PromisedInit == /\ verdict = [p \in Plan |-> "none"]
                /\ catalog = [c \in Coordinate |-> NoDigest]

Moves(p, from, to) == verdict[p] \in from /\ verdict' = [verdict EXCEPT ![p] = to]

Submits(p) == Moves(p, {"none"}, "in_progress") /\ UNCHANGED catalog

Refuses(p) == Moves(p, {"in_progress", "published"}, "refused") /\ UNCHANGED catalog

Publishes(p) ==
    /\ Moves(p, {"in_progress"}, "published")
    /\ catalog[CoordinateOf[p]] \in {NoDigest, DigestOf[p]}
    /\ catalog' = [catalog EXCEPT ![CoordinateOf[p]] = DigestOf[p]]

PromisedNext == \E p \in Plan : Submits(p) \/ Refuses(p) \/ Publishes(p)

PromisedSpec == PromisedInit /\ [][PromisedNext]_promisedVars
=============================================================================
