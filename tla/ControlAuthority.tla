-------------------------- MODULE ControlAuthority --------------------------
(***************************************************************************)
(* What low_level_guard promises, without leases, candidates and clocks: at*)
(* most one session at a time is in control; an order is followed only in  *)
(* the session it was given in, while that session's word is good, and only*)
(* for a time after it was given.  What ends a session, or lets it lapse,  *)
(* or silences it, ends the motion too.                                    *)
(***************************************************************************)
EXTENDS Integers

CONSTANTS
  Term,      \* ticks a session's word is good for, at most
  Validity   \* ticks an order is good for, at most

VARIABLES
  session,   \* number of the session, counted from 1
  held,      \* it has not been ended
  left,      \* ticks its word is still good for
  order,     \* the last order: a set of at most one, with session and age
  followed   \* the order that is followed in this tick, a set of at most one

authority == <<session, held, left, order, followed>>

AuthorityInit ==
  /\ session = 0
  /\ held = FALSE
  /\ left = 0
  /\ order = {}
  /\ followed = {}

\* A session takes control, from nobody or from another one: no order yet.
Take ==
  /\ session' = session + 1
  /\ held' = TRUE
  /\ left' \in 1..Term
  /\ order' = {}
  /\ UNCHANGED followed

\* It gives its word again; its last order stands.
Renew ==
  /\ held
  /\ left' \in 1..Term
  /\ UNCHANGED <<session, held, order, followed>>

End ==
  /\ held
  /\ held' = FALSE
  /\ left' = 0
  /\ order' = {}
  /\ UNCHANGED <<session, followed>>

Give ==
  /\ left > 0
  /\ order' = {[session |-> session, age |-> 0]}
  /\ UNCHANGED <<session, held, left, followed>>

\* The robot may follow the order that stands, and never has to.
Follow ==
  /\ left > 0
  /\ order # {}
  /\ followed' = order
  /\ UNCHANGED <<session, held, left, order>>

\* Time passes, and an order that is Validity ticks old is none any more.
Pass ==
  /\ left' = IF left = 0 THEN 0 ELSE left - 1
  /\ order' = {[session |-> o.session, age |-> o.age + 1] :
                 o \in {p \in order : p.age + 1 < Validity}}
  /\ followed' = {}
  /\ UNCHANGED <<session, held>>

AuthorityNext == Take \/ Renew \/ End \/ Give \/ Follow \/ Pass

AuthoritySpec == AuthorityInit /\ [][AuthorityNext]_authority
=============================================================================
