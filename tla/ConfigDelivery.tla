---------------------------- MODULE ConfigDelivery ----------------------------
(***************************************************************************)
(* What the update manager and the update agent promise together about one *)
(* host: the edits of its configurations arrive there, one configuration   *)
(* at a time, never an older one over a newer one; and the number that the *)
(* host records is a claim, made only when the last edit of every          *)
(* configuration up to that number has arrived, or it or a later one has   *)
(* been given up.                                                          *)
(***************************************************************************)
EXTENDS Naturals

CONSTANT Confs

VARIABLES
    made,       \* the edits: a configuration and its configVersion
    held,       \* the configVersion of each configuration on the host
    claim,      \* the configVersion the host stands for
    givenUp     \* the edits that will not be delivered in their own right

vars == <<made, held, claim, givenUp>>

Init ==
    /\ made = {}
    /\ held = [c \in Confs |-> 0]
    /\ claim = 0
    /\ givenUp = {}

Edit(c, v) ==
    /\ <<c, v>> \notin made
    /\ made' = made \cup {<<c, v>>}
    /\ UNCHANGED <<held, claim, givenUp>>

GiveUp(edits) ==
    /\ givenUp' = givenUp \cup edits
    /\ UNCHANGED <<made, held, claim>>

Deliver(c, v) ==
    /\ <<c, v>> \in made
    /\ held[c] <= v
    /\ held' = [held EXCEPT ![c] = v]
    /\ UNCHANGED <<made, claim, givenUp>>

\* A file is cut short while it is replaced, which may be the end of its edits.
Damage(c, edits) ==
    /\ \A e \in edits : e[1] = c
    /\ held' = [held EXCEPT ![c] = 0]
    /\ givenUp' = givenUp \cup edits
    /\ UNCHANGED <<made, claim>>

\* The last edit of a configuration up to number n.
Latest(c, v, n) ==
    /\ <<c, v>> \in made
    /\ v <= n
    /\ \A w \in {e[2] : e \in {d \in made : d[1] = c}} : w <= n => w <= v

Claim(n) ==
    /\ n # claim
    /\ \A e \in made :
          Latest(e[1], e[2], n) =>
              \/ held[e[1]] >= e[2]
              \/ \E w \in givenUp \cap made : w[1] = e[1] /\ w[2] >= e[2]
    /\ claim' = n
    /\ UNCHANGED <<made, held, givenUp>>

\* Every step is one of these.
Promised ==
    \/ \E e \in made' : Edit(e[1], e[2])
    \/ GiveUp(givenUp')
    \/ \E c \in Confs : Deliver(c, held'[c]) \/ Damage(c, givenUp' \ givenUp)
    \/ Claim(claim')

Spec == Init /\ [][Promised]_vars

=============================================================================
