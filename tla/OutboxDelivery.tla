--------------------------- MODULE OutboxDelivery ---------------------------
(***************************************************************************)
(* What the transactional outbox promises to whoever writes an event into  *)
(* it, with no table, batch, process or cache in sight:                    *)
(*                                                                         *)
(*   - an event is handed over only after it was committed;                *)
(*   - an event is acknowledged only after it was handed over, in the      *)
(*     attempt that acknowledges it, and is not handed over afterwards;    *)
(*   - an event is not handed over after one that has to follow it,        *)
(*     neither the first time nor when an attempt is repeated;             *)
(*   - an attempt may fail at any point: what it handed over without       *)
(*     acknowledging it is then handed over again (at-least-once).         *)
(*                                                                         *)
(* FeedFanout implements this specification.                               *)
(***************************************************************************)

CONSTANTS Events,    \* every event that may ever be written
          Follows    \* <<e, f>> in Follows: e must never be handed over after f

VARIABLES committed, \* events in the outbox
          handed,    \* acknowledged, or handed over in the present attempt
          acked      \* acknowledged for good

vars == <<committed, handed, acked>>

Init == /\ committed = {}
        /\ handed = {}
        /\ acked = {}

Commit == /\ \E e \in Events \ committed : committed' = committed \cup {e}
          /\ UNCHANGED <<handed, acked>>

HandOver == /\ \E e \in committed \ handed :
                 /\ \A f \in handed : <<e, f>> \notin Follows
                 /\ handed' = handed \cup {e}
            /\ UNCHANGED <<committed, acked>>

Acknowledge == /\ \E S \in SUBSET handed : acked' = acked \cup S
               /\ UNCHANGED <<committed, handed>>

\* The attempt ends early: everything not acknowledged is to be handed over again.
StartOver == /\ handed' = acked
             /\ UNCHANGED <<committed, acked>>

Next == Commit \/ HandOver \/ Acknowledge \/ StartOver

Spec == Init /\ [][Next]_vars
=============================================================================
