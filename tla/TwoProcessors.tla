--------------------------- MODULE TwoProcessors ---------------------------
(***************************************************************************)
(* Two post events processors on one outbox: a second instance of the      *)
(* program, or an old one that has not ended when the new one starts.      *)
(* Nothing reserves rows (no FOR UPDATE SKIP LOCKED, no lease): both may   *)
(* fetch the same ones and handle them at their own pace. The first is the *)
(* processor of FeedFanout, which this module extends, and the second is   *)
(* another one over the same tables and feeds. Additions survive this.     *)
(* Deletions do not (Removed fails here): ZADD and ZREM can each be        *)
(* repeated and do not commute, so a processor that has read the followers *)
(* for an addition may push it after the other one has handled the         *)
(* addition and the deletion and marked both.                              *)
(***************************************************************************)
EXTENDS FeedFanout

VARIABLES phase2, batch2, todo2, event2, targets2 \* of the second processor

worker2 == <<phase2, batch2, todo2, event2, targets2>>

twoVars == <<vars, worker2>>

Second == INSTANCE FeedFanout WITH phase <- phase2, batch <- batch2, todo <- todo2,
                                   event <- event2, targets <- targets2

-----------------------------------------------------------------------------
TwoInit == Init /\ Second!Init

\* A processor's steps and its calls that fail.
\* (A restart is one of the latter together with the aborts of the open requests.)
FirstStep == Processor \/ SubsFailed \/ PushFailed \/ MarkFailed

SecondStep == Second!Processor \/ Second!SubsFailed \/ Second!PushFailed \/ Second!MarkFailed

TwoNext ==
    \/ (Requests \/ FirstStep \/ \E u \in Users : LoseFeed(u)) /\ UNCHANGED worker2
    \/ SecondStep /\ UNCHANGED worker

TwoSpec == TwoInit /\ [][TwoNext]_twoVars

-----------------------------------------------------------------------------
(* Properties.                                                             *)

\* The rows that one of the two has handled, those that are marked among them.
HandledBy == {processed \cup (batch \ todo), processed \cup (batch2 \ todo2)}

\* Additions still reach everybody: as soon as either processor has handled the row, and
\* whatever the other one repeats or drops, a follower who stays has the post, unless its
\* deletion is committed.
StillDelivered ==
    \A o \in owed :
      (/\ o[1] \in UNION HandledBy
       /\ o[1].kind = "added"
       /\ \A f \in outbox : f.kind = "deleted" => f.post # o[1].post)
        => o[1].post \in feed[o[2]]

\* Neither processor takes up a deletion before the post's addition is marked, by whomever,
\* or handled by itself; so that no marked deletion is without its marked addition.
StillInOrder ==
    \A S \in HandledBy \cup {processed} : \A e \in S : e.kind = "deleted" =>
      \E f \in S : f.kind = "added" /\ f.post = e.post /\ f.at < e.at

\* What may go wrong with a deletion is this and no more: a post whose deletion is marked
\* comes back only by an addition that a processor has still in hand although the row is
\* marked, by the other one.
OnlyLateAdditionsReturn ==
    [][\A e \in processed, u \in Users :
         (e.kind = "deleted" /\ e.post \in feed'[u] \ feed[u]) =>
           \E f \in (event \cup event2) \cap processed :
              f.kind = "added" /\ f.post = e.post]_twoVars

=============================================================================
