---------------------------- MODULE BroadcastLog ----------------------------
(***************************************************************************)
(* What vLLM's MessageQueue promises its local readers: a broadcast log.   *)
(* Messages are numbered in the order they are enqueued; every reader      *)
(* takes every message, once, in that order, and the writer is never more  *)
(* than Capacity messages ahead of the slowest reader.                     *)
(***************************************************************************)
EXTENDS Naturals

CONSTANTS Readers,   \* the local readers
          Capacity   \* max_chunks of the ring buffer

VARIABLES sent,      \* number of messages published so far
          got        \* got[r]: number of the last message r has taken

logVars == <<sent, got>>

LogInit ==
    /\ sent = 0
    /\ got = [r \in Readers |-> 0]

\* The writer publishes the next message; no reader may lag by a whole ring.
Publish ==
    /\ \A r \in Readers : sent < got[r] + Capacity
    /\ sent' = sent + 1
    /\ UNCHANGED got

\* Reader r takes the next message.
Take(r) ==
    /\ got[r] < sent
    /\ got' = [got EXCEPT ![r] = got[r] + 1]
    /\ UNCHANGED sent

LogNext == Publish \/ \E r \in Readers : Take(r)

LogSpec == LogInit /\ [][LogNext]_logVars
=============================================================================
