--------------------------- MODULE TransportQueue ---------------------------
(***************************************************************************)
(* What a Transport engine promises about the packets given to send():     *)
(* a lossy channel that transmits from its head.                           *)
(*                                                                         *)
(*  - a packet is admitted once and appended at the back;                  *)
(*  - only the head is transmitted, in the order admitted;                 *)
(*  - a head whose transmission failed transiently moves to the back;      *)
(*  - packets may be discarded (fatal error, full queue, stop, clearQueue) *)
(*    but never duplicated, created or otherwise reordered.                *)
(*                                                                         *)
(* `queue` holds the packets admitted and not yet transmitted or           *)
(* discarded, including the one being transmitted.                         *)
(***************************************************************************)
EXTENDS Sequences, SequencesExt

CONSTANT Packets

VARIABLES queue, delivered, admitted

vars == <<queue, delivered, admitted>>

Init == queue = <<>> /\ delivered = <<>> /\ admitted = {}

Accept(p) ==
    /\ p \notin admitted
    /\ admitted' = admitted \cup {p}
    /\ queue' = Append(queue, p)
    /\ UNCHANGED delivered

Deliver ==
    /\ queue # <<>>
    /\ delivered' = Append(delivered, Head(queue))
    /\ queue' = Tail(queue)
    /\ UNCHANGED admitted

Retry ==
    /\ queue # <<>>
    /\ queue' = Append(Tail(queue), Head(queue))
    /\ UNCHANGED <<delivered, admitted>>

\* One packet anywhere in the queue is dropped.
Discard ==
    /\ \E i \in DOMAIN queue : queue' = RemoveAt(queue, i)
    /\ UNCHANGED <<delivered, admitted>>

\* Everything behind the first k packets is dropped at once.
Flush ==
    /\ \E k \in 0..Len(queue) - 1 : queue' = SubSeq(queue, 1, k)
    /\ UNCHANGED <<delivered, admitted>>

Next == (\E p \in Packets : Accept(p)) \/ Deliver \/ Retry \/ Discard \/ Flush

Spec == Init /\ [][Next]_vars
=============================================================================
