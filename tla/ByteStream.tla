----------------------------- MODULE ByteStream -----------------------------
(***************************************************************************)
(* What a serial link without flow control promises the library: a byte   *)
(* stream that keeps order and may lose bytes, read in chunks.             *)
(*                                                                         *)
(*  - the writer appends bytes (any number, also none);                    *)
(*  - a run of consecutive bytes in transit may be lost;                   *)
(*  - the reader takes a non-empty prefix of what is in transit as one     *)
(*    chunk; chunk boundaries need not match the writer's packets.         *)
(***************************************************************************)
EXTENDS Naturals, Sequences, SequencesExt

CONSTANT Bytes

VARIABLES
    sent,       \* every byte written, in order
    inTransit,  \* written, not yet read and not lost
    got         \* the chunks read, in order

vars == <<sent, inTransit, got>>

Init == sent = <<>> /\ inTransit = <<>> /\ got = <<>>

\* The writer appends whatever sent' adds to sent.
Write ==
    /\ IsPrefix(sent, sent')
    /\ sent' \in Seq(Bytes)
    /\ inTransit' = inTransit \o SubSeq(sent', Len(sent) + 1, Len(sent'))
    /\ UNCHANGED got

\* Bytes i..j of those in transit are lost.
Lose ==
    /\ \E i, j \in DOMAIN inTransit :
          /\ i <= j
          /\ inTransit' = SubSeq(inTransit, 1, i - 1)
                          \o SubSeq(inTransit, j + 1, Len(inTransit))
    /\ UNCHANGED <<sent, got>>

\* The reader takes the first n bytes as one chunk.
Read ==
    /\ \E n \in 1..Len(inTransit) :
          /\ got' = Append(got, SubSeq(inTransit, 1, n))
          /\ inTransit' = SubSeq(inTransit, n + 1, Len(inTransit))
    /\ UNCHANGED sent

Next == Write \/ Lose \/ Read

Spec == Init /\ [][Next]_vars
=============================================================================
