------------------------------- MODULE Packet -------------------------------
(***************************************************************************)
(* net::Packet: a fixed buffer of MAX_MTU bytes, the count of valid bytes  *)
(* `size` and an `id`, written by clear(), setPayload() and by direct      *)
(* field assignment. Bytes past `size` are left over from earlier          *)
(* payloads; only buffer[0..size) is ever transmitted (sendImpl writes     *)
(* std::span(packet.buffer.data(), packet.size)).                          *)
(*                                                                         *)
(* MAX_MTU is the constant MaxMtu, scaled down; bytes are a small set.     *)
(***************************************************************************)
EXTENDS Naturals, Sequences, SequencesExt

CONSTANTS
    MaxMtu,   \* MAX_MTU
    Bytes,    \* values of a uint8_t, abstracted
    Ids,      \* values given to the public field id
    Null      \* a null data pointer

ASSUME MaxMtu \in Nat \ {0} /\ 0 \in Bytes /\ 0 \in Ids

Index == 1..MaxMtu

\* A caller's source buffer, large enough for every len tried.
Sources == [1..MaxMtu + 1 -> Bytes]

VARIABLES
    id, size, buffer,
    payload   \* history: the data of the last successful setPayload

vars == <<id, size, buffer, payload>>

\* Packet::isValid()
IsValid == size > 0 /\ size <= MaxMtu

\* The bytes a sendImpl transmits.
Wire == [i \in 1..size |-> buffer[i]]

\* Packet{}: value-initialised.
Init ==
    /\ id = 0 /\ size = 0 /\ buffer = [i \in Index |-> 0]
    /\ payload = <<>>

\* Packet::clear()
Clear ==
    /\ id' = 0 /\ size' = 0 /\ buffer' = [i \in Index |-> 0]
    /\ payload' = <<>>

\* memcpy(buffer.data(), data, len): the first len bytes, the rest stays.
CopyIn(data, len) == [i \in Index |-> IF i <= len THEN data[i] ELSE buffer[i]]

\* Mutant: size is stored before the parameters are checked.
SetPayloadSizeFirst(data, len) ==
    /\ size' = len % 2^16
    /\ IF data = Null \/ len = 0 \/ len > MaxMtu
          THEN UNCHANGED <<id, buffer, payload>>
          ELSE /\ buffer' = CopyIn(data, len)
               /\ payload' = [i \in 1..len |-> data[i]]
               /\ UNCHANGED id

\* Mutant: the len > MAX_MTU check is missing.
SetPayloadNoMaxCheck(data, len) ==
    /\ data # Null /\ len # 0
    /\ size' = len % 2^16
    /\ buffer' = CopyIn(data, len)
    /\ payload' = [i \in 1..len |-> data[i]]
    /\ UNCHANGED id

\* Packet::setPayload(data, len). On a null pointer, an empty or an
\* oversized payload it returns false and writes nothing: a stuttering step.
SetPayload(data, len) ==
    /\ data # Null /\ len # 0 /\ len <= MaxMtu
    /\ size' = len % 2^16        \* static_cast<uint16_t>(len)
    /\ buffer' = CopyIn(data, len)
    /\ payload' = [i \in 1..len |-> data[i]]
    /\ UNCHANGED id

\* packet.id = ...: a public field, set by the application.
SetId(i) == id' = i /\ UNCHANGED <<size, buffer, payload>>

Next ==
    \/ Clear
    \/ \E i \in Ids : SetId(i)
    \/ \E data \in Sources \cup {Null}, len \in 0..MaxMtu + 1 :
          SetPayload(data, len)

Spec == Init /\ [][Next]_vars

-----------------------------------------------------------------------------
TypeOK ==
    /\ id \in Ids
    /\ size \in 0..MaxMtu
    /\ buffer \in [Index -> Bytes]
    /\ payload \in BoundedSeq(Bytes, MaxMtu)

\* Whatever sequence of clear / setPayload / id writes happened, a valid
\* packet transmits exactly the data of the last setPayload that returned
\* true, never left-over bytes of an earlier payload, and an invalid one
\* has had no successful setPayload since it was created or cleared.
PayloadIsLastWritten ==
    IF IsValid THEN Wire = payload ELSE payload = <<>>
=============================================================================
