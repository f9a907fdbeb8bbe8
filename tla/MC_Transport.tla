---------------------------- MODULE MC_Transport ----------------------------
(* Model-checking instance of Transport: model values for threads,         *)
(* packets and handlers, small numeric bounds, and symmetry for the safety *)
(* runs.  The .cfg files choose the adapters and the bounds.                *)
EXTENDS Transport, TLC

CONSTANTS a1, a2, p1, p2, p3, d1, d2, e1

MCApps == {a1, a2}
MCApps1 == {a1}
MCPackets2 == {p1, p2}
MCPackets3 == {p1, p2, p3}
MCDataHandlers1 == {d1}
MCDataHandlers2 == {d1, d2}
MCErrorHandlers == {e1}

(* Packets, threads and handler objects are interchangeable model values;  *)
(* the properties compare them only for equality and by history order.    *)
MCSymmetry == Permutations(MCApps) \cup Permutations(MCPackets3)

\* The fingerprint without the history variable stale, which only
\* NothingSentFromBeforeStop reads: exact for the runs that do not check it.
MCViewNoStale ==
    <<adapter, sendQueue, threadState, isInit, sendDelay, dataCallback, errorCallback,
      mutexOwner, pending, w, appPc, lastResult, inbound, arrivals,
      linkFaults, used, bound, freed, sinceSent, accepted, sent, retried,
      reported, dropped, lost, discarded>>

=============================================================================
