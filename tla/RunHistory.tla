----------------------------- MODULE RunHistory -----------------------------
(***************************************************************************)
(* What the record of a run promises, whatever is retained in between: the *)
(* trace only grows, an outcome slot is decided once and for all, and the  *)
(* authoritative state moves only together with a decision to project and  *)
(* the entry of the trace that reports it.  Anything else that moves it    *)
(* comes from outside, and is counted.                                     *)
(***************************************************************************)
EXTENDS Contracts, Sequences

VARIABLES
  version,         \* of the authoritative state
  trace,           \* the entries reported so far
  slots,           \* per reserved slot, the decision published in it or None
  outside          \* how many times the version moved from outside

vars == <<version, trace, slots, outside>>

Init == version = 1 /\ trace = << >> /\ slots = << >> /\ outside = 0

(* Nothing reported is ever changed or withdrawn.                           *)
Grown ==
  /\ Len(trace') >= Len(trace)
  /\ \A i \in 1 .. Len(trace) : trace'[i] = trace[i]

Enter == Grown /\ UNCHANGED <<version, slots, outside>>

Reserve == slots' = Append(slots, None) /\ UNCHANGED <<version, trace, outside>>

Decide(i, decision) ==
  /\ slots[i] = None
  /\ slots' = [slots EXCEPT ![i] = decision]
  /\ Grown
  /\ \/ decision # "PROJECT" /\ UNCHANGED version
     \/ decision = "PROJECT" /\ version' = version + 1 /\ Len(trace') > Len(trace)
  /\ UNCHANGED outside

Outside == version' = version + 1 /\ outside' = outside + 1 /\ UNCHANGED <<trace, slots>>

Next ==
  \/ Enter \/ Reserve \/ Outside
  \/ \E i \in 1 .. Len(slots), decision \in Decision : Decide(i, decision)

Spec == Init /\ [][Next]_vars
=============================================================================
