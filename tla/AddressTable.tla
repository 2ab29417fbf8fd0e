---------------------------- MODULE AddressTable ----------------------------
(* What the virtual device driver promises of address ranges to callers that *)
(* use it at the same time: each call takes effect at one instant between    *)
(* its start and its answer. An allocation makes at most one range, of a     *)
(* handle nobody has; a free that is answered "ok" is the one free that took *)
(* the range away; data is read or written "ok" only in a range that is      *)
(* there. An allocation answered "ok" may have made no range: the driver     *)
(* reports that the bus was asked, not what it said.                         *)
CONSTANTS Apps, Handles, None

VARIABLES ranges, doing, outcome

vars == <<ranges, doing, outcome>>

Idle == [op |-> "none", h |-> None]
Lookups == {"GetAddressData", "SetAddressData"}

Init ==
  /\ ranges = {}
  /\ doing = [a \in Apps |-> Idle]
  /\ outcome = [a \in Apps |-> "none"]

Does(a, op) == doing[a].op = op

TakesEffect(a, result) ==
  /\ doing' = [doing EXCEPT ![a] = Idle]
  /\ outcome' = [outcome EXCEPT ![a] = result]

Call(a) ==
  /\ doing[a] = Idle /\ outcome[a] = "none"
  /\ \E op \in Lookups \cup {"AllocateAddressRange", "FreeAddressRange"},
        h \in Handles \cup {None} : doing' = [doing EXCEPT ![a] = [op |-> op, h |-> h]]
  /\ UNCHANGED <<ranges, outcome>>

Allocate(a) ==
  /\ Does(a, "AllocateAddressRange")
  /\ TakesEffect(a, "ok")
  /\ \/ \E h \in Handles \ ranges : ranges' = ranges \cup {h}
     \/ UNCHANGED ranges

Free(a) ==
  /\ Does(a, "FreeAddressRange") /\ doing[a].h \in ranges
  /\ TakesEffect(a, "ok")
  /\ ranges' = ranges \ {doing[a].h}

Lookup(a) ==
  /\ doing[a].op \in Lookups /\ doing[a].h \in ranges
  /\ TakesEffect(a, "ok")
  /\ UNCHANGED ranges

Fail(a) == doing[a] # Idle /\ TakesEffect(a, "failed") /\ UNCHANGED ranges

(* A call about something else has no effect on the ranges.                  *)
Other(a) ==
  /\ doing[a] = Idle
  /\ \E result \in {"ok", "failed"} : outcome' = [outcome EXCEPT ![a] = result]
  /\ UNCHANGED <<ranges, doing>>

Answer(a) ==
  /\ outcome[a] # "none"
  /\ outcome' = [outcome EXCEPT ![a] = "none"]
  /\ UNCHANGED <<ranges, doing>>

Next == \E a \in Apps : Call(a) \/ Allocate(a) \/ Free(a) \/ Lookup(a) \/ Fail(a)
                        \/ Other(a) \/ Answer(a)

Spec == Init /\ [][Next]_vars
=============================================================================
