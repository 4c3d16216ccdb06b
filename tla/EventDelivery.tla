---------------------------- MODULE EventDelivery ----------------------------
(***************************************************************************)
(* What the way of an event from the extension to the events table         *)
(* promises: of every background boot the table holds a prefix of the      *)
(* events it recorded, each once and in order.  An event may be missing    *)
(* only if all later ones of that boot are missing too.  Recorder.tla      *)
(* implements it.                                                          *)
(***************************************************************************)
EXTENDS Naturals, Sequences, FiniteSets

CONSTANT Boots

VARIABLES
    recorded,   \* events recorded by each boot so far, numbered from 1
    log         \* the events in the order they were stored

Stored(boot) == Cardinality({i \in DOMAIN log : log[i].boot = boot})

Init ==
    /\ recorded = [boot \in Boots |-> 0]
    /\ log = <<>>

Record(boot) ==
    /\ recorded' = [recorded EXCEPT ![boot] = recorded'[boot]]
    /\ recorded'[boot] \in {recorded[boot] + 1, recorded[boot] + 2}
    /\ UNCHANGED log

Store(boot) ==
    /\ Stored(boot) < recorded[boot]
    /\ log' = Append(log, [boot |-> boot, seq |-> Stored(boot) + 1])
    /\ UNCHANGED recorded

Next == \E boot \in Boots : Record(boot) \/ Store(boot)

Spec == Init /\ [][Next]_<<recorded, log>>
=============================================================================
