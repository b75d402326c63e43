---------------------------- MODULE AuditDelivery ----------------------------
(***************************************************************************)
(* What the audit outbox promises: an event that a business transaction    *)
(* recorded is never lost, and in the end it stands in the audit trail or, *)
(* having failed, in the dead letters.                                     *)
(***************************************************************************)
CONSTANT Entries

VARIABLES
  recorded,   \* events whose business transaction committed
  archived,   \* events in the audit trail
  buried      \* events in the dead letters

vars == <<recorded, archived, buried>>

Init == recorded = {} /\ archived = {} /\ buried = {}

Record(e) ==
  /\ e \notin recorded
  /\ recorded' = recorded \cup {e}
  /\ UNCHANGED <<archived, buried>>

Archive(e) ==
  /\ e \in recorded
  /\ archived' = archived \cup {e}
  /\ UNCHANGED <<recorded, buried>>

Bury(e) ==
  /\ e \in recorded
  /\ buried' = buried \cup {e}
  /\ UNCHANGED <<recorded, archived>>

Next == \E e \in Entries : Record(e) \/ Archive(e) \/ Bury(e)

Settled(e) == e \in archived \cup buried

SafeSpec == Init /\ [][Next]_vars

Spec ==
  /\ SafeSpec
  /\ \A e \in Entries : e \in recorded ~> Settled(e)
=============================================================================
