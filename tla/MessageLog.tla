----------------------------- MODULE MessageLog -----------------------------
(***************************************************************************)
(* What an NvS channel promises its users, without saying how: a log of    *)
(* the messages it accepted, in the order it accepted them, of which a     *)
(* prefix has been received; messages it turned away, which are in neither *)
(* for ever; and a seal after which it accepts nothing more.               *)
(* Channel.tla is shown to implement this specification.                   *)
(***************************************************************************)
EXTENDS Naturals, Sequences

CONSTANTS Messages

VARIABLES
  room,       \* how many accepted messages may be waiting to be received
  accepted,   \* every message accepted so far, oldest first
  received,   \* the messages received so far, in the order of their receipt
  refused,    \* the messages the channel turned away
  sealed      \* nothing is accepted any more

vars == <<room, accepted, received, refused, sealed>>

Entries(log) == {log[i] : i \in DOMAIN log}

Init ==
  /\ room \in Nat
  /\ accepted = <<>>
  /\ received = <<>>
  /\ refused = {}
  /\ sealed = FALSE

(* The oldest message that has not been received yet in the log l. *)
Oldest(l) == l[Len(received) + 1]

Fresh(m) == m \notin Entries(accepted) /\ m \notin refused

Accept(m) ==
  /\ ~sealed /\ Fresh(m)
  /\ Len(accepted) < Len(received) + room
  /\ accepted' = Append(accepted, m)
  /\ UNCHANGED <<room, received, refused, sealed>>

Receive ==
  /\ Len(received) < Len(accepted)
  /\ received' = Append(received, Oldest(accepted))
  /\ UNCHANGED <<room, accepted, refused, sealed>>

(* A waiting sender's message enters the log as the oldest one leaves it:  *)
(* the rendezvous when the channel has no room at all, the refill of a     *)
(* full one otherwise.                                                     *)
HandOver(m) ==
  /\ ~sealed /\ Fresh(m)
  /\ accepted' = Append(accepted, m)
  /\ received' = Append(received, Oldest(accepted'))
  /\ UNCHANGED <<room, refused, sealed>>

Refuse(m) ==
  /\ Fresh(m)
  /\ refused' = refused \cup {m}
  /\ UNCHANGED <<room, accepted, received, sealed>>

(* Sealing turns away whoever was waiting to get a message in. *)
Seal(ms) ==
  /\ ~sealed
  /\ \A m \in ms : Fresh(m)
  /\ sealed' = TRUE
  /\ refused' = refused \cup ms
  /\ UNCHANGED <<room, accepted, received>>

Next ==
  \/ \E m \in Messages : Accept(m) \/ HandOver(m) \/ Refuse(m)
  \/ Receive
  \/ \E ms \in SUBSET Messages : Seal(ms)

Spec == Init /\ [][Next]_vars

=============================================================================
