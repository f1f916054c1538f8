----------------------------- MODULE MCChannel ------------------------------
(* Three clients of one channel with room for none, one or two messages.   *)
(* The first offers two messages, the second one, the third only receives  *)
(* and closes; all call recv, try_recv and close as often as they like.    *)
EXTENDS Channel

CONSTANTS first, second, third

MCMaxSends == [c \in Clients |-> CASE c = first -> 2
                                   [] c = second -> 1
                                   [] c = third -> 0]

=============================================================================
