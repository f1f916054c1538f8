--------------------------- MODULE ChannelProofs ----------------------------
(***************************************************************************)
(* The channel of Channel.tla, for any clients, capacities and numbers of  *)
(* messages: type correctness, no lost wakeup, honest replies, the end of  *)
(* a drained channel, the order of one sender's messages, and that the     *)
(* channel implements MessageLog.                                          *)
(***************************************************************************)
EXTENDS Channel, TLAPS

In(m, s) == \E i \in 1..Len(s) : s[i] = m

NoTwice(s) == \A i, j \in 1..Len(s) : s[i] = s[j] => i = j

Sending(c) == pc[c] \in {"send", "try_send", "sendq"}

(* Nobody is queued twice, whoever is queued is parked, and a message that *)
(* is queued is the one its sender is offering.                            *)
Queues ==
  /\ NoTwice(sendq) /\ NoTwice(recvq)
  /\ \A m \in Clients \X Nat : In(m, sendq) => m = Offer(Sender(m))
  /\ \A c \in Clients : /\ pc[c] = "sendq" <=> In(Offer(c), sendq)
                        /\ pc[c] = "recvq" <=> In(c, recvq)

(* The flag is set before the Go channel is closed, by the one client that *)
(* holds the mutex, and the Go channel is closed before it lets go.        *)
Closing ==
  /\ goClosed => closed /\ mu = NoClient
  /\ closed /\ ~goClosed => mu \in Clients
  /\ \A c \in Clients : pc[c] = "close" => mu = c /\ closed /\ ~goClosed

(* What was accepted was received, or is in the buffer, in order. *)
Accounts(a, r, b) ==
  /\ Len(a) = Len(r) + Len(b)
  /\ \A i \in 1..Len(r) : a[i] = r[i]
  /\ \A i \in 1..Len(b) : a[Len(r) + i] = b[i]

Ledger == Accounts(accepted, received, buf)

(* No message is younger than its sender's last offer; an offer whose send *)
(* has not returned is in no log; no message is accepted and refused.      *)
Fates ==
  /\ \A m \in Clients \X Nat : In(m, accepted) \/ m \in refused => m[2] <= offered[m[1]]
  /\ \A c \in Clients : Sending(c) =>
       /\ offered[c] \in 1..MaxSends[c]
       /\ ~In(Offer(c), accepted) /\ Offer(c) \notin refused
  /\ \A m \in refused : ~In(m, accepted)

(* One sender's messages are accepted in the order they were offered. *)
InOrder(s) ==
  \A i, j \in 1..Len(s) : i < j /\ s[i][1] = s[j][1] => s[i][2] < s[j][2]

Ordered == InOrder(accepted)

(* What the answers given so far say about the log. *)
Truthful ==
  \A c \in Clients :
    /\ reply[c].is = "sent" => In(reply[c].msg, accepted)
    /\ reply[c].is \in {"full", "closed_error"} => reply[c].msg \in refused \cup {NoMsg}
    /\ reply[c].is = "end" => goClosed /\ buf = <<>>

(* The inductive invariant: what the steps preserve together. *)
IInv ==
  /\ TypeOK /\ Queues /\ ParkedForAReason /\ Closing
  /\ Ledger /\ Fates /\ Ordered /\ Truthful

-----------------------------------------------------------------------------
(* The sequence t is s with e added at its end. *)
Grows(s, t, e) ==
  /\ Len(t) = Len(s) + 1 /\ t[Len(s) + 1] = e
  /\ \A i \in 1..Len(s) : t[i] = s[i]
  /\ \A m : In(m, t) <=> In(m, s) \/ m = e
  /\ NoTwice(s) /\ ~In(e, s) => NoTwice(t)

(* The sequence t is s without its first entry. *)
Shrinks(s, t) ==
  /\ Len(s) > 0 /\ Len(t) = Len(s) - 1 /\ In(s[1], s)
  /\ \A i \in 1..Len(t) : t[i] = s[i + 1]
  /\ NoTwice(s) => NoTwice(t) /\ \A m : In(m, t) <=> In(m, s) /\ m # s[1]

(* What Append does to the entries of a queue or a log. *)
LEMMA AppendGrows ==
  ASSUME NEW S, NEW s \in Seq(S), NEW e \in S
  PROVE  Append(s, e) \in Seq(S) /\ Grows(s, Append(s, e), e)
<1> DEFINE t == Append(s, e)
<1>1. /\ t \in Seq(S) /\ Len(t) = Len(s) + 1 /\ t[Len(s) + 1] = e
      /\ \A i \in 1..Len(s) : t[i] = s[i]
      /\ Len(s) \in Nat
  OBVIOUS
<1> HIDE DEF t
<1>2. \A m : In(m, t) <=> In(m, s) \/ m = e
  BY <1>1 DEF In
<1>3. NoTwice(s) /\ ~In(e, s) => NoTwice(t)
  BY <1>1 DEF In, NoTwice
<1>4. QED
  BY <1>1, <1>2, <1>3 DEF Grows, t

(* What Tail does to the entries of a queue. *)
LEMMA TailShrinks ==
  ASSUME NEW S, NEW s \in Seq(S), s # <<>>
  PROVE  /\ Head(s) = s[1] /\ s[1] \in S
         /\ Tail(s) \in Seq(S) /\ Shrinks(s, Tail(s))
<1> DEFINE t == Tail(s)
<1>1. /\ Head(s) = s[1] /\ s[1] \in S /\ t \in Seq(S)
      /\ Len(t) = Len(s) - 1 /\ Len(s) > 0 /\ Len(s) \in Nat
      /\ \A i \in 1..Len(t) : t[i] = s[i + 1]
  OBVIOUS
<1> HIDE DEF t
<1>2. In(s[1], s)
  BY <1>1 DEF In
<1>3. NoTwice(s) => NoTwice(t)
  BY <1>1 DEF NoTwice
<1>4. ASSUME NoTwice(s), NEW m PROVE In(m, t) <=> In(m, s) /\ m # s[1]
  <2>1. ASSUME In(m, t) PROVE In(m, s) /\ m # s[1]
    BY <1>1, <1>4, <2>1 DEF In, NoTwice
  <2>2. ASSUME In(m, s), m # s[1] PROVE In(m, t)
    <3>1. PICK i \in 1..Len(s) : s[i] = m
      BY <2>2 DEF In
    <3>2. i - 1 \in 1..Len(t) /\ t[i - 1] = m
      BY <1>1, <2>2, <3>1
    <3>3. QED
      BY <3>2 DEF In
  <2>3. QED
    BY <2>1, <2>2
<1>5. QED
  BY <1>1, <1>2, <1>3, <1>4 DEF Shrinks, t

(* A message accepted into the buffer keeps the account of accepted,       *)
(* received and buffered messages.                                         *)
LEMMA LedgerAccepts ==
  ASSUME NEW S, NEW a \in Seq(S), NEW a2 \in Seq(S), NEW r \in Seq(S),
         NEW b \in Seq(S), NEW b2 \in Seq(S), NEW e,
         Accounts(a, r, b), Grows(a, a2, e), Grows(b, b2, e)
  PROVE  Accounts(a2, r, b2)
<1>1. Len(a) \in Nat /\ Len(r) \in Nat /\ Len(b) \in Nat
  OBVIOUS
<1>2. ASSUME NEW i \in 1..Len(b2) PROVE a2[Len(r) + i] = b2[i]
  <2>1. CASE i \in 1..Len(b)
    <3>1. Len(r) + i \in 1..Len(a) /\ b2[i] = b[i] /\ a[Len(r) + i] = b[i]
      BY <1>1, <2>1 DEF Accounts, Grows
    <3>2. QED
      BY <3>1 DEF Grows
  <2>2. CASE i = Len(b) + 1
    <3>1. Len(r) + i = Len(a) + 1
      BY <1>1, <2>2 DEF Accounts
    <3>2. QED
      BY <2>2, <3>1 DEF Grows
  <2>3. QED
    BY <1>1, <2>1, <2>2 DEF Grows
<1>3. \A i \in 1..Len(r) : i \in 1..Len(a)
  BY <1>1 DEF Accounts
<1>4. QED
  BY <1>1, <1>2, <1>3 DEF Accounts, Grows

(* So does a receipt from the buffer, *)
LEMMA LedgerReceives ==
  ASSUME NEW S, NEW a \in Seq(S), NEW r \in Seq(S), NEW r2 \in Seq(S),
         NEW b \in Seq(S), NEW b2 \in Seq(S),
         Accounts(a, r, b), Shrinks(b, b2), Grows(r, r2, b[1])
  PROVE  Accounts(a, r2, b2)
<1>1. /\ Len(a) \in Nat /\ Len(r) \in Nat /\ Len(b) \in Nat
      /\ Len(b) > 0 /\ Len(r2) = Len(r) + 1 /\ Len(b2) = Len(b) - 1
      /\ Len(a) = Len(r) + Len(b)
  BY DEF Shrinks, Grows, Accounts
<1>2. ASSUME NEW i \in 1..Len(r2) PROVE a[i] = r2[i]
  <2>1. CASE i \in 1..Len(r)
    BY <2>1 DEF Accounts, Grows
  <2>2. CASE i = Len(r) + 1
    <3>1. 1 \in 1..Len(b)
      BY <1>1
    <3>2. a[Len(r) + 1] = b[1]
      BY <3>1 DEF Accounts
    <3>3. QED
      BY <2>2, <3>2 DEF Grows
  <2>3. QED
    BY <1>1, <2>1, <2>2
<1>3. ASSUME NEW i \in 1..Len(b2) PROVE a[Len(r2) + i] = b2[i]
  <2>1. i + 1 \in 1..Len(b) /\ Len(r2) + i = Len(r) + (i + 1)
    BY <1>1
  <2>2. a[Len(r) + (i + 1)] = b[i + 1] /\ b2[i] = b[i + 1]
    BY <2>1 DEF Accounts, Shrinks
  <2>3. QED
    BY <2>1, <2>2
<1>4. Len(a) = Len(r2) + Len(b2)
  BY <1>1
<1>5. (\A i \in 1..Len(r2) : a[i] = r2[i]) /\ (\A i \in 1..Len(b2) : a[Len(r2) + i] = b2[i])
  BY <1>2, <1>3
<1>6. QED
  BY <1>4, <1>5 DEF Accounts

(* and a message that passes from sender to receiver beside an empty one. *)
LEMMA LedgerPasses ==
  ASSUME NEW S, NEW a \in Seq(S), NEW a2 \in Seq(S), NEW r \in Seq(S),
         NEW r2 \in Seq(S), NEW e,
         Accounts(a, r, <<>>), Grows(a, a2, e), Grows(r, r2, e)
  PROVE  Accounts(a2, r2, <<>>)
<1>1. Len(a) \in Nat /\ Len(r) \in Nat /\ Len(a) = Len(r) /\ Len(<<>>) = 0
  BY DEF Accounts
<1>2. ASSUME NEW i \in 1..Len(r2) PROVE a2[i] = r2[i]
  <2>1. CASE i \in 1..Len(r)
    BY <1>1, <2>1 DEF Accounts, Grows
  <2>2. CASE i = Len(r) + 1
    BY <1>1, <2>2 DEF Grows
  <2>3. QED
    BY <1>1, <2>1, <2>2 DEF Grows
<1>3. QED
  BY <1>1, <1>2 DEF Accounts, Grows

(* Adding a sender's newest message to a log keeps the log in order. *)
LEMMA InOrderGrows ==
  ASSUME NEW S, NEW s \in Seq(S), NEW t \in Seq(S), NEW e,
         InOrder(s), Grows(s, t, e),
         \A i \in 1..Len(s) : s[i][1] = e[1] => s[i][2] < e[2]
  PROVE  InOrder(t)
<1>1. Len(s) \in Nat /\ Len(t) = Len(s) + 1
  BY DEF Grows
<1>2. ASSUME NEW i \in 1..Len(t), NEW j \in 1..Len(t), i < j, t[i][1] = t[j][1]
      PROVE  t[i][2] < t[j][2]
  <2>1. i \in 1..Len(s) /\ t[i] = s[i]
    BY <1>1, <1>2 DEF Grows
  <2>2. CASE j \in 1..Len(s)
    BY <1>2, <2>1, <2>2 DEF Grows, InOrder
  <2>3. CASE j = Len(s) + 1
    BY <1>2, <2>1, <2>3 DEF Grows
  <2>4. QED
    BY <1>1, <2>2, <2>3
<1>3. QED
  BY <1>2 DEF InOrder

(* The empty sequence has no entries, and is the only one of length zero. *)
LEMMA EmptyEntries ==
  /\ \A m : ~In(m, <<>>)
  /\ NoTwice(<<>>) /\ Len(<<>>) = 0
  /\ \A S : <<>> \in Seq(S)
  /\ \A S : \A s \in Seq(S) : Len(s) \in Nat /\ (Len(s) = 0 <=> s = <<>>)
BY DEF In, NoTwice

(* Parked collects the entries of a queue. *)
LEMMA ParkedEntries ==
  ASSUME NEW S, NEW s \in Seq(S)
  PROVE  \A m : m \in Parked(s) <=> In(m, s)
BY DEF Parked, In

-----------------------------------------------------------------------------
(* The steps of the channel as the proofs use them: one operator for each  *)
(* thing that can happen, with what it does to queues and logs.            *)

(* Clients c and s return, with the answers a and b. *)
Returned(c, a, s, b) ==
  /\ pc' = [d \in Clients |-> IF d = c \/ d = s THEN "idle" ELSE pc[d]]
  /\ reply' = [d \in Clients |-> IF d = c THEN a ELSE IF d = s THEN b ELSE reply[d]]

Call(c, op) ==
  /\ pc[c] = "idle" /\ offered[c] < MaxSends[c]
  /\ pc' = [pc EXCEPT ![c] = op]
  /\ offered' = [offered EXCEPT ![c] = @ + 1]
  /\ UNCHANGED <<chanVars, reply, histVars>>

TurnedAway(c) ==
  /\ pc[c] = "idle" /\ offered[c] < MaxSends[c]
  /\ offered' = [offered EXCEPT ![c] = @ + 1]
  /\ LET a == Answer("closed_error", <<c, offered[c] + 1>>) IN Returned(c, a, c, a)
  /\ refused' = refused \cup {<<c, offered[c] + 1>>}
  /\ UNCHANGED <<chanVars, accepted, received>>

Refusal(c, is) ==
  /\ pc[c] \in {"send", "try_send"}
  /\ Returned(c, Answer(is, Offer(c)), c, Answer(is, Offer(c)))
  /\ refused' = refused \cup {Offer(c)}
  /\ UNCHANGED <<chanVars, offered, accepted, received>>

Direct(c) ==
  /\ pc[c] \in {"send", "try_send"} /\ ~goClosed
  /\ recvq[1] \in Clients
  /\ Returned(c, Answer("sent", Offer(c)), recvq[1], Answer("received", Offer(c)))
  /\ recvq' \in Seq(Clients) /\ Shrinks(recvq, recvq') /\ recvq # <<>>
  /\ accepted' \in Seq(Clients \X Nat) /\ Grows(accepted, accepted', Offer(c))
  /\ received' \in Seq(Clients \X Nat) /\ Grows(received, received', Offer(c))
  /\ accepted' = Append(accepted, Offer(c)) /\ received' = Append(received, Offer(c))
  /\ UNCHANGED <<cap, closed, mu, goClosed, buf, sendq, offered, refused>>

Buffered(c) ==
  /\ pc[c] \in {"send", "try_send"} /\ ~goClosed
  /\ recvq = <<>> /\ Len(buf) < cap
  /\ Returned(c, Answer("sent", Offer(c)), c, Answer("sent", Offer(c)))
  /\ buf' \in Seq(Clients \X Nat) /\ Grows(buf, buf', Offer(c))
  /\ accepted' \in Seq(Clients \X Nat) /\ Grows(accepted, accepted', Offer(c))
  /\ accepted' = Append(accepted, Offer(c))
  /\ UNCHANGED <<cap, closed, mu, goClosed, sendq, recvq, offered, received, refused>>

SenderParked(c) ==
  /\ pc[c] = "send" /\ ~goClosed /\ recvq = <<>> /\ Len(buf) >= cap
  /\ pc' = [pc EXCEPT ![c] = "sendq"]
  /\ sendq' \in Seq(Clients \X Nat) /\ Grows(sendq, sendq', Offer(c))
  /\ UNCHANGED <<cap, closed, mu, goClosed, buf, recvq, offered, reply, histVars>>

Taken(c) ==
  /\ pc[c] = "idle" /\ sendq = <<>>
  /\ buf[1] \in Clients \X Nat
  /\ Returned(c, Answer("received", buf[1]), c, Answer("received", buf[1]))
  /\ buf' \in Seq(Clients \X Nat) /\ Shrinks(buf, buf')
  /\ received' \in Seq(Clients \X Nat) /\ Grows(received, received', buf[1])
  /\ received' = Append(received, buf[1])
  /\ UNCHANGED <<cap, closed, mu, goClosed, sendq, recvq, offered, accepted, refused>>

(* The client whose message is parked longest. *)
Longest == Sender(sendq[1])

Refilled(c) ==
  /\ pc[c] = "idle" /\ sendq # <<>> /\ buf # <<>>
  /\ buf[1] \in Clients \X Nat /\ Longest \in Clients /\ sendq[1] = Offer(Longest)
  /\ Returned(c, Answer("received", buf[1]), Longest, Answer("sent", Offer(Longest)))
  /\ sendq' \in Seq(Clients \X Nat) /\ Shrinks(sendq, sendq')
  /\ Tail(buf) \in Seq(Clients \X Nat) /\ Shrinks(buf, Tail(buf))
  /\ buf' \in Seq(Clients \X Nat) /\ Grows(Tail(buf), buf', Offer(Longest))
  /\ received' \in Seq(Clients \X Nat) /\ Grows(received, received', buf[1])
  /\ accepted' \in Seq(Clients \X Nat) /\ Grows(accepted, accepted', Offer(Longest))
  /\ received' = Append(received, buf[1]) /\ accepted' = Append(accepted, Offer(Longest))
  /\ UNCHANGED <<cap, closed, mu, goClosed, recvq, offered, refused>>

HandedOver(c) ==
  /\ pc[c] = "idle" /\ sendq # <<>> /\ buf = <<>>
  /\ Longest \in Clients /\ sendq[1] = Offer(Longest)
  /\ LET m == Offer(Longest)
     IN /\ Returned(c, Answer("received", m), Longest, Answer("sent", m))
        /\ received' \in Seq(Clients \X Nat) /\ Grows(received, received', m)
        /\ accepted' \in Seq(Clients \X Nat) /\ Grows(accepted, accepted', m)
        /\ received' = Append(received, m) /\ accepted' = Append(accepted, m)
  /\ sendq' \in Seq(Clients \X Nat) /\ Shrinks(sendq, sendq')
  /\ UNCHANGED <<cap, closed, mu, goClosed, buf, recvq, offered, refused>>

Nothing(c, is) ==
  /\ pc[c] = "idle" /\ buf = <<>> /\ (is = "end" => goClosed)
  /\ Returned(c, Answer(is, NoMsg), c, Answer(is, NoMsg))
  /\ UNCHANGED <<chanVars, offered, histVars>>

ReceiverParked(c) ==
  /\ pc[c] = "idle" /\ buf = <<>> /\ sendq = <<>> /\ ~goClosed
  /\ pc' = [pc EXCEPT ![c] = "recvq"]
  /\ recvq' \in Seq(Clients) /\ Grows(recvq, recvq', c)
  /\ UNCHANGED <<cap, closed, mu, goClosed, buf, sendq, offered, reply, histVars>>

ClosedAgain(c) ==
  /\ pc[c] = "idle"
  /\ Returned(c, Answer("closed_error", NoMsg), c, Answer("closed_error", NoMsg))
  /\ UNCHANGED <<chanVars, offered, histVars>>

FlagSet(c) ==
  /\ pc[c] = "idle" /\ mu = NoClient /\ ~closed
  /\ closed' = TRUE /\ mu' = c
  /\ pc' = [pc EXCEPT ![c] = "close"]
  /\ UNCHANGED <<cap, goClosed, buf, sendq, recvq, offered, reply, histVars>>

Shut(c) ==
  /\ pc[c] = "close" /\ goClosed' = TRUE /\ mu' = NoClient
  /\ pc' = [d \in Clients |->
              IF d = c \/ In(Offer(d), sendq) \/ In(d, recvq) THEN "idle" ELSE pc[d]]
  /\ reply' = [d \in Clients |->
                 IF d = c THEN Answer("closed", NoMsg)
                 ELSE IF In(Offer(d), sendq) THEN Answer("closed_error", Offer(d))
                 ELSE IF In(d, recvq) THEN Answer("end", NoMsg)
                 ELSE reply[d]]
  /\ \A m : m \in refused' <=> m \in refused \/ In(m, sendq)
  /\ refused' = refused \cup Parked(sendq)
  /\ sendq' = <<>> /\ recvq' = <<>>
  /\ UNCHANGED <<cap, closed, buf, offered, accepted, received>>

(* A builtin that wakes nobody returns alone. *)
LEMMA ReturnAlone ==
  ASSUME NEW c, NEW a, Return(c, a, Nobody)
  PROVE  Returned(c, a, c, a)
BY DEF Return, Nobody, Returned

(* A builtin that completes another's: both return. *)
LEMMA ReturnBoth ==
  ASSUME NEW c, NEW a, NEW s, NEW b, Return(c, a, Wake(s, b))
  PROVE  Returned(c, a, s, b)
BY DEF Return, Wake, Returned

(* An offer is a pair of its sender and a number. *)
LEMMA OfferType == ASSUME TypeOK, NEW c \in Clients PROVE Offer(c) \in Clients \X Nat
BY DEF TypeOK, Offer

(* Next takes only the steps listed above. *)
LEMMA StepCases ==
  ASSUME IInv, [Next]_vars
  PROVE  \/ UNCHANGED vars
         \/ \E c \in Clients :
              \/ \E op \in {"send", "try_send"} : Call(c, op)
              \/ \E is \in {"full", "closed_error"} : Refusal(c, is)
              \/ \E is \in {"end", "empty"} : Nothing(c, is)
              \/ TurnedAway(c) \/ Direct(c) \/ Buffered(c) \/ SenderParked(c)
              \/ Taken(c) \/ Refilled(c) \/ HandedOver(c) \/ ReceiverParked(c)
              \/ ClosedAgain(c) \/ FlagSet(c) \/ Shut(c)
<1>a. /\ sendq \in Seq(Clients \X Nat) /\ recvq \in Seq(Clients)
      /\ buf \in Seq(Clients \X Nat)
      /\ accepted \in Seq(Clients \X Nat) /\ received \in Seq(Clients \X Nat)
      /\ \A c \in Clients : Offer(c) \in Clients \X Nat /\ Sender(Offer(c)) = c
      /\ \A m \in Clients \X Nat : In(m, sendq) => m = Offer(Sender(m))
  BY OfferType DEF IInv, TypeOK, Queues, Offer, Sender
<1>b. ASSUME sendq # <<>>
      PROVE  /\ Head(sendq) = sendq[1] /\ Longest \in Clients /\ sendq[1] = Offer(Longest)
             /\ Tail(sendq) \in Seq(Clients \X Nat) /\ Shrinks(sendq, Tail(sendq))
  <2>1. /\ Head(sendq) = sendq[1] /\ sendq[1] \in Clients \X Nat
        /\ Tail(sendq) \in Seq(Clients \X Nat) /\ Shrinks(sendq, Tail(sendq))
    BY <1>a, <1>b, TailShrinks
  <2>2. In(sendq[1], sendq)
    BY <2>1 DEF Shrinks
  <2>3. QED
    BY <1>a, <2>1, <2>2 DEF Longest, Sender
<1>1. ASSUME NEW c \in Clients, NEW op \in {"send", "try_send"}, CheckOpen(c, op)
      PROVE  Call(c, op) \/ TurnedAway(c)
  <2>1. CASE closed
    <3>1. LET a == Answer("closed_error", <<c, offered[c] + 1>>) IN Returned(c, a, c, a)
      BY <1>1, <2>1, ReturnAlone DEF CheckOpen
    <3>2. QED
      BY <1>1, <2>1, <3>1 DEF CheckOpen, TurnedAway
  <2>2. CASE ~closed
    BY <1>1, <2>2 DEF CheckOpen, Call, histVars
  <2>3. QED
    BY <2>1, <2>2
<1>2. ASSUME NEW c \in Clients, SendOnClosed(c) PROVE Refusal(c, "closed_error")
  BY <1>2, ReturnAlone DEF SendOnClosed, Refusal
<1>3. ASSUME NEW c \in Clients, TrySendFull(c) PROVE Refusal(c, "full")
  BY <1>3, ReturnAlone DEF TrySendFull, Refusal
<1>4. ASSUME NEW c \in Clients, SendToReceiver(c) PROVE Direct(c)
  <2>1. /\ Head(recvq) = recvq[1] /\ recvq[1] \in Clients
        /\ Tail(recvq) \in Seq(Clients) /\ Shrinks(recvq, Tail(recvq))
    BY <1>a, <1>4, TailShrinks DEF SendToReceiver
  <2>2. Returned(c, Answer("sent", Offer(c)), recvq[1], Answer("received", Offer(c)))
    BY <1>4, <2>1, ReturnBoth DEF SendToReceiver
  <2>3. /\ Append(accepted, Offer(c)) \in Seq(Clients \X Nat)
        /\ Grows(accepted, Append(accepted, Offer(c)), Offer(c))
        /\ Append(received, Offer(c)) \in Seq(Clients \X Nat)
        /\ Grows(received, Append(received, Offer(c)), Offer(c))
    BY <1>a, AppendGrows
  <2>4. QED
    BY <1>4, <2>1, <2>2, <2>3 DEF SendToReceiver, Direct
<1>5. ASSUME NEW c \in Clients, SendToBuffer(c) PROVE Buffered(c)
  <2>1. Returned(c, Answer("sent", Offer(c)), c, Answer("sent", Offer(c)))
    BY <1>5, ReturnAlone DEF SendToBuffer
  <2>2. /\ Append(accepted, Offer(c)) \in Seq(Clients \X Nat)
        /\ Grows(accepted, Append(accepted, Offer(c)), Offer(c))
        /\ Append(buf, Offer(c)) \in Seq(Clients \X Nat)
        /\ Grows(buf, Append(buf, Offer(c)), Offer(c))
    BY <1>a, AppendGrows
  <2>3. QED
    BY <1>5, <2>1, <2>2 DEF SendToBuffer, Buffered
<1>6. ASSUME NEW c \in Clients, SendParks(c) PROVE SenderParked(c)
  <2>1. /\ Append(sendq, Offer(c)) \in Seq(Clients \X Nat)
        /\ Grows(sendq, Append(sendq, Offer(c)), Offer(c))
    BY <1>a, AppendGrows
  <2>2. QED
    BY <1>6, <2>1 DEF SendParks, SenderParked
<1>7. ASSUME NEW c \in Clients, RecvFromBuffer(c) PROVE Taken(c) \/ Refilled(c)
  <2>1. /\ Head(buf) = buf[1] /\ buf[1] \in Clients \X Nat
        /\ Tail(buf) \in Seq(Clients \X Nat) /\ Shrinks(buf, Tail(buf))
    BY <1>a, <1>7, TailShrinks DEF RecvFromBuffer
  <2>2. /\ Append(received, buf[1]) \in Seq(Clients \X Nat)
        /\ Grows(received, Append(received, buf[1]), buf[1])
    BY <1>a, <2>1, AppendGrows
  <2>3. CASE sendq = <<>>
    <3>1. Returned(c, Answer("received", buf[1]), c, Answer("received", buf[1]))
      BY <1>7, <2>1, <2>3, ReturnAlone DEF RecvFromBuffer
    <3>2. QED
      BY <1>7, <2>1, <2>2, <2>3, <3>1 DEF RecvFromBuffer, Taken
  <2>4. CASE sendq # <<>>
    <3>1. /\ Head(sendq) = Offer(Longest) /\ Sender(Head(sendq)) = Longest /\ Longest \in Clients
          /\ Tail(sendq) \in Seq(Clients \X Nat) /\ Shrinks(sendq, Tail(sendq))
          /\ sendq[1] = Offer(Longest)
      BY <1>b, <2>4 DEF Longest
    <3>2. Returned(c, Answer("received", buf[1]), Longest, Answer("sent", Offer(Longest)))
      BY <1>7, <2>1, <2>4, <3>1, ReturnBoth DEF RecvFromBuffer
    <3>3. /\ Append(accepted, Offer(Longest)) \in Seq(Clients \X Nat)
          /\ Grows(accepted, Append(accepted, Offer(Longest)), Offer(Longest))
          /\ Append(Tail(buf), Offer(Longest)) \in Seq(Clients \X Nat)
          /\ Grows(Tail(buf), Append(Tail(buf), Offer(Longest)), Offer(Longest))
      BY <1>a, <2>1, <3>1, AppendGrows
    <3>4. buf' = Append(Tail(buf), Offer(Longest))
      BY <1>7, <2>4, <3>1 DEF RecvFromBuffer
    <3>5. QED
      BY <1>7, <2>1, <2>2, <2>4, <3>1, <3>2, <3>3, <3>4
         DEF RecvFromBuffer, Refilled
  <2>5. QED
    BY <2>3, <2>4
<1>8. ASSUME NEW c \in Clients, RecvFromSender(c) PROVE HandedOver(c)
  <2>1. /\ Head(sendq) = Offer(Longest) /\ Sender(Head(sendq)) = Longest /\ Longest \in Clients
        /\ Tail(sendq) \in Seq(Clients \X Nat) /\ Shrinks(sendq, Tail(sendq))
        /\ sendq[1] = Offer(Longest)
    BY <1>b, <1>8 DEF RecvFromSender, Longest
  <2> DEFINE m == Offer(Longest)
  <2>2. Returned(c, Answer("received", m), Longest, Answer("sent", m))
    BY <1>8, <2>1, ReturnBoth DEF RecvFromSender
  <2>3. /\ Append(accepted, m) \in Seq(Clients \X Nat)
        /\ Grows(accepted, Append(accepted, m), m)
        /\ Append(received, m) \in Seq(Clients \X Nat)
        /\ Grows(received, Append(received, m), m)
    BY <1>a, <2>1, AppendGrows
  <2>4. QED
    BY <1>8, <2>1, <2>2, <2>3 DEF RecvFromSender, HandedOver
<1>9. ASSUME NEW c \in Clients, RecvEnd(c) PROVE Nothing(c, "end")
  BY <1>9, ReturnAlone DEF RecvEnd, Nothing
<1>10. ASSUME NEW c \in Clients, TryRecvEmpty(c) PROVE Nothing(c, "empty")
  BY <1>10, ReturnAlone DEF TryRecvEmpty, Nothing
<1>11. ASSUME NEW c \in Clients, RecvParks(c) PROVE ReceiverParked(c)
  <2>1. Append(recvq, c) \in Seq(Clients) /\ Grows(recvq, Append(recvq, c), c)
    BY <1>a, AppendGrows
  <2>2. QED
    BY <1>11, <2>1 DEF RecvParks, ReceiverParked
<1>12. ASSUME NEW c \in Clients, CloseFlag(c) PROVE ClosedAgain(c) \/ FlagSet(c)
  <2>1. CASE closed
    <3>1. Returned(c, Answer("closed_error", NoMsg), c, Answer("closed_error", NoMsg))
      BY <1>12, <2>1, ReturnAlone DEF CloseFlag
    <3>2. QED
      BY <1>12, <2>1, <3>1 DEF CloseFlag, ClosedAgain, chanVars
  <2>2. CASE ~closed
    BY <1>12, <2>2 DEF CloseFlag, FlagSet
  <2>3. QED
    BY <2>1, <2>2
<1>13. ASSUME NEW c \in Clients, CloseGo(c) PROVE Shut(c)
  <2> DEFINE senders == {Sender(m) : m \in Parked(sendq)}
  <2>1. /\ \A m : m \in Parked(sendq) <=> In(m, sendq)
        /\ \A d : d \in Parked(recvq) <=> In(d, recvq)
    BY <1>a, ParkedEntries
  <2>a. \A m : In(m, sendq) => m \in Clients \X Nat
    BY <1>a DEF In
  <2>2. \A d \in Clients : d \in senders <=> In(Offer(d), sendq)
    <3>1. ASSUME NEW d \in Clients, d \in senders PROVE In(Offer(d), sendq)
      <4>1. PICK m \in Parked(sendq) : d = Sender(m)
        BY <3>1
      <4>2. QED
        BY <1>a, <2>1, <2>a, <4>1
    <3>2. ASSUME NEW d \in Clients, In(Offer(d), sendq) PROVE d \in senders
      BY <1>a, <2>1, <3>2
    <3>3. QED
      BY <3>1, <3>2
  <2> HIDE DEF senders
  <2>3. Return(c, Answer("closed", NoMsg),
               [d \in senders \cup Parked(recvq) |->
                  IF d \in senders THEN Answer("closed_error", Offer(d))
                                   ELSE Answer("end", NoMsg)])
    BY <1>13 DEF CloseGo, senders
  <2>4. /\ pc' = [d \in Clients |->
                    IF d = c \/ In(Offer(d), sendq) \/ In(d, recvq) THEN "idle" ELSE pc[d]]
        /\ reply' = [d \in Clients |->
                       IF d = c THEN Answer("closed", NoMsg)
                       ELSE IF In(Offer(d), sendq) THEN Answer("closed_error", Offer(d))
                       ELSE IF In(d, recvq) THEN Answer("end", NoMsg)
                       ELSE reply[d]]
    BY <2>1, <2>2, <2>3 DEF Return
  <2>5. \A m : m \in refused' <=> m \in refused \/ In(m, sendq)
    BY <1>13, <2>1 DEF CloseGo
  <2>6. QED
    BY <1>13, <2>4, <2>5 DEF CloseGo, Shut
<1>14. QED
  BY <1>1, <1>2, <1>3, <1>4, <1>5, <1>6, <1>7, <1>8, <1>9, <1>10, <1>11, <1>12, <1>13
     DEF Next, Attempt, Receive

-----------------------------------------------------------------------------
(* The initial states satisfy the invariant. *)
LEMMA Initialization == Init => IInv
<1> SUFFICES ASSUME Init PROVE IInv
  OBVIOUS
<1>1. TypeOK
  <2>1. reply \in [Clients -> [is : Answers, msg : (Clients \X Nat) \cup {NoMsg}]]
    BY DEF Init, Answers, Answer
  <2>2. /\ buf \in Seq(Clients \X Nat) /\ sendq \in Seq(Clients \X Nat) /\ recvq \in Seq(Clients)
        /\ accepted \in Seq(Clients \X Nat) /\ received \in Seq(Clients \X Nat)
        /\ cap \in Capacities /\ Len(buf) <= cap
    BY ChannelAssumption, EmptyEntries DEF Init
  <2>3. /\ pc \in [Clients -> Steps] /\ offered \in [Clients -> Nat]
        /\ closed \in BOOLEAN /\ goClosed \in BOOLEAN /\ mu \in Clients \cup {NoClient}
        /\ refused \subseteq Clients \X Nat
    BY DEF Init, Steps
  <2>4. QED
    BY <2>1, <2>2, <2>3 DEF TypeOK
<1>2. Queues /\ ParkedForAReason /\ Closing
  BY EmptyEntries DEF Init, Queues, ParkedForAReason, Closing
<1>3. Ledger /\ Ordered
  BY EmptyEntries DEF Init, Ledger, Accounts, Ordered, InOrder
<1>4. Fates /\ Truthful
  BY EmptyEntries DEF Init, Fates, Truthful, Sending, Answer
<1>5. QED
  BY <1>1, <1>2, <1>3, <1>4 DEF IInv

(* Every step keeps every variable within its type. *)
LEMMA TypeStep == IInv /\ [Next]_vars => TypeOK'
<1> SUFFICES ASSUME IInv, [Next]_vars PROVE TypeOK'
  OBVIOUS
<1>a. /\ cap \in Nat /\ cap \in Capacities
      /\ closed \in BOOLEAN /\ goClosed \in BOOLEAN
      /\ mu \in Clients \cup {NoClient}
      /\ pc \in [Clients -> Steps]
      /\ offered \in [Clients -> Nat]
      /\ reply \in [Clients -> [is : Answers, msg : (Clients \X Nat) \cup {NoMsg}]]
      /\ sendq \in Seq(Clients \X Nat) /\ recvq \in Seq(Clients)
      /\ buf \in Seq(Clients \X Nat) /\ Len(buf) <= cap
      /\ accepted \in Seq(Clients \X Nat) /\ received \in Seq(Clients \X Nat)
      /\ refused \subseteq Clients \X Nat
      /\ \A d \in Clients : Offer(d) \in Clients \X Nat
      /\ Len(buf) \in Nat /\ Len(accepted) \in Nat /\ Len(received) \in Nat
  BY OfferType, ChannelAssumption, EmptyEntries DEF IInv, TypeOK
<1>1. ASSUME NEW c \in Clients, NEW op \in {"send", "try_send"}, Call(c, op)
   PROVE TypeOK'
  <2>1. pc' \in [Clients -> Steps] /\ offered' \in [Clients -> Nat]
    BY <1>a, <1>1 DEF Call, Steps
  <2>2. UNCHANGED <<chanVars, reply, histVars>>
    BY <1>1 DEF Call
  <2>3. QED
    BY <1>a, <2>1, <2>2 DEF chanVars, histVars, TypeOK
<1>2. ASSUME NEW c \in Clients, TurnedAway(c) PROVE TypeOK'
  <2> DEFINE a == Answer("closed_error", <<c, offered[c] + 1>>)
  <2>1. a \in [is : Answers, msg : (Clients \X Nat) \cup {NoMsg}]
    BY <1>a DEF Answer, Answers
  <2>2. pc' \in [Clients -> Steps] /\ offered' \in [Clients -> Nat]
    BY <1>a, <1>2 DEF TurnedAway, Returned, Steps
  <2>3. reply' \in [Clients -> [is : Answers, msg : (Clients \X Nat) \cup {NoMsg}]]
    BY <1>a, <1>2, <2>1 DEF TurnedAway, Returned
  <2>4. /\ refused' \subseteq Clients \X Nat
        /\ UNCHANGED <<chanVars, accepted, received>>
    BY <1>a, <1>2 DEF TurnedAway
  <2>5. QED
    BY <1>a, <2>2, <2>3, <2>4 DEF chanVars, TypeOK
<1>3. ASSUME NEW c \in Clients, NEW is \in {"full", "closed_error"},
   Refusal(c, is) PROVE TypeOK'
  BY <1>a, <1>3, ChannelAssumption DEF Refusal, Returned, Answer, chanVars,
     TypeOK, Steps, Answers
<1>4. ASSUME NEW c \in Clients, Direct(c) PROVE TypeOK'
  BY <1>a, <1>4, ChannelAssumption DEF Direct, Returned, Answer, Grows,
     Shrinks, TypeOK, Steps, Answers
<1>5. ASSUME NEW c \in Clients, Buffered(c) PROVE TypeOK'
  <2>1. buf' \in Seq(Clients \X Nat) /\ Len(buf') <= cap'
    BY <1>a, <1>5 DEF Buffered, Grows, Shrinks
  <2>2. /\ pc' \in [Clients -> Steps]
        /\ reply' \in [Clients -> [is : Answers, msg : (Clients \X Nat) \cup {NoMsg}]]
    BY <1>a, <1>5 DEF Buffered, Returned, Answer, Answers, Steps
  <2>3. QED
    BY <1>a, <1>5, <2>1, <2>2 DEF Buffered, TypeOK
<1>6. ASSUME NEW c \in Clients, SenderParked(c) PROVE TypeOK'
  BY <1>a, <1>6, ChannelAssumption DEF SenderParked, histVars, Grows, TypeOK,
     Steps, Answers
<1>7. ASSUME NEW c \in Clients, Taken(c) PROVE TypeOK'
  <2>1. buf' \in Seq(Clients \X Nat) /\ Len(buf') <= cap'
    BY <1>a, <1>7 DEF Taken, Grows, Shrinks
  <2>2. /\ pc' \in [Clients -> Steps]
        /\ reply' \in [Clients -> [is : Answers, msg : (Clients \X Nat) \cup {NoMsg}]]
    BY <1>a, <1>7 DEF Taken, Returned, Answer, Answers, Steps
  <2>3. QED
    BY <1>a, <1>7, <2>1, <2>2 DEF Taken, TypeOK
<1>8. ASSUME NEW c \in Clients, Refilled(c) PROVE TypeOK'
  <2>1. buf' \in Seq(Clients \X Nat) /\ Len(buf') <= cap'
    BY <1>a, <1>8 DEF Refilled, Grows, Shrinks
  <2>2. /\ pc' \in [Clients -> Steps]
        /\ reply' \in [Clients -> [is : Answers, msg : (Clients \X Nat) \cup {NoMsg}]]
    BY <1>a, <1>8 DEF Refilled, Returned, Answer, Answers, Steps
  <2>3. QED
    BY <1>a, <1>8, <2>1, <2>2 DEF Refilled, TypeOK
<1>9. ASSUME NEW c \in Clients, HandedOver(c) PROVE TypeOK'
  BY <1>a, <1>9, ChannelAssumption DEF HandedOver, Returned, Answer, Grows,
     Shrinks, TypeOK, Steps, Answers
<1>10. ASSUME NEW c \in Clients, NEW is \in {"end", "empty"}, Nothing(c, is)
   PROVE TypeOK'
  BY <1>a, <1>10, ChannelAssumption DEF Nothing, Returned, Answer, chanVars,
     histVars, TypeOK, Steps, Answers
<1>11. ASSUME NEW c \in Clients, ReceiverParked(c) PROVE TypeOK'
  BY <1>a, <1>11, ChannelAssumption DEF ReceiverParked, histVars, Grows,
     TypeOK, Steps, Answers
<1>12. ASSUME NEW c \in Clients, ClosedAgain(c) PROVE TypeOK'
  BY <1>a, <1>12, ChannelAssumption DEF ClosedAgain, Returned, Answer,
     chanVars, histVars, TypeOK, Steps, Answers
<1>13. ASSUME NEW c \in Clients, FlagSet(c) PROVE TypeOK'
  BY <1>a, <1>13, ChannelAssumption DEF FlagSet, histVars, TypeOK, Steps,
     Answers
<1>14. ASSUME NEW c \in Clients, Shut(c) PROVE TypeOK'
  <2>1. pc' \in [Clients -> Steps]
    BY <1>a, <1>14 DEF Shut, Steps
  <2>2. reply' \in [Clients -> [is : Answers, msg : (Clients \X Nat) \cup {NoMsg}]]
    BY <1>a, <1>14 DEF Shut, Answer, Answers
  <2>3. ASSUME NEW m \in refused' PROVE m \in Clients \X Nat
    <3>1. m \in refused \/ In(m, sendq)
      BY <1>14, <2>3 DEF Shut
    <3>2. QED
      BY <1>a, <3>1 DEF In
  <2>4. /\ sendq' \in Seq(Clients \X Nat) /\ recvq' \in Seq(Clients)
        /\ mu' \in Clients \cup {NoClient} /\ goClosed' \in BOOLEAN
    BY <1>14, EmptyEntries DEF Shut
  <2>5. UNCHANGED <<cap, closed, buf, offered, accepted, received>>
    BY <1>14 DEF Shut
  <2>6. QED
    BY <1>a, <2>1, <2>2, <2>3, <2>4, <2>5 DEF TypeOK
<1>15. CASE UNCHANGED vars
  BY <1>a, <1>15 DEF vars, TypeOK, Steps, Answers
<1>16. QED
  BY StepCases, <1>1, <1>2, <1>3, <1>4, <1>5, <1>6, <1>7, <1>8, <1>9, <1>10,
     <1>11, <1>12, <1>13, <1>14, <1>15 DEF IInv

(* A client that is not queued may offer its next message. *)
LEMMA QueuesOffer ==
  ASSUME IInv, NEW c \in Clients, pc[c] = "idle",
         offered' = [offered EXCEPT ![c] = @ + 1], UNCHANGED <<sendq, recvq>>,
         \A d \in Clients : /\ pc'[d] = "sendq" <=> pc[d] = "sendq"
                            /\ pc'[d] = "recvq" <=> pc[d] = "recvq"
  PROVE  Queues'
<1>a. /\ sendq \in Seq(Clients \X Nat) /\ offered \in [Clients -> Nat] /\ Queues
      /\ \A d \in Clients : Offer(d) \in Clients \X Nat /\ Sender(Offer(d)) = d
  BY OfferType DEF IInv, TypeOK, Offer, Sender
<1>1. ASSUME NEW m \in Clients \X Nat, In(m, sendq) PROVE Sender(m) # c
  BY <1>a, <1>1 DEF Queues
<1>2. /\ Offer(c)' \in Clients \X Nat /\ Sender(Offer(c)') = c
      /\ \A d \in Clients : d # c => Offer(d)' = Offer(d)
  BY <1>a DEF Offer, Sender
<1>3. ~In(Offer(c)', sendq) /\ ~In(Offer(c), sendq)
  BY <1>a, <1>1, <1>2
<1>4. ASSUME NEW m \in Clients \X Nat, In(m, sendq) PROVE m = Offer(Sender(m))'
  <2>1. Sender(m) \in Clients /\ m = Offer(Sender(m))
    BY <1>a, <1>4 DEF Queues, Sender
  <2>2. QED
    BY <1>1, <1>2, <1>4, <2>1
<1>5. \A d \in Clients : pc'[d] = "sendq" <=> In(Offer(d)', sendq)
  BY <1>a, <1>2, <1>3 DEF Queues
<1>6. QED
  BY <1>a, <1>4, <1>5 DEF Queues

(* A sender that is served leaves the queue, alone. *)
LEMMA QueuesServe ==
  ASSUME IInv, sendq # <<>>, Longest \in Clients, sendq[1] = Offer(Longest),
         Shrinks(sendq, sendq'), UNCHANGED <<offered, recvq>>,
         NEW c \in Clients, pc[c] = "idle",
         pc' = [d \in Clients |-> IF d = c \/ d = Longest THEN "idle" ELSE pc[d]]
  PROVE  Queues'
<1>a. /\ Queues /\ \A d : Offer(d)' = Offer(d)
      /\ \A d \in Clients : Offer(d) \in Clients \X Nat /\ Sender(Offer(d)) = d
  BY OfferType DEF IInv, Offer, Sender
<1>1. /\ NoTwice(sendq') /\ In(Offer(Longest), sendq)
      /\ \A m : In(m, sendq') <=> In(m, sendq) /\ m # Offer(Longest)
  BY <1>a DEF Queues, Shrinks
<1>2. pc[Longest] = "sendq"
  BY <1>a, <1>1 DEF Queues
<1>3. ASSUME NEW d \in Clients PROVE pc'[d] = "sendq" <=> In(Offer(d), sendq')
  <2>1. CASE d = Longest
    BY <1>1, <2>1
  <2>2. CASE d # Longest
    <3>1. Offer(d) # Offer(Longest)
      BY <1>a, <2>2
    <3>2. QED
      BY <1>a, <1>1, <2>2, <3>1 DEF Queues
  <2>3. QED
    BY <2>1, <2>2
<1>4. \A d \in Clients : pc'[d] = "recvq" <=> In(d, recvq)
  BY <1>a, <1>2 DEF Queues
<1>5. \A m \in Clients \X Nat : In(m, sendq') => m = Offer(Sender(m))
  BY <1>a, <1>1 DEF Queues
<1>6. QED
  BY <1>a, <1>1, <1>3, <1>4, <1>5 DEF Queues

(* A client is queued once, and exactly while it is parked. *)
LEMMA QueuesStep == IInv /\ [Next]_vars => Queues'
<1> SUFFICES ASSUME IInv, [Next]_vars PROVE Queues'
  OBVIOUS
<1>a. /\ pc \in [Clients -> Steps]
      /\ sendq \in Seq(Clients \X Nat) /\ recvq \in Seq(Clients)
      /\ Queues
      /\ \A d \in Clients : Offer(d) \in Clients \X Nat /\ Sender(Offer(d)) = d
  BY OfferType DEF IInv, TypeOK, Offer, Sender
<1>b. ASSUME offered' = offered PROVE \A d : Offer(d)' = Offer(d)
  BY <1>b DEF Offer
<1>1. ASSUME NEW c \in Clients, NEW op \in {"send", "try_send"}, Call(c, op)
   PROVE Queues'
  BY <1>a, <1>1, QueuesOffer DEF Call, chanVars
<1>2. ASSUME NEW c \in Clients, TurnedAway(c) PROVE Queues'
  BY <1>a, <1>2, QueuesOffer DEF TurnedAway, Returned, chanVars
<1>3. ASSUME NEW c \in Clients, NEW is \in {"full", "closed_error"},
   Refusal(c, is) PROVE Queues'
  BY <1>a, <1>b, <1>3 DEF Refusal, Returned, chanVars, Queues
<1>4. ASSUME NEW c \in Clients, Direct(c) PROVE Queues'
  <2>1. /\ UNCHANGED <<offered, sendq>> /\ NoTwice(recvq') /\ In(recvq[1], recvq)
        /\ recvq[1] \in Clients /\ \A d : In(d, recvq') <=> In(d, recvq) /\ d # recvq[1]
        /\ pc' = [d \in Clients |-> IF d = c \/ d = recvq[1] THEN "idle" ELSE pc[d]]
        /\ pc[c] \notin {"sendq", "recvq"}
    BY <1>a, <1>4 DEF Direct, Returned, Shrinks, Queues
  <2>2. pc[recvq[1]] = "recvq"
    BY <1>a, <2>1 DEF Queues
  <2>3. \A d \in Clients : pc'[d] = "recvq" <=> In(d, recvq')
    BY <1>a, <2>1 DEF Queues
  <2>4. \A d \in Clients : pc'[d] = "sendq" <=> In(Offer(d), sendq)
    BY <1>a, <2>1, <2>2 DEF Queues
  <2>5. QED
    BY <1>a, <1>b, <2>1, <2>3, <2>4 DEF Queues
<1>5. ASSUME NEW c \in Clients, Buffered(c) PROVE Queues'
  <2>1. /\ UNCHANGED <<offered, sendq, recvq>> /\ pc[c] \notin {"sendq", "recvq"}
        /\ pc' = [d \in Clients |-> IF d = c THEN "idle" ELSE pc[d]]
    BY <1>5 DEF Buffered, Returned
  <2>2. QED
    BY <1>a, <1>b, <2>1 DEF Queues
<1>6. ASSUME NEW c \in Clients, SenderParked(c) PROVE Queues'
  BY <1>a, <1>b, <1>6 DEF SenderParked, Grows, Queues
<1>7. ASSUME NEW c \in Clients, Taken(c) PROVE Queues'
  BY <1>a, <1>b, <1>7 DEF Taken, Returned, Grows, Shrinks, Queues
<1>8. ASSUME NEW c \in Clients, Refilled(c) PROVE Queues'
  BY <1>8, QueuesServe DEF Refilled, Returned
<1>9. ASSUME NEW c \in Clients, HandedOver(c) PROVE Queues'
  BY <1>9, QueuesServe DEF HandedOver, Returned
<1>10. ASSUME NEW c \in Clients, NEW is \in {"end", "empty"}, Nothing(c, is)
   PROVE Queues'
  BY <1>a, <1>b, <1>10 DEF Nothing, Returned, chanVars, Queues
<1>11. ASSUME NEW c \in Clients, ReceiverParked(c) PROVE Queues'
  BY <1>a, <1>b, <1>11 DEF ReceiverParked, Grows, Queues
<1>12. ASSUME NEW c \in Clients, ClosedAgain(c) PROVE Queues'
  BY <1>a, <1>b, <1>12 DEF ClosedAgain, Returned, chanVars, Queues
<1>13. ASSUME NEW c \in Clients, FlagSet(c) PROVE Queues'
  BY <1>a, <1>b, <1>13 DEF FlagSet, Queues
<1>14. ASSUME NEW c \in Clients, Shut(c) PROVE Queues'
  BY <1>a, <1>b, <1>14, EmptyEntries DEF Shut, Queues
<1>15. CASE UNCHANGED vars
  BY <1>a, <1>b, <1>15 DEF vars, Queues
<1>16. QED
  BY StepCases, <1>1, <1>2, <1>3, <1>4, <1>5, <1>6, <1>7, <1>8, <1>9, <1>10,
     <1>11, <1>12, <1>13, <1>14, <1>15 DEF IInv

(* Nobody parks without a reason, and whoever parks is woken when it is gone. *)
LEMMA ParkedStep == IInv /\ [Next]_vars => ParkedForAReason'
<1> SUFFICES ASSUME IInv, [Next]_vars PROVE ParkedForAReason'
  OBVIOUS
<1>a. /\ cap \in Nat
      /\ pc \in [Clients -> Steps]
      /\ sendq \in Seq(Clients \X Nat) /\ recvq \in Seq(Clients)
      /\ buf \in Seq(Clients \X Nat) /\ Len(buf) <= cap
      /\ Queues
      /\ ParkedForAReason
      /\ Closing
  BY ChannelAssumption DEF IInv, TypeOK
<1>1. ASSUME NEW c \in Clients, NEW op \in {"send", "try_send"}, Call(c, op)
   PROVE ParkedForAReason'
  BY <1>a, <1>1 DEF Call, chanVars, ParkedForAReason, Closing
<1>2. ASSUME NEW c \in Clients, TurnedAway(c) PROVE ParkedForAReason'
  BY <1>a, <1>2 DEF TurnedAway, Returned, chanVars, ParkedForAReason, Closing
<1>3. ASSUME NEW c \in Clients, NEW is \in {"full", "closed_error"},
   Refusal(c, is) PROVE ParkedForAReason'
  BY <1>a, <1>3 DEF Refusal, Returned, chanVars, ParkedForAReason, Closing
<1>4. ASSUME NEW c \in Clients, Direct(c) PROVE ParkedForAReason'
  BY <1>a, <1>4 DEF Direct, Returned, Grows, Shrinks, ParkedForAReason,
     Closing
<1>5. ASSUME NEW c \in Clients, Buffered(c) PROVE ParkedForAReason'
  BY <1>a, <1>5 DEF Buffered, Returned, Grows, ParkedForAReason, Closing
<1>6. ASSUME NEW c \in Clients, SenderParked(c) PROVE ParkedForAReason'
  BY <1>a, <1>6, ChannelAssumption DEF SenderParked, ParkedForAReason, Closing
<1>7. ASSUME NEW c \in Clients, Taken(c) PROVE ParkedForAReason'
  BY <1>a, <1>7 DEF Taken, Returned, Grows, Shrinks, ParkedForAReason, Closing
<1>8. ASSUME NEW c \in Clients, Refilled(c) PROVE ParkedForAReason'
  BY <1>a, <1>8 DEF Refilled, Returned, Grows, Shrinks, ParkedForAReason,
     Closing
<1>9. ASSUME NEW c \in Clients, HandedOver(c) PROVE ParkedForAReason'
  BY <1>a, <1>9 DEF HandedOver, Returned, Grows, Shrinks, ParkedForAReason,
     Closing
<1>10. ASSUME NEW c \in Clients, NEW is \in {"end", "empty"}, Nothing(c, is)
   PROVE ParkedForAReason'
  BY <1>a, <1>10 DEF Nothing, Returned, chanVars, ParkedForAReason, Closing
<1>11. ASSUME NEW c \in Clients, ReceiverParked(c) PROVE ParkedForAReason'
  BY <1>a, <1>11, ChannelAssumption DEF ReceiverParked, ParkedForAReason, Closing
<1>12. ASSUME NEW c \in Clients, ClosedAgain(c) PROVE ParkedForAReason'
  BY <1>a, <1>12 DEF ClosedAgain, Returned, chanVars, ParkedForAReason,
     Closing
<1>13. ASSUME NEW c \in Clients, FlagSet(c) PROVE ParkedForAReason'
  BY <1>a, <1>13, ChannelAssumption DEF FlagSet, ParkedForAReason, Closing
<1>14. ASSUME NEW c \in Clients, Shut(c) PROVE ParkedForAReason'
  BY <1>a, <1>14 DEF Shut, ParkedForAReason, Closing
<1>15. CASE UNCHANGED vars
  BY <1>a, <1>15 DEF vars, ParkedForAReason, Closing
<1>16. QED
  BY StepCases, <1>1, <1>2, <1>3, <1>4, <1>5, <1>6, <1>7, <1>8, <1>9, <1>10,
     <1>11, <1>12, <1>13, <1>14, <1>15 DEF IInv

(* The flag is set first, by one client at a time. *)
LEMMA ClosingStep == IInv /\ [Next]_vars => Closing'
<1> SUFFICES ASSUME IInv, [Next]_vars PROVE Closing'
  OBVIOUS
<1>a. /\ pc \in [Clients -> Steps]
      /\ mu \in Clients \cup {NoClient}
      /\ closed \in BOOLEAN /\ goClosed \in BOOLEAN
      /\ Closing
  BY DEF IInv, TypeOK
<1>1. ASSUME NEW c \in Clients, NEW op \in {"send", "try_send"}, Call(c, op)
   PROVE Closing'
  BY <1>a, <1>1 DEF Call, chanVars, Closing
<1>2. ASSUME NEW c \in Clients, TurnedAway(c) PROVE Closing'
  BY <1>a, <1>2 DEF TurnedAway, Returned, chanVars, Closing
<1>3. ASSUME NEW c \in Clients, NEW is \in {"full", "closed_error"},
   Refusal(c, is) PROVE Closing'
  BY <1>a, <1>3 DEF Refusal, Returned, chanVars, Closing
<1>4. ASSUME NEW c \in Clients, Direct(c) PROVE Closing'
  BY <1>a, <1>4 DEF Direct, Returned, Closing
<1>5. ASSUME NEW c \in Clients, Buffered(c) PROVE Closing'
  BY <1>a, <1>5 DEF Buffered, Returned, Closing
<1>6. ASSUME NEW c \in Clients, SenderParked(c) PROVE Closing'
  BY <1>a, <1>6 DEF SenderParked, Closing
<1>7. ASSUME NEW c \in Clients, Taken(c) PROVE Closing'
  BY <1>a, <1>7 DEF Taken, Returned, Closing
<1>8. ASSUME NEW c \in Clients, Refilled(c) PROVE Closing'
  BY <1>a, <1>8 DEF Refilled, Returned, Closing
<1>9. ASSUME NEW c \in Clients, HandedOver(c) PROVE Closing'
  BY <1>a, <1>9 DEF HandedOver, Returned, Closing
<1>10. ASSUME NEW c \in Clients, NEW is \in {"end", "empty"}, Nothing(c, is)
   PROVE Closing'
  BY <1>a, <1>10 DEF Nothing, Returned, chanVars, Closing
<1>11. ASSUME NEW c \in Clients, ReceiverParked(c) PROVE Closing'
  BY <1>a, <1>11 DEF ReceiverParked, Closing
<1>12. ASSUME NEW c \in Clients, ClosedAgain(c) PROVE Closing'
  BY <1>a, <1>12 DEF ClosedAgain, Returned, chanVars, Closing
<1>13. ASSUME NEW c \in Clients, FlagSet(c) PROVE Closing'
  BY <1>a, <1>13, ChannelAssumption DEF FlagSet, Closing
<1>14. ASSUME NEW c \in Clients, Shut(c) PROVE Closing'
  BY <1>a, <1>14, ChannelAssumption DEF Shut, Closing
<1>15. CASE UNCHANGED vars
  BY <1>a, <1>15 DEF vars, Closing
<1>16. QED
  BY StepCases, <1>1, <1>2, <1>3, <1>4, <1>5, <1>6, <1>7, <1>8, <1>9, <1>10,
     <1>11, <1>12, <1>13, <1>14, <1>15 DEF IInv

(* No message is lost, repeated or overtaken between acceptance and receipt. *)
LEMMA LedgerStep == IInv /\ [Next]_vars => Ledger'
<1> SUFFICES ASSUME IInv, [Next]_vars PROVE Ledger'
  OBVIOUS
<1>a. /\ sendq \in Seq(Clients \X Nat) /\ recvq \in Seq(Clients)
      /\ buf \in Seq(Clients \X Nat) /\ Len(buf) <= cap
      /\ accepted \in Seq(Clients \X Nat) /\ received \in Seq(Clients \X Nat)
      /\ Ledger
      /\ ParkedForAReason
  BY DEF IInv, TypeOK
<1>1. ASSUME NEW c \in Clients, NEW op \in {"send", "try_send"}, Call(c, op)
   PROVE Ledger'
  BY <1>a, <1>1 DEF Call, chanVars, histVars, Ledger
<1>2. ASSUME NEW c \in Clients, TurnedAway(c) PROVE Ledger'
  BY <1>a, <1>2 DEF TurnedAway, chanVars, Ledger
<1>3. ASSUME NEW c \in Clients, NEW is \in {"full", "closed_error"},
   Refusal(c, is) PROVE Ledger'
  BY <1>a, <1>3 DEF Refusal, chanVars, Ledger
<1>4. ASSUME NEW c \in Clients, Direct(c) PROVE Ledger'
  <2> DEFINE e == Offer(c)
  <2>1. buf = <<>> /\ buf' = <<>>
    BY <1>a, <1>4, EmptyEntries DEF Direct, ParkedForAReason
  <2>2. /\ accepted' \in Seq(Clients \X Nat) /\ received' \in Seq(Clients \X Nat)
        /\ Grows(accepted, accepted', e) /\ Grows(received, received', e)
    BY <1>4 DEF Direct
  <2>3. Accounts(accepted, received, <<>>)
    BY <1>a, <2>1 DEF Ledger
  <2> HIDE DEF e
  <2>4. Accounts(accepted', received', <<>>)
    BY <1>a, <2>2, <2>3, LedgerPasses
  <2>5. QED
    BY <2>1, <2>4 DEF Ledger
<1>5. ASSUME NEW c \in Clients, Buffered(c) PROVE Ledger'
  BY <1>a, <1>5, LedgerAccepts DEF Buffered, Ledger
<1>6. ASSUME NEW c \in Clients, SenderParked(c) PROVE Ledger'
  BY <1>a, <1>6 DEF SenderParked, histVars, Ledger
<1>7. ASSUME NEW c \in Clients, Taken(c) PROVE Ledger'
  BY <1>a, <1>7, LedgerReceives DEF Taken, Ledger
<1>8. ASSUME NEW c \in Clients, Refilled(c) PROVE Ledger'
  <2>1. Accounts(accepted, received', Tail(buf))
    BY <1>a, <1>8, LedgerReceives DEF Refilled, Ledger
  <2> DEFINE e == Offer(Longest)
  <2>2. /\ accepted' \in Seq(Clients \X Nat) /\ received' \in Seq(Clients \X Nat)
        /\ Tail(buf) \in Seq(Clients \X Nat) /\ buf' \in Seq(Clients \X Nat)
        /\ Grows(accepted, accepted', e) /\ Grows(Tail(buf), buf', e)
    BY <1>8 DEF Refilled
  <2> HIDE DEF e
  <2>3. Accounts(accepted', received', buf')
    BY <1>a, <2>1, <2>2, LedgerAccepts
  <2>4. QED
    BY <2>3 DEF Ledger
<1>9. ASSUME NEW c \in Clients, HandedOver(c) PROVE Ledger'
  <2> DEFINE e == Offer(Longest)
  <2>1. buf = <<>> /\ buf' = <<>>
    BY <1>a, <1>9, EmptyEntries DEF HandedOver, ParkedForAReason
  <2>2. /\ accepted' \in Seq(Clients \X Nat) /\ received' \in Seq(Clients \X Nat)
        /\ Grows(accepted, accepted', e) /\ Grows(received, received', e)
    BY <1>9 DEF HandedOver
  <2>3. Accounts(accepted, received, <<>>)
    BY <1>a, <2>1 DEF Ledger
  <2> HIDE DEF e
  <2>4. Accounts(accepted', received', <<>>)
    BY <1>a, <2>2, <2>3, LedgerPasses
  <2>5. QED
    BY <2>1, <2>4 DEF Ledger
<1>10. ASSUME NEW c \in Clients, NEW is \in {"end", "empty"}, Nothing(c, is)
   PROVE Ledger'
  BY <1>a, <1>10 DEF Nothing, chanVars, histVars, Ledger
<1>11. ASSUME NEW c \in Clients, ReceiverParked(c) PROVE Ledger'
  BY <1>a, <1>11 DEF ReceiverParked, histVars, Ledger
<1>12. ASSUME NEW c \in Clients, ClosedAgain(c) PROVE Ledger'
  BY <1>a, <1>12 DEF ClosedAgain, chanVars, histVars, Ledger
<1>13. ASSUME NEW c \in Clients, FlagSet(c) PROVE Ledger'
  BY <1>a, <1>13 DEF FlagSet, histVars, Ledger
<1>14. ASSUME NEW c \in Clients, Shut(c) PROVE Ledger'
  BY <1>a, <1>14 DEF Shut, Ledger
<1>15. CASE UNCHANGED vars
  BY <1>a, <1>15 DEF vars, Ledger
<1>16. QED
  BY StepCases, <1>1, <1>2, <1>3, <1>4, <1>5, <1>6, <1>7, <1>8, <1>9, <1>10,
     <1>11, <1>12, <1>13, <1>14, <1>15 DEF IInv

(* No message has two fates. *)
LEMMA FatesStep == IInv /\ [Next]_vars => Fates'
<1> SUFFICES ASSUME IInv, [Next]_vars PROVE Fates'
  OBVIOUS
<1>a. /\ pc \in [Clients -> Steps]
      /\ offered \in [Clients -> Nat]
      /\ sendq \in Seq(Clients \X Nat) /\ recvq \in Seq(Clients)
      /\ buf \in Seq(Clients \X Nat) /\ Len(buf) <= cap
      /\ accepted \in Seq(Clients \X Nat) /\ received \in Seq(Clients \X Nat)
      /\ refused \subseteq Clients \X Nat
      /\ MaxSends \in [Clients -> Nat]
      /\ Queues
      /\ Fates
      /\ \A d \in Clients : Offer(d) \in Clients \X Nat /\ Offer(d)[1] = d /\ Offer(d)[2] = offered[d]
  BY OfferType, ChannelAssumption DEF IInv, TypeOK, Offer
<1>1. ASSUME NEW c \in Clients, NEW op \in {"send", "try_send"}, Call(c, op)
   PROVE Fates'
  <2>1. /\ offered' = [offered EXCEPT ![c] = @ + 1] /\ offered[c] < MaxSends[c]
        /\ accepted' = accepted /\ refused' = refused
        /\ \A d \in Clients : d # c => (Sending(d)' <=> Sending(d))
    BY <1>a, <1>1 DEF Call, histVars, Sending
  <2>2. /\ Offer(c)' \in Clients \X Nat /\ Offer(c)'[1] = c /\ Offer(c)'[2] = offered[c] + 1
        /\ \A d \in Clients : d # c => Offer(d)' = Offer(d)
    BY <1>a, <2>1 DEF Offer
  <2>3. \A m \in Clients \X Nat : In(m, accepted') \/ m \in refused' => m[2] <= offered'[m[1]]
    BY <1>a, <2>1 DEF Fates
  <2>4. ~In(Offer(c)', accepted) /\ Offer(c)' \notin refused
    <3> SUFFICES ASSUME In(Offer(c)', accepted) \/ Offer(c)' \in refused PROVE FALSE
      OBVIOUS
    <3>1. Offer(c)'[2] <= offered[Offer(c)'[1]]
      BY <1>a, <2>2 DEF Fates
    <3>2. QED
      BY <1>a, <2>2, <3>1
  <2>5. ASSUME NEW d \in Clients, Sending(d)'
        PROVE  offered'[d] \in 1..MaxSends[d] /\ ~In(Offer(d)', accepted') /\ Offer(d)' \notin refused'
    <3>1. CASE d = c
      BY <1>a, <2>1, <2>4, <3>1
    <3>2. CASE d # c
      BY <1>a, <2>1, <2>2, <2>5, <3>2 DEF Fates
    <3>3. QED
      BY <3>1, <3>2
  <2>6. QED
    BY <1>a, <2>1, <2>3, <2>5 DEF Fates
<1>2. ASSUME NEW c \in Clients, TurnedAway(c) PROVE Fates'
  <2> DEFINE e == <<c, offered[c] + 1>>
  <2>1. /\ offered' = [offered EXCEPT ![c] = @ + 1]
        /\ accepted' = accepted /\ refused' = refused \cup {e}
        /\ ~Sending(c)' /\ \A d \in Clients : d # c => (Sending(d)' <=> Sending(d))
    BY <1>a, <1>2 DEF TurnedAway, Returned, Sending
  <2>2. \A d \in Clients : d # c => Offer(d)' = Offer(d) /\ Offer(d) # e
    BY <1>a, <2>1 DEF Offer
  <2>3. e \in Clients \X Nat /\ e[1] = c /\ e[2] = offered[c] + 1
    BY <1>a
  <2>4. ~In(e, accepted)
    BY <1>a, <2>3 DEF Fates
  <2> HIDE DEF e
  <2>5. \A m \in Clients \X Nat : In(m, accepted') \/ m \in refused' => m[2] <= offered'[m[1]]
    BY <1>a, <2>1, <2>3 DEF Fates
  <2>6. ASSUME NEW d \in Clients, Sending(d)'
        PROVE  offered'[d] \in 1..MaxSends[d] /\ ~In(Offer(d)', accepted') /\ Offer(d)' \notin refused'
    BY <1>a, <2>1, <2>2, <2>6 DEF Fates
  <2>7. \A m \in refused' : ~In(m, accepted')
    BY <1>a, <2>1, <2>4 DEF Fates
  <2>8. QED
    BY <2>5, <2>6, <2>7 DEF Fates
<1>3. ASSUME NEW c \in Clients, NEW is \in {"full", "closed_error"},
   Refusal(c, is) PROVE Fates'
  BY <1>a, <1>3 DEF Refusal, Returned, chanVars, Fates, Queues, Sending, Offer
<1>4. ASSUME NEW c \in Clients, Direct(c) PROVE Fates'
  <2>1. \A d \in Clients : Offer(d)' = Offer(d)
    BY <1>a, <1>4 DEF Direct, Offer
  <2>2. Sending(c) /\ c \in Clients /\ pc'[c] = "idle"
    BY <1>a, <1>4 DEF Direct, Shrinks, Queues, Sending, Returned
  <2>3. \A m : In(m, accepted') <=> In(m, accepted) \/ m = Offer(c)
    BY <1>4 DEF Direct, Grows
  <2>4. refused' = refused /\ offered' = offered
    BY <1>4 DEF Direct
  <2>5. \A m \in Clients \X Nat : In(m, accepted') \/ m \in refused' => m[2] <= offered'[m[1]]
    <3>1. TAKE m \in Clients \X Nat
    <3>2. CASE m = Offer(c)
      BY <1>a, <2>2, <2>4, <3>2
    <3>3. CASE m # Offer(c)
      BY <1>a, <2>3, <2>4, <3>3 DEF Fates
    <3>4. QED
      BY <3>2, <3>3
  <2>6. ASSUME NEW d \in Clients, Sending(d)'
        PROVE  offered'[d] \in 1..MaxSends[d] /\ ~In(Offer(d)', accepted') /\ Offer(d)' \notin refused'
    <3>1. Sending(d) /\ d # c
      BY <1>a, <1>4, <2>2, <2>6 DEF Direct, Returned, Sending
    <3>2. Offer(d) # Offer(c)
      BY <1>a, <2>2, <3>1
    <3>3. QED
      BY <1>a, <2>1, <2>3, <2>4, <3>1, <3>2 DEF Fates
  <2>7. \A m \in refused' : ~In(m, accepted')
    BY <1>a, <2>2, <2>3, <2>4 DEF Fates
  <2>8. QED
    BY <2>5, <2>6, <2>7 DEF Fates
<1>5. ASSUME NEW c \in Clients, Buffered(c) PROVE Fates'
  <2>1. \A d \in Clients : Offer(d)' = Offer(d)
    BY <1>a, <1>5 DEF Buffered, Offer
  <2>2. Sending(c) /\ c \in Clients /\ pc'[c] = "idle"
    BY <1>a, <1>5 DEF Buffered, Shrinks, Queues, Sending, Returned
  <2>3. \A m : In(m, accepted') <=> In(m, accepted) \/ m = Offer(c)
    BY <1>5 DEF Buffered, Grows
  <2>4. refused' = refused /\ offered' = offered
    BY <1>5 DEF Buffered
  <2>5. \A m \in Clients \X Nat : In(m, accepted') \/ m \in refused' => m[2] <= offered'[m[1]]
    <3>1. TAKE m \in Clients \X Nat
    <3>2. CASE m = Offer(c)
      BY <1>a, <2>2, <2>4, <3>2
    <3>3. CASE m # Offer(c)
      BY <1>a, <2>3, <2>4, <3>3 DEF Fates
    <3>4. QED
      BY <3>2, <3>3
  <2>6. ASSUME NEW d \in Clients, Sending(d)'
        PROVE  offered'[d] \in 1..MaxSends[d] /\ ~In(Offer(d)', accepted') /\ Offer(d)' \notin refused'
    <3>1. Sending(d) /\ d # c
      BY <1>a, <1>5, <2>2, <2>6 DEF Buffered, Returned, Sending
    <3>2. Offer(d) # Offer(c)
      BY <1>a, <2>2, <3>1
    <3>3. QED
      BY <1>a, <2>1, <2>3, <2>4, <3>1, <3>2 DEF Fates
  <2>7. \A m \in refused' : ~In(m, accepted')
    BY <1>a, <2>2, <2>3, <2>4 DEF Fates
  <2>8. QED
    BY <2>5, <2>6, <2>7 DEF Fates
<1>6. ASSUME NEW c \in Clients, SenderParked(c) PROVE Fates'
  BY <1>a, <1>6 DEF SenderParked, histVars, Fates, Queues, Sending, Offer
<1>7. ASSUME NEW c \in Clients, Taken(c) PROVE Fates'
  BY <1>a, <1>7 DEF Taken, Returned, Fates, Queues, Sending, Offer
<1>8. ASSUME NEW c \in Clients, Refilled(c) PROVE Fates'
  <2>1. \A d \in Clients : Offer(d)' = Offer(d)
    BY <1>a, <1>8 DEF Refilled, Offer
  <2>2. Sending(Longest) /\ Longest \in Clients /\ pc'[Longest] = "idle"
    BY <1>a, <1>8 DEF Refilled, Shrinks, Queues, Sending, Returned
  <2>3. \A m : In(m, accepted') <=> In(m, accepted) \/ m = Offer(Longest)
    BY <1>8 DEF Refilled, Grows
  <2>4. refused' = refused /\ offered' = offered
    BY <1>8 DEF Refilled
  <2>5. \A m \in Clients \X Nat : In(m, accepted') \/ m \in refused' => m[2] <= offered'[m[1]]
    <3>1. TAKE m \in Clients \X Nat
    <3>2. CASE m = Offer(Longest)
      BY <1>a, <2>2, <2>4, <3>2
    <3>3. CASE m # Offer(Longest)
      BY <1>a, <2>3, <2>4, <3>3 DEF Fates
    <3>4. QED
      BY <3>2, <3>3
  <2>6. ASSUME NEW d \in Clients, Sending(d)'
        PROVE  offered'[d] \in 1..MaxSends[d] /\ ~In(Offer(d)', accepted') /\ Offer(d)' \notin refused'
    <3>1. Sending(d) /\ d # Longest
      BY <1>a, <1>8, <2>2, <2>6 DEF Refilled, Returned, Sending
    <3>2. Offer(d) # Offer(Longest)
      BY <1>a, <2>2, <3>1
    <3>3. QED
      BY <1>a, <2>1, <2>3, <2>4, <3>1, <3>2 DEF Fates
  <2>7. \A m \in refused' : ~In(m, accepted')
    BY <1>a, <2>2, <2>3, <2>4 DEF Fates
  <2>8. QED
    BY <2>5, <2>6, <2>7 DEF Fates
<1>9. ASSUME NEW c \in Clients, HandedOver(c) PROVE Fates'
  <2>1. \A d \in Clients : Offer(d)' = Offer(d)
    BY <1>a, <1>9 DEF HandedOver, Offer
  <2>2. Sending(Longest) /\ Longest \in Clients /\ pc'[Longest] = "idle"
    BY <1>a, <1>9 DEF HandedOver, Shrinks, Queues, Sending, Returned
  <2>3. \A m : In(m, accepted') <=> In(m, accepted) \/ m = Offer(Longest)
    BY <1>9 DEF HandedOver, Grows
  <2>4. refused' = refused /\ offered' = offered
    BY <1>9 DEF HandedOver
  <2>5. \A m \in Clients \X Nat : In(m, accepted') \/ m \in refused' => m[2] <= offered'[m[1]]
    <3>1. TAKE m \in Clients \X Nat
    <3>2. CASE m = Offer(Longest)
      BY <1>a, <2>2, <2>4, <3>2
    <3>3. CASE m # Offer(Longest)
      BY <1>a, <2>3, <2>4, <3>3 DEF Fates
    <3>4. QED
      BY <3>2, <3>3
  <2>6. ASSUME NEW d \in Clients, Sending(d)'
        PROVE  offered'[d] \in 1..MaxSends[d] /\ ~In(Offer(d)', accepted') /\ Offer(d)' \notin refused'
    <3>1. Sending(d) /\ d # Longest
      BY <1>a, <1>9, <2>2, <2>6 DEF HandedOver, Returned, Sending
    <3>2. Offer(d) # Offer(Longest)
      BY <1>a, <2>2, <3>1
    <3>3. QED
      BY <1>a, <2>1, <2>3, <2>4, <3>1, <3>2 DEF Fates
  <2>7. \A m \in refused' : ~In(m, accepted')
    BY <1>a, <2>2, <2>3, <2>4 DEF Fates
  <2>8. QED
    BY <2>5, <2>6, <2>7 DEF Fates
<1>10. ASSUME NEW c \in Clients, NEW is \in {"end", "empty"}, Nothing(c, is)
   PROVE Fates'
  BY <1>a, <1>10 DEF Nothing, Returned, chanVars, histVars, Fates, Queues,
     Sending, Offer
<1>11. ASSUME NEW c \in Clients, ReceiverParked(c) PROVE Fates'
  BY <1>a, <1>11 DEF ReceiverParked, histVars, Fates, Queues, Sending, Offer
<1>12. ASSUME NEW c \in Clients, ClosedAgain(c) PROVE Fates'
  BY <1>a, <1>12 DEF ClosedAgain, Returned, chanVars, histVars, Fates, Queues,
     Sending, Offer
<1>13. ASSUME NEW c \in Clients, FlagSet(c) PROVE Fates'
  BY <1>a, <1>13 DEF FlagSet, histVars, Fates, Queues, Sending, Offer
<1>14. ASSUME NEW c \in Clients, Shut(c) PROVE Fates'
  <2>1. /\ \A m : m \in refused' <=> m \in refused \/ In(m, sendq)
        /\ UNCHANGED <<accepted, offered>>
        /\ pc' = [d \in Clients |->
                    IF d = c \/ In(Offer(d), sendq) \/ In(d, recvq) THEN "idle" ELSE pc[d]]
    BY <1>14 DEF Shut
  <2>2. \A d : Offer(d)' = Offer(d)
    BY <2>1 DEF Offer
  <2>3. ASSUME NEW m, In(m, sendq)
        PROVE  m \in Clients \X Nat /\ m[2] <= offered[m[1]] /\ ~In(m, accepted)
    <3>1. m \in Clients \X Nat
      BY <1>a, <2>3 DEF In
    <3>2. m = Offer(m[1]) /\ m[1] \in Clients
      BY <1>a, <2>3, <3>1 DEF Queues, Sender
    <3>3. Sending(m[1]) /\ m[2] = offered[m[1]]
      BY <1>a, <2>3, <3>2 DEF Queues, Sending
    <3>4. QED
      BY <1>a, <3>1, <3>2, <3>3 DEF Fates
  <2>4. \A m \in Clients \X Nat : In(m, accepted') \/ m \in refused' => m[2] <= offered'[m[1]]
    BY <1>a, <2>1, <2>3 DEF Fates
  <2>5. ASSUME NEW d \in Clients, Sending(d)'
        PROVE  offered'[d] \in 1..MaxSends[d] /\ ~In(Offer(d)', accepted') /\ Offer(d)' \notin refused'
    <3>1. Sending(d) /\ ~In(Offer(d), sendq)
      BY <1>a, <2>1, <2>5 DEF Sending
    <3>2. QED
      BY <1>a, <2>1, <2>2, <3>1 DEF Fates
  <2>6. \A m \in refused' : ~In(m, accepted')
    BY <1>a, <2>1, <2>3 DEF Fates
  <2>7. QED
    BY <2>4, <2>5, <2>6 DEF Fates
<1>15. CASE UNCHANGED vars
  BY <1>a, <1>15 DEF vars, Fates, Queues, Sending, Offer
<1>16. QED
  BY StepCases, <1>1, <1>2, <1>3, <1>4, <1>5, <1>6, <1>7, <1>8, <1>9, <1>10,
     <1>11, <1>12, <1>13, <1>14, <1>15 DEF IInv

(* A message is accepted after its sender's earlier ones. *)
LEMMA OrderedStep == IInv /\ [Next]_vars => Ordered'
<1> SUFFICES ASSUME IInv, [Next]_vars PROVE Ordered'
  OBVIOUS
<1>a. /\ pc \in [Clients -> Steps]
      /\ offered \in [Clients -> Nat]
      /\ sendq \in Seq(Clients \X Nat) /\ recvq \in Seq(Clients)
      /\ accepted \in Seq(Clients \X Nat) /\ received \in Seq(Clients \X Nat)
      /\ Len(accepted) \in Nat
      /\ Queues
      /\ Fates
      /\ Ordered
      /\ \A d \in Clients : Offer(d) \in Clients \X Nat /\ Offer(d)[1] = d /\ Offer(d)[2] = offered[d]
  BY OfferType, EmptyEntries DEF IInv, TypeOK, Offer
<1>1. ASSUME NEW c \in Clients, NEW op \in {"send", "try_send"}, Call(c, op)
   PROVE Ordered'
  BY <1>a, <1>1 DEF Call, chanVars, histVars, Ordered
<1>2. ASSUME NEW c \in Clients, TurnedAway(c) PROVE Ordered'
  BY <1>a, <1>2 DEF TurnedAway, chanVars, Ordered
<1>3. ASSUME NEW c \in Clients, NEW is \in {"full", "closed_error"},
   Refusal(c, is) PROVE Ordered'
  BY <1>a, <1>3 DEF Refusal, chanVars, Ordered
<1>4. ASSUME NEW c \in Clients, Direct(c) PROVE Ordered'
  <2>1. Sending(c) /\ c \in Clients
    BY <1>a, <1>4 DEF Direct, Shrinks, Queues, Sending
  <2>2. \A i \in 1..Len(accepted) :
          accepted[i][1] = c => accepted[i][2] < Offer(c)[2]
    <3>1. TAKE i \in 1..Len(accepted)
    <3>2. HAVE accepted[i][1] = c
    <3>3. accepted[i] \in Clients \X Nat /\ In(accepted[i], accepted)
      BY <1>a DEF In
    <3>4. accepted[i][2] <= offered[c] /\ accepted[i] # Offer(c)
      BY <1>a, <2>1, <3>2, <3>3 DEF Fates
    <3>5. accepted[i] = <<accepted[i][1], accepted[i][2]>> /\ accepted[i][2] \in Nat
      BY <3>3
    <3>6. QED
      BY <1>a, <2>1, <3>2, <3>4, <3>5 DEF Offer
  <2>3. Grows(accepted, accepted', Offer(c))
    BY <1>4 DEF Direct
  <2>4. QED
    <3> DEFINE e == Offer(c)
    <3>1. \A i \in 1..Len(accepted) : accepted[i][1] = e[1] => accepted[i][2] < e[2]
      BY <1>a, <2>1, <2>2
    <3>2. accepted' \in Seq(Clients \X Nat) /\ Grows(accepted, accepted', e)
      BY <1>4, <2>3 DEF Direct
    <3> HIDE DEF e
    <3>3. QED
      BY <1>a, <3>1, <3>2, InOrderGrows DEF Ordered
<1>5. ASSUME NEW c \in Clients, Buffered(c) PROVE Ordered'
  <2>1. Sending(c) /\ c \in Clients
    BY <1>a, <1>5 DEF Buffered, Shrinks, Queues, Sending
  <2>2. \A i \in 1..Len(accepted) :
          accepted[i][1] = c => accepted[i][2] < Offer(c)[2]
    <3>1. TAKE i \in 1..Len(accepted)
    <3>2. HAVE accepted[i][1] = c
    <3>3. accepted[i] \in Clients \X Nat /\ In(accepted[i], accepted)
      BY <1>a DEF In
    <3>4. accepted[i][2] <= offered[c] /\ accepted[i] # Offer(c)
      BY <1>a, <2>1, <3>2, <3>3 DEF Fates
    <3>5. accepted[i] = <<accepted[i][1], accepted[i][2]>> /\ accepted[i][2] \in Nat
      BY <3>3
    <3>6. QED
      BY <1>a, <2>1, <3>2, <3>4, <3>5 DEF Offer
  <2>3. Grows(accepted, accepted', Offer(c))
    BY <1>5 DEF Buffered
  <2>4. QED
    <3> DEFINE e == Offer(c)
    <3>1. \A i \in 1..Len(accepted) : accepted[i][1] = e[1] => accepted[i][2] < e[2]
      BY <1>a, <2>1, <2>2
    <3>2. accepted' \in Seq(Clients \X Nat) /\ Grows(accepted, accepted', e)
      BY <1>5, <2>3 DEF Buffered
    <3> HIDE DEF e
    <3>3. QED
      BY <1>a, <3>1, <3>2, InOrderGrows DEF Ordered
<1>6. ASSUME NEW c \in Clients, SenderParked(c) PROVE Ordered'
  BY <1>a, <1>6 DEF SenderParked, histVars, Ordered
<1>7. ASSUME NEW c \in Clients, Taken(c) PROVE Ordered'
  BY <1>a, <1>7 DEF Taken, Ordered
<1>8. ASSUME NEW c \in Clients, Refilled(c) PROVE Ordered'
  <2>1. Sending(Longest) /\ Longest \in Clients
    BY <1>a, <1>8 DEF Refilled, Shrinks, Queues, Sending
  <2>2. \A i \in 1..Len(accepted) :
          accepted[i][1] = Longest => accepted[i][2] < Offer(Longest)[2]
    <3>1. TAKE i \in 1..Len(accepted)
    <3>2. HAVE accepted[i][1] = Longest
    <3>3. accepted[i] \in Clients \X Nat /\ In(accepted[i], accepted)
      BY <1>a DEF In
    <3>4. accepted[i][2] <= offered[Longest] /\ accepted[i] # Offer(Longest)
      BY <1>a, <2>1, <3>2, <3>3 DEF Fates
    <3>5. accepted[i] = <<accepted[i][1], accepted[i][2]>> /\ accepted[i][2] \in Nat
      BY <3>3
    <3>6. QED
      BY <1>a, <2>1, <3>2, <3>4, <3>5 DEF Offer
  <2>3. Grows(accepted, accepted', Offer(Longest))
    BY <1>8 DEF Refilled
  <2>4. QED
    <3> DEFINE e == Offer(Longest)
    <3>1. \A i \in 1..Len(accepted) : accepted[i][1] = e[1] => accepted[i][2] < e[2]
      BY <1>a, <2>1, <2>2
    <3>2. accepted' \in Seq(Clients \X Nat) /\ Grows(accepted, accepted', e)
      BY <1>8, <2>3 DEF Refilled
    <3> HIDE DEF e
    <3>3. QED
      BY <1>a, <3>1, <3>2, InOrderGrows DEF Ordered
<1>9. ASSUME NEW c \in Clients, HandedOver(c) PROVE Ordered'
  <2>1. Sending(Longest) /\ Longest \in Clients
    BY <1>a, <1>9 DEF HandedOver, Shrinks, Queues, Sending
  <2>2. \A i \in 1..Len(accepted) :
          accepted[i][1] = Longest => accepted[i][2] < Offer(Longest)[2]
    <3>1. TAKE i \in 1..Len(accepted)
    <3>2. HAVE accepted[i][1] = Longest
    <3>3. accepted[i] \in Clients \X Nat /\ In(accepted[i], accepted)
      BY <1>a DEF In
    <3>4. accepted[i][2] <= offered[Longest] /\ accepted[i] # Offer(Longest)
      BY <1>a, <2>1, <3>2, <3>3 DEF Fates
    <3>5. accepted[i] = <<accepted[i][1], accepted[i][2]>> /\ accepted[i][2] \in Nat
      BY <3>3
    <3>6. QED
      BY <1>a, <2>1, <3>2, <3>4, <3>5 DEF Offer
  <2>3. Grows(accepted, accepted', Offer(Longest))
    BY <1>9 DEF HandedOver
  <2>4. QED
    <3> DEFINE e == Offer(Longest)
    <3>1. \A i \in 1..Len(accepted) : accepted[i][1] = e[1] => accepted[i][2] < e[2]
      BY <1>a, <2>1, <2>2
    <3>2. accepted' \in Seq(Clients \X Nat) /\ Grows(accepted, accepted', e)
      BY <1>9, <2>3 DEF HandedOver
    <3> HIDE DEF e
    <3>3. QED
      BY <1>a, <3>1, <3>2, InOrderGrows DEF Ordered
<1>10. ASSUME NEW c \in Clients, NEW is \in {"end", "empty"}, Nothing(c, is)
   PROVE Ordered'
  BY <1>a, <1>10 DEF Nothing, chanVars, histVars, Ordered
<1>11. ASSUME NEW c \in Clients, ReceiverParked(c) PROVE Ordered'
  BY <1>a, <1>11 DEF ReceiverParked, histVars, Ordered
<1>12. ASSUME NEW c \in Clients, ClosedAgain(c) PROVE Ordered'
  BY <1>a, <1>12 DEF ClosedAgain, chanVars, histVars, Ordered
<1>13. ASSUME NEW c \in Clients, FlagSet(c) PROVE Ordered'
  BY <1>a, <1>13 DEF FlagSet, histVars, Ordered
<1>14. ASSUME NEW c \in Clients, Shut(c) PROVE Ordered'
  BY <1>a, <1>14 DEF Shut, Ordered
<1>15. CASE UNCHANGED vars
  BY <1>a, <1>15 DEF vars, Ordered
<1>16. QED
  BY StepCases, <1>1, <1>2, <1>3, <1>4, <1>5, <1>6, <1>7, <1>8, <1>9, <1>10,
     <1>11, <1>12, <1>13, <1>14, <1>15 DEF IInv

(* No answer given so far becomes untrue. *)
LEMMA TruthfulStep == IInv /\ [Next]_vars => Truthful'
<1> SUFFICES ASSUME IInv, [Next]_vars PROVE Truthful'
  OBVIOUS
<1>a. /\ pc \in [Clients -> Steps]
      /\ reply \in [Clients -> [is : Answers, msg : (Clients \X Nat) \cup {NoMsg}]]
      /\ sendq \in Seq(Clients \X Nat) /\ recvq \in Seq(Clients)
      /\ buf \in Seq(Clients \X Nat) /\ Len(buf) <= cap
      /\ accepted \in Seq(Clients \X Nat) /\ received \in Seq(Clients \X Nat)
      /\ refused \subseteq Clients \X Nat
      /\ Queues
      /\ ParkedForAReason
      /\ Closing
      /\ Truthful
  BY DEF IInv, TypeOK
<1>1. ASSUME NEW c \in Clients, NEW op \in {"send", "try_send"}, Call(c, op)
   PROVE Truthful'
  BY <1>a, <1>1 DEF Call, chanVars, histVars, Truthful, Queues
<1>2. ASSUME NEW c \in Clients, TurnedAway(c) PROVE Truthful'
  BY <1>a, <1>2 DEF TurnedAway, Returned, Answer, chanVars, Truthful, Queues
<1>3. ASSUME NEW c \in Clients, NEW is \in {"full", "closed_error"},
   Refusal(c, is) PROVE Truthful'
  BY <1>a, <1>3 DEF Refusal, Returned, Answer, chanVars, Truthful, Queues
<1>4. ASSUME NEW c \in Clients, Direct(c) PROVE Truthful'
  BY <1>a, <1>4 DEF Direct, Returned, Answer, Grows, Shrinks, Truthful, Queues
<1>5. ASSUME NEW c \in Clients, Buffered(c) PROVE Truthful'
  BY <1>a, <1>5 DEF Buffered, Returned, Answer, Grows, Truthful, Queues
<1>6. ASSUME NEW c \in Clients, SenderParked(c) PROVE Truthful'
  BY <1>a, <1>6 DEF SenderParked, histVars, Grows, Truthful, Queues
<1>7. ASSUME NEW c \in Clients, Taken(c) PROVE Truthful'
  BY <1>a, <1>7 DEF Taken, Returned, Answer, Grows, Shrinks, Truthful, Queues
<1>8. ASSUME NEW c \in Clients, Refilled(c) PROVE Truthful'
  BY <1>a, <1>8 DEF Refilled, Returned, Answer, Grows, Shrinks, Truthful,
     Queues
<1>9. ASSUME NEW c \in Clients, HandedOver(c) PROVE Truthful'
  BY <1>a, <1>9 DEF HandedOver, Returned, Answer, Grows, Shrinks, Truthful,
     Queues
<1>10. ASSUME NEW c \in Clients, NEW is \in {"end", "empty"}, Nothing(c, is)
   PROVE Truthful'
  BY <1>a, <1>10 DEF Nothing, Returned, Answer, chanVars, histVars, Truthful,
     Queues
<1>11. ASSUME NEW c \in Clients, ReceiverParked(c) PROVE Truthful'
  BY <1>a, <1>11 DEF ReceiverParked, histVars, Grows, Truthful, Queues
<1>12. ASSUME NEW c \in Clients, ClosedAgain(c) PROVE Truthful'
  BY <1>a, <1>12 DEF ClosedAgain, Returned, Answer, chanVars, histVars,
     Truthful, Queues
<1>13. ASSUME NEW c \in Clients, FlagSet(c) PROVE Truthful'
  BY <1>a, <1>13 DEF FlagSet, histVars, Truthful, Queues
<1>14. ASSUME NEW c \in Clients, Shut(c) PROVE Truthful'
  <2>1. \A d \in Clients : In(Offer(d), sendq) => Offer(d) \in refused'
    BY <1>14 DEF Shut
  <2>2. goClosed' = TRUE /\ accepted' = accepted /\ buf' = buf /\ \A m \in refused : m \in refused'
    BY <1>14 DEF Shut
  <2>3. ASSUME NEW d \in Clients
        PROVE  /\ reply'[d].is = "sent" => In(reply'[d].msg, accepted')
               /\ reply'[d].is \in {"full", "closed_error"} => reply'[d].msg \in refused' \cup {NoMsg}
               /\ reply'[d].is = "end" => goClosed' /\ buf' = <<>>
    <3>1. CASE d = c
      BY <1>14, <3>1 DEF Shut, Answer
    <3>2. CASE d # c /\ In(Offer(d), sendq)
      BY <1>14, <2>1, <3>2 DEF Shut, Answer
    <3>3. CASE d # c /\ ~In(Offer(d), sendq) /\ In(d, recvq)
      <4>1. buf = <<>>
        BY <1>a, <3>3, EmptyEntries DEF ParkedForAReason
      <4>2. QED
        BY <1>14, <2>2, <3>3, <4>1 DEF Shut, Answer
    <3>4. CASE d # c /\ ~In(Offer(d), sendq) /\ ~In(d, recvq)
      BY <1>a, <1>14, <2>2, <3>4 DEF Shut, Truthful
    <3>5. QED
      BY <3>1, <3>2, <3>3, <3>4
  <2>4. QED
    BY <2>3 DEF Truthful
<1>15. CASE UNCHANGED vars
  BY <1>a, <1>15 DEF vars, Truthful, Queues
<1>16. QED
  BY StepCases, <1>1, <1>2, <1>3, <1>4, <1>5, <1>6, <1>7, <1>8, <1>9, <1>10,
     <1>11, <1>12, <1>13, <1>14, <1>15 DEF IInv

(* The invariant holds in every state of every run. *)
LEMMA Invariance == Spec => []IInv
<1>1. IInv /\ [Next]_vars => IInv'
  BY TypeStep, QueuesStep, ParkedStep, ClosingStep, LedgerStep, FatesStep, OrderedStep,
     TruthfulStep DEF IInv
<1>2. QED
  BY Initialization, <1>1, PTL DEF Spec

(* The entries of a log, as MessageLog names them. *)
LEMMA LogEntries ==
  ASSUME NEW S, NEW s \in Seq(S)
  PROVE  \A m : m \in Log!Entries(s) <=> In(m, s)
BY DEF Log!Entries, In

-----------------------------------------------------------------------------
(* Type correctness of the channel. *)
THEOREM TypeCorrect == Spec => []TypeOK
BY Invariance, PTL DEF IInv

(* Whatever the clients do, nobody stays parked beside a message, a free   *)
(* slot or a closed channel.                                               *)
THEOREM WakeupsAreNotLost == Spec => []NoLostWakeup
<1>1. IInv => NoLostWakeup
  <2> SUFFICES ASSUME IInv PROVE NoLostWakeup
    OBVIOUS
  <2>1. /\ \A c \in Clients : Offer(c) \in Parked(sendq) <=> In(Offer(c), sendq)
        /\ \A c \in Clients : c \in Parked(recvq) <=> In(c, recvq)
    BY ParkedEntries DEF IInv, TypeOK
  <2>2. QED
    BY <2>1 DEF IInv, Queues, NoLostWakeup, QueuesMatchPc
<1>2. QED
  BY Invariance, <1>1, PTL

(* A builtin's answer about its message is true, and stays true. *)
THEOREM RepliesAreHonest == Spec => []HonestReplies
<1>1. IInv => HonestReplies
  <2> SUFFICES ASSUME IInv, NEW c \in Clients
               PROVE  /\ reply[c].is = "sent" => reply[c].msg \in Log!Entries(accepted)
                      /\ reply[c].is \in {"full", "closed_error"} =>
                           reply[c].msg \notin Log!Entries(accepted)
    BY DEF HonestReplies
  <2>1. /\ accepted \in Seq(Clients \X Nat)
        /\ \A m : m \in Log!Entries(accepted) <=> In(m, accepted)
    BY LogEntries DEF IInv, TypeOK
  <2>2. ~In(NoMsg, accepted)
    BY <2>1, ChannelAssumption DEF In
  <2>3. QED
    BY <2>1, <2>2 DEF IInv, Truthful, Fates
<1>2. QED
  BY Invariance, <1>1, PTL

(* recv's null means that everything accepted was received, for good. *)
THEOREM EndIsDrained == Spec => []EndMeansDrained
<1>1. IInv => EndMeansDrained
  <2> SUFFICES ASSUME IInv, NEW c \in Clients, reply[c].is = "end"
               PROVE  goClosed /\ received = accepted
    BY DEF EndMeansDrained
  <2>1. goClosed /\ buf = <<>>
    BY DEF IInv, Truthful
  <2>2. accepted \in Seq(Clients \X Nat) /\ received \in Seq(Clients \X Nat)
    BY DEF IInv, TypeOK
  <2>3. Len(accepted) \in Nat /\ Len(received) \in Nat /\ Len(buf) = 0
    BY <2>1, <2>2
  <2>4. Accounts(accepted, received, buf)
    BY DEF IInv, Ledger
  <2>5. Len(accepted) = Len(received)
    BY <2>3, <2>4 DEF Accounts
  <2>6. \A i \in 1..Len(received) : accepted[i] = received[i]
    BY <2>4 DEF Accounts
  <2>7. received = accepted
    BY <2>2, <2>5, <2>6
  <2>8. QED
    BY <2>1, <2>7
<1>2. QED
  BY Invariance, <1>1, PTL

(* A sender's messages never overtake each other. *)
THEOREM SendersStayInOrder == Spec => []SenderOrder
<1>1. IInv => SenderOrder
  <2> SUFFICES ASSUME IInv, NEW i \in DOMAIN received, NEW j \in DOMAIN received,
                      i < j, received[i][1] = received[j][1]
               PROVE  received[i][2] < received[j][2]
    BY DEF SenderOrder
  <2>1. /\ DOMAIN received = 1..Len(received)
        /\ Len(received) \in Nat /\ Len(buf) \in Nat /\ Len(accepted) = Len(received) + Len(buf)
        /\ \A k \in 1..Len(received) : accepted[k] = received[k]
    BY EmptyEntries DEF IInv, TypeOK, Ledger, Accounts
  <2>2. QED
    BY <2>1 DEF IInv, Ordered, InOrder
<1>2. QED
  BY Invariance, <1>1, PTL

-----------------------------------------------------------------------------
(* The channel keeps the promises of MessageLog: a step of the channel is  *)
(* a step of the log, or leaves the log alone.                             *)
THEOREM ChannelImplementsLog == Spec => ImplementsLog
<1>1. Init => Log!Init
  BY ChannelAssumption DEF Init, Log!Init
<1>2. IInv /\ [Next]_vars => [Log!Next]_(Log!vars)
  <2> SUFFICES ASSUME IInv, [Next]_vars PROVE Log!Next \/ UNCHANGED Log!vars
    OBVIOUS
  <2>a. /\ cap \in Nat /\ pc \in [Clients -> Steps] /\ offered \in [Clients -> Nat]
        /\ sendq \in Seq(Clients \X Nat) /\ buf \in Seq(Clients \X Nat)
        /\ accepted \in Seq(Clients \X Nat) /\ received \in Seq(Clients \X Nat)
        /\ Len(buf) \in Nat /\ Len(accepted) \in Nat /\ Len(received) \in Nat
        /\ \A m : m \in Log!Entries(accepted) <=> In(m, accepted)
        /\ Ledger /\ Fates /\ Queues /\ ParkedForAReason /\ Closing
    BY ChannelAssumption, LogEntries, EmptyEntries DEF IInv, TypeOK
  <2>b. \A c \in Clients : \A n \in 1..MaxSends[c] : <<c, n>> \in Messages
    BY DEF Messages
  <2>c. ASSUME NEW c \in Clients, Sending(c) PROVE Offer(c) \in Messages /\ Log!Fresh(Offer(c))
    BY <2>a, <2>b, <2>c DEF Fates, Log!Fresh, Offer
  <2>1. ASSUME NEW c \in Clients, NEW op \in {"send", "try_send"}, Call(c, op)
        PROVE  UNCHANGED Log!vars
    BY <2>1 DEF Call, chanVars, histVars, Log!vars
  <2>2. ASSUME NEW c \in Clients, TurnedAway(c) PROVE Log!Next
    <3> DEFINE e == <<c, offered[c] + 1>>
    <3>0. offered[c] \in Nat /\ offered[c] + 1 \in 1..MaxSends[c]
      <4>1. offered[c] \in Nat /\ MaxSends[c] \in Nat
        BY <2>a, ChannelAssumption
      <4>2. offered[c] < MaxSends[c]
        BY <2>2 DEF TurnedAway
      <4>3. QED
        BY <4>1, <4>2
    <3>1. e \in Messages /\ e \in Clients \X Nat /\ e[1] = c /\ e[2] = offered[c] + 1
      BY <2>b, <3>0
    <3>2. Log!Fresh(e)
      BY <2>a, <3>1 DEF Fates, Log!Fresh
    <3>3. Log!Refuse(e)
      BY <2>2, <3>2 DEF TurnedAway, Log!Refuse, chanVars
    <3>4. QED
      BY <3>1, <3>3 DEF Log!Next
  <2>3. ASSUME NEW c \in Clients, NEW is \in {"full", "closed_error"}, Refusal(c, is)
        PROVE  Log!Next
    <3>1. Offer(c) \in Messages /\ Log!Fresh(Offer(c))
      BY <2>c, <2>3 DEF Refusal, Sending
    <3>2. Log!Refuse(Offer(c))
      BY <2>3, <3>1 DEF Refusal, Log!Refuse, chanVars
    <3>3. QED
      BY <3>1, <3>2 DEF Log!Next
  <2>d. ASSUME NEW m \in Messages, Log!Fresh(m), ~goClosed, buf = <<>>,
               accepted' = Append(accepted, m), received' = Append(received, m),
               UNCHANGED <<cap, refused, goClosed>>
        PROVE  Log!Next
    <3>1. Len(accepted) = Len(received)
      BY <2>a, <2>d, EmptyEntries DEF Ledger, Accounts
    <3>2. accepted'[Len(received) + 1] = m
      BY <2>a, <2>d, <3>1
    <3>3. Log!HandOver(m)
      BY <2>d, <3>2 DEF Log!HandOver, Log!Oldest
    <3>4. QED
      BY <3>3 DEF Log!Next
  <2>4. ASSUME NEW c \in Clients, Direct(c) PROVE Log!Next
    <3>1. Offer(c) \in Messages /\ Log!Fresh(Offer(c))
      BY <2>c, <2>4 DEF Direct, Sending
    <3>2. QED
      BY <2>a, <2>d, <2>4, <3>1 DEF Direct, ParkedForAReason
  <2>5. ASSUME NEW c \in Clients, Buffered(c) PROVE Log!Next
    <3>1. Offer(c) \in Messages /\ Log!Fresh(Offer(c))
      BY <2>c, <2>5 DEF Buffered, Sending
    <3>2. Log!Accept(Offer(c))
      BY <2>a, <2>5, <3>1 DEF Buffered, Log!Accept, Ledger, Accounts
    <3>3. QED
      BY <3>1, <3>2 DEF Log!Next
  <2>6. ASSUME NEW c \in Clients, SenderParked(c) PROVE UNCHANGED Log!vars
    BY <2>6 DEF SenderParked, histVars, Log!vars
  <2>7. ASSUME NEW c \in Clients, Taken(c) PROVE Log!Next
    <3>1. Len(buf) > 0 /\ 1 \in 1..Len(buf)
      BY <2>a, <2>7 DEF Taken, Shrinks
    <3>2. buf[1] = accepted[Len(received) + 1] /\ Len(received) < Len(accepted)
      BY <2>a, <3>1 DEF Ledger, Accounts
    <3>3. Log!Receive
      BY <2>7, <3>2 DEF Taken, Log!Receive, Log!Oldest
    <3>4. QED
      BY <3>3 DEF Log!Next
  <2>8. ASSUME NEW c \in Clients, Refilled(c) PROVE Log!Next
    <3> DEFINE m == Offer(Longest)
    <3>1. Longest \in Clients /\ Sending(Longest) /\ ~goClosed
      BY <2>a, <2>8 DEF Refilled, Shrinks, Queues, Sending, ParkedForAReason, Closing
    <3>2. m \in Messages /\ Log!Fresh(m)
      BY <2>c, <3>1
    <3>3. Len(buf) > 0 /\ 1 \in 1..Len(buf)
      BY <2>a, <2>8 DEF Refilled, Shrinks
    <3>4. buf[1] = accepted[Len(received) + 1] /\ Len(received) + 1 \in 1..Len(accepted)
      BY <2>a, <3>3 DEF Ledger, Accounts
    <3>5. accepted'[Len(received) + 1] = buf[1]
      BY <2>8, <3>4 DEF Refilled, Grows
    <3>6. Log!HandOver(m)
      BY <2>8, <3>1, <3>2, <3>5 DEF Refilled, Log!HandOver, Log!Oldest
    <3>7. QED
      BY <3>2, <3>6 DEF Log!Next
  <2>9. ASSUME NEW c \in Clients, HandedOver(c) PROVE Log!Next
    <3> DEFINE m == Offer(Longest)
    <3>1. Longest \in Clients /\ Sending(Longest) /\ ~goClosed
      BY <2>a, <2>9 DEF HandedOver, Shrinks, Queues, Sending, ParkedForAReason, Closing
    <3>2. m \in Messages /\ Log!Fresh(m)
      BY <2>c, <3>1
    <3>3. /\ buf = <<>> /\ accepted' = Append(accepted, m) /\ received' = Append(received, m)
          /\ UNCHANGED <<cap, refused, goClosed>>
      BY <2>9 DEF HandedOver
    <3> HIDE DEF m
    <3>4. QED
      BY <2>d, <3>1, <3>2, <3>3
  <2>10. ASSUME NEW c \in Clients, NEW is \in {"end", "empty"}, Nothing(c, is)
         PROVE  UNCHANGED Log!vars
    BY <2>10 DEF Nothing, chanVars, histVars, Log!vars
  <2>11. ASSUME NEW c \in Clients, ReceiverParked(c) PROVE UNCHANGED Log!vars
    BY <2>11 DEF ReceiverParked, histVars, Log!vars
  <2>12. ASSUME NEW c \in Clients, ClosedAgain(c) PROVE UNCHANGED Log!vars
    BY <2>12 DEF ClosedAgain, chanVars, histVars, Log!vars
  <2>13. ASSUME NEW c \in Clients, FlagSet(c) PROVE UNCHANGED Log!vars
    BY <2>13 DEF FlagSet, histVars, Log!vars
  <2>14. ASSUME NEW c \in Clients, Shut(c) PROVE Log!Next
    <3> DEFINE ms == Parked(sendq)
    <3>1. ASSUME NEW m \in ms PROVE m = Offer(Sender(m)) /\ Sender(m) \in Clients /\ Sending(Sender(m))
      <4>1. m \in Clients \X Nat /\ In(m, sendq)
        BY <2>a, <3>1 DEF In, Parked
      <4>2. Sender(m) \in Clients /\ m = Offer(Sender(m))
        BY <2>a, <4>1 DEF Queues, Sender
      <4>3. QED
        BY <2>a, <4>1, <4>2 DEF Queues, Sending
    <3>2. ms \in SUBSET Messages /\ \A m \in ms : Log!Fresh(m)
      BY <2>c, <3>1
    <3>3. Log!Seal(ms)
      BY <2>a, <2>14, <3>2 DEF Shut, Log!Seal, Closing
    <3>4. QED
      BY <3>2, <3>3 DEF Log!Next
  <2>15. ASSUME UNCHANGED vars PROVE UNCHANGED Log!vars
    BY <2>15 DEF vars, Log!vars
  <2>16. QED
    BY StepCases, <2>1, <2>2, <2>3, <2>4, <2>5, <2>6, <2>7, <2>8, <2>9, <2>10, <2>11,
       <2>12, <2>13, <2>14, <2>15 DEF IInv
<1>3. QED
  BY Invariance, <1>1, <1>2, PTL DEF Spec, ImplementsLog, Log!Spec

=============================================================================
