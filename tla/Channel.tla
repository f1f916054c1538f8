------------------------------ MODULE Channel -------------------------------
(***************************************************************************)
(* One NvS channel (object.Channel) and the builtins that use it: send,    *)
(* try_send, recv, try_recv and close, called by any number of tasks at    *)
(* once.                                                                   *)
(*                                                                         *)
(* object.Channel pairs a Go channel with a `closed` flag of its own,      *)
(* guarded by a mutex.  send and try_send look at the flag first and touch *)
(* the Go channel later, without the mutex, so that a close may come in    *)
(* between; the panic the Go channel then raises is recovered and reported *)
(* as the same NvS error.  Close sets the flag and closes the Go channel   *)
(* one after the other, under the mutex.                                   *)
(*                                                                         *)
(* The Go channel itself (a buffer, a queue of parked senders, a queue of  *)
(* parked receivers) is not under src/; it is modelled from the way the    *)
(* code uses it: `c.ch <- v`, `<-c.ch`, select with default, close(c.ch).  *)
(***************************************************************************)
EXTENDS Naturals, Sequences

CONSTANTS
  Clients,     \* the tasks that hold a handle of the channel
  Capacities,  \* the buffer capacities chan() / chan(n) is called with
  MaxSends,    \* bound: how many messages each client offers
  NoClient, NoMsg

ASSUME ChannelAssumption ==
  /\ Capacities \subseteq Nat
  /\ MaxSends \in [Clients -> Nat]
  /\ NoClient \notin Clients
  /\ NoMsg \notin Clients \X Nat

(* A message is known by who offered it and the number of the offer: what  *)
(* a send carries is left out, only which send it was.                     *)
Messages == UNION {{c} \X (1..MaxSends[c]) : c \in Clients}

VARIABLES
  cap,        \* Channel.cap, the capacity of the Go channel
  closed,     \* Channel.closed
  mu,         \* the client inside Close, or NoClient: Channel.mu when it is held
              \* across two steps
  goClosed,   \* close(c.ch) has happened
  buf,        \* the Go channel's buffer
  sendq,      \* the messages parked in `c.ch <- v`, longest first
  recvq,      \* clients parked in `<-c.ch`, longest first
  pc,         \* where a client is: "idle" between builtins
  offered,    \* how many messages a client has offered so far
  reply,      \* what its last builtin returned
  accepted,   \* history: messages the Go channel took, in order
  received,   \* history: messages handed to a receiver, in order
  refused     \* history: messages whose send failed or found the buffer full

chanVars == <<cap, closed, mu, goClosed, buf, sendq, recvq>>
histVars == <<accepted, received, refused>>
vars == <<cap, closed, mu, goClosed, buf, sendq, recvq, pc, offered, reply,
          accepted, received, refused>>

Steps == {"idle", "send", "try_send", "sendq", "recvq", "close"}
Answers == {"none", "sent", "full", "closed_error", "received", "end", "empty", "closed"}
Answer(is, m) == [is |-> is, msg |-> m]

(* The message a client is offering (or has last offered). *)
Offer(c) == <<c, offered[c]>>

Init ==
  /\ cap \in Capacities
  /\ closed = FALSE /\ mu = NoClient /\ goClosed = FALSE
  /\ buf = <<>> /\ sendq = <<>> /\ recvq = <<>>
  /\ pc = [c \in Clients |-> "idle"]
  /\ offered = [c \in Clients |-> 0]
  /\ reply = [c \in Clients |-> Answer("none", NoMsg)]
  /\ accepted = <<>> /\ received = <<>> /\ refused = {}

-----------------------------------------------------------------------------
(* Client c returns from its builtin with answer a, and the clients woken  *)
(* by it return from theirs with the answers in woken (a function on them).*)
Return(c, a, woken) ==
  /\ pc' = [d \in Clients |-> IF d = c \/ d \in DOMAIN woken THEN "idle" ELSE pc[d]]
  /\ reply' = [d \in Clients |-> IF d = c THEN a
                                 ELSE IF d \in DOMAIN woken THEN woken[d]
                                 ELSE reply[d]]

Nobody == [d \in {} |-> Answer("none", NoMsg)]
Wake(d, a) == [e \in {d} |-> a]

(* The client whose send carries message m, and the messages or clients of *)
(* a queue.                                                                *)
Sender(m) == m[1]
Parked(q) == {q[i] : i \in DOMAIN q}

(* send / try_send: IsClosed under the mutex, nothing else of the channel. *)
(* The flag may change as soon as IsClosed has returned.                   *)
CheckOpen(c, op) ==
  /\ pc[c] = "idle" /\ op \in {"send", "try_send"}
  /\ mu = NoClient
  /\ offered[c] < MaxSends[c]
  /\ offered' = [offered EXCEPT ![c] = @ + 1]
  /\ IF closed
     THEN /\ Return(c, Answer("closed_error", <<c, offered[c] + 1>>), Nobody)
          /\ refused' = refused \cup {<<c, offered[c] + 1>>}
     ELSE /\ pc' = [pc EXCEPT ![c] = op]
          /\ UNCHANGED <<reply, refused>>
  /\ UNCHANGED <<chanVars, accepted, received>>

(* Faulty variant: the recovered panic never sets sendErr. *)
SendOnClosedUnreported(c) ==
  /\ pc[c] \in {"send", "try_send"} /\ goClosed
  /\ Return(c, Answer("sent", Offer(c)), Nobody)
  /\ UNCHANGED <<chanVars, offered, histVars>>

(* The panic of a send on a closed Go channel, recovered by the builtin. *)
SendOnClosed(c) ==
  /\ pc[c] \in {"send", "try_send"}
  /\ goClosed
  /\ Return(c, Answer("closed_error", Offer(c)), Nobody)
  /\ refused' = refused \cup {Offer(c)}
  /\ UNCHANGED <<chanVars, offered, accepted, received>>

(* A receiver is parked: it gets the message, past the empty buffer. *)
SendToReceiver(c) ==
  /\ pc[c] \in {"send", "try_send"}
  /\ ~goClosed /\ recvq # <<>>
  /\ Return(c, Answer("sent", Offer(c)), Wake(Head(recvq), Answer("received", Offer(c))))
  /\ recvq' = Tail(recvq)
  /\ accepted' = Append(accepted, Offer(c))
  /\ received' = Append(received, Offer(c))
  /\ UNCHANGED <<cap, closed, mu, goClosed, buf, sendq, offered, refused>>

SendToBuffer(c) ==
  /\ pc[c] \in {"send", "try_send"}
  /\ ~goClosed /\ recvq = <<>> /\ Len(buf) < cap
  /\ Return(c, Answer("sent", Offer(c)), Nobody)
  /\ buf' = Append(buf, Offer(c))
  /\ accepted' = Append(accepted, Offer(c))
  /\ UNCHANGED <<cap, closed, mu, goClosed, sendq, recvq, offered, received, refused>>

(* Faulty variant: send leaves the message to a goroutine and returns; the *)
(* goroutines reach the Go channel in any order.                           *)
SendHandsOff(c) ==
  /\ pc[c] = "send"
  /\ ~goClosed /\ recvq = <<>> /\ Len(buf) >= cap
  /\ Return(c, Answer("sent", Offer(c)), Nobody)
  /\ \E n \in 0..Len(sendq) :
       sendq' = SubSeq(sendq, 1, n) \o <<Offer(c)>> \o SubSeq(sendq, n + 1, Len(sendq))
  /\ UNCHANGED <<cap, closed, mu, goClosed, buf, recvq, offered, histVars>>

SendParks(c) ==
  /\ pc[c] = "send"
  /\ ~goClosed /\ recvq = <<>> /\ Len(buf) >= cap
  /\ pc' = [pc EXCEPT ![c] = "sendq"]
  /\ sendq' = Append(sendq, Offer(c))
  /\ UNCHANGED <<cap, closed, mu, goClosed, buf, recvq, offered, reply, histVars>>

(* Faulty variant: TrySend has no default branch but gives up on a send    *)
(* that goes on in a goroutine of its own.                                 *)
TrySendLeaves(c) ==
  /\ pc[c] = "try_send"
  /\ ~goClosed /\ recvq = <<>> /\ Len(buf) >= cap
  /\ Return(c, Answer("full", Offer(c)), Nobody)
  /\ refused' = refused \cup {Offer(c)}
  /\ sendq' = Append(sendq, Offer(c))
  /\ UNCHANGED <<cap, closed, mu, goClosed, buf, recvq, offered, accepted, received>>

(* TrySend's select takes its default branch. *)
TrySendFull(c) ==
  /\ pc[c] = "try_send"
  /\ ~goClosed /\ recvq = <<>> /\ Len(buf) >= cap
  /\ Return(c, Answer("full", Offer(c)), Nobody)
  /\ refused' = refused \cup {Offer(c)}
  /\ UNCHANGED <<chanVars, offered, accepted, received>>

-----------------------------------------------------------------------------
(* recv and try_recv go straight to the Go channel.  A buffered message is *)
(* taken first; the longest parked sender then refills the buffer.         *)
RecvFromBuffer(c) ==
  /\ pc[c] = "idle" /\ buf # <<>>
  /\ received' = Append(received, Head(buf))
  /\ \/ /\ sendq = <<>>
        /\ buf' = Tail(buf)
        /\ Return(c, Answer("received", Head(buf)), Nobody)
        /\ UNCHANGED <<sendq, accepted>>
     \/ /\ sendq # <<>>
        /\ LET m == Head(sendq)
           IN /\ buf' = Append(Tail(buf), m)
              /\ accepted' = Append(accepted, m)
              /\ Return(c, Answer("received", Head(buf)), Wake(Sender(m), Answer("sent", m)))
        /\ sendq' = Tail(sendq)
  /\ UNCHANGED <<cap, closed, mu, goClosed, recvq, offered, refused>>

(* An unbuffered channel: the message passes from sender to receiver. *)
RecvFromSender(c) ==
  /\ pc[c] = "idle" /\ buf = <<>> /\ sendq # <<>>
  /\ LET m == Head(sendq)
     IN /\ accepted' = Append(accepted, m)
        /\ received' = Append(received, m)
        /\ Return(c, Answer("received", m), Wake(Sender(m), Answer("sent", m)))
  /\ sendq' = Tail(sendq)
  /\ UNCHANGED <<cap, closed, mu, goClosed, buf, recvq, offered, refused>>

(* Faulty variant: recv asks the flag, like send does, and not the Go channel. *)
RecvEndOnFlag(c) ==
  /\ pc[c] = "idle" /\ closed
  /\ Return(c, Answer("end", NoMsg), Nobody)
  /\ UNCHANGED <<chanVars, offered, histVars>>

(* Closed and drained: recv returns null. *)
RecvEnd(c) ==
  /\ pc[c] = "idle" /\ buf = <<>> /\ sendq = <<>> /\ goClosed
  /\ Return(c, Answer("end", NoMsg), Nobody)
  /\ UNCHANGED <<chanVars, offered, histVars>>

RecvParks(c) ==
  /\ pc[c] = "idle" /\ buf = <<>> /\ sendq = <<>> /\ ~goClosed
  /\ pc' = [pc EXCEPT ![c] = "recvq"]
  /\ recvq' = Append(recvq, c)
  /\ UNCHANGED <<cap, closed, mu, goClosed, buf, sendq, offered, reply, histVars>>

(* TryRecv's select: the default branch, or a closed and drained channel;  *)
(* both read [false, null].                                                *)
TryRecvEmpty(c) ==
  /\ pc[c] = "idle" /\ buf = <<>> /\ sendq = <<>>
  /\ Return(c, Answer("empty", NoMsg), Nobody)
  /\ UNCHANGED <<chanVars, offered, histVars>>

-----------------------------------------------------------------------------
(* close: the flag, under the mutex; a second close is an error. *)
CloseFlag(c) ==
  /\ pc[c] = "idle" /\ mu = NoClient
  /\ IF closed
     THEN /\ Return(c, Answer("closed_error", NoMsg), Nobody)
          /\ UNCHANGED <<closed, mu>>
     ELSE /\ closed' = TRUE
          /\ mu' = c
          /\ pc' = [pc EXCEPT ![c] = "close"]
          /\ UNCHANGED reply
  /\ UNCHANGED <<cap, goClosed, buf, sendq, recvq, offered, histVars>>

(* Faulty variant: Close sets the flag and never closes c.ch. *)
CloseFlagOnly(c) ==
  /\ pc[c] = "close"
  /\ mu' = NoClient
  /\ Return(c, Answer("closed", NoMsg), Nobody)
  /\ UNCHANGED <<cap, closed, goClosed, buf, sendq, recvq, offered, histVars>>

(* ... then close(c.ch), still under it: parked receivers see the end,     *)
(* parked senders panic and are recovered.                                 *)
CloseGo(c) ==
  /\ pc[c] = "close"
  /\ goClosed' = TRUE
  /\ mu' = NoClient
  /\ LET senders == {Sender(m) : m \in Parked(sendq)}
     IN Return(c, Answer("closed", NoMsg),
               [d \in senders \cup Parked(recvq) |->
                  IF d \in senders THEN Answer("closed_error", Offer(d))
                                   ELSE Answer("end", NoMsg)])
  /\ refused' = refused \cup Parked(sendq)
  /\ sendq' = <<>> /\ recvq' = <<>>
  /\ UNCHANGED <<cap, closed, buf, offered, accepted, received>>

-----------------------------------------------------------------------------
(* The rest of a send whose check has passed. *)
Attempt(c) ==
  \/ SendOnClosed(c) \/ SendToReceiver(c) \/ SendToBuffer(c)
  \/ SendParks(c) \/ TrySendFull(c)

Receive(c) ==
  \/ RecvFromBuffer(c) \/ RecvFromSender(c) \/ RecvEnd(c)
  \/ RecvParks(c) \/ TryRecvEmpty(c)

Next ==
  \E c \in Clients :
    \/ CheckOpen(c, "send") \/ CheckOpen(c, "try_send")
    \/ Attempt(c) \/ Receive(c)
    \/ CloseFlag(c) \/ CloseGo(c)

(* A goroutine that is not parked is run by the Go scheduler; whether a    *)
(* client calls another builtin at all is its program's choice.            *)
Fairness == \A c \in Clients : WF_vars(Attempt(c)) /\ WF_vars(CloseGo(c))

Spec == Init /\ [][Next]_vars /\ Fairness

-----------------------------------------------------------------------------
(* Every variable holds a value the program can give it. *)
TypeOK ==
  /\ cap \in Capacities
  /\ closed \in BOOLEAN /\ goClosed \in BOOLEAN
  /\ mu \in Clients \cup {NoClient}
  /\ buf \in Seq(Clients \X Nat) /\ Len(buf) <= cap
  /\ sendq \in Seq(Clients \X Nat) /\ recvq \in Seq(Clients)
  /\ pc \in [Clients -> Steps]
  /\ offered \in [Clients -> Nat]
  /\ reply \in [Clients -> [is : Answers, msg : (Clients \X Nat) \cup {NoMsg}]]
  /\ accepted \in Seq(Clients \X Nat) /\ received \in Seq(Clients \X Nat)
  /\ refused \subseteq Clients \X Nat

(* A client is parked in one of the two queues exactly when its builtin is *)
(* blocked, and only when it must be: a sender while the buffer is full, a *)
(* receiver while there is nothing to take, and nobody once a close has    *)
(* returned.  A Close that leaves c.ch open leaves clients parked on a     *)
(* channel that IsClosed calls closed, where no message will reach them.   *)
QueuesMatchPc ==
  /\ \A c \in Clients : pc[c] = "sendq" <=> Offer(c) \in Parked(sendq)
  /\ \A c \in Clients : pc[c] = "recvq" <=> c \in Parked(recvq)

ParkedForAReason ==
  /\ sendq # <<>> => Len(buf) = cap /\ recvq = <<>>
  /\ recvq # <<>> => buf = <<>>
  /\ closed /\ mu = NoClient => sendq = <<>> /\ recvq = <<>>

NoLostWakeup == QueuesMatchPc /\ ParkedForAReason

(* What the channel promises its users (MessageLog): a message is received *)
(* at most once, in the order of acceptance, a refused one never, and none *)
(* is accepted once the Go channel is closed.                              *)
Log == INSTANCE MessageLog WITH room <- cap, sealed <- goClosed
ImplementsLog == Log!Spec

(* A builtin tells the truth about its message: one that reported success  *)
(* is in the channel or was received, one that reported an error or "full" *)
(* never will be.  The race of close with a send past its check, and the   *)
(* senders parked when close comes, are where the two could disagree.      *)
HonestReplies ==
  \A c \in Clients :
    /\ reply[c].is = "sent" => reply[c].msg \in Log!Entries(accepted)
    /\ reply[c].is \in {"full", "closed_error"} =>
         reply[c].msg \notin Log!Entries(accepted)

(* A receiver that was told the channel has ended (recv's null) was told   *)
(* so when every accepted message had been received, and no other follows. *)
EndMeansDrained ==
  (\E c \in Clients : reply[c].is = "end") => goClosed /\ received = accepted

(* Two messages of one sender are received in the order they were sent: a  *)
(* send that finds the buffer full keeps its task parked, so that the      *)
(* task's next message cannot overtake the one that waits.                 *)
SenderOrder ==
  \A i, j \in DOMAIN received :
    (i < j /\ received[i][1] = received[j][1]) => received[i][2] < received[j][2]

(* Closing a channel frees everyone: a client that is inside send, recv or *)
(* close when the flag is set gets its answer.                             *)
CloseReleases == \A c \in Clients : (closed /\ pc[c] # "idle") ~> pc[c] = "idle"

=============================================================================
