-------------------------- MODULE GoChannelTheorems --------------------------
(***************************************************************************)
(* The facts about sequences that the proofs of this project rest on, and  *)
(* what the operations of GoChannel do to a channel of messages from M.    *)
(***************************************************************************)
EXTENDS GoChannel, TLAPS

\* Appending one element: where the old elements and the new one are.
LEMMA AppendFacts ==
  ASSUME NEW S, NEW s \in Seq(S), NEW e \in S
  PROVE  /\ Append(s, e) \in Seq(S)
         /\ Len(s) \in Nat
         /\ DOMAIN s = 1 .. Len(s)
         /\ DOMAIN Append(s, e) = 1 .. Len(s) + 1
         /\ \A i \in DOMAIN s : Append(s, e)[i] = s[i] /\ s[i] \in S
         /\ Append(s, e)[Len(s) + 1] = e
OBVIOUS

\* Removing the first element of a sequence that has one.
LEMMA TailProperties ==
  ASSUME NEW S, NEW s \in Seq(S), s # <<>>
  PROVE  /\ Head(s) \in S
         /\ Head(s) = s[1]
         /\ 1 \in DOMAIN s
         /\ Tail(s) \in Seq(S)
         /\ Len(s) \in Nat
         /\ DOMAIN s = 1 .. Len(s)
         /\ DOMAIN Tail(s) = 1 .. Len(s) - 1
         /\ \A i \in DOMAIN Tail(s) : i + 1 \in DOMAIN s /\ Tail(s)[i] = s[i + 1]
OBVIOUS

\* Concatenating a sequence of one element, and of none.
LEMMA ConcatShort ==
  ASSUME NEW S, NEW s \in Seq(S)
  PROVE  /\ s \o <<>> = s
         /\ \A e \in S : s \o <<e>> = Append(s, e)
OBVIOUS

\* Concatenating, then appending: what moves through two queues in a row.
LEMMA ConcatAppend ==
  ASSUME NEW S, NEW s \in Seq(S), NEW t \in Seq(S)
  PROVE  /\ s \o t \in Seq(S)
         /\ \A e \in S : s \o Append(t, e) = Append(s \o t, e)
OBVIOUS

\* Moving the head of the second queue to the end of the first.
LEMMA ConcatHeadTail ==
  ASSUME NEW S, NEW s \in Seq(S), NEW t \in Seq(S), t # <<>>
  PROVE  Append(s, Head(t)) \o Tail(t) = s \o t
OBVIOUS

-----------------------------------------------------------------------------

\* A fresh channel is empty and open.
LEMMA NewChannelProperties ==
  ASSUME NEW M
  PROVE  /\ NewChannel \in ChannelOf(M)
         /\ NewChannel.buf = <<>>
         /\ NewChannel.closed = FALSE
BY DEF NewChannel, ChannelOf

\* A send appends and does not close.
LEMMA SentProperties ==
  ASSUME NEW M, NEW ch \in ChannelOf(M), NEW m \in M
  PROVE  /\ Sent(ch, m) \in ChannelOf(M)
         /\ Sent(ch, m).closed = ch.closed
         /\ Sent(ch, m).buf = Append(ch.buf, m)
         /\ ch.buf \in Seq(M)
BY DEF Sent, ChannelOf

\* A receive takes the head and does not close.
LEMMA ReceivedProperties ==
  ASSUME NEW M, NEW ch \in ChannelOf(M), HasMessage(ch)
  PROVE  /\ NextMessage(ch) \in M
         /\ NextMessage(ch) = Head(ch.buf)
         /\ Received(ch) \in ChannelOf(M)
         /\ Received(ch).closed = ch.closed
         /\ Received(ch).buf = Tail(ch.buf)
         /\ ch.buf \in Seq(M)
         /\ ch.buf # <<>>
<1>1. ch.buf \in Seq(M) /\ ch.buf # <<>>
  BY DEF ChannelOf, HasMessage
<1>2. Head(ch.buf) \in M /\ Tail(ch.buf) \in Seq(M)
  BY <1>1, TailProperties
<1> QED BY <1>1, <1>2 DEF ChannelOf, NextMessage, Received

\* A close keeps what is buffered.
LEMMA ClosedProperties ==
  ASSUME NEW M, NEW ch \in ChannelOf(M)
  PROVE  /\ Closed(ch) \in ChannelOf(M)
         /\ Closed(ch).closed = TRUE
         /\ Closed(ch).buf = ch.buf
BY DEF Closed, ChannelOf
==============================================================================
