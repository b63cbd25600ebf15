------------------------------ MODULE GoChannel ------------------------------
(***************************************************************************)
(* Go's buffered channels, as far as this SDK uses them: a queue of what   *)
(* was sent and not yet received, and whether the channel was closed.      *)
(* Sending on or closing a closed channel panics in Go; the modules that   *)
(* use a channel state as an invariant that nobody is about to do so.      *)
(***************************************************************************)
EXTENDS Naturals, Sequences

ChannelOf(M) == [buf : Seq(M), closed : BOOLEAN]

NewChannel == [buf |-> <<>>, closed |-> FALSE]

\* A send goes through once the buffer has room.
HasRoom(ch, cap) == Len(ch.buf) < cap

Sent(ch, m) == [ch EXCEPT !.buf = Append(ch.buf, m)]

\* A receive goes through once something is buffered.
HasMessage(ch) == ch.buf # <<>>

NextMessage(ch) == Head(ch.buf)

Received(ch) == [ch EXCEPT !.buf = Tail(ch.buf)]

\* What `for x := range ch` waits for before it leaves the loop.
Drained(ch) == ch.closed /\ ch.buf = <<>>

Closed(ch) == [ch EXCEPT !.closed = TRUE]
==============================================================================
