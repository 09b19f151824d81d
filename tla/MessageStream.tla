---------------------------- MODULE MessageStream ----------------------------
(***************************************************************************)
(* One direction of one connection, at the level of bytes: tasks of the    *)
(* sending end write frames, tasks of the receiving end decode them.       *)
(* Towards the server the ends are TcpClient::send (or try_send) and       *)
(* Session::receive; towards the client, Session::send and                 *)
(* TcpClient::receive.  The two receivers differ: a session keeps what it  *)
(* has read in its read_buffer, a client reads into a buffer that lives as *)
(* long as the call.  The wire is the kernel's: it delivers in order, in   *)
(* pieces of any size, and may be reset.  Mutexes are tokio's: taking one  *)
(* is a step, and a future that is dropped releases what it holds.         *)
(***************************************************************************)
EXTENDS Framing

CONSTANTS
    Senders, Receivers,   \* tasks
    Messages,             \* what the application sends, sequences of Bytes
    BufferSlack,          \* 1024 in MAX_BUFFER_SIZE
    WireCapacity,         \* bound: bytes under way
    MaxSends,             \* bound: calls of send
    None

ASSUME StreamAssumption ==
    /\ Messages \subseteq Seq(Bytes)
    /\ BufferSlack \in Nat \ {0} /\ WireCapacity \in Nat \ {0} /\ MaxSends \in Nat
    /\ None \notin Senders \union Receivers

VARIABLES
    direction,   \* "toServer" or "toClient"
    active,      \* Session.active
    idle,        \* Session::is_idle
    connected,   \* the client's state is Connected
    sender,      \* where each sending task is
    message,     \* its message
    frame,       \* the bytes it has still to write
    writer,      \* holder of the write half's mutex (a client: the stream's)
    writeOpen,   \* the write half is Some
    wire,        \* bytes under way
    reset,       \* the connection was reset
    receiver,    \* where each receiving task is
    reader,      \* holder of the read buffer's and the read half's mutexes
    readOpen,    \* the read half is Some
    buffer,      \* read_buffer, or the buffer of the call under way
    started,     \* history: calls of send
    sent,        \* history: messages whose frame is written, in that order
    received,    \* history: messages returned by receive
    failed,      \* history: how the first receive that failed came to fail
    cut,         \* history: a send ended in the middle of its frame
    dropped      \* history: a client's receive ended with bytes in its buffer

senderVars   == <<sender, message, frame, writer, started, sent, cut>>
receiverVars == <<receiver, reader, buffer, received, failed, dropped>>
endVars      == <<direction, active, connected, writeOpen, readOpen>>
vars == <<endVars, idle, wire, reset, senderVars, receiverVars>>

-----------------------------------------------------------------------------

Directions == {"toServer", "toClient"}

Init ==
    /\ direction \in Directions
    /\ active = TRUE /\ idle = FALSE /\ connected = TRUE
    /\ sender = [t \in Senders |-> "out"]
    /\ message = [t \in Senders |-> <<>>] /\ frame = [t \in Senders |-> <<>>]
    /\ writer = None /\ writeOpen = TRUE
    /\ wire = <<>> /\ reset = FALSE
    /\ receiver = [t \in Receivers |-> "out"]
    /\ reader = None /\ readOpen = TRUE
    /\ buffer = <<>>
    /\ started = 0 /\ sent = <<>> /\ received = <<>>
    /\ failed = "no" /\ cut = FALSE /\ dropped = FALSE

\* The checks at the top of Session::send and receive, and of the client's.
SessionMay == active /\ ~idle
ClientMay  == connected
SenderMay   == IF direction = "toClient" THEN SessionMay ELSE ClientMay
ReceiverMay == IF direction = "toServer" THEN SessionMay ELSE ClientMay

-----------------------------------------------------------------------------
(* The decisions of the code, most with the form a slip would give them. *)

\* The lock of the write half is held over the whole of write_all.
WriteUnlocked == TRUE
WriteFree == writer = None

\* close takes the write half under its lock.
CloseAtOnce == TRUE
CloseMayTake == writer = None

MaxMessageBuffer == MaxMessageSize
MaxBufferSize == MaxMessageSize + BufferSlack

\* What is left for the next call when a receive has rest in its buffer.
KeptForNext(rest) == IF direction = "toServer" THEN rest ELSE <<>>

\* A write and a read are given up after a time.
NoTimeout == FALSE
MayTimeOut == TRUE

-----------------------------------------------------------------------------
(* send. *)

SendReturns(t) ==
    /\ sender' = [sender EXCEPT ![t] = "out"]
    /\ frame' = [frame EXCEPT ![t] = <<>>]
    /\ message' = [message EXCEPT ![t] = <<>>]

\* A call that passes the checks and the encoding waits for the lock.
SendStart(t, m) ==
    /\ sender[t] = "out"
    /\ started < MaxSends
    /\ started' = started + 1
    /\ IF SenderMay /\ ~TooLarge(m)
       THEN /\ sender' = [sender EXCEPT ![t] = "locking"]
            /\ message' = [message EXCEPT ![t] = m]
            /\ frame' = [frame EXCEPT ![t] = Encode(m)]
       ELSE UNCHANGED <<sender, message, frame>>
    /\ UNCHANGED <<endVars, idle, wire, reset, writer, sent, cut, receiverVars>>

\* The lock is taken; a write half that is closed meanwhile is an error.
SendLock(t) ==
    /\ sender[t] = "locking"
    /\ WriteFree
    /\ IF writeOpen
       THEN /\ sender' = [sender EXCEPT ![t] = "writing"]
            /\ writer' = t
            /\ UNCHANGED <<message, frame>>
       ELSE SendReturns(t) /\ UNCHANGED writer
    /\ UNCHANGED <<endVars, idle, wire, reset, started, sent, cut, receiverVars>>

\* write_all: the kernel takes a piece; with the last one the send returns Ok,
\* and a session is not idle any more.
Write(t) ==
    /\ sender[t] = "writing"
    /\ ~reset
    /\ \E n \in 1 .. Len(frame[t]) :
          /\ Len(wire) + n <= WireCapacity
          /\ wire' = wire \o SubSeq(frame[t], 1, n)
          /\ IF n = Len(frame[t])
             THEN /\ SendReturns(t)
                  /\ writer' = None
                  /\ sent' = Append(sent, message[t])
                  /\ idle' = (idle /\ direction = "toServer")
             ELSE /\ frame' = [frame EXCEPT ![t] = SubSeq(@, n + 1, Len(@))]
                  /\ UNCHANGED <<sender, message, writer, sent, idle>>
    /\ UNCHANGED <<endVars, reset, started, cut, receiverVars>>

\* The write times out or fails, try_send finds no room, or the caller drops
\* the future: what is written stays written.
SendFail(t) ==
    /\ sender[t] = "writing"
    /\ MayTimeOut \/ reset
    /\ SendReturns(t)
    /\ writer' = None
    /\ cut' = (cut \/ Len(frame[t]) < HeaderSize + Len(message[t]))
    /\ UNCHANGED <<endVars, idle, wire, reset, started, sent, receiverVars>>

\* The caller drops the future while it waits for the lock.
SendCancel(t) ==
    /\ sender[t] = "locking"
    /\ SendReturns(t)
    /\ UNCHANGED <<endVars, idle, wire, reset, writer, started, sent, cut,
                   receiverVars>>

-----------------------------------------------------------------------------
(* receive. *)

\* The call fails: "error" is an answer of the stream or of decode, "givenUp" is
\* a timeout, or that the caller drops the future.
Fails(how) == failed' = IF failed = "no" THEN how ELSE failed

ReceiveStart(t) ==
    /\ receiver[t] = "out"
    /\ ReceiverMay
    /\ receiver' = [receiver EXCEPT ![t] = "locking"]
    /\ UNCHANGED <<endVars, idle, wire, reset, senderVars, reader, buffer,
                   received, failed, dropped>>

ReceiveLock(t) ==
    /\ receiver[t] = "locking"
    /\ reader = None
    /\ IF readOpen
       THEN /\ receiver' = [receiver EXCEPT ![t] = "fresh"] /\ reader' = t
            /\ UNCHANGED failed
       ELSE /\ receiver' = [receiver EXCEPT ![t] = "out"] /\ UNCHANGED reader
            /\ Fails("error")
    /\ UNCHANGED <<endVars, idle, wire, reset, senderVars, buffer, received,
                   dropped>>

ReceiveCancel(t) ==
    /\ receiver[t] = "locking"
    /\ receiver' = [receiver EXCEPT ![t] = "out"]
    /\ Fails("givenUp")
    /\ UNCHANGED <<endVars, idle, wire, reset, senderVars, reader, buffer,
                   received, dropped>>

\* In the loop; "again" when it has read already, so that time has passed.
InLoop(t) == receiver[t] \in {"fresh", "again"}

\* The call ends with rest in its buffer.
ReceiveReturns(t, rest) ==
    /\ receiver' = [receiver EXCEPT ![t] = "out"]
    /\ reader' = None
    /\ buffer' = KeptForNext(rest)
    /\ dropped' = (dropped \/ (direction = "toClient" /\ rest # <<>>))

\* decode finds a message.
ReceiveOk(t) ==
    /\ InLoop(t)
    /\ Complete(buffer)
    /\ ReceiveReturns(t, RestOf(buffer))
    /\ received' = Append(received, MessageIn(buffer))
    /\ idle' = (idle /\ direction = "toClient")
    /\ UNCHANGED <<endVars, wire, reset, senderVars, failed>>

\* read_buf returns a piece of what is there.
Read(t) ==
    /\ InLoop(t)
    /\ Incomplete(buffer) /\ Len(buffer) < MaxBufferSize
    /\ ~reset
    /\ \E n \in 1 .. Len(wire) :
          /\ buffer' = buffer \o SubSeq(wire, 1, n)
          /\ wire' = SubSeq(wire, n + 1, Len(wire))
    /\ receiver' = [receiver EXCEPT ![t] = "again"]
    /\ UNCHANGED <<endVars, idle, reset, senderVars, reader, received, failed,
                   dropped>>

\* The length is too large; the buffer has its maximal size and no message; the
\* peer has closed; or the read fails.
ReceiveError(t) ==
    /\ InLoop(t)
    /\ \/ Rejected(buffer)
       \/ Incomplete(buffer) /\ Len(buffer) >= MaxBufferSize
       \/ Incomplete(buffer) /\ wire = <<>> /\ ~writeOpen
       \/ Incomplete(buffer) /\ reset
    /\ ReceiveReturns(t, buffer)
    /\ Fails("error")
    /\ UNCHANGED <<endVars, idle, wire, reset, senderVars, received>>

\* The read times out, the caller drops the future, or the whole assembly has
\* taken too long.
ReceiveTimeout(t) ==
    /\ InLoop(t)
    /\ Incomplete(buffer) \/ receiver[t] = "again"
    /\ MayTimeOut
    /\ ReceiveReturns(t, buffer)
    /\ Fails("givenUp")
    /\ UNCHANGED <<endVars, idle, wire, reset, senderVars, received>>

-----------------------------------------------------------------------------
(* The ends. *)

\* Session::close: the flag first, then the half of this direction, once no
\* call holds it.
CloseStart ==
    /\ active
    /\ active' = FALSE
    /\ UNCHANGED <<direction, connected, writeOpen, readOpen, idle, wire, reset,
                   senderVars, receiverVars>>

CloseHalf ==
    /\ ~active
    /\ IF direction = "toClient"
       THEN writeOpen /\ CloseMayTake /\ writeOpen' = FALSE /\ UNCHANGED readOpen
       ELSE readOpen /\ reader = None /\ readOpen' = FALSE /\ UNCHANGED writeOpen
    /\ UNCHANGED <<direction, active, connected, idle, wire, reset, senderVars,
                   receiverVars>>

\* TcpClient::disconnect, which excludes other calls (&mut self).
Disconnect ==
    /\ connected
    /\ connected' = FALSE
    /\ IF direction = "toServer"
       THEN /\ \A t \in Senders : sender[t] = "out"
            /\ writeOpen' = FALSE /\ UNCHANGED readOpen
       ELSE /\ \A t \in Receivers : receiver[t] = "out"
            /\ readOpen' = FALSE /\ UNCHANGED writeOpen
    /\ UNCHANGED <<direction, active, idle, wire, reset, senderVars, receiverVars>>

\* Nothing was sent or received for longer than idle_timeout.
GrowIdle ==
    /\ ~idle
    /\ idle' = TRUE
    /\ UNCHANGED <<endVars, wire, reset, senderVars, receiverVars>>

\* The connection is reset, with what is under way.
Reset ==
    /\ ~reset
    /\ reset' = TRUE /\ wire' = <<>>
    /\ UNCHANGED <<endVars, idle, senderVars, receiverVars>>

-----------------------------------------------------------------------------

Next ==
    \/ \E t \in Senders, m \in Messages : SendStart(t, m)
    \/ \E t \in Senders : SendLock(t) \/ Write(t) \/ SendFail(t) \/ SendCancel(t)
    \/ \E t \in Receivers : \/ ReceiveStart(t) \/ ReceiveLock(t) \/ ReceiveCancel(t)
                            \/ ReceiveOk(t) \/ Read(t)
                            \/ ReceiveError(t) \/ ReceiveTimeout(t)
    \/ CloseStart \/ CloseHalf \/ Disconnect \/ GrowIdle \/ Reset

Spec == Init /\ [][Next]_vars

\* A task that can go on does; tokio's mutexes are handed over in the order of
\* arrival; bytes under way arrive at a reader that waits; and the receiving end
\* calls receive until a call fails, as the server's loop does
\* (core/server.rs:406-418).  No timer is assumed to fire.
Fairness ==
    /\ \A t \in Senders : SF_vars(SendLock(t))
    /\ WF_vars(failed = "no" /\ \E t \in Receivers : ReceiveStart(t))
    /\ \A t \in Receivers :
          /\ SF_vars(ReceiveLock(t)) /\ WF_vars(ReceiveOk(t))
          /\ WF_vars(ReceiveError(t)) /\ WF_vars(Read(t))

FairSpec == Spec /\ Fairness

-----------------------------------------------------------------------------
(* Properties. *)

Payloads == UNION {[1 .. n -> Bytes] : n \in 0 .. MaxMessageSize}

Channel == INSTANCE MessageChannel WITH broken <- cut \/ dropped

\* Messages arrive once and in the order their frames were written, whatever
\* tasks send at once, however the bytes are split, and however often a receive
\* times out or is cancelled in the middle of a frame, as long as no send was
\* cut short and no client dropped bytes (session/mod.rs:152-251).
IsAChannel == Channel!Spec

\* A graceful close never cuts a frame: a receiver that has read all that was
\* written has all messages and no part of another (session/mod.rs:257-276).
CleanClose ==
    ~writeOpen /\ wire = <<>> /\ ~reset /\ ~cut /\ ~dropped /\ Incomplete(buffer)
        => buffer = <<>> /\ received = sent

\* The receiving end catches up with what was written, and again after each of
\* the finitely many sends, unless the connection broke, the receiving end was
\* closed or has become idle, or a receive was given up: there the server's loop
\* ends, and what comes later is not received though the session stays active.
\* No other failure of a receive keeps a message back (session/mod.rs:189-251,
\* client.rs:352-404, server.rs:406-418).
Delivers ==
    []<>(\/ Len(received) = Len(sent)
         \/ cut \/ dropped \/ reset \/ ~ReceiverMay \/ failed = "givenUp")

\* The timer of a call that stays where it is fires in the end.
TimersFire ==
    /\ \A t \in Senders : WF_vars(SendFail(t))
    /\ \A t \in Receivers : WF_vars(ReceiveTimeout(t))

\* No call of send or receive waits for ever: the timeouts end what a silent
\* peer would not, and the locks are given back (session/mod.rs:172-176,
\* session/mod.rs:240-245).
CallsReturn ==
    TimersFire =>
        /\ \A t \in Senders : sender[t] # "out" ~> sender[t] = "out"
        /\ \A t \in Receivers : receiver[t] # "out" ~> receiver[t] = "out"

=============================================================================
