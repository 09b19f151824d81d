------------------------------ MODULE TcpClient ------------------------------
(***************************************************************************)
(* The client of core/client.rs.  Calls that take &self (send, try_send,   *)
(* receive) run at once in several tasks and share one mutex around the    *)
(* stream; calls that take &mut self (connect, disconnect, reconnect and   *)
(* the two with_reconnect) exclude every other call.  A step runs from one *)
(* await to the next.  A frame is written in one or two pieces; of the     *)
(* connection the model keeps what the client can observe, and what has    *)
(* been written on it.  Nothing is counted, so there is nothing to bound:  *)
(* a client may go through any number of connections.                      *)
(***************************************************************************)
EXTENDS Integers

CONSTANTS
    Tasks,         \* callers
    AttemptLimits, \* the values of config.max_reconnect_attempts considered
    Nobody         \* holds the mutex when no task does

ASSUME ClientAssumption == AttemptLimits \subseteq Nat /\ Nobody \notin Tasks

VARIABLES
    autoReconnect, \* config.auto_reconnect
    maxAttempts,   \* config.max_reconnect_attempts
    state,         \* ClientState
    link,          \* the stream: "none", "open", "gone" (the peer is, but writes
                   \* still succeed), or "dead" (writes report it too)
    written,       \* history: nothing, whole frames, or a cut one on the stream
    holder,        \* of the stream's mutex
    pc,            \* where each task is in its call
    op,            \* the call
    second,        \* the call has reconnected, and tries again
    attempt,       \* attempts of the reconnect under way
    landed,        \* history: how often the call's frame was written, up to 2
    up             \* the server accepts connections

clientVars == <<autoReconnect, maxAttempts, state, link, written, holder, pc, op,
                second, attempt, landed, up>>

config   == <<autoReconnect, maxAttempts>>
callVars == <<op, second, attempt, landed>>

-----------------------------------------------------------------------------

SharedSends == {"send", "try_send"}
Sends       == SharedSends \union {"send_with_reconnect"}
Receives    == {"receive", "receive_with_reconnect"}
Retrying    == {"send_with_reconnect", "receive_with_reconnect"}
Redialling  == Retrying \union {"reconnect"}

ClientInit ==
    /\ autoReconnect \in BOOLEAN /\ maxAttempts \in AttemptLimits
    /\ state = "Disconnected" /\ link = "none" /\ written = "nothing"
    /\ holder = Nobody
    /\ pc = [t \in Tasks |-> "out"] /\ op = [t \in Tasks |-> "none"]
    /\ second = [t \in Tasks |-> FALSE] /\ landed = [t \in Tasks |-> 0]
    /\ attempt = 0
    /\ up \in BOOLEAN

\* &mut self: no call is under way.
Alone == \A t \in Tasks : pc[t] = "out"

\* &self: no call with &mut self is.
Shareable ==
    \A t \in Tasks : pc[t] = "out" \/ op[t] \in SharedSends \union {"receive"}

-----------------------------------------------------------------------------
(* The decisions of the code, most with the form a slip would give them. *)

\* is_connection_error, by the kind of the error.
OnlyConnection(kind) == kind = "connection"
IsConnectionError(kind) == kind \in {"connection", "invalid"}

\* reconnect counts its attempts.
NotCounted == attempt
Counted == attempt + 1

\* A new connection replaces the stream.
OldStream == written
NewStream == "nothing"

\* A read is given up after read_timeout, and with it the lock.
ReadTimesOut == TRUE

-----------------------------------------------------------------------------
(* How a call ends. *)

Released(t) == IF holder = t THEN Nobody ELSE holder

\* What is on the stream when task t stops writing.
AfterStop(t) == IF pc[t] = "rest" THEN "cut" ELSE written

Return(t) ==
    /\ pc' = [pc EXCEPT ![t] = "out"]
    /\ holder' = Released(t)
    /\ op' = [op EXCEPT ![t] = "none"]
    /\ second' = [second EXCEPT ![t] = FALSE]
    /\ landed' = [landed EXCEPT ![t] = 0]
    /\ attempt' = 0

\* An error of the kind given: returned, unless the call is one with_reconnect
\* in its first try, and the error one of a lost connection.
Fail(t, kind) ==
    IF op[t] \in Retrying /\ ~second[t] /\ autoReconnect /\ IsConnectionError(kind)
    THEN /\ pc' = [pc EXCEPT ![t] = "redialling"]
         /\ holder' = Released(t)
         /\ UNCHANGED callVars
    ELSE Return(t)

-----------------------------------------------------------------------------
(* send, try_send, receive and their with_reconnect forms. *)

Call(t, o) ==
    /\ pc[t] = "out"
    /\ IF o \in Retrying THEN Alone ELSE Shareable
    /\ pc' = [pc EXCEPT ![t] = "checking"]
    /\ op' = [op EXCEPT ![t] = o]
    /\ UNCHANGED <<config, state, link, written, holder, second, attempt,
                   landed, up>>

Check(t) ==
    /\ pc[t] = "checking"
    /\ IF state = "Connected"
       THEN pc' = [pc EXCEPT ![t] = "locking"] /\ UNCHANGED <<holder, callVars>>
       ELSE Fail(t, "invalid")
    /\ UNCHANGED <<config, state, link, written, up>>

\* encode refuses a message that is too large.
EncodeError(t) ==
    /\ pc[t] = "checking"
    /\ state = "Connected"
    /\ op[t] \in Sends
    /\ Fail(t, "too large")
    /\ UNCHANGED <<config, state, link, written, up>>

Lock(t) ==
    /\ pc[t] = "locking"
    /\ holder = Nobody
    /\ IF link # "none"
       THEN /\ holder' = t
            /\ pc' = [pc EXCEPT ![t] = IF op[t] \in Sends THEN "writing" ELSE "reading"]
            /\ UNCHANGED callVars
       ELSE Fail(t, "invalid")
    /\ UNCHANGED <<config, state, link, written, up>>

\* The kernel takes the first piece of the frame ...
WritePiece(t) ==
    /\ pc[t] = "writing"
    /\ link \in {"open", "gone"}
    /\ pc' = [pc EXCEPT ![t] = "rest"]
    /\ UNCHANGED <<config, state, link, written, holder, callVars, up>>

\* ... and all of it: Ok(()), with the mutex given back.  The step "landed"
\* stands for the return.
WriteAll(t) ==
    /\ pc[t] \in {"writing", "rest"}
    /\ link \in {"open", "gone"}
    /\ pc' = [pc EXCEPT ![t] = "landed"]
    /\ written' = IF written = "nothing" THEN "frames" ELSE written
    /\ holder' = Nobody
    /\ landed' = [landed EXCEPT ![t] = IF @ < 2 THEN @ + 1 ELSE @]
    /\ UNCHANGED <<config, state, link, op, second, attempt, up>>

SendOk(t) ==
    /\ pc[t] = "landed"
    /\ Return(t)
    /\ UNCHANGED <<config, state, link, written, up>>

WriteError(t) ==
    /\ pc[t] \in {"writing", "rest"}
    /\ link = "dead"
    /\ written' = AfterStop(t)
    /\ Fail(t, "connection")
    /\ UNCHANGED <<config, state, link, up>>

\* The socket does not become writable, the write does not end, or try_send
\* finds no room (an error of another kind, treated alike).
WriteTimeout(t) ==
    /\ pc[t] \in {"writing", "rest"}
    /\ written' = AfterStop(t)
    /\ Fail(t, "timeout")
    /\ UNCHANGED <<config, state, link, up>>

\* What a peer sent before it went can still be read.
ReadOk(t) ==
    /\ pc[t] = "reading"
    /\ link \in {"open", "gone"}
    /\ Return(t)
    /\ UNCHANGED <<config, state, link, written, up>>

ReadError(t) ==
    /\ pc[t] = "reading"
    /\ link \in {"gone", "dead"}
    /\ Fail(t, "connection")
    /\ UNCHANGED <<config, state, link, written, up>>

\* The read or the assembly takes too long, or the length announced is too large.
ReadTimeout(t) ==
    /\ pc[t] = "reading"
    /\ ReadTimesOut
    /\ Fail(t, "timeout")
    /\ UNCHANGED <<config, state, link, written, up>>

-----------------------------------------------------------------------------
(* connect, reconnect, disconnect. *)

Connect(t) ==
    /\ Alone
    /\ state \notin {"Connected", "Connecting"}
    /\ state' = "Connecting"
    /\ pc' = [pc EXCEPT ![t] = "dialling"]
    /\ op' = [op EXCEPT ![t] = "connect"]
    /\ UNCHANGED <<config, link, written, holder, second, attempt, landed, up>>

Reconnect(t) ==
    /\ Alone
    /\ pc' = [pc EXCEPT ![t] = "redialling"]
    /\ op' = [op EXCEPT ![t] = "reconnect"]
    /\ UNCHANGED <<config, state, link, written, holder, second, attempt,
                   landed, up>>

\* The head of reconnect's loop: one more attempt, or none is left.
Redial(t) ==
    /\ pc[t] = "redialling"
    /\ IF attempt < maxAttempts
       THEN /\ attempt' = Counted
            /\ state' = "Reconnecting"
            /\ pc' = [pc EXCEPT ![t] = "dialling"]
            /\ UNCHANGED <<holder, op, second, landed>>
       ELSE state' = "Disconnected" /\ Return(t)
    /\ UNCHANGED <<config, link, written, up>>

\* TcpStream::connect succeeds, and the stream is stored.
DialOk(t) ==
    /\ pc[t] = "dialling"
    /\ up
    /\ link' = "open" /\ written' = NewStream
    /\ state' = "Connected"
    /\ IF op[t] \in Retrying
       THEN /\ pc' = [pc EXCEPT ![t] = "checking"]
            /\ second' = [second EXCEPT ![t] = TRUE]
            /\ UNCHANGED <<holder, op, attempt, landed>>
       ELSE Return(t)
    /\ UNCHANGED <<config, up>>

\* The address does not parse, the connection is refused or times out, or an
\* option cannot be set.  connect returns the error and leaves the state;
\* reconnect sleeps before the next attempt, or gives up.
DialFail(t) ==
    /\ pc[t] = "dialling"
    /\ IF op[t] \in Redialling
       THEN IF attempt >= maxAttempts
            THEN state' = "Disconnected" /\ Return(t)
            ELSE /\ pc' = [pc EXCEPT ![t] = "redialling"]
                 /\ UNCHANGED <<state, holder, callVars>>
       ELSE UNCHANGED state /\ Return(t)
    /\ UNCHANGED <<config, link, written, up>>

\* disconnect takes the stream and shuts it down; only then the state follows,
\* so that a disconnect dropped in between leaves a client that is Connected
\* without a stream.
BeginDisconnect(t) ==
    /\ Alone
    /\ link' = "none" /\ written' = "nothing"
    /\ pc' = [pc EXCEPT ![t] = "closing"]
    /\ op' = [op EXCEPT ![t] = "disconnect"]
    /\ UNCHANGED <<config, state, holder, second, attempt, landed, up>>

Disconnected(t) ==
    /\ pc[t] = "closing"
    /\ state' = "Disconnected"
    /\ Return(t)
    /\ UNCHANGED <<config, link, written, up>>

\* The caller drops the future of a call at one of its awaits.
Cancel(t) ==
    /\ pc[t] \in {"locking", "writing", "rest", "reading", "dialling", "redialling",
                 "closing"}
    /\ written' = AfterStop(t)
    /\ Return(t)
    /\ UNCHANGED <<config, state, link, up>>

-----------------------------------------------------------------------------
(* The server and the network. *)

ServerSwitch ==
    /\ up' = ~up
    /\ UNCHANGED <<config, state, link, written, holder, pc, callVars>>

PeerGone ==
    /\ link = "open"
    /\ link' = "gone"
    /\ UNCHANGED <<config, state, written, holder, pc, callVars, up>>

\* A reset arrives, or retransmissions are given up.
Noticed ==
    /\ link = "gone"
    /\ link' = "dead"
    /\ UNCHANGED <<config, state, written, holder, pc, callVars, up>>

-----------------------------------------------------------------------------

CallNext(t) ==
    \/ \E o \in Sends \union Receives : Call(t, o)
    \/ Check(t) \/ EncodeError(t) \/ Lock(t)
    \/ WritePiece(t) \/ WriteAll(t) \/ SendOk(t) \/ WriteError(t) \/ WriteTimeout(t)
    \/ ReadOk(t) \/ ReadError(t) \/ ReadTimeout(t)
    \/ Connect(t) \/ Reconnect(t) \/ Redial(t) \/ DialOk(t) \/ DialFail(t)
    \/ BeginDisconnect(t) \/ Disconnected(t) \/ Cancel(t)

ClientNext ==
    \/ \E t \in Tasks : CallNext(t)
    \/ ServerSwitch \/ PeerGone \/ Noticed

ClientSpec == ClientInit /\ [][ClientNext]_clientVars

\* A task goes on, its timeouts included; the mutex is handed over in the order
\* of arrival; a dead peer is noticed in the end.
Progress ==
    /\ \A t \in Tasks :
          /\ WF_clientVars(Check(t) \/ EncodeError(t))
          /\ WF_clientVars(SendOk(t)) /\ WF_clientVars(Redial(t))
          /\ WF_clientVars(Disconnected(t))
          /\ SF_clientVars(Lock(t))
          /\ WF_clientVars(WriteTimeout(t) \/ WriteError(t))
          /\ WF_clientVars(ReadTimeout(t) \/ ReadError(t))
          /\ WF_clientVars(DialOk(t) \/ DialFail(t))
    /\ WF_clientVars(Noticed)

\* The client's owner gets it back from the tasks that share it, calls
\* send_with_reconnect again and again, does not drop each call or give it a
\* message that is too large, and neither
\* the network nor the peer fails every one of them.
Sending(t) == op[t] = "send_with_reconnect"

Persistence ==
    /\ []<>Alone
    /\ \E t \in Tasks :
          /\ SF_clientVars(Call(t, "send_with_reconnect"))
          /\ SF_clientVars(Sending(t) /\ Check(t)) /\ SF_clientVars(Sending(t) /\ Lock(t))
          /\ SF_clientVars(Sending(t) /\ WriteError(t))
          /\ SF_clientVars(Sending(t) /\ Redial(t)) /\ SF_clientVars(Sending(t) /\ DialOk(t))

ClientFairSpec == ClientSpec /\ Progress

-----------------------------------------------------------------------------
(* Properties. *)

\* A message is written at most once by a call of send_with_reconnect, and its
\* second try finds a stream on which nothing was written before: not behind
\* the part of it that the first try left (client.rs:544-560).
RetryIsClean ==
    \A t \in Tasks :
        /\ landed[t] <= 1
        /\ second[t] /\ pc[t] \in {"writing", "rest"} => written = "nothing"

\* Every call returns: reads and writes time out, so that a send gets the mutex
\* that a receive holds, and reconnect's attempts are counted
\* (client.rs:222-254, client.rs:352-404, client.rs:450-510).
CallsEnd == \A t \in Tasks : pc[t] # "out" ~> pc[t] = "out"

\* With auto_reconnect, a client in any state, after a failed or dropped
\* connect, an exhausted reconnect or half a disconnect too, gets back to a
\* connection once the server stays up, if send_with_reconnect is called again
\* and again (client.rs:544-560, client.rs:602-607).
Recovers ==
    autoReconnect /\ maxAttempts > 0 /\ Persistence /\ <>[]up
        => []<>(state = "Connected" /\ link = "open")

=============================================================================
