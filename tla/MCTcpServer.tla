---------------------------- MODULE MCTcpServer ----------------------------
(* Small instances of TcpServer for TLC. *)
EXTENDS TcpServer

\* Connections are interchangeable, as no action and no property names one: what
\* holds of one of them, among the others, holds of each.
Watched == CHOOSE c \in Conns : TRUE

\* The task of every session ends after stop() (server.rs:353-362).
StopEndsTasks == EndsAfterStop(Watched)

\* The cleanup task closes every session that stays idle (server.rs:287-313).
IdleSessionSwept == SweptWhenIdle(Watched)

=============================================================================
