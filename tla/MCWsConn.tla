------------------------------ MODULE MCWsConn ------------------------------
(* WsConn for TLC: a writer, a reader and a goroutine that calls WriteControl. *)
EXTENDS WsConn

\* The wire carries frames as RFC 6455 wants them, and nothing after a close or a failed
\* write (conn.go, write and advanceFrame).
Lawful == TypeOK /\ WireLegal /\ ReaderShutsWriter

\* A message that was reported as sent is on the wire, and what is read is what was sent
\* (conn.go, flushFrame and NextReader).
Faithful == SentWhole /\ ReadFaithful
=============================================================================
