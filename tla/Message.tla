------------------------------- MODULE Message -------------------------------
(***************************************************************************)
(* message.h, message.cpp: the messages of the peer protocol.  A string is *)
(* a sequence of bytes.                                                    *)
(***************************************************************************)
EXTENDS ByteTools

\* KeepAlive is the client's own name for the message that has no id.
MessageId ==
  [Choke |-> 0, Unchoke |-> 1, Interested |-> 2, NotInterested |-> 3, Have |-> 4,
   BitField |-> 5, Request |-> 6, Piece |-> 7, Cancel |-> 8, Port |-> 9, KeepAlive |-> 10]

\* What follows the length prefix, as ReceiveData returns it.
Parse(string) ==
  IF string = << >> THEN [id |-> MessageId.KeepAlive, payload |-> << >>]
  ELSE [id |-> Head(string), payload |-> Tail(string)]

\* The length Init computes.
MessageLength(message) == IF message.id = MessageId.KeepAlive THEN 0 ELSE 1 + Len(message.payload)

\* ToString: the id is written for every message, for a KeepAlive too.
WireString(message) ==
  IntToBytes(MessageLength(message)) \o << message.id >> \o message.payload
===============================================================================
