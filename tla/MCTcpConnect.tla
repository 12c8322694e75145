----------------------------- MODULE MCTcpConnect -----------------------------
(* Two connections, three strings each way, handshakes of two bytes. *)
EXTENDS TcpConnect

MCHandshake   == << 19, 1 >>
MCPeerStrings == { << >>, << MessageId.Unchoke >>, << MessageId.Have, 3 >> }
MCOwnMessages == { [id |-> MessageId.Interested, payload |-> << >>] }
Zero          == {0}
ZeroOrOne     == {0, 1}
===============================================================================
