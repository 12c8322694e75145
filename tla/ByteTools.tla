------------------------------ MODULE ByteTools ------------------------------
(* byte_tools.cpp: integers of 32 bits as four bytes, the highest first. *)
EXTENDS Integers, Sequences

Byte == 0 .. 255

\* One byte of an integer; of a negative one, of its two's complement.
ByteOf(n, power) == (n \div power) % 256

\* htonl of a uint32_t, which a negative int is converted to.
IntToBytes(n) ==
  << ByteOf(n, 16777216), ByteOf(n, 65536), ByteOf(n, 256), ByteOf(n, 1) >>

\* The lower 24 bits, and what the highest byte adds to them.
LowBytes(bytes) == bytes[2] * 65536 + bytes[3] * 256 + bytes[4]

\* ntohl, read as the uint32_t it is (the length in TcpConnect::ReceiveData).
BytesToUnsigned(bytes) == bytes[1] * 16777216 + LowBytes(bytes)

\* BytesToInt converts that to int, which wraps from 2^31 on.
BytesToInt(bytes) ==
  (IF bytes[1] < 128 THEN bytes[1] ELSE bytes[1] - 256) * 16777216 + LowBytes(bytes)
===============================================================================
