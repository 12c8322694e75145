---------------------------- MODULE MessageChannel ----------------------------
(***************************************************************************)
(* What a connection promises its user: the strings a peer sent come out   *)
(* whole, once and in order, until the connection is dropped; what was     *)
(* sent on one connection never comes out of the next.                     *)
(***************************************************************************)
EXTENDS Naturals, Sequences

CONSTANT Strings

VARIABLES connected, sent, received

channelVars == << connected, sent, received >>

ChannelInit == connected = FALSE /\ sent = << >> /\ received = << >>

Open ==
  /\ ~connected
  /\ connected' = TRUE
  /\ sent' = << >>
  /\ received' = << >>

PeerSends ==
  /\ \E string \in Strings : sent' = Append(sent, string)
  /\ UNCHANGED << connected, received >>

Deliver ==
  /\ connected
  /\ Len(received) < Len(sent)
  /\ received' = Append(received, sent[Len(received) + 1])
  /\ UNCHANGED << connected, sent >>

Drop == connected /\ connected' = FALSE /\ UNCHANGED << sent, received >>

ChannelNext == Open \/ PeerSends \/ Deliver \/ Drop

ChannelSpec == ChannelInit /\ [][ChannelNext]_channelVars
===============================================================================
