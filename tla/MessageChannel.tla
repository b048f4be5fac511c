-------------------------- MODULE MessageChannel --------------------------
(***************************************************************************)
(* What the inspector agent's message queue promises: what the socket      *)
(* server posts reaches the inspector session in the order it was posted,  *)
(* each message at most once and none skipped.                             *)
(***************************************************************************)
EXTENDS Naturals, Sequences

CONSTANT Message

VARIABLES sent, received

channelVars == <<sent, received>>

ChannelInit == sent = <<>> /\ received = <<>>

Send(m) ==
    /\ sent' = Append(sent, m)
    /\ UNCHANGED received

Receive ==
    /\ Len(received) < Len(sent)
    /\ received' = Append(received, sent[Len(received) + 1])
    /\ UNCHANGED sent

ChannelNext == Receive \/ \E m \in Message : Send(m)

ChannelSpec == ChannelInit /\ [][ChannelNext]_channelVars
=============================================================================
