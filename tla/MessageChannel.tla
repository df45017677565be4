--------------------------- MODULE MessageChannel ---------------------------
(***************************************************************************)
(* What the websocket sessions promise to those who call send(): each      *)
(* client receives the messages one after the other, each once, in the     *)
(* order in which they were sent, and all of them unless its connection    *)
(* breaks.                                                                 *)
(***************************************************************************)
EXTENDS Naturals, Sequences

CONSTANTS Clients, Messages

VARIABLES
  sent,      \* per client: the messages given to send()
  received,  \* per client: the messages it has received
  down       \* the clients whose connection is broken

channelVars == <<sent, received, down>>

ChannelInit ==
  /\ sent = [c \in Clients |-> <<>>]
  /\ received = [c \in Clients |-> <<>>]
  /\ down = {}

Send(c) ==
  /\ \E m \in Messages : sent' = [sent EXCEPT ![c] = Append(@, m)]
  /\ UNCHANGED <<received, down>>

Deliver(c) ==
  /\ c \notin down
  /\ Len(received[c]) < Len(sent[c])
  /\ received' = [received EXCEPT ![c] = Append(@, sent[c][Len(@) + 1])]
  /\ UNCHANGED <<sent, down>>

Break(c) ==
  /\ down' = down \cup {c}
  /\ UNCHANGED <<sent, received>>

ChannelNext == \E c \in Clients : Send(c) \/ Deliver(c) \/ Break(c)

ChannelSpec ==
  /\ ChannelInit
  /\ [][ChannelNext]_channelVars
  /\ \A c \in Clients : WF_channelVars(Deliver(c))

=============================================================================
