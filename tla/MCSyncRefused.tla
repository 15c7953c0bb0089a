---------------------------- MODULE MCSyncRefused ----------------------------
(* One raw payload that carries a refusal of history sharing before a        *)
(* message of the history.                                                   *)
EXTENDS Conversations

CONSTANTS p1, h1

MCPhoneIn == [m \in Msgs |-> p1]
MCBsuidIn == [m \in Msgs |-> NoKey]
MCPayloads == << <<[kind |-> "off"], [kind |-> "message", msg |-> h1]>> >>
=============================================================================
