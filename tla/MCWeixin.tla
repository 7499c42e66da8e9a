------------------------------ MODULE MCWeixin ------------------------------
(* The Weixin channel alone: every message is a text for the agent.          *)
EXTENDS WeixinChannel

MCKindOf == [m \in 1 .. MaxArrivals |-> "text"]

=============================================================================
