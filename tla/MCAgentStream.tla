--------------------------- MODULE MCAgentStream ---------------------------
(* AgentStream for TLC: the set of contents and the list of channels. *)
EXTENDS AgentStream

CONSTANTS c1, c2

MCContents == (1..MaxReplies) \X (0..MaxText)
MCChannelList == <<c1, c2>>
============================================================================
