-------------------------- MODULE MCFeishuChannel --------------------------
(* FeishuChannel for TLC: two chats, and two messages and a command. *)
EXTENDS FeishuChannel, TLC

CONSTANTS chatA, chatB, m1, m2, m3

MCChatOf == (m1 :> chatA) @@ (m2 :> chatB) @@ (m3 :> chatB)

\* Many deliveries, two answers, or an answer and a notice.
Limit(a, r, n) ==
    [arrivals |-> a, replies |-> r, notices |-> n]
MCBounds == {Limit(5, 1, 0), Limit(3, 2, 0), Limit(1, 1, 1)}
============================================================================
