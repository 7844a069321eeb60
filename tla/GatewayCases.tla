---------------------------- MODULE GatewayCases ----------------------------
(* Instances of GatewayQueue for TLC. *)
EXTENDS GatewayQueue

\* One group links itself and decides, the other chats and asks.
TwoGroups == <<"a", "b", "a", "b">>
Busy == <<"link", "talk", "decide", "ask">>
SomeLinks == {{"a", "b"}, {}}

\* A decision and a question in one group, a word in another, all linked.
ThreeMessages == <<"decide", "talk", "ask">>
AllLinked == {{"a", "b"}}

OneGroup == [m \in Message |-> "a"]
LinkThenAsk == <<"link", "ask">>
OneQuestion == <<"ask">>
NoLinks == {{}}

EveryFault == {"disconnect", "logout", "crash", "repeat", "uncertain"}
NoDisconnects == {"crash", "repeat", "uncertain"}
OnlyDisconnects == {"disconnect"}
NoFaults == {}
=============================================================================
