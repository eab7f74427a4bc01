---------------------------- MODULE MCPluginManager ----------------------------
(* Versions 1.0 and 10.2 of a plugin chat, and the plugin chat-mychat.     *)
EXTENDS PluginManager, TLC

CONSTANTS chat, chat_mychat, chat1, chat10, mychat1

Packages ==
    chat1 :> [name |-> chat, version |-> 1, rank |-> 1, readable |-> TRUE,
              flaw |-> FALSE, script |-> TRUE, needs |-> FALSE] @@
    chat10 :> [name |-> chat, version |-> 10, rank |-> 2, readable |-> FALSE,
               flaw |-> FALSE, script |-> FALSE, needs |-> FALSE] @@
    mychat1 :> [name |-> chat_mychat, version |-> 1, rank |-> 3, readable |-> TRUE,
                flaw |-> TRUE, script |-> TRUE, needs |-> TRUE]

Chosen == [p \in Package |-> Packages[p]]
Longers == {<<chat, chat_mychat>>}
==============================================================================
