--------------------------- MODULE MCConversation ---------------------------
(***************************************************************************)
(* A thread of four messages, whose first two are /event commands, and two *)
(* rows of an earlier run of the bot that contradict it.                   *)
(***************************************************************************)
EXTENDS Conversation

Post(number, sender, reply, text) ==
    [number |-> number, sender |-> sender, reply |-> reply, text |-> text]

LivePosts == {Post(1, "user", 0, "event"), Post(2, "user", 1, "event"),
              Post(3, "bot", 2, "provisional"), Post(4, "user", 3, "long")}
StalePosts == {Post(1, "bot", 0, "short"), Post(3, "user", 1, "final")}

ThreadTexts == {"provisional", "progress", "final", "event", "short", "long"}
ThreadSize == [text \in ThreadTexts |->
    CASE text = "event" -> 3 [] text = "long" -> 5 [] OTHER -> 2]
=============================================================================
