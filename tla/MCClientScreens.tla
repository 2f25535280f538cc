---------------------------- MODULE MCClientScreens ----------------------------
(***************************************************************************)
(* Small values for the constants of ClientScreens.                        *)
(***************************************************************************)
EXTENDS ClientScreens

MCAttempts == [kind \in CommandKinds |-> IF kind = "chat" THEN 2 ELSE 1]
MCHome == CHOOSE home \in [LobbyTables -> LobbyRooms] : \A s, t \in LobbyTables : home[s] = home[t] => s = t
\* Thirteen cards with a tunnela, pairs, runs, the neighbours of the indicator and a Man.
Spade(rank, copy) == [rank |-> rank, suit |-> "S", copy |-> copy]
Heart(rank, copy) == [rank |-> rank, suit |-> "H", copy |-> copy]
MCDeck ==
    {Spade(2, 1), Spade(2, 2), Spade(2, 3), Spade(3, 1), Spade(4, 1), Spade(3, 2), Spade(4, 2),
     Heart(5, 2), Heart(6, 1), Heart(5, 1), Heart(2, 1), Heart(4, 1), [rank |-> 0, suit |-> "man", copy |-> 1]}
MCIndicators == {<<5, "H">>}
MCUrls == (Sessions \cup {None}) \X (Rooms \cup {None})
\* What the part that runs can change: all else stays as it began, and began in one way.
Running ==
    CASE part = "session" -> <<part, vars>> [] part = "social" -> <<part, socialVars>> [] part = "phrases" -> <<part, phraseVars>>
      [] part = "chat" -> <<part, chatVars>> [] part = "friends" -> <<part, friendVars>> [] part = "callbreak" -> <<part, callBreakVars>>
      [] part = "flush" -> <<part, flushViewVars>> [] part = "marriage" -> <<part, marriageVars>>
      [] part = "finish" -> <<part, finishVars>> [] part = "lobby" -> <<part, lobbyVars>>
      [] part = "tables" -> <<part, tables>> [] part = "recent" -> <<part, recent>> [] part = "cards" -> <<part, cards>>
      [] part = "search" -> <<part, search>>
===============================================================================
