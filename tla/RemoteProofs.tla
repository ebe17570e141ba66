---------------------------- MODULE RemoteProofs ----------------------------
(***************************************************************************)
(* What Remote promises for any list of topics and any inbox: when the     *)
(* process may end with an exception, and what the broker tells Agora of a *)
(* client that is gone.                                                    *)
(***************************************************************************)
EXTENDS Remote, TLAPS

\* is_connected is set, and MQTTClient_destroy has not been called yet
Talking == {"running", "observation", "observed", "delta", "goodbye", "disconnect"}
Leaving == {"destroy", "flag", "join", "gone"}

\* the type of the state that the threads and the broker share
RemTypeOK ==
  /\ connected \in BOOLEAN /\ dropped \in BOOLEAN /\ goodbye \in BOOLEAN /\ byes \in Nat
  /\ link \in {"none", "up", "broken", "closed"}
  /\ client \in {"none", "live", "freed"}
  /\ main \in {"start"} \cup Talking \cup Leaving
  /\ support \in {"none", "subscribe", "topic", "welcome", "publish", "receive", "retired"}
  /\ aborted \in {"nobody", "main", "support"}

\* nothing exists before the client is constructed
Unborn ==
  main = "start" => connected = FALSE /\ link = "none" /\ client = "none" /\ support = "none"

\* until it begins to leave, the application keeps is_connected set and its client
\* alive, so only a loss of the connection or an exception takes the link away
Held ==
  main \in Talking => /\ connected /\ client = "live" /\ link # "none"
                      /\ (aborted = "nobody" /\ ~dropped) => link = "up"

\* the connection is closed in order, or left to MQTTClient_destroy
Released ==
  /\ main = "destroy" => client = "live" /\ link # "none"
  /\ main \in {"flag", "join", "gone"} => client = "freed" /\ link \in {"broken", "closed"}

\* before MQTTClient_disconnect the goodbye is on its way, or the link is gone
GoodbyeSaid == main = "disconnect" /\ link = "up" => goodbye

\* what the broker has told Agora so far, by the state of the link
Told ==
  /\ link \in {"none", "up"} => byes = 0
  /\ link = "broken" => byes <= 1 /\ (byes = 1 => dropped)
  /\ link = "closed" => byes > 0 /\ byes <= 2 /\ (byes = 2 => dropped)

\* the inductive invariant of the channel
RemInv ==
  RemTypeOK /\ Unborn /\ Held /\ Released /\ GoodbyeSaid /\ Told /\ OnlyARaceAborts

\* What Agora hears: a connection that is over was announced, by the goodbye or by
\* the last will, and it is announced twice only when it was lost with the goodbye
\* on its way.
AgoraIsTold ==
  /\ link = "closed" => byes > 0
  /\ byes <= IF dropped THEN 2 ELSE 1

----------------------------------------------------------------------------
\* The three parts of the application thread's life.
LEMMA Lives ==
  /\ Talking = {"running", "observation", "observed", "delta", "goodbye", "disconnect"}
  /\ Leaving = {"destroy", "flag", "join", "gone"}
BY DEF Talking, Leaving

\* A thread that loses its connection between check and call throws; without a loss
\* only the support thread can, and only while the application leaves.
LEMMA ThrowsKeeps ==
  ASSUME RemInv, Alive, NEW who \in {"main", "support"}, Throws(who),
         \/ dropped
         \/ who = "main" /\ main = "start"
         \/ who = "support" /\ support \in {"topic", "publish"} /\ main \in {"destroy", "flag", "join"}
  PROVE  RemInv'
<1>1. UNCHANGED <<connected, link, client, goodbye, byes, dropped, main, support>>
  BY DEF Throws, channel
<1>2. aborted' = who BY DEF Throws
<1>3. RemTypeOK' /\ Unborn' /\ Held' /\ Released' /\ GoodbyeSaid' /\ Told'
  BY <1>1, <1>2 DEF RemInv, RemTypeOK, Unborn, Held, Released, GoodbyeSaid, Told, Alive
<1>4. OnlyARaceAborts' BY <1>1, <1>2 DEF OnlyARaceAborts
<1> QED BY <1>3, <1>4 DEF RemInv

\* Without a loss, a call of the library that is refused was made by the support
\* thread of an application that leaves.
LEMMA RefusedCall ==
  ASSUME RemInv, Alive, ~Serves, ~dropped, main # "start"
  PROVE  main \in {"destroy", "flag", "join"}
BY Lives DEF RemInv, RemTypeOK, Held, Serves, Alive

\* Publishing an observation or a delta.
LEMMA PublishedKeeps ==
  ASSUME RemInv, NEW from \in {"observation", "delta"}, NEW to \in {"observed", "running"},
         Published(from, to)
  PROVE  RemInv'
<1>1. CASE Serves /\ main' = to /\ UNCHANGED <<channel, support, aborted>>
  <2>1. RemTypeOK' /\ Unborn' /\ Released' /\ GoodbyeSaid' /\ Told'
    BY <1>1, Lives DEF channel, RemInv, RemTypeOK, Unborn, Released, GoodbyeSaid, Told
  <2>2. Held' BY <1>1, Lives DEF channel, Published, RemInv, Held
  <2>3. OnlyARaceAborts' BY <1>1 DEF channel, Published, Alive, OnlyARaceAborts
  <2> QED BY <2>1, <2>2, <2>3 DEF RemInv
<1>2. CASE ~Serves /\ Throws("main")
  <2>1. main = from /\ Alive BY DEF Published
  <2>2. dropped BY <1>2, <2>1, RefusedCall
  <2> QED BY <1>2, <2>1, <2>2, ThrowsKeeps
<1> QED BY <1>1, <1>2 DEF Published

\* The goodbye.
LEMMA GoodbyeKeeps ==
  ASSUME RemInv, GoodbyePublished
  PROVE  RemInv'
<1>0. main = "goodbye" /\ Alive /\ connected
  BY Lives DEF GoodbyePublished, RemInv, Held
<1>1. CASE Serves /\ goodbye' = TRUE /\ main' = "disconnect"
           /\ UNCHANGED <<connected, link, client, inbox, terminate, subscribed, byes, support, aborted, dropped>>
  <2>1. RemTypeOK' /\ Unborn' /\ Released' /\ GoodbyeSaid' /\ Told'
    BY <1>1, Lives DEF RemInv, RemTypeOK, Unborn, Released, GoodbyeSaid, Told
  <2>2. Held' BY <1>0, <1>1, Lives DEF RemInv, Held
  <2>3. OnlyARaceAborts' BY <1>0, <1>1 DEF Alive, OnlyARaceAborts
  <2> QED BY <2>1, <2>2, <2>3 DEF RemInv
<1>2. CASE ~Serves /\ Throws("main")
  <2>1. dropped BY <1>0, <1>2, RefusedCall
  <2> QED BY <1>0, <1>2, <2>1, ThrowsKeeps
<1> QED BY <1>0, <1>1, <1>2 DEF GoodbyePublished

\* MQTTClient_disconnect: what it delivers is the goodbye that is on its way.
LEMMA DisconnectKeeps ==
  ASSUME RemInv, Disconnected
  PROVE  RemInv'
<1>1. /\ main = "disconnect" /\ main' = "destroy" /\ aborted = "nobody"
      /\ UNCHANGED <<connected, client, support, aborted, dropped>>
  BY DEF Disconnected, Alive
<1>2. client = "live" /\ link # "none" BY <1>1, Lives DEF RemInv, Held
<1>3. CASE link = "up" /\ link' = "closed" /\ goodbye' = FALSE
           /\ byes' = IF goodbye THEN byes + 1 ELSE byes
  <2>1. goodbye = TRUE BY <1>1, <1>3 DEF RemInv, RemTypeOK, GoodbyeSaid
  <2>2. byes = 0 /\ byes' = 1 BY <1>3, <2>1 DEF RemInv, RemTypeOK, Told
  <2>3. Told' BY <1>3, <2>2 DEF Told
  <2>4. RemTypeOK'
    <3>1. byes' \in Nat BY <2>2
    <3>2. link' \in {"none", "up", "broken", "closed"} BY <1>3
    <3>3. goodbye' \in BOOLEAN BY <1>3
    <3> QED BY <1>1, <3>1, <3>2, <3>3, Lives DEF RemInv, RemTypeOK
  <2> QED BY <1>1, <1>2, <1>3, <2>3, <2>4, Lives DEF RemInv, Unborn, Held, Released, GoodbyeSaid, OnlyARaceAborts
<1>4. CASE UNCHANGED <<link, goodbye, byes>>
  <2>1. Told' BY <1>1, <1>4 DEF RemInv, Told
  <2>2. RemTypeOK' BY <1>1, <1>4, Lives DEF RemInv, RemTypeOK
  <2> QED BY <1>1, <1>2, <1>4, <2>1, <2>2, Lives DEF RemInv, Unborn, Held, Released, GoodbyeSaid, OnlyARaceAborts
<1> QED BY <1>3, <1>4 DEF Disconnected

\* A loss of the connection breaks the link; nothing else is touched but the ghost.
LEMMA LossKeeps ==
  ASSUME RemInv, ConnectionLost
  PROVE  RemInv'
<1>1. /\ link = "up" /\ client = "live" /\ aborted = "nobody" /\ link' = "broken" /\ dropped' = TRUE
      /\ goodbye' = FALSE /\ byes' \in {byes, byes + 1}
      /\ UNCHANGED <<connected, client, main, support, aborted>>
  BY DEF ConnectionLost, Serves, Alive
<1>2. RemTypeOK'
  <2>1. byes' \in Nat BY <1>1 DEF RemInv, RemTypeOK
  <2>2. link' \in {"none", "up", "broken", "closed"} BY <1>1
  <2>3. goodbye' \in BOOLEAN /\ dropped' \in BOOLEAN BY <1>1 DEF RemInv, RemTypeOK
  <2> QED BY <1>1, <2>1, <2>2, <2>3, Lives DEF RemInv, RemTypeOK
<1>3. Unborn' /\ Released' /\ GoodbyeSaid'
  BY <1>1 DEF RemInv, Unborn, Released, GoodbyeSaid
<1>4. Held' BY <1>1 DEF RemInv, Held
<1>5. Told' BY <1>1 DEF RemInv, RemTypeOK, Told
<1>6. OnlyARaceAborts' BY <1>1 DEF OnlyARaceAborts
<1> QED BY <1>2, <1>3, <1>4, <1>5, <1>6 DEF RemInv

\* The last will is published once, for a link that nobody closed.
LEMMA LastWillKeeps ==
  ASSUME RemInv, LastWill
  PROVE  RemInv'
<1>1. /\ link = "broken" \/ (link = "up" /\ aborted # "nobody")
      /\ link' = "closed" /\ byes' = byes + 1 /\ goodbye' = FALSE
      /\ UNCHANGED <<connected, client, main, support, aborted, dropped>>
  BY DEF LastWill
<1>2. RemTypeOK'
  <2>1. byes' \in Nat BY <1>1 DEF RemInv, RemTypeOK
  <2>2. link' \in {"none", "up", "broken", "closed"} BY <1>1
  <2>3. goodbye' \in BOOLEAN /\ dropped' \in BOOLEAN BY <1>1 DEF RemInv, RemTypeOK
  <2> QED BY <1>1, <2>1, <2>2, <2>3, Lives DEF RemInv, RemTypeOK
<1>3. Unborn' /\ Released' /\ GoodbyeSaid'
  BY <1>1 DEF RemInv, Unborn, Released, GoodbyeSaid
<1>4. Held' BY <1>1, Lives DEF RemInv, Held
<1>5. Told' BY <1>1 DEF RemInv, RemTypeOK, Told
<1>6. OnlyARaceAborts' BY <1>1 DEF RemInv, OnlyARaceAborts
<1> QED BY <1>2, <1>3, <1>4, <1>5, <1>6 DEF RemInv

\* Every step of the threads, of the library and of the broker keeps the invariant.
LEMMA RemStep ==
  ASSUME RemInv, [RemNext]_remVars
  PROVE  RemInv'
<1>1. CASE Connect
  BY <1>1, Lives, ThrowsKeeps, RefusedCall
  DEF Connect, Connects, Throws, channel, Alive, RemInv,
      RemTypeOK, Unborn, Held, Released, GoodbyeSaid, Told, OnlyARaceAborts
<1>2. CASE ObservationChecked
  BY <1>2, Lives DEF ObservationChecked, channel, Alive, RemInv,
      RemTypeOK, Unborn, Held, Released, GoodbyeSaid, Told, OnlyARaceAborts
<1>3. CASE ObservationPublished BY <1>3, PublishedKeeps DEF ObservationPublished
<1>4. CASE DeltaChecked
  BY <1>4, Lives DEF DeltaChecked, channel, Alive, RemInv,
      RemTypeOK, Unborn, Held, Released, GoodbyeSaid, Told, OnlyARaceAborts
<1>5. CASE DeltaPublished BY <1>5, PublishedKeeps DEF DeltaPublished
<1>6. CASE DisconnectBegins
  BY <1>6, Lives DEF DisconnectBegins, channel, Alive, RemInv,
      RemTypeOK, Unborn, Held, Released, GoodbyeSaid, Told, OnlyARaceAborts
<1>7. CASE GoodbyePublished BY <1>7, GoodbyeKeeps
<1>8. CASE Disconnected BY <1>8, DisconnectKeeps
<1>9. CASE Destroyed
  BY <1>9, Lives DEF Destroyed, channel, Alive, RemInv,
      RemTypeOK, Unborn, Held, Released, GoodbyeSaid, Told, OnlyARaceAborts
<1>10. CASE Retires
  BY <1>10, Lives DEF Retires, channel, Alive, RemInv,
      RemTypeOK, Unborn, Held, Released, GoodbyeSaid, Told, OnlyARaceAborts
<1>11. CASE Joined
  BY <1>11, Lives DEF Joined, channel, Alive, RemInv,
      RemTypeOK, Unborn, Held, Released, GoodbyeSaid, Told, OnlyARaceAborts
<1>12. CASE Subscribes
  BY <1>12, Lives DEF Subscribes, channel, Alive, RemInv,
      RemTypeOK, Unborn, Held, Released, GoodbyeSaid, Told, OnlyARaceAborts
<1>13. CASE TopicSubscribed
  BY <1>13, Lives, ThrowsKeeps, RefusedCall
  DEF TopicSubscribed, Throws, Serves, channel, Alive, RemInv,
      RemTypeOK, Unborn, Held, Released, GoodbyeSaid, Told, OnlyARaceAborts
<1>14. CASE WelcomeChecked
  BY <1>14, Lives DEF WelcomeChecked, channel, Alive, RemInv,
      RemTypeOK, Unborn, Held, Released, GoodbyeSaid, Told, OnlyARaceAborts
<1>15. CASE WelcomePublished
  BY <1>15, Lives, ThrowsKeeps, RefusedCall
  DEF WelcomePublished, Throws, Serves, channel, Alive, RemInv,
      RemTypeOK, Unborn, Held, Released, GoodbyeSaid, Told, OnlyARaceAborts
<1>16. CASE Receives
  BY <1>16, Lives DEF Receives, channel, Alive, RemInv,
      RemTypeOK, Unborn, Held, Released, GoodbyeSaid, Told, OnlyARaceAborts
<1>17. CASE MessageArrives
  BY <1>17, Lives DEF MessageArrives, channel, Alive, RemInv,
      RemTypeOK, Unborn, Held, Released, GoodbyeSaid, Told, OnlyARaceAborts
<1>18. CASE ConnectionLost BY <1>18, LossKeeps
<1>19. CASE LastWill BY <1>19, LastWillKeeps
<1>20. CASE UNCHANGED remVars
  BY <1>20 DEF remVars, RemInv, RemTypeOK, Unborn, Held, Released, GoodbyeSaid, Told, OnlyARaceAborts
<1> QED
  BY <1>1, <1>2, <1>3, <1>4, <1>5, <1>6, <1>7, <1>8, <1>9, <1>10, <1>11,
     <1>12, <1>13, <1>14, <1>15, <1>16, <1>17, <1>18, <1>19, <1>20
  DEF RemNext, MainThread, SupportThread, AtRest

\* The channel has been set up by nobody when the process starts.
LEMMA RemStarts == RemInit => RemInv
<1> SUFFICES ASSUME RemInit PROVE RemInv OBVIOUS
<1>1. RemTypeOK BY DEF RemInit, RemTypeOK
<1>2. Unborn /\ Held /\ Released /\ GoodbyeSaid
  BY Lives DEF RemInit, Unborn, Held, Released, GoodbyeSaid
<1>3. Told BY DEF RemInit, Told
<1>4. OnlyARaceAborts BY DEF RemInit, OnlyARaceAborts
<1> QED BY <1>1, <1>2, <1>3, <1>4 DEF RemInv

\* The invariant of the channel holds in every reachable state.
LEMMA RemInvariant == RemSpec => []RemInv
BY RemStarts, RemStep, PTL DEF RemSpec

\* A process whose connection was never lost ends with an exception only when there
\* was no broker at the start, or in the window between a check of is_connected in
\* the support thread and the call of the library after it (paho_remote_handler.cc).
THEOREM AbortsOnlyInARace == RemSpec => []OnlyARaceAborts
<1>1. RemInv => OnlyARaceAborts BY DEF RemInv
<1> QED BY <1>1, RemInvariant, PTL

\* Agora hears of every connection that is over, and hears of it twice only when the
\* connection was lost with the goodbye on its way.
THEOREM AgoraHearsOfTheEnd == RemSpec => []AgoraIsTold
<1>1. RemInv => AgoraIsTold BY DEF RemInv, RemTypeOK, Told, AgoraIsTold
<1> QED BY <1>1, RemInvariant, PTL
=============================================================================
