------------------------------- MODULE Remote -------------------------------
(***************************************************************************)
(* The channel of an application to the broker, class PahoClient: the      *)
(* application thread, the support thread of its manager, the callbacks of *)
(* the MQTT library and the broker.  No lock spans the check of            *)
(* is_connected and the call of the library after it.                      *)
(***************************************************************************)
EXTENDS Naturals, Sequences

CONSTANTS
  Topics,     \* the topics the support thread subscribes to, in order
  MaxInbox    \* messages that wait in the inbox

ASSUME RemoteAssumption == Topics \in Seq(STRING) /\ MaxInbox \in Nat \ {0}

VARIABLES
  connected,  \* is_connected
  link,       \* the connection, as the library and the broker have it
  client,     \* the structure of the library
  inbox,      \* the topics of the messages that wait
  terminate,  \* signal_terminate of the inbox
  main,       \* where the application thread is
  support,    \* where the support thread is
  subscribed, \* the topics the broker forwards
  goodbye,    \* the goodbye is on its way to the broker
  byes,       \* how often the broker told Agora that this client is gone
  aborted,    \* who ended the process with an exception, or "nobody"
  dropped     \* ghost: the connection was lost

remVars == <<connected, link, client, inbox, terminate, main, support, subscribed,
             goodbye, byes, aborted, dropped>>
channel == <<connected, link, client, inbox, terminate, subscribed, goodbye, byes, dropped>>

RemInit ==
  /\ connected = FALSE /\ link = "none" /\ client = "none"
  /\ inbox = <<>> /\ terminate = FALSE /\ subscribed = {}
  /\ main = "start" /\ support = "none"
  /\ goodbye = FALSE /\ byes = 0 /\ aborted = "nobody" /\ dropped = FALSE

Alive == aborted = "nobody" /\ main # "gone"

\* The library serves a call while the connection stands and nobody has freed it.
Serves == link = "up" /\ client = "live"

\* An exception leaves a thread, or the destructor: std::terminate.
Throws(who) == aborted' = who /\ UNCHANGED <<channel, main, support>>

----------------------------------------------------------------------------
(* The application thread.                                                 *)

\* The constructor of PahoClient, when the broker is there.
Connects == connected' = TRUE /\ link' = "up" /\ client' = "live"

\* start_support_thread: the client is constructed, then the thread.
Connect ==
  /\ Alive /\ main = "start"
  /\ \/ /\ Connects
        /\ main' = "running" /\ support' = "subscribe"
        /\ UNCHANGED <<inbox, terminate, subscribed, goodbye, byes, aborted, dropped>>
     \/ Throws("main")

\* push_monitor: send_observation, then send_delta.  Without a connection
\* send_message returns.
ObservationChecked ==
  /\ Alive /\ main = "running"
  /\ main' = IF connected THEN "observation" ELSE "observed"
  /\ UNCHANGED <<channel, support, aborted>>

Published(from, to) ==
  /\ Alive /\ main = from
  /\ \/ Serves /\ main' = to /\ UNCHANGED <<channel, support, aborted>>
     \/ ~Serves /\ Throws("main")

ObservationPublished == Published("observation", "observed")

DeltaChecked ==
  /\ Alive /\ main = "observed"
  /\ main' = IF connected THEN "delta" ELSE "running"
  /\ UNCHANGED <<channel, support, aborted>>

DeltaPublished == Published("delta", "running")

\* Mutant: the connection is closed before the goodbye.
DisconnectsFirst ==
  /\ Alive /\ main = "running"
  /\ main' = IF connected THEN "goodbye" ELSE "destroy"
  /\ link' = IF connected THEN "closed" ELSE link
  /\ UNCHANGED <<connected, client, inbox, terminate, subscribed, goodbye, byes, support, aborted, dropped>>

\* The destructor of the manager calls disconnect.
DisconnectBegins ==
  /\ Alive /\ main = "running"
  /\ main' = IF connected THEN "goodbye" ELSE "destroy"
  /\ UNCHANGED <<channel, support, aborted>>

\* Mutant: a client that disconnects in order says nothing.
GoodbyeForgotten ==
  /\ Alive /\ main = "goodbye" /\ main' = "disconnect"
  /\ UNCHANGED <<channel, support, aborted>>

\* The goodbye on the topic of the last will; send_message checks is_connected again.
GoodbyePublished ==
  /\ Alive /\ main = "goodbye"
  /\ \/ /\ ~connected /\ main' = "disconnect" /\ UNCHANGED <<channel, support, aborted>>
     \/ /\ connected /\ Serves
        /\ goodbye' = TRUE /\ main' = "disconnect"
        /\ UNCHANGED <<connected, link, client, inbox, terminate, subscribed, byes, support, aborted, dropped>>
     \/ connected /\ ~Serves /\ Throws("main")

\* MQTTClient_disconnect: in time, what is on its way arrives and the broker forgets
\* the last will; otherwise the socket is closed with the client.
Disconnected ==
  /\ Alive /\ main = "disconnect" /\ main' = "destroy"
  /\ \/ /\ link = "up"
        /\ link' = "closed" /\ goodbye' = FALSE
        /\ byes' = IF goodbye THEN byes + 1 ELSE byes
     \/ UNCHANGED <<link, goodbye, byes>>
  /\ UNCHANGED <<connected, client, inbox, terminate, subscribed, support, aborted, dropped>>

\* MQTTClient_destroy.
Destroyed ==
  /\ Alive /\ main = "destroy" /\ main' = "flag"
  /\ client' = "freed" /\ link' = IF link = "up" THEN "broken" ELSE link
  /\ UNCHANGED <<connected, inbox, terminate, subscribed, goodbye, byes, support, aborted, dropped>>

\* is_connected is cleared and the threads that wait for a message are told.
Retires ==
  /\ Alive /\ main = "flag" /\ main' = "join"
  /\ connected' = FALSE /\ terminate' = TRUE
  /\ UNCHANGED <<link, client, inbox, subscribed, goodbye, byes, support, aborted, dropped>>

\* The destructor of PahoClient disconnects once more: is_connected is false, the
\* client is freed already and the signal given.
Joined ==
  /\ Alive /\ main = "join" /\ support = "retired"
  /\ main' = "gone" /\ UNCHANGED <<channel, support, aborted>>

----------------------------------------------------------------------------
(* The support thread, local_application_handler.                          *)

SubscribedAll == subscribed = {Topics[i] : i \in DOMAIN Topics}
NextTopic == Topics[CHOOSE i \in DOMAIN Topics :
                      Topics[i] \notin subscribed /\ \A j \in 1 .. i - 1 : Topics[j] \in subscribed]

\* One topic after the other; without a connection there is nothing to do but warn.
Subscribes ==
  /\ Alive /\ support = "subscribe"
  /\ \/ /\ (SubscribedAll \/ ~connected)
        /\ support' = "welcome" /\ UNCHANGED <<channel, main, aborted>>
     \/ /\ ~SubscribedAll /\ connected
        /\ support' = "topic" /\ UNCHANGED <<channel, main, aborted>>

TopicSubscribed ==
  /\ Alive /\ support = "topic"
  /\ \/ /\ Serves /\ subscribed' = subscribed \cup {NextTopic} /\ support' = "subscribe"
        /\ UNCHANGED <<connected, link, client, inbox, terminate, goodbye, byes, main, aborted, dropped>>
     \/ ~Serves /\ Throws("support")

WelcomeChecked ==
  /\ Alive /\ support = "welcome"
  /\ support' = IF connected THEN "publish" ELSE "receive"
  /\ UNCHANGED <<channel, main, aborted>>

WelcomePublished ==
  /\ Alive /\ support = "publish"
  /\ \/ Serves /\ support' = "receive" /\ UNCHANGED <<channel, main, aborted>>
     \/ ~Serves /\ Throws("support")

\* whitelist: the topic of a lost connection has characters that are not allowed.
Whitelist(topic) == IF topic = "$disconnect$" THEN "error" ELSE topic

\* recv_message and what follows: only the welcome of a new server is answered here;
\* what explore and prediction do is in DataAware.
Receives ==
  /\ Alive /\ support = "receive"
  /\ \/ /\ terminate /\ support' = "retired" /\ UNCHANGED inbox
     \/ /\ ~terminate /\ inbox # <<>> /\ inbox' = Tail(inbox)
        /\ support' = IF Whitelist(Head(inbox)) = "welcome" THEN "welcome" ELSE "receive"
  /\ UNCHANGED <<connected, link, client, terminate, subscribed, goodbye, byes, main, aborted, dropped>>

----------------------------------------------------------------------------
(* The library and the broker.                                             *)

Enqueues(topic) == inbox' = Append(inbox, topic)

\* recv_callback_function.
MessageArrives ==
  /\ Alive /\ Serves /\ Len(inbox) < MaxInbox
  /\ \E topic \in subscribed : Enqueues(topic)
  /\ UNCHANGED <<connected, link, client, terminate, subscribed, goodbye, byes, main, support, aborted, dropped>>

\* connlost_callback_function: the network fails, the broker ends, or a client with
\* the same identifier takes over.  A goodbye on its way may get lost.
ConnectionLost ==
  /\ Alive /\ Serves /\ Enqueues("$disconnect$")
  /\ link' = "broken" /\ dropped' = TRUE
  /\ \/ goodbye /\ byes' = byes + 1
     \/ UNCHANGED byes
  /\ goodbye' = FALSE
  /\ UNCHANGED <<connected, client, terminate, subscribed, main, support, aborted>>

\* The broker publishes the last will of a client that did not disconnect.
LastWill ==
  /\ link = "broken" \/ (link = "up" /\ aborted # "nobody")
  /\ link' = "closed" /\ byes' = byes + 1 /\ goodbye' = FALSE
  /\ UNCHANGED <<connected, client, inbox, terminate, subscribed, main, support, aborted, dropped>>

----------------------------------------------------------------------------
MainThread ==
  \/ ObservationPublished \/ DeltaChecked \/ DeltaPublished \/ GoodbyePublished \/ Disconnected \/ Destroyed \/ Retires \/ Joined
SupportThread ==
  Subscribes \/ TopicSubscribed \/ WelcomeChecked \/ WelcomePublished \/ Receives

\* The process has ended and the broker knows.
AtRest == ~Alive /\ link \in {"none", "closed"} /\ UNCHANGED remVars

RemNext ==
  \/ Connect \/ ObservationChecked \/ DisconnectBegins \/ MainThread
  \/ SupportThread \/ MessageArrives \/ ConnectionLost \/ LastWill \/ AtRest

\* Both threads run and the broker keeps its word; the application need not leave.
RemSpec ==
  /\ RemInit /\ [][RemNext]_remVars
  /\ WF_remVars(MainThread) /\ WF_remVars(SupportThread) /\ WF_remVars(LastWill)

----------------------------------------------------------------------------
\* A process whose connection was never lost ends with an exception only when there
\* is no broker at the start, or when its support thread passed the check of
\* is_connected before the destructor cleared it and uses the library after it.
OnlyARaceAborts ==
  (aborted # "nobody" /\ ~dropped) =>
    \/ aborted = "main" /\ main = "start"
    \/ aborted = "support" /\ support \in {"topic", "publish"} /\ main \in {"destroy", "flag", "join"}

\* An application that starts to disconnect ends, and Agora hears that the client is
\* gone, by the goodbye or by the last will, whatever is lost meanwhile.
DepartureCompletes ==
  (main \in {"goodbye", "destroy"}) ~> (~Alive /\ byes > 0)

=============================================================================
