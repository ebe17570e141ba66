---------------------------- MODULE MCAgoraServer ----------------------------
(***************************************************************************)
(* Two servers for TLC, that share nothing: one with a single worker, with *)
(* the constants of the configuration (AgoraHandler itself), and one with  *)
(* two workers and one client (Two).  A behaviour is one of one of them.   *)
(***************************************************************************)
EXTENDS AgoraHandler

CONSTANTS client, one, two    \* the client and the workers of the second server

VARIABLES
  part,          \* the server that runs: "serial" or "concurrent"
  up2, crashes2, inbox2, status2, sent2, doe2, cluster2, prediction2, clients2,
  owner2, pc2, job2, store2, orphans2, conn2, asked2, told2

Two == INSTANCE AgoraHandler WITH
  Clients <- {client}, Malformed <- {}, Workers <- {one, two},
  PerIteration <- 1, MaxDoe <- 1, Features <- FALSE, MaxInbox <- 3, MaxSent <- 1, MaxCrashes <- 0,
  up <- up2, crashes <- crashes2, inbox <- inbox2, status <- status2, sent <- sent2,
  doe <- doe2, cluster <- cluster2, prediction <- prediction2, clients <- clients2,
  owner <- owner2, pc <- pc2, job <- job2, store <- store2, orphans <- orphans2,
  conn <- conn2, asked <- asked2, told <- told2

vars2 == <<up2, crashes2, inbox2, status2, sent2, doe2, cluster2, prediction2, clients2,
           owner2, pc2, job2, store2, orphans2, conn2, asked2, told2>>

ServerInit == part \in {"serial", "concurrent"} /\ Init /\ Two!Init

ServerNext ==
  /\ UNCHANGED part
  /\ \/ part = "serial" /\ Next /\ UNCHANGED vars2
     \/ part = "concurrent" /\ Two!Next /\ UNCHANGED vars

serverVars == <<part, vars, vars2>>

Concurrently(step) == part = "concurrent" /\ step /\ UNCHANGED <<part, vars>>

\* The threads of the second server run, its plugins end and its client answers.
ServerSpec ==
  /\ ServerInit /\ [][ServerNext]_serverVars
  /\ \A w \in {one, two} : /\ WF_serverVars(Concurrently(Two!WorkerStep(w)))
                           /\ WF_serverVars(Concurrently(Two!PluginEnds(w)))
  /\ WF_serverVars(Concurrently(Two!Rewelcome(client)))
  /\ WF_serverVars(Concurrently(Two!Observe(client)))

-----------------------------------------------------------------------------
\* With two workers, of which one may be between the unlock and the second lock of
\* process_observation while the other models, predicts or says goodbye, the status
\* still never lies to the next caller.
ConcurrentStatusSound == Two!StatusSound

\* With two workers nothing is being built forever: plugins end and whoever waited
\* for them moves the handler on, even if both found themselves building.
ConcurrentBuildingEnds == Two!BuildingEnds
=============================================================================
