----------------------------- MODULE LivePages -----------------------------
(***************************************************************************)
(* The web server from its start to its end, and the pages it keeps up to  *)
(* date meanwhile (src/server.go, src/internal/app/server/server.go and    *)
(* the handlers under src/internal/app/server/routes).  A browser gets a   *)
(* page, subscribes to the page's topic over a websocket, and from then on *)
(* is sent the page anew by the topic's publisher, which the broker of the *)
(* godest library starts for the first subscriber and cancels with the     *)
(* last.  Of what is sent the browser takes only the frames which the      *)
(* templates mark with data-turbo-reload; the rest of its page stays as it *)
(* was got.  The D-Bus connections are opened while the server is serving. *)
(***************************************************************************)
EXTENDS Integers

CONSTANTS
  Viewers,     \* open pages of browsers
  Wishes,      \* which pages these are, together
  MaxChanges   \* how often what the pages show changes (bound)

Buses == {"NetworkManager", "UDisks2"}

(* The topic that each page subscribes to.  A topic has the mode of its    *)
(* page in its query; the topic of the storage page has none.              *)
Pages ==
  {"home", "internet", "internet-advanced", "access-points", "access-points-advanced",
   "profile", "storage", "storage-minimal", "remote"}
Topic ==
  [p \in Pages |->
     CASE p = "internet-advanced" -> "internet?mode=advanced"
       [] p = "access-points-advanced" -> "access-points?mode=advanced"
       [] p = "storage-minimal" -> "storage"
       [] OTHER -> p]
Topics == {Topic[p] : p \in Pages}

(* Mutant: the mode of the topic is not looked at. *)
TemplateWithoutMode ==
  [t \in Topics |->
     CASE t = "internet?mode=advanced" -> "internet"
       [] t = "access-points?mode=advanced" -> "access-points-advanced"
       [] OTHER -> t]

(* What the publisher of a topic renders.                                  *)
Template ==
  [t \in Topics |->
     CASE t = "internet?mode=advanced" -> "internet-advanced"
       [] t = "access-points?mode=advanced" -> "access-points-advanced"
       [] OTHER -> t]

(* The pages with forms outside of the frames that are reloaded: of the    *)
(* hotspot, and of a profile's settings.                                   *)
PagesWithForms == {"internet", "profile"}

(* The topics that are read over D-Bus, those that are subscribed to only  *)
(* if their object is there, and those that are rescanned at each turn.    *)
AccessPointTopics == {"access-points", "access-points?mode=advanced"}
CheckedTopics == AccessPointTopics \cup {"profile"}
RescannedTopics == AccessPointTopics \cup {"internet"}
BusOf(t) ==
  IF t \in CheckedTopics \cup {"internet", "internet?mode=advanced"} THEN "NetworkManager"
  ELSE IF t = "storage" THEN "UDisks2" ELSE "none"

ASSUME WishesAssumption == Wishes \subseteq [Viewers -> Pages]
ASSUME MaxChangesAssumption == MaxChanges \in Nat

VARIABLES
  server,     \* the process
  cancelled,  \* the context of the workers
  bus,        \* the D-Bus connections
  data,       \* the version of what the pages show
  page,       \* the page of each viewer
  at,         \* how far the viewer is
  shows,      \* what the viewer sees: the versions of the reloaded frames and
              \* of the forms outside, and as which page the frames are rendered
  pub,        \* the publisher of each topic
  read        \* the version that the publisher has read

serverVars == <<server, cancelled, bus>>
viewerVars == <<page, at, shows>>
pubVars == <<pub, read>>
vars == <<serverVars, data, viewerVars, pubVars>>

TopicOf(v) == Topic[page[v]]
Audience(t) == {v \in Viewers : at[v] = "live" /\ TopicOf(v) = t}
Running == {"rescan", "read", "publish", "wait"}
FirstStage(t) == IF t \in RescannedTopics THEN "rescan" ELSE "read"
Usable(t) == BusOf(t) \in Buses => bus[BusOf(t)] \in {"open", "closed"}
Cut(t) == BusOf(t) \in Buses /\ bus[BusOf(t)] = "closed"

(* A browser may have kept a page open since before the server started. *)
Init ==
  /\ server = "starting" /\ cancelled = FALSE
  /\ bus = [b \in Buses |-> "opening"] /\ data = 0
  /\ page \in Wishes
  /\ at \in [Viewers -> {"away", "loaded"}]
  /\ shows = [v \in Viewers |-> [frames |-> 0, forms |-> 0, as |-> page[v]]]
  /\ pub = [t \in Topics |-> "none"] /\ read = [t \in Topics |-> 0]

-----------------------------------------------------------------------------
(* The process.  Run starts the workers and the HTTP server; main waits    *)
(* for a signal or for the end of Run, and then shuts the server down.     *)
OnlyServer == UNCHANGED <<data, viewerVars, pubVars>>

Start ==
  /\ server = "starting" /\ server' = "serving"
  /\ UNCHANGED <<cancelled, bus>> /\ OnlyServer

(* The port cannot be bound: the error cancels the workers. *)
StartFails ==
  /\ server = "starting" /\ server' = "failed" /\ cancelled' = TRUE
  /\ UNCHANGED bus /\ OnlyServer

(* Mutant: main does not learn that Run has ended. *)
RunEndsUnnoticed ==
  /\ server = "failed" /\ (\A b \in Buses : bus[b] # "opening") /\ server' = "failed"
  /\ UNCHANGED <<cancelled, bus>> /\ OnlyServer

(* Run returns when the workers have ended, too. *)
RunEnds ==
  /\ server = "failed" /\ (\A b \in Buses : bus[b] # "opening") /\ server' = "draining"
  /\ UNCHANGED <<cancelled, bus>> /\ OnlyServer

Signal ==
  /\ server \in {"starting", "serving"} /\ server' = "draining"
  /\ UNCHANGED <<cancelled, bus>> /\ OnlyServer

(* Start returns as soon as Shutdown has been called, and that cancels the *)
(* workers' context while requests are still being handled.                *)
StartReturns ==
  /\ server = "draining" /\ ~cancelled /\ cancelled' = TRUE
  /\ UNCHANGED <<server, bus>> /\ OnlyServer

(* The process ends and everything with it; browsers keep their pages.     *)
Exit ==
  /\ server' = "exited"
  /\ at' = [v \in Viewers |-> IF at[v] \in {"loading", "live"} THEN "cut" ELSE at[v]]
  /\ pub' = [t \in Topics |-> "none"]
  /\ UNCHANGED <<cancelled, bus, data, page, shows, read>>

(* Shutdown waits for handlers but not for websockets, and not for ever.   *)
ShutdownEnds == server = "draining" /\ (\A v \in Viewers : at[v] # "loading") /\ Exit
ShutdownTimesOut == server = "draining" /\ (\E v \in Viewers : at[v] = "loading") /\ Exit

Open(b) ==
  /\ server # "exited" /\ ~cancelled
  /\ bus[b] = "opening" /\ bus' = [bus EXCEPT ![b] = "open"]
  /\ UNCHANGED <<server, cancelled>> /\ OnlyServer

(* Mutant: the workers share the context of their errgroup and return      *)
(* their errors, so that one which fails cancels the others.               *)
OpenFailsForAll(b) ==
  /\ server # "exited"
  /\ bus[b] = "opening" /\ bus' = [bus EXCEPT ![b] = "failed"]
  /\ cancelled' = TRUE
  /\ UNCHANGED server /\ OnlyServer

(* A failure is logged and not propagated. *)
OpenFails(b) ==
  /\ server # "exited"
  /\ bus[b] = "opening" /\ bus' = [bus EXCEPT ![b] = "failed"]
  /\ UNCHANGED <<server, cancelled>> /\ OnlyServer

(* A connection lives as long as the context it was opened with. *)
Close(b) ==
  /\ server # "exited" /\ cancelled
  /\ bus[b] = "open" /\ bus' = [bus EXCEPT ![b] = "closed"]
  /\ UNCHANGED <<server, cancelled>> /\ OnlyServer

Change ==
  /\ data < MaxChanges /\ data' = data + 1
  /\ UNCHANGED <<serverVars, viewerVars, pubVars>>

-----------------------------------------------------------------------------
(* Browsers and the handlers of their requests. *)
Goto(v, from, to) == at[v] \in from /\ at' = [at EXCEPT ![v] = to]
OnlyViewer == UNCHANGED <<serverVars, data, page, pubVars>>

Request(v) ==
  /\ server = "serving" /\ Goto(v, {"away"}, "loading")
  /\ UNCHANGED shows /\ OnlyViewer

Got(v) ==
  [frames |-> data, forms |-> IF page[v] \in PagesWithForms THEN data ELSE 0, as |-> page[v]]

Load(v) ==
  /\ Goto(v, {"loading"}, "loaded") /\ Usable(TopicOf(v)) /\ ~Cut(TopicOf(v))
  /\ shows' = [shows EXCEPT ![v] = Got(v)]
  /\ OnlyViewer

(* Reading fails, or panics for want of a connection, which Recover turns  *)
(* into an error.                                                          *)
LoadFails(v) ==
  /\ Goto(v, {"loading"}, IF Usable(TopicOf(v)) THEN "failed" ELSE "panicked")
  /\ UNCHANGED shows /\ OnlyViewer

(* The first subscriber has the broker start the publisher.  One that has  *)
(* ended with an error is not started again for the others.                *)
Subscribe(v) ==
  LET t == TopicOf(v) IN
  /\ server = "serving" /\ Goto(v, {"loaded"}, "live")
  /\ t \in CheckedTopics => Usable(t)
  /\ pub' = [pub EXCEPT ![t] = IF Audience(t) = {} THEN FirstStage(t) ELSE @]
  /\ UNCHANGED <<serverVars, data, page, shows, read>>

(* SUB checks that the page's object is there. *)
Refuse(v) ==
  /\ server = "serving" /\ TopicOf(v) \in CheckedTopics /\ Goto(v, {"loaded"}, "refused")
  /\ Usable(TopicOf(v))
  /\ UNCHANGED shows /\ OnlyViewer

(* Mutant: the publisher goes on without an audience. *)
LeaveRunning(v) ==
  /\ server # "exited"
  /\ Goto(v, {"loading", "loaded", "live", "refused", "failed", "panicked"}, "away")
  /\ UNCHANGED shows /\ OnlyViewer

(* A viewer goes, to come again later; the last one has the publisher      *)
(* cancelled.                                                              *)
Leave(v) ==
  /\ server # "exited"
  /\ Goto(v, {"loading", "loaded", "live", "refused", "failed", "panicked"}, "away")
  /\ pub' = [pub EXCEPT ![TopicOf(v)] = IF Audience(TopicOf(v)) \subseteq {v} THEN "none" ELSE @]
  /\ UNCHANGED <<serverVars, data, page, shows, read>>

-----------------------------------------------------------------------------
(* Publishers: RepeatImmediate takes turns until one fails, or the         *)
(* publisher is cancelled.                                                 *)
Advance(t, from, to) == pub[t] = from /\ pub' = [pub EXCEPT ![t] = to]
OnlyPublisher == UNCHANGED <<serverVars, data, viewerVars>>

(* The network's page goes on whatever becomes of the scan. *)
Rescan(t) ==
  /\ Advance(t, "rescan", "read") /\ Usable(t)
  /\ UNCHANGED read /\ OnlyPublisher

Read(t) ==
  /\ Advance(t, "read", "publish") /\ Usable(t) /\ ~Cut(t)
  /\ read' = [read EXCEPT ![t] = data] /\ OnlyPublisher

(* Any error ends the publisher, for all of its audience. *)
TurnFails(t) ==
  /\ \/ pub[t] = "rescan" /\ t \in AccessPointTopics
     \/ pub[t] = "read"
  /\ Usable(t)
  /\ pub' = [pub EXCEPT ![t] = "failed"] /\ UNCHANGED read /\ OnlyPublisher

(* Without a connection there is a panic in the publisher, or in the       *)
(* check of SUB, outside of the handlers that Recover covers.  Whether the *)
(* library contains it is not known.                                       *)
PublisherPanics(t) ==
  /\ pub[t] \in {"rescan", "read"} /\ ~Usable(t)
  /\ \/ Exit
     \/ pub' = [pub EXCEPT ![t] = "failed"] /\ UNCHANGED read /\ OnlyPublisher

CheckPanics(v) ==
  /\ server = "serving" /\ at[v] = "loaded"
  /\ TopicOf(v) \in CheckedTopics /\ ~Usable(TopicOf(v))
  /\ \/ Exit
     \/ Goto(v, {"loaded"}, "refused") /\ UNCHANGED shows /\ OnlyViewer

(* Mutant: empty data is taken for the end. *)
ReadNothingForGood ==
  /\ Advance("home", "read", "none")
  /\ UNCHANGED read /\ OnlyPublisher

(* The home page is not published when its file was read while it was      *)
(* being written.                                                          *)
ReadNothing ==
  /\ Advance("home", "read", "wait")
  /\ UNCHANGED read /\ OnlyPublisher

(* streamActionReload replaces the marked frames and nothing else. *)
Reloaded(shown, t) == [shown EXCEPT !.frames = read[t], !.as = Template[t]]

Publish(t) ==
  /\ Advance(t, "publish", "wait")
  /\ shows' = [v \in Viewers |-> IF v \in Audience(t) THEN Reloaded(shows[v], t) ELSE shows[v]]
  /\ UNCHANGED <<serverVars, data, page, at, read>>

NextTurn(t) == Advance(t, "wait", FirstStage(t)) /\ UNCHANGED read /\ OnlyPublisher

Cancel(t) ==
  /\ cancelled /\ pub[t] \in Running /\ pub' = [pub EXCEPT ![t] = "none"]
  /\ UNCHANGED read /\ OnlyPublisher

-----------------------------------------------------------------------------
Turn(t) ==
  Rescan(t) \/ Read(t) \/ TurnFails(t) \/ PublisherPanics(t) \/ Publish(t) \/ NextTurn(t)
Process ==
  \/ Start \/ StartFails \/ RunEnds \/ Signal \/ StartReturns
  \/ ShutdownEnds \/ ShutdownTimesOut
  \/ \E b \in Buses : Open(b) \/ OpenFails(b) \/ Close(b)
Browser(v) == Request(v) \/ Load(v) \/ LoadFails(v) \/ Subscribe(v) \/ Refuse(v) \/ CheckPanics(v) \/ Leave(v)

Next ==
  \/ Process \/ Change \/ ReadNothing
  \/ \E v \in Viewers : Browser(v)
  \/ \E t \in Topics : Turn(t) \/ Cancel(t)

(* Goroutines that can go on do, an opening of a connection succeeds or    *)
(* fails, a scan ends, and a timeout is one.  Nobody need send a request   *)
(* or a signal.  The file of the home page is not always being written     *)
(* when it is read.                                                        *)
Fairness ==
  /\ WF_vars(Start \/ StartFails) /\ WF_vars(RunEnds) /\ WF_vars(StartReturns)
  /\ WF_vars(ShutdownEnds \/ ShutdownTimesOut)
  /\ \A b \in Buses : WF_vars(Open(b) \/ OpenFails(b))
  /\ \A v \in Viewers :
       /\ WF_vars(Load(v) \/ LoadFails(v))
       /\ WF_vars(Turn(TopicOf(v))) /\ SF_vars(Read(TopicOf(v)) \/ TurnFails(TopicOf(v)))

Spec == Init /\ [][Next]_vars /\ Fairness

-----------------------------------------------------------------------------
(* PROPERTIES *)

(* Every variable has a value it is used with, and a publisher runs only   *)
(* while it has an audience and the process lives.                         *)
TypeOK ==
  /\ server \in {"starting", "serving", "failed", "draining", "exited"} /\ cancelled \in BOOLEAN
  /\ bus \in [Buses -> {"opening", "open", "failed", "closed"}] /\ data \in 0..MaxChanges
  /\ page \in [Viewers -> Pages]
  /\ at \in [Viewers -> {"away", "loading", "loaded", "live", "refused", "failed", "panicked", "cut"}]
  /\ shows \in [Viewers -> [frames : 0..MaxChanges, forms : 0..MaxChanges, as : Pages]]
  /\ pub \in [Topics -> Running \cup {"none", "failed"}] /\ read \in [Topics -> 0..MaxChanges]
  /\ \A t \in Topics : pub[t] # "none" => server # "exited" /\ Audience(t) # {}

(* While the web server serves, a connection that was opened stays open,   *)
(* whatever becomes of the opening of the other ("other parts of           *)
(* machine-admin are still useful"): only the shutdown closes them.        *)
BusesLastWhileServing ==
  server \in {"starting", "serving"} => \A b \in Buses : bus[b] # "closed"

(* A page that is kept up to date stays the page it was got as, in its own *)
(* mode.  The minimal storage page does not: it subscribes to the topic of *)
(* the full one, which is published in its place.                          *)
ModeIsKept ==
  \A v \in Viewers :
    shows[v].as = page[v] \/ (page[v] = "storage-minimal" /\ shows[v].as = "storage")

(* No interleaving of subscriptions, departures and failed turns leaves an *)
(* audience without a publisher: a topic that is viewed has one that runs, *)
(* or one that has ended with an error, until the workers are cancelled.   *)
AudienceHasPublisher ==
  ~cancelled => \A t \in Topics : Audience(t) # {} => pub[t] # "none"

(* Whoever is subscribed is eventually shown what there is to see in the   *)
(* frames that are reloaded, however the viewer's loading, its subscribing *)
(* and the turns of the publisher interleave, unless the viewer goes, an   *)
(* error has ended the publisher, or the server ends.  In particular       *)
(* somebody who comes when everybody has left after an error is shown it   *)
(* again.                                                                  *)
ViewersCatchUp ==
  \A v \in Viewers :
    at[v] = "live" ~> \/ at[v] # "live" \/ shows[v].frames = data
                      \/ pub[TopicOf(v)] = "failed" \/ cancelled

(* A claim that does not hold: a subscribed page becomes right as a whole. *)
(* Its forms never do, but by being got again.                             *)
FormsCatchUp ==
  \A v \in Viewers :
    at[v] = "live" ~> \/ at[v] # "live" \/ page[v] \notin PagesWithForms
                      \/ (shows[v].frames = data /\ shows[v].forms = data)
                      \/ pub[TopicOf(v)] = "failed" \/ cancelled

(* A server that is told to end, or that cannot bind its port, ends.       *)
ShutdownCompletes == server \in {"failed", "draining"} ~> server = "exited"
=============================================================================
