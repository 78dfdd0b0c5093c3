-------------------------- MODULE LivePagesProofs --------------------------
(* Theorems about LivePages for any number of viewers, whatever pages they *)
(* open and however often they come and go.                                *)
EXTENDS LivePages, TLAPS

(* The publisher of a page's topic renders the page in its own mode, save  *)
(* for the minimal storage page, which shares its topic with the full one. *)
LEMMA TemplateOfTopic ==
  ASSUME NEW p \in Pages
  PROVE  /\ Topic[p] \in Topics
         /\ Template[Topic[p]] \in Pages
         /\ Template[Topic[p]] = p \/ (p = "storage-minimal" /\ Template[Topic[p]] = "storage")
<1>1. Topic[p] \in Topics
  BY DEF Topics
<1>2. /\ Topic["internet-advanced"] = "internet?mode=advanced"
      /\ Topic["access-points-advanced"] = "access-points?mode=advanced"
      /\ Topic["storage-minimal"] = "storage"
      /\ \A q \in Pages \ {"internet-advanced", "access-points-advanced", "storage-minimal"} :
           Topic[q] = q
  BY DEF Topic, Pages
<1>3. \A t \in Topics :
        /\ t = "internet?mode=advanced" => Template[t] = "internet-advanced"
        /\ t = "access-points?mode=advanced" => Template[t] = "access-points-advanced"
        /\ t \notin {"internet?mode=advanced", "access-points?mode=advanced"} => Template[t] = t
  BY DEF Template
<1>4. CASE p = "internet-advanced"
  BY <1>1, <1>2, <1>3, <1>4
<1>5. CASE p = "access-points-advanced"
  BY <1>1, <1>2, <1>3, <1>5
<1>6. CASE p = "storage-minimal"
  <2>1. Template["storage"] = "storage"
    BY <1>1, <1>2, <1>3, <1>6
  <2> QED
    BY <1>1, <1>2, <1>6, <2>1 DEF Pages
<1>7. CASE p \notin {"internet-advanced", "access-points-advanced", "storage-minimal"}
  <2>1. Topic[p] = p /\ p \notin {"internet?mode=advanced", "access-points?mode=advanced"}
    BY <1>2, <1>7 DEF Pages
  <2> QED
    BY <1>1, <1>3, <2>1
<1> QED
  BY <1>4, <1>5, <1>6, <1>7

(* What a viewer sees, when the page is got and when frames are reloaded. *)
Showings == [frames : 0..MaxChanges, forms : 0..MaxChanges, as : Pages]

LEMMA GotIsShowing ==
  ASSUME NEW v, page[v] \in Pages, data \in 0..MaxChanges
  PROVE  Got(v) \in Showings /\ Got(v).as = page[v]
<1>1. (IF page[v] \in PagesWithForms THEN data ELSE 0) \in 0..MaxChanges
  BY MaxChangesAssumption
<1> QED
  BY <1>1 DEF Got, Showings

LEMMA ReloadedIsShowing ==
  ASSUME NEW shown \in Showings, NEW t, read[t] \in 0..MaxChanges, Template[t] \in Pages
  PROVE  Reloaded(shown, t) \in Showings /\ Reloaded(shown, t).as = Template[t]
BY DEF Reloaded, Showings

(* The workers' context ends only when the server stops serving, and no    *)
(* connection is closed before.                                            *)
BusesHeld ==
  /\ cancelled => server \notin {"starting", "serving"}
  /\ \A b \in Buses : bus[b] = "closed" => cancelled

IInv == TypeOK /\ BusesHeld /\ ModeIsKept

(* The invariant holds at the start, *)
LEMMA InitIInv == Init => IInv
<1> SUFFICES ASSUME Init PROVE IInv
  OBVIOUS
<1>1. page \in [Viewers -> Pages]
  BY WishesAssumption DEF Init
<1>2. at \in [Viewers -> {"away", "loading", "loaded", "live", "refused", "failed", "panicked", "cut"}]
  <2>1. {"away", "loaded"} \subseteq
           {"away", "loading", "loaded", "live", "refused", "failed", "panicked", "cut"}
    OBVIOUS
  <2>2. at \in [Viewers -> {"away", "loaded"}]
    BY DEF Init
  <2> QED
    BY <2>1, <2>2
<1>4. 0 \in 0..MaxChanges
  BY MaxChangesAssumption
<1>5. shows \in [Viewers -> [frames : 0..MaxChanges, forms : 0..MaxChanges, as : Pages]]
  BY <1>1, <1>4 DEF Init
<1>6. TypeOK
  BY <1>1, <1>2, <1>4, <1>5 DEF Init, TypeOK
<1>3. BusesHeld /\ ModeIsKept
  BY DEF Init, BusesHeld, ModeIsKept
<1> QED
  BY <1>3, <1>6 DEF IInv

(* Each step of the process, from Run to the end of main. *)
LEMMA ProcessKeepsIInv == IInv /\ Process => IInv'
<1> SUFFICES ASSUME IInv, Process PROVE IInv'
  OBVIOUS
<1> USE DEF IInv, TypeOK, BusesHeld, ModeIsKept, OnlyServer, serverVars, viewerVars, pubVars,
            Audience, TopicOf
<1>1. CASE Start
  BY <1>1 DEF Start
<1>2. CASE StartFails
  BY <1>2 DEF StartFails
<1>3. CASE RunEnds
  BY <1>3 DEF RunEnds
<1>4. CASE Signal
  BY <1>4 DEF Signal
<1>5. CASE StartReturns
  BY <1>5 DEF StartReturns
<1>6. CASE Exit
  BY <1>6 DEF Exit
<1>7. ASSUME NEW b \in Buses, Open(b) PROVE IInv'
  BY <1>7 DEF Open
<1>8. ASSUME NEW b \in Buses, OpenFails(b) PROVE IInv'
  BY <1>8 DEF OpenFails
<1>9. ASSUME NEW b \in Buses, Close(b) PROVE IInv'
  BY <1>9 DEF Close
<1> QED
  BY <1>1, <1>2, <1>3, <1>4, <1>5, <1>6, <1>7, <1>8, <1>9
     DEF Process, ShutdownEnds, ShutdownTimesOut

(* Each step of a browser.  That a publisher has an audience is disturbed  *)
(* by the last viewer's leaving, with which it ends.                       *)
LEMMA BrowserKeepsIInv ==
  ASSUME IInv,
         NEW v \in Viewers,
         Browser(v)
  PROVE  IInv'
<1> USE DEF IInv, TypeOK, BusesHeld, ModeIsKept, OnlyViewer, Goto, serverVars, viewerVars,
            pubVars, Audience, TopicOf
<1>0. page[v] \in Pages /\ TopicOf(v) \in Topics
  BY TemplateOfTopic
<1>1. CASE Request(v)
  BY <1>1 DEF Request
<1>2. CASE Load(v)
  <2>1. Got(v) \in [frames : 0..MaxChanges, forms : 0..MaxChanges, as : Pages] /\ Got(v).as = page[v]
    BY <1>0, GotIsShowing DEF Showings
  <2> QED
    BY <1>0, <1>2, <2>1 DEF Load
<1>3. CASE LoadFails(v)
  BY <1>3 DEF LoadFails
<1>4. CASE Subscribe(v)
  BY <1>0, <1>4 DEF Subscribe, FirstStage, Running
<1>5. CASE Refuse(v)
  BY <1>5 DEF Refuse
<1>6. CASE CheckPanics(v)
  <2>1. CASE Exit
    BY <2>1 DEF Exit
  <2>2. CASE Goto(v, {"loaded"}, "refused") /\ UNCHANGED shows /\ OnlyViewer
    BY <2>2
  <2> QED
    BY <1>6, <2>1, <2>2 DEF CheckPanics
<1>7. CASE Leave(v)
  BY <1>0, <1>7 DEF Leave
<1> QED
  BY <1>1, <1>2, <1>3, <1>4, <1>5, <1>6, <1>7 DEF Browser

(* Each step of a publisher. *)
LEMMA PublisherKeepsIInv ==
  ASSUME IInv,
         NEW t \in Topics,
         Turn(t) \/ Cancel(t)
  PROVE  IInv'
<1> USE DEF IInv, TypeOK, BusesHeld, ModeIsKept, OnlyPublisher, Advance, serverVars, viewerVars,
            pubVars, Audience, TopicOf, Running, FirstStage
<1>1. CASE Rescan(t)
  BY <1>1 DEF Rescan
<1>2. CASE Read(t)
  BY <1>2 DEF Read
<1>3. CASE TurnFails(t)
  BY <1>3 DEF TurnFails
<1>4. CASE PublisherPanics(t)
  BY <1>4 DEF PublisherPanics, Exit
<1>5. CASE Publish(t)
  <2>1. ASSUME NEW v \in Viewers
        PROVE  shows[v] \in [frames : 0..MaxChanges, forms : 0..MaxChanges, as : Pages]
    OBVIOUS
  <2>2. ASSUME NEW v \in Viewers, TopicOf(v) = t
        PROVE  /\ Reloaded(shows[v], t) \in [frames : 0..MaxChanges, forms : 0..MaxChanges, as : Pages]
               /\ Reloaded(shows[v], t).as = Template[t]
               /\ Template[t] = page[v] \/ (page[v] = "storage-minimal" /\ Template[t] = "storage")
    <3>1. read[t] \in 0..MaxChanges /\ page[v] \in Pages /\ t = Topic[page[v]]
      BY <2>2
    <3>2. /\ Template[t] \in Pages
          /\ Template[t] = page[v] \/ (page[v] = "storage-minimal" /\ Template[t] = "storage")
      BY <3>1, TemplateOfTopic
    <3> QED
      BY <2>1, <3>1, <3>2, ReloadedIsShowing DEF Showings
  <2>3. UNCHANGED <<serverVars, data, page, at, read>> /\ pub' = [pub EXCEPT ![t] = "wait"]
    BY <1>5 DEF Publish
  <2>4. \A v \in Viewers :
          /\ shows'[v] = shows[v] \/ (TopicOf(v) = t /\ shows'[v] = Reloaded(shows[v], t))
          /\ shows'[v] \in [frames : 0..MaxChanges, forms : 0..MaxChanges, as : Pages]
    BY <1>5, <2>1, <2>2 DEF Publish
  <2>5. shows' \in [Viewers -> [frames : 0..MaxChanges, forms : 0..MaxChanges, as : Pages]]
    BY <1>5, <2>4 DEF Publish
  <2>6. ModeIsKept'
    BY <2>2, <2>3, <2>4
  <2>7. pub[t] # "none"
    BY <1>5 DEF Publish
  <2> QED
    BY <2>3, <2>5, <2>6, <2>7
<1>6. CASE NextTurn(t)
  BY <1>6 DEF NextTurn
<1>7. CASE Cancel(t)
  BY <1>7 DEF Cancel
<1> QED
  BY <1>1, <1>2, <1>3, <1>4, <1>5, <1>6, <1>7 DEF Turn

(* every step keeps it, *)
LEMMA NextIInv == IInv /\ [Next]_vars => IInv'
<1> USE DEF IInv, TypeOK, BusesHeld, ModeIsKept, serverVars, viewerVars, pubVars, Audience, TopicOf
<1>1. ASSUME IInv, Change PROVE IInv'
  BY <1>1, MaxChangesAssumption DEF Change
<1>2. ASSUME IInv, ReadNothing PROVE IInv'
  <2>1. "home" \in Topics
    BY DEF Topics, Topic, Pages
  <2> QED
    BY <1>2, <2>1 DEF ReadNothing, Advance, OnlyPublisher, Running
<1>3. ASSUME IInv, UNCHANGED vars PROVE IInv'
  BY <1>3 DEF vars
<1> QED
  BY <1>1, <1>2, <1>3, ProcessKeepsIInv, BrowserKeepsIInv, PublisherKeepsIInv DEF Next

(* and so it holds in every state. *)
LEMMA Invariant == Spec => []IInv
BY InitIInv, NextIInv, PTL DEF Spec

(* The variables have values that the code uses, and every publisher that  *)
(* runs has an audience: none is left behind by viewers who leave.         *)
THEOREM TypeCorrect == Spec => []TypeOK
<1>1. IInv => TypeOK
  BY DEF IInv
<1> QED
  BY <1>1, Invariant, PTL

(* While requests are served, no worker and no failure of another takes a  *)
(* connection away that has been opened.                                   *)
THEOREM ConnectionsLast == Spec => []BusesLastWhileServing
<1>1. IInv => BusesLastWhileServing
  BY DEF IInv, BusesHeld, BusesLastWhileServing
<1> QED
  BY <1>1, Invariant, PTL

(* No interleaving of loads, subscriptions and publications shows a viewer *)
(* a page in another mode, but for the storage page's minimal one.         *)
THEOREM PagesKeepTheirMode == Spec => []ModeIsKept
<1>1. IInv => ModeIsKept
  BY DEF IInv
<1> QED
  BY <1>1, Invariant, PTL

(* No interleaving leaves viewers without a publisher, which is why they    *)
(* catch up: with TypeOK, until the workers are cancelled a topic has a     *)
(* publisher exactly while it has an audience.  Given TypeOK the property   *)
(* is inductive.                                                            *)
THEOREM ViewersAreServed == Spec => []AudienceHasPublisher
<1> USE DEF TypeOK, AudienceHasPublisher, Audience, TopicOf, serverVars, viewerVars, pubVars
<1>1. Init => AudienceHasPublisher
  BY DEF Init
<1>2. TypeOK /\ TypeOK' /\ AudienceHasPublisher /\ [Next]_vars => AudienceHasPublisher'
  <2> SUFFICES ASSUME TypeOK, TypeOK', AudienceHasPublisher, [Next]_vars
               PROVE  AudienceHasPublisher'
    OBVIOUS
  <2>1. CASE Process
    <3>1. CASE Exit
      BY <3>1 DEF Exit
    <3>2. CASE OnlyServer /\ (cancelled => cancelled')
      BY <3>2 DEF OnlyServer
    <3>3. Exit \/ (OnlyServer /\ (cancelled => cancelled'))
      BY <2>1 DEF Process, Start, StartFails, RunEnds, Signal, StartReturns, ShutdownEnds,
                  ShutdownTimesOut, Open, OpenFails, Close
    <3> QED
      BY <3>1, <3>2, <3>3
  <2>2. CASE Change
    BY <2>2 DEF Change
  <2>3. CASE ReadNothing
    BY <2>3 DEF ReadNothing, Advance, OnlyPublisher
  <2>4. ASSUME NEW v \in Viewers, Browser(v)
        PROVE  AudienceHasPublisher'
    <3> USE DEF OnlyViewer, Goto
    <3>1. page[v] \in Pages /\ TopicOf(v) \in Topics
      BY TemplateOfTopic
    <3>2. CASE Request(v)
      BY <3>2 DEF Request
    <3>3. CASE Load(v)
      BY <3>3 DEF Load
    <3>4. CASE LoadFails(v)
      BY <3>4 DEF LoadFails
    <3>5. CASE Subscribe(v)
      BY <3>1, <3>5 DEF Subscribe, FirstStage
    <3>6. CASE Refuse(v)
      BY <3>6 DEF Refuse
    <3>7. CASE CheckPanics(v)
      BY <3>7 DEF CheckPanics, Exit
    <3>8. CASE Leave(v)
      BY <3>1, <3>8 DEF Leave
    <3> QED
      BY <2>4, <3>2, <3>3, <3>4, <3>5, <3>6, <3>7, <3>8 DEF Browser
  <2>5. ASSUME NEW t \in Topics, Turn(t) \/ Cancel(t)
        PROVE  AudienceHasPublisher'
    <3> USE DEF OnlyPublisher, Advance
    <3>1. CASE Rescan(t)
      BY <3>1 DEF Rescan
    <3>2. CASE Read(t)
      BY <3>2 DEF Read
    <3>3. CASE TurnFails(t)
      BY <3>3 DEF TurnFails
    <3>4. CASE PublisherPanics(t)
      BY <3>4 DEF PublisherPanics, Exit
    <3>5. CASE Publish(t)
      BY <3>5 DEF Publish
    <3>6. CASE NextTurn(t)
      BY <3>6 DEF NextTurn, FirstStage
    <3>7. CASE Cancel(t)
      BY <3>7 DEF Cancel
    <3> QED
      BY <2>5, <3>1, <3>2, <3>3, <3>4, <3>5, <3>6, <3>7 DEF Turn
  <2>6. CASE UNCHANGED vars
    BY <2>6 DEF vars
  <2> QED
    BY <2>1, <2>2, <2>3, <2>4, <2>5, <2>6 DEF Next
<1> QED
  BY <1>1, <1>2, TypeCorrect, PTL DEF Spec
=============================================================================
