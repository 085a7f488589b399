------------------------ MODULE WorkerReactorProofs -------------------------
(***************************************************************************)
(* No wakeup is lost, for any number of reactors, clients and requests of  *)
(* any kind, once all reactors are set up.                                 *)
(*                                                                         *)
(* NoLostWakeup speaks of a reactor asleep in epoll_wait.  To be inductive *)
(* it must say what a reactor that is awake still owes: whoever is past    *)
(* the drain of a queue needs a wakeup for what is put there from then on. *)
(***************************************************************************)
EXTENDS WorkerReactor, TLAPS

\* The reactor will look at its queues no more in this turn.
PastDrain(r) ==
  \/ requests[r] # <<>> /\ pc[r] # "events"
  \/ responses[r] # <<>> /\ pc[r] \notin {"events", "responses"}

Announced(r) == r \in signal \/ \E q \in Reactors : r \in waking[q]

WakeInv ==
  /\ pc \in [Reactors -> {"starting", "wait", "events", "responses", "harvest"}]
  /\ DOMAIN waking = Reactors /\ DOMAIN requests = Reactors /\ DOMAIN responses = Reactors
  /\ wakeup_fd = Reactors
  /\ \A r \in Reactors : PastDrain(r) => Announced(r)

\* All eventfds are in place before the first client comes.
LEMMA WakeInit ==
  ASSUME Late = {}, Init
  PROVE  WakeInv
BY DEF Init, WakeInv, PastDrain, Announced

-----------------------------------------------------------------------------
\* A push fills the queue and leaves the wakeup owed: the pusher has nothing
\* else to announce.
LEMMA RequestPushed ==
  ASSUME WakeInv, NEW from \in Reactors, NEW to, NEW fwd,
         waking[from] = {}, PushRequest(from, to, fwd), UNCHANGED pc
  PROVE  WakeInv'
<1>1. \A r \in Reactors : PastDrain(r)' => Announced(r)'
  <2> SUFFICES ASSUME NEW r \in Reactors, PastDrain(r)'
               PROVE  Announced(r)'
    OBVIOUS
  <2>1. CASE r = to
    BY <2>1 DEF WakeInv, PushRequest, Announced
  <2>2. CASE r # to
    BY <2>2 DEF WakeInv, PushRequest, Announced, PastDrain
  <2> QED  BY <2>1, <2>2
<1> QED  BY <1>1 DEF WakeInv, PushRequest

LEMMA ResponsePushed ==
  ASSUME WakeInv, NEW r \in Reactors, NEW to, NEW fwd,
         pc[r] = "events", waking[r] = {}, PopRequestPushResponse(r, to, fwd), UNCHANGED pc
  PROVE  WakeInv'
<1>1. \A q \in Reactors : PastDrain(q)' => Announced(q)'
  <2> SUFFICES ASSUME NEW q \in Reactors, PastDrain(q)'
               PROVE  Announced(q)'
    OBVIOUS
  <2>1. CASE q = to
    BY <2>1 DEF WakeInv, PopRequestPushResponse, Announced
  <2>2. CASE q # to
    BY <2>2 DEF WakeInv, PopRequestPushResponse, Announced, PastDrain
  <2> QED  BY <2>1, <2>2
<1> QED  BY <1>1 DEF WakeInv, PopRequestPushResponse

\* The wakeup arrives: with every eventfd in place none is dropped.
LEMMA Woken ==
  ASSUME WakeInv, NEW r \in Reactors, Wake(r)
  PROVE  WakeInv'
<1>1. \A q \in Reactors : PastDrain(q)' => Announced(q)'
  BY DEF WakeInv, Wake, loopVars, PastDrain, Announced
<1> QED  BY <1>1 DEF WakeInv, Wake, loopVars

\* The eventfd is read only by a reactor that has both drains before it.
LEMMA WakeupRead ==
  ASSUME WakeInv, NEW r \in Reactors, HandleWakeup(r)
  PROVE  WakeInv'
<1>1. \A q \in Reactors : PastDrain(q)' => Announced(q)'
  BY DEF WakeInv, HandleWakeup, Takes, PastDrain, Announced
<1> QED  BY <1>1 DEF WakeInv, HandleWakeup

\* A reactor gets past a drain when the queue is empty.
LEMMA LoopMovesOn ==
  ASSUME WakeInv, NEW r \in Reactors,
         Poll(r) \/ RequestsDone(r) \/ ResponsesDone(r) \/ HarvestDone(r)
  PROVE  WakeInv'
<1> USE DEF WakeInv, queueVars
<1>1. CASE Poll(r)
  BY <1>1 DEF Poll, PastDrain, Announced
<1>2. CASE RequestsDone(r)
  BY <1>2 DEF RequestsDone, EventsDone, PastDrain, Announced
<1>3. CASE ResponsesDone(r)
  BY <1>3 DEF ResponsesDone, PastDrain, Announced
<1>4. CASE HarvestDone(r)
  BY <1>4 DEF HarvestDone, PastDrain, Announced
<1> QED  BY <1>1, <1>2, <1>3, <1>4

LEMMA ResponseTaken ==
  ASSUME WakeInv, NEW r \in Reactors, DrainResponse(r)
  PROVE  WakeInv'
<1>1. \A q \in Reactors : PastDrain(q)' => Announced(q)'
  BY DEF WakeInv, DrainResponse, loopVars, PastDrain, Announced
<1> QED  BY <1>1 DEF WakeInv, DrainResponse, loopVars

\* Everything else leaves the loop's place and the queues alone.
LEMMA Undisturbed ==
  ASSUME WakeInv, UNCHANGED <<pc, queueVars>>
  PROVE  WakeInv'
BY DEF WakeInv, queueVars, PastDrain, Announced

LEMMA RequestRead ==
  ASSUME WakeInv, NEW r \in Reactors, NEW fd, HandleRead(r, fd)
  PROVE  WakeInv'
<1>1. PICK s \in Owners(r, fd) :
        \/ UNCHANGED queueVars
        \/ Forward(r, fd, s, session[s].stream[1].id)
  BY DEF HandleRead
<1>2. UNCHANGED pc /\ waking[r] = {}
  BY DEF HandleRead, ReadDone, Takes
<1>3. CASE UNCHANGED queueVars
  BY <1>2, <1>3, Undisturbed
<1>4. CASE Forward(r, fd, s, session[s].stream[1].id)
  BY <1>2, <1>4, RequestPushed DEF Forward
<1> QED  BY <1>1, <1>3, <1>4

\* One step per action.
LEMMA WakeStep ==
  ASSUME WakeInv, [Next]_vars
  PROVE  WakeInv'
<1>1. CASE UNCHANGED vars
  BY <1>1, Undisturbed DEF vars, loopVars
<1>2. CASE Client
  <2>1. UNCHANGED <<loopVars, queueVars>>
    BY <1>2 DEF Client, Connect, Send, SendRest, Leave
  <2> QED  BY <2>1, Undisturbed DEF loopVars
<1>3. ASSUME NEW r \in Reactors, Start(r)
      PROVE  WakeInv'
  <2>1. \A q \in Reactors : PastDrain(q)' => Announced(q)'
    BY <1>3 DEF WakeInv, Start, PastDrain, Announced
  <2> QED  BY <1>3, <2>1 DEF WakeInv, Start
<1>4. ASSUME NEW r \in Reactors, Kernel(r)
      PROVE  WakeInv'
  BY <1>4, Undisturbed DEF Kernel, Complete, loopVars
<1>5. ASSUME NEW r \in Reactors, Loop(r)
      PROVE  WakeInv'
  <2>1. CASE Poll(r) \/ RequestsDone(r) \/ ResponsesDone(r) \/ HarvestDone(r)
    BY <2>1, LoopMovesOn
  <2>2. CASE HandleWakeup(r)
    BY <2>2, WakeupRead
  <2>3. CASE HandleAccept(r) \/ Harvest(r)
    BY <2>3, Undisturbed DEF HandleAccept, Harvest, loopVars
  <2>4. ASSUME NEW fd \in Fds, HandleRead(r, fd)
        PROVE  WakeInv'
    BY <2>4, RequestRead
  <2>5. ASSUME NEW fd \in Fds, HandleHangup(r, fd) \/ HandleWrite(r, fd) \/ HandleWriteFails(r, fd)
        PROVE  WakeInv'
    BY <2>5, Undisturbed DEF HandleHangup, HandleWrite, HandleWriteFails, WriteTurn
  <2>6. CASE Wake(r)
    BY <2>6, Woken
  <2>7. CASE DrainRequest(r)
    BY <2>7, ResponsePushed DEF DrainRequest, EventsDone, loopVars
  <2>8. CASE DrainResponse(r)
    BY <2>8, ResponseTaken
  <2> QED  BY <1>5, <2>1, <2>2, <2>3, <2>4, <2>5, <2>6, <2>7, <2>8 DEF Loop
<1> QED  BY <1>1, <1>2, <1>3, <1>4, <1>5 DEF Next

\* Once all reactors are set up, one that sleeps with something in its queues
\* has been or is being woken: run() reads the eventfd before it drains, and
\* whoever pushes writes it after the push.
THEOREM WakeupsArrive ==
  ASSUME Late = {}
  PROVE  Spec => []NoLostWakeup
<1>1. Init => WakeInv
  BY WakeInit
<1>2. WakeInv /\ [Next]_vars => WakeInv'
  BY WakeStep
<1>3. WakeInv => NoLostWakeup
  BY DEF WakeInv, NoLostWakeup, PastDrain, Announced
<1> QED  BY <1>1, <1>2, <1>3, PTL DEF Spec
=============================================================================
