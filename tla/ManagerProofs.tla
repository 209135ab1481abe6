--------------------------- MODULE ManagerProofs ---------------------------
(***************************************************************************)
(* Both transports over one Handler, for any threads, commands, channel    *)
(* capacity and response size.                                             *)
(***************************************************************************)
EXTENDS Manager, HandlerProofs, FiniteSetTheorems

\* The health events are Booleans, and the Pull loop holds deliveries.
FlowOK ==
    /\ wsUp \in BOOLEAN /\ missed \in BOOLEAN /\ wsHealthy \in BOOLEAN
    /\ dialled \in BOOLEAN /\ (wsUp => dialled)
    /\ healthCh \in Seq(BOOLEAN)
    /\ todo \in Seq(Deliveries)

\* The Pull loop has commands of a response only while it works them off, and
\* its thread is in Handle only for the first of them.
PullOK ==
    /\ pull \in {"check", "poll", "commands", "sleep", "stopped"}
    /\ phase \in {"running", "stopping", "exited"}
    /\ Len(healthCh) <= HealthSize /\ Len(todo) <= MaxCommands
    /\ pull # "commands" => todo = <<>>
    /\ handling[PullThread] # NoDelivery =>
         /\ todo # <<>> /\ handling[PullThread] = Head(todo)
         /\ Envelope[Head(todo)] = "ok"
    /\ phase = "exited" => pull = "stopped"

\* What is in hand was delivered.
CloudOK ==
    /\ enqueueErrors \in 0 .. MaxEnqueueErrors
    /\ delivered \in SUBSET Deliveries /\ refused \in SUBSET delivered
    /\ answered \in SUBSET delivered
    /\ \A d \in ToSet(todo) : d \in delivered
    /\ \A t \in Threads : handling[t] \in delivered \cup {NoDelivery}

ManagerInv == HandlerInv /\ FlowOK /\ HealthTracksLink

LEMMA ManagerStarts == Init => ManagerInv
  <1>. SUFFICES ASSUME Init PROVE ManagerInv
    OBVIOUS
  <1>1. HandlerInv
    BY HandlerStarts DEF Init
  <1>2. healthCh \in Seq(BOOLEAN) /\ todo \in Seq(Deliveries)
    BY DEF Init
  <1>3. FlowOK /\ HealthTracksLink
    BY <1>2, Zenon DEF Init, FlowOK, HealthTracksLink, HealthToCome
  <1>. QED  BY <1>1, <1>3 DEF ManagerInv

\* A response is a sequence of deliveries.
LEMMA ResponseType ==
    ASSUME NEW cmds \in Responses
    PROVE  cmds \in Seq(Deliveries)
  BY DEF Responses, SeqOf

\* Every step is a step of Handle, or none, on a command it was given.
LEMMA NextIsHandlerStep ==
    ASSUME FlowOK, [Next]_vars
    PROVE  HandlerStep
  <1>1. CASE PullStep
    <2>1. CASE PullHandle
      <3>1. Head(todo) \in Deliveries
        BY <2>1 DEF PullHandle, FlowOK
      <3>. QED  BY <2>1, <3>1, PullThreadType DEF PullHandle, HandlerStep
    <2>2. CASE PullEnqueue \/ PullEnqueueFails
      BY <2>2, PullThreadType DEF PullEnqueue, PullEnqueueFails, PullResult, HandlerStep
    <2>3. CASE PullCheck \/ PollFails \/ PullSkip \/ PullDone \/ PullWake
             \/ PullEnds
      BY <2>3 DEF PullCheck, PollFails, PullSkip, PullDone, PullWake, PullEnds,
                  HandlerStep
    <2>. QED  BY <1>1, <2>1, <2>2, <2>3 DEF PullStep
  <1>2. CASE (\E up \in BOOLEAN : WSHealthChanges(up)) \/ HealthLoop
             \/ (\E cmds \in Responses : PollAnswered(cmds))
             \/ Signal \/ Exit \/ Exited \/ UNCHANGED vars
    BY <1>2 DEF WSHealthChanges, HealthLoop, PollAnswered, Signal, Exit, Exited,
                vars, HandlerStep
  <1>3. ASSUME NEW t \in Threads,
               WSResult(t) \/ (\E d \in Deliveries : WSCommand(t, d)) \/ HandleStep(t)
        PROVE  HandlerStep
    BY <1>3 DEF WSResult, WSCommand, HandleStep, HandlerStep
  <1>. QED  BY <1>1, <1>2, <1>3 DEF Next, Workers

\* Types of the health channel and of the Pull loop.
LEMMA FlowStep ==
    ASSUME FlowOK, [Next]_vars
    PROVE  FlowOK'
  <1>1. ASSUME NEW up \in BOOLEAN, WSHealthChanges(up)
        PROVE  FlowOK'
    <2>1. Append(healthCh, up) \in Seq(BOOLEAN)
      BY DEF FlowOK
    <2>. QED
      BY <1>1, <2>1, Zenon DEF WSHealthChanges, ReportHealth, pullVars, FlowOK
  <1>2. CASE HealthLoop
    <2>1. Head(healthCh) \in BOOLEAN /\ Tail(healthCh) \in Seq(BOOLEAN)
      BY <1>2 DEF HealthLoop, FlowOK
    <2>. QED  BY <1>2, <2>1, Zenon DEF HealthLoop, pullVars, FlowOK
  <1>3. CASE PullStep
    <2>1. todo' = todo \/ (todo # <<>> /\ todo' = Tail(todo)) \/ todo' = <<>>
      BY <1>3 DEF PullStep, PullCheck, PollFails, PullHandle, PullSkip,
                  PullEnqueue, PullEnqueueFails, PullDone, PullWake, PullEnds,
                  PullGoesOn, PullAborts, PullResult, pullVars
    <2>2. todo' \in Seq(Deliveries)
      <3>1. todo \in Seq(Deliveries)
        BY Zenon DEF FlowOK
      <3>2. todo # <<>> => Tail(todo) \in Seq(Deliveries)
        BY <3>1
      <3>3. <<>> \in Seq(Deliveries)
        OBVIOUS
      <3>. QED  BY <2>1, <3>1, <3>2, <3>3, Zenon
    <2>3. UNCHANGED healthVars
      BY <1>3 DEF PullStep, PullCheck, PollFails, PullHandle, PullSkip,
                  PullEnqueue, PullEnqueueFails, PullDone, PullWake, PullEnds, PullResult
    <2>. QED  BY <2>2, <2>3, Zenon DEF healthVars, FlowOK
  <1>4. ASSUME NEW cmds \in Responses, PollAnswered(cmds)
        PROVE  FlowOK'
    BY <1>4, ResponseType DEF PollAnswered, healthVars, FlowOK
  <1>5. ASSUME NEW t \in Threads,
               WSResult(t) \/ (\E d \in Deliveries : WSCommand(t, d)) \/ HandleStep(t)
        PROVE  FlowOK'
    BY <1>5 DEF WSResult, WSCommand, HandleStep, healthVars, pullVars, FlowOK
  <1>6. CASE Signal \/ Exit \/ Exited \/ UNCHANGED vars
    BY <1>6 DEF Signal, Exit, Exited, vars, healthVars, pullVars, FlowOK
  <1>. QED  BY <1>1, <1>2, <1>3, <1>4, <1>5, <1>6 DEF Next, Workers

\* The last event on its way, or wsHealthy when there is none, is the state
\* of the link: a new event goes to the end, and the manager takes from the
\* front.
LEMMA HealthStep ==
    ASSUME FlowOK, HealthTracksLink, [Next]_vars
    PROVE  HealthTracksLink'
  <1>1. ASSUME NEW up \in BOOLEAN, WSHealthChanges(up)
        PROVE  HealthTracksLink'
    <2>1. CASE healthCh' = Append(healthCh, up)
      <3>1. healthCh' # <<>> /\ Last(healthCh') = up
        BY <2>1 DEF FlowOK, Last
      <3>2. wsUp' = up
        BY <1>1, Zenon DEF WSHealthChanges
      <3>. QED  BY <3>1, <3>2, Zenon DEF HealthTracksLink, HealthToCome
    <2>2. CASE missed' = TRUE
      BY <2>2, Zenon DEF HealthTracksLink
    <2>. QED  BY <1>1, <2>1, <2>2, Zenon DEF WSHealthChanges, ReportHealth
  <1>2. CASE HealthLoop
    <2>1. CASE Tail(healthCh) = <<>>
      <3>1. Last(healthCh) = Head(healthCh)
        <4>1. healthCh \in Seq(BOOLEAN) /\ healthCh # <<>>
          BY <1>2, Zenon DEF HealthLoop, FlowOK
        <4>2. Len(Tail(healthCh)) = Len(healthCh) - 1 /\ Len(healthCh) \in Nat
          BY <4>1
        <4>3. Len(healthCh) = 1
          <5>1. Len(<<>>) = 0
            OBVIOUS
          <5>2. Len(Tail(healthCh)) = 0
            BY <2>1, <5>1, Zenon
          <5>. QED  BY <4>2, <5>2
        <4>. QED  BY <4>1, <4>3 DEF Last
      <3>2. HealthToCome' = HealthToCome
        BY <1>2, <2>1, <3>1, Zenon DEF HealthLoop, HealthToCome
      <3>. QED  BY <1>2, <3>2 DEF HealthLoop, HealthTracksLink
    <2>2. CASE Tail(healthCh) # <<>>
      <3>1. Last(Tail(healthCh)) = Last(healthCh)
        BY <1>2, <2>2 DEF HealthLoop, FlowOK, Last
      <3>2. HealthToCome' = HealthToCome
        BY <1>2, <2>2, <3>1, Zenon DEF HealthLoop, HealthToCome
      <3>. QED  BY <1>2, <3>2 DEF HealthLoop, HealthTracksLink
    <2>. QED  BY <2>1, <2>2
  <1>3. ASSUME UNCHANGED <<wsUp, healthCh, missed, wsHealthy>>
        PROVE  HealthTracksLink'
    BY <1>3 DEF HealthTracksLink, HealthToCome
  <1>4. CASE PullStep
    BY <1>3, <1>4 DEF PullStep, PullCheck, PollFails, PullHandle, PullSkip,
                PullEnqueue, PullEnqueueFails, PullDone, PullWake, PullEnds,
                PullResult, healthVars
  <1>5. ASSUME NEW cmds \in Responses, PollAnswered(cmds)
        PROVE  HealthTracksLink'
    BY <1>3, <1>5 DEF PollAnswered, healthVars
  <1>6. ASSUME NEW t \in Threads,
               WSResult(t) \/ (\E d \in Deliveries : WSCommand(t, d)) \/ HandleStep(t)
        PROVE  HealthTracksLink'
    BY <1>3, <1>6 DEF WSResult, WSCommand, HandleStep, healthVars
  <1>7. CASE Signal \/ Exit \/ Exited \/ UNCHANGED vars
    BY <1>3, <1>7 DEF Signal, Exit, Exited, vars, healthVars
  <1>. QED  BY <1>1, <1>2, <1>4, <1>5, <1>6, <1>7 DEF Next, Workers

LEMMA ManagerStepKeeps ==
    ASSUME ManagerInv, [Next]_vars
    PROVE  ManagerInv'
  <1>1. HandlerInv'
    BY NextIsHandlerStep, HandlerStepKeeps DEF ManagerInv
  <1>. QED  BY <1>1, FlowStep, HealthStep DEF ManagerInv

\* docs/security.md:76: a command that arrives over both transports enters
\* execution once.
THEOREM OneExecutionAcrossTransports == Spec => []OneExecution
  <1>1. ManagerInv => OneExecution
    BY DEF ManagerInv, HandlerInv
  <1>. QED  BY ManagerStarts, ManagerStepKeeps, <1>1, PTL DEF Spec

\* The manager believes, or is about to believe, the state the WebSocket is
\* in, unless the latest event was dropped because the channel was full.
THEOREM HealthTracksLinkHolds == Spec => []HealthTracksLink
  <1>1. ManagerInv => HealthTracksLink
    BY DEF ManagerInv
  <1>. QED  BY ManagerStarts, ManagerStepKeeps, <1>1, PTL DEF Spec

-----------------------------------------------------------------------------
(* What is in hand, and the answer of every command.                       *)

LEMMA TailSet ==
    ASSUME NEW S, NEW s \in Seq(S), s # <<>>
    PROVE  /\ ToSet(s) = {Head(s)} \cup ToSet(Tail(s))
           /\ Head(s) \in ToSet(s)
           /\ Len(Tail(s)) < Len(s)
  <1>1. Len(s) \in Nat \ {0} /\ DOMAIN s = 1 .. Len(s)
    OBVIOUS
  <1>2. /\ Tail(s) \in Seq(S) /\ Len(Tail(s)) = Len(s) - 1
        /\ \A i \in 1 .. Len(s) - 1 : Tail(s)[i] = s[i + 1]
        /\ DOMAIN Tail(s) = 1 .. Len(s) - 1
    OBVIOUS
  <1>3. Head(s) = s[1]
    OBVIOUS
  <1>4. ASSUME NEW i \in DOMAIN s
        PROVE  s[i] \in {Head(s)} \cup ToSet(Tail(s))
    <2>1. CASE i = 1
      BY <2>1, <1>3
    <2>2. CASE i # 1
      <3>1. i - 1 \in DOMAIN Tail(s) /\ Tail(s)[i - 1] = s[i]
        BY <1>1, <1>2, <2>2
      <3>. QED  BY <3>1 DEF ToSet
    <2>. QED  BY <2>1, <2>2
  <1>5. Head(s) \in ToSet(s)
    BY <1>1, <1>3 DEF ToSet
  <1>6. ASSUME NEW i \in DOMAIN Tail(s)
        PROVE  Tail(s)[i] \in ToSet(s)
    <2>1. i + 1 \in DOMAIN s /\ Tail(s)[i] = s[i + 1]
      BY <1>1, <1>2
    <2>. QED  BY <2>1 DEF ToSet
  <1>7. ToSet(s) \subseteq {Head(s)} \cup ToSet(Tail(s))
    BY <1>4 DEF ToSet
  <1>8. ToSet(Tail(s)) \subseteq ToSet(s)
    BY <1>6 DEF ToSet
  <1>. QED  BY <1>1, <1>2, <1>5, <1>7, <1>8

LEMMA SetOfNone == ToSet(<<>>) = {}
  BY DEF ToSet

\* Handle takes a delivery when it is called and gives it up when its caller
\* leaves; in between nothing changes hands.
LEMMA CallTakes ==
    ASSUME HandlerTypeOK, NEW t \in Threads, NEW d \in Deliveries, Call(t, d)
    PROVE  /\ handling[t] = NoDelivery
           /\ \A u \in Threads : handling'[u] = IF u = t THEN d ELSE handling[u]
  BY DEF HandlerTypeOK, Call

LEMMA LeaveGives ==
    ASSUME HandlerTypeOK, NEW t \in Threads, Leave(t)
    PROVE  /\ handling[t] \in Deliveries
           /\ \A u \in Threads :
                 handling'[u] = IF u = t THEN NoDelivery ELSE handling[u]
  BY DEF HandlerTypeOK, Leave

LEMMA HandleStepHolds ==
    ASSUME NEW t \in Threads, HandleStep(t)
    PROVE  handling' = handling
  BY DEF HandleStep, Check, Spawn, SpawnFails, Finish

\* The Pull loop's step with a result: Handle's, or the rejection of an
\* envelope while its thread is not in Handle.
LEMMA PullResultGives ==
    ASSUME HandlerTypeOK, PullOK, PullResult
    PROVE  /\ handling[PullThread] \in {NoDelivery, Head(todo)}
           /\ handling'[PullThread] = NoDelivery
           /\ \A u \in Workers : handling'[u] = handling[u]
  <1>1. CASE Leave(PullThread)
    BY <1>1, LeaveGives, PullThreadType DEF Workers, PullOK
  <1>2. CASE Envelope[Head(todo)] # "ok" /\ UNCHANGED handlerVars
    BY <1>2 DEF handlerVars, PullOK
  <1>. QED  BY <1>1, <1>2 DEF PullResult

\* A response the Pull loop accepts, and every response, as the cloud sent it.
LEMMA PollAnsweredFacts ==
    ASSUME NEW cmds \in Responses, PollAnswered(cmds)
    PROVE  /\ pull = "poll" /\ handling' = handling /\ phase' = phase
           /\ healthCh' = healthCh /\ answered' = answered
           /\ enqueueErrors' = enqueueErrors
           /\ ToSet(cmds) \subseteq Deliveries
           /\ delivered' = delivered \cup ToSet(cmds)
           /\ \/ /\ pull' = "commands" /\ todo' = cmds
                 /\ Len(cmds) <= MaxCommands /\ refused' = refused
              \/ /\ pull' = "sleep" /\ todo' = <<>>
                 /\ refused' = refused \cup ToSet(cmds)
  <1>1. ToSet(cmds) \subseteq Deliveries
    BY ResponseType DEF ToSet
  <1>. QED
    BY <1>1 DEF PollAnswered, handlerVars, healthVars

LEMMA PullStarts == Init => PullOK /\ CloudOK
  <1>. SUFFICES ASSUME Init PROVE PullOK /\ CloudOK
    OBVIOUS
  <1>1. handling = [t \in Threads |-> NoDelivery]
    BY DEF Init, HandlerInit
  <1>2. PullOK
    BY <1>1, PullThreadType, ManagerConstants DEF Init, PullOK
  <1>3. CloudOK
    BY <1>1, SetOfNone, ManagerConstants DEF Init, CloudOK
  <1>. QED  BY <1>2, <1>3

\* The events on their way never outgrow their channel.
LEMMA ChannelStep ==
    ASSUME FlowOK, PullOK, [Next]_vars
    PROVE  Len(healthCh') <= HealthSize
  <1>0. healthCh \in Seq(BOOLEAN) /\ Len(healthCh) <= HealthSize
    BY DEF FlowOK, PullOK
  <1>1. ASSUME NEW up \in BOOLEAN, WSHealthChanges(up)
        PROVE  Len(healthCh') <= HealthSize
    <2>1. CASE healthCh' = Append(healthCh, up) /\ Len(healthCh) < HealthSize
      BY <1>0, <2>1, ManagerConstants
    <2>2. CASE healthCh' = healthCh
      BY <1>0, <2>2
    <2>. QED  BY <1>1, <2>1, <2>2 DEF WSHealthChanges, ReportHealth
  <1>2. CASE HealthLoop
    <2>1. healthCh # <<>> /\ healthCh' = Tail(healthCh)
      BY <1>2 DEF HealthLoop
    <2>. QED  BY <1>0, <2>1, ManagerConstants
  <1>3. ASSUME healthCh' = healthCh
        PROVE  Len(healthCh') <= HealthSize
    BY <1>0, <1>3
  <1>4. CASE PullStep
    BY <1>3, <1>4 DEF PullStep, PullCheck, PollFails, PullHandle, PullSkip,
                PullEnqueue, PullEnqueueFails, PullDone, PullWake, PullEnds,
                PullResult, healthVars
  <1>5. ASSUME NEW cmds \in Responses, PollAnswered(cmds)
        PROVE  Len(healthCh') <= HealthSize
    BY <1>3, <1>5 DEF PollAnswered, healthVars
  <1>6. ASSUME NEW t \in Threads,
               WSResult(t) \/ (\E d \in Deliveries : WSCommand(t, d)) \/ HandleStep(t)
        PROVE  Len(healthCh') <= HealthSize
    BY <1>3, <1>6 DEF WSResult, WSCommand, HandleStep, healthVars
  <1>7. CASE Signal \/ Exit \/ Exited \/ UNCHANGED vars
    BY <1>3, <1>7 DEF Signal, Exit, Exited, vars, healthVars
  <1>. QED  BY <1>1, <1>2, <1>4, <1>5, <1>6, <1>7 DEF Next, Workers

LEMMA PullOKStep ==
    ASSUME HandlerTypeOK, FlowOK, PullOK, [Next]_vars
    PROVE  PullOK'
  <1>0. Len(healthCh') <= HealthSize
    BY ChannelStep
  <1>1. CASE PullHandle
    <2>1. Head(todo) \in Deliveries
      BY <1>1 DEF PullHandle, FlowOK
    <2>2. handling'[PullThread] = Head(todo)
      BY <1>1, <2>1, CallTakes, PullThreadType DEF PullHandle
    <2>. QED  BY <1>0, <1>1, <2>2 DEF PullHandle, healthVars, pullVars, PullOK
  <1>2. CASE PullEnqueue \/ PullEnqueueFails
    <2>1. /\ PullResult
          /\ (todo' = Tail(todo) /\ pull' = pull) \/ (todo' = <<>> /\ pull' = "sleep")
      BY <1>2 DEF PullEnqueue, PullEnqueueFails, PullGoesOn, PullAborts
    <2>2. handling'[PullThread] = NoDelivery
      BY <2>1, PullResultGives
    <2>3. pull = "commands" /\ todo # <<>> /\ phase' = phase
      BY <2>1 DEF PullResult, healthVars
    <2>4. Len(todo') <= MaxCommands
      BY <2>1, <2>3, TailSet, ManagerConstants DEF FlowOK, PullOK
    <2>. QED  BY <1>0, <2>1, <2>2, <2>3, <2>4 DEF PullOK
  <1>3. CASE PullSkip
    <2>1. /\ pull = "commands" /\ todo # <<>> /\ todo' = Tail(todo) /\ pull' = pull
          /\ phase' = phase /\ handling' = handling
      BY <1>3 DEF PullSkip, PullGoesOn, healthVars, handlerVars
    <2>2. handling[PullThread] = NoDelivery
      BY <1>3 DEF PullSkip, PullOK, NoAnswerTo
    <2>3. Len(todo') <= MaxCommands
      BY <2>1, TailSet, ManagerConstants DEF FlowOK, PullOK
    <2>. QED  BY <1>0, <2>1, <2>2, <2>3 DEF PullOK
  <1>4. CASE PullCheck \/ PollFails \/ PullDone \/ PullWake \/ PullEnds
    BY <1>0, <1>4 DEF PullCheck, PollFails, PullDone, PullWake, PullEnds,
                 healthVars, handlerVars, PullOK
  <1>5. ASSUME NEW cmds \in Responses, PollAnswered(cmds)
        PROVE  PullOK'
    <2>1. todo = <<>> /\ handling[PullThread] = NoDelivery
      BY <1>5 DEF PollAnswered, PullOK
    <2>. QED
      BY <1>0, <1>5, <2>1, PollAnsweredFacts, ManagerConstants DEF PullOK
  <1>6. ASSUME NEW t \in Workers,
               WSResult(t) \/ (\E d \in Deliveries : WSCommand(t, d))
        PROVE  PullOK'
    <2>1. handling'[PullThread] = handling[PullThread]
      BY <1>6, CallTakes, LeaveGives, PullThreadType DEF WSResult, WSCommand, Workers
    <2>. QED
      BY <1>0, <1>6, <2>1 DEF WSResult, WSCommand, healthVars, pullVars, PullOK
  <1>7. ASSUME NEW t \in Threads, HandleStep(t)
        PROVE  PullOK'
    BY <1>0, <1>7, HandleStepHolds DEF HandleStep, healthVars, pullVars, PullOK
  <1>8. CASE (\E up \in BOOLEAN : WSHealthChanges(up)) \/ HealthLoop
    BY <1>0, <1>8 DEF WSHealthChanges, HealthLoop, handlerVars, pullVars, PullOK
  <1>9. CASE Signal \/ Exit \/ Exited \/ UNCHANGED vars
    BY <1>9, <1>0 DEF Signal, Exit, Exited, vars, handlerVars, healthVars, pullVars, PullOK
  <1>. QED
    BY <1>1, <1>2, <1>3, <1>4, <1>5, <1>6, <1>7, <1>8, <1>9 DEF Next, PullStep

LEMMA CloudStep ==
    ASSUME HandlerTypeOK, FlowOK, PullOK, CloudOK, [Next]_vars
    PROVE  CloudOK'
  <1>1. CASE PullHandle
    <2>1. Head(todo) \in Deliveries /\ Head(todo) \in ToSet(todo)
      BY <1>1, TailSet DEF PullHandle, FlowOK
    <2>2. \A u \in Threads : handling'[u] \in {handling[u], Head(todo)}
      BY <1>1, <2>1, CallTakes, PullThreadType DEF PullHandle
    <2>. QED  BY <1>1, <2>1, <2>2 DEF PullHandle, pullVars, cloudVars, CloudOK
  <1>2. CASE PullEnqueue \/ PullEnqueueFails
    <2>1. PullResult
      BY <1>2 DEF PullEnqueue, PullEnqueueFails
    <2>2. \A u \in Threads : handling'[u] \in {handling[u], NoDelivery}
      BY <2>1, PullResultGives DEF Workers
    <2>3. todo # <<>> /\ delivered' = delivered /\ refused' = refused
      BY <2>1 DEF PullResult
    <2>4. ToSet(todo') \subseteq ToSet(todo)
      BY <1>2, <2>3, TailSet, SetOfNone
         DEF PullEnqueue, PullEnqueueFails, PullGoesOn, PullAborts, FlowOK
    <2>5. answered' \in SUBSET delivered
      <3>1. Head(todo) \in delivered
        BY <2>3, TailSet DEF FlowOK, CloudOK
      <3>. QED  BY <1>2, <3>1 DEF PullEnqueue, PullEnqueueFails, CloudOK
    <2>6. enqueueErrors' \in 0 .. MaxEnqueueErrors
      BY <1>2, ManagerConstants DEF PullEnqueue, PullEnqueueFails, CloudOK
    <2>. QED  BY <2>2, <2>3, <2>4, <2>5, <2>6 DEF CloudOK
  <1>3. CASE PullSkip
    <2>1. ToSet(todo') \subseteq ToSet(todo)
      BY <1>3, TailSet DEF PullSkip, PullGoesOn, FlowOK
    <2>. QED  BY <1>3, <2>1 DEF PullSkip, handlerVars, cloudVars, CloudOK
  <1>4. CASE PullCheck \/ PollFails \/ PullDone \/ PullWake \/ PullEnds
    BY <1>4 DEF PullCheck, PollFails, PullDone, PullWake, PullEnds,
                handlerVars, cloudVars, CloudOK
  <1>5. ASSUME NEW cmds \in Responses, PollAnswered(cmds)
        PROVE  CloudOK'
    <2>1. ToSet(todo') \subseteq ToSet(cmds)
      BY <1>5, PollAnsweredFacts, SetOfNone
    <2>. QED  BY <1>5, <2>1, PollAnsweredFacts DEF CloudOK
  <1>6. ASSUME NEW t \in Workers, NEW d \in Deliveries, WSCommand(t, d)
        PROVE  CloudOK'
    <2>1. \A u \in Threads : handling'[u] \in {handling[u], d}
      BY <1>6, CallTakes DEF WSCommand, Workers
    <2>. QED  BY <1>6, <2>1 DEF WSCommand, pullVars, CloudOK
  <1>7. ASSUME NEW t \in Workers, WSResult(t)
        PROVE  CloudOK'
    <2>1. /\ handling[t] \in Deliveries
          /\ \A u \in Threads : handling'[u] \in {handling[u], NoDelivery}
      BY <1>7, LeaveGives DEF WSResult, Workers
    <2>2. handling[t] \in delivered
      BY <2>1, NoDeliveryIsNone DEF CloudOK, Workers
    <2>. QED  BY <1>7, <2>1, <2>2 DEF WSResult, pullVars, CloudOK
  <1>8. ASSUME NEW t \in Threads, HandleStep(t)
        PROVE  CloudOK'
    BY <1>8, HandleStepHolds DEF HandleStep, pullVars, cloudVars, CloudOK
  <1>9. CASE (\E up \in BOOLEAN : WSHealthChanges(up)) \/ HealthLoop
             \/ Signal \/ Exit \/ Exited \/ UNCHANGED vars
    BY <1>9 DEF WSHealthChanges, HealthLoop, Signal, Exit, Exited, vars,
                handlerVars, pullVars, cloudVars, CloudOK
  <1>. QED
    BY <1>1, <1>2, <1>3, <1>4, <1>5, <1>6, <1>7, <1>8, <1>9 DEF Next, PullStep

\* A command leaves the Pull loop's list with its answer, or without one if it
\* is owed none; a new response comes only when the list is empty; and the
\* process ends only after the Pull loop has.
LEMMA ForgottenStep ==
    ASSUME HandlerTypeOK, FlowOK, PullOK, CloudOK, NoneForgotten, [Next]_vars
    PROVE  NoneForgotten'
  <1>1. CASE PullHandle
    <2>1. Head(todo) \in Deliveries
      BY <1>1 DEF PullHandle, FlowOK
    <2>2. /\ handling[PullThread] = NoDelivery
          /\ \A u \in Workers : handling'[u] = handling[u]
      BY <1>1, <2>1, CallTakes, PullThreadType DEF PullHandle, Workers
    <2>. QED
      BY <1>1, <2>2, NoDeliveryIsNone
         DEF PullHandle, healthVars, pullVars, cloudVars, NoneForgotten, Owed, Workers
  <1>2. CASE PullEnqueue
    <2>1. /\ PullResult /\ todo # <<>> /\ todo' = Tail(todo) /\ phase' = phase
          /\ answered' = answered \cup {Head(todo)} /\ enqueueErrors' = enqueueErrors
          /\ delivered' = delivered /\ refused' = refused
      BY <1>2 DEF PullEnqueue, PullResult, PullGoesOn, healthVars
    <2>2. /\ handling[PullThread] \in {NoDelivery, Head(todo)}
          /\ \A u \in Workers : handling'[u] = handling[u]
      BY <2>1, PullResultGives
    <2>3. ToSet(todo) = {Head(todo)} \cup ToSet(todo')
      BY <2>1, TailSet DEF FlowOK
    <2>. QED
      BY <2>1, <2>2, <2>3, NoDeliveryIsNone DEF NoneForgotten, Owed, Workers
  <1>3. CASE PullEnqueueFails
    <2>1. enqueueErrors' > 0
      BY <1>3 DEF PullEnqueueFails, CloudOK
    <2>. QED  BY <2>1 DEF NoneForgotten
  <1>4. CASE PullSkip
    <2>1. ToSet(todo) = {Head(todo)} \cup ToSet(todo')
      BY <1>4, TailSet DEF PullSkip, PullGoesOn, FlowOK
    <2>2. ~Owed(Head(todo))
      BY <1>4 DEF PullSkip, Owed
    <2>. QED
      BY <1>4, <2>1, <2>2
         DEF PullSkip, handlerVars, healthVars, cloudVars, NoneForgotten, Owed
  <1>5. CASE PullCheck \/ PollFails \/ PullDone \/ PullWake \/ PullEnds
    BY <1>5 DEF PullCheck, PollFails, PullDone, PullWake, PullEnds,
                handlerVars, healthVars, cloudVars, NoneForgotten, Owed
  <1>6. ASSUME NEW cmds \in Responses, PollAnswered(cmds)
        PROVE  NoneForgotten'
    <2>1. ToSet(todo) = {} /\ phase # "exited"
      BY <1>6, PollAnsweredFacts, SetOfNone DEF PullOK
    <2>2. \/ todo' = cmds /\ refused' = refused
          \/ refused' = refused \cup ToSet(cmds)
      BY <1>6, PollAnsweredFacts
    <2>3. /\ handling' = handling /\ phase' = phase /\ answered' = answered
          /\ enqueueErrors' = enqueueErrors /\ delivered' = delivered \cup ToSet(cmds)
      BY <1>6, PollAnsweredFacts
    <2>. QED  BY <2>1, <2>2, <2>3 DEF NoneForgotten, Owed
  <1>7. ASSUME NEW t \in Workers, NEW e \in Deliveries, WSCommand(t, e)
        PROVE  NoneForgotten'
    <2>1. /\ handling[t] = NoDelivery
          /\ \A u \in Threads : handling'[u] = IF u = t THEN e ELSE handling[u]
      BY <1>7, CallTakes DEF WSCommand, Workers
    <2>. QED
      BY <1>7, <2>1, NoDeliveryIsNone
         DEF WSCommand, healthVars, pullVars, NoneForgotten, Owed, Workers
  <1>8. ASSUME NEW t \in Workers, WSResult(t)
        PROVE  NoneForgotten'
    <2>1. \A u \in Threads : handling'[u] = IF u = t THEN NoDelivery ELSE handling[u]
      BY <1>8, LeaveGives DEF WSResult, Workers
    <2>. QED
      BY <1>8, <2>1 DEF WSResult, healthVars, pullVars, NoneForgotten, Owed
  <1>9. ASSUME NEW t \in Threads, HandleStep(t)
        PROVE  NoneForgotten'
    BY <1>9, HandleStepHolds
       DEF HandleStep, healthVars, pullVars, cloudVars, NoneForgotten, Owed
  <1>10. CASE Exit
    <2>1. ToSet(todo) = {} /\ handling[PullThread] = NoDelivery
      BY <1>10, SetOfNone DEF Exit, PullOK
    <2>. QED
      BY <1>10, <2>1, NoDeliveryIsNone
         DEF Exit, handlerVars, pullVars, cloudVars, NoneForgotten, Owed, Workers
  <1>11. CASE (\E up \in BOOLEAN : WSHealthChanges(up)) \/ HealthLoop
              \/ Signal \/ Exited \/ UNCHANGED vars
    BY <1>11 DEF WSHealthChanges, HealthLoop, Signal, Exited, vars, handlerVars,
                 healthVars, pullVars, cloudVars, NoneForgotten, Owed
  <1>. QED
    BY <1>1, <1>2, <1>3, <1>4, <1>5, <1>6, <1>7, <1>8, <1>9, <1>10, <1>11
       DEF Next, PullStep

InHandInv == HandlerInv /\ FlowOK /\ PullOK /\ CloudOK /\ NoneForgotten

LEMMA InHandStarts == Init => InHandInv
  <1>1. Init => NoneForgotten
    BY DEF Init, NoneForgotten, Owed
  <1>. QED  BY <1>1, ManagerStarts, PullStarts DEF InHandInv, ManagerInv

LEMMA InHandKeeps ==
    ASSUME InHandInv, [Next]_vars
    PROVE  InHandInv'
  <1>1. HandlerTypeOK
    BY DEF InHandInv, HandlerInv
  <1>2. HandlerInv'
    BY NextIsHandlerStep, HandlerStepKeeps DEF InHandInv
  <1>. QED
    BY <1>1, <1>2, FlowStep, PullOKStep, CloudStep, ForgottenStep DEF InHandInv

\* Every variable of the manager, of the Pull loop and of the Handler keeps its
\* type, the channel its capacity and a response its size.
THEOREM ManagerTypeOKHolds == Spec => []TypeOK
  <1>1. InHandInv => TypeOK
    BY DEF InHandInv, HandlerInv, FlowOK, PullOK, CloudOK, TypeOK
  <1>. QED  BY InHandStarts, InHandKeeps, <1>1, PTL DEF Spec

\* While Enqueue does not fail, no command that was pulled, or that a worker of
\* the WebSocket has taken, is dropped on its way to a result, however the
\* threads, the polls and the shutdown are interleaved; of these the process
\* leaves behind only what its workers still handle.
THEOREM NoneForgottenHolds == Spec => []NoneForgotten
  <1>1. InHandInv => NoneForgotten
    BY DEF InHandInv
  <1>. QED  BY InHandStarts, InHandKeeps, <1>1, PTL DEF Spec

-----------------------------------------------------------------------------
(* How many commands of a Pull response are left out.                      *)

\* A thread that is past the checks of Handle has put its id into the store.
HandledReserved ==
    \A t \in Threads :
        stage[t] \in {"start", "running", "returned"} /\ ValidID(handling[t]) =>
            IDOf[handling[t]] \in reserved

LEMMA HandledReservedStep ==
    ASSUME HandlerTypeOK, HandledReserved, HandlerStep
    PROVE  HandledReserved'
  <1>1. ASSUME NEW t \in Threads, NEW d \in Deliveries, Call(t, d)
        PROVE  HandledReserved'
    BY <1>1 DEF Call, HandlerTypeOK, HandledReserved, ValidID
  <1>2. ASSUME NEW t \in Threads, Check(t)
        PROVE  HandledReserved'
    BY <1>2 DEF Check, HandlerTypeOK, HandledReserved, ValidID
  <1>3. ASSUME NEW t \in Threads, Spawn(t) \/ SpawnFails(t) \/ Finish(t) \/ Leave(t)
        PROVE  HandledReserved'
    BY <1>3 DEF Spawn, SpawnFails, Finish, Leave, HandlerTypeOK, HandledReserved, ValidID
  <1>4. CASE UNCHANGED handlerVars
    BY <1>4 DEF handlerVars, HandledReserved
  <1>. QED  BY <1>1, <1>2, <1>3, <1>4 DEF HandlerStep

\* The commands a response should not lose: Handle would take them.
Handled(d) == Envelope[d] = "ok" /\ ValidID(d)

\* A command is left out by a step that takes it out of hand before its id is
\* in the store.
LEMMA LeftOutChange ==
    ASSUME NEW R, reserved \subseteq reserved', CloudOK, CloudOK',
           \A d \in Deliveries : Owed(d)' => Owed(d) \/ InHand(d)',
           \A d \in Deliveries :
              Handled(d) /\ InHand(d) => InHand(d)' \/ IDOf[d] \in reserved \/ d \in R
    PROVE  LeftOut' \subseteq LeftOut \cup R
  <1>. SUFFICES ASSUME NEW d \in LeftOut', d \notin R
                PROVE  d \in LeftOut
    OBVIOUS
  <1>1. /\ d \in delivered' /\ Owed(d)' /\ Envelope[d] = "ok" /\ ValidID(d)
        /\ ~InHand(d)' /\ IDOf[d] \notin reserved'
    BY DEF LeftOut, ValidID
  <1>2. d \in Deliveries
    BY <1>1 DEF CloudOK
  <1>3. Owed(d)
    BY <1>1, <1>2
  <1>4. d \in delivered
    BY <1>3 DEF Owed
  <1>5. IDOf[d] \notin reserved /\ ~InHand(d)
    BY <1>1, <1>2 DEF Handled
  <1>. QED  BY <1>1, <1>3, <1>4, <1>5 DEF LeftOut

\* A thread that leaves Handle has its id reserved.
LEMMA LeaveIsReserved ==
    ASSUME HandlerTypeOK, HandledReserved, NEW t \in Threads, Leave(t),
           ValidID(handling[t])
    PROVE  IDOf[handling[t]] \in reserved
  BY DEF Leave, HandledReserved

LEMMA LeftOutStep ==
    ASSUME InHandInv, HandledReserved, [Next]_vars
    PROVE  \/ LeftOut' \subseteq LeftOut /\ enqueueErrors' = enqueueErrors
           \/ /\ todo # <<>> /\ LeftOut' \subseteq LeftOut \cup ToSet(Tail(todo))
              /\ enqueueErrors' = enqueueErrors + 1
  <1>0. /\ HandlerTypeOK /\ FlowOK /\ PullOK /\ CloudOK /\ CloudOK'
        /\ reserved \subseteq reserved'
    <2>1. HandlerTypeOK /\ FlowOK /\ PullOK /\ CloudOK
      BY DEF InHandInv, HandlerInv
    <2>2. HandlerStep
      BY <2>1, NextIsHandlerStep
    <2>. QED  BY <2>1, <2>2, AdmittedStep, CloudStep
  <1>1. ASSUME \A d \in Deliveries : Owed(d)' => Owed(d) \/ InHand(d)',
               \A d \in Deliveries :
                  Handled(d) /\ InHand(d) => InHand(d)' \/ IDOf[d] \in reserved
        PROVE  LeftOut' \subseteq LeftOut
    <2>1. LeftOut' \subseteq LeftOut \cup {}
      BY <1>0, <1>1, LeftOutChange
    <2>. QED  BY <2>1
  <1>2. CASE PullHandle
    <2>1. Head(todo) \in Deliveries
      BY <1>0, <1>2 DEF PullHandle, FlowOK
    <2>2. /\ handling[PullThread] = NoDelivery
          /\ \A u \in Threads : u # PullThread => handling'[u] = handling[u]
      BY <1>0, <1>2, <2>1, CallTakes, PullThreadType DEF PullHandle
    <2>3. \A d \in Deliveries : InHand(d) => InHand(d)'
      BY <1>2, <2>2, NoDeliveryIsNone DEF PullHandle, pullVars, InHand
    <2>4. \A d \in Deliveries : Owed(d)' => Owed(d)
      BY <1>2 DEF PullHandle, cloudVars, Owed
    <2>5. enqueueErrors' = enqueueErrors
      BY <1>2 DEF PullHandle, cloudVars
    <2>. QED  BY <1>1, <2>3, <2>4, <2>5
  <1>3. ASSUME PullResult
        PROVE  /\ todo # <<>> /\ ToSet(todo) = {Head(todo)} \cup ToSet(Tail(todo))
               /\ \A d \in Deliveries : Owed(d)' => Owed(d)
               /\ \A d \in Deliveries :
                    Handled(d) /\ InHand(d) =>
                       \/ IDOf[d] \in reserved \/ d \in ToSet(Tail(todo))
                       \/ \E u \in Threads : handling'[u] = d
    <2>1. todo # <<>> /\ delivered' = delivered /\ refused' = refused
      BY <1>3 DEF PullResult
    <2>2. ToSet(todo) = {Head(todo)} \cup ToSet(Tail(todo))
      BY <1>0, <2>1, TailSet DEF FlowOK
    <2>3. /\ handling[PullThread] \in {NoDelivery, Head(todo)}
          /\ \A u \in Workers : handling'[u] = handling[u]
      BY <1>0, <1>3, PullResultGives
    <2>4. Handled(Head(todo)) => IDOf[Head(todo)] \in reserved
      <3>1. CASE Leave(PullThread)
        <4>1. handling[PullThread] = Head(todo)
          BY <1>0, <2>3, <3>1, LeaveGives, PullThreadType, NoDeliveryIsNone
        <4>. QED  BY <1>0, <3>1, <4>1, LeaveIsReserved, PullThreadType DEF Handled
      <3>2. CASE Envelope[Head(todo)] # "ok"
        BY <3>2 DEF Handled
      <3>. QED  BY <1>3, <3>1, <3>2 DEF PullResult
    <2>5. ASSUME NEW d \in Deliveries, Handled(d), InHand(d)
          PROVE  \/ IDOf[d] \in reserved \/ d \in ToSet(Tail(todo))
                 \/ \E u \in Threads : handling'[u] = d
      <3>1. CASE d \in ToSet(todo)
        BY <2>2, <2>4, <2>5, <3>1
      <3>2. ASSUME NEW u \in Threads, handling[u] = d
            PROVE  \/ IDOf[d] \in reserved \/ d \in ToSet(Tail(todo))
                   \/ \E v \in Threads : handling'[v] = d
        <4>1. CASE u = PullThread
          BY <2>3, <2>4, <2>5, <3>2, <4>1, NoDeliveryIsNone
        <4>2. CASE u # PullThread
          BY <2>3, <3>2, <4>2 DEF Workers
        <4>. QED  BY <4>1, <4>2
      <3>. QED  BY <2>5, <3>1, <3>2 DEF InHand
    <2>6. \A d \in Deliveries : Owed(d)' => Owed(d)
      BY <2>1 DEF Owed
    <2>. QED  BY <2>1, <2>2, <2>5, <2>6
  <1>4. CASE PullEnqueue
    <2>1. PullResult /\ todo' = Tail(todo) /\ enqueueErrors' = enqueueErrors
      BY <1>4 DEF PullEnqueue, PullGoesOn
    <2>2. \A d \in Deliveries :
             Handled(d) /\ InHand(d) => InHand(d)' \/ IDOf[d] \in reserved
      BY <1>3, <2>1 DEF InHand
    <2>3. \A d \in Deliveries : Owed(d)' => Owed(d)
      BY <1>3, <2>1
    <2>. QED  BY <1>1, <2>1, <2>2, <2>3
  <1>5. CASE PullEnqueueFails
    <2>1. PullResult /\ enqueueErrors' = enqueueErrors + 1
      BY <1>5 DEF PullEnqueueFails
    <2>2. \A d \in Deliveries :
             Handled(d) /\ InHand(d) =>
                InHand(d)' \/ IDOf[d] \in reserved \/ d \in ToSet(Tail(todo))
      BY <1>3, <2>1 DEF InHand
    <2>3. \A d \in Deliveries : Owed(d)' => Owed(d)
      BY <1>3, <2>1
    <2>4. LeftOut' \subseteq LeftOut \cup ToSet(Tail(todo))
      BY <1>0, <2>2, <2>3, LeftOutChange
    <2>. QED  BY <1>3, <2>1, <2>4
  <1>6. CASE PullSkip
    <2>1. /\ todo # <<>> /\ todo' = Tail(todo) /\ handling' = handling
          /\ UNCHANGED cloudVars /\ ~Handled(Head(todo))
      BY <1>6 DEF PullSkip, PullGoesOn, handlerVars, NoAnswerTo, Handled
    <2>2. ToSet(todo) = {Head(todo)} \cup ToSet(todo')
      BY <1>0, <2>1, TailSet DEF FlowOK
    <2>3. \A d \in Deliveries : Handled(d) /\ InHand(d) => InHand(d)'
      BY <2>1, <2>2 DEF InHand
    <2>4. \A d \in Deliveries : Owed(d)' => Owed(d)
      BY <2>1 DEF cloudVars, Owed
    <2>5. enqueueErrors' = enqueueErrors
      BY <2>1 DEF cloudVars
    <2>. QED  BY <1>1, <2>3, <2>4, <2>5
  <1>7. ASSUME handling' = handling, todo' = todo, UNCHANGED cloudVars
        PROVE  LeftOut' \subseteq LeftOut /\ enqueueErrors' = enqueueErrors
    <2>1. \A d \in Deliveries : InHand(d) => InHand(d)'
      BY <1>7 DEF InHand
    <2>2. \A d \in Deliveries : Owed(d)' => Owed(d)
      BY <1>7 DEF cloudVars, Owed
    <2>3. enqueueErrors' = enqueueErrors
      BY <1>7 DEF cloudVars
    <2>. QED  BY <1>1, <2>1, <2>2, <2>3
  <1>8. CASE PullCheck \/ PollFails \/ PullDone \/ PullWake \/ PullEnds
    <2>1. handling' = handling /\ todo' = todo /\ UNCHANGED cloudVars
      BY <1>8 DEF PullCheck, PollFails, PullDone, PullWake, PullEnds, handlerVars
    <2>. QED  BY <1>7, <2>1
  <1>9. ASSUME NEW cmds \in Responses, PollAnswered(cmds)
        PROVE  LeftOut' \subseteq LeftOut /\ enqueueErrors' = enqueueErrors
    <2>1. ToSet(todo) = {}
      BY <1>0, <1>9, PollAnsweredFacts, SetOfNone DEF PullOK
    <2>2. \/ todo' = cmds /\ refused' = refused
          \/ refused' = refused \cup ToSet(cmds)
      BY <1>9, PollAnsweredFacts
    <2>3. /\ handling' = handling /\ enqueueErrors' = enqueueErrors
          /\ delivered' = delivered \cup ToSet(cmds)
      BY <1>9, PollAnsweredFacts
    <2>4. \A d \in Deliveries : InHand(d) => InHand(d)'
      BY <2>1, <2>3 DEF InHand
    <2>5. \A d \in Deliveries : Owed(d)' => Owed(d) \/ InHand(d)'
      BY <2>2, <2>3 DEF Owed, InHand
    <2>. QED  BY <1>1, <2>3, <2>4, <2>5
  <1>10. ASSUME NEW t \in Workers, NEW e \in Deliveries, WSCommand(t, e)
         PROVE  LeftOut' \subseteq LeftOut /\ enqueueErrors' = enqueueErrors
    <2>1. /\ t \in Threads /\ handling[t] = NoDelivery
          /\ \A u \in Threads : handling'[u] = IF u = t THEN e ELSE handling[u]
      BY <1>0, <1>10, CallTakes DEF WSCommand, Workers
    <2>2. /\ todo' = todo /\ enqueueErrors' = enqueueErrors
          /\ delivered' = delivered \cup {e} /\ refused' = refused
      BY <1>10 DEF WSCommand, pullVars
    <2>3. \A d \in Deliveries : InHand(d) => InHand(d)'
      BY <2>1, <2>2, NoDeliveryIsNone DEF InHand
    <2>4. \A d \in Deliveries : Owed(d)' => Owed(d) \/ InHand(d)'
      BY <2>1, <2>2 DEF Owed, InHand
    <2>. QED  BY <1>1, <2>2, <2>3, <2>4
  <1>11. ASSUME NEW t \in Workers, WSResult(t)
         PROVE  LeftOut' \subseteq LeftOut /\ enqueueErrors' = enqueueErrors
    <2>1. /\ t \in Threads /\ Leave(t)
          /\ \A u \in Threads : u # t => handling'[u] = handling[u]
      BY <1>0, <1>11, LeaveGives DEF WSResult, Workers
    <2>2. ValidID(handling[t]) => IDOf[handling[t]] \in reserved
      BY <1>0, <2>1, LeaveIsReserved
    <2>3. todo' = todo /\ enqueueErrors' = enqueueErrors
      BY <1>11 DEF WSResult, pullVars
    <2>4. \A d \in Deliveries :
             Handled(d) /\ InHand(d) => InHand(d)' \/ IDOf[d] \in reserved
      BY <2>1, <2>2, <2>3 DEF InHand, Handled
    <2>5. \A d \in Deliveries : Owed(d)' => Owed(d)
      BY <1>11 DEF WSResult, Owed
    <2>. QED  BY <1>1, <2>3, <2>4, <2>5
  <1>12. ASSUME NEW t \in Threads, HandleStep(t)
         PROVE  LeftOut' \subseteq LeftOut /\ enqueueErrors' = enqueueErrors
    <2>1. handling' = handling /\ todo' = todo /\ UNCHANGED cloudVars
      BY <1>12, HandleStepHolds DEF HandleStep, pullVars
    <2>. QED  BY <1>7, <2>1
  <1>13. CASE (\E up \in BOOLEAN : WSHealthChanges(up)) \/ HealthLoop
              \/ Signal \/ Exit \/ Exited \/ UNCHANGED vars
    <2>1. handling' = handling /\ todo' = todo /\ UNCHANGED cloudVars
      BY <1>13 DEF WSHealthChanges, HealthLoop, Signal, Exit, Exited, vars,
                   handlerVars, pullVars
    <2>. QED  BY <1>7, <2>1
  <1>. QED
    BY <1>2, <1>4, <1>5, <1>6, <1>8, <1>9, <1>10, <1>11, <1>12, <1>13
       DEF Next, PullStep

\* A sequence has no more members than its length.
LEMMA SetOfSequence ==
    ASSUME NEW S, NEW s \in Seq(S)
    PROVE  IsFiniteSet(ToSet(s)) /\ Cardinality(ToSet(s)) <= Len(s)
  <1>1. Len(s) \in Nat /\ DOMAIN s = 1 .. Len(s) /\ s = [i \in 1 .. Len(s) |-> s[i]]
    OBVIOUS
  <1>2. s \in Surjection(1 .. Len(s), ToSet(s))
    BY <1>1 DEF Surjection, ToSet
  <1>3. /\ IsFiniteSet(1 .. Len(s))
        /\ Cardinality(1 .. Len(s)) = IF 1 > Len(s) THEN 0 ELSE Len(s) - 1 + 1
    <2>1. 1 \in Int /\ Len(s) \in Int
      BY <1>1
    <2>. QED  BY <2>1, FS_Interval, Zenon
  <1>4. IsFiniteSet(ToSet(s)) /\ Cardinality(ToSet(s)) <= Cardinality(1 .. Len(s))
    BY <1>2, <1>3, FS_Surjection
  <1>. QED  BY <1>1, <1>3, <1>4

LeftOutInv ==
    /\ InHandInv /\ HandledReserved
    /\ IsFiniteSet(LeftOut) /\ LeftOutLimited

LEMMA LeftOutStarts == Init => LeftOutInv
  <1>. SUFFICES ASSUME Init PROVE LeftOutInv
    OBVIOUS
  <1>1. InHandInv
    BY InHandStarts
  <1>2. HandledReserved
    BY DEF Init, HandlerInit, HandledReserved
  <1>3. LeftOut = {}
    BY DEF Init, LeftOut
  <1>4. IsFiniteSet(LeftOut) /\ Cardinality(LeftOut) = 0
    BY <1>3, FS_EmptySet
  <1>5. LeftOutLimited
    BY <1>4, ManagerConstants DEF Init, LeftOutLimited
  <1>. QED  BY <1>1, <1>2, <1>4, <1>5 DEF LeftOutInv

LEMMA LeftOutKeeps ==
    ASSUME LeftOutInv, [Next]_vars
    PROVE  LeftOutInv'
  <1>1. InHandInv /\ HandlerTypeOK /\ FlowOK /\ HandledReserved
    BY DEF LeftOutInv, InHandInv, HandlerInv
  <1>2. InHandInv'
    BY <1>1, InHandKeeps
  <1>3. HandledReserved'
    BY <1>1, NextIsHandlerStep, HandledReservedStep
  <1>4. /\ IsFiniteSet(LeftOut) /\ Cardinality(LeftOut) \in Nat
        /\ Cardinality(LeftOut) <= enqueueErrors * (MaxCommands - 1)
    BY FS_CardinalityType DEF LeftOutInv, LeftOutLimited
  <1>5. CASE LeftOut' \subseteq LeftOut /\ enqueueErrors' = enqueueErrors
    <2>1. IsFiniteSet(LeftOut') /\ Cardinality(LeftOut') <= Cardinality(LeftOut)
      BY <1>4, <1>5, FS_Subset
    <2>2. Cardinality(LeftOut') \in Nat
      BY <2>1, FS_CardinalityType
    <2>3. enqueueErrors \in Nat
      BY <1>1, ManagerConstants DEF InHandInv, CloudOK
    <2>4. enqueueErrors * (MaxCommands - 1) \in Nat
      BY <2>3, ManagerConstants
    <2>5. Cardinality(LeftOut') <= enqueueErrors' * (MaxCommands - 1)
      BY <1>4, <1>5, <2>1, <2>2, <2>4
    <2>. QED  BY <1>2, <1>3, <2>1, <2>5 DEF LeftOutInv, LeftOutLimited
  <1>6. CASE /\ todo # <<>> /\ LeftOut' \subseteq LeftOut \cup ToSet(Tail(todo))
             /\ enqueueErrors' = enqueueErrors + 1
    <2> DEFINE T == ToSet(Tail(todo))
    <2>1. /\ Tail(todo) \in Seq(Deliveries) /\ Len(Tail(todo)) \in Nat
          /\ Len(Tail(todo)) <= MaxCommands - 1
      <3>1. todo \in Seq(Deliveries) /\ todo # <<>> /\ Len(todo) <= MaxCommands
        BY <1>1, <1>6 DEF FlowOK, InHandInv, PullOK
      <3>2. Len(todo) \in Nat /\ Len(Tail(todo)) = Len(todo) - 1 /\ Len(todo) > 0
        BY <3>1
      <3>. QED  BY <3>1, <3>2, ManagerConstants
    <2>2. /\ IsFiniteSet(T) /\ Cardinality(T) \in Nat
          /\ Cardinality(T) <= Len(Tail(todo))
      BY <2>1, SetOfSequence, FS_CardinalityType
    <2>. HIDE DEF T
    <2>3. /\ IsFiniteSet(LeftOut \cup T)
          /\ Cardinality(LeftOut \cup T)
               = Cardinality(LeftOut) + Cardinality(T) - Cardinality(LeftOut \cap T)
      BY <1>4, <2>2, FS_Union
    <2>4. Cardinality(LeftOut \cap T) \in Nat
      <3>1. IsFiniteSet(LeftOut \cap T)
        BY <1>4, FS_Subset
      <3>. QED  BY <3>1, FS_CardinalityType
    <2>5. LeftOut' \subseteq LeftOut \cup T
      BY <1>6 DEF T
    <2>6. IsFiniteSet(LeftOut') /\ Cardinality(LeftOut') <= Cardinality(LeftOut \cup T)
      BY <2>3, <2>5, FS_Subset
    <2>7. Cardinality(LeftOut') \in Nat
      BY <2>6, FS_CardinalityType
    <2>8. enqueueErrors \in Nat
      BY <1>1, ManagerConstants DEF InHandInv, CloudOK
    <2>9. /\ enqueueErrors * (MaxCommands - 1) \in Nat
          /\ (enqueueErrors + 1) * (MaxCommands - 1)
               = enqueueErrors * (MaxCommands - 1) + (MaxCommands - 1)
      BY <2>8, ManagerConstants
    <2>10. Cardinality(LeftOut')
              <= enqueueErrors * (MaxCommands - 1) + (MaxCommands - 1)
      BY <1>4, <2>1, <2>2, <2>3, <2>4, <2>6, <2>7, <2>9, ManagerConstants
    <2>11. Cardinality(LeftOut') <= enqueueErrors' * (MaxCommands - 1)
      BY <1>6, <2>9, <2>10
    <2>. QED  BY <1>2, <1>3, <2>6, <2>11 DEF LeftOutInv, LeftOutLimited
  <1>. QED  BY <1>1, <1>5, <1>6, LeftOutStep

\* What docs/architecture.md:99 promises fails only by an error of Enqueue, and
\* each of them costs at most the rest of one response.
THEOREM LeftOutLimitedHolds == Spec => []LeftOutLimited
  <1>1. LeftOutInv => LeftOutLimited
    BY DEF LeftOutInv
  <1>. QED  BY LeftOutStarts, LeftOutKeeps, <1>1, PTL DEF Spec
=============================================================================
