--------------------------- MODULE OperatorProofs ---------------------------
(***************************************************************************)
(* What the controllers promise together, proved for every value of the    *)
(* constants.                                                              *)
(***************************************************************************)
EXTENDS OperatorProps, SequenceTheorems, TLAPS

\* A step of the user controller is none that the client controller sees.
LEMMA UserStepsUnseen ==
  ASSUME \/ UserWorker \/ UserSurroundings
         \/ \E u \in Users : UserStart(u) \/ UserSync(u) \/ UserResync(u)
  PROVE  UNCHANGED C!vars
<1>1. ASSUME UserAlone, UNCHANGED <<svcs, up>>
      PROVE  UNCHANGED C!vars
  BY <1>1 DEF UserAlone, clientVars, C!vars, C!objects, C!hand, C!loop, C!world
<1>2. CASE UserWorker
  BY <1>1, <1>2 DEF UserWorker, U!Worker, U!InitStatus, U!RefetchInit, U!SaveSpec,
     U!RefetchSpec, U!Elect, U!ElectFails, U!NoNode, U!AddUser, U!AddUserFails,
     U!Rollback, U!SaveNodes, U!AddFailed, U!AddFinalizer, U!Available, U!Degrade,
     U!RefetchFinal, U!MarkDegraded, U!RemoveFinalizer, U!RemoveUser,
     U!RemoveUserFails, U!Restore, U!RestoreDone, U!Write, U!WriteAndReturn,
     U!Refetch, U!world
<1> QED
  BY <1>1, <1>2 DEF UserSurroundings, UserStart, UserSync, UserResync, U!Deadline,
     U!Create, U!Edit, U!Delete, U!OwnerStores, U!Start, U!CacheSync, U!Resync, U!world
\* A step of the client controller is one that its own module allows.
LEMMA ClientSteps ==
  ASSUME \/ ClientWorker \/ ClientSurroundings
         \/ \E n \in Clients : ClientStart(n) \/ ClientSync(n) \/ ClientResync(n)
  PROVE  C!Next
BY DEF ClientWorker, ClientSurroundings, ClientStart, ClientSync, ClientResync, Panic,
       C!Next, C!Worker

\* What happens to both is, too.
LEMMA SharedClientSteps ==
  ASSUME Crash \/ \E s \in Services : RestartServer(s) \/ ComeUp(s)
  PROVE  C!Next
BY DEF Crash, RestartServer, ComeUp, C!Next

LEMMA Unseen ==
  UNCHANGED vars => UNCHANGED C!vars /\ UNCHANGED U!vars
BY DEF vars, userVars, clientVars, servers, Inbounds, Tagged, C!vars, C!objects, C!hand, C!loop,
       C!world, U!vars, U!worker, U!world

\* The user controller is nothing to the client controller, which behaves as it
\* does alone: it reads and writes nothing of it, and shares its process and its
\* servers' restarts only.
THEOREM ClientUndisturbed == Spec => ClientControllerUndisturbed
<1>1. Init => C!Init
  BY DEF Init
<1>2. [Next]_vars => [C!Next]_(C!vars)
  BY UserStepsUnseen, ClientSteps, SharedClientSteps, Unseen DEF Next
<1> QED
  BY <1>1, <1>2, PTL DEF Spec, ClientControllerUndisturbed, C!Spec

-----------------------------------------------------------------------------
(* What the client controller adds to the servers.                          *)

\* The client controller's objects, copies and calls have their types.
ClientTyped ==
  /\ clientApi \in [Clients -> C!Objects \cup {Gone}]
  /\ clientCache \in [Clients -> C!Objects \cup {Gone}]
  /\ clientPc # "idle" => clientCur \in Clients /\ clientObj \in C!Objects
  /\ clientCalls \in Seq(C!Calls)

LEMMA ClientCallsTyped ==
  ASSUME NEW s \in Services, NEW c \in Configs
  PROVE  C!CallsTo(s, c) \in Seq(C!Calls)
<1> DEFINE a == [i \in DOMAIN c.ins  |-> [svc |-> s, kind |-> "in",  tag |-> c.ins[i]]]
           b == [i \in DOMAIN c.outs |-> [svc |-> s, kind |-> "out", tag |-> c.outs[i]]]
<1>1. c.ins \in Seq(Tags) /\ c.outs \in Seq(Tags)
  BY ConfigsAssumption DEF C!IsConfig
<1>2. /\ Len(c.ins) \in Nat /\ DOMAIN c.ins = 1 .. Len(c.ins)
      /\ Len(c.outs) \in Nat /\ DOMAIN c.outs = 1 .. Len(c.outs)
      /\ \A i \in DOMAIN c.ins : c.ins[i] \in Tags
      /\ \A i \in DOMAIN c.outs : c.outs[i] \in Tags
  BY <1>1
<1>3. a \in Seq(C!Calls)
  <2>1. \A i \in 1 .. Len(c.ins) : [svc |-> s, kind |-> "in", tag |-> c.ins[i]] \in C!Calls
    BY <1>2 DEF C!Calls
  <2>2. a = [i \in 1 .. Len(c.ins) |-> [svc |-> s, kind |-> "in", tag |-> c.ins[i]]]
    BY <1>2
  <2> QED
    BY <1>2, <2>1, <2>2, IsASeq
<1>4. b \in Seq(C!Calls)
  <2>1. \A i \in 1 .. Len(c.outs) : [svc |-> s, kind |-> "out", tag |-> c.outs[i]] \in C!Calls
    BY <1>2 DEF C!Calls
  <2>2. b = [i \in 1 .. Len(c.outs) |-> [svc |-> s, kind |-> "out", tag |-> c.outs[i]]]
    BY <1>2
  <2> QED
    BY <1>2, <2>1, <2>2, IsASeq
<1>5. C!CallsTo(s, c) = a \o b
  BY DEF C!CallsTo
<1> HIDE DEF a, b
<1> QED
  BY <1>3, <1>4, <1>5, ConcatProperties

LEMMA ClientPutTyped ==
  ASSUME ClientTyped, NEW n \in Clients, NEW o \in C!Objects, C!Put(n, o)
  PROVE  clientApi' \in [Clients -> C!Objects \cup {Gone}]
BY DEF ClientTyped, C!Put, C!Stored

\* A write of the worker's copy, and what the worker goes on with.
LEMMA ClientWriteTyped ==
  ASSUME ClientTyped, NEW here, here # "idle", NEW next, NEW o \in C!Objects,
         C!Write(here, o, next) \/ C!WriteAndReturn(here, o)
  PROVE  ClientTyped'
<1>1. clientPc # "idle" /\ clientCur \in Clients /\ <<>> \in Seq(C!Calls)
  <2>1. clientPc = here
    BY DEF C!Write, C!WriteAndReturn
  <2> QED
    BY <2>1 DEF ClientTyped
<1>2. clientApi' \in [Clients -> C!Objects \cup {Gone}]
  <2>1. C!Put(clientCur, o) \/ UNCHANGED clientApi
    BY DEF C!Write, C!WriteAndReturn, C!Accepted, C!Refused
  <2> QED
    BY <1>1, <2>1, ClientPutTyped DEF ClientTyped
<1>3. CASE C!WriteAndReturn(here, o)
  BY <1>1, <1>2, <1>3 DEF ClientTyped, C!WriteAndReturn, C!Return, C!Leave
<1>4. CASE C!Write(here, o, next)
  <2>1. clientCache' = clientCache
    BY <1>4 DEF C!Write
  <2>2. CASE C!Return({clientCur})
    BY <1>1, <1>2, <2>1, <2>2 DEF ClientTyped, C!Return, C!Leave
  <2>3. CASE C!Continue(next, o, TRUE) /\ UNCHANGED C!loop
    BY <1>1, <1>2, <2>1, <2>3 DEF ClientTyped, C!Continue, C!loop
  <2> QED
    BY <1>4, <2>2, <2>3 DEF C!Write
<1> QED
  BY <1>3, <1>4

\* A read into the worker's copy.
LEMMA ClientReadTyped ==
  ASSUME ClientTyped, clientPc # "idle", NEW next, NEW again,
         UNCHANGED <<clientApi, clientCache>>,
         \/ C!Return(again)
         \/ /\ clientCache[clientCur] # Gone
            /\ C!Continue(next, clientCache[clientCur], clientCur \in clientSynced)
            /\ UNCHANGED clientCalls
  PROVE  ClientTyped'
<1>1. /\ clientCur \in Clients /\ <<>> \in Seq(C!Calls)
      /\ clientCache[clientCur] # Gone => clientCache[clientCur] \in C!Objects
  BY DEF ClientTyped
<1>2. CASE C!Return(again)
  BY <1>1, <1>2 DEF ClientTyped, C!Return, C!Leave
<1>3. CASE /\ clientCache[clientCur] # Gone
           /\ C!Continue(next, clientCache[clientCur], clientCur \in clientSynced)
           /\ UNCHANGED clientCalls
  BY <1>1, <1>3 DEF ClientTyped, C!Continue
<1> QED
  BY <1>2, <1>3

LEMMA ClientWorkingTyped ==
  ASSUME ClientTyped, C!Working
  PROVE  ClientTyped'
<1>1. CASE \/ C!InitStatus \/ C!InitAgain \/ C!AddFinalizer \/ C!Degrade
           \/ C!MarkDegraded \/ C!RemoveFinalizer \/ C!Available
  <2>1. clientPc # "idle" /\ clientObj \in C!Objects
    BY <1>1 DEF ClientTyped, C!InitStatus, C!InitAgain, C!AddFinalizer, C!Degrade,
       C!MarkDegraded, C!RemoveFinalizer, C!Available, C!Write, C!WriteAndReturn
  <2>2. /\ [clientObj EXCEPT !.avail = "Unknown"] \in C!Objects
        /\ [clientObj EXCEPT !.avail = "True"] \in C!Objects
        /\ [clientObj EXCEPT !.fin = TRUE] \in C!Objects
        /\ [clientObj EXCEPT !.fin = FALSE] \in C!Objects
        /\ [clientObj EXCEPT !.degraded = "Unknown"] \in C!Objects
        /\ [clientObj EXCEPT !.degraded = "True"] \in C!Objects
    BY <2>1 DEF C!Objects, C!Avail, C!Degraded
  <2> QED
    BY <1>1, <2>2, ClientWriteTyped
       DEF C!InitStatus, C!InitAgain, C!AddFinalizer, C!Degrade, C!MarkDegraded,
           C!RemoveFinalizer, C!Available
<1>2. ASSUME NEW next, C!Refetch(next), clientPc # "idle"
      PROVE  ClientTyped'
  <2>1. UNCHANGED <<clientApi, clientCache>>
    BY <1>2 DEF C!Refetch, C!objects
  <2>2. CASE C!Return({clientCur})
    BY <1>2, <2>1, <2>2, ClientReadTyped
  <2>3. CASE /\ clientCache[clientCur] # Gone
             /\ C!Continue(next, clientCache[clientCur], clientCur \in clientSynced)
             /\ UNCHANGED clientCalls
    BY <1>2, <2>1, <2>3, ClientReadTyped
  <2> QED
    BY <1>2, <2>2, <2>3 DEF C!Refetch, C!loop
<1>7. CASE C!RefetchInit \/ C!RefetchFinal
  BY <1>2, <1>7 DEF C!RefetchInit, C!RefetchFinal
<1>8. CASE C!Reread
  <2>1. UNCHANGED <<clientApi, clientCache>> /\ clientPc # "idle"
    BY <1>8 DEF C!Reread, C!objects
  <2>2. CASE C!Return({})
    BY <2>1, <2>2, ClientReadTyped
  <2>3. CASE /\ clientCache[clientCur] # Gone
             /\ C!Continue(C!AfterStatus(clientCache[clientCur]), clientCache[clientCur],
                           clientCur \in clientSynced)
             /\ UNCHANGED clientCalls
    BY <2>1, <2>3, ClientReadTyped
  <2> QED
    BY <1>8, <2>2, <2>3 DEF C!Reread, C!loop
<1>3. CASE C!Invalid \/ C!ElectFails \/ C!AddHandlerFails
  <2>1. UNCHANGED <<clientApi, clientCache>> /\ clientPc' = "idle" /\ clientCalls' = <<>>
    BY <1>3 DEF C!Invalid, C!ElectFails, C!AddHandlerFails, C!Return, C!Leave, C!objects
  <2>2. <<>> \in Seq(C!Calls)
    OBVIOUS
  <2> QED
    BY <2>1, <2>2 DEF ClientTyped
<1>4. CASE C!Elect
  BY <1>4 DEF ClientTyped, C!Elect, C!objects
<1>5. ASSUME NEW s \in Services, C!Dial(s)
      PROVE  ClientTyped'
  <2>1. clientObj.spec \in Configs
    BY <1>5 DEF ClientTyped, C!Dial, C!Objects
  <2> QED
    BY <1>5, <2>1, ClientCallsTyped DEF ClientTyped, C!Dial, C!objects, C!hand
<1>6. CASE C!AddHandler
  <2>1. clientCalls \in Seq(C!Calls) /\ clientCalls # <<>>
    BY <1>6 DEF ClientTyped, C!AddHandler
  <2>2. Tail(clientCalls) \in Seq(C!Calls)
    BY <2>1
  <2> QED
    BY <1>6, <2>2 DEF ClientTyped, C!AddHandler, C!objects, C!hand
<1> QED
  BY <1>1, <1>3, <1>4, <1>5, <1>6, <1>7, <1>8 DEF C!Working

LEMMA ClientProcessEndsTyped ==
  ASSUME ClientTyped, C!ProcessEnds
  PROVE  ClientTyped'
<1>1. /\ clientApi' = clientApi /\ clientCache' = clientApi
      /\ clientPc' = "idle" /\ clientCalls' = <<>> /\ <<>> \in Seq(C!Calls)
  BY DEF C!ProcessEnds, C!Restart
<1> QED
  BY <1>1 DEF ClientTyped

LEMMA ClientSurroundingsTyped ==
  ASSUME ClientTyped, ClientSurroundings
  PROVE  ClientTyped'
<1>1. PICK n \in Clients : C!Create(n) \/ C!Configure(n) \/ C!Delete(n)
  BY DEF ClientSurroundings
<1>2. \E act, o : o \in C!Objects /\ C!OwnerStores(n, act, o)
  <2>1. CASE C!Create(n)
    BY <2>1 DEF C!Create, C!NewObject, C!Objects, C!Avail, C!Degraded
  <2>2. CASE C!Configure(n) \/ C!Delete(n)
    <3>1. clientApi[n] \in C!Objects
      BY <2>2 DEF ClientTyped, C!Configure, C!Delete, C!Exists
    <3>2. \A c \in Configs : [clientApi[n] EXCEPT !.spec = c] \in C!Objects
      BY <3>1 DEF C!Objects
    <3>3. [clientApi[n] EXCEPT !.deleting = TRUE] \in C!Objects
      BY <3>1 DEF C!Objects
    <3> QED
      BY <2>2, <3>2, <3>3 DEF C!Configure, C!Delete
  <2> QED
    BY <1>1, <2>1, <2>2
<1>3. PICK act, o : o \in C!Objects /\ C!OwnerStores(n, act, o)
  BY <1>2
<1>4. clientApi' \in [Clients -> C!Objects \cup {Gone}]
  BY <1>3, ClientPutTyped DEF C!OwnerStores, C!OwnerPuts
<1> QED
  BY <1>3, <1>4 DEF ClientTyped, C!OwnerStores, C!OwnerPuts, C!loop

\* Every step keeps these types.
LEMMA ClientTypedStep ==
  ASSUME ClientTyped, [Next]_vars
  PROVE  ClientTyped'
<1>1. CASE UNCHANGED C!vars
  BY <1>1 DEF ClientTyped, C!vars, C!objects, C!hand, C!loop
<1>2. CASE ClientWorker
  BY <1>2, ClientWorkingTyped, ClientProcessEndsTyped DEF ClientWorker, Panic, C!Panic
<1>3. CASE ClientSurroundings
  BY <1>3, ClientSurroundingsTyped
<1>4. ASSUME NEW n \in Clients, C!Start(n)
      PROVE  ClientTyped'
  BY <1>4 DEF ClientTyped, C!Start, C!objects, C!hand, C!loop
<1>5. ASSUME NEW n \in Clients, C!CacheSync(n)
      PROVE  ClientTyped'
  BY <1>5 DEF ClientTyped, C!CacheSync, C!Informed, C!hand, C!loop
<1>6. ASSUME NEW n \in Clients, C!Resync(n)
      PROVE  ClientTyped'
  BY <1>6 DEF ClientTyped, C!Resync, C!Requeued, C!objects, C!hand, C!loop
<1>7. CASE Crash
  BY <1>7, ClientProcessEndsTyped DEF Crash, C!Crash
<1>8. ASSUME NEW s \in Services, RestartServer(s) \/ ComeUp(s)
      PROVE  ClientTyped'
  BY <1>8 DEF ClientTyped, RestartServer, ComeUp, C!RestartServer, C!ComeUp,
     C!objects, C!hand, C!loop
<1> QED
  BY <1>1, <1>2, <1>3, <1>4, <1>5, <1>6, <1>7, <1>8, UserStepsUnseen, Unseen
     DEF Next, ClientStart, ClientSync, ClientResync

LEMMA ClientTypedInit == Init => ClientTyped
<1> SUFFICES ASSUME Init
             PROVE  ClientTyped
  OBVIOUS
<1>1. \A c \in Configs : C!NewObject(c) \in C!Objects
  BY DEF C!NewObject, C!Objects, C!Avail, C!Degraded
<1>2. <<>> \in Seq(C!Calls)
  OBVIOUS
<1> QED
  BY <1>1, <1>2 DEF Init, C!Init, ClientTyped

\* A handler that is added is one that a call asked for, on a server that is up.
LEMMA HandlersAdded ==
  ASSUME ClientTyped, C!Working
  PROVE  /\ UNCHANGED <<svcs, up>>
         /\ \/ UNCHANGED handlers
            \/ \E s \in up, k \in {"in", "out"}, t \in Tags :
                 s \in Services /\ handlers' = handlers \cup {[svc |-> s, kind |-> k, tag |-> t]}
<1>1. CASE C!AddHandler \/ C!AddHandlerFails
  <2> DEFINE c == Head(clientCalls)
  <2>1. c \in C!Calls
    BY <1>1 DEF ClientTyped, C!AddHandler, C!AddHandlerFails
  <2>2. /\ UNCHANGED <<svcs, up>>
        /\ UNCHANGED handlers \/ (c.svc \in up /\ handlers' = handlers \cup {c})
    BY <1>1 DEF C!AddHandler, C!AddHandlerFails
  <2>3. c = [svc |-> c.svc, kind |-> c.kind, tag |-> c.tag]
        /\ c.svc \in Services /\ c.kind \in {"in", "out"} /\ c.tag \in Tags
    BY <2>1 DEF C!Calls
  <2> HIDE DEF c
  <2> QED
    BY <2>2, <2>3
<1>2. CASE ~(C!AddHandler \/ C!AddHandlerFails)
  BY <1>2 DEF C!Working, C!InitStatus, C!Invalid, C!Elect, C!ElectFails, C!Dial,
     C!Reread, C!InitAgain, C!RefetchInit, C!AddFinalizer, C!Degrade, C!RefetchFinal,
     C!MarkDegraded, C!RemoveFinalizer, C!Available, C!Write, C!WriteAndReturn,
     C!Refetch, C!world
<1> QED
  BY <1>1, <1>2

\* An inbound that a client's worker adds is to the user controller one that
\* appears; an outbound is nothing.
LEMMA ClientWorkingSeen ==
  ASSUME ClientTyped, ClientAlone, C!Working
  PROVE  [U!Next]_(U!vars)
<1>1. UNCHANGED <<userVars, reg, svcs, up>>
  BY HandlersAdded DEF ClientAlone
<1>2. CASE UNCHANGED handlers
  BY <1>1, <1>2 DEF userVars, Inbounds, Tagged, U!vars, U!worker, U!world
<1>3. ASSUME NEW s \in up, s \in Services, NEW k \in {"in", "out"}, NEW t \in Tags,
             handlers' = handlers \cup {[svc |-> s, kind |-> k, tag |-> t]}
      PROVE  [U!Next]_(U!vars)
  <2>1. Inbounds' = IF k = "in" /\ t # NoTag THEN Inbounds \cup {<<s, t>>} ELSE Inbounds
    <3> DEFINE h == [svc |-> s, kind |-> k, tag |-> t]
    <3>1. h.svc = s /\ h.kind = k /\ h.tag = t
      OBVIOUS
    <3>2. handlers' = handlers \cup {h}
      BY <1>3
    <3> HIDE DEF h
    <3>3. CASE k = "in" /\ t # NoTag
      <4>1. Tagged' = Tagged \cup {h}
        BY <3>1, <3>2, <3>3 DEF Tagged
      <4> QED
        BY <3>1, <3>3, <4>1 DEF Inbounds
    <3>4. CASE ~(k = "in" /\ t # NoTag)
      <4>1. Tagged' = Tagged
        BY <3>1, <3>2, <3>4 DEF Tagged
      <4> QED
        BY <3>4, <4>1 DEF Inbounds
    <3> QED
      BY <3>3, <3>4
  <2>2. CASE k = "in" /\ t # NoTag /\ <<s, t>> \notin Inbounds
    <3>1. U!InboundAppears(s, t)
      BY <1>1, <2>1, <2>2 DEF userVars, U!InboundAppears, U!worker
    <3> QED
      BY <1>3, <3>1 DEF U!Next
  <2>3. CASE k = "out" \/ t = NoTag \/ <<s, t>> \in Inbounds
    <3>1. Inbounds' = Inbounds
      BY <2>1, <2>3
    <3> QED
      BY <1>1, <3>1 DEF userVars, U!vars, U!worker, U!world
  <2> QED
    BY <2>2, <2>3
<1> QED
  BY <1>2, <1>3, HandlersAdded

\* Every step is one that the user controller's own module allows.
LEMMA UserSteps ==
  ASSUME ClientTyped, [Next]_vars
  PROVE  [U!Next]_(U!vars)
<1>1. CASE \/ UserWorker \/ UserSurroundings
           \/ \E u \in Users : UserStart(u) \/ UserSync(u) \/ UserResync(u)
  BY <1>1 DEF UserWorker, UserSurroundings, UserStart, UserSync, UserResync, U!Next
<1>2. CASE ClientWorker
  BY <1>2, ClientWorkingSeen DEF ClientWorker, Panic, U!Next
<1>3. CASE \/ ClientSurroundings
           \/ \E n \in Clients : ClientStart(n) \/ ClientSync(n) \/ ClientResync(n)
  <2>1. UNCHANGED <<userVars, reg, handlers, svcs, up>>
    BY <1>3 DEF ClientSurroundings, ClientStart, ClientSync, ClientResync, ClientAlone,
       C!Create, C!Configure, C!Delete, C!OwnerStores, C!Start, C!CacheSync, C!Resync,
       C!world
  <2> QED
    BY <2>1 DEF userVars, Inbounds, Tagged, U!vars, U!worker, U!world
<1>4. CASE Crash \/ \E s \in Services : RestartServer(s) \/ ComeUp(s)
  BY <1>4 DEF Crash, RestartServer, ComeUp, U!Next
<1> QED
  BY <1>1, <1>2, <1>3, <1>4, Unseen DEF Next

\* The client controller is to the user controller a source of inbounds, and a
\* process that ends: whatever it does, the user controller's module allows it.
THEOREM UserUndisturbed == Spec => UserControllerUndisturbed
<1>1. Init => U!Init /\ ClientTyped
  BY ClientTypedInit DEF Init
<1>2. ClientTyped /\ [Next]_vars => ClientTyped' /\ [U!Next]_(U!vars)
  BY ClientTypedStep, UserSteps
<1> QED
  BY <1>1, <1>2, PTL DEF Spec, UserControllerUndisturbed, U!Spec

-----------------------------------------------------------------------------
(* What the servers know, and the inbounds it is known in.                  *)

\* Every server has an entry for every email.
RegShaped == reg = [s \in Services |-> [e \in Emails |-> reg[s][e]]]

\* A registration lives in an inbound: no server knows a user in an inbound
\* that it does not run.
RegistrationsHaveInbounds ==
  \A s \in Services, e \in Emails : reg[s][e] # NoId => U!Runs(s, e)

RegInv == RegShaped /\ RegistrationsHaveInbounds

LEMMA Registering ==
  ASSUME RegInv, NEW s, NEW e, NEW id, U!Register(s, e, id), U!Runs(s, e),
         Inbounds' = Inbounds
  PROVE  RegInv'
<1>1. reg' = [reg EXCEPT ![s][e] = IF reg[s][e] = NoId THEN id ELSE reg[s][e]]
  BY DEF U!Register, RegInv, RegShaped
<1> DEFINE v == IF reg[s][e] = NoId THEN id ELSE reg[s][e]
<1>2. /\ RegShaped'
      /\ \A r \in Services, f \in Emails :
           reg'[r][f] = IF r = s /\ f = e THEN v ELSE reg[r][f]
  <2> HIDE DEF v
  <2>1. reg' = [reg EXCEPT ![s][e] = v] /\ RegShaped
    BY <1>1 DEF v, RegInv
  <2> QED
    BY <2>1 DEF RegShaped
<1>3. ASSUME NEW r \in Services, NEW f \in Emails, reg'[r][f] # NoId
      PROVE  U!Runs(r, f)'
  BY <1>2, <1>3 DEF RegInv, RegistrationsHaveInbounds, U!Runs
<1> QED
  BY <1>2, <1>3 DEF RegInv, RegistrationsHaveInbounds

LEMMA Unregistering ==
  ASSUME RegInv, NEW s, NEW e, U!Unregister(s, e), Inbounds' = Inbounds
  PROVE  RegInv'
<1>1. /\ RegShaped'
      /\ \A r \in Services, f \in Emails :
           reg'[r][f] = IF r = s /\ f = e THEN NoId ELSE reg[r][f]
  BY DEF U!Unregister, RegInv, RegShaped
<1> QED
  BY <1>1 DEF RegInv, RegistrationsHaveInbounds, U!Runs

\* More inbounds do not disturb it.
LEMMA Undisturbed ==
  ASSUME RegInv, reg' = reg, Inbounds \subseteq Inbounds'
  PROVE  RegInv'
BY DEF RegInv, RegShaped, RegistrationsHaveInbounds, U!Runs

\* A server forgets its users together with their inbounds.
LEMMA Forgetting ==
  ASSUME RegInv, NEW s \in Services, U!Forget(s)
  PROVE  RegInv'
<1>1. reg' = [reg EXCEPT ![s] = [e \in Emails |-> NoId]] /\ RegShaped
  BY DEF U!Forget, RegInv
<1>2. \A r \in Services : reg'[r] = IF r = s THEN [e \in Emails |-> NoId] ELSE reg[r]
  BY <1>1 DEF RegShaped
<1>3. RegShaped'
  BY <1>1 DEF RegShaped
<1>4. \A r \in Services, e \in Emails : r # s /\ U!Runs(r, e) => U!Runs(r, e)'
  BY DEF U!Forget, U!Runs
<1>5. ASSUME NEW r \in Services, NEW e \in Emails, reg'[r][e] # NoId
      PROVE  U!Runs(r, e)'
  <2>1. r # s /\ reg[r][e] # NoId
    BY <1>2, <1>5
  <2> QED
    BY <1>4, <2>1 DEF RegInv, RegistrationsHaveInbounds
<1> QED
  BY <1>3, <1>5 DEF RegInv, RegistrationsHaveInbounds

LEMMA RegInvStep ==
  ASSUME RegInv, [U!Next]_(U!vars)
  PROVE  RegInv'
<1>1. CASE U!Worker
  <2>1. ASSUME NEW s \in Services,
               \/ U!AddUser(s) \/ U!AddUserFails(s) \/ U!Rollback(s)
               \/ U!RemoveUser(s) \/ U!RemoveUserFails(s) \/ U!Restore(s)
        PROVE  RegInv'
    <3>1. Inbounds' = Inbounds
      BY <2>1 DEF U!AddUser, U!AddUserFails, U!Rollback, U!RemoveUser, U!RemoveUserFails,
         U!Restore
    <3>2. \/ reg' = reg
          \/ U!Unregister(s, userObj.email)
          \/ U!Runs(s, userObj.email) /\ U!Register(s, userObj.email, userObj.id)
      BY <2>1 DEF U!AddUser, U!AddUserFails, U!Rollback, U!RemoveUser, U!RemoveUserFails,
         U!Restore
    <3> QED
      BY <3>1, <3>2, Registering, Unregistering, Undisturbed
  <2>2. CASE ~ \E s \in Services :
                 \/ U!AddUser(s) \/ U!AddUserFails(s) \/ U!Rollback(s)
                 \/ U!RemoveUser(s) \/ U!RemoveUserFails(s) \/ U!Restore(s)
    <3>1. UNCHANGED U!world
      BY <1>1, <2>2 DEF U!Worker, U!InitStatus, U!RefetchInit, U!SaveSpec, U!RefetchSpec,
         U!Elect, U!ElectFails, U!NoNode, U!SaveNodes, U!AddFailed, U!AddFinalizer,
         U!Available, U!Degrade, U!RefetchFinal, U!MarkDegraded, U!RemoveFinalizer,
         U!RestoreDone, U!Write, U!WriteAndReturn, U!Refetch
    <3> QED
      BY <3>1, Undisturbed DEF U!world
  <2> QED
    BY <2>1, <2>2
<1>2. CASE \/ U!Deadline \/ U!Crash \/ U!PanicElsewhere
           \/ \E u \in Users : \/ U!Start(u) \/ U!CacheSync(u) \/ U!Resync(u)
                               \/ U!Create(u) \/ U!Edit(u) \/ U!Delete(u)
  <2>1. UNCHANGED U!world
    BY <1>2 DEF U!Deadline, U!Crash, U!PanicElsewhere, U!ProcessEnds, U!Start, U!CacheSync,
       U!Resync, U!Create, U!Edit, U!Delete, U!OwnerStores
  <2> QED
    BY <2>1, Undisturbed DEF U!world
<1>3. ASSUME NEW s \in Services, U!RestartServer(s) \/ U!RetireService(s)
      PROVE  RegInv'
  BY <1>3, Forgetting DEF U!RestartServer, U!RetireService
<1>4. ASSUME NEW s \in Services,
             U!ComeUp(s) \/ U!ServiceAppears(s) \/ \E t \in Tags : U!InboundAppears(s, t)
      PROVE  RegInv'
  BY <1>4, Undisturbed DEF U!ComeUp, U!ServiceAppears, U!InboundAppears
<1>5. CASE UNCHANGED U!vars
  BY <1>5, Undisturbed DEF U!vars, U!world
<1> QED
  BY <1>1, <1>2, <1>3, <1>4, <1>5 DEF U!Next

\* So much follows from what a server does: it adds users to inbounds that are
\* there, and forgets both together.
LEMMA InboundsFirst == Spec => []RegistrationsHaveInbounds
<1>1. Init => RegInv /\ ClientTyped
  <2>1. ASSUME Init
        PROVE  RegInv
    BY <2>1 DEF Init, U!Init, RegInv, RegShaped, RegistrationsHaveInbounds
  <2> QED
    BY <2>1, ClientTypedInit
<1>2. RegInv /\ ClientTyped /\ [Next]_vars => RegInv' /\ ClientTyped'
  BY ClientTypedStep, UserSteps, RegInvStep
<1>3. RegInv => RegistrationsHaveInbounds
  BY DEF RegInv
<1> QED
  BY <1>1, <1>2, <1>3, PTL DEF Spec
=============================================================================
