------------------------- MODULE FrameChannelProofs -------------------------
(***************************************************************************)
(* Proofs that the frame channel is safe for any set of threads.           *)
(*                                                                         *)
(* The invariants of FrameChannel are not inductive.  A call's position    *)
(* says more than the flags: which steps need a retained failure           *)
(* (StepsAreJustified), who may have moved part of a frame (FramesInHand), *)
(* and that a buffer is given up before its payload arrives                *)
(* (BuffersInHand).                                                        *)
(***************************************************************************)
EXTENDS FrameChannel, TLAPS

StepsAreJustified ==
    \A t \in Threads :
        /\ At(t, "Ready") => call[t].dir = "None"
        /\ call[t].at \in {"Check", "Header", "Payload", "Refuse", "Succeed"} =>
              call[t].dir \in Directions
        /\ At(t, "Poison") => call[t].error \in Failures
        /\ call[t].at \in {"Abort", "Fail"} => failure # "None"

FramesInHand ==
    failure = "None" =>
        \A d \in Directions :
            wire[d] = "Inside" =>
                \E t \in Threads : InCall(t, d) /\ call[t].at \in {"Payload", "Poison"}

BuffersInHand ==
    \A t \in Threads : At(t, "Payload") /\ call[t].dir = "Receive" => ~usable[t]

Inv ==
    /\ TypeOK
    /\ StepsAreJustified
    /\ OneOperationPerDirection
    /\ OneAbort
    /\ AllReportTheFirstFailure
    /\ FramesInHand
    /\ UsableBufferIsWhole /\ BuffersInHand

-----------------------------------------------------------------------------
(* What a step does to the position of one call. *)
LEMMA GotoFacts ==
    ASSUME NEW t \in Threads, TypeOK, NEW step \in Steps, Goto(t, step)
    PROVE  /\ call' \in [Threads -> [at : Steps, dir : Directions \cup {"None"},
                                     error : Failures \cup {"None"}]]
           /\ call'[t].at = step /\ call'[t].dir = call[t].dir
           /\ call'[t].error = call[t].error
           /\ \A u \in Threads \ {t} : call'[u] = call[u]
BY DEF Goto, TypeOK

LEMMA GotoPoisonFacts ==
    ASSUME NEW t \in Threads, TypeOK, NEW e \in Failures, GotoPoison(t, e)
    PROVE  /\ call' \in [Threads -> [at : Steps, dir : Directions \cup {"None"},
                                     error : Failures \cup {"None"}]]
           /\ call'[t].at = "Poison" /\ call'[t].dir = call[t].dir
           /\ call'[t].error = e
           /\ \A u \in Threads \ {t} : call'[u] = call[u]
BY DEF GotoPoison, TypeOK, Steps

LEMMA ReturnFacts ==
    ASSUME NEW t \in Threads, TypeOK, NEW r, Return(t, r)
    PROVE  /\ call' \in [Threads -> [at : Steps, dir : Directions \cup {"None"},
                                     error : Failures \cup {"None"}]]
           /\ call'[t] = AtRest /\ call'[t].at = "Ready" /\ call'[t].dir = "None"
           /\ \A u \in Threads \ {t} : call'[u] = call[u]
           /\ result' = [result EXCEPT ![t] = r]
BY DEF Return, TypeOK, AtRest, Steps

(* A step inside a call moves no thread into or out of a call. *)
LEMMA InnerStep ==
    ASSUME OneOperationPerDirection, UNCHANGED active,
           \A u \in Threads : /\ (call'[u].at = "Ready") <=> (call[u].at = "Ready")
                              /\ call'[u].dir = call[u].dir
    PROVE  OneOperationPerDirection'
<1>1. \A u \in Threads, d \in Directions : InCall(u, d)' <=> InCall(u, d)
    BY DEF InCall, At
<1> QED BY <1>1 DEF OneOperationPerDirection

(* The end of a call releases its direction and no other. *)
LEMMA EndingStep ==
    ASSUME NEW t \in Threads, TypeOK, OneOperationPerDirection, StepsAreJustified,
           ~At(t, "Ready"), active' = Cleared(call[t].dir), call'[t].at = "Ready",
           \A u \in Threads \ {t} : call'[u] = call[u]
    PROVE  OneOperationPerDirection'
<1> SUFFICES ASSUME NEW d \in Directions
             PROVE  /\ active'[d] <=> \E u \in Threads : InCall(u, d)'
                    /\ \A u, v \in Threads : InCall(u, d)' /\ InCall(v, d)' => u = v
    BY DEF OneOperationPerDirection
<1>1. active'[d] <=> active[d] /\ d # call[t].dir
    BY DEF Cleared, TypeOK
<1>2. ~InCall(t, d)' /\ \A u \in Threads \ {t} : InCall(u, d)' <=> InCall(u, d)
    BY DEF InCall, At
<1>3. InCall(t, d) <=> d = call[t].dir
    BY DEF InCall
<1>4. /\ active[d] <=> \E u \in Threads : InCall(u, d)
      /\ \A u, v \in Threads : InCall(u, d) /\ InCall(v, d) => u = v
    BY DEF OneOperationPerDirection
<1> QED BY <1>1, <1>2, <1>3, <1>4

(* The result a call returns is in type. *)
LEMMA RetainedType ==
    ASSUME TypeOK, NEW e \in Failures \cup Refusals \cup {"Ok"}
    PROVE  Retained(e) \in Failures \cup Refusals \cup {"Ok"}
BY DEF Retained, TypeOK

LEMMA InitInv == Init => Inv
<1> SUFFICES ASSUME Init PROVE Inv
    OBVIOUS
<1>1. \A t \in Threads : call[t] = AtRest /\ call[t].at = "Ready" /\ call[t].dir = "None"
    BY DEF Init, AtRest
<1>2. TypeOK
    BY DEF Init, TypeOK, AtRest, Steps
<1>3. OneOperationPerDirection
    BY <1>1 DEF Init, OneOperationPerDirection, InCall, At
<1>4. StepsAreJustified /\ OneAbort /\ FramesInHand /\ BuffersInHand
    BY <1>1 DEF Init, StepsAreJustified, OneAbort, FramesInHand, BuffersInHand, At
<1>5. AllReportTheFirstFailure /\ UsableBufferIsWhole
    BY DEF Init, AllReportTheFirstFailure, UsableBufferIsWhole, Failures
<1> QED BY <1>2, <1>3, <1>4, <1>5 DEF Inv

-----------------------------------------------------------------------------
LEMMA BeginKeepsInv ==
    ASSUME NEW t \in Threads, NEW d \in Directions, Inv, Begin(t, d)
    PROVE  Inv'
<1> USE DEF Inv
<1>1. CASE active' = active
  <2>1. \E r \in Failures \cup {"ConcurrentOperation"} :
            Return(t, r) /\ (r \in Failures => r = failure)
    BY <1>1 DEF Begin, TypeOK, Failures
  <2>2. PICK r \in Failures \cup {"ConcurrentOperation"} :
            Return(t, r) /\ (r \in Failures => r = failure)
    BY <2>1
  <2>3. /\ call'[t].at = "Ready" /\ call'[t].dir = "None"
        /\ \A u \in Threads \ {t} : call'[u] = call[u]
        /\ call' \in [Threads -> [at : Steps, dir : Directions \cup {"None"},
                                 error : Failures \cup {"None"}]]
        /\ result' = [result EXCEPT ![t] = r]
    BY <2>2, ReturnFacts
  <2>4. call[t].at = "Ready" /\ call[t].dir = "None"
    BY DEF Begin, StepsAreJustified, At
  <2>5. UNCHANGED <<failure, usable, torn, wire, aborts>>
    BY DEF Begin
  <2>6. TypeOK'
    BY <1>1, <2>3, <2>5 DEF TypeOK, Refusals
  <2>7. OneOperationPerDirection'
    BY <1>1, <2>3, <2>4, InnerStep
  <2>8. StepsAreJustified' /\ OneAbort' /\ BuffersInHand'
    BY <2>3, <2>4, <2>5 DEF StepsAreJustified, OneAbort, BuffersInHand, At
  <2>9. FramesInHand'
    BY <2>3, <2>4, <2>5 DEF FramesInHand, InCall, At
  <2>10. AllReportTheFirstFailure' /\ UsableBufferIsWhole'
    BY <2>2, <2>3, <2>5 DEF AllReportTheFirstFailure, UsableBufferIsWhole, TypeOK
  <2> QED BY <2>6, <2>7, <2>8, <2>9, <2>10
<1>2. CASE active' # active
  <2>1. /\ failure = "None" /\ ~active[d]
        /\ active' = [active EXCEPT ![d] = TRUE]
        /\ call' = [call EXCEPT ![t] = [at |-> "Check", dir |-> d, error |-> "None"]]
        /\ call[t].at = "Ready"
        /\ UNCHANGED <<result, failure, usable, torn, wire, aborts>>
    BY <1>2 DEF Begin, At
  <2>2. /\ call'[t].at = "Check" /\ call'[t].dir = d
        /\ \A u \in Threads \ {t} : call'[u] = call[u]
        /\ \A e \in Directions : active'[e] <=> active[e] \/ e = d
    BY <2>1 DEF TypeOK
  <2>3. TypeOK'
    BY <2>1 DEF TypeOK, Steps
  <2>4. OneOperationPerDirection'
    <3> SUFFICES ASSUME NEW e \in Directions
                 PROVE  /\ active'[e] <=> \E u \in Threads : InCall(u, e)'
                        /\ \A u, v \in Threads : InCall(u, e)' /\ InCall(v, e)' => u = v
        BY DEF OneOperationPerDirection
    <3>1. InCall(t, e)' <=> e = d
        BY <2>2 DEF InCall, At
    <3>2. \A u \in Threads \ {t} : InCall(u, e)' <=> InCall(u, e)
        BY <2>2 DEF InCall, At
    <3>3. ~InCall(t, e)
        BY <2>1 DEF InCall, At
    <3>4. /\ active[e] <=> \E u \in Threads : InCall(u, e)
          /\ \A u, v \in Threads : InCall(u, e) /\ InCall(v, e) => u = v
        BY DEF OneOperationPerDirection
    <3> QED BY <2>1, <2>2, <3>1, <3>2, <3>3, <3>4
  <2>5. StepsAreJustified' /\ OneAbort' /\ BuffersInHand'
    BY <2>1, <2>2 DEF StepsAreJustified, OneAbort, BuffersInHand, At
  <2>6. FramesInHand'
    BY <2>1, <2>2 DEF FramesInHand, InCall, At
  <2>7. AllReportTheFirstFailure' /\ UsableBufferIsWhole'
    BY <2>1 DEF AllReportTheFirstFailure, UsableBufferIsWhole
  <2> QED BY <2>3, <2>4, <2>5, <2>6, <2>7
<1> QED BY <1>1, <1>2

LEMMA CallAbortKeepsInv ==
    ASSUME NEW t \in Threads, Inv, CallAbort(t)
    PROVE  Inv'
<1>1. TypeOK'
    BY DEF Inv, TypeOK, CallAbort, At, Goto, GotoPoison, Return, Retained, Cleared, InCall,
           AtRest, Directions, Failures, Refusals, Steps
<1>2. StepsAreJustified'
    BY DEF Inv, StepsAreJustified, TypeOK, CallAbort, At, Goto, GotoPoison, Return, Retained,
           Cleared, InCall, AtRest, Directions, Failures, Refusals, Steps
<1>3. OneOperationPerDirection'
    BY DEF Inv, OneOperationPerDirection, TypeOK, CallAbort, At, Goto, GotoPoison, Return,
           Retained, Cleared, InCall, AtRest, Directions, Failures, Refusals, Steps
<1>4. OneAbort'
    BY DEF Inv, OneAbort, TypeOK, CallAbort, At, Goto, GotoPoison, Return, Retained, Cleared,
           InCall, AtRest, Directions, Failures, Refusals, Steps
<1>5. AllReportTheFirstFailure'
    BY DEF Inv, AllReportTheFirstFailure, TypeOK, CallAbort, At, Goto, GotoPoison, Return,
           Retained, Cleared, InCall, AtRest, Directions, Failures, Refusals, Steps
<1>6. FramesInHand'
    BY DEF Inv, FramesInHand, TypeOK, CallAbort, At, Goto, GotoPoison, Return, Retained,
           Cleared, InCall, AtRest, Directions, Failures, Refusals, Steps
<1>7. UsableBufferIsWhole'
    BY DEF Inv, UsableBufferIsWhole, TypeOK, CallAbort, At, Goto, GotoPoison, Return,
           Retained, Cleared, InCall, AtRest, Directions, Failures, Refusals, Steps
<1>8. BuffersInHand'
    BY DEF Inv, BuffersInHand, TypeOK, CallAbort, At, Goto, GotoPoison, Return, Retained,
           Cleared, InCall, AtRest, Directions, Failures, Refusals, Steps
<1> QED BY <1>1, <1>2, <1>3, <1>4, <1>5, <1>6, <1>7, <1>8 DEF Inv

LEMMA ReinitKeepsInv ==
    ASSUME NEW t \in Threads, Inv, Reinit(t)
    PROVE  Inv'
<1>1. TypeOK'
    BY DEF Inv, TypeOK, Reinit, At, Goto, GotoPoison, Return, Retained, Cleared, InCall,
           AtRest, Directions, Failures, Refusals, Steps
<1>2. StepsAreJustified'
    BY DEF Inv, StepsAreJustified, TypeOK, Reinit, At, Goto, GotoPoison, Return, Retained,
           Cleared, InCall, AtRest, Directions, Failures, Refusals, Steps
<1>3. OneOperationPerDirection'
    BY DEF Inv, OneOperationPerDirection, TypeOK, Reinit, At, Goto, GotoPoison, Return,
           Retained, Cleared, InCall, AtRest, Directions, Failures, Refusals, Steps
<1>4. OneAbort'
    BY DEF Inv, OneAbort, TypeOK, Reinit, At, Goto, GotoPoison, Return, Retained, Cleared,
           InCall, AtRest, Directions, Failures, Refusals, Steps
<1>5. AllReportTheFirstFailure'
    BY DEF Inv, AllReportTheFirstFailure, TypeOK, Reinit, At, Goto, GotoPoison, Return,
           Retained, Cleared, InCall, AtRest, Directions, Failures, Refusals, Steps
<1>6. FramesInHand'
    BY DEF Inv, FramesInHand, TypeOK, Reinit, At, Goto, GotoPoison, Return, Retained, Cleared,
           InCall, AtRest, Directions, Failures, Refusals, Steps
<1>7. UsableBufferIsWhole'
    BY DEF Inv, UsableBufferIsWhole, TypeOK, Reinit, At, Goto, GotoPoison, Return, Retained,
           Cleared, InCall, AtRest, Directions, Failures, Refusals, Steps
<1>8. BuffersInHand'
    BY DEF Inv, BuffersInHand, TypeOK, Reinit, At, Goto, GotoPoison, Return, Retained,
           Cleared, InCall, AtRest, Directions, Failures, Refusals, Steps
<1> QED BY <1>1, <1>2, <1>3, <1>4, <1>5, <1>6, <1>7, <1>8 DEF Inv

LEMMA CheckBufferKeepsInv ==
    ASSUME NEW t \in Threads, Inv, CheckBuffer(t)
    PROVE  Inv'
<1>1. TypeOK'
    BY DEF Inv, TypeOK, CheckBuffer, At, Goto, GotoPoison, Return, Retained, Cleared, InCall,
           AtRest, Directions, Failures, Refusals, Steps
<1>2. StepsAreJustified'
    BY DEF Inv, StepsAreJustified, TypeOK, CheckBuffer, At, Goto, GotoPoison, Return,
           Retained, Cleared, InCall, AtRest, Directions, Failures, Refusals, Steps
<1>3. OneOperationPerDirection'
    BY DEF Inv, OneOperationPerDirection, TypeOK, CheckBuffer, At, Goto, GotoPoison, Return,
           Retained, Cleared, InCall, AtRest, Directions, Failures, Refusals, Steps
<1>4. OneAbort'
    BY DEF Inv, OneAbort, TypeOK, CheckBuffer, At, Goto, GotoPoison, Return, Retained,
           Cleared, InCall, AtRest, Directions, Failures, Refusals, Steps
<1>5. AllReportTheFirstFailure'
    BY DEF Inv, AllReportTheFirstFailure, TypeOK, CheckBuffer, At, Goto, GotoPoison, Return,
           Retained, Cleared, InCall, AtRest, Directions, Failures, Refusals, Steps
<1>6. FramesInHand'
    BY DEF Inv, FramesInHand, TypeOK, CheckBuffer, At, Goto, GotoPoison, Return, Retained,
           Cleared, InCall, AtRest, Directions, Failures, Refusals, Steps
<1>7. UsableBufferIsWhole'
    BY DEF Inv, UsableBufferIsWhole, TypeOK, CheckBuffer, At, Goto, GotoPoison, Return,
           Retained, Cleared, InCall, AtRest, Directions, Failures, Refusals, Steps
<1>8. BuffersInHand'
    BY DEF Inv, BuffersInHand, TypeOK, CheckBuffer, At, Goto, GotoPoison, Return, Retained,
           Cleared, InCall, AtRest, Directions, Failures, Refusals, Steps
<1> QED BY <1>1, <1>2, <1>3, <1>4, <1>5, <1>6, <1>7, <1>8 DEF Inv

LEMMA CheckOutgoingKeepsInv ==
    ASSUME NEW t \in Threads, Inv, CheckOutgoing(t)
    PROVE  Inv'
<1> USE DEF Inv
<1>1. /\ call' \in [Threads -> [at : Steps, dir : Directions \cup {"None"},
                               error : Failures \cup {"None"}]]
      /\ call'[t].dir = call[t].dir
      /\ \A u \in Threads \ {t} : call'[u] = call[u]
      /\ \/ call'[t].at = "Header"
         \/ call'[t].at = "Poison" /\ call'[t].error = "Protocol"
    BY GotoFacts, GotoPoisonFacts DEF CheckOutgoing, Steps, Failures
<1>2. /\ call[t].at = "Check"
      /\ UNCHANGED <<failure, active, result, usable, torn, wire, aborts>>
    BY DEF CheckOutgoing, At
<1>3. TypeOK'
    BY <1>1, <1>2 DEF TypeOK
<1>4. OneOperationPerDirection'
    BY <1>1, <1>2, InnerStep
<1>5. StepsAreJustified' /\ BuffersInHand'
    BY <1>1, <1>2 DEF StepsAreJustified, BuffersInHand, At, Failures
<1>6. OneAbort'
    BY <1>1, <1>2 DEF OneAbort, At
<1>7. FramesInHand'
    BY <1>1, <1>2 DEF FramesInHand, InCall, At
<1>8. AllReportTheFirstFailure' /\ UsableBufferIsWhole'
    BY <1>2 DEF AllReportTheFirstFailure, UsableBufferIsWhole
<1> QED BY <1>3, <1>4, <1>5, <1>6, <1>7, <1>8

LEMMA TransferHeaderKeepsInv ==
    ASSUME NEW t \in Threads, Inv, TransferHeader(t)
    PROVE  Inv'
<1> USE DEF Inv
<1> DEFINE d == call[t].dir
<1>1. /\ call' \in [Threads -> [at : Steps, dir : Directions \cup {"None"},
                               error : Failures \cup {"None"}]]
      /\ call'[t].dir = call[t].dir
      /\ \A u \in Threads \ {t} : call'[u] = call[u]
      /\ \/ call'[t].at = "Succeed" /\ wire' = wire
         \/ call'[t].at = "Payload"
         \/ call'[t].at = "Poison" /\ call'[t].error \in Failures
    BY GotoFacts, GotoPoisonFacts DEF TransferHeader, Steps, Failures
<1>2. /\ call[t].at = "Header"
      /\ UNCHANGED <<failure, active, result, torn, aborts>>
    BY DEF TransferHeader, At
<1>3. d \in Directions
    BY <1>2 DEF StepsAreJustified
<1>4. \/ wire' = wire
      \/ wire' = [wire EXCEPT ![d] = "Inside"]
    BY <1>3 DEF TransferHeader, TypeOK
<1>5. /\ usable' \in [Threads -> BOOLEAN]
      /\ \A u \in Threads : usable'[u] => usable[u]
    BY DEF TransferHeader, TypeOK
<1>6. call'[t].at = "Payload" /\ d = "Receive" => ~usable'[t]
    <2> SUFFICES ASSUME call'[t].at = "Payload", d = "Receive" PROVE ~usable'[t]
        OBVIOUS
    <2>1. ~Goto(t, "Succeed") /\ \A e \in Failures : ~GotoPoison(t, e)
        BY GotoFacts, GotoPoisonFacts DEF Steps
    <2> QED BY <2>1 DEF TransferHeader, TypeOK, Failures
<1>7. TypeOK'
    BY <1>1, <1>2, <1>3, <1>4, <1>5 DEF TypeOK
<1>8. OneOperationPerDirection'
    BY <1>1, <1>2, InnerStep
<1>9. StepsAreJustified'
    BY <1>1, <1>2 DEF StepsAreJustified, At
<1>10. BuffersInHand' /\ UsableBufferIsWhole'
    BY <1>1, <1>2, <1>5, <1>6 DEF BuffersInHand, UsableBufferIsWhole, At
<1>11. OneAbort'
    BY <1>1, <1>2 DEF OneAbort, At
<1>12. FramesInHand'
    <2> SUFFICES ASSUME failure = "None", NEW e \in Directions, wire'[e] = "Inside"
                 PROVE  \E u \in Threads :
                            InCall(u, e)' /\ call'[u].at \in {"Payload", "Poison"}
        BY <1>2 DEF FramesInHand
    <2>1. wire[e] # "Inside" => e = d /\ wire' # wire
        BY <1>3, <1>4 DEF TypeOK
    <2>2. CASE wire[e] = "Inside"
        BY <1>1, <1>2, <2>2 DEF FramesInHand, InCall, At
    <2>3. CASE wire[e] # "Inside"
        BY <1>1, <2>1, <2>3 DEF InCall, At
    <2> QED BY <2>2, <2>3
<1>13. AllReportTheFirstFailure'
    BY <1>2 DEF AllReportTheFirstFailure
<1> QED BY <1>7, <1>8, <1>9, <1>10, <1>11, <1>12, <1>13

LEMMA TransferPayloadKeepsInv ==
    ASSUME NEW t \in Threads, Inv, TransferPayload(t)
    PROVE  Inv'
<1> USE DEF Inv
<1> DEFINE d == call[t].dir
<1>1. /\ call' \in [Threads -> [at : Steps, dir : Directions \cup {"None"},
                               error : Failures \cup {"None"}]]
      /\ call'[t].dir = call[t].dir
      /\ \A u \in Threads \ {t} : call'[u] = call[u]
      /\ \/ call'[t].at = "Succeed" /\ wire' = [wire EXCEPT ![d] = "Boundary"]
         \/ call'[t].at = "Poison" /\ call'[t].error = "Transport" /\ wire' = wire
    BY GotoFacts, GotoPoisonFacts DEF TransferPayload, Steps, Failures
<1>2. /\ call[t].at = "Payload"
      /\ UNCHANGED <<failure, active, result, aborts>>
    BY DEF TransferPayload, At
<1>3. d \in Directions
    BY <1>2 DEF StepsAreJustified
<1>4. usable' \in [Threads -> BOOLEAN] /\ torn' \in [Threads -> BOOLEAN]
    BY DEF TransferPayload, TypeOK
<1>5. \A u \in Threads \ {t} : usable'[u] = usable[u] /\ torn'[u] = torn[u]
    BY DEF TransferPayload, TypeOK
<1>6. usable'[t] => ~torn'[t]
    <2>1. CASE d = "Receive"
        BY <1>2, <2>1 DEF TransferPayload, TypeOK, BuffersInHand, At
    <2>2. CASE d # "Receive"
        BY <2>2 DEF TransferPayload, UsableBufferIsWhole
    <2> QED BY <2>1, <2>2
<1>7. TypeOK'
    BY <1>1, <1>2, <1>3, <1>4 DEF TypeOK
<1>8. OneOperationPerDirection'
    BY <1>1, <1>2, InnerStep
<1>9. StepsAreJustified'
    BY <1>1, <1>2 DEF StepsAreJustified, At, Failures
<1>10. BuffersInHand' /\ UsableBufferIsWhole'
    BY <1>1, <1>5, <1>6 DEF BuffersInHand, UsableBufferIsWhole, At
<1>11. OneAbort'
    BY <1>1, <1>2 DEF OneAbort, At
<1>12. FramesInHand'
    <2> SUFFICES ASSUME failure = "None", NEW e \in Directions, wire'[e] = "Inside"
                 PROVE  \E u \in Threads :
                            InCall(u, e)' /\ call'[u].at \in {"Payload", "Poison"}
        BY <1>2 DEF FramesInHand
    <2>1. wire[e] = "Inside"
        BY <1>1, <1>3 DEF TypeOK
    <2>2. PICK u \in Threads : InCall(u, e) /\ call[u].at \in {"Payload", "Poison"}
        BY <2>1 DEF FramesInHand
    <2>3. CASE u # t
        BY <1>1, <2>2, <2>3 DEF InCall, At
    <2>4. CASE u = t
        <3>1. e = d
            BY <2>2, <2>4 DEF InCall
        <3>2. call'[t].at = "Poison"
            BY <1>1, <1>3, <3>1 DEF TypeOK
        <3> QED BY <1>1, <3>1, <3>2 DEF InCall, At
    <2> QED BY <2>3, <2>4
<1>13. AllReportTheFirstFailure'
    BY <1>2 DEF AllReportTheFirstFailure
<1> QED BY <1>7, <1>8, <1>9, <1>10, <1>11, <1>12, <1>13

LEMMA PoisonKeepsInv ==
    ASSUME NEW t \in Threads, Inv, Poison(t)
    PROVE  Inv'
<1> USE DEF Inv
<1>1. /\ call[t].at = "Poison" /\ call[t].error \in Failures
      /\ failure' \in Failures /\ failure' # "None"
      /\ failure # "None" => failure' = failure
      /\ UNCHANGED <<active, result, usable, torn, wire, aborts>>
    BY DEF Poison, Retained, At, StepsAreJustified, TypeOK, Failures
<1>2. /\ call' \in [Threads -> [at : Steps, dir : Directions \cup {"None"},
                               error : Failures \cup {"None"}]]
      /\ call'[t].dir = call[t].dir
      /\ call'[t].at = IF failure = "None" THEN "Abort" ELSE "Fail"
      /\ \A u \in Threads \ {t} : call'[u] = call[u]
    BY GotoFacts DEF Poison, Steps
<1>3. TypeOK'
    BY <1>1, <1>2 DEF TypeOK
<1>4. OneOperationPerDirection'
    BY <1>1, <1>2, InnerStep
<1>5. StepsAreJustified' /\ BuffersInHand'
    BY <1>1, <1>2 DEF StepsAreJustified, BuffersInHand, At
<1>6. OneAbort'
    <2>1. CASE failure = "None"
        <3>1. \A u \in Threads : call[u].at # "Abort"
            BY <2>1 DEF OneAbort, At
        <3> QED BY <1>1, <1>2, <2>1, <3>1 DEF OneAbort, At
    <2>2. CASE failure # "None"
        <3>1. \A u \in Threads : call'[u].at = "Abort" <=> call[u].at = "Abort"
            BY <1>1, <1>2, <2>2
        <3> QED BY <1>1, <2>2, <3>1 DEF OneAbort, At
    <2> QED BY <2>1, <2>2
<1>7. FramesInHand'
    BY <1>1 DEF FramesInHand
<1>8. AllReportTheFirstFailure' /\ UsableBufferIsWhole'
    <2>1. \A u \in Threads : result[u] \in Failures => failure # "None"
        BY DEF AllReportTheFirstFailure, Failures
    <2> QED BY <1>1, <2>1 DEF AllReportTheFirstFailure, UsableBufferIsWhole
<1> QED BY <1>3, <1>4, <1>5, <1>6, <1>7, <1>8

LEMMA AbortIoKeepsInv ==
    ASSUME NEW t \in Threads, Inv, AbortIo(t)
    PROVE  Inv'
<1> USE DEF Inv
<1>1. /\ call[t].at = "Abort" /\ failure # "None" /\ aborts = 0 /\ aborts' = 1
      /\ UNCHANGED <<failure, active, result, usable, torn, wire>>
    BY DEF AbortIo, OneAbort, At
<1>2. /\ call' \in [Threads -> [at : Steps, dir : Directions \cup {"None"},
                               error : Failures \cup {"None"}]]
      /\ call'[t].dir = call[t].dir /\ call'[t].at = "Fail"
      /\ \A u \in Threads \ {t} : call'[u] = call[u]
    BY GotoFacts DEF AbortIo, Steps
<1>3. TypeOK'
    BY <1>1, <1>2 DEF TypeOK
<1>4. OneOperationPerDirection'
    BY <1>1, <1>2, InnerStep
<1>5. StepsAreJustified' /\ BuffersInHand'
    BY <1>1, <1>2 DEF StepsAreJustified, BuffersInHand, At
<1>6. OneAbort'
    <2>1. \A u \in Threads : call'[u].at # "Abort"
        BY <1>1, <1>2 DEF OneAbort, At
    <2> QED BY <1>1, <2>1 DEF OneAbort, At
<1>7. FramesInHand' /\ AllReportTheFirstFailure' /\ UsableBufferIsWhole'
    BY <1>1 DEF FramesInHand, AllReportTheFirstFailure, UsableBufferIsWhole
<1> QED BY <1>3, <1>4, <1>5, <1>6, <1>7

(* The three ways out of a call share one argument: the direction is         *)
(* released, and what is returned is the retained failure or r.              *)
LEMMA CallEndKeepsInv ==
    ASSUME NEW t \in Threads, Inv, NEW r \in Failures \cup Refusals \cup {"Ok"},
           call[t].at \notin {"Ready", "Abort", "Payload", "Poison"},
           r \in Failures => failure # "None",
           active' = Cleared(call[t].dir), Return(t, Retained(r)),
           UNCHANGED <<failure, usable, torn, wire, aborts>>
    PROVE  Inv'
<1> USE DEF Inv
<1>1. /\ call' \in [Threads -> [at : Steps, dir : Directions \cup {"None"},
                               error : Failures \cup {"None"}]]
      /\ call'[t].at = "Ready" /\ call'[t].dir = "None"
      /\ \A u \in Threads \ {t} : call'[u] = call[u]
      /\ result' = [result EXCEPT ![t] = Retained(r)]
    BY ReturnFacts
<1>2. Retained(r) \in Failures \cup Refusals \cup {"Ok"}
    BY RetainedType
<1>3. Retained(r) \in Failures => Retained(r) = failure
    BY DEF Retained
<1>4. active' \in [Directions -> BOOLEAN]
    BY DEF Cleared, TypeOK
<1>5. TypeOK'
    BY <1>1, <1>2, <1>4 DEF TypeOK
<1>6. OneOperationPerDirection'
    BY <1>1, EndingStep DEF At
<1>7. StepsAreJustified' /\ BuffersInHand' /\ OneAbort'
    BY <1>1 DEF StepsAreJustified, BuffersInHand, OneAbort, At
<1>8. FramesInHand'
    BY <1>1 DEF FramesInHand, InCall, At
<1>9. AllReportTheFirstFailure' /\ UsableBufferIsWhole'
    BY <1>1, <1>3 DEF AllReportTheFirstFailure, UsableBufferIsWhole, TypeOK
<1> QED BY <1>5, <1>6, <1>7, <1>8, <1>9

LEMMA EndFailureKeepsInv ==
    ASSUME NEW t \in Threads, Inv, EndFailure(t)
    PROVE  Inv'
<1>1. failure # "None" /\ failure \in Failures
    BY DEF Inv, EndFailure, StepsAreJustified, At, TypeOK
<1>2. Retained(call[t].error) = Retained(failure)
    BY <1>1 DEF Retained
<1> QED BY <1>1, <1>2, CallEndKeepsInv DEF EndFailure, At

LEMMA EndSuccessKeepsInv ==
    ASSUME NEW t \in Threads, Inv, EndSuccess(t)
    PROVE  Inv'
BY CallEndKeepsInv DEF EndSuccess, At, Failures

LEMMA RefuseBufferKeepsInv ==
    ASSUME NEW t \in Threads, Inv, RefuseBuffer(t)
    PROVE  Inv'
BY CallEndKeepsInv DEF RefuseBuffer, At, Failures, Refusals

-----------------------------------------------------------------------------
LEMMA NextKeepsInv == Inv /\ [Next]_vars => Inv'
<1> SUFFICES ASSUME Inv, [Next]_vars PROVE Inv'
    OBVIOUS
<1>1. CASE UNCHANGED vars
    BY <1>1 DEF vars, Inv, TypeOK, StepsAreJustified, OneOperationPerDirection, OneAbort,
                AllReportTheFirstFailure, FramesInHand, UsableBufferIsWhole, BuffersInHand,
                At, InCall
<1>2. ASSUME NEW t \in Threads, NEW d \in Directions, Begin(t, d) PROVE Inv'
    BY <1>2, BeginKeepsInv
<1>3. ASSUME NEW t \in Threads, CallAbort(t) \/ Reinit(t) PROVE Inv'
    BY <1>3, CallAbortKeepsInv, ReinitKeepsInv
<1>4. ASSUME NEW t \in Threads, Continue(t) PROVE Inv'
    BY <1>4, CheckOutgoingKeepsInv, CheckBufferKeepsInv, TransferHeaderKeepsInv,
       TransferPayloadKeepsInv, PoisonKeepsInv, AbortIoKeepsInv, EndFailureKeepsInv,
       EndSuccessKeepsInv, RefuseBufferKeepsInv DEF Continue
<1> QED BY <1>1, <1>2, <1>3, <1>4 DEF Next

(* The strengthening gives the alignment of the byte streams: a stream that  *)
(* stands inside a frame belongs to a call, and then its direction is active.*)
LEMMA InvAligns == Inv => StreamAligned
BY DEF Inv, FramesInHand, StreamAligned, OneOperationPerDirection, TypeOK

LEMMA SpecInv == Spec => []Inv
BY InitInv, NextKeepsInv, PTL DEF Spec

(* For any number of threads sharing a FrameChannel: one call per direction, *)
(* one abort of the transport and one reported failure.                      *)
THEOREM ChannelSafety == Spec => [](TypeOK /\ OneOperationPerDirection /\ FirstFailureWins)
<1>1. Inv => TypeOK /\ OneOperationPerDirection /\ FirstFailureWins
    BY DEF Inv, FirstFailureWins
<1> QED BY <1>1, SpecInv, PTL

(* For any number of threads: no stream is left inside a frame while the     *)
(* channel is usable, and no usable buffer holds part of a frame.            *)
THEOREM ChannelKeepsFrames == Spec => []NoTornFrame
<1>1. Inv => NoTornFrame
    BY InvAligns DEF Inv, NoTornFrame
<1> QED BY <1>1, SpecInv, PTL
=============================================================================
