-------------------------- MODULE ControllerProofs --------------------------
(***************************************************************************)
(* Type correctness of the main loop, its picture of the session, and its  *)
(* announcements, for any number of inputs, outputs, probes, announcements *)
(* and tickers, over any client that keeps ClientContract.                 *)
(***************************************************************************)
EXTENDS Controller, TLAPS

-----------------------------------------------------------------------------
(* What making a call, and a call that ends, do to client and broker.      *)

\* A call of main() runs afterwards with the session as it was, or it has
\* failed and there is no session.
LEMMA CallFacts ==
    ASSUME TypeOK, NEW o \in Ops, MakesCall(o)
    PROVE  /\ ClientTypeOK'
           /\ op = "none" /\ ~called /\ called' = TRUE
           /\ op' = o \/ (op' = "none" /\ ~open')
           /\ op' = "none" => ~open'
           /\ open' => open /\ announced' = announced /\ o # "connect"
           /\ subscribed' \in BOOLEAN
           /\ announced' \subseteq 0..(NumAnnouncements - 1)
           /\ UNCHANGED <<shownIn, shownOut>>
<1>1. CASE Begin(o)
  <2>1. /\ op = "none" /\ op' = o /\ outcome' = NoOutcome /\ open' = open
        /\ o = "connect" => ~open
    BY <1>1 DEF Begin, MayCall
  <2>2. op' # "none" /\ NoOutcome \in Outcomes
    BY <2>1 DEF Ops, Requests, Outcomes
  <2> QED BY <2>1, <2>2 DEF MakesCall, Calls, SessionEnds, TypeOK, ClientTypeOK, WorldTypeOK
<1>2. CASE AtOnce(o, "FAILURE")
  <2>1. op = "none" /\ op' = "none" /\ open' = FALSE
    BY <1>2 DEF AtOnce, MayCall, Ends, AfterCall
  <2>2. outcome' \in Outcomes
    BY <1>2 DEF AtOnce, Ends, Outcomes
  <2> QED BY <2>1, <2>2 DEF MakesCall, Calls, SessionEnds, TypeOK, ClientTypeOK, WorldTypeOK
<1> QED BY <1>1, <1>2 DEF MakesCall, Calls

\* A call that returns leaves a well-typed client, a failure no session; only
\* connect() opens one.
LEMMA ReturnFacts ==
    ASSUME TypeOK, Returns
    PROVE  /\ ClientTypeOK'
           /\ op # "none" /\ op' = "none"
           /\ outcome'.rc = "FAILURE" => ~open'
           /\ open' => outcome'.rc = "SUCCESS" /\ (open \/ op = "connect")
<1>1. PICK o \in Ops, rc \in {"SUCCESS", "FAILURE"} : End(o, rc)
  BY DEF Returns
<1>2. /\ op = o /\ op' = "none"
      /\ outcome' = [op |-> o, rc |-> rc]
      /\ open' = AfterCall(o, rc)
  BY <1>1 DEF End, Ends
<1>3. outcome' \in Outcomes
  BY <1>2 DEF Outcomes
<1>4. open' \in BOOLEAN /\ (open' => rc = "SUCCESS" /\ (open \/ o = "connect"))
  BY <1>2 DEF AfterCall, TypeOK, ClientTypeOK
<1>5. o # "none"
  BY DEF Ops, Requests
<1> QED BY <1>2, <1>3, <1>4, <1>5 DEF ClientTypeOK

-----------------------------------------------------------------------------
(* Type correctness.                                                       *)

\* Steps that leave a part of the state alone leave it well typed.
LEMMA TypeKept ==
    ASSUME TypeOK
    PROVE  /\ UNCHANGED clientVars => ClientTypeOK'
           /\ UNCHANGED <<flags, io>> => IoTypeOK'
           /\ UNCHANGED world => WorldTypeOK'
           /\ UNCHANGED main => MainTypeOK'
<1> USE DEF TypeOK
<1>1. UNCHANGED clientVars => ClientTypeOK'
  BY DEF clientVars, ClientTypeOK
<1>2. UNCHANGED <<flags, io>> => IoTypeOK'
  BY DEF io, IoTypeOK
<1>3. UNCHANGED world => WorldTypeOK'
  BY DEF world, WorldTypeOK
<1>4. UNCHANGED main => MainTypeOK'
  BY DEF main, MainTypeOK
<1> QED BY <1>1, <1>2, <1>3, <1>4

LEMMA TypeInit == ASSUME Init PROVE TypeOK
<1>1. ClientTypeOK
  BY DEF Init, ClientInit, ClientTypeOK, Outcomes, NoOutcome
<1>2. MainTypeOK
  <2>1. pc \in Places /\ connected_net \in BOOLEAN /\ connected_mqtt \in BOOLEAN /\ called \in BOOLEAN
    BY DEF Init, Places
  <2>2. i \in Nat /\ conn_failures \in 0..MaxFailures
    BY DEF Init, MaxFailures
  <2> QED BY <2>1, <2>2 DEF MainTypeOK
<1>3. IoTypeOK
  BY DEF Init, IoTypeOK, Levels
<1>4. WorldTypeOK
  BY DEF Init, WorldTypeOK, Unknown
<1> QED BY <1>1, <1>2, <1>3, <1>4 DEF TypeOK

\* The places where main() makes a call keep the types.
LEMMA TypeCalling ==
    ASSUME TypeOK, CallsConnect \/ CallsSubscribe \/ Announce \/ ServeNext \/ Yields
    PROVE  TypeOK'
<1>1. MainTypeOK
  BY DEF TypeOK
<1>2. PICK o \in {"connect", "subscribe", "publish", "yield"} : MakesCall(o)
  BY DEF CallsConnect, CallsSubscribe, Announce, ServeNext, Yields, PublishValue
<1>. o \in Ops
  BY DEF Ops, Requests
<1>3. ClientTypeOK' /\ WorldTypeOK'
  BY <1>2, CallFacts DEF TypeOK, WorldTypeOK
<1>4. MainTypeOK'
  <2>1. UNCHANGED <<pc, i, connected_net, connected_mqtt, conn_failures>> /\ called' = TRUE
    BY <1>2, CallFacts DEF CallsConnect, CallsSubscribe, Announce, ServeNext, Yields
  <2> QED BY <1>1, <2>1 DEF MainTypeOK
<1>5. IoTypeOK'
  <2>1. CASE CallsConnect \/ CallsSubscribe \/ Yields
    BY <2>1, TypeKept DEF CallsConnect, CallsSubscribe, Yields
  <2>2. CASE Announce
    BY <2>2 DEF TypeOK, IoTypeOK, Announce, PublishValue, Levels
  <2>3. CASE ServeNext
    <3>1. sent' \in Levels
      <4>1. CASE pc = "inputs"
        BY <2>3, <4>1, <1>1, ControllerAssumption
           DEF ServeNext, PublishValue, Count, Inputs, MainTypeOK, TypeOK, IoTypeOK
      <4>2. CASE pc = "outputs"
        BY <2>3, <4>2, <1>1, ControllerAssumption
           DEF ServeNext, PublishValue, Count, Outputs, MainTypeOK, TypeOK, IoTypeOK
      <4>3. CASE pc \notin {"inputs", "outputs"}
        BY <2>3, <4>3 DEF ServeNext, PublishValue, Levels
      <4> QED BY <4>1, <4>2, <4>3
    <3> QED BY <2>3, <3>1 DEF TypeOK, IoTypeOK, ServeNext
  <2> QED BY <2>1, <2>2, <2>3
<1> QED BY <1>3, <1>4, <1>5 DEF TypeOK

LEMMA TypeReadInput == ASSUME TypeOK, ReadInput PROVE TypeOK'
<1>1. i \in Inputs /\ pin[i] \in Levels
  BY ControllerAssumption DEF ReadInput, Inputs, TypeOK, MainTypeOK, IoTypeOK
<1>2. input_state' \in [Inputs -> Levels]
  BY <1>1 DEF ReadInput, TypeOK, IoTypeOK
<1>3. CASE pin[i] # input_state[i]
  <2>1. MakesCall("publish") /\ sent' \in Levels /\ UNCHANGED i
    BY <1>1, <1>3 DEF ReadInput, PublishValue
  <2>2. ClientTypeOK' /\ WorldTypeOK' /\ called' = TRUE
    BY <2>1, CallFacts DEF TypeOK, WorldTypeOK, Ops, Requests
  <2> QED BY <1>2, <2>1, <2>2 DEF TypeOK, MainTypeOK, IoTypeOK, ReadInput
<1>4. CASE pin[i] = input_state[i]
  <2>1. UNCHANGED <<clientVars, called, sent, world>> /\ i' = i + 1
    BY <1>4 DEF ReadInput
  <2>2. ClientTypeOK' /\ WorldTypeOK'
    BY <2>1, TypeKept
  <2> QED BY <1>2, <2>1, <2>2 DEF TypeOK, MainTypeOK, IoTypeOK, ReadInput
<1> QED BY <1>3, <1>4

\* A jump keeps the types when the rest of main()'s state does.
LEMMA TypeGoTo ==
    ASSUME NEW place \in Places, GoTo(place),
           connected_net' \in BOOLEAN, connected_mqtt' \in BOOLEAN,
           conn_failures' \in 0..MaxFailures
    PROVE  MainTypeOK'
BY DEF MainTypeOK, GoTo

\* Failures are counted up to MaxFailures.
LEMMA TypeInitFails ==
    ASSUME MainTypeOK, NEW n \in {0, 1}, InitFails(n)
    PROVE  MainTypeOK'
<1>1. conn_failures \in 0..MaxFailures
  BY DEF MainTypeOK
<1>2. CASE conn_failures + n > MaxFailures
  <2>1. conn_failures' = 0 /\ connected_net' \in BOOLEAN
    BY <1>2 DEF InitFails
  <2>2. conn_failures' \in 0..MaxFailures
    BY <2>1 DEF MaxFailures
  <2>3. GoTo("yield") /\ connected_mqtt' \in BOOLEAN /\ "yield" \in Places
    BY DEF InitFails, Places
  <2> QED BY <2>1, <2>2, <2>3, TypeGoTo
<1>3. CASE ~(conn_failures + n > MaxFailures)
  <2>1. conn_failures' = conn_failures + n /\ connected_net' \in BOOLEAN
    BY <1>3 DEF InitFails, MainTypeOK
  <2>2. conn_failures' \in 0..MaxFailures
    BY <1>1, <1>3, <2>1 DEF MaxFailures
  <2>3. GoTo("yield") /\ connected_mqtt' \in BOOLEAN /\ "yield" \in Places
    BY DEF InitFails, Places
  <2> QED BY <2>1, <2>2, <2>3, TypeGoTo
<1> QED BY <1>2, <1>3

\* The steps of main() that make no call
LEMMA TypeMain ==
    ASSUME TypeOK,
           \/ Turn \/ NetworkingInit \/ TcpConnects \/ TcpFails \/ Connected \/ Subscribed
           \/ InitDone \/ InputsRead \/ Serve \/ Published \/ Served
           \/ CheckConnection \/ Yielded \/ EndOfTurn
    PROVE  TypeOK'
<1>1. ClientTypeOK' /\ WorldTypeOK'
  BY TypeKept DEF Turn, NetworkingInit, TcpConnects, TcpFails, Connected, Subscribed, InitDone,
                  InputsRead, Serve, Published, Served, CheckConnection, Yielded, EndOfTurn
<1>2. IoTypeOK'
  BY DEF TypeOK, IoTypeOK, io, Turn, NetworkingInit, TcpConnects, TcpFails, Connected, Subscribed,
         InitDone, InputsRead, Serve, Published, Served, CheckConnection, Yielded, EndOfTurn
<1>3. MainTypeOK'
  <2>1. MainTypeOK /\ conn_failures \in 0..MaxFailures
    BY DEF TypeOK, MainTypeOK
  <2>2. CASE TcpFails \/ (Connected /\ InitFails(1)) \/ (Subscribed /\ InitFails(0))
    <3>1. PICK n \in {0, 1} : InitFails(n)
      BY <2>2 DEF TcpFails
    <3> QED BY <2>1, <3>1, TypeInitFails
  <2>3. CASE Published
    <3>1. pc \in Places /\ connected_net \in BOOLEAN /\ connected_mqtt \in BOOLEAN
      BY <2>1 DEF MainTypeOK
    <3>2. i' \in Nat /\ called' = FALSE
      BY <2>1, <2>3 DEF MainTypeOK, Published
    <3>3. UNCHANGED <<pc, connected_net, connected_mqtt, conn_failures>>
      BY <2>3 DEF Published
    <3> QED BY <2>1, <3>1, <3>2, <3>3 DEF MainTypeOK
  <2>4. CASE InitDone
    <3>1. "yield" \in Places /\ 0 \in 0..MaxFailures
      BY DEF Places, MaxFailures
    <3> QED BY <2>1, <2>4, <3>1, TypeGoTo DEF InitDone, MainTypeOK
  <2>5. CASE \/ Turn \/ NetworkingInit \/ TcpConnects \/ InputsRead \/ Serve \/ Served
             \/ CheckConnection \/ Yielded \/ EndOfTurn
             \/ (Connected /\ ~InitFails(1)) \/ (Subscribed /\ ~InitFails(0))
    <3>1. conn_failures' = conn_failures
      BY <2>5 DEF Turn, NetworkingInit, TcpConnects, InputsRead, Serve, Served,
                  CheckConnection, Yielded, EndOfTurn, Connected, Subscribed
    <3>2. connected_net' \in BOOLEAN
      BY <2>1, <2>5 DEF MainTypeOK, Turn, NetworkingInit, TcpConnects, InputsRead, Serve, Served,
                        CheckConnection, Yielded, EndOfTurn, Connected, Subscribed
    <3>3. connected_mqtt' \in BOOLEAN
      BY <2>1, <2>5 DEF TypeOK, ClientTypeOK, MainTypeOK, Turn, NetworkingInit, TcpConnects,
                        InputsRead, Serve, Served, CheckConnection, Yielded, EndOfTurn,
                        Connected, Subscribed
    <3>4. PICK place \in Places : GoTo(place)
      <4>1. CASE Serve
        BY <4>1 DEF Serve, TypeOK, IoTypeOK, Places
      <4>2. CASE ~Serve
        BY <2>5, <4>2 DEF Turn, NetworkingInit, TcpConnects, InputsRead, Served, Places,
                          CheckConnection, Yielded, EndOfTurn, Connected, Subscribed
      <4> QED BY <4>1, <4>2
    <3> QED BY <2>1, <3>1, <3>2, <3>3, <3>4, TypeGoTo
  <2> QED BY <2>2, <2>3, <2>4, <2>5
<1> QED BY <1>1, <1>2, <1>3 DEF TypeOK

LEMMA TypeClientReturns == ASSUME TypeOK, CallsTracked, ClientReturns PROVE TypeOK'
<1>1. ClientTypeOK' /\ op # "none"
  BY ReturnFacts DEF ClientReturns
<1>2. subscribed' \in BOOLEAN
  BY <1>1 DEF ClientReturns, ClientTypeOK, TypeOK, WorldTypeOK
<1>3. WorldTypeOK'
  <2>1. CASE op = "publish"
    <3>1. PICK arrived \in BOOLEAN :
             /\ announced' = IF ~open' THEN {}
                             ELSE IF arrived /\ pc = "announce" THEN announced \cup {i}
                             ELSE announced
             /\ shownIn'  = IF arrived /\ pc \in {"read_inputs", "inputs"}
                            THEN [shownIn EXCEPT ![i] = sent] ELSE shownIn
             /\ shownOut' = IF arrived /\ pc = "outputs"
                            THEN [shownOut EXCEPT ![i] = sent] ELSE shownOut
      BY <2>1 DEF ClientReturns, Delivers
    <3>2. pc = "announce" => i \in 0..(NumAnnouncements - 1)
      BY <1>1, ControllerAssumption DEF CallsTracked, TypeOK, MainTypeOK
    <3>3. announced' \subseteq 0..(NumAnnouncements - 1)
      BY <3>1, <3>2 DEF TypeOK, WorldTypeOK
    <3>4. shownIn' \in [Inputs -> Levels \cup {Unknown}]
      BY <3>1 DEF TypeOK, WorldTypeOK, IoTypeOK
    <3>5. shownOut' \in [Outputs -> Levels \cup {Unknown}]
      BY <3>1 DEF TypeOK, WorldTypeOK, IoTypeOK
    <3> QED BY <1>2, <3>3, <3>4, <3>5 DEF WorldTypeOK
  <2>2. CASE op # "publish"
    BY <1>2, <2>2 DEF ClientReturns, TypeOK, WorldTypeOK
  <2> QED BY <2>1, <2>2
<1>4. UNCHANGED <<main, flags, io>>
  BY DEF ClientReturns
<1> QED BY <1>1, <1>3, <1>4, TypeKept DEF TypeOK

LEMMA TypeDropped == ASSUME TypeOK, Dropped PROVE TypeOK'
<1>1. ClientTypeOK' /\ WorldTypeOK'
  BY DEF TypeOK, ClientTypeOK, WorldTypeOK, Dropped, Drop, SessionEnds
<1>2. UNCHANGED <<main, flags, io>>
  BY DEF Dropped
<1> QED BY <1>1, <1>2, TypeKept DEF TypeOK

\* The callback, the interrupts and the pins keep the types.
LEMMA TypeAround ==
    ASSUME TypeOK, Commands \/ Interrupts \/ PinMoves
    PROVE  TypeOK'
<1>1. UNCHANGED <<clientVars, main, world>>
  BY DEF Commands, Message, Interrupts, Every30Sec, Every15Sec, EverySecond, PinMoves
<1>2. IoTypeOK'
  <2>1. CASE Commands
    <3>1. PICK n \in Numbers, v \in Levels : Message(n, v)
      BY <2>1 DEF Commands
    <3>2. outputs' \in [Outputs -> Levels] /\ flags' \subseteq Flags
      BY <3>1 DEF Message, TypeOK, IoTypeOK, Flags
    <3> QED BY <3>1, <3>2 DEF Message, TypeOK, IoTypeOK
  <2>2. CASE Interrupts
    BY <2>2 DEF Interrupts, Every30Sec, Every15Sec, EverySecond, io, TypeOK, IoTypeOK, Flags
  <2>3. CASE PinMoves
    <3>1. pin' \in [Inputs -> Levels]
      BY <2>3 DEF PinMoves, Levels, TypeOK, IoTypeOK
    <3> QED BY <2>3, <3>1 DEF PinMoves, TypeOK, IoTypeOK
  <2> QED BY <2>1, <2>2, <2>3
<1> QED BY <1>1, <1>2, TypeKept DEF TypeOK

-----------------------------------------------------------------------------
(* The picture main() has of the session, part by part of LoopInv.         *)

\* The steps of main() that make no call wait for the last one to be over.
StepsWithoutCall ==
    \/ Turn \/ NetworkingInit \/ TcpConnects \/ TcpFails \/ Connected \/ Subscribed
    \/ InitDone \/ InputsRead \/ Serve \/ Published \/ Served
    \/ CheckConnection \/ Yielded \/ EndOfTurn

StepsWithCall == CallsConnect \/ CallsSubscribe \/ Announce \/ ServeNext \/ Yields

LEMMA StepFacts ==
    ASSUME TypeOK, CallsTracked, StepsWithoutCall
    PROVE  /\ op = "none" /\ called' = FALSE
           /\ UNCHANGED <<clientVars, world>>
<1>1. called' = FALSE /\ UNCHANGED <<clientVars, world>>
  BY DEF StepsWithoutCall, Turn, NetworkingInit, TcpConnects, TcpFails, Connected, Subscribed,
         InitDone, InputsRead, Serve, Published, Served, CheckConnection, Yielded, EndOfTurn,
         GoTo, InitFails
<1>2. ~called \/ op = "none"
  BY DEF StepsWithoutCall, Turn, NetworkingInit, TcpConnects, TcpFails, Connected, Subscribed,
         InitDone, InputsRead, Serve, Published, Served, CheckConnection, Yielded, EndOfTurn,
         At, Got, Returned
<1> QED BY <1>1, <1>2 DEF CallsTracked

\* A step that makes a call makes the one of its place.
LEMMA CallingFacts ==
    ASSUME TypeOK, StepsWithCall
    PROVE  /\ UNCHANGED <<pc, i, connected_net, connected_mqtt>>
           /\ called' = TRUE
           /\ op' \in {"none", CallOf(pc)}
           /\ op' = "none" => ~open'
           /\ open' => open /\ announced' = announced /\ pc # "connect"
           /\ pc \in Flags \cup {"connect", "subscribe", "announce", "yield"}
           /\ pc = "announce" => i < NumAnnouncements
<1>1. PICK o \in {"connect", "subscribe", "publish", "yield"} : MakesCall(o) /\ o = CallOf(pc)
  BY DEF StepsWithCall, CallsConnect, CallsSubscribe, Announce, ServeNext, Yields, PublishValue,
         CallOf, Flags
<1>2. o \in Ops
  BY DEF Ops, Requests
<1>3. /\ UNCHANGED <<pc, i, connected_net, connected_mqtt>>
      /\ pc \in Flags \cup {"connect", "subscribe", "announce", "yield"}
      /\ pc = "announce" => i < NumAnnouncements
  BY DEF StepsWithCall, CallsConnect, CallsSubscribe, Announce, ServeNext, Yields, Flags
<1>4. /\ called' = TRUE /\ (op' = o \/ op' = "none") /\ (op' = "none" => ~open')
      /\ open' => open /\ announced' = announced /\ o # "connect"
  BY <1>1, <1>2, CallFacts
<1>5. pc = "connect" => o = "connect"
  BY <1>1 DEF CallOf
<1> QED BY <1>1, <1>3, <1>4, <1>5

\* read_inputs() makes a call, or goes on to the next input.
LEMMA ReadInputFacts ==
    ASSUME TypeOK, ReadInput
    PROVE  /\ UNCHANGED <<pc, connected_net, connected_mqtt>>
           /\ pc = "read_inputs" /\ ~called
           /\ \/ /\ called' = TRUE /\ op' \in {"none", "publish"}
                 /\ op' = "none" => ~open'
                 /\ open' => open /\ announced' = announced
              \/ UNCHANGED <<clientVars, called, world>>
<1>1. MakesCall("publish") \/ UNCHANGED <<clientVars, called, world>>
  BY DEF ReadInput, PublishValue
<1>2. "publish" \in Ops
  BY DEF Ops, Requests
<1>3. UNCHANGED <<pc, connected_net, connected_mqtt>> /\ pc = "read_inputs" /\ ~called
  BY DEF ReadInput, At
<1> QED BY <1>1, <1>2, <1>3, CallFacts

\* What goes on around main() leaves it, the client and the session alone.
LEMMA AroundFacts ==
    ASSUME Commands \/ Interrupts \/ PinMoves
    PROVE  UNCHANGED <<clientVars, main, world>>
BY DEF Commands, Message, Interrupts, Every30Sec, Every15Sec, EverySecond, PinMoves

\* The steps of Next by what they do to the call that is running.
LEMMA StepKinds ==
    ASSUME [Next]_vars
    PROVE  \/ StepsWithoutCall \/ StepsWithCall \/ ReadInput
           \/ ClientReturns \/ Dropped \/ UNCHANGED <<clientVars, main, world>>
<1>1. CASE Main
  BY <1>1 DEF Main, StepsWithoutCall, StepsWithCall
<1>2. CASE Commands \/ Interrupts \/ PinMoves
  BY <1>2, AroundFacts
<1>3. CASE Dropped \/ ClientReturns
  BY <1>3
<1>4. CASE UNCHANGED vars
  BY <1>4 DEF vars
<1> QED BY <1>1, <1>2, <1>3, <1>4 DEF Next

LEMMA TypeNext == ASSUME TypeOK, LoopInv, [Next]_vars PROVE TypeOK'
<1>1. CASE Main
  BY <1>1, TypeMain, TypeCalling, TypeReadInput DEF Main
<1>2. CASE Dropped
  BY <1>2, TypeDropped
<1>3. CASE ClientReturns
  BY <1>3, TypeClientReturns DEF LoopInv
<1>4. CASE Commands \/ Interrupts \/ PinMoves
  BY <1>4, TypeAround
<1>5. CASE UNCHANGED vars
  BY <1>5, TypeKept DEF vars, TypeOK
<1> QED BY <1>1, <1>2, <1>3, <1>4, <1>5 DEF Next

LEMMA CallsTrackedNext ==
    ASSUME TypeOK, CallsTracked, [Next]_vars
    PROVE  CallsTracked'
<1>1. i \in Nat /\ NumAnnouncements \in Nat /\ called \in BOOLEAN /\ flags \subseteq Flags
  BY ControllerAssumption DEF TypeOK, MainTypeOK, IoTypeOK
<1>2. CASE StepsWithoutCall
  <2>1. op' = "none" /\ called' = FALSE
    BY <1>2, StepFacts DEF clientVars
  <2>2. pc' = "announce" => i' <= NumAnnouncements
    <3>1. CASE Published
      BY <1>1, <3>1 DEF Published, Returned, Got, CallsTracked
    <3>2. CASE Subscribed
      BY <1>1, <3>2 DEF Subscribed, GoTo, InitFails
    <3>3. CASE ~Published /\ ~Subscribed
      BY <1>1, <1>2, <3>3
         DEF StepsWithoutCall, Turn, NetworkingInit, TcpConnects, TcpFails, Connected, InitDone,
             InputsRead, Serve, Served, CheckConnection, Yielded, EndOfTurn, GoTo, InitFails, Flags
    <3> QED BY <3>1, <3>2, <3>3
  <2> QED BY <2>1, <2>2 DEF CallsTracked
<1>3. CASE StepsWithCall
  <2>1. pc = "announce" => i <= NumAnnouncements
    BY DEF CallsTracked
  <2> QED BY <1>3, <2>1, CallingFacts DEF CallsTracked, CallOf, Flags
<1>4. CASE ReadInput
  BY <1>4, ReadInputFacts DEF CallsTracked, CallOf, clientVars, Flags
<1>5. CASE ClientReturns
  BY <1>5, ReturnFacts DEF ClientReturns, main, CallsTracked, CallOf
<1>6. CASE Dropped
  BY <1>6 DEF Dropped, Drop, main, CallsTracked, CallOf
<1>7. CASE UNCHANGED <<clientVars, main, world>>
  BY <1>7 DEF clientVars, main, CallsTracked, CallOf
<1> QED BY <1>2, <1>3, <1>4, <1>5, <1>6, <1>7, StepKinds

LEMMA FailureClosesNext ==
    ASSUME TypeOK, CallsTracked, FailureCloses, [Next]_vars
    PROVE  FailureCloses'
<1>1. CASE StepsWithoutCall
  BY <1>1, StepFacts DEF FailureCloses, clientVars
<1>2. CASE StepsWithCall
  BY <1>2, CallingFacts DEF FailureCloses
<1>3. CASE ReadInput
  BY <1>3, ReadInputFacts DEF FailureCloses, clientVars
<1>4. CASE ClientReturns
  BY <1>4, ReturnFacts DEF ClientReturns, FailureCloses
<1>5. CASE Dropped
  BY <1>5 DEF Dropped, Drop, FailureCloses
<1>6. CASE UNCHANGED <<clientVars, main, world>>
  BY <1>6 DEF clientVars, FailureCloses
<1> QED BY <1>1, <1>2, <1>3, <1>4, <1>5, <1>6, StepKinds

LEMMA SessionKnownNext ==
    ASSUME TypeOK, CallsTracked, FailureCloses, SessionKnown, [Next]_vars
    PROVE  SessionKnown'
<1>1. CASE StepsWithoutCall
  <2>1. open' = open /\ op = "none"
    BY <1>1, StepFacts DEF clientVars
  <2>2. CASE Turn
    BY <2>1, <2>2 DEF Turn, At, GoTo, SessionKnown
  <2>3. CASE NetworkingInit \/ TcpConnects \/ TcpFails
    BY <2>1, <2>3 DEF NetworkingInit, TcpConnects, TcpFails, InitFails, At, GoTo, SessionKnown
  <2>4. CASE Connected \/ Subscribed
    BY <2>1, <2>4 DEF Connected, Subscribed, InitFails, Got, GoTo, SessionKnown, FailureCloses
  <2>5. CASE InitDone \/ InputsRead \/ Served \/ CheckConnection \/ Yielded \/ EndOfTurn
    BY <2>1, <2>5 DEF InitDone, InputsRead, Served, CheckConnection, Yielded, EndOfTurn, At, GoTo,
                      SessionKnown, Flags
  <2>6. CASE Published
    BY <2>1, <2>6 DEF Published, SessionKnown, Flags
  <2>7. CASE Serve
    <3>1. pc' \in Flags \cup {"check"}
      BY <2>7 DEF Serve, GoTo, TypeOK, IoTypeOK
    <3> QED BY <2>1, <2>7, <3>1 DEF Serve, At, SessionKnown, Flags
  <2> QED BY <1>1, <2>2, <2>3, <2>4, <2>5, <2>6, <2>7 DEF StepsWithoutCall
<1>2. CASE StepsWithCall
  BY <1>2, CallingFacts DEF SessionKnown
<1>3. CASE ReadInput
  <2>1. UNCHANGED <<pc, connected_net, connected_mqtt>> /\ pc = "read_inputs"
    BY <1>3, ReadInputFacts
  <2>2. UNCHANGED <<clientVars, called, world>> => open' = open
    BY DEF clientVars
  <2>3. open' => open
    BY <1>3, <2>2, ReadInputFacts
  <2> QED BY <2>1, <2>3 DEF SessionKnown
<1>4. CASE ClientReturns
  <2>1. /\ op # "none" /\ (open' => open \/ op = "connect")
        /\ UNCHANGED <<pc, called, connected_net, connected_mqtt>>
    BY <1>4, ReturnFacts DEF ClientReturns, main
  <2>2. called /\ (op = "connect" => pc = "connect")
    BY <2>1 DEF CallsTracked, CallOf
  <2> QED BY <2>1, <2>2 DEF SessionKnown
<1>5. CASE Dropped
  BY <1>5 DEF Dropped, Drop, main, SessionKnown
<1>6. CASE UNCHANGED <<clientVars, main, world>>
  BY <1>6 DEF clientVars, main, SessionKnown
<1> QED BY <1>1, <1>2, <1>3, <1>4, <1>5, <1>6, StepKinds

-----------------------------------------------------------------------------
(* The announcements.                                                      *)

\* A publish() that returns SUCCESS has announced what it carried.
LEMMA ReturnAnnounces ==
    ASSUME TypeOK, CallsTracked, StackIsZero, ClientReturns, open'
    PROVE  /\ pc # "connect" => open
           /\ pc = "announce" => announced' = announced \cup {i}
           /\ pc # "announce" => announced' = announced
<1>1. op # "none" /\ outcome'.rc = "SUCCESS" /\ (open \/ op = "connect")
  BY ReturnFacts DEF ClientReturns
<1>2. op = CallOf(pc)
  BY <1>1 DEF CallsTracked
<1>3. pc = "announce" => op = "publish"
  BY <1>2 DEF CallOf
<1>4. pc # "connect" => open
  BY <1>1, <1>2 DEF CallOf
<1>5. op = "publish" => announced' = IF pc = "announce" THEN announced \cup {i} ELSE announced
  BY <1>1 DEF ClientReturns, Delivers
<1>6. op # "publish" => announced' = announced
  BY DEF ClientReturns
<1> QED BY <1>3, <1>4, <1>5, <1>6

LEMMA AnnouncedSoFarNext ==
    ASSUME TypeOK, CallsTracked, FailureCloses, StackIsZero, AnnouncedSoFar, [Next]_vars
    PROVE  AnnouncedSoFar'
<1>1. CASE StepsWithoutCall
  <2>1. open' = open /\ op = "none" /\ called' = FALSE /\ announced' = announced
    BY <1>1, StepFacts DEF clientVars, world
  <2>2. CASE Published
    <3>1. pc' = pc /\ i' = i + 1 /\ called /\ i \in Nat
      BY <2>2 DEF Published, Returned, Got, TypeOK, MainTypeOK
    <3>2. 0..(i' - 1) = 0..(i - 1) \cup {i}
      BY <3>1
    <3> QED BY <2>1, <3>1, <3>2 DEF AnnouncedSoFar
  <2>3. CASE Subscribed
    <3>1. i' = 0
      BY <2>3 DEF Subscribed, GoTo, InitFails
    <3>2. 0..(i' - 1) = {}
      BY <3>1
    <3> QED BY <2>1, <3>2 DEF AnnouncedSoFar
  <2>4. CASE ~Published /\ ~Subscribed
    <3>1. pc' # "announce"
      BY <1>1, <2>4
         DEF StepsWithoutCall, Turn, NetworkingInit, TcpConnects, TcpFails, Connected, InitDone,
             InputsRead, Serve, Served, CheckConnection, Yielded, EndOfTurn, GoTo, InitFails,
             Flags, TypeOK, IoTypeOK
    <3> QED BY <3>1 DEF AnnouncedSoFar
  <2> QED BY <2>2, <2>3, <2>4
<1>2. CASE StepsWithCall
  BY <1>2, CallingFacts DEF AnnouncedSoFar
<1>3. CASE ReadInput
  BY <1>3, ReadInputFacts DEF AnnouncedSoFar
<1>4. CASE ClientReturns
  BY <1>4, ReturnAnnounces DEF AnnouncedSoFar, ClientReturns, main
<1>5. CASE Dropped
  BY <1>5 DEF Dropped, Drop, AnnouncedSoFar
<1>6. CASE UNCHANGED <<clientVars, main, world>>
  BY <1>6 DEF clientVars, main, world, AnnouncedSoFar
<1> QED BY <1>1, <1>2, <1>3, <1>4, <1>5, <1>6, StepKinds

LEMMA AnnouncedWhileOpenNext ==
    ASSUME TypeOK, CallsTracked, FailureCloses, SessionKnown, StackIsZero,
           AnnouncedSoFar, AnnouncedWhileOpen, [Next]_vars
    PROVE  AnnouncedWhileOpen'
<1>1. CASE StepsWithoutCall
  <2>1. open' = open /\ op = "none" /\ announced' = announced
    BY <1>1, StepFacts DEF clientVars, world
  <2>2. CASE InitDone
    <3>1. open => 0..(NumAnnouncements - 1) \subseteq announced
      BY <2>2 DEF InitDone, At, AnnouncedSoFar
    <3>2. announced \subseteq 0..(NumAnnouncements - 1)
      BY DEF TypeOK, WorldTypeOK
    <3> QED BY <2>1, <3>1, <3>2 DEF AnnouncedWhileOpen
  <2>3. CASE Connected \/ Subscribed
    BY <2>1, <2>3 DEF Connected, Subscribed, Got, GoTo, FailureCloses, AnnouncedWhileOpen
  <2>4. CASE TcpConnects
    BY <2>4 DEF TcpConnects, GoTo, AnnouncedWhileOpen
  <2>5. CASE ~(InitDone \/ Connected \/ Subscribed \/ TcpConnects)
    <3>1. pc' \notin {"connect", "subscribe", "announce"}
              => pc \notin {"connect", "subscribe", "announce"}
      <4>1. CASE Published
        BY <4>1 DEF Published
      <4>2. CASE ~Published
        BY <1>1, <2>5, <4>2
           DEF StepsWithoutCall, Turn, NetworkingInit, TcpFails, InputsRead, Serve, Served,
               CheckConnection, Yielded, EndOfTurn, At, Flags
      <4> QED BY <4>1, <4>2
    <3> QED BY <2>1, <3>1 DEF AnnouncedWhileOpen
  <2> QED BY <2>2, <2>3, <2>4, <2>5
<1>2. CASE StepsWithCall
  BY <1>2, CallingFacts DEF AnnouncedWhileOpen
<1>3. CASE ReadInput
  BY <1>3, ReadInputFacts DEF AnnouncedWhileOpen, clientVars, world
<1>4. CASE ClientReturns
  BY <1>4, ReturnAnnounces DEF AnnouncedWhileOpen, ClientReturns, main
<1>5. CASE Dropped
  BY <1>5 DEF Dropped, Drop, AnnouncedWhileOpen
<1>6. CASE UNCHANGED <<clientVars, main, world>>
  BY <1>6 DEF clientVars, main, world, AnnouncedWhileOpen
<1> QED BY <1>1, <1>2, <1>3, <1>4, <1>5, <1>6, StepKinds

-----------------------------------------------------------------------------
(* The theorems.                                                           *)

LEMMA LoopInit == ASSUME Init PROVE LoopInv
<1>1. called = FALSE /\ op = "none" /\ open = FALSE /\ pc = "turn"
  BY DEF Init, ClientInit
<1> QED BY <1>1 DEF LoopInv, CallsTracked, FailureCloses, SessionKnown, AnnouncedSoFar,
                    AnnouncedWhileOpen

\* The invariant of the main loop: a call runs only where main() made it, a
\* failed call has closed the session, and main() knows of every session.
THEOREM LoopInvariant == Spec => [](TypeOK /\ LoopInv)
<1>1. Init => TypeOK /\ LoopInv
  BY TypeInit, LoopInit
<1>2. TypeOK /\ LoopInv /\ [Next]_vars => (TypeOK /\ LoopInv)'
  <2> SUFFICES ASSUME TypeOK, LoopInv, [Next]_vars PROVE TypeOK' /\ LoopInv'
    OBVIOUS
  <2>1. TypeOK'
    BY TypeNext
  <2>2. CallsTracked' /\ FailureCloses' /\ SessionKnown'
    BY CallsTrackedNext, FailureClosesNext, SessionKnownNext DEF LoopInv
  <2>3. StackIsZero => AnnouncedSoFar' /\ AnnouncedWhileOpen'
    BY AnnouncedSoFarNext, AnnouncedWhileOpenNext DEF LoopInv
  <2> QED BY <2>1, <2>2, <2>3 DEF LoopInv
<1> QED BY <1>1, <1>2, PTL DEF Spec

\* Every state of the loop is well typed: in particular conn_failures never
\* passes the number at which the network is initialised again.
THEOREM LoopTypes == Spec => []TypeOK
BY LoopInvariant, PTL

\* main() connects the network object and the client only when there is no
\* session, and starts no turn without knowing of one.
THEOREM SessionIsViewed == Spec => []SessionViewed
<1>1. LoopInv => SessionViewed
  BY DEF LoopInv, SessionKnown, SessionViewed, At
<1> QED BY <1>1, LoopInvariant, PTL

\* Outside mqtt_init() an open session is one in which the broker received
\* every announcement, provided the messages of publish() go to their topics.
THEOREM AnnouncedIfZero == ASSUME StackIsZero PROVE Spec => []AnnouncedWhileOpen
<1>1. LoopInv => AnnouncedWhileOpen
  BY DEF LoopInv
<1> QED BY <1>1, LoopInvariant, PTL
=============================================================================
