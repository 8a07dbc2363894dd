----------------------------- MODULE Controller -----------------------------
(***************************************************************************)
(* The application, main.cpp: the endless loop of main(), mqtt_init(), the *)
(* publish functions, the callback message_handler() and the timer         *)
(* interrupts, over what ClientContract says of the MQTT client.           *)
(*                                                                         *)
(* `pc' is the place main() is at; interrupts, the pins and the running    *)
(* call of the client move between any two of its steps.                   *)
(***************************************************************************)
EXTENDS ClientContract, Integers

CONSTANTS
    NumInputs,          \* NUM_INPUTS
    NumOutputs,         \* NUM_OUTPUTS
    NumProbes,          \* num_ds1820
    NumAnnouncements,   \* messages mqtt_init() publishes
    Numbers,            \* what may follow "output" in a command's topic
    Timers,             \* the tickers that are attached
    StackIsZero         \* does topic_full happen to start with a 0 byte?

ASSUME ControllerAssumption ==
    /\ NumInputs \in Nat /\ NumOutputs \in Nat /\ NumProbes \in Nat \ {0}
    /\ NumAnnouncements \in Nat
    /\ Numbers \subseteq Int
    /\ Timers \subseteq {"30sec", "15sec", "1sec"}
    /\ StackIsZero \in BOOLEAN

VARIABLES
    pc, i, called,          \* where main() is: the place, the index of its loop,
                            \* and whether it has made the call of that place
    connected_net, connected_mqtt, conn_failures,
    flags,                  \* the flag_... variables that are set
    pin, input_state,       \* the input pins, and what was last read from them
    outputs, sent,          \* the output pins, and the value publish() carries
    subscribed,             \* message_handler() is in the client's table
    announced,              \* announcements the broker received in this session
    shownIn, shownOut       \* what the broker last received of each

main  == <<pc, i, called, connected_net, connected_mqtt, conn_failures>>
io    == <<pin, input_state, outputs, sent>>
world == <<subscribed, announced, shownIn, shownOut>>
vars  == <<clientVars, main, flags, io, world>>

-----------------------------------------------------------------------------
Inputs  == 0..(NumInputs - 1)
Outputs == 0..(NumOutputs - 1)
Levels  == {0, 1}
Unknown == 2

\* The flags; each is also the place where main() serves it.
Flags == {"info", "oled", "inputs", "outputs", "ds1820"}
Places == Flags \cup {"turn", "net", "tcp", "connect", "subscribe", "announce",
                      "read_inputs", "serve", "check", "yield", "tail"}

\* conn_failures goes up to the number that resets it.
MaxFailures == 3

MainTypeOK ==
    /\ pc \in Places /\ i \in Nat /\ called \in BOOLEAN
    /\ connected_net \in BOOLEAN /\ connected_mqtt \in BOOLEAN
    /\ conn_failures \in 0..MaxFailures

IoTypeOK ==
    /\ flags \subseteq Flags
    /\ pin \in [Inputs -> Levels] /\ input_state \in [Inputs -> Levels]
    /\ outputs \in [Outputs -> Levels] /\ sent \in Levels

WorldTypeOK ==
    /\ subscribed \in BOOLEAN
    /\ announced \subseteq 0..(NumAnnouncements - 1)
    /\ shownIn \in [Inputs -> Levels \cup {Unknown}]
    /\ shownOut \in [Outputs -> Levels \cup {Unknown}]

TypeOK == ClientTypeOK /\ MainTypeOK /\ IoTypeOK /\ WorldTypeOK

Init ==
    /\ ClientInit
    /\ pc = "turn" /\ i = 0 /\ called = FALSE
    /\ connected_net = FALSE /\ connected_mqtt = FALSE /\ conn_failures = 0
    /\ flags = {}
    /\ pin \in [Inputs -> Levels] /\ input_state = [n \in Inputs |-> 1]
    /\ outputs = [n \in Outputs |-> 0] /\ sent = 0
    /\ subscribed = FALSE /\ announced = {}
    /\ shownIn = [n \in Inputs |-> Unknown]
    /\ shownOut = [n \in Outputs |-> Unknown]

-----------------------------------------------------------------------------
(* Calling the client.                                                     *)

At(place)   == pc = place /\ ~called
GoTo(place) == pc' = place /\ i' = 0 /\ called' = FALSE

\* main() makes the call of the place it is at; it runs, or fails at once.
Calls(o) ==
    /\ ~called /\ called' = TRUE
    /\ Begin(o) \/ AtOnce(o, "FAILURE")

\* The call of this place has returned rc.
Got(o, rc) == called /\ op = "none" /\ outcome = [op |-> o, rc |-> rc]
Returned(o) == \E rc \in {"SUCCESS", "FAILURE"} : Got(o, rc)

\* The broker's view after a step that sends nothing: a closed session loses
\* its subscription and its count of announcements.
SessionEnds ==
    /\ subscribed' = (subscribed /\ open')
    /\ announced' = IF open' THEN announced ELSE {}
    /\ UNCHANGED <<shownIn, shownOut>>

\* A call of main() returns at once or starts.
MakesCall(o) == Calls(o) /\ SessionEnds

\* publish() calls client.publish() with the value v.
PublishValue(v) ==
    /\ MakesCall("publish")
    /\ sent' = v

-----------------------------------------------------------------------------
(* One turn of the loop: is there a network, is there a broker?            *)

\* The head of the loop
Turn ==
    /\ At("turn")
    /\ connected_mqtt' = (connected_mqtt /\ connected_net)
    /\ GoTo(IF ~connected_net THEN "net"
            ELSE IF ~connected_mqtt THEN "tcp" ELSE "read_inputs")
    /\ UNCHANGED <<clientVars, connected_net, conn_failures, flags, io, world>>

\* networking_init(): DHCP gets an address, or it does not.
NetworkingInit ==
    /\ At("net")
    /\ connected_net' \in BOOLEAN
    /\ GoTo("tail")
    /\ UNCHANGED <<clientVars, connected_mqtt, conn_failures, flags, io, world>>

\* Mutant: a failing connect() is not counted.
InitFails_ForgetsCount(n) ==
    /\ connected_mqtt' = FALSE
    /\ UNCHANGED <<connected_net, conn_failures>>
    /\ GoTo("yield")

\* Mutant: the counter is not reset.
InitFails_NeverResets(n) ==
    /\ connected_mqtt' = FALSE
    /\ connected_net' = (connected_net /\ conn_failures + n <= MaxFailures)
    /\ conn_failures' = conn_failures + n
    /\ GoTo("yield")

\* mqtt_init() returns false, having counted n failures, and main() looks at
\* the counter.
InitFails(n) ==
    /\ connected_mqtt' = FALSE
    /\ IF conn_failures + n > MaxFailures
       THEN connected_net' = FALSE /\ conn_failures' = 0
       ELSE UNCHANGED connected_net /\ conn_failures' = conn_failures + n
    /\ GoTo("yield")

TcpConnects ==
    /\ At("tcp")
    /\ GoTo("connect")
    /\ UNCHANGED <<clientVars, connected_net, connected_mqtt, conn_failures, flags, io, world>>

TcpFails ==
    /\ At("tcp")
    /\ InitFails(1)
    /\ UNCHANGED <<clientVars, flags, io, world>>

\* client.connect() and client.subscribe()
CallsConnect ==
    /\ pc = "connect"
    /\ MakesCall("connect")
    /\ UNCHANGED <<pc, i, connected_net, connected_mqtt, conn_failures, flags, io>>

Connected ==
    /\ pc = "connect"
    /\ \/ /\ Got("connect", "SUCCESS")
          /\ GoTo("subscribe")
          /\ UNCHANGED <<connected_net, connected_mqtt, conn_failures>>
       \/ Got("connect", "FAILURE") /\ InitFails(1)
    /\ UNCHANGED <<clientVars, flags, io, world>>

CallsSubscribe ==
    /\ pc = "subscribe"
    /\ MakesCall("subscribe")
    /\ UNCHANGED <<pc, i, connected_net, connected_mqtt, conn_failures, flags, io>>

\* A failing subscribe() is not counted.
Subscribed ==
    /\ pc = "subscribe"
    /\ \/ /\ Got("subscribe", "SUCCESS")
          /\ GoTo("announce")
          /\ UNCHANGED <<connected_net, connected_mqtt, conn_failures>>
       \/ Got("subscribe", "FAILURE") /\ InitFails(0)
    /\ UNCHANGED <<clientVars, flags, io, world>>

\* The messages of mqtt_init(); their results are ignored.
Announce ==
    /\ pc = "announce" /\ i < NumAnnouncements
    /\ PublishValue(1)
    /\ UNCHANGED <<pc, i, connected_net, connected_mqtt, conn_failures, flags,
                   pin, input_state, outputs>>

\* mqtt_init() returns true.
InitDone ==
    /\ At("announce") /\ i = NumAnnouncements
    /\ connected_mqtt' = TRUE /\ conn_failures' = 0
    /\ GoTo("yield")
    /\ UNCHANGED <<clientVars, connected_net, flags, io, world>>

-----------------------------------------------------------------------------
(* The rest of the turn, when connected.                                   *)

\* read_inputs(): a changed input is remembered and published.
ReadInput ==
    /\ At("read_inputs") /\ i < NumInputs
    /\ input_state' = [input_state EXCEPT ![i] = pin[i]]
    /\ IF pin[i] # input_state[i]
       THEN /\ PublishValue(pin[i])
            /\ UNCHANGED i
       ELSE /\ i' = i + 1
            /\ UNCHANGED <<clientVars, called, sent, world>>
    /\ UNCHANGED <<pc, connected_net, connected_mqtt, conn_failures, flags, pin, outputs>>

InputsRead ==
    /\ At("read_inputs") /\ i = NumInputs
    /\ GoTo("serve")
    /\ UNCHANGED <<clientVars, connected_net, connected_mqtt, conn_failures, flags, io, world>>

\* Flags tested before f in the chain of else-ifs
Before(f) ==
    CASE f = "info"    -> {}
      [] f = "oled"    -> {"info"}
      [] f = "inputs"  -> {"info", "oled"}
      [] f = "outputs" -> {"info", "oled", "inputs"}
      [] f = "ds1820"  -> {"info", "oled", "inputs", "outputs"}

\* The chain: at most one flag is served in a turn.
Serve ==
    /\ At("serve")
    /\ \/ /\ flags = {}
          /\ GoTo("check")
       \/ \E f \in flags : Before(f) \cap flags = {} /\ GoTo(f)
    /\ UNCHANGED <<clientVars, connected_net, connected_mqtt, conn_failures, flags, io, world>>

\* Messages published to serve flag f
Count(f) ==
    CASE f = "info"    -> 1
      [] f = "oled"    -> 0
      [] f = "inputs"  -> NumInputs
      [] f = "outputs" -> NumOutputs
      [] f = "ds1820"  -> NumProbes

\* publish_info(), publish_inputs(), publish_outputs(), read_ds1820()
ServeNext ==
    /\ pc \in Flags /\ i < Count(pc)
    /\ PublishValue(CASE pc = "inputs"  -> input_state[i]
                      [] pc = "outputs" -> outputs[i]
                      [] OTHER          -> 0)
    /\ UNCHANGED <<pc, i, connected_net, connected_mqtt, conn_failures, flags,
                   pin, input_state, outputs>>

\* publish() has returned; nobody looks at its result.
Published ==
    /\ pc \in Flags \cup {"announce", "read_inputs"}
    /\ Returned("publish")
    /\ i' = i + 1 /\ called' = FALSE
    /\ UNCHANGED <<clientVars, pc, connected_net, connected_mqtt, conn_failures,
                   flags, io, world>>

\* The flag is cleared after its loop, whoever raised it again meanwhile; a
\* probe that cannot be read ends the loop of read_ds1820().
Served ==
    /\ pc \in Flags /\ ~called
    /\ i = Count(pc) \/ pc = "ds1820"
    /\ flags' = flags \ {pc}
    /\ GoTo("check")
    /\ UNCHANGED <<clientVars, connected_net, connected_mqtt, conn_failures, io, world>>

\* Mutant: main() goes on trusting its own copy.
CheckConnection_Keeps ==
    /\ At("check")
    /\ GoTo("yield")
    /\ UNCHANGED <<clientVars, connected_net, connected_mqtt, conn_failures, flags, io, world>>

CheckConnection ==
    /\ At("check")
    /\ connected_mqtt' = open
    /\ GoTo("yield")
    /\ UNCHANGED <<clientVars, connected_net, conn_failures, flags, io, world>>

Yields ==
    /\ pc = "yield"
    /\ MakesCall("yield")
    /\ UNCHANGED <<pc, i, connected_net, connected_mqtt, conn_failures, flags, io>>

Yielded ==
    /\ pc = "yield" /\ Returned("yield")
    /\ GoTo("tail")
    /\ UNCHANGED <<clientVars, connected_net, connected_mqtt, conn_failures, flags, io, world>>

\* The display is updated, and main() sleeps.
EndOfTurn ==
    /\ At("tail")
    /\ flags' = flags \ {"oled"}
    /\ GoTo("turn")
    /\ UNCHANGED <<clientVars, connected_net, connected_mqtt, conn_failures, io, world>>

-----------------------------------------------------------------------------
(* The client, message_handler(), the interrupts and the pins.             *)

Dropped ==
    /\ Drop /\ SessionEnds
    /\ UNCHANGED <<main, flags, io>>

\* What the broker has after publish() returned: a success means that it
\* received the message, a failure says nothing.
Delivers(success) ==
    \E arrived \in BOOLEAN :
        /\ success /\ StackIsZero => arrived
        /\ announced' = IF ~open' THEN {}
                        ELSE IF arrived /\ pc = "announce" THEN announced \cup {i}
                        ELSE announced
        /\ shownIn'  = IF arrived /\ pc \in {"read_inputs", "inputs"}
                       THEN [shownIn EXCEPT ![i] = sent] ELSE shownIn
        /\ shownOut' = IF arrived /\ pc = "outputs"
                       THEN [shownOut EXCEPT ![i] = sent] ELSE shownOut

\* The running call returns.  A subscribe() that returns SUCCESS has installed
\* message_handler(), unless the broker refused the subscription.
ClientReturns ==
    /\ Returns
    /\ subscribed' \in IF outcome' = [op |-> "subscribe", rc |-> "SUCCESS"] /\ open'
                       THEN BOOLEAN ELSE {subscribed /\ open'}
    /\ IF op = "publish"
       THEN Delivers(outcome'.rc = "SUCCESS")
       ELSE /\ announced' = IF open' THEN announced ELSE {}
            /\ UNCHANGED <<shownIn, shownOut>>
    /\ UNCHANGED <<main, flags, io>>

\* int8_t output_num = atoi(...)
OutputNumber(n) == ((n + 128) % 256) - 128

\* message_handler(): the command to switch output n to level v
Message(n, v) ==
    /\ op # "none" /\ open /\ subscribed
    /\ IF OutputNumber(n) \in Outputs
       THEN /\ outputs' = [outputs EXCEPT ![OutputNumber(n)] = v]
            /\ flags' = flags \cup {"outputs"}
       ELSE UNCHANGED <<outputs, flags>>
    /\ UNCHANGED <<clientVars, main, pin, input_state, sent, world>>

\* Mutant: the outputs are published only after a message.
Every30Sec_InputsOnly ==
    /\ flags' = flags \cup {"inputs", "ds1820"}
    /\ UNCHANGED <<clientVars, main, io, world>>

Every30Sec ==
    /\ flags' = flags \cup {"inputs", "outputs", "ds1820"}
    /\ UNCHANGED <<clientVars, main, io, world>>

Every15Sec ==
    /\ flags' = flags \cup {"info"}
    /\ UNCHANGED <<clientVars, main, io, world>>

EverySecond ==
    /\ flags' = flags \cup {"oled"}
    /\ UNCHANGED <<clientVars, main, io, world>>

PinMoves ==
    /\ \E n \in Inputs : pin' = [pin EXCEPT ![n] = 1 - pin[n]]
    /\ UNCHANGED <<clientVars, main, flags, input_state, outputs, sent, world>>

-----------------------------------------------------------------------------
Main ==
    \/ Turn \/ NetworkingInit \/ TcpConnects \/ TcpFails
    \/ CallsConnect \/ Connected \/ CallsSubscribe \/ Subscribed
    \/ Announce \/ InitDone \/ ReadInput \/ InputsRead
    \/ Serve \/ ServeNext \/ Published \/ Served
    \/ CheckConnection \/ Yields \/ Yielded \/ EndOfTurn

Interrupts ==
    \/ "30sec" \in Timers /\ Every30Sec
    \/ "15sec" \in Timers /\ Every15Sec
    \/ "1sec"  \in Timers /\ EverySecond

Commands == \E n \in Numbers, v \in Levels : Message(n, v)

Next == Main \/ Dropped \/ ClientReturns \/ Commands \/ Interrupts \/ PinMoves

Spec == Init /\ [][Next]_vars

\* main() never blocks but in the client, whose calls return (ClientFairSpec);
\* the half-minute ticker keeps ticking.
FairSpec ==
    /\ Spec
    /\ WF_vars(Main)
    /\ WF_vars(ClientReturns)
    /\ WF_vars("30sec" \in Timers /\ Every30Sec)

-----------------------------------------------------------------------------
(* Safety.                                                                 *)

\* The network object is connected, and connect() called, only when the client
\* has no session, as the client expects; and a session is never forgotten:
\* main() starts no turn believing it has none while there is one.
SessionViewed ==
    /\ pc \in {"net", "tcp"} \/ At("connect") => ~open
    /\ pc = "turn" /\ open => connected_mqtt /\ connected_net

\* Once mqtt_init() is over, an open session is one in which the broker has
\* received every announcement, although their results are ignored: one that
\* fails ends the session, and the next mqtt_init() repeats them all.
AnnouncedWhileOpen ==
    open /\ pc \notin {"connect", "subscribe", "announce"}
        => announced = 0..(NumAnnouncements - 1)

\* Why both hold, part by part.  A call runs only at its place, after main()
\* made it there; a call that failed has closed the session; without a network,
\* or before it is connected anew, there is no session, and where main() does
\* not ask, it believes in an open one.
CallOf(place) == IF place \in {"connect", "subscribe", "yield"} THEN place ELSE "publish"
CallsTracked ==
    /\ called => pc \in Flags \cup {"connect", "subscribe", "announce", "read_inputs", "yield"}
    /\ op # "none" => called /\ op = CallOf(pc)
    /\ pc = "announce" => i <= NumAnnouncements /\ (called => i < NumAnnouncements)
FailureCloses == op = "none" /\ outcome.rc = "FAILURE" => ~open
SessionKnown ==
    /\ pc \in {"tcp", "connect"} => connected_net
    /\ open => /\ connected_net /\ pc \notin {"net", "tcp"}
               /\ pc = "connect" => called
               /\ pc \in {"yield", "tail", "turn"} => connected_mqtt

\* Of the announcements, those made so far have arrived.
AnnouncedSoFar ==
    open /\ pc = "announce" =>
        /\ 0..(i - 1) \subseteq announced
        /\ called /\ op = "none" => i \in announced

\* What main() believes of the session between its calls is so, and in a session
\* that it announced itself in it has announced everything.
LoopInv ==
    /\ CallsTracked /\ FailureCloses /\ SessionKnown
    /\ StackIsZero => AnnouncedSoFar /\ AnnouncedWhileOpen

-----------------------------------------------------------------------------
(* Liveness.                                                               *)

\* Something outside the program fails: DHCP, the TCP connection, connect(), or
\* a session ends.
Fails ==
    \/ pc = "net" /\ pc' = "tail" /\ ~connected_net'
    \/ pc = "tcp" /\ pc' = "yield"
    \/ pc = "connect" /\ pc' = "yield"
    \/ open /\ ~open'

\* When nothing fails any more, main() gets its session back and knows it,
\* wherever the last failure found it.
Recovers == <>[][~Fails]_vars => <>[](connected_net /\ connected_mqtt /\ open)

\* As long as no session can be had, the network is initialised again and again.
Reinitialises == <>[]~open => []<>(pc = "net")

\* No flag waits for ever behind those tested before it: the tickers leave the
\* loop time for several turns between them.
Unhurried == \A f \in {"inputs", "outputs"} : f \in flags ~> f \notin flags

\* The broker ends up with the outputs as they are, although a command that
\* arrives while they are published has its flag cleared: once the session and
\* the outputs are stable, a later round of the half-minute ticker repairs it.
OutputsReported ==
    Unhurried /\ <>[][~Fails /\ outputs' = outputs]_vars => <>[](shownOut = outputs)

\* The same for the inputs, although a changed input is remembered before its
\* publish is known to have arrived.
InputsReported ==
    Unhurried /\ <>[][~Fails /\ pin' = pin]_vars => <>[](shownIn = pin)

\* Whatever changes while its flag is being served, in or out, reaches the broker.
ChangesReported == OutputsReported /\ InputsReported

=============================================================================
