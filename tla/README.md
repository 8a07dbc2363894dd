# Verification of the MQTT controller firmware

The firmware in this repository is a bare-metal controller (mbed OS 6, STM32
"bluepill") that reads nine inputs and a chain of DS1820 temperature probes,
drives eleven outputs and an OLED display, and talks MQTT to one broker through
a WIZnet W5500 Ethernet chip.  One thread runs `main()`; timer interrupts set
flags for it.  This directory holds TLA+ models of the program, what TLC checks
of them and what TLAPS proves.

`PROJECT.json` is the index: components, runs, the source lines each definition
stands for, the mutated definitions that show that each property can fail, the
disagreements found between code and comments, the hazards, and the theorems.

## Inventory

| Component | State it keeps | Operations | Hard behaviour |
|---|---|---|---|
| MQTT client, `MQTT/MQTTClient.h`, `MQTT/MQTTmbed.h` | `isconnected`, `ping_outstanding`, the handler table, the stored publish, the next packet id, four timers, two packet buffers | `connect`, `subscribe`, `unsubscribe`, `publish`, `yield`, `disconnect`; inside them `waitfor`, `cycle`, `readPacket`, `keepalive` | a call may fail at any step, packets arrive in any order the broker likes, in pieces or too late; a session must end on both sides |
| Packet serialisation, `MQTT/MQTTPacket` | none, but for the resumable reader `MQTTPacket_readnb` | serialise and deserialise one packet, on either side; read one byte by byte | length boundaries, flags that say which fields follow, packets that are too short; a reader that stops anywhere and goes on |
| TCP socket and W5500 driver, `WIZnetInterface/Socket/TCPSocketConnection.cpp`, `Socket.cpp`, `arch/ext/W5500.cpp` | socket number, blocking mode; the registers of the chip | `connect`, `send`, `receive`, `close` and their polling loops | the peer and the chip move between two polls; timeouts, and -1 for "no timeout" |
| DHCP client, `WIZnetInterface/Socket/DHCPClient.cpp` with `UDPSocket.cpp` | transaction id, offered address, retry counter and interval | `setup`, `callback`, `offer`, `verify` | lost, late and duplicated answers, several servers |
| DNS client, `DNSClient.cpp` | query id, state, retry counter | `lookup`, `poll`, `callback` | an answer that races the last timeout |
| Ethernet interface, `EthernetInterface.cpp` | addresses | `init`, `connect` | what a re-initialisation resets |
| Application, `main.cpp` | `connected_net`, `connected_mqtt`, `conn_failures`, five flags, inputs, outputs | the main loop, `mqtt_init`, the publish functions, `message_handler`, four timer interrupts | interrupts and the message callback change flags while the loop works on them; reconnecting |
| DS1820 probes, `DS1820` | the probe list, the search state on the 1-Wire bus, a copy of each probe's scratchpad | `unassignedProbe`, `search_ROM_routine`, `convertTemperature`, `setResolution`, `temperature` | the search must visit every device once while devices come and go; the copy goes stale when a probe loses its power |
| OLED display, `OLED_SSD1306/OLEDDisplay.cpp`, `SSD1306I2C.h` | the buffer, the copy of what was sent, the text log | drawing, `display`, `write`, `init`, settings | clipping, pages of eight rows, the difference update, a log that is full of lines or of characters |
| OLED user interface, `OLEDDisplayUi.cpp` | frames, transition, directions, indicator | `update`, `nextFrame`, `previousFrame`, `switchToFrame`, `transitionToFrame`, settings | calls in the middle of a transition |
| Rotary encoder, `mRotaryEncoder-os` | debounce counters, position | tickers that sample three pins, `Set`, callbacks | bouncing contacts sampled by tickers of their own |

How they interact: `main()` calls the client, which calls the TCP socket through
`MQTTNetwork.h`, which polls the chip over SPI.  The client calls back into
`message_handler()` while it reads.  Interrupts only share the flags, the clock
and the two `connected_` variables with `main()`.  `main()` makes an object for
each probe before its loop and reads the first ones in it, and draws on the
display; the user interface, the encoder and the DNS client are there for other
programs.  Left out for good: the asynchronous client (`MQTTAsync.h`, not
compiled), the driver of the other chip (`arch/int`), the TCP server, the fonts,
logging and the function pointer wrapper.

What makes each component correct:

* client: it agrees with its broker on whether there is a session and on the
  subscriptions; a successful QoS 1 publish was received; a stored publish is
  not lost; every call returns; a dead broker is noticed;
* socket: a call ends by its timeout; bytes are neither lost nor reordered;
* DHCP: `setup()` succeeds only with an address the server acknowledged for this
  transaction, and it ends;
* application: the loop's picture of the connection matches the client's at the
  points where it decides on it; a change that was flagged is published; the
  loop never stops;
* packets: what one side writes, the other reads; no more is written than the
  buffer holds; a reader fed in pieces stays in step with the stream; a filter
  matches what MQTT says it does;
* DNS: a lookup that succeeds has the address of its name, and it ends;
* probes: a search that finds nothing has missed no device, no device has two
  objects, and a temperature is not older than the conversion it was read after;
* display: what is drawn is where it should be and nowhere else, the panel shows
  what was drawn, the log has the last lines; a transition lands where it was
  sent;
* encoder: the position counts every turn once, a press is reported.

## Plan

In this order, the most important behaviour first:

1. `MQTTClient` with its broker and network, its type correctness and the
   agreement of client and broker proved (done);
2. `ClientContract`, what the application may rely on, with `MQTTClient` shown to
   implement it (checked and proved), and `Controller`, `main.cpp` over that
   contract (checked, its safety proved) (done);
3. `W5500` and `TCPSocket`: connect, send and receive against the chip's
   registers; `DHCPClient` with servers and a network that loses, repeats and
   delays; `Network`, which composes the two users of the chip (checked, its
   safety proved) (done);
4. the messages: `PacketLength`, `Packet` and `Exchange`, `PacketReader` (lengths,
   what arrives and the reader proved), `TopicFilter` (proved), `DNSMessage` and
   `DNSClient` (the lookup proved) (done);
5. the devices: `OneWire`, `DS1820`, `Encoder`, `Drawing` and `Display`, `DisplayUi`
   (done; their safety proved).

Left of the plan: one model of the client's timers
and the socket's loop, for the hazard at `MQTTmbed.h:40`.

## The MQTT client

### The model

`MQTTClient.tla` models the client as this firmware builds it (QoS 1, no QoS 2)
with a broker and the TCP connection between them.

* One public call runs at a time: `call` holds its name, its topic and its
  packet id.  A call sends its packet (`Connect`, `Subscribe`, `Publish`, ...),
  then goes round the loop of `waitfor()` or `yield()` in three phases, between
  which everything else may move: `loop` (the loop's condition, and what the
  call does after the loop: `ConnectDone`, `SubscribeDone`, ...), `read`
  (`cycle()` in `readPacket()`: `ReadAck`, `ReadPublish`, ...), `keepalive`.
* `rc` is what the last cycle returned, with readPacket()'s 1 for a packet cut
  short written as the packet type it means, `CONNECT`.
* `closeSession()` is `CloseSession`; every failure goes through `CycleFails` or
  `RequestFails`, as in the code.
* Timers count down in ticks; `Tick` may happen at any point.
* A packet is a record of type, packet id and one argument (a topic, or the
  return code of a CONNACK or SUBACK).
* With `SplitReads` a read may lose bytes.  Either it fails (`ReadPartial`), or the
  length is taken for 0, or too small, and the packet is handed on with the type of
  its header and contents that may be anything (`MadeOf`, `Consume`); the packet id
  is then undefined (`ReadbufIds`).  What was not read stays in the stream as a rest
  (`Leftover`, `Swallow`): `JUNK`, or `ZEROS` where none of its bytes has a type in
  its upper half.  `readPacket()` knows nothing of packet boundaries: the first byte
  of a rest is a header of any type, a PUBACK too (`Garbage`), and what is read on
  from there may end in a later packet.  A PUBLISH too long for `readbuf` leaves a
  rest even where packets come in one piece (`ReadOversized`).
* `cut` is a history variable: a packet of this connection has been cut short.
* `link` is the connection: `fresh` after the network object was connected and
  before CONNECT is sent, `up`, `stalled` (the broker hangs, its TCP still
  takes data) or `down`.  The broker (`Broker...`) answers in order, may refuse
  a connection or a subscription, and delivers messages of either QoS at any time.
* `received` is the set of packet ids the broker has received since the id was
  last used, a history variable of the properties only.

The application calls in any order, with the one restriction `mqtt_init()`
keeps: the network object is connected right before `connect()`, and only for a
client that is not connected.

### The contract

`ClientContract.tla` is the client as `main.cpp` sees it: `open` is
`isConnected()`, `op` the call that runs, `outcome` what the last one returned.
It promises five things.  A session opens only when `connect()` returns SUCCESS.
A call that returns FAILURE leaves no session (`AfterCall`); `subscribe()` and
`unsubscribe()` may return SUCCESS without one.  Only `connect()` is called
without a session or fails then at once.  A session ends at any time while a
call runs, and never between calls (`Drop`).  Under `ClientFairSpec` a call
returns.

`MQTTClientRefinement.tla` maps the client's state to it; a resend of the stored
publish counts as a part of `connect()`.  `ContractInv` says why the mapping is a
refinement: a phase is running exactly when a call is, a client that connects has
no session, and a cycle that returned FAILURE has closed it.

### What is checked

`MCMQTTClient.tla` holds the model values; each run is a `.cfg`.

| Run | What it shows |
|---|---|
| `client_safety` | every call that waits, keepalive on, the same packet id again and again: `SessionAgreement`, `SubscriptionAgreement` and `ClientInv`: `NoOrphanSubscription`, `PublishAcknowledged`, `YieldFailureCloses` and `ReadFailureCloses`, with `SessionInv` and `AnswersInv`, the reasons why they hold |
| `client_split` | packets in pieces, and rests read as packets of any type: `ClientInv` (session, subscriptions and acknowledgements agree until a packet has been cut, and again from the next connection on; a read that fails ends the session, whatever its rest is taken for), and the client implements `ClientContract` (`ImplementsContract`) |
| `client_durable` | `cleansession` off, ids that wrap (`TypeOK`), `publish()` with both QoS and `disconnect()`: `InflightKept`, and `ClientInv`: the resend in `connect()` cannot open a session the broker refused |
| `client_live` | `SilenceDetected`, and the contract with its promise that every call returns (`ImplementsFairContract`); with two filters and one slot, a subscription too many ends the session instead of leaving the broker with it (`SubscriptionAgreement`) |
| `client_shortack` | a CONNACK of which only the first byte arrives in time counts as an accepted connection (`findings`) |

Five more things the model reproduces and no run reports: `readPacket()` returns
1, which is the packet type CONNECT, for a packet cut short; a subscription the
broker refuses returns SUCCESS without a handler; while `connect()` resends the
stored publish it overwrites its own result with the resend's; `cycle()` has no
case for UNSUBACK, so `unsubscribe()` ends the session whenever it is answered;
and a message that arrives before the SUBACK of its subscription finds no handler
and is acknowledged all the same.

Once a packet has been cut, nothing that the client reads on this connection can be
relied on.  `publish()` goes on waiting after a read that failed, since 1 is not
negative, and may take a byte 0x40 of the rest for its PUBACK: it returns SUCCESS for
a message that the broker never received (`MQTTClient.h:164` promises otherwise).  The
session is over by then, so `ReadFailureCloses` and the contract hold, and the next
`isConnected()` tells the application.  But a packet may also be cut without a failing
read, when only its header or a part of its length arrives: the session stays open and
the rest is read as if it were packets.  That is why `ClientInv` asks for `~cut` where
it speaks of answers; without that, `PublishAcknowledged` fails in `client_split`.

Bounds.  Two packets in each direction let an answer and a message cross, or
two answers queue up; one topic is enough for agreement, two with one slot for a
full table.  Packet ids wrap at 3 in `client_durable`.  In `client_safety` and
`client_split` there is one, used in every request: an answer to an earlier request
could not be told from that to the running one, and `received` shows a mistake all the
same, as `publish()` takes its id out of it.  A keepalive of one tick and timeouts of
one tick make every timer expire before, with and after every other event.
Deadlock is checked in every run: the program never
stops.

Fairness.  `FairSpec` gives weak fairness to the steps of a running call (the
program is the only thread, and every read has a timeout) and to the clock, and
strong fairness to `Yield`: `main()` calls `yield()` in every turn of its loop,
whatever other calls come between.  Nothing is assumed of the broker or the
network.  In the liveness run keepalive is two ticks, longer than a call.  "Every
read has a timeout" leaves out one case: a timer that expired exactly one
millisecond before `left_ms()` is asked gives the read -1, no limit (`MQTTmbed.h:40`).

### What is proved

`MQTTClientProofs.tla`: `TypeCorrect`, type correctness, for every value of the
constants that `ClientAssumption` admits.

`MQTTClientProofs.tla`: `SessionInvariant` and `SessionAgreed`.
`SessionAgreement` is not inductive: `ConnectDone` opens the client's session
because of a packet it read, so the proof has to know where that packet came
from.  `SessionInv` adds that a fresh connection carries nothing (`FreshIsEmpty`),
a call that returned left nothing behind (`IdleIsClean`) and one that runs has
neither a result nor, in a read, an answer yet (`RunIsClean`); and, until a packet is
cut, that what was read as a proof of a session is of the type `rc` says
(`ReadbufMatches`) and was sent by a broker that had opened one on this connection
(`ProofsAreGenuine`), that the first packet `connect()` reads is the CONNACK
(`Greeted`), and that no DISCONNECT is under way while the client is connected or
connecting (`NotLeaving`), so that the session is still open.  The proof has two
parts.  `EndsInv` holds always and says how calls end; `Parts`, the rest, holds as
long as nothing was cut, and a step that cuts nothing finds no rest in the stream
(`NoRests`), so that what it reads is what was sent
(`ReadsWhole`).  `SessionAgreed`, without the condition, needs `~SplitReads`: there
only a packet too long for `readbuf` is cut, and `CutIsClosed` says that this ends the
session and that the call which runs reads nothing more.  With `SplitReads` the run
`client_shortack` shows the agreement broken by a short CONNACK.

`MQTTClientProofs.tla`: `ContractImplemented`, that the client implements
its contract.  `StepShape` sorts the steps into those that begin a call, those
that end one, those inside a call that keep or close the session, and those that
touch nothing the contract sees; each shape preserves `ContractInv` and maps to a
step of the contract or to a stutter.

In the same module, `AnswersInvariant`, and with it `SubscriptionsAgree`,
`InflightIsKept` and `ClientInvariant`, which is all of `ClientInv` (the lemmas
`NoOrphans` and `PublishesAcknowledged` have its parts).  The client takes the next PUBACK or SUBACK for the answer to what it
asked and compares no id.  That is right because of `Exchange`: while the client is
connected or connecting, at most one QoS 1 PUBLISH or its PUBACK is under way, and
none but that of the running call (the same for SUBSCRIBE and UNSUBSCRIBE).  It needs what happens
elsewhere: a call that gives up closes the session (`SessionsEnd`), and a new
connection carries nothing (`FreshIsEmpty`).  `PublishTracked` and `SubscribeTracked`
then say what the one answer shows, and `InflightKnown` what is in `pubbuf`.  `From`
is the relation the proofs rest on: what a stream has of a type after a step it had
before, in one piece; `Quiet` carries the steps for which that is so in both
streams, one lemma each the steps that ask, answer or return.

`SubscriptionAgreement` needs the other direction as well, no handler without a
subscription: `HandlersHeld`.  Without a session there is no handler, and a
`subscribe()` that lost its session is about to fail (`ClosedHasNone`), because the
only packet that ends a session without an error is an UNSUBACK, and `Exchange` says
that none is under way; the rest of a packet too long for `readbuf` stays only in the
stream of a session that has ended (`CutIsClosed`); and a handler is installed
only for what was granted (`HandlersGranted`), which nothing but a running
`unsubscribe()` takes back.

`AnswersInvariant` and `ClientInvariant` hold for split packets too, with what they say
of the exchange of packets restricted to connections of which none has been cut so
far; a new connection starts over, whatever the last one left (`FreshIsEmpty`).
`SubscriptionsAgree` and `InflightIsKept` assume `~SplitReads`: a SUBACK cut short counts
as granted, and the id of a PUBACK cut short is whatever the stack held.

`ImplementsFairContract` and `SilenceDetected` are only model-checked.

## The application

### The model

`Controller.tla` is `main()` over `ClientContract`, whose three variables and
actions it uses directly.

* `pc` is the place `main()` is at: `turn` is the head of the loop, `net` is
  `networking_init()`, `tcp`, `connect`, `subscribe` and `announce` are the parts of
  `mqtt_init()`, `read_inputs` and `serve` the connected turn, the five flags the
  loops that serve them, `check` the copy of `isConnected()`, `yield` and `tail` the
  end of the turn.  `i` is the index of the loop at that place and `called` says
  that its call has been made.
* A call of the client is three steps: `main()` makes it (`MakesCall`), the client
  returns (`ClientReturns`), `main()` looks at the result (`Connected`,
  `Published`, ...).  In between the client may lose its session (`Dropped`) and
  run the callback (`Message`).
* Interrupts (`Every30Sec`, `Every15Sec`, `EverySecond`) raise flags, and pins move,
  between any two steps.  The model checker may leave a ticker out (`Timers`).
* A failing `mqtt_init()` is `InitFails(n)`, n being what it adds to
  `conn_failures`: 1 for the TCP connection and `connect()`, 0 for `subscribe()`.
* `Message(n, v)` is `message_handler()` for the command "output n"; the number
  passes through an 8-bit integer (`OutputNumber`).
* The broker's side is `subscribed`, `announced`, `shownIn` and `shownOut`.  A
  publish that succeeded arrived, one that failed may have.  `publish()` builds its
  topic in a buffer it never initialises: with `StackIsZero` the buffer happens to
  be empty, without it any message may go somewhere else (`Delivers`).

`publish()` of the client refuses a message that does not fit its buffer
(`Refuse` of the contract); the firmware's messages fit, so `main()` meets only the
failure for want of a session.  A turn reads at least one probe: without probes
`read_ds1820()` dereferences a null pointer, which `NumProbes > 0` excludes.

### What is checked

| Run | What it shows |
|---|---|
| `controller_session` | `SessionViewed`: `main()` neither connects over an open session nor starts a turn unaware of one; `LoopInv`, the invariant of the proofs, and in it `AnnouncedWhileOpen`: the ignored results of the announcements do no harm, because one that fails ends the session; `Recovers`: after the last failure the session is had and known; `Reinitialises`: without one the network is set up again and again |
| `controller_reports` | `ChangesReported`, of outputs and inputs: a flag cleared after its loop may swallow a change, and a changed input is remembered before its publish succeeded, yet the broker ends up with the true levels |
| `controller_announce` | without `StackIsZero` an announcement may be published with success and not be at its topic (`findings`) |

Bounds.  One input, output and probe: the loops over them are the same code for
each, and the order among flags is that of five loops.  Two announcements
distinguish the first from the last.  A command names output 0 or one that does
not exist; 256 becomes 0 in 8 bits.  `conn_failures` runs through its whole range.

Fairness.  `FairSpec` has weak fairness of `main()`, which never blocks outside the
client, of `ClientReturns`, which `ClientFairSpec` promises and `client_live`
checks, and of the half-minute ticker.  `Recovers` and the two reports assume that
from some point nothing outside fails; the reports assume `Unhurried`, that a
flag is served before the next ones tested ahead of it are raised for ever, which
tickers of 1, 15 and 30 seconds leave a loop of about 0.1 seconds.

### What is proved

`ControllerProofs.tla`, for every number of inputs, outputs, probes and
announcements: `LoopTypes`, `SessionIsViewed` and, if `StackIsZero`,
`AnnouncedIfZero`.  They follow from `LoopInvariant`, which says where a call may
run (`CallsTracked`), that a call that failed left no session (`FailureCloses`),
where `main()` may be while there is a session and when it must believe in it
(`SessionKnown`), and which announcements have arrived while they are being
made (`AnnouncedSoFar`).  `SessionViewed` alone is not inductive: that `turn` finds
`connected_mqtt` right goes back to `check` and to the end of `mqtt_init()`, three
places earlier.  The liveness properties are model-checked only.

## The network

### The model

The chip has two users: the TCP socket of the broker, one object for the life of
the program, and the UDP socket that `DHCPClient::setup()` makes and deletes.
`main()` sets the network up again when connecting failed too often, so the two
take turns at the same sockets of the chip.

* `W5500.tla` is the chip (a status and a receive buffer for each socket, its own
  address `SIPR`) and what of its driver both users need: `NewSocket`, `Closes`, the
  test of the wait loops (`Expired`).  `call` is the call that polls the chip and
  `elapsed` the timer of its loop.  The status moves by `Answered`, `Finished`
  and `Broken`.
* `TCPSocket.tla` is `TCPSocketConnection`: `Connect` opens the socket and starts to
  poll, `ConnectSucceeds` and `ConnectTimesOut` end it; `Read` and `Write` refuse a
  socket that is not connected, then poll for bytes (`ReadGets`, `ReadTimesOut`) or
  for room (`WriteReady`, `WriteTimesOut`) before the driver's `send()` waits for
  the chip (`Sent`, `SendBroken`).  `Limit` is the time they wait, -1 in blocking
  mode.
* `DHCPClient.tla` is `setup()` with its loop (`seq`: `discover`, `receive`, `check`)
  and what `EthernetInterface::connect()` makes of the result (`Finish`).
  `Receive` takes a datagram: `Verify`, then what `offer()` keeps of it and what
  `callback()` does for its type (`Takes`).  `ReceiveTooLong` is the datagram that
  does not fit: its header is read and its rest stays, and from then on the buffer
  is read from somewhere in the middle (`ReceiveNoise`), until a read happens to
  end where the buffer does.  What is read as such noise is taken not to carry the
  current transaction id.
* `wire` is the set of all DHCP messages ever sent, and `Delivers` puts any of them
  into the buffer at any time: datagrams are lost, repeated, late and reordered.
  Each server offers addresses of its own pool and confirms or refuses a REQUEST.
* `Network.tla` composes them.  The application sets the network up when it has
  none, connects when it has one, and reads and writes at any time.

Two reductions keep the model small; neither hides an order the program could
tell apart.  What nobody looks at is left for later: TCP statuses move outside of
a setup, bytes arrive when a read waits for them, and servers speak while
`receiveFrom()` waits.  A server answers only the present transaction id, since
a late answer to an older one is one given in time and delayed.

The transaction id is `time() + rand()` in the code and a fresh number in the
model: that two successive ids differ is an assumption.

### What is checked

| Run | What it shows |
|---|---|
| `network` | `SocketsOwned`: no socket has two users and none is lost; `AddressAcked`: the chip's address was acknowledged in the exchange of the last DISCOVER; `NetInv`, the invariant of the proofs; `CallsEnd`: a call ends, but a wait that was asked to have no limit |
| `network_late` | a connection that is answered after the first `connect()` gave up leaves the socket in blocking mode, and a read given a time limit waits for ever (`findings`) |

Bounds.  Two sockets are one for each user; two servers, each with an address of
its own, are rivals in one exchange; two transaction ids let an answer of
one setup arrive in the next.  With `MaxRetries` 1 a setup makes one exchange, as in
the firmware, whose 2000 ms of timeout are the interval too; more retries are
left to the proofs.  A buffer holds one datagram or byte: a second one would
wait on the wire.  Timeouts of 0 ticks and an interval of 1 expire before, with and
after everything else.

Fairness.  `FairSpec` is weakly fair to the program, which has one thread, to the
clock, and to `SendEnds`: the chip sends what it was given or gives the connection
up after its retransmissions, as its data sheet promises.  Nothing is assumed of
peers, servers and datagrams.

Observed, and in the model, but against no text of the repository: an ACK that is
read in the last pass before the interval ends makes `setup()` fail although
the lease was granted, the lease time is ignored, and a timer that
expired one millisecond ago has -1 ms left, which a read takes for no limit.

### What is proved

`NetworkProofs.tla`: `NetworkTypes`, `SocketsAreOwned` and `AddressIsAcked`, for
every number of sockets (two at least), servers, addresses, retries, ids and
buffer slots.  They follow from `NetworkInvariant`.  `NetInv` has three parts.  `RetryInv` counts
transaction ids against retries, which bounds them.  `SocketsInv` says which
sockets may be open during and outside a setup; `SocketFree` turns that into a
socket for the next caller.  `LeaseInv` follows an ACK from the
wire through the buffer to `yiaddr` and `SIPR`: `AddressAcked` is not inductive,
since the address is taken over two steps after the ACK was read, and only
because `exit_flag` without `err` means that the last message taken was an ACK of
this exchange.  `CallsEnd` is model-checked only.

## The messages

### The model

`MCMessages.tla` puts four parts side by side that share no state; `subject` says
which of them moves in a behaviour.

* `PacketLength.tla` is the length field: `encode`, `decode` and `MQTTPacket_len`,
  which sizes a packet before it is written.
* `Bytes.tla` is what several of them need: pieces written one after the other
  (`Firsts`, `Concat`), and sums (`Total`).
* `Packet.tla` is the packet library as functions: a packet is its header, the
  digits of its length and its fields.  Each serialiser (`MQTTSerialize_connect`,
  `_publish`, `_subscribe`, ...) gives what it returns and what it wrote
  (`Refused`, `Written`), its length worked out by the code's own function
  (`connectLength`, `publishLength`, ...); each deserialiser reads fields back by
  the flags and lengths it finds.  Both halves, client's and server's, are there.
  Strings are model values with a length.
* `Exchange.tla` sends one packet through a buffer of every size around its own.
* `PacketReader.tla` is `MQTTPacket_readnb()`.  A step is one call of the
  transport's `getfn()` that returns something (`HeaderByte`, `LengthByte`,
  `RestBytes`) or fails (`Disconnected`), with what the reader does until the next.
  `state`, `len`, `rem_len` and `multiplier` are the fields of `MQTTTransport`.
* `TopicFilter.tla` is `isTopicMatched()`, character by character, and
  `deliverMessage()` for one handler.
* `DNSMessage.tla` encodes a query and decodes an answer in bytes; `DNSClient.tla`
  is `lookup()`, whose turns call `poll()` and `callback()`.  Servers answer any
  query ever sent, late, repeatedly or never; `rand()` may draw an id or a port
  again.

### What is checked

The run `messages` checks all of it.

| Property | What it says of the code |
|---|---|
| `LengthsRight`: `LengthsAgree`, `NoOverrun` | the length that is sent is that of the fields that are written, and the client's serialisers never write past the buffer |
| `PacketsArrive`: `PublishArrives`, `OthersArrive`, `ConnectArrives` | the other half of the library reads what was given |
| `ReaderInv`: `ReaderInStep`, `ReaderKnows`, `ReaderFits`; `ReaderEnds`: `FailsForCause`, `ReaderFinishes` | in whatever pieces the bytes come, packets are returned whole and in order, never past the buffer, and the reader gives up only for a length or a size it cannot take |
| `MatchAgrees`: `MatchIsRight`, `MatchIsComplete` | a handler is called for messages its filter covers and, but for empty levels and a `#` that stands for no level, for all of them |
| `LookupInv`: `AddressIsRight`, `AnswerDecides`, `LookupIsShort`; `LookupEnds` | a lookup has its own name's address however late other answers come, the answer taken last decides even in the turn in which `poll()` gave up, and it ends in the time of two queries |

Bounds.  Payloads lie at every point where the length gets a digit more.  Buffers
are from two bytes too small to one too large.  Streams have up to two packets,
with lengths of one and two digits, one written with more digits than it needs, one
that just exceeds the buffer and one with five digits.  Filters have up to five
characters and topics up to five, enough for three levels and every neighbour of
a wildcard.  Two names, two ids and one port make coincidences happen; two lookups
let an answer of the first arrive in the second.

Fairness: bytes keep coming for a reader that waits for them, and the lookup and
its timers run; nothing is assumed of the server.

### What is proved

`MessagesProofs.tla`: the length field, the serialisers, the deserialisers, the reader.

*The length field.*  `LengthSurvives`: `decode` returns what `encode` was given,
for each of the 268435456 lengths.  `LengthBound`: `MQTTPacket_len()` is the true size
or one more, which is why `NoOverrun` allows a byte to spare.  The proof splits a
length by its number of digits.

*The serialisers.*  `LengthsAreRight`: `LengthsRight` holds of every request of the
nine kinds, with any strings, lists of filters and return codes as long as one likes, and a
buffer of any size.  `RequestTypes` says what a request may be; the one restriction
(`ExchangeAssumption`) is that its length is at most `MaxLength`, the limit of MQTT,
which `MQTTPacket_encode()` does not check, and that SUBSCRIBE has a QoS for each
filter, which is one `count` in the code.  The invariant, `ExchIInv`, only says that
the result is that of the arguments; the substance is `RequestsRight`, of one
request: what is summed up before writing is what the writing adds up to.  For a
CONNECT that is a case for each optional field (`ConnectSize`), for the lists an
induction on their length (`SizeOfPieces`, `TotalOfOnes`).

*The deserialisers.*  `PacketsAreRead`: `PacketsArrive` holds of the same requests, with
the same freedom: what was written comes back field by field from the other half of the
library, and the only packets refused are CONNECTs of version 3, those with a
password and no user name, and those that end in an empty one of the two.  The
invariant, `ArriveIInv`, adds to `ExchIInv` that what was received, if anything, was
made from what was written; the substance is `WhatIsRead`, a lemma for each packet.
`LeftIs` is what they share: before each field is left what it and all after it take,
and after the last nothing, which rests on `LengthsAreRight`.  So no check of `enddata`
fails for a field that was written (`TextReadable`), the loops over lists stop right after
the last field (`RestIs`), and a payload's length is what is left.  `ConnectLayout` says where
the optional fields of a CONNECT lie, and `LastLeft` decides between the CONNECTs that are
accepted and those refused.  `StringAssumption` has the empty string as the only
one of length 0: a string with data and no length is written like none, and arrives
empty.

*The reader.*  `ReaderKeepsStep`: `ReaderInv` holds for any stream of packets, in any
portions, and a buffer of any size.  `ReaderFailsForCause` is `FailsForCause`.
`ReaderInStep` says what has been returned and where in the stream the reader is, but
only between packets and in the rest of one; it is not inductive, since the length of
what is left is worked out digit by digit.  `ReaderKnows` fills the gap: with `len`
digits read, `multiplier` is 128 to that power and `rem_len` what these digits are
worth.  `WorthSoFar` is the step from one digit to the next, `NextPacket` finds the
byte at `at` in the packet that is read.  `ReaderAssumption` is about what arrives:
only the last digit of a length is below 128, and a length of up to four digits is
that of the rest.  The digits need not be those `encode` writes, and there may be
more than four.

All three rest on lemmas about `Firsts` and `Sums`.  These are recursive functions, so
that their equations (`FirstsEquation`, `SumsEquation`) have to be proved before they
can be used; `Induction`, from the library's theorem that `<` is well-founded
on the naturals, is how.

`DNSProofs.tla`: `LookupIsRight`, that `LookupInv` holds for any names, any answers
and any times.

*The answer.*  `ResponseIs`: given an answer with as many records of the three types as
a byte can count, each with its name in full or as a pointer, `response()` returns the
server's code, and the name's address if there is an A record.  `NameIsRead` is an
induction over the labels of a name: wherever it lies in a message, decoding ends right
after it.  `AnswerIsRead` is the step over one record, `RecordsAreRead` the induction
over them, in which `Firsts` says where each record begins.  `DecodeEquation` and
`ReadEquation` are the equations of the two recursive functions.

*The lookup.*  `LookupInv` speaks of what `lookup()` returns and is not inductive.
`LookupIInv` adds where the answers come from: of the queries that may still be
answered, those with the id and port in use are for the name that is looked up unless
`rand()` repeated itself (`Asked`), and what is at the socket answers such a query or
has another id (`Arrived`), since `resolve()` opens the socket anew.  `Turning` says
what holds in each turn of the loop; `Timed` splits the time since the call into that
of the query given up and of the current one, which bounds the whole.  `AnswersKeep` and
`CallbackKeeps` have most of the work: the first because answers to old queries arrive
at any time, the second because it rests on `ResponseIs`.

`DNSAssumption` says what is looked up and answered: labels of 1 to 63 bytes, a query
that fits its buffer, an answer that fits the 512 bytes of `callback()` and whose names
are those of `DNSMessage`.

`TopicProofs.tla`: `HandlersMatch`, that `MatchAgrees` holds for filters and topics
of any length.  The walk of `isTopicMatched()` and `Levels` are both recursive
functions from the end of the text: `Downwards` is induction in that direction,
`Descent` says that a function defined so exists, and `WalkIs` and `LevelsAre` give
the equations.  `WalkCovers` is one step of the walk: where a character of the filter
agrees with the topic, what is left of the filter covers what is left of the topic just
if it did before, since both go on in the same level or both begin one, and
a `+` takes its level to the end (`LevelTaken`).  `WalkIsRight` and `WalkIsComplete` are the
inductions over the filter; `CoversFirst` and `WalkAgrees`, for the second, say
that the walk cannot stop while the rest is covered, and that is where an empty level
would do harm.  `CoversItself` stands for the comparison of the two names in
`deliverMessage()`.  `TopicAssumption` says that filters and topics are not empty and
that `+` and `#` have a level of their own, `#` the last, as MQTT requires of the
application: `subscribe()` does not check it.

Model-checked only, being liveness: `ReaderFinishes` and `LookupEnds`.

### Observed

In the model, and against no property that is checked: `MQTTPacket_len()` tests the
length before it adds the header, hence the byte more.  The server's CONNECT reader
compares the name of a version 3 protocol with "MQIdsp", which no client sends; it
refuses an empty last user name or password, and a password without a user name,
which the client's half sends.  A SUBACK with more codes than there is room for
stores one too many.  The checks of CONNACK, SUBACK and UNSUBACK against the buffer
leave out the header.  `writeMQTTString()` prefers the one form of a string and
`MQTTstrlen()` the other.  After a failure the reader starts anew in the middle of
the stream.  A DNS answer without an address record counts as success with the
address unset, an empty label ends a host name, and `rand()` is not seeded.

## The devices

### The model

`MCDevices.tla` does the same for what hangs on the board; `focus` says which
device moves.

* `OneWire.tla` is the search of `DS1820.cpp`, bit by bit (`ResetBus`, `ReadBit`,
  `CompareROM`), the list of probe objects it consults, and the loop of `main()`
  that makes them (`stage`: asking, constructing, running).  The bus is a wired
  AND of the devices that still listen.  Devices come and go, a read may be
  disturbed into any two bits, and objects are deleted; `quiet` is a history variable: none of this
  has happened since `main()` last asked.
* `DS1820.tla` is conversion and resolution: `RAM` is the object's copy of the
  resolution, `config` what the device really has.  `converted` says whose
  conversion is over when the returned time has passed.
* `Encoder.tla` is the knob: `isr` is the debounced pin, `SampleA` and `SampleSW`
  its use for the shaft and for the button.  Time is counted in samples; a contact
  that has moved may read as anything for `Bounce` of them.
* `Drawing.tla` says which pixels each operation of `OLEDDisplay.cpp` sets, as a
  sequence of strokes, and how text is measured, placed and wrapped.
  `Display.tla` has the buffer, the copy of what was sent last (`buffer_back`), the
  panel and the text log.  I2C transfers may fail unnoticed and the panel may lose
  its power.  It is then off and stays so (`ready`): only `init()` sends the commands
  that switch it on and set how its memory is addressed.  `resetDisplay()` clears the
  buffer and sends all of it, which mends what a failed transfer left but not a panel
  without its commands.
* `DisplayUi.tla` is `OLEDDisplayUi`: `update` is one `tick()` with the frames it
  draws and the indicator, and the calls come at any time.

### What is checked

The run `devices` checks all of it.

| Property | What it says of the code |
|---|---|
| `WireInv`, the invariant of the proofs: `SearchFinds`, `EveryDeviceFound`, `ProbesDistinct`; `SearchEnds` | a search that finds nothing has missed no device; `main()` ends its loop with an object for each, or with its array full; no device has two objects; a search ends |
| `ReadingsHold`: `NoStaleReading`, `InStep` | a temperature read after the time `convertTemperature()` returned is that of the conversion, for objects that have exchanged the scratchpad since their device had power; a device that loses its power between the conversion and the read is exempt (`trusted`) |
| `KnobInv`: `PositionFollows`, `HeldIsHeld`; `PressReported` | every turn is counted once in its direction, a hold is reported only for a level that did not break, and a press for good is reported |
| `ShapesRight`: `StraightLines`, `SlopingLines`, `RoundShapes`, `Images`, `Wrapping` | shapes, images and wrapped text against their geometry, inside the screen, across each edge and outside |
| `PanelInv`; `LogRight`: `LogIsRecent`, `LogDrawn` | the difference update leaves nothing old on a panel that had its power since `init()`, if no transfer has failed since the display was reset; the log holds the last characters and is drawn in full |
| `TransitionsLand`: `TransitionLands`, `TransitionEnds`; `FramesInv`: `DirectionReturns`, `IndicatorRight` | a transition ends at the frame it was for, the automatic direction comes back, the indicator marks the right frame |

Bounds.  Codes of three bits with a branch at each place, four of them, and an
array of two: the search has to go back over several branches and the loop meets
its limit.  One DS18B20 and one probe of another family.  The screen is 8 by 16,
two pages, which is what the page arithmetic tells apart.  Four frames, two of them
without an indicator, and two ticks to each phase.  The debounce counts are those
of the code for the assert and three for the hold; a shaft rests long enough for
its contact (`Settle`), which is what the first of the observations below asks for.

Fairness: the search, the sampling of the button and `update()` go on.

### What is proved

`DevicesProofs.tla`, for ROM codes of any length, any set of devices and any size
of the array: `WireTypes`, `SearchIsComplete`, `DevicesFound`, `ObjectsDistinct` and
`SearchInvariant`, on which they rest.  `SearchFinds` alone says nothing about a
search under way.  `SearchInv` adds what a pass relies on while the bus is quiet.
Between passes (`BranchInv`), the last branch leads to a device, and every device
without an object lies behind that branch or an earlier one.  In a pass (`PassInv`),
the devices that listen are those that agree with the bits found so far, at least
one does, and a device without an object listens still or lies behind a branch that
is marked or yet to come.  `PassStep` is the heart of it: a bit taken keeps this,
since a branch is marked exactly when devices with the other bit drop out.
`PassComplete` turns the end of a pass into a code that is on the bus: a code with
a wrong checksum, or a pass in which nobody answers, comes from a disturbance.

In the same module the probes, the knob and the frames, and in `DisplayProofs.tla` the
panel, each of whose invariants is inductive as the run checks it; the conjuncts
commented with "Why" are there for the proof.

* `ReadingsAreFresh` (`ReadingsHold`), for any number of probes of either family.  That
  a temperature is not stale says nothing before it is read: `LongEnough` says that
  the conversions an object relies on are over after the time it returned, which
  follows from `InStep`, since the time is looked up by `RAM` and taken by `config`.
  For all devices at once it is the longest time, hence the assumption that no
  resolution takes longer than the full one, which the code's table shows.
* `PanelIsRight` (`PanelInv`), on a screen of any size.  What `display()` sends is the
  difference to `buffer_back`, so that the panel is right because the copy is what
  the panel got last (`CopyIsPanel`), through drawing, lost transfers and power cuts:
  these take `clean` away, `resetDisplay()` gives it back to a panel that is ready, and
  after a power cut only `init()` does.
* `KnobIsRight` (`KnobInv`), for any debouncing counts, any `Bounce` and `Settle` as
  `EncoderAssumption` relates them.  `PositionFollows` speaks of a shaft at rest.
  `OneEdgePending` says of a moving one that the position lags by at most the edge of
  A that is being debounced, and `AcceptedInTime` that this edge is taken while B
  still stands where it tells the direction.  `HoldCounted` ties the counter of the
  hold to the samples that were equal.
* `FramesAreRight` (`FramesInv`) and `TransitionsEndWhereSent` (`TransitionLands`), for
  any number of frames and any set without indicator.  `NothingDrawnStays` keeps a
  flag that one transition set from being read by the next; `DirectionKept` and
  `TargetKept` are what holds inside a transition that the calls set up.

`DisplayProofs.tla` has two more, for any screen, picture, font, log and set of shapes.
What the code computes in a loop, `Drawing` writes as a function of the number of
turns (`Bresenham`, `Octant`, `Scanned`, `LogSplit`, `Writes`, ...).  `Recursion` and
`RecursionIn` show that such a function is defined, from the least number for which it
would not be, so that its equation may be used; `Upwards` gives what each turn keeps.
The invariant of each loop is an operator of its own.

* `ShapesAreRight` (`ShapesRight`).  The state's part is small: `ShapeInv` says that the
  buffer is what the strokes of the shape drawn last make of `before`.  The rest is
  geometry.  `PaintedTogether` reduces strokes to the set they cover, where no pixel
  is set twice or the colour does not turn it over.  `ThreeParts` puts together the
  bytes that a vertical line is cut into (`VerticalLineIs`).  `Lags` ties Bresenham's
  error to the distance from the true line (`SlopeIs`, `SlopingIs`); `Errs` and `Near`
  do so for the circle: `dp` is the midpoint's value, and a point of the octant is
  within half a pixel (`OctantPoints`), from which the circle, its quadrants, its disc and the
  progress bar follow.  `ScanIs` is the invariant of wrapping: the lines so far, with
  the one that has begun, hold every letter, and the point to break at is the last
  space or dash (`WrappedIs`).
* `LogIsRight` (`LogRight`).  `LogIsRecent` is not inductive, as it does not say what the
  next byte is taken for.  `LogInv` adds `LASTCHAR` and the counter: `Fit` bounds text
  and newlines by what `logBufferLine` and the sizes say, and `Newest` has the log as an
  end of what was written, and no byte 194 or 195 as the last one unless something was
  lost.  `ByteIs` is a byte given to a log with room or without, `FirstHeld` and
  `NextHeld` the bytes of one character (`CharIs`), `NewestOn` the whole character.
  `SplitIs` is the invariant of `drawLogBuffer()`: the lines so far make the text up to
  the newline the next one begins with; newlines are not in the font, so that it does
  not matter in which line they are.

Their assumptions: coordinates whose sums fit the code's 16 bits, and texts that do not
end inside a character (`ShapesAssumption`); a log with room for a character and a line
(`LogAssumption`); characters in UTF-8, each with the code that `utf8ascii()` gives it
(`Utf8Assumption`); a font that begins at the space or before, as the code's fonts do,
with a width for each character (`FontAssumption`).

Model-checked only, being liveness: `SearchEnds`, `PressReported` and `TransitionEnds`.

### Observed

In the model, and outside what the properties claim:

* `DS1820`: `setResolution()` masks the wrong bits, so going from 12 to 9 bits has
  no effect although it returns success; the first `convertTemperature()` for one
  device waits the time of 9 bits, since the scratchpad was not read yet.
* `PinDetect`: the assert counter is not loaded again when a level is accepted, so
  the first sample that differs is accepted at once, and a bounce after the turn may
  be taken for one if the shaft moves on too soon; a glitch of one sample while a
  button is held loses the report of the hold.  `fall()` tests one callback and calls
  the other.
* `OLEDDisplay`: `write()` into a full log looks a character up twice and loses it
  unless it is ASCII, and if it was looked up to 194 or 195 the next one is misread
  (`lost`), even after `setLogBuffer()`; an image that starts above the screen loses rows unless it
  starts on a page; a circle of radius 0 has four pixels; a progress bar is one pixel
  larger than asked, and one that is higher than wide leaves its frame; a rectangle
  of no width has its right side left of it; wrapping drops dashes, a letter of a word longer than the line,
  and the text's first letter after a leading space; the last line of the log loses
  its last character when drawn if it has not ended; the contrast jumps down between
  brightness 127 and 128; `setLogBuffer(0, ..)` leaves the freed buffer in use.
* `OLEDDisplayUi`: `update()` makes a new timer in each call, so no tick ever runs
  unless the interval is at least 128 ms, that is with 4 to 7 frames a second, which
  is what `UpdateInterval` is set to; `switchToFrame()` in a transition leaves the
  frame that was to be next; calls one after the other lose the automatic direction,
  which `rushed` and `diverted` exempt.


## Not modelled

See `PROJECT.json`.  In the client: QoS 2 is compiled out,
`setDefaultMessageHandler()` is never called; message contents, and the call
`yield()` on a connection that was opened but on which `connect()` was not called
yet (`network_late` has the read it ends in).  The blocking reader
`MQTTPacket_read()`, which nothing calls and which has the shape of the client's
`readPacket()`, and the formatter of packets for the log.  In the application: the
LED, the uptime, the watchdog and which lines it draws.  In the network: the bytes
of SPI transfers, the `_all` variants of send and receive, a UDP send that fails
(it is a datagram lost), netmask, gateway and DNS server.  Of the devices: the
timing and the bytes of a 1-Wire command and the checksum (a code with a wrong one
is a code not in `Codes`), the EEPROM commands and the arithmetic of
`temperature()`; the bitmaps of the fonts, the bytes of commands that do not touch
the panel's memory and the loading screen; changing a pin's counts while it is
sampled.  `MQTTAsync.h` does not compile, `arch/int` is another chip's driver, and
`TCPSocketServer.cpp` and the wrapper classes have no caller.
