------------------------------- MODULE FramePath -------------------------------
(***************************************************************************)
(* The way of one frame, through either back end: what the application     *)
(* builds is encoded for the transport and comes back as an echo, or the   *)
(* bus brings any message; the hardware filter, then the transport's       *)
(* conversion, then the subscription's filter decide what is delivered.    *)
(* The application has pushed down the filter it subscribes with.          *)
(***************************************************************************)
EXTENDS PcanMessages, SocketMessages

CONSTANTS
  Channels,  \* what may be opened: route, rules, which traffic, and whether it is sent on
  Payloads,  \* [size, data] of the frames the application builds
  Reprs,     \* serialized frames it reads
  Traffic    \* what CAN_Read or recvmsg may return, under a name

PcanRoutes == {"fd", "classic"}
SocketRoutes == {"socket", "socketfd"}
\* What is under way: with a status word on PCAN, an echo mark on a socket.
PcanWire == [word : SUBSET StatusBits, message : PcanMessage]
SocketWire == [message : SocketMessage, echo : BOOLEAN]

ASSUME ChannelAssumption == \A c \in Channels :
  /\ c.route \in PcanRoutes \cup SocketRoutes /\ c.rules \in Seq(Rule) /\ c.sends \in BOOLEAN
  /\ Traffic[c.traffic] \subseteq IF c.route \in SocketRoutes THEN SocketWire ELSE PcanWire
ASSUME PayloadAssumption == \A p \in Payloads : p \in [size : Nat, data : Nat] /\ p.data <= p.size
ASSUME ReprAssumption == \A r \in Reprs :
  /\ r \in [id : Word, len : Nat, flags : SUBSET Flags, size : Nat, data : Nat]
  /\ r.data <= r.size

VARIABLES
  channel,   \* what was opened
  hardware,  \* the filter that was pushed down
  stage,     \* "open", "sending", "wire", "passed", "stopped", "read", "done"
  sent,      \* {} or the frame that was sent
  wire,      \* {} or the message under way
  event,     \* what recv() made of it: a set of at most one
  delivered  \* the frames the subscription got

pathVars == <<channel, hardware, stage, sent, wire, event, delivered>>

OnSocket == channel.route \in SocketRoutes
FdEnabled == channel.route \in {"fd", "socketfd"}

Pushed(opened) == IF opened.route \in SocketRoutes THEN KernelFilters(opened.rules)
                  ELSE ApplyFilter(opened.rules)

PathInit ==
  /\ channel \in Channels /\ hardware = Pushed(channel)
  /\ stage = "open" /\ sent = {} /\ wire = {} /\ event = {} /\ delivered = {}

-----------------------------------------------------------------------------
(* Sending *)

BuiltOf(id, p) == New(id, p.size, p.data) \cup Remote(id, p.size)
  \cup NewFd(id, p.size, p.data, TRUE) \cup NewFd(id, p.size, p.data, FALSE)
Built == UNION {BuiltOf(id, p) : id \in CanIds, p \in Payloads}
Read == UNION {Deserialize(repr) : repr \in Reprs}
Application == Built \cup Read \cup (UNION {WithEsi(f, TRUE) : f \in Built})

\* send() refuses CAN FD on a transport that was not opened for it.
Send(f) ==
  /\ stage = "open" /\ channel.sends
  /\ "FD" \in f.flags => FdEnabled
  /\ sent' = {f} /\ stage' = "sending"
  /\ UNCHANGED <<channel, hardware, wire, event, delivered>>

\* The message of a frame, which the bus echoes to its sender.
Echoed(f) ==
  IF OnSocket THEN {[message |-> SocketFrame(f), echo |-> TRUE]}
  ELSE {[word |-> {}, message |-> [m EXCEPT !.MSGTYPE = @ \cup {"ECHO"}]] :
        m \in IF FdEnabled THEN {FrameToMsgFd(f)} ELSE FrameToMsg(f)}

Encode ==
  /\ stage = "sending" /\ stage' = "wire"
  /\ wire' = UNION {Echoed(f) : f \in sent}
  /\ UNCHANGED <<channel, hardware, sent, event, delivered>>

-----------------------------------------------------------------------------
(* Receiving *)

Arrives ==
  /\ stage = "open" /\ stage' = "wire"
  /\ \E w \in Traffic[channel.traffic] : wire' = {w}
  /\ UNCHANGED <<channel, hardware, sent, event, delivered>>

\* The identifier the filter sees, if the message is one of the bus.
OnBus(w) ==
  IF OnSocket THEN IF ErrBit \in w.message.canId THEN {} ELSE DecodeId(w.message.canId)
  ELSE IF IsMetadata(w.message) THEN {}
       ELSE IdFromRaw(w.message.ID, "EXTENDED" \in w.message.MSGTYPE)

Passes(w) == \A id \in OnBus(w) : IF OnSocket THEN KernelPasses(hardware, w.message.canId)
                                   ELSE RangePasses(hardware, id)

HardwareFilters ==
  /\ stage = "wire"
  /\ stage' = IF \A w \in wire : Passes(w) THEN "passed" ELSE "stopped"
  /\ UNCHANGED <<channel, hardware, sent, wire, event, delivered>>

\* What recv() makes of a message.
Received(w) == IF OnSocket THEN TryRecvOne(w.message, w.echo)
               ELSE ReadOne(FdEnabled, w.word, w.message)

Reads ==
  /\ stage = "passed" /\ stage' = "read"
  /\ event' = UNION {Received(w) : w \in wire}
  /\ UNCHANGED <<channel, hardware, sent, wire, delivered>>

\* RxRouter::dispatch for a subscription that takes echoes.
Wanted(e) == e.is = "Frame" /\ Matches(channel.rules, e.frame.id)
Routed ==
  /\ stage = "read" /\ stage' = "done"
  /\ delivered' = {e.frame : e \in {x \in event : Wanted(x)}}
  /\ UNCHANGED <<channel, hardware, sent, wire, event>>

PathNext ==
  \/ \E f \in Application : Send(f)
  \/ Encode \/ Arrives \/ HardwareFilters \/ Reads \/ Routed
PathSpec == PathInit /\ [][PathNext]_pathVars

-----------------------------------------------------------------------------
(* Properties *)

\* frame.rs 78-86: whoever made it, a frame that reaches the application is one that its
\* own constructors could have built; and one message makes one event.
FramesAreLegal ==
  /\ Cardinality(event) <= 1
  /\ \A f \in delivered : Legal(f)

\* What is sent comes back as it was built: identifier, length, flags, data and padding
\* survive the format of each transport, and a subscription that asks for the identifier
\* gets the frame.  ESI outside CAN FD, which only a serialized frame can carry, does not.
FramesComeBack ==
  stage = "done" => \A f \in sent : Legal(f) =>
    /\ event = {FrameEvent(f, TRUE)}
    /\ delivered = IF Matches(channel.rules, f.id) THEN {f} ELSE {}

\* concepts.md 135-138: rather receive too much than lose a frame in silence.  No
\* hardware filter stops what the subscription would have been given.
NothingIsFilteredAway ==
  stage = "stopped" => \A w \in wire : \A id \in OnBus(w) : ~Matches(channel.rules, id)

\* concepts.md 135-137: the hardware filter is pushed down only where it says exactly the
\* same as the rules.  A range or a closed filter lets through no identifier they refuse.
RangeIsExact ==
  (/\ ~OnSocket /\ hardware.mode # "open"
   /\ \A i \in DOMAIN channel.rules : BuiltRule(channel.rules[i]))
  => \A id \in CanIds : RangePasses(hardware, id) <=> Matches(channel.rules, id)

\* The filter that is pushed down loses nothing, and on PCAN restricts exactly or not at all.
FilterIsFaithful == NothingIsFilteredAway /\ RangeIsExact

\* Where a socket has rules, the kernel sees in a can_id what FilterSet::matches sees in the
\* identifier only if no rule was serialized with bit 29, which inverts a kernel filter, or
\* bit 30, which asks for remote frames.
KernelSeesIds(c) == c.route \in SocketRoutes /\ c.rules # <<>> =>
  /\ \A i \in DOMAIN c.rules : BuiltRule(c.rules[i])
  /\ \A w \in Traffic[c.traffic] : CleanId(w.message.canId)

\* The driver says that the controller has left the bus: in the word of the read, in a
\* status message, in an error frame of PCAN, or in an error frame of the kernel that does
\* not say at once that it is back.
BusOffIn(w) ==
  IF OnSocket
  THEN /\ ~w.message.fd /\ ErrBit \in w.message.canId /\ "BUSOFF" \in w.message.classes
       /\ "RESTARTED" \notin w.message.classes /\ ~Controller(w.message, {"ACTIVE"})
  ELSE "BUSOFF" \in w.word \/ (IsMetadata(w.message) /\ "BUSOFF" \in w.message.status)

\* Where it says so unheard: a word with a warning hides the message it came with
\* (rx/mod.rs:83-85, 118-120), and of an error frame of PCAN only the warnings are read
\* (rx/mod.rs:46-57).
Unheard(w) ==
  ~OnSocket /\ "BUSOFF" \notin w.word /\ (w.word # {} \/ "STATUS" \notin w.message.MSGTYPE)

\* The state that a status reports fits its warnings. A bus off that a word, a status
\* message read with a clean word or a kernel error frame tells of is reported as a failure
\* or as BusOff, and never as a frame; and nothing else is reported as BusOff. In the two
\* places where the driver says so unheard, nothing is claimed but that it is no frame:
\* the event, if there is any, is milder.
StatusIsTrue ==
  \A e \in event :
    /\ e.is = "Status" =>
         /\ e.state = "Active" => e.warnings \cap {"BUS_LIGHT", "BUS_HEAVY", "BUS_PASSIVE"} = {}
         /\ "BUS_PASSIVE" \in e.warnings => e.state \in {"ErrorPassive", "BusOff"}
         /\ e.state = "ErrorPassive" => "BUS_PASSIVE" \in e.warnings
    /\ \A w \in wire :
         /\ ~OnSocket /\ "BUSOFF" \in w.word => e.is = "Failed"
         /\ BusOffIn(w) => \/ e.is = "Failed"
                           \/ e.is = "Status" /\ (e.state = "BusOff" \/ Unheard(w))
         /\ e.is = "Status" /\ e.state = "BusOff" => BusOffIn(w) /\ ~Unheard(w)
=============================================================================
