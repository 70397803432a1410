----------------------------- MODULE SocketMessages -----------------------------
(***************************************************************************)
(* pcan-socketcan: the can_frame and canfd_frame that recvmsg and send     *)
(* carry (socket.rs), the kernel's filters, and the error frames           *)
(* (errframe.rs).  The flags of can_id, and the class bits and controller  *)
(* bits of an error frame, are sets of names.                              *)
(***************************************************************************)
EXTENDS CanFrames

\* The flags of can_id: the extended format has the bit that it has in a CanId.
EffBit == ExtBit
RtrBit == ExtendedWidth + 1
ErrBit == ExtendedWidth
\* CAN_INV_FILTER, of the can_id of a filter.
InvBit == ExtendedWidth

ErrorClasses == {"ACK", "PROT", "TRX", "LOSTARB", "TX_TIMEOUT", "CRTL", "BUSOFF", "RESTARTED"}
ControllerBits == {"RX_WARNING", "TX_WARNING", "RX_PASSIVE", "TX_PASSIVE", "RX_OVERFLOW",
                   "TX_OVERFLOW", "ACTIVE"}

SocketMessage == [fd : BOOLEAN, canId : Word, len : Nat, data : Nat,
                  fdFlags : SUBSET {"BRS", "ESI"}, classes : SUBSET ErrorClasses,
                  controller : SUBSET ControllerBits]

CanId(frame) ==
  AsRaw(frame.id) \cup (IF IsExtended(frame.id) THEN {EffBit} ELSE {})
                  \cup (IF "RTR" \in frame.flags THEN {RtrBit} ELSE {})

DecodeId(canId) == IF EffBit \in canId THEN Extended(canId \cap ExtendedMax)
                   ELSE Standard(canId \cap StandardMax)

ClassicToFrame(m) ==
  IF m.len > 8 THEN {}
  ELSE UNION {IF RtrBit \in m.canId THEN Remote(id, m.len) ELSE New(id, m.len, Cut(m.data, m.len)) :
              id \in DecodeId(m.canId)}

FdToFrame(m) ==
  IF LenToDlc(m.len) = {} THEN {}
  ELSE UNION {WithEsi(frame, "ESI" \in m.fdFlags) :
              frame \in UNION {NewFd(id, m.len, Cut(m.data, m.len), "BRS" \in m.fdFlags) :
                               id \in DecodeId(m.canId)}}

\* mutant of SocketFrame: the error-state indication stays behind.
SocketFrameWithoutEsi(frame) ==
  [fd |-> "FD" \in frame.flags, canId |-> CanId(frame), len |-> frame.len, data |-> frame.data,
   fdFlags |-> frame.flags \cap {"BRS"}, classes |-> {}, controller |-> {}]
\* What try_send_one builds, and the length of which structure it passes to send.
SocketFrame(frame) ==
  [fd |-> "FD" \in frame.flags, canId |-> CanId(frame), len |-> frame.len, data |-> frame.data,
   fdFlags |-> frame.flags \cap {"BRS", "ESI"}, classes |-> {}, controller |-> {}]

-----------------------------------------------------------------------------
(* Error frames *)

Controller(m, bits) == "CRTL" \in m.classes /\ m.controller \cap bits # {}

ErrorWarnings(m) ==
  {w \in Warnings :
     \/ w = "BUS_LIGHT" /\ m.classes \cap {"ACK", "PROT", "TRX"} # {}
     \/ w = "ARBITRATION_LOST" /\ "LOSTARB" \in m.classes
     \/ w = "TX_TIMEOUT" /\ "TX_TIMEOUT" \in m.classes
     \/ w = "BUS_HEAVY" /\ Controller(m, {"RX_WARNING", "TX_WARNING"})
     \/ w = "BUS_PASSIVE" /\ Controller(m, {"RX_PASSIVE", "TX_PASSIVE"})
     \/ w = "RX_OVERRUN" /\ Controller(m, {"RX_OVERFLOW", "TX_OVERFLOW"})}

ParseErrorFrame(m) ==
  LET warnings == ErrorWarnings(m) IN
  IF "RESTARTED" \in m.classes \/ Controller(m, {"ACTIVE"}) THEN StatusEvent("Active", {})
  ELSE StatusEvent(CASE "BUSOFF" \in m.classes -> "BusOff"
                     [] "BUSOFF" \notin m.classes /\ "BUS_PASSIVE" \in warnings -> "ErrorPassive"
                     [] "BUSOFF" \notin m.classes /\ "BUS_PASSIVE" \notin warnings
                          /\ warnings \cap {"BUS_HEAVY", "BUS_LIGHT"} # {} -> "Warning"
                     [] OTHER -> "Active", warnings)

\* try_recv_one, once recvmsg has a message; one that is no frame ends the transport.
TryRecvOne(m, echo) ==
  IF ~m.fd /\ ErrBit \in m.canId THEN {ParseErrorFrame(m)}
  ELSE LET frames == IF m.fd THEN FdToFrame(m) ELSE ClassicToFrame(m) IN
       IF frames = {} THEN {Failure("Permanent")}
       ELSE {FrameEvent(frame, echo) : frame \in frames}

-----------------------------------------------------------------------------
(* Filters *)

KernelFilter(rule) ==
  [id |-> rule.id \cup (IF rule.invert THEN {InvBit} ELSE {}), mask |-> rule.mask]
KernelFilters(rules) ==
  IF rules = <<>> THEN {[id |-> {}, mask |-> {}]}
  ELSE {KernelFilter(rules[i]) : i \in DOMAIN rules}

\* What a driver reports: a standard identifier has no more bits than that.
CleanId(canId) == EffBit \in canId \/ canId \cap ExtendedMax \subseteq StandardMax

\* External: the kernel passes what any filter matches; an inverted one matches the rest.
KernelPasses(filters, canId) ==
  \E filter \in filters : BaseMatches(filter, canId) # (InvBit \in filter.id)
=============================================================================
