------------------------------ MODULE PcanMessages ------------------------------
(***************************************************************************)
(* pcan-basic and pcan-basic-sys: the messages of CAN_Read, CAN_ReadFD and *)
(* the writes (convert.rs), the status words (status.rs), read_one         *)
(* (rx/mod.rs), and the filter pushed down to the hardware (channel.rs).   *)
(* Bit sets are sets of names; a message also says which status word its   *)
(* first four bytes spell.                                                 *)
(***************************************************************************)
EXTENDS CanFrames

MessageTypes == {"RTR", "EXTENDED", "FD", "BRS", "ESI", "ECHO", "ERRFRAME", "STATUS"}

\* ILLHW, ILLNET and ILLCLIENT are combinations of the three bits after NODRIVER.
PermanentBits == {"ILLPARAMTYPE", "ILLPARAMVAL", "ILLDATA", "ILLMODE", "ILLOPERATION", "REGTEST"}
FatalBits == {"BUSOFF", "NODRIVER", "HWINUSE", "NETINUSE", "ILLHANDLE", "RESOURCE",
              "INITIALIZE", "UNKNOWN"}
BusBits == {"BUSLIGHT", "BUSHEAVY", "BUSPASSIVE", "OVERRUN", "QOVERRUN", "CAUTION"}
QueueBits == {"QRCVEMPTY", "XMTFULL", "QXMTFULL"}
StatusBits == PermanentBits \cup FatalBits \cup BusBits \cup QueueBits

WarningOf == [BUSLIGHT |-> "BUS_LIGHT", BUSHEAVY |-> "BUS_HEAVY", BUSPASSIVE |-> "BUS_PASSIVE",
              OVERRUN |-> "RX_OVERRUN", QOVERRUN |-> "QUEUE_OVERRUN", CAUTION |-> "CAUTION"]
WarningsOf(status) == {WarningOf[bit] : bit \in status \cap BusBits}

\* mutant of BusStateOf: the warnings are looked at first.
BusStateByWarnings(status) ==
  CASE status \cap {"BUSHEAVY", "BUSLIGHT"} # {} -> "Warning"
    [] "BUSPASSIVE" \in status -> "ErrorPassive"
    [] "BUSOFF" \in status -> "BusOff"
    [] OTHER -> "Active"
BusStateOf(status) ==
  CASE "BUSOFF" \in status -> "BusOff"
    [] "BUSOFF" \notin status /\ "BUSPASSIVE" \in status -> "ErrorPassive"
    [] status \cap {"BUSOFF", "BUSPASSIVE"} = {}
         /\ status \cap {"BUSHEAVY", "BUSLIGHT"} # {} -> "Warning"
    [] OTHER -> "Active"

\* The first of: a permanent failure, a fatal one, an empty queue, a full one, success.
Classify(status) ==
  IF status \cap PermanentBits # {} THEN "Permanent"
  ELSE IF status \cap FatalBits # {} THEN "Fatal"
  ELSE IF "QRCVEMPTY" \in status THEN "Empty"
  ELSE IF status \cap {"XMTFULL", "QXMTFULL"} # {} THEN "TxBusy"
  ELSE "Ok"

-----------------------------------------------------------------------------
(* Messages and frames *)

PcanMessage == [ID : Word, MSGTYPE : SUBSET MessageTypes, DLC : Nat, DATA : Nat,
                status : SUBSET StatusBits]

IdFromRaw(raw, extended) == IF extended THEN Extended(raw) ELSE Standard(raw)

IsMetadata(m) == m.MSGTYPE \cap {"STATUS", "ERRFRAME"} # {}

MsgFdToFrame(m) ==
  LET len == DlcToLen(m.DLC)
      data == Cut(m.DATA, len)
      fd == "FD" \in m.MSGTYPE
      rtr == "RTR" \in m.MSGTYPE
      made(id) ==
        IF rtr THEN IF fd THEN {} ELSE Remote(id, len)
        ELSE IF fd THEN NewFd(id, len, data, "BRS" \in m.MSGTYPE)
        ELSE New(id, len, data)
  IN IF IsMetadata(m) THEN {}
     ELSE UNION {WithEsi(frame, "ESI" \in m.MSGTYPE) :
                 frame \in UNION {made(id) : id \in IdFromRaw(m.ID, "EXTENDED" \in m.MSGTYPE)}}

FrameToMsgFd(frame) ==
  [ID |-> AsRaw(frame.id),
   MSGTYPE |-> frame.flags \cup (IF IsExtended(frame.id) THEN {"EXTENDED"} ELSE {}),
   DLC |-> Dlc(frame), DATA |-> frame.data, status |-> {}]

\* The DLC field is the length LEN of TPCANMsg here.
MsgToFrame(m) ==
  IF IsMetadata(m) \/ m.DLC > 8 THEN {}
  ELSE UNION {IF "RTR" \in m.MSGTYPE THEN Remote(id, m.DLC)
              ELSE New(id, m.DLC, Cut(m.DATA, m.DLC)) :
              id \in IdFromRaw(m.ID, "EXTENDED" \in m.MSGTYPE)}

FrameToMsg(frame) ==
  IF "FD" \in frame.flags THEN {}
  ELSE {[ID |-> AsRaw(frame.id),
         MSGTYPE |-> (IF IsExtended(frame.id) THEN {"EXTENDED"} ELSE {})
                     \cup (frame.flags \cap {"RTR"}),
         DLC |-> frame.len, DATA |-> frame.data, status |-> {}]}

\* The status word of a status frame, and the warnings of an error frame.
MetadataEvent(m) ==
  IF "STATUS" \in m.MSGTYPE THEN {StatusEvent(BusStateOf(m.status), WarningsOf(m.status))}
  ELSE LET warnings == IF "ERRFRAME" \in m.MSGTYPE THEN WarningsOf(m.status) ELSE {} IN
       IF warnings = {} THEN {}
       ELSE {StatusEvent(IF "BUS_PASSIVE" \in warnings THEN "ErrorPassive" ELSE "Warning",
                         warnings)}

\* The state warning_status derives from the word that came with the read.
WarningStatus(status, more) == {StatusEvent(BusStateOf(status), WarningsOf(status) \cup more)}

\* The word first, then the message: metadata, a frame, or nothing.
ReadOne(fdMode, status, m) ==
  LET outcome == Classify(status)
      frames == IF fdMode THEN MsgFdToFrame(m) ELSE MsgToFrame(m)
  IN CASE outcome = "Empty" -> {}
       [] outcome = "TxBusy" -> WarningStatus(status, {"TX_QUEUE_FULL"})
       [] outcome \in {"Permanent", "Fatal"} -> {Failure(outcome)}
       [] outcome = "Ok" /\ WarningsOf(status) # {} -> WarningStatus(status, {})
       [] outcome = "Ok" /\ WarningsOf(status) = {} ->
            IF MetadataEvent(m) # {} THEN MetadataEvent(m)
            ELSE {FrameEvent(frame, "ECHO" \in m.MSGTYPE) : frame \in frames}

-----------------------------------------------------------------------------
(* The hardware filter *)

Maximum(rule) == IF IsExtended(rule.id) THEN ExtendedMax ELSE StandardMax
Wildcard(rule) == Maximum(rule) \ rule.mask

\* w & (w + 1) = 0: a number of the form 2^n - 1.
LowRun(w) == \A b \in w : 0..b \subseteq w

\* mutant of IsOneRange: a rule for both formats is taken for one of them.
IsOneRangeOfAny(rule) == ~rule.invert /\ LowRun(Wildcard(rule))
\* mutant of IsOneRange: wildcard bits anywhere are taken for a range.
IsOneRangeAnywhere(rule) == ~rule.invert /\ ExtBit \in rule.mask
\* Only wildcard bits that are contiguous and low make one range of identifiers.
IsOneRange(rule) == ~rule.invert /\ ExtBit \in rule.mask /\ LowRun(Wildcard(rule))

FilterRange(rule) ==
  LET from == rule.id \cap rule.mask \cap Maximum(rule) IN
  [mode |-> "range", from |-> from, to |-> from \cup Wildcard(rule),
   extended |-> IsExtended(rule.id)]

ApplyFilter(rules) ==
  IF Len(rules) = 1
  THEN CASE rules[1].invert /\ rules[1].mask = {} -> [mode |-> "closed"]
         [] IsOneRange(rules[1]) -> FilterRange(rules[1])
         [] OTHER -> [mode |-> "open"]
  ELSE [mode |-> "open"]

\* a <= b, as numbers: the highest bit in which they differ is one of b.
AtMost(a, b) == \A i \in a \ b : \E j \in b \ a : j > i

\* External: what the hardware lets through.
RangePasses(filter, id) ==
  \/ filter.mode = "open"
  \/ /\ filter.mode = "range" /\ IsExtended(id) = filter.extended
     /\ AtMost(filter.from, AsRaw(id)) /\ AtMost(AsRaw(id), filter.to)
=============================================================================
