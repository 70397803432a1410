------------------------------- MODULE CanFrames -------------------------------
(***************************************************************************)
(* pcan-core: identifiers (id.rs), frames (frame.rs), filters (filter.rs)  *)
(* and what a transport hands to the link (status.rs, transport.rs).  An   *)
(* Option or a Result is the set of its values, empty for None and Err.    *)
(* A u32 is the set of the bits that are one: & is the intersection, | the *)
(* union, ^ the symmetric difference, and zero the empty set.              *)
(***************************************************************************)
EXTENDS Integers, Sequences, FiniteSets

CONSTANTS
  StandardWidth,  \* bits of a standard identifier, 11 in the code
  ExtendedWidth   \* bits of an extended identifier, 29 in the code

ASSUME WidthAssumption ==
  StandardWidth \in Nat \ {0} /\ ExtendedWidth \in Nat /\ StandardWidth < ExtendedWidth

\* STANDARD_MAX and EXTENDED_MAX are all ones: raw <= MAX says that raw has no other bit.
StandardMax == 0..(StandardWidth - 1)
ExtendedMax == 0..(ExtendedWidth - 1)
\* Bit 31, EXT_FLAG; the two bits below it mean nothing in pcan-core.
ExtBit == ExtendedWidth + 2
Word == SUBSET (0..ExtBit)
IdMask == {ExtBit} \cup ExtendedMax

Standard(raw) == IF raw \subseteq StandardMax THEN {raw} ELSE {}
Extended(raw) == IF raw \subseteq ExtendedMax THEN {raw \cup {ExtBit}} ELSE {}
CanIds == (SUBSET StandardMax) \cup {raw \cup {ExtBit} : raw \in SUBSET ExtendedMax}

AsRaw(id) == id \cap ExtendedMax
IsExtended(id) == ExtBit \in id
FromBits(bits) == IF ExtBit \in bits THEN (bits \cap ExtendedMax) \cup {ExtBit}
                  ELSE bits \cap StandardMax

-----------------------------------------------------------------------------
(* Lengths *)

FdSteps == <<12, 16, 20, 24, 32, 48, 64>>

DlcToLen(dlc) == CASE dlc <= 8 -> dlc
                   [] dlc \in 9..14 -> FdSteps[dlc - 8]
                   [] OTHER -> 64

FdLengths == 0..8 \cup {FdSteps[i] : i \in DOMAIN FdSteps}
LenToDlc(len) ==
  IF len <= 8 THEN {len} ELSE {i + 8 : i \in {j \in DOMAIN FdSteps : FdSteps[j] = len}}
RoundUpFdLen(len) ==
  {up \in FdLengths : up >= len /\ \A other \in FdLengths : other >= len => other >= up}

-----------------------------------------------------------------------------
(* Frames.  A payload is its length and how many bytes at its front are not  *)
(* zero: that tells padding from data, and a cut from what was there.        *)

Flags == {"RTR", "FD", "BRS", "ESI"}
Cut(data, len) == IF data < len THEN data ELSE len

FromParts(id, size, data, len, flags) ==
  IF {"RTR", "FD"} \subseteq flags \/ ("BRS" \in flags /\ "FD" \notin flags)
     \/ len > 64 \/ size > len
  THEN {}
  ELSE {[id |-> id, len |-> len, flags |-> flags, data |-> data]}

New(id, size, data) == IF size > 8 THEN {} ELSE FromParts(id, size, data, size, {})
NewFd(id, size, data, brs) ==
  UNION {FromParts(id, size, data, len, {"FD"} \cup (IF brs THEN {"BRS"} ELSE {})) :
         len \in RoundUpFdLen(size)}
Remote(id, dlc) == IF dlc > 8 THEN {} ELSE FromParts(id, 0, 0, dlc, {"RTR"})

\* mutant of WithEsi: the flag is set whatever the frame.
EsiAnyway(frame, enabled) ==
  {[frame EXCEPT !.flags = IF enabled THEN @ \cup {"ESI"} ELSE @ \ {"ESI"}]}
WithEsi(frame, enabled) ==
  IF enabled /\ "FD" \notin frame.flags THEN {}
  ELSE {[frame EXCEPT !.flags = IF enabled THEN @ \cup {"ESI"} ELSE @ \ {"ESI"}]}

Dlc(frame) == CHOOSE dlc \in 0..15 :
  dlc \in IF LenToDlc(frame.len) = {} THEN {15} ELSE LenToDlc(frame.len)

\* Frame::deserialize; repr has the fields as they are written.
Deserialize(repr) ==
  IF \/ "RTR" \in repr.flags /\ ("FD" \in repr.flags \/ repr.len > 8 \/ repr.size # 0)
     \/ "RTR" \notin repr.flags /\ repr.size # repr.len
     \/ {"RTR", "FD"} \cap repr.flags = {} /\ repr.len > 8
     \/ "FD" \in repr.flags /\ LenToDlc(repr.len) = {}
  THEN {}
  ELSE FromParts(FromBits(repr.id), repr.size, repr.data, repr.len, repr.flags)

FrameShape == [id : CanIds, len : Nat, flags : SUBSET Flags, data : Nat]

\* What the constructors promise of a frame.
Legal(frame) ==
  /\ frame.id \in CanIds
  /\ "RTR" \in frame.flags => "FD" \notin frame.flags /\ frame.data = 0
  /\ frame.flags \cap {"BRS", "ESI"} # {} => "FD" \in frame.flags
  /\ frame.len \in IF "FD" \in frame.flags THEN FdLengths ELSE 0..8
  /\ frame.data <= frame.len

-----------------------------------------------------------------------------
(* Filters: a sequence of rules.  Only one that was serialized has other bits than these.  *)

Rule == [id : Word, mask : Word, invert : BOOLEAN]
BuiltRule(rule) == rule.id \in CanIds /\ rule.mask \subseteq IdMask
Exact(id) == [id |-> id, mask |-> IdMask, invert |-> FALSE]
Mask(id, mask) == [id |-> id, mask |-> mask \cap IdMask, invert |-> FALSE]
Inverted(rule) == [rule EXCEPT !.invert = ~@]
RejectAll == <<Inverted(Mask({}, {}))>>

Differing(a, b) == (a \ b) \cup (b \ a)
BaseMatches(rule, id) == Differing(id, rule.id) \cap rule.mask = {}

\* Any rule that is not inverted admits, if there is one; then any inverted rule rejects.
Matches(rules, id) ==
  LET admitting == {i \in DOMAIN rules : ~rules[i].invert} IN
  /\ admitting # {} => \E i \in admitting : BaseMatches(rules[i], id)
  /\ \A i \in DOMAIN rules \ admitting : ~BaseMatches(rules[i], id)

-----------------------------------------------------------------------------
(* What recv() brings: nothing yet, a frame, a status, or a failure.         *)

Warnings == {"BUS_LIGHT", "BUS_HEAVY", "BUS_PASSIVE", "RX_OVERRUN", "QUEUE_OVERRUN",
             "TX_QUEUE_FULL", "CAUTION", "TX_TIMEOUT", "ARBITRATION_LOST"}
BusStates == {"Active", "Warning", "ErrorPassive", "BusOff"}

NoEvent == [is |-> "Empty"]
FrameEvent(frame, echo) == [is |-> "Frame", frame |-> frame, echo |-> echo]
StatusEvent(state, warnings) == [is |-> "Status", state |-> state, warnings |-> warnings]
Failure(kind) == [is |-> "Failed", kind |-> kind]
=============================================================================
