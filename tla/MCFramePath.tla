------------------------------ MODULE MCFramePath ------------------------------
(* FramePath with identifiers of two and three bits, and each dimension of a    *)
(* message at its boundaries.                                                   *)
EXTENDS FramePath, Bitwise

\* The number that a set of bits stands for: the operators on sets of bits are those on it.
Value(w) == (IF 0 \in w THEN 1 ELSE 0) + (IF 1 \in w THEN 2 ELSE 0) + (IF 2 \in w THEN 4 ELSE 0)
ASSUME BitsAreNumbers == \A a, b \in SUBSET (0..2) :
  /\ AtMost(a, b) <=> Value(a) <= Value(b)
  /\ LowRun(a) <=> Value(a) & (Value(a) + 1) = 0
  /\ Differing(a, b) = {} <=> Value(a) ^^ Value(b) = 0
  /\ Value(a \cap b) = Value(a) & Value(b)
  /\ Value(a \cup b) = Value(a) | Value(b)

Rules == {[r EXCEPT !.invert = i] :
          r \in {Mask(id, mask) : id \in CanIds, mask \in SUBSET IdMask}, i \in BOOLEAN}
MCRuleSets == {<<>>, RejectAll} \cup {<<r>> : r \in Rules}
  \cup {<<Exact(a), [Mask(b, {ExtBit}) EXCEPT !.invert = i]>> : a, b \in CanIds, i \in BOOLEAN}
\* Serialized rules with the bits that mean nothing in pcan-core.
StrayRules ==
  {<<[id |-> id, mask |-> mask \cup {ExtBit}, invert |-> i]>> :
     id \in SUBSET {0, ExtendedWidth, ExtBit}, mask \in SUBSET {0, ExtendedWidth}, i \in BOOLEAN}

Channel(route, rules, traffic, sends) ==
  [route |-> route, rules |-> rules, traffic |-> traffic, sends |-> sends]
Kind(route, pcan, socket) == IF route \in SocketRoutes THEN socket ELSE pcan
\* Every message over one open filter, and plain frames over every filter.
MCChannels ==
  {Channel(r, <<>>, Kind(r, "pcan", "socket"), TRUE) : r \in PcanRoutes \cup SocketRoutes}
  \cup {Channel(r, rules, Kind(r, "plainPcan", "plainSocket"), Len(rules) = 2 /\ rules[1].id = {}) :
        r \in {"fd", "socket"}, rules \in MCRuleSets}
  \cup {Channel("fd", rules, "plainPcan", FALSE) : rules \in StrayRules}
MCPayloads == {[size |-> s, data |-> d] : s \in {1, 8, 9, 48, 49, 64, 65}, d \in {0, 1}} \cup
              {[size |-> 0, data |-> 0], [size |-> 64, data |-> 64], [size |-> 8, data |-> 8]}
MCReprs == [id : {{0}, {0, ExtBit}}, len : {0, 8, 9, 12}, flags : SUBSET Flags,
            size : {0, 8, 12}, data : {0}]

Message(type, id, dlc, data, status) ==
  [MSGTYPE |-> type, ID |-> id, DLC |-> dlc, DATA |-> data, status |-> status]
Embedded == SUBSET {"BUSOFF", "BUSLIGHT", "BUSHEAVY", "BUSPASSIVE", "OVERRUN"}
PlainPcan == [word : {{}}, message :
  {Message(IF IsExtended(id) THEN {"EXTENDED"} ELSE {}, AsRaw(id), 1, 1, {}) : id \in CanIds}]
AnyPcan ==
  [word : {{}}, message :
     {Message(t, id, dlc, 64, {}) : t \in SUBSET (MessageTypes \ {"ECHO"}),
         id \in {StandardMax, {StandardWidth}, ExtendedMax, {ExtendedWidth}},
         dlc \in {8, 9, 10, 15, 16}}
     \cup {Message({t}, {0}, 8, 8, s) : t \in {"STATUS", "ERRFRAME"}, s \in Embedded}]
  \cup [word : {s \in SUBSET StatusBits : Cardinality(s) \in 1..2},
        message : {Message({}, {0}, 1, 1, {})}]
  \cup [word : {{"OVERRUN"}, {"BUSHEAVY"}, {"QXMTFULL"}, {"QRCVEMPTY"}, {"INITIALIZE"}},
        message : {Message({t}, {0}, 8, 8, {"BUSOFF"}) : t \in {"STATUS", "ERRFRAME"}}]

Socket(fd, canId, len, fdFlags, classes, controller) ==
  [message |-> [fd |-> fd, canId |-> canId, len |-> len, data |-> 64, fdFlags |-> fdFlags,
                classes |-> classes, controller |-> controller], echo |-> FALSE]
PlainSocket ==
  {Socket(FALSE, id \cup remote, 1, {}, {}, {}) : id \in CanIds, remote \in {{}, {RtrBit}}}
AnySocket ==
  {Socket(fd, raw \cup flags, len, f, {}, {}) :
      fd \in BOOLEAN, raw \in {{}, StandardMax, ExtendedMax},
      flags \in SUBSET {EffBit, RtrBit, ErrBit}, len \in {8, 9, 12, 64},
      f \in SUBSET {"BRS", "ESI"}}
  \cup {Socket(FALSE, {ErrBit}, 8, {}, c, b) :
          c \in {x \in SUBSET ErrorClasses : Cardinality(x) <= 3},
          b \in {x \in SUBSET ControllerBits : Cardinality(x) <= 2}}

MCTraffic == [pcan |-> AnyPcan, plainPcan |-> PlainPcan,
              socket |-> AnySocket, plainSocket |-> PlainSocket]

ASSUME KernelSeesAll == \A c \in MCChannels : KernelSeesIds(c)
=============================================================================
