------------------------------ MODULE FrameProofs ------------------------------
(***************************************************************************)
(* Proofs about FramePath: what the constructors and the conversions of    *)
(* both back ends make of any frame and any message, and what the hardware *)
(* filters let through, for identifiers of every width.                    *)
(***************************************************************************)
EXTENDS FramePath, FiniteSetTheorems, WellFoundedInduction, TLAPS

\* An Option or a Result: at most one value.
One(S) == \A x, y \in S : x = y

LEMMA OneIsCounted == ASSUME NEW S, One(S) PROVE Cardinality(S) <= 1
<1>1. CASE S = {}
  BY <1>1, FS_EmptySet
<1>2. CASE S # {}
  <2>1. PICK x \in S : TRUE
    BY <1>2
  <2>2. S = {x}
    BY <2>1 DEF One
  <2>3. Cardinality({x}) = 1
    BY FS_Singleton
  <2> QED BY <2>2, <2>3
<1> QED BY <1>1, <1>2

-----------------------------------------------------------------------------
(* Identifiers *)

LEMMA Bits ==
  /\ StandardMax \subseteq ExtendedMax
  /\ ExtBit \notin ExtendedMax /\ ExtBit \in Nat
  /\ ExtendedMax \subseteq Nat
  /\ ExtendedWidth \in Nat /\ ExtendedWidth \notin ExtendedMax
  /\ ExtendedWidth + 1 \notin ExtendedMax
  /\ ExtendedWidth # ExtBit /\ ExtendedWidth + 1 # ExtBit /\ ExtendedWidth + 1 # ExtendedWidth
  BY WidthAssumption DEF StandardMax, ExtendedMax, ExtBit

LEMMA StandardIds == ASSUME NEW raw PROVE One(Standard(raw)) /\ Standard(raw) \subseteq CanIds
  BY DEF Standard, One, CanIds

LEMMA ExtendedIds == ASSUME NEW raw PROVE One(Extended(raw)) /\ Extended(raw) \subseteq CanIds
<1>1. CASE raw \subseteq ExtendedMax
  <2>1. raw \cup {ExtBit} \in CanIds
    BY <1>1 DEF CanIds
  <2>2. Extended(raw) = {raw \cup {ExtBit}}
    BY <1>1 DEF Extended
  <2> QED BY <2>1, <2>2 DEF One
<1>2. CASE ~(raw \subseteq ExtendedMax)
  BY <1>2 DEF Extended, One
<1> QED BY <1>1, <1>2

\* An identifier is its format and its bits, as CAN_Write and send take it apart.
LEMMA IdParts ==
  ASSUME NEW id \in CanIds
  PROVE  /\ IdFromRaw(AsRaw(id), IsExtended(id)) = {id}
         /\ IF IsExtended(id) THEN id = AsRaw(id) \cup {ExtBit} ELSE id \subseteq StandardMax
         /\ ~IsExtended(id) => AsRaw(id) = id
         /\ id \subseteq IdMask
<1> USE Bits
<1>1. CASE id \subseteq StandardMax
  <2>1. ~IsExtended(id) /\ AsRaw(id) = id
    BY <1>1 DEF IsExtended, AsRaw
  <2> QED BY <1>1, <2>1 DEF IdFromRaw, Standard, IdMask
<1>2. ASSUME NEW raw \in SUBSET ExtendedMax, id = raw \cup {ExtBit}
      PROVE  /\ IsExtended(id) /\ AsRaw(id) = raw
             /\ IdFromRaw(AsRaw(id), IsExtended(id)) = {id}
             /\ id \subseteq IdMask
  <2>1. IsExtended(id) /\ AsRaw(id) = raw
    BY <1>2 DEF IsExtended, AsRaw
  <2>2. Extended(raw) = {id}
    BY <1>2 DEF Extended
  <2> QED BY <1>2, <2>1, <2>2 DEF IdFromRaw, IdMask
<1>3. id \subseteq StandardMax \/ \E raw \in SUBSET ExtendedMax : id = raw \cup {ExtBit}
  BY DEF CanIds
<1> QED BY <1>1, <1>2, <1>3

-----------------------------------------------------------------------------
(* Lengths *)

LEMMA StepsOfFd ==
  /\ FdLengths = 0..8 \cup {12, 16, 20, 24, 32, 48, 64}
  /\ FdLengths \subseteq Nat
<1>1. DOMAIN FdSteps = 1..7
  BY DEF FdSteps
<1>2. {FdSteps[i] : i \in 1..7} = {12, 16, 20, 24, 32, 48, 64}
  BY DEF FdSteps
<1> QED BY <1>1, <1>2 DEF FdLengths

\* The length code of a legal length gives the length back: what frame_to_msg_fd writes,
\* msg_fd_to_frame reads.
LEMMA DlcAndBack ==
  ASSUME NEW f, f.len \in FdLengths
  PROVE  DlcToLen(Dlc(f)) = f.len /\ Dlc(f) \in 0..15
<1>1. DOMAIN FdSteps = 1..7
  BY DEF FdSteps
<1>2. CASE f.len \in 0..8
  <2>1. LenToDlc(f.len) = {f.len}
    BY <1>2 DEF LenToDlc
  <2>2. Dlc(f) = f.len
    BY <1>2, <2>1 DEF Dlc
  <2> QED BY <1>2, <2>2 DEF DlcToLen
<1>3. ASSUME NEW k \in 1..7, f.len = FdSteps[k]
      PROVE  DlcToLen(Dlc(f)) = f.len /\ Dlc(f) \in 0..15
  <2>1. FdSteps[k] > 8 /\ FdSteps[k] \in Nat
    BY DEF FdSteps
  <2>2. \A j \in 1..7 : FdSteps[j] = FdSteps[k] => j = k
    BY DEF FdSteps
  <2>3. {j \in 1..7 : FdSteps[j] = f.len} = {k}
    BY <1>3, <2>2
  <2>4. LenToDlc(f.len) = {i + 8 : i \in {k}}
    BY <1>1, <1>3, <2>1, <2>3 DEF LenToDlc
  <2>5. LenToDlc(f.len) = {k + 8}
    BY <2>4
  <2>6. Dlc(f) = k + 8 /\ k + 8 \in 0..15
    BY <2>5 DEF Dlc
  <2>7. DlcToLen(k + 8) = IF k + 8 = 15 THEN 64 ELSE FdSteps[k]
    BY <2>1 DEF DlcToLen
  <2>8. FdSteps[7] = 64
    BY DEF FdSteps
  <2> QED BY <1>3, <2>6, <2>7, <2>8
<1> QED BY <1>1, <1>2, <1>3 DEF FdLengths

LEMMA DlcLengths == ASSUME NEW dlc \in Nat PROVE DlcToLen(dlc) \in FdLengths
<1>1. DOMAIN FdSteps = 1..7
  BY DEF FdSteps
<1>2. CASE dlc <= 8
  BY <1>2, StepsOfFd DEF DlcToLen
<1>3. CASE dlc \in 9..14
  <2>1. DlcToLen(dlc) = FdSteps[dlc - 8] /\ dlc - 8 \in 1..7
    BY <1>3 DEF DlcToLen
  <2> QED BY <1>1, <2>1 DEF FdLengths
<1>4. CASE dlc > 14
  <2>1. DlcToLen(dlc) = 64
    BY <1>4 DEF DlcToLen
  <2> QED BY <2>1, StepsOfFd
<1> QED BY <1>2, <1>3, <1>4

LEMMA RoundUpKeeps == ASSUME NEW len \in FdLengths PROVE RoundUpFdLen(len) = {len}
  BY StepsOfFd DEF RoundUpFdLen

LEMMA RoundUpOne ==
  ASSUME NEW size \in Nat
  PROVE  One(RoundUpFdLen(size)) /\ \A up \in RoundUpFdLen(size) : up \in FdLengths /\ up >= size
  BY StepsOfFd DEF RoundUpFdLen, One

LEMMA CutBounds ==
  ASSUME NEW data \in Nat, NEW len \in Nat
  PROVE  Cut(data, len) \in Nat /\ Cut(data, len) <= len /\ (data <= len => Cut(data, len) = data)
  BY DEF Cut

-----------------------------------------------------------------------------
(* Frames: each constructor makes at most one, and a legal one. *)

LEMMA PartsMade ==
  ASSUME NEW id, NEW size, NEW data, NEW len, NEW flags,
         NEW f \in FromParts(id, size, data, len, flags)
  PROVE  /\ f = [id |-> id, len |-> len, flags |-> flags, data |-> data]
         /\ ~({"RTR", "FD"} \subseteq flags) /\ ("BRS" \in flags => "FD" \in flags)
         /\ ~(len > 64) /\ ~(size > len)
  BY DEF FromParts

LEMMA NewMade ==
  ASSUME NEW id \in CanIds, NEW size \in Nat, NEW data \in Nat, data <= size
  PROVE  /\ One(New(id, size, data))
         /\ \A f \in New(id, size, data) :
              f = [id |-> id, len |-> size, flags |-> {}, data |-> data] /\ Legal(f)
         /\ size <= 8 => New(id, size, data) =
                           {[id |-> id, len |-> size, flags |-> {}, data |-> data]}
<1>1. ASSUME size <= 8
      PROVE  New(id, size, data) = {[id |-> id, len |-> size, flags |-> {}, data |-> data]}
  BY <1>1 DEF New, FromParts
<1>2. CASE size <= 8
  <2>1. Legal([id |-> id, len |-> size, flags |-> {}, data |-> data])
    BY <1>2 DEF Legal
  <2> QED BY <1>1, <1>2, <2>1 DEF One
<1>3. CASE size > 8
  <2>1. New(id, size, data) = {}
    BY <1>3 DEF New
  <2> QED BY <1>3, <2>1 DEF One
<1> QED BY <1>1, <1>2, <1>3

LEMMA RemoteMade ==
  ASSUME NEW id \in CanIds, NEW dlc \in Nat
  PROVE  /\ One(Remote(id, dlc))
         /\ \A f \in Remote(id, dlc) :
              f = [id |-> id, len |-> dlc, flags |-> {"RTR"}, data |-> 0] /\ Legal(f)
         /\ dlc <= 8 => Remote(id, dlc) = {[id |-> id, len |-> dlc, flags |-> {"RTR"}, data |-> 0]}
<1>1. ASSUME dlc <= 8
      PROVE  Remote(id, dlc) = {[id |-> id, len |-> dlc, flags |-> {"RTR"}, data |-> 0]}
  BY <1>1 DEF Remote, FromParts
<1>2. CASE dlc <= 8
  <2>1. Legal([id |-> id, len |-> dlc, flags |-> {"RTR"}, data |-> 0])
    BY <1>2 DEF Legal
  <2> QED BY <1>1, <1>2, <2>1 DEF One
<1>3. CASE dlc > 8
  <2>1. Remote(id, dlc) = {}
    BY <1>3 DEF Remote
  <2> QED BY <1>3, <2>1 DEF One
<1> QED BY <1>1, <1>2, <1>3

FdFlags(brs) == {"FD"} \cup (IF brs THEN {"BRS"} ELSE {})

LEMMA NewFdMade ==
  ASSUME NEW id \in CanIds, NEW size \in Nat, NEW data \in Nat, data <= size,
         NEW brs \in BOOLEAN
  PROVE  /\ One(NewFd(id, size, data, brs))
         /\ \A f \in NewFd(id, size, data, brs) :
              /\ \E up \in FdLengths :
                   f = [id |-> id, len |-> up, flags |-> FdFlags(brs), data |-> data]
              /\ Legal(f) /\ "FD" \in f.flags
         /\ size \in FdLengths =>
              NewFd(id, size, data, brs) =
                {[id |-> id, len |-> size, flags |-> FdFlags(brs), data |-> data]}
<1>1. \A up \in FdLengths : up \in Nat /\ up <= 64
  BY StepsOfFd
<1>2. ASSUME NEW f \in NewFd(id, size, data, brs)
      PROVE  /\ \E up \in RoundUpFdLen(size) : /\ up \in FdLengths /\ up >= size
               /\ f = [id |-> id, len |-> up, flags |-> FdFlags(brs), data |-> data]
             /\ Legal(f) /\ "FD" \in f.flags
  <2>1. PICK up \in RoundUpFdLen(size) : f \in FromParts(id, size, data, up, FdFlags(brs))
    BY <1>2 DEF NewFd, FdFlags
  <2>2. up \in FdLengths /\ up >= size
    BY RoundUpOne
  <2>3. f = [id |-> id, len |-> up, flags |-> FdFlags(brs), data |-> data]
    BY <2>1, PartsMade
  <2>4. "FD" \in FdFlags(brs) /\ "RTR" \notin FdFlags(brs)
    BY DEF FdFlags
  <2>5. data <= up
    BY <1>1, <2>2
  <2>6. Legal(f) /\ "FD" \in f.flags
    BY <2>2, <2>3, <2>4, <2>5 DEF Legal
  <2> QED BY <2>2, <2>3, <2>6
<1>3. One(NewFd(id, size, data, brs))
  BY <1>2, RoundUpOne DEF One
<1>4. ASSUME size \in FdLengths
      PROVE  NewFd(id, size, data, brs) =
               {[id |-> id, len |-> size, flags |-> FdFlags(brs), data |-> data]}
  <2>1. RoundUpFdLen(size) = {size}
    BY <1>4, RoundUpKeeps
  <2>2. "RTR" \notin FdFlags(brs) /\ "FD" \in FdFlags(brs) /\ ~(size > 64)
    BY <1>1, <1>4 DEF FdFlags
  <2>3. FromParts(id, size, data, size, FdFlags(brs)) =
          {[id |-> id, len |-> size, flags |-> FdFlags(brs), data |-> data]}
    BY <2>2 DEF FromParts
  <2>4. NewFd(id, size, data, brs) =
          UNION {FromParts(id, size, data, len, FdFlags(brs)) : len \in {size}}
    BY <2>1 DEF NewFd, FdFlags
  <2> QED BY <2>3, <2>4
<1> QED BY <1>2, <1>3, <1>4

\* with_esi keeps a frame legal: it refuses the flag outside CAN FD.
LEMMA EsiMade ==
  ASSUME NEW f \in FrameShape, NEW enabled \in BOOLEAN
  PROVE  /\ One(WithEsi(f, enabled))
         /\ \A g \in WithEsi(f, enabled) : /\ g \in FrameShape
                                           /\ Legal(f) => Legal(g)
<1>1. \A g \in WithEsi(f, enabled) :
        /\ g = [f EXCEPT !.flags = IF enabled THEN @ \cup {"ESI"} ELSE @ \ {"ESI"}]
        /\ enabled => "FD" \in f.flags
  BY DEF WithEsi
<1>2. ASSUME NEW g \in WithEsi(f, enabled)
      PROVE  g \in FrameShape /\ (Legal(f) => Legal(g))
  <2>1. /\ g.id = f.id /\ g.len = f.len /\ g.data = f.data
        /\ g.flags = IF enabled THEN f.flags \cup {"ESI"} ELSE f.flags \ {"ESI"}
        /\ enabled => "FD" \in f.flags
        /\ g \in FrameShape
    BY <1>1 DEF FrameShape, Flags
  <2>2. /\ "FD" \in g.flags <=> "FD" \in f.flags
        /\ "RTR" \in g.flags <=> "RTR" \in f.flags
        /\ "BRS" \in g.flags <=> "BRS" \in f.flags
        /\ "ESI" \in g.flags => "FD" \in f.flags \/ "ESI" \in f.flags
    BY <2>1
  <2> QED BY <2>1, <2>2 DEF Legal
<1> QED BY <1>1, <1>2 DEF One

-----------------------------------------------------------------------------
(* From a message to a frame: at most one, and a legal one. *)

Good(S) == One(S) /\ \A f \in S : f \in FrameShape /\ Legal(f)

LEMMA LegalLengths ==
  ASSUME NEW f, Legal(f) PROVE f.len \in FdLengths /\ f.len \in Nat
  BY StepsOfFd DEF Legal

LEMMA NoFrames == Good({})
  BY DEF Good, One

LEMMA GoodNew ==
  ASSUME NEW id \in CanIds, NEW size \in Nat, NEW data \in Nat, data <= size
  PROVE  Good(New(id, size, data))
  BY NewMade DEF Good, FrameShape

LEMMA GoodRemote ==
  ASSUME NEW id \in CanIds, NEW dlc \in Nat PROVE Good(Remote(id, dlc))
  BY RemoteMade DEF Good, FrameShape, Flags

LEMMA GoodFd ==
  ASSUME NEW id \in CanIds, NEW size \in Nat, NEW data \in Nat, data <= size,
         NEW brs \in BOOLEAN
  PROVE  Good(NewFd(id, size, data, brs))
<1>2. FdFlags(brs) \subseteq Flags
  BY DEF FdFlags, Flags
<1>3. ASSUME NEW f \in NewFd(id, size, data, brs) PROVE f \in FrameShape
  <2>1. PICK up \in FdLengths :
          f = [id |-> id, len |-> up, flags |-> FdFlags(brs), data |-> data]
    BY NewFdMade
  <2> QED BY <1>2, <2>1, StepsOfFd DEF FrameShape
<1> QED BY <1>3, NewFdMade DEF Good

LEMMA GoodUnion ==
  ASSUME NEW T, One(T), \A S \in T : Good(S)
  PROVE  Good(UNION T)
  BY DEF One, Good

LEMMA GoodEsi ==
  ASSUME NEW S, Good(S), NEW enabled \in BOOLEAN
  PROVE  Good(UNION {WithEsi(f, enabled) : f \in S})
<1>1. \A f \in S : Good(WithEsi(f, enabled))
  BY EsiMade DEF Good
<1>2. One({WithEsi(f, enabled) : f \in S})
  BY DEF Good, One
<1>3. \A W \in {WithEsi(f, enabled) : f \in S} : Good(W)
  BY <1>1
<1> HIDE DEF Good, One
<1> QED BY <1>2, <1>3, GoodUnion

\* The frame that a route makes of its identifier, if it has one.
PcanMade(m, id) ==
  LET len == DlcToLen(m.DLC) IN
  IF "RTR" \in m.MSGTYPE THEN IF "FD" \in m.MSGTYPE THEN {} ELSE Remote(id, len)
  ELSE IF "FD" \in m.MSGTYPE THEN NewFd(id, len, Cut(m.DATA, len), "BRS" \in m.MSGTYPE)
  ELSE New(id, len, Cut(m.DATA, len))

LEMMA GoodMsgFd == ASSUME NEW m \in PcanMessage PROVE Good(MsgFdToFrame(m))
<1> DEFINE ids == IdFromRaw(m.ID, "EXTENDED" \in m.MSGTYPE)
           frames == UNION {PcanMade(m, id) : id \in ids}
<1>1. One(ids) /\ ids \subseteq CanIds
  BY StandardIds, ExtendedIds DEF IdFromRaw
<1>2. /\ DlcToLen(m.DLC) \in Nat /\ Cut(m.DATA, DlcToLen(m.DLC)) \in Nat
      /\ Cut(m.DATA, DlcToLen(m.DLC)) <= DlcToLen(m.DLC)
  BY DlcLengths, StepsOfFd, CutBounds DEF PcanMessage
<1>0. ("BRS" \in m.MSGTYPE) \in BOOLEAN /\ ("ESI" \in m.MSGTYPE) \in BOOLEAN
  OBVIOUS
<1>3. ASSUME NEW id \in ids PROVE Good(PcanMade(m, id))
  <2>1. Good(NewFd(id, DlcToLen(m.DLC), Cut(m.DATA, DlcToLen(m.DLC)), "BRS" \in m.MSGTYPE))
    BY <1>0, <1>1, <1>2, GoodFd
  <2> QED BY <1>1, <1>2, <2>1, NoFrames, GoodRemote, GoodNew DEF PcanMade
<1>4. One({PcanMade(m, id) : id \in ids})
  BY <1>1 DEF One
<1>5. Good(frames)
  BY <1>3, <1>4, GoodUnion
<1>6. MsgFdToFrame(m) = IF IsMetadata(m) THEN {}
                        ELSE UNION {WithEsi(f, "ESI" \in m.MSGTYPE) : f \in frames}
  BY DEF MsgFdToFrame, PcanMade
<1> HIDE DEF frames
<1>7. Good(UNION {WithEsi(f, "ESI" \in m.MSGTYPE) : f \in frames})
  BY <1>0, <1>5, GoodEsi
<1> QED BY <1>6, <1>7, NoFrames

LEMMA GoodMsg == ASSUME NEW m \in PcanMessage PROVE Good(MsgToFrame(m))
<1> DEFINE ids == IdFromRaw(m.ID, "EXTENDED" \in m.MSGTYPE)
           made(id) == IF "RTR" \in m.MSGTYPE THEN Remote(id, m.DLC)
                       ELSE New(id, m.DLC, Cut(m.DATA, m.DLC))
<1>1. One(ids) /\ ids \subseteq CanIds
  BY StandardIds, ExtendedIds DEF IdFromRaw
<1>2. m.DLC \in Nat /\ Cut(m.DATA, m.DLC) \in Nat /\ Cut(m.DATA, m.DLC) <= m.DLC
  BY CutBounds DEF PcanMessage
<1>3. ASSUME NEW id \in ids PROVE Good(made(id))
  BY <1>1, <1>2, GoodRemote, GoodNew
<1>4. One({made(id) : id \in ids})
  BY <1>1 DEF One
<1>5. \A S \in {made(id) : id \in ids} : Good(S)
  BY <1>3
<1>6. MsgToFrame(m) = IF IsMetadata(m) \/ m.DLC > 8 THEN {} ELSE UNION {made(id) : id \in ids}
  BY DEF MsgToFrame
<1> HIDE DEF made, ids
<1> QED BY <1>4, <1>5, <1>6, GoodUnion, NoFrames

LEMMA SocketIds == ASSUME NEW w PROVE One(DecodeId(w)) /\ DecodeId(w) \subseteq CanIds
  BY StandardIds, ExtendedIds DEF DecodeId

LEMMA GoodClassic == ASSUME NEW m \in SocketMessage PROVE Good(ClassicToFrame(m))
<1> DEFINE ids == DecodeId(m.canId)
           made(id) == IF RtrBit \in m.canId THEN Remote(id, m.len)
                       ELSE New(id, m.len, Cut(m.data, m.len))
<1>1. One(ids) /\ ids \subseteq CanIds
  BY SocketIds
<1>2. m.len \in Nat /\ Cut(m.data, m.len) \in Nat /\ Cut(m.data, m.len) <= m.len
  BY CutBounds DEF SocketMessage
<1>3. ASSUME NEW id \in ids PROVE Good(made(id))
  BY <1>1, <1>2, GoodRemote, GoodNew
<1>4. One({made(id) : id \in ids})
  BY <1>1 DEF One
<1>5. \A S \in {made(id) : id \in ids} : Good(S)
  BY <1>3
<1>6. ClassicToFrame(m) = IF m.len > 8 THEN {} ELSE UNION {made(id) : id \in ids}
  BY DEF ClassicToFrame
<1> HIDE DEF made, ids
<1> QED BY <1>4, <1>5, <1>6, GoodUnion, NoFrames

LEMMA GoodSocketFd == ASSUME NEW m \in SocketMessage PROVE Good(FdToFrame(m))
<1> DEFINE ids == DecodeId(m.canId)
           made(id) == NewFd(id, m.len, Cut(m.data, m.len), "BRS" \in m.fdFlags)
           frames == UNION {made(id) : id \in ids}
<1>1. One(ids) /\ ids \subseteq CanIds
  BY SocketIds
<1>2. m.len \in Nat /\ Cut(m.data, m.len) \in Nat /\ Cut(m.data, m.len) <= m.len
  BY CutBounds DEF SocketMessage
<1>0. ("BRS" \in m.fdFlags) \in BOOLEAN /\ ("ESI" \in m.fdFlags) \in BOOLEAN
  OBVIOUS
<1>3. ASSUME NEW id \in ids PROVE Good(made(id))
  BY <1>0, <1>1, <1>2, GoodFd
<1>4. One({made(id) : id \in ids})
  BY <1>1 DEF One
<1>5. \A S \in {made(id) : id \in ids} : Good(S)
  BY <1>3
<1>6. FdToFrame(m) = IF LenToDlc(m.len) = {} THEN {}
                     ELSE UNION {WithEsi(f, "ESI" \in m.fdFlags) : f \in frames}
  BY DEF FdToFrame
<1> HIDE DEF made, ids
<1>7. Good(frames)
  BY <1>4, <1>5, GoodUnion
<1> HIDE DEF frames
<1>8. Good(UNION {WithEsi(f, "ESI" \in m.fdFlags) : f \in frames})
  BY <1>0, <1>7, GoodEsi
<1> QED BY <1>6, <1>8, NoFrames

-----------------------------------------------------------------------------
(* Events *)

GoodEvents(S) == One(S) /\ \A e \in S : e.is = "Frame" => Legal(e.frame)

LEMMA EventOfFrames ==
  ASSUME NEW S, Good(S), NEW echo
  PROVE  GoodEvents({FrameEvent(f, echo) : f \in S})
<1>1. \A f \in S : FrameEvent(f, echo).frame = f
  BY DEF FrameEvent
<1> QED BY <1>1 DEF Good, GoodEvents, One

LEMMA OtherEvents ==
  ASSUME NEW S, One(S), \A e \in S : e.is # "Frame" PROVE GoodEvents(S)
  BY DEF GoodEvents

LEMMA PcanEvents ==
  ASSUME NEW m \in PcanMessage, NEW word, NEW fdMode \in BOOLEAN
  PROVE  GoodEvents(ReadOne(fdMode, word, m))
<1> DEFINE frames == IF fdMode THEN MsgFdToFrame(m) ELSE MsgToFrame(m)
<1>1. Good(frames)
  BY GoodMsgFd, GoodMsg
<1>2. GoodEvents({FrameEvent(frame, "ECHO" \in m.MSGTYPE) : frame \in frames})
  BY <1>1, EventOfFrames
<1>3. \A more : GoodEvents(WarningStatus(word, more))
  BY DEF GoodEvents, One, WarningStatus, StatusEvent
<1>4. GoodEvents(MetadataEvent(m))
  BY DEF GoodEvents, One, MetadataEvent, StatusEvent
<1>5. \A kind : GoodEvents({Failure(kind)})
  BY DEF GoodEvents, One, Failure
<1>6. GoodEvents({})
  BY DEF GoodEvents, One
<1>7. Classify(word) \in {"Permanent", "Fatal", "Empty", "TxBusy", "Ok"}
  BY DEF Classify
<1> HIDE DEF frames
<1>8. ReadOne(fdMode, word, m) =
        CASE Classify(word) = "Empty" -> {}
          [] Classify(word) = "TxBusy" -> WarningStatus(word, {"TX_QUEUE_FULL"})
          [] Classify(word) \in {"Permanent", "Fatal"} -> {Failure(Classify(word))}
          [] Classify(word) = "Ok" /\ WarningsOf(word) # {} -> WarningStatus(word, {})
          [] Classify(word) = "Ok" /\ WarningsOf(word) = {} ->
               IF MetadataEvent(m) # {} THEN MetadataEvent(m)
               ELSE {FrameEvent(frame, "ECHO" \in m.MSGTYPE) : frame \in frames}
  BY DEF ReadOne, frames
<1> QED BY <1>2, <1>3, <1>4, <1>5, <1>6, <1>7, <1>8

LEMMA SocketEvents ==
  ASSUME NEW m \in SocketMessage, NEW echo
  PROVE  GoodEvents(TryRecvOne(m, echo))
<1> DEFINE frames == IF m.fd THEN FdToFrame(m) ELSE ClassicToFrame(m)
<1>1. Good(frames)
  BY GoodClassic, GoodSocketFd
<1>2. GoodEvents({FrameEvent(frame, echo) : frame \in frames})
  BY <1>1, EventOfFrames
<1>3. GoodEvents({ParseErrorFrame(m)})
  <2>1. ParseErrorFrame(m).is = "Status"
    BY DEF ParseErrorFrame, StatusEvent
  <2> QED BY <2>1 DEF GoodEvents, One
<1>4. GoodEvents({Failure("Permanent")})
  BY DEF GoodEvents, One, Failure
<1> HIDE DEF frames
<1>5. TryRecvOne(m, echo) =
        IF ~m.fd /\ ErrBit \in m.canId THEN {ParseErrorFrame(m)}
        ELSE IF frames = {} THEN {Failure("Permanent")}
        ELSE {FrameEvent(frame, echo) : frame \in frames}
  BY DEF TryRecvOne, frames
<1> QED BY <1>2, <1>3, <1>4, <1>5

-----------------------------------------------------------------------------
(* What the application builds and what it puts on the way *)

LEMMA BitsInWord == StandardMax \subseteq 0..ExtBit /\ ExtendedMax \subseteq 0..ExtBit
                    /\ 0..ExtBit \subseteq Nat /\ ExtBit \in 0..ExtBit
                    /\ ExtendedWidth \in 0..ExtBit /\ ExtendedWidth + 1 \in 0..ExtBit
  BY WidthAssumption DEF StandardMax, ExtendedMax, ExtBit

LEMMA ApplicationFrames == Application \subseteq FrameShape
<1>1. ASSUME NEW id \in CanIds, NEW p \in Payloads PROVE BuiltOf(id, p) \subseteq FrameShape
  <2>1. p.size \in Nat /\ p.data \in Nat /\ p.data <= p.size
    BY PayloadAssumption
  <2>2. /\ Good(New(id, p.size, p.data)) /\ Good(Remote(id, p.size))
        /\ Good(NewFd(id, p.size, p.data, TRUE)) /\ Good(NewFd(id, p.size, p.data, FALSE))
    BY <2>1, GoodNew, GoodFd, GoodRemote
  <2> QED BY <2>2 DEF Good, BuiltOf
<1>2. ASSUME NEW f \in Built PROVE f \in FrameShape
  <2>1. \E S \in {BuiltOf(id, p) : id \in CanIds, p \in Payloads} : f \in S
    BY <1>2 DEF Built
  <2>2. PICK id \in CanIds, p \in Payloads : f \in BuiltOf(id, p)
    BY <2>1
  <2> QED BY <1>1, <2>2
<1>3. ASSUME NEW r \in Reprs, NEW f \in Deserialize(r) PROVE f \in FrameShape
  <2>1. r \in [id : Word, len : Nat, flags : SUBSET Flags, size : Nat, data : Nat]
    BY ReprAssumption
  <2>2. f \in FromParts(FromBits(r.id), r.size, r.data, r.len, r.flags)
    BY <1>3 DEF Deserialize
  <2>3. FromBits(r.id) \in CanIds
    BY DEF FromBits, CanIds
  <2>4. f = [id |-> FromBits(r.id), len |-> r.len, flags |-> r.flags, data |-> r.data]
    BY <2>2, PartsMade
  <2> QED BY <2>1, <2>3, <2>4 DEF FrameShape
<1>4. Read \subseteq FrameShape
  BY <1>3 DEF Read
<1>5. ASSUME NEW f \in Built, NEW g \in WithEsi(f, TRUE) PROVE g \in FrameShape
  BY <1>2, EsiMade
<1> QED BY <1>2, <1>4, <1>5 DEF Application

LEMMA DlcType == ASSUME NEW f, f.len \in Nat PROVE Dlc(f) \in 0..15
<1> DEFINE codes == IF LenToDlc(f.len) = {} THEN {15} ELSE LenToDlc(f.len)
<1>1. DOMAIN FdSteps = 1..7
  BY DEF FdSteps
<1>2. LenToDlc(f.len) \subseteq 0..15
  BY <1>1 DEF LenToDlc
<1>3. \E dlc \in 0..15 : dlc \in codes
  BY <1>2
<1> QED BY <1>3 DEF Dlc

LEMMA PcanMessagesTyped ==
  ASSUME NEW f \in FrameShape
  PROVE  /\ FrameToMsgFd(f) \in PcanMessage
         /\ \A m \in FrameToMsg(f) : m \in PcanMessage
<1>1. AsRaw(f.id) \in Word
  BY BitsInWord DEF AsRaw, Word, FrameShape
<1>2. f.flags \in SUBSET MessageTypes /\ f.len \in Nat /\ f.data \in Nat
  BY DEF FrameShape, Flags, MessageTypes
<1>3. Dlc(f) \in Nat
  BY <1>2, DlcType
<1>4. FrameToMsgFd(f) \in PcanMessage
  <2>1. f.flags \cup (IF IsExtended(f.id) THEN {"EXTENDED"} ELSE {}) \in SUBSET MessageTypes
    BY <1>2 DEF MessageTypes
  <2> QED BY <1>1, <1>2, <1>3, <2>1 DEF FrameToMsgFd, PcanMessage
<1>5. ASSUME NEW m \in FrameToMsg(f) PROVE m \in PcanMessage
  <2>1. (IF IsExtended(f.id) THEN {"EXTENDED"} ELSE {}) \cup (f.flags \cap {"RTR"})
          \in SUBSET MessageTypes
    BY <1>2 DEF MessageTypes
  <2> QED BY <1>1, <1>2, <1>5, <2>1 DEF FrameToMsg, PcanMessage
<1> QED BY <1>4, <1>5

LEMMA SocketFrameTyped == ASSUME NEW f \in FrameShape PROVE SocketFrame(f) \in SocketMessage
<1>1. CanId(f) \in Word
  <2>1. RtrBit \in 0..ExtBit /\ EffBit \in 0..ExtBit
    BY BitsInWord DEF RtrBit, EffBit
  <2> QED BY <2>1, BitsInWord DEF CanId, AsRaw, Word, FrameShape
<1> QED BY <1>1 DEF SocketFrame, SocketMessage, FrameShape

Wire == IF OnSocket THEN SocketWire ELSE PcanWire

LEMMA EchoedWire == ASSUME NEW f \in FrameShape PROVE Echoed(f) \subseteq Wire /\ One(Echoed(f))
<1>1. CASE OnSocket
  <2>1. SocketFrame(f) \in SocketMessage
    BY SocketFrameTyped
  <2>2. [message |-> SocketFrame(f), echo |-> TRUE] \in SocketWire
    BY <2>1 DEF SocketWire
  <2> QED BY <1>1, <2>2 DEF Echoed, Wire, One
<1>2. CASE ~OnSocket
  <2> DEFINE ms == IF FdEnabled THEN {FrameToMsgFd(f)} ELSE FrameToMsg(f)
             sending(m) == [word |-> {}, message |-> [m EXCEPT !.MSGTYPE = @ \cup {"ECHO"}]]
  <2>1. ms \subseteq PcanMessage
    BY PcanMessagesTyped
  <2>2. One(ms)
    BY DEF One, FrameToMsg
  <2>3. ASSUME NEW m \in PcanMessage PROVE sending(m) \in PcanWire
    <3>1. m.MSGTYPE \cup {"ECHO"} \in SUBSET MessageTypes
      BY DEF PcanMessage, MessageTypes
    <3>2. [m EXCEPT !.MSGTYPE = @ \cup {"ECHO"}] \in PcanMessage
      BY <3>1 DEF PcanMessage
    <3> QED BY <3>2 DEF PcanWire
  <2>4. Echoed(f) = {sending(m) : m \in ms}
    BY <1>2 DEF Echoed
  <2> HIDE DEF ms, sending
  <2> QED BY <1>2, <2>1, <2>2, <2>3, <2>4 DEF Wire, One
<1> QED BY <1>1, <1>2

LEMMA ReceivedEvents ==
  ASSUME NEW w \in Wire PROVE GoodEvents(Received(w))
<1>1. FdEnabled \in BOOLEAN
  BY DEF FdEnabled
<1>2. CASE OnSocket
  BY <1>2, SocketEvents DEF Wire, SocketWire, Received
<1>3. CASE ~OnSocket
  BY <1>1, <1>3, PcanEvents DEF Wire, PcanWire, Received
<1> QED BY <1>2, <1>3

-----------------------------------------------------------------------------
(* The inductive invariant: each stage holds what the stage before made.  *)

Stages == {"open", "sending", "wire", "passed", "stopped", "read", "done"}

PathInv ==
  /\ channel \in Channels /\ hardware = Pushed(channel) /\ stage \in Stages
  /\ One(sent) /\ sent \subseteq Application /\ \A f \in sent : "FD" \in f.flags => FdEnabled
  /\ stage = "open" => sent = {}
  /\ stage = "sending" => sent # {}
  /\ stage \in {"open", "sending"} => wire = {}
  /\ stage \notin {"open", "sending"} =>
       IF sent = {} THEN \E w \in Traffic[channel.traffic] : wire = {w}
       ELSE wire = UNION {Echoed(f) : f \in sent}
  /\ One(wire) /\ wire \subseteq Wire
  /\ event = IF stage \in {"read", "done"} THEN UNION {Received(w) : w \in wire} ELSE {}
  /\ delivered = IF stage = "done" THEN {e.frame : e \in {x \in event : Wanted(x)}} ELSE {}
  /\ stage = "stopped" => \E w \in wire : ~Passes(w)

LEMMA ChannelFixed ==
  ASSUME channel' = channel, hardware' = hardware
  PROVE  /\ OnSocket' = OnSocket /\ FdEnabled' = FdEnabled /\ Wire' = Wire
         /\ \A w : Received(w)' = Received(w) /\ Passes(w)' = Passes(w)
         /\ \A f : Echoed(f)' = Echoed(f)
         /\ \A e : Wanted(e)' = Wanted(e)
<1>1. OnSocket' = OnSocket /\ FdEnabled' = FdEnabled
  BY DEF OnSocket, FdEnabled
<1>2. Wire' = Wire /\ \A w : Received(w)' = Received(w)
  BY <1>1 DEF Wire, Received
<1>3. \A w : Passes(w)' = Passes(w)
  BY <1>1 DEF Passes, OnBus
<1>4. \A f : Echoed(f)' = Echoed(f)
  BY <1>1 DEF Echoed
<1> QED BY <1>1, <1>2, <1>3, <1>4 DEF Wanted

LEMMA PathStart == PathInit => PathInv
<1> SUFFICES ASSUME PathInit PROVE PathInv
  OBVIOUS
<1>1. /\ channel \in Channels /\ hardware = Pushed(channel)
      /\ stage = "open" /\ sent = {} /\ wire = {} /\ event = {} /\ delivered = {}
  BY DEF PathInit
<1> QED BY <1>1 DEF PathInv, Stages, One

LEMMA PathStep == PathInv /\ [PathNext]_pathVars => PathInv'
<1> SUFFICES ASSUME PathInv, [PathNext]_pathVars PROVE PathInv'
  OBVIOUS
<1>0. /\ channel \in Channels /\ hardware = Pushed(channel) /\ stage \in Stages
      /\ One(sent) /\ sent \subseteq Application /\ \A f \in sent : "FD" \in f.flags => FdEnabled
      /\ stage = "open" => sent = {}
      /\ stage = "sending" => sent # {}
      /\ stage \in {"open", "sending"} => wire = {}
      /\ stage \notin {"open", "sending"} =>
           IF sent = {} THEN \E w \in Traffic[channel.traffic] : wire = {w}
           ELSE wire = UNION {Echoed(f) : f \in sent}
      /\ One(wire) /\ wire \subseteq Wire
      /\ event = IF stage \in {"read", "done"} THEN UNION {Received(w) : w \in wire} ELSE {}
      /\ delivered = IF stage = "done" THEN {e.frame : e \in {x \in event : Wanted(x)}} ELSE {}
      /\ stage = "stopped" => \E w \in wire : ~Passes(w)
  BY DEF PathInv
<1>1. ASSUME NEW f \in Application, Send(f) PROVE PathInv'
  <2>1. /\ stage = "open" /\ stage' = "sending" /\ sent' = {f}
        /\ "FD" \in f.flags => FdEnabled
        /\ channel' = channel /\ hardware' = hardware /\ wire' = wire
        /\ event' = event /\ delivered' = delivered
    BY <1>1 DEF Send
  <2> QED BY <1>0, <2>1, ChannelFixed DEF PathInv, Stages, One
<1>2. CASE Encode
  <2>1. /\ stage = "sending" /\ stage' = "wire" /\ wire' = UNION {Echoed(f) : f \in sent}
        /\ channel' = channel /\ hardware' = hardware /\ sent' = sent
        /\ event' = event /\ delivered' = delivered
    BY <1>2 DEF Encode
  <2>2. One(wire') /\ wire' \subseteq Wire
    <3>1. \A f \in sent : Echoed(f) \subseteq Wire /\ One(Echoed(f))
      BY <1>0, ApplicationFrames, EchoedWire
    <3> QED BY <1>0, <2>1, <3>1 DEF One
  <2>3. sent' # {} /\ sent' \subseteq Application
    BY <1>0, <2>1
  <2> QED BY <1>0, <2>1, <2>2, <2>3, ChannelFixed DEF PathInv, Stages
<1>3. CASE Arrives
  <2>1. PICK w \in Traffic[channel.traffic] :
          /\ stage = "open" /\ stage' = "wire" /\ wire' = {w}
          /\ channel' = channel /\ hardware' = hardware /\ sent' = sent
          /\ event' = event /\ delivered' = delivered
    BY <1>3 DEF Arrives
  <2>2. w \in Wire
    BY <1>0, ChannelAssumption DEF Wire, OnSocket
  <2>3. One(wire') /\ wire' \subseteq Wire
    BY <2>1, <2>2 DEF One
  <2> QED BY <1>0, <2>1, <2>3, ChannelFixed DEF PathInv, Stages
<1>4. CASE HardwareFilters
  <2>1. /\ stage = "wire"
        /\ stage' = IF \A w \in wire : Passes(w) THEN "passed" ELSE "stopped"
        /\ channel' = channel /\ hardware' = hardware /\ sent' = sent /\ wire' = wire
        /\ event' = event /\ delivered' = delivered
    BY <1>4 DEF HardwareFilters
  <2>2. stage' \in {"passed", "stopped"} /\ (stage' = "stopped" => \E w \in wire : ~Passes(w))
    BY <2>1
  <2> QED BY <1>0, <2>1, <2>2, ChannelFixed DEF PathInv, Stages
<1>5. CASE Reads
  <2>1. /\ stage = "passed" /\ stage' = "read" /\ event' = UNION {Received(w) : w \in wire}
        /\ channel' = channel /\ hardware' = hardware /\ sent' = sent /\ wire' = wire
        /\ delivered' = delivered
    BY <1>5 DEF Reads
  <2> QED BY <1>0, <2>1, ChannelFixed DEF PathInv, Stages
<1>6. CASE Routed
  <2>1. /\ stage = "read" /\ stage' = "done"
        /\ delivered' = {e.frame : e \in {x \in event : Wanted(x)}}
        /\ channel' = channel /\ hardware' = hardware /\ sent' = sent /\ wire' = wire
        /\ event' = event
    BY <1>6 DEF Routed
  <2> QED BY <1>0, <2>1, ChannelFixed DEF PathInv, Stages
<1>7. CASE UNCHANGED pathVars
  <2>1. /\ channel' = channel /\ hardware' = hardware /\ stage' = stage /\ sent' = sent
        /\ wire' = wire /\ event' = event /\ delivered' = delivered
    BY <1>7 DEF pathVars
  <2>2. /\ UNION {Received(w)' : w \in wire} = UNION {Received(w) : w \in wire}
        /\ UNION {Echoed(f)' : f \in sent} = UNION {Echoed(f) : f \in sent}
        /\ {e.frame : e \in {x \in event : Wanted(x)'}}
             = {e.frame : e \in {x \in event : Wanted(x)}}
    BY <2>1, ChannelFixed
  <2>3. FdEnabled' = FdEnabled /\ Wire' = Wire /\ Pushed(channel)' = Pushed(channel)
        /\ \A w : Passes(w)' = Passes(w)
    BY <2>1, ChannelFixed
  <2> QED BY <1>0, <2>1, <2>2, <2>3 DEF PathInv
<1> QED BY <1>1, <1>2, <1>3, <1>4, <1>5, <1>6, <1>7 DEF PathNext

LEMMA PathInvariance == PathSpec => []PathInv
  BY PathStart, PathStep, PTL DEF PathSpec

\* One message is one event, and what is delivered was an event.
LEMMA EventsOfStage ==
  ASSUME PathInv
  PROVE  /\ GoodEvents(event)
         /\ \A f \in delivered : \E e \in event : e.is = "Frame" /\ f = e.frame
<1>1. One(wire) /\ wire \subseteq Wire
  BY DEF PathInv
<1>2. event = {} \/ event = UNION {Received(w) : w \in wire}
  BY DEF PathInv
<1>3. \A w \in wire : GoodEvents(Received(w))
  BY <1>1, ReceivedEvents
<1>4. GoodEvents(event)
  BY <1>1, <1>2, <1>3 DEF GoodEvents, One
<1>5. delivered = {} \/ delivered = {e.frame : e \in {x \in event : Wanted(x)}}
  BY DEF PathInv
<1> QED BY <1>4, <1>5 DEF Wanted

\* frame.rs 78-86: a frame that recv() hands over, over whichever back end and from whatever
\* message, is one that the constructors could have built; and a message makes one event.
THEOREM FramesAlwaysLegal == PathSpec => []FramesAreLegal
<1>1. ASSUME PathInv PROVE FramesAreLegal
  <2>1. Cardinality(event) <= 1
    BY <1>1, EventsOfStage, OneIsCounted DEF GoodEvents
  <2>2. \A f \in delivered : Legal(f)
    BY <1>1, EventsOfStage DEF GoodEvents
  <2> QED BY <2>1, <2>2 DEF FramesAreLegal
<1> QED BY <1>1, PathInvariance, PTL

-----------------------------------------------------------------------------
(* What is sent comes back: each format of a message keeps every field.   *)

WithoutEsi(f) == [id |-> f.id, len |-> f.len, flags |-> f.flags \ {"ESI"}, data |-> f.data]

\* Legal frames in the three forms that the formats tell apart.
LEMMA LegalForms ==
  ASSUME NEW f \in FrameShape, Legal(f)
  PROVE  /\ f.id \in CanIds /\ f.len \in FdLengths /\ f.data <= f.len
         /\ f = [id |-> f.id, len |-> f.len, flags |-> f.flags, data |-> f.data]
         /\ CASE "RTR" \in f.flags -> /\ "FD" \notin f.flags /\ f.flags = {"RTR"}
                                      /\ f.data = 0 /\ f.len \in 0..8
              [] "RTR" \notin f.flags /\ "FD" \in f.flags ->
                   f.flags \ {"ESI"} = FdFlags("BRS" \in f.flags)
              [] OTHER -> f.flags = {} /\ f.len \in 0..8
<1>1. f.id \in CanIds /\ f.len \in FdLengths /\ f.data <= f.len
  BY LegalLengths DEF Legal
<1>2. f = [id |-> f.id, len |-> f.len, flags |-> f.flags, data |-> f.data]
  BY DEF FrameShape
<1>3. \A x \in f.flags : x \in {"RTR", "FD", "BRS", "ESI"}
  BY DEF FrameShape, Flags
<1>4. /\ "RTR" \in f.flags => "FD" \notin f.flags /\ f.data = 0
      /\ "BRS" \in f.flags => "FD" \in f.flags
      /\ "ESI" \in f.flags => "FD" \in f.flags
      /\ "FD" \notin f.flags => f.len \in 0..8
  BY DEF Legal
<1>5. ASSUME "RTR" \in f.flags
      PROVE  "FD" \notin f.flags /\ f.flags = {"RTR"} /\ f.data = 0 /\ f.len \in 0..8
  BY <1>3, <1>4, <1>5
<1>6. ASSUME "RTR" \notin f.flags, "FD" \in f.flags
      PROVE  f.flags \ {"ESI"} = FdFlags("BRS" \in f.flags)
  BY <1>3, <1>6 DEF FdFlags
<1>7. ASSUME "RTR" \notin f.flags, "FD" \notin f.flags PROVE f.flags = {} /\ f.len \in 0..8
  BY <1>3, <1>4, <1>7
<1> QED BY <1>1, <1>2, <1>5, <1>6, <1>7

\* The constructor that reads the frame of its own fields makes the frame without ESI.
LEMMA Rebuilt ==
  ASSUME NEW f \in FrameShape, Legal(f)
  PROVE  /\ "RTR" \in f.flags => Remote(f.id, f.len) = {WithoutEsi(f)}
         /\ "RTR" \notin f.flags /\ "FD" \in f.flags =>
              NewFd(f.id, f.len, Cut(f.data, f.len), "BRS" \in f.flags) = {WithoutEsi(f)}
         /\ "RTR" \notin f.flags /\ "FD" \notin f.flags =>
              New(f.id, f.len, Cut(f.data, f.len)) = {WithoutEsi(f)}
<1>1. f.len \in Nat /\ f.data \in Nat /\ Cut(f.data, f.len) = f.data
  BY LegalForms, CutBounds DEF FrameShape
<1>2. ASSUME "RTR" \in f.flags PROVE Remote(f.id, f.len) = {WithoutEsi(f)}
  <2>1. f.flags \ {"ESI"} = {"RTR"} /\ f.data = 0 /\ f.len <= 8
    BY <1>2, LegalForms
  <2> QED BY <1>1, <2>1, LegalForms, RemoteMade DEF WithoutEsi
<1>3. ASSUME "RTR" \notin f.flags, "FD" \in f.flags
      PROVE  NewFd(f.id, f.len, f.data, "BRS" \in f.flags) = {WithoutEsi(f)}
  <2>1. f.flags \ {"ESI"} = FdFlags("BRS" \in f.flags) /\ ("BRS" \in f.flags) \in BOOLEAN
    BY <1>3, LegalForms
  <2>2. f.id \in CanIds /\ f.len \in FdLengths /\ f.data <= f.len
    BY LegalForms
  <2>3. \A brs \in BOOLEAN : NewFd(f.id, f.len, f.data, brs) =
          {[id |-> f.id, len |-> f.len, flags |-> FdFlags(brs), data |-> f.data]}
    BY <1>1, <2>2, NewFdMade
  <2> QED BY <2>1, <2>3 DEF WithoutEsi
<1>4. ASSUME "RTR" \notin f.flags, "FD" \notin f.flags
      PROVE  New(f.id, f.len, f.data) = {WithoutEsi(f)}
  <2>1. f.flags \ {"ESI"} = {} /\ f.len <= 8
    BY <1>4, LegalForms
  <2> QED BY <1>1, <2>1, LegalForms, NewMade DEF WithoutEsi
<1> QED BY <1>1, <1>2, <1>3, <1>4

LEMMA EsiRestored ==
  ASSUME NEW f \in FrameShape, Legal(f)
  PROVE  WithEsi(WithoutEsi(f), "ESI" \in f.flags) = {f}
<1>1. "ESI" \in f.flags => "FD" \in f.flags
  BY DEF Legal
<1>2. [WithoutEsi(f) EXCEPT !.flags = IF "ESI" \in f.flags THEN @ \cup {"ESI"} ELSE @ \ {"ESI"}]
        = [id |-> f.id, len |-> f.len, flags |-> f.flags, data |-> f.data]
  <2>1. (IF "ESI" \in f.flags THEN (f.flags \ {"ESI"}) \cup {"ESI"}
         ELSE (f.flags \ {"ESI"}) \ {"ESI"}) = f.flags
    OBVIOUS
  <2> QED BY <2>1 DEF WithoutEsi
<1>3. "ESI" \in f.flags => "FD" \in WithoutEsi(f).flags
  BY <1>1 DEF WithoutEsi
<1> QED BY <1>2, <1>3, LegalForms DEF WithEsi

\* CAN_WriteFD and CAN_ReadFD.
LEMMA BackOverFd ==
  ASSUME NEW f \in FrameShape, Legal(f), NEW m,
         m = [FrameToMsgFd(f) EXCEPT !.MSGTYPE = @ \cup {"ECHO"}]
  PROVE  MsgFdToFrame(m) = {f}
<1>1. /\ m.ID = AsRaw(f.id) /\ m.DLC = Dlc(f) /\ m.DATA = f.data
      /\ m.MSGTYPE = f.flags \cup (IF IsExtended(f.id) THEN {"EXTENDED"} ELSE {}) \cup {"ECHO"}
  BY DEF FrameToMsgFd
<1>2. \A x \in Flags : x \in m.MSGTYPE <=> x \in f.flags
  BY <1>1 DEF Flags
<1>3. /\ "EXTENDED" \in m.MSGTYPE <=> IsExtended(f.id)
      /\ ~IsMetadata(m)
  BY <1>1 DEF FrameShape, Flags, IsMetadata
<1>4. IdFromRaw(m.ID, "EXTENDED" \in m.MSGTYPE) = {f.id}
  BY <1>1, <1>3, LegalForms, IdParts DEF IdFromRaw
<1>5. DlcToLen(m.DLC) = f.len
  BY <1>1, LegalForms, DlcAndBack
<1>6. PcanMade(m, f.id) = {WithoutEsi(f)}
  <2>1. ("BRS" \in m.MSGTYPE) = ("BRS" \in f.flags)
    BY <1>2 DEF Flags
  <2>2. ("RTR" \in m.MSGTYPE <=> "RTR" \in f.flags) /\ ("FD" \in m.MSGTYPE <=> "FD" \in f.flags)
    BY <1>2 DEF Flags
  <2>3. "RTR" \in f.flags => "FD" \notin f.flags
    BY DEF Legal
  <2> QED BY <1>1, <1>5, <2>1, <2>2, <2>3, Rebuilt DEF PcanMade
<1>7. MsgFdToFrame(m) =
        UNION {WithEsi(g, "ESI" \in m.MSGTYPE) :
               g \in UNION {PcanMade(m, id) : id \in IdFromRaw(m.ID, "EXTENDED" \in m.MSGTYPE)}}
  BY <1>3 DEF MsgFdToFrame, PcanMade
<1>8. UNION {PcanMade(m, id) : id \in {f.id}} = {WithoutEsi(f)}
  BY <1>6
<1>9. ("ESI" \in m.MSGTYPE) = ("ESI" \in f.flags)
  BY <1>2 DEF Flags
<1>10. UNION {WithEsi(g, "ESI" \in m.MSGTYPE) : g \in {WithoutEsi(f)}} = {f}
  BY <1>9, EsiRestored
<1> QED BY <1>4, <1>7, <1>8, <1>10

\* CAN_Write and CAN_Read, which know no CAN FD.
LEMMA BackOverClassic ==
  ASSUME NEW f \in FrameShape, Legal(f), NEW n \in FrameToMsg(f), NEW m,
         m = [n EXCEPT !.MSGTYPE = @ \cup {"ECHO"}]
  PROVE  MsgToFrame(m) = {f}
<1>1. /\ m.ID = AsRaw(f.id) /\ m.DLC = f.len /\ m.DATA = f.data
      /\ m.MSGTYPE = (IF IsExtended(f.id) THEN {"EXTENDED"} ELSE {})
                     \cup (f.flags \cap {"RTR"}) \cup {"ECHO"}
      /\ "FD" \notin f.flags
  BY DEF FrameToMsg
<1>2. /\ "EXTENDED" \in m.MSGTYPE <=> IsExtended(f.id)
      /\ "RTR" \in m.MSGTYPE <=> "RTR" \in f.flags
      /\ ~IsMetadata(m)
  BY <1>1 DEF IsMetadata
<1>3. IdFromRaw(m.ID, "EXTENDED" \in m.MSGTYPE) = {f.id}
  BY <1>1, <1>2, LegalForms, IdParts DEF IdFromRaw
<1>4. f.len <= 8 /\ WithoutEsi(f) = f
  <2>1. f.flags = {"RTR"} \/ f.flags = {}
    BY <1>1, LegalForms
  <2>2. f.flags \ {"ESI"} = f.flags
    BY <2>1
  <2>3. f.len <= 8
    BY <1>1, LegalForms
  <2> QED BY <2>2, <2>3, LegalForms DEF WithoutEsi
<1>5. MsgToFrame(m) =
        UNION {IF "RTR" \in m.MSGTYPE THEN Remote(id, m.DLC)
               ELSE New(id, m.DLC, Cut(m.DATA, m.DLC)) :
               id \in {f.id}}
  BY <1>1, <1>2, <1>3, <1>4, LegalForms, StepsOfFd DEF MsgToFrame
<1>6. (IF "RTR" \in m.MSGTYPE THEN Remote(f.id, m.DLC)
       ELSE New(f.id, m.DLC, Cut(m.DATA, m.DLC))) = {f}
  BY <1>1, <1>2, <1>4, Rebuilt
<1> QED BY <1>5, <1>6

\* decode_id reads what can_id wrote.
LEMMA SocketIdBack ==
  ASSUME NEW f, f.id \in CanIds
  PROVE  /\ DecodeId(CanId(f)) = {f.id}
         /\ RtrBit \in CanId(f) <=> "RTR" \in f.flags
         /\ ErrBit \notin CanId(f)
<1>1. /\ RtrBit \notin ExtendedMax /\ ErrBit \notin ExtendedMax /\ EffBit \notin ExtendedMax
      /\ RtrBit # EffBit /\ ErrBit # EffBit /\ ErrBit # RtrBit /\ EffBit = ExtBit
      /\ StandardMax \subseteq ExtendedMax
  BY Bits DEF RtrBit, ErrBit, EffBit
<1>2. EffBit \in CanId(f) <=> IsExtended(f.id)
  BY <1>1 DEF CanId, AsRaw
<1>3. RtrBit \in CanId(f) <=> "RTR" \in f.flags
  BY <1>1 DEF CanId, AsRaw
<1>4. ErrBit \notin CanId(f)
  BY <1>1 DEF CanId, AsRaw
<1>5. CanId(f) \cap ExtendedMax = AsRaw(f.id)
  BY <1>1 DEF CanId, AsRaw
<1>6. CASE IsExtended(f.id)
  <2>1. DecodeId(CanId(f)) = Extended(AsRaw(f.id))
    BY <1>2, <1>5, <1>6 DEF DecodeId
  <2>2. Extended(AsRaw(f.id)) = {f.id}
    BY <1>6, IdParts DEF IdFromRaw
  <2> QED BY <1>3, <1>4, <2>1, <2>2
<1>7. CASE ~IsExtended(f.id)
  <2>1. f.id \subseteq StandardMax /\ AsRaw(f.id) = f.id
    BY <1>7, IdParts
  <2>2. CanId(f) \cap StandardMax = f.id
    BY <1>1, <1>5, <2>1
  <2>3. DecodeId(CanId(f)) = {f.id}
    BY <1>2, <1>7, <2>1, <2>2 DEF DecodeId, Standard
  <2> QED BY <1>3, <1>4, <2>3
<1> QED BY <1>6, <1>7

\* send and recvmsg, with the structure that the length tells.
LEMMA BackOverSocket ==
  ASSUME NEW f \in FrameShape, Legal(f)
  PROVE  TryRecvOne(SocketFrame(f), TRUE) = {FrameEvent(f, TRUE)}
<1> DEFINE m == SocketFrame(f)
<1>1. /\ m.fd <=> "FD" \in f.flags
      /\ m.canId = CanId(f) /\ m.len = f.len /\ m.data = f.data
      /\ m.fdFlags = f.flags \cap {"BRS", "ESI"}
  BY DEF SocketFrame
<1>2. /\ DecodeId(m.canId) = {f.id} /\ ErrBit \notin m.canId
      /\ RtrBit \in m.canId <=> "RTR" \in f.flags
  BY <1>1, LegalForms, SocketIdBack
<1> HIDE DEF m
<1>3. ASSUME "FD" \in f.flags PROVE FdToFrame(m) = {f}
  <2>1. LenToDlc(m.len) # {}
    <3>1. DOMAIN FdSteps = 1..7
      BY DEF FdSteps
    <3>2. m.len \in FdLengths
      BY <1>1, LegalForms
    <3>3. m.len \in 0..8 \/ \E i \in 1..7 : FdSteps[i] = m.len
      BY <3>1, <3>2 DEF FdLengths
    <3>4. ASSUME NEW i \in 1..7, FdSteps[i] = m.len, m.len \notin 0..8
          PROVE  i + 8 \in LenToDlc(m.len)
      <4>1. ~(m.len <= 8)
        BY <3>2, <3>4, StepsOfFd
      <4> QED BY <3>1, <3>4, <4>1 DEF LenToDlc
    <3>5. m.len \in 0..8 => m.len \in LenToDlc(m.len)
      BY DEF LenToDlc
    <3> QED BY <3>3, <3>4, <3>5
  <2>2. /\ ("BRS" \in m.fdFlags) = ("BRS" \in f.flags)
        /\ ("ESI" \in m.fdFlags) = ("ESI" \in f.flags)
    BY <1>1
  <2>3. "RTR" \notin f.flags
    BY <1>3 DEF Legal
  <2>4. NewFd(f.id, m.len, Cut(m.data, m.len), "BRS" \in m.fdFlags) = {WithoutEsi(f)}
    BY <1>1, <1>3, <2>2, <2>3, Rebuilt
  <2>5. UNION {NewFd(id, m.len, Cut(m.data, m.len), "BRS" \in m.fdFlags) : id \in {f.id}}
          = {WithoutEsi(f)}
    BY <2>4
  <2>6. UNION {WithEsi(g, "ESI" \in m.fdFlags) : g \in {WithoutEsi(f)}} = {f}
    BY <2>2, EsiRestored
  <2> QED BY <1>2, <2>1, <2>5, <2>6 DEF FdToFrame
<1>4. ASSUME "FD" \notin f.flags PROVE ClassicToFrame(m) = {f}
  <2>1. f.len <= 8 /\ WithoutEsi(f) = f
    <3>1. f.flags = {"RTR"} \/ f.flags = {}
      BY <1>4, LegalForms
    <3>2. f.flags \ {"ESI"} = f.flags
      BY <3>1
    <3>3. f.len <= 8
      BY <1>4, LegalForms
    <3> QED BY <3>2, <3>3, LegalForms DEF WithoutEsi
  <2>2. (IF RtrBit \in m.canId THEN Remote(f.id, m.len)
         ELSE New(f.id, m.len, Cut(m.data, m.len))) = {f}
    BY <1>1, <1>2, <1>4, <2>1, Rebuilt
  <2>3. ~(m.len > 8)
    BY <1>1, <2>1, LegalLengths
  <2>4. ClassicToFrame(m) =
          UNION {IF RtrBit \in m.canId THEN Remote(id, m.len)
                 ELSE New(id, m.len, Cut(m.data, m.len)) : id \in {f.id}}
    BY <1>2, <2>3 DEF ClassicToFrame
  <2> QED BY <2>2, <2>4
<1>5. TryRecvOne(m, TRUE) = {FrameEvent(g, TRUE) : g \in {f}}
  BY <1>1, <1>2, <1>3, <1>4 DEF TryRecvOne
<1> QED BY <1>5 DEF m

\* A message with no status word and no metadata is read as its frame.
LEMMA ReadFrame ==
  ASSUME NEW m, NEW fdMode \in BOOLEAN, NEW f, ~IsMetadata(m), "ECHO" \in m.MSGTYPE,
         (IF fdMode THEN MsgFdToFrame(m) ELSE MsgToFrame(m)) = {f}
  PROVE  ReadOne(fdMode, {}, m) = {FrameEvent(f, TRUE)}
<1>1. Classify({}) = "Ok"
  BY DEF Classify
<1>2. WarningsOf({}) = {}
  BY DEF WarningsOf
<1>3. MetadataEvent(m) = {}
  BY DEF MetadataEvent, IsMetadata
<1>4. ("ECHO" \in m.MSGTYPE) = TRUE
  OBVIOUS
<1>5. ReadOne(fdMode, {}, m) = {FrameEvent(g, "ECHO" \in m.MSGTYPE) : g \in {f}}
  BY <1>1, <1>2, <1>3 DEF ReadOne
<1> QED BY <1>4, <1>5

LEMMA ComesBack ==
  ASSUME NEW f \in FrameShape, Legal(f), "FD" \in f.flags => FdEnabled
  PROVE  UNION {Received(w) : w \in Echoed(f)} = {FrameEvent(f, TRUE)}
<1>1. CASE OnSocket
  <2>1. Echoed(f) = {[message |-> SocketFrame(f), echo |-> TRUE]}
    BY <1>1 DEF Echoed
  <2>2. Received([message |-> SocketFrame(f), echo |-> TRUE]) = {FrameEvent(f, TRUE)}
    BY <1>1, BackOverSocket DEF Received
  <2> QED BY <2>1, <2>2
<1>2. CASE ~OnSocket /\ FdEnabled
  <2> DEFINE m == [FrameToMsgFd(f) EXCEPT !.MSGTYPE = @ \cup {"ECHO"}]
  <2>1. Echoed(f) = {[word |-> {}, message |-> m]}
    BY <1>2 DEF Echoed
  <2>2. MsgFdToFrame(m) = {f}
    BY BackOverFd
  <2>3. ~IsMetadata(m) /\ "ECHO" \in m.MSGTYPE
    BY DEF IsMetadata, FrameToMsgFd, FrameShape, Flags
  <2>4. ReadOne(TRUE, {}, m) = {FrameEvent(f, TRUE)}
    BY <2>2, <2>3, ReadFrame
  <2>5. Received([word |-> {}, message |-> m]) = {FrameEvent(f, TRUE)}
    BY <1>2, <2>4 DEF Received
  <2> HIDE DEF m
  <2> QED BY <2>1, <2>5
<1>3. CASE ~OnSocket /\ ~FdEnabled
  <2>1. PICK n : FrameToMsg(f) = {n}
    BY <1>3 DEF FrameToMsg
  <2> DEFINE m == [n EXCEPT !.MSGTYPE = @ \cup {"ECHO"}]
  <2>2. Echoed(f) = {[word |-> {}, message |-> m]}
    BY <1>3, <2>1 DEF Echoed
  <2>3. MsgToFrame(m) = {f}
    BY <2>1, BackOverClassic
  <2>4. ~IsMetadata(m) /\ "ECHO" \in m.MSGTYPE
    BY <2>1 DEF IsMetadata, FrameToMsg
  <2>5. ReadOne(FALSE, {}, m) = {FrameEvent(f, TRUE)}
    BY <2>3, <2>4, ReadFrame
  <2>6. Received([word |-> {}, message |-> m]) = ReadOne(FdEnabled, {}, m) /\ FdEnabled = FALSE
    BY <1>3 DEF Received, FdEnabled
  <2> HIDE DEF m
  <2> QED BY <2>2, <2>5, <2>6
<1> QED BY <1>1, <1>2, <1>3

\* convert.rs 55-124 against 22-97, and socket.rs 145-194 against 629-674: on every route a
\* legal frame that is sent comes back as an echo with every field, and the subscription
\* gets it if it asks for its identifier.
THEOREM FramesAlwaysComeBack == PathSpec => []FramesComeBack
<1>1. ASSUME PathInv PROVE FramesComeBack
  <2> SUFFICES ASSUME stage = "done", NEW f \in sent, Legal(f)
               PROVE  /\ event = {FrameEvent(f, TRUE)}
                      /\ delivered = IF Matches(channel.rules, f.id) THEN {f} ELSE {}
    BY DEF FramesComeBack
  <2>1. sent = {f} /\ f \in FrameShape /\ ("FD" \in f.flags => FdEnabled)
    BY <1>1, ApplicationFrames DEF PathInv, One
  <2>2. wire = UNION {Echoed(g) : g \in sent}
    BY <1>1 DEF PathInv
  <2>3. wire = Echoed(f)
    BY <2>1, <2>2
  <2>4. event = UNION {Received(w) : w \in wire}
    BY <1>1 DEF PathInv
  <2>5. event = {FrameEvent(f, TRUE)}
    BY <2>1, <2>3, <2>4, ComesBack
  <2>6. delivered = {e.frame : e \in {x \in event : Wanted(x)}}
    BY <1>1 DEF PathInv
  <2>7. Wanted(FrameEvent(f, TRUE)) <=> Matches(channel.rules, f.id)
    BY DEF Wanted, FrameEvent
  <2>8. FrameEvent(f, TRUE).frame = f
    BY DEF FrameEvent
  <2> QED BY <2>5, <2>6, <2>7, <2>8
<1> QED BY <1>1, PathInvariance, PTL

-----------------------------------------------------------------------------
(* The hardware filters *)

LEMMA OnlyRule ==
  ASSUME NEW rules \in Seq(Rule), Len(rules) = 1
  PROVE  DOMAIN rules = {1} /\ rules[1] \in Rule
  OBVIOUS

LEMMA OneRuleMatches ==
  ASSUME NEW rules \in Seq(Rule), Len(rules) = 1, NEW id
  PROVE  Matches(rules, id) <=> (BaseMatches(rules[1], id) # rules[1].invert)
<1>1. DOMAIN rules = {1} /\ rules[1].invert \in BOOLEAN
  BY OnlyRule DEF Rule
<1>2. BaseMatches(rules[1], id) \in BOOLEAN
  BY DEF BaseMatches
<1>3. CASE rules[1].invert = TRUE
  <2>1. {i \in DOMAIN rules : ~rules[i].invert} = {}
    BY <1>1, <1>3
  <2> QED BY <1>1, <1>2, <1>3, <2>1 DEF Matches
<1>4. CASE rules[1].invert = FALSE
  <2>1. {i \in DOMAIN rules : ~rules[i].invert} = {1}
    BY <1>1, <1>4
  <2> QED BY <1>1, <1>2, <1>4, <2>1 DEF Matches
<1> QED BY <1>1, <1>3, <1>4

LEMMA SubsetAtMost == ASSUME NEW a, NEW b, a \subseteq b PROVE AtMost(a, b)
  BY DEF AtMost

\* channel.rs 82-109: the range of a rule holds every identifier that the rule matches.
LEMMA RangeLosesNothing ==
  ASSUME NEW rule \in Rule, IsOneRange(rule), NEW id \in CanIds, BaseMatches(rule, id)
  PROVE  RangePasses(FilterRange(rule), id)
<1> DEFINE from == rule.id \cap rule.mask \cap Maximum(rule)
<1>1. \A b \in rule.mask : b \in id <=> b \in rule.id
  BY DEF BaseMatches, Differing
<1>2. IsExtended(id) = IsExtended(rule.id)
  BY <1>1 DEF IsOneRange, IsExtended
<1>3. AsRaw(id) \subseteq Maximum(rule) /\ Maximum(rule) \subseteq ExtendedMax
  <2>1. CASE IsExtended(id)
    BY <1>2, <2>1 DEF AsRaw, Maximum
  <2>2. CASE ~IsExtended(id)
    BY <1>2, <2>2, IdParts, Bits DEF AsRaw, Maximum
  <2> QED BY <2>1, <2>2
<1>4. from \subseteq AsRaw(id)
  BY <1>1, <1>3 DEF AsRaw
<1>5. AsRaw(id) \subseteq from \cup Wildcard(rule)
  BY <1>1, <1>3 DEF AsRaw, Wildcard
<1>6. FilterRange(rule) = [mode |-> "range", from |-> from, to |-> from \cup Wildcard(rule),
                           extended |-> IsExtended(rule.id)]
  BY DEF FilterRange
<1> HIDE DEF from
<1> QED BY <1>2, <1>4, <1>5, <1>6, SubsetAtMost DEF RangePasses

\* A set of bits has a highest one.
LEMMA HighestBit ==
  ASSUME NEW D, D \subseteq ExtendedMax, D # {}
  PROVE  \E j \in D : \A k \in D : ~(k > j)
<1> DEFINE T == {ExtBit - b : b \in D}
<1>1. D \subseteq Nat /\ \A b \in D : ExtBit - b \in Nat
  BY WidthAssumption DEF ExtendedMax, ExtBit
<1>2. T \subseteq Nat /\ T # {}
  BY <1>1
<1> HIDE DEF T
<1>3. IsWellFoundedOn(OpToRel(<, Nat), Nat)
  BY NatLessThanWellFounded
<1>4. PICK t \in T : \A s \in T : ~(<<s, t>> \in OpToRel(<, Nat))
  BY <1>2, <1>3, WFMin
<1>5. \A s \in T : ~(s < t)
  BY <1>2, <1>4 DEF OpToRel
<1>6. PICK j \in D : t = ExtBit - j
  BY DEF T
<1>7. ASSUME NEW k \in D PROVE ~(k > j)
  <2>1. ~(ExtBit - k < ExtBit - j)
    BY <1>5, <1>6 DEF T
  <2> QED BY <1>1, <2>1, Bits
<1> QED BY <1>7

\* Numbers between from and from | w, for a w of the form 2^n - 1 that has no bit of from,
\* have the bits of from outside w.
LEMMA RangeNumbers ==
  ASSUME NEW w \in SUBSET ExtendedMax, LowRun(w),
         NEW from \in SUBSET ExtendedMax, from \cap w = {},
         NEW raw \in SUBSET ExtendedMax, AtMost(from, raw), AtMost(raw, from \cup w)
  PROVE  raw \ w = from
<1> DEFINE D == {b \in ExtendedMax \ w : ~(b \in raw <=> b \in from)}
<1>1. ASSUME D # {} PROVE FALSE
  <2>1. PICK j \in D : \A k \in D : ~(k > j)
    BY <1>1, HighestBit
  <2>2. j \in Nat /\ j \notin w /\ ~(j \in raw <=> j \in from)
    BY <2>1, Bits
  <2>3. ASSUME NEW k \in ExtendedMax, k > j PROVE k \notin w
    <3>1. j \in 0..k
      BY <2>2, <2>3, Bits
    <3> QED BY <2>2, <3>1 DEF LowRun
  <2>4. CASE j \in raw
    <3>1. PICK k \in (from \cup w) \ raw : k > j
      BY <2>2, <2>4 DEF AtMost
    <3>2. k \in D
      BY <2>3, <3>1
    <3> QED BY <2>1, <3>1, <3>2
  <2>5. CASE j \in from
    <3>1. PICK k \in raw \ from : k > j
      BY <2>2, <2>5 DEF AtMost
    <3>2. k \in D
      BY <2>3, <3>1
    <3> QED BY <2>1, <3>1, <3>2
  <2> QED BY <2>2, <2>4, <2>5
<1> QED BY <1>1

\* channel.rs 92-109: a range is made only of rules that it says exactly.
LEMMA RangeLetsNothingElse ==
  ASSUME NEW rule \in Rule, BuiltRule(rule), IsOneRange(rule), NEW id \in CanIds,
         RangePasses(FilterRange(rule), id)
  PROVE  BaseMatches(rule, id)
<1> DEFINE from == rule.id \cap rule.mask \cap Maximum(rule)
<1>1. FilterRange(rule) = [mode |-> "range", from |-> from, to |-> from \cup Wildcard(rule),
                           extended |-> IsExtended(rule.id)]
  BY DEF FilterRange
<1>2. /\ IsExtended(id) = IsExtended(rule.id)
      /\ AtMost(from, AsRaw(id)) /\ AtMost(AsRaw(id), from \cup Wildcard(rule))
  BY <1>1 DEF RangePasses
<1>3. /\ Maximum(rule) \subseteq ExtendedMax /\ LowRun(Wildcard(rule))
      /\ Wildcard(rule) = Maximum(rule) \ rule.mask
  BY Bits DEF Maximum, IsOneRange, Wildcard
<1>4. AsRaw(id) \ Wildcard(rule) = from
  <2>1. from \cap Wildcard(rule) = {}
    BY <1>3
  <2> HIDE DEF from
  <2>2. from \subseteq ExtendedMax /\ AsRaw(id) \subseteq ExtendedMax
    BY <1>3 DEF from, AsRaw
  <2> QED BY <1>2, <1>3, <2>1, <2>2, RangeNumbers
<1>5. ASSUME NEW b \in rule.mask PROVE b \in id <=> b \in rule.id
  <2>1. b = ExtBit \/ b \in ExtendedMax
    BY DEF BuiltRule, IdMask
  <2>2. CASE b = ExtBit
    BY <1>2, <2>2 DEF IsExtended
  <2>3. CASE b \in Maximum(rule)
    BY <1>3, <1>4, <2>3 DEF AsRaw
  <2>4. CASE b \in ExtendedMax \ Maximum(rule)
    <3>1. ~IsExtended(rule.id) /\ ~IsExtended(id) /\ b \notin StandardMax
      BY <1>2, <2>4 DEF Maximum
    <3>2. id \subseteq StandardMax /\ rule.id \subseteq StandardMax
      BY <3>1, IdParts DEF BuiltRule
    <3> QED BY <3>1, <3>2
  <2> QED BY <2>1, <2>2, <2>3, <2>4
<1> QED BY <1>5 DEF BaseMatches, Differing

\* The bits of an identifier that a rule may look at are those of its can_id.
LEMMA DecodedBits ==
  ASSUME NEW canId, CleanId(canId), NEW id \in DecodeId(canId)
  PROVE  \A b \in IdMask : b \in canId <=> b \in id
<1>0. EffBit = ExtBit /\ ExtBit \notin ExtendedMax /\ StandardMax \subseteq ExtendedMax
  BY Bits DEF EffBit
<1>1. CASE EffBit \in canId
  <2>1. id = (canId \cap ExtendedMax) \cup {ExtBit}
    BY <1>1 DEF DecodeId, Extended
  <2> QED BY <1>0, <1>1, <2>1 DEF IdMask
<1>2. CASE EffBit \notin canId
  <2>1. id = canId \cap StandardMax
    BY <1>2 DEF DecodeId, Standard
  <2> QED BY <1>0, <1>2, <2>1 DEF IdMask, CleanId
<1> QED BY <1>1, <1>2

\* socket.rs 100-103: a FilterSet without rules is sent as a filter that passes everything.
LEMMA NoRulesPass == ASSUME NEW canId PROVE KernelPasses(KernelFilters(<<>>), canId)
<1> DEFINE all == [id |-> {}, mask |-> {}]
<1>1. KernelFilters(<<>>) = {all}
  BY DEF KernelFilters
<1>2. all.mask = {} /\ (InvBit \in all.id) = FALSE
  OBVIOUS
<1>3. BaseMatches(all, canId) = TRUE
  BY <1>2 DEF BaseMatches
<1>4. BaseMatches(all, canId) # (InvBit \in all.id)
  BY <1>2, <1>3
<1> HIDE DEF all
<1> QED BY <1>1, <1>4 DEF KernelPasses

\* socket.rs 99-117: the kernel's filters pass every frame that the rules admit.
LEMMA KernelLosesNothing ==
  ASSUME NEW rules \in Seq(Rule), \A i \in DOMAIN rules : BuiltRule(rules[i]),
         NEW canId, CleanId(canId), NEW id \in DecodeId(canId), Matches(rules, id)
  PROVE  KernelPasses(KernelFilters(rules), canId)
<1>1. CASE rules = <<>>
  BY <1>1, NoRulesPass
<1>2. ASSUME NEW i \in DOMAIN rules
      PROVE  /\ rules[i].invert \in BOOLEAN
             /\ BaseMatches(KernelFilter(rules[i]), canId) <=> BaseMatches(rules[i], id)
             /\ InvBit \in KernelFilter(rules[i]).id <=> rules[i].invert
  <2>1. rules[i] \in Rule /\ BuiltRule(rules[i])
    OBVIOUS
  <2>2. InvBit \notin IdMask
    BY Bits DEF InvBit, IdMask
  <2>3. rules[i].id \subseteq IdMask /\ rules[i].mask \subseteq IdMask
    BY <2>1, IdParts DEF BuiltRule
  <2>4. /\ KernelFilter(rules[i]).mask = rules[i].mask
        /\ KernelFilter(rules[i]).id = rules[i].id \cup (IF rules[i].invert THEN {InvBit} ELSE {})
    BY DEF KernelFilter
  <2>5. \A b \in rules[i].mask : (b \in canId <=> b \in id)
                                 /\ (b \in KernelFilter(rules[i]).id <=> b \in rules[i].id)
    BY <2>2, <2>3, <2>4, DecodedBits
  <2>6. BaseMatches(KernelFilter(rules[i]), canId) <=> BaseMatches(rules[i], id)
    BY <2>4, <2>5 DEF BaseMatches, Differing
  <2>7. rules[i].invert \in BOOLEAN
    BY <2>1 DEF Rule
  <2> QED BY <2>2, <2>3, <2>4, <2>6, <2>7
<1>3. ASSUME rules # <<>>
      PROVE  \E i \in DOMAIN rules :
               BaseMatches(KernelFilter(rules[i]), canId) # (InvBit \in KernelFilter(rules[i]).id)
  <2>1. DOMAIN rules # {}
    BY <1>3
  <2>2. CASE \E i \in DOMAIN rules : rules[i].invert
    <3>1. PICK i \in DOMAIN rules : rules[i].invert
      BY <2>2
    <3>2. ~BaseMatches(rules[i], id)
      BY <3>1 DEF Matches
    <3>3. ~BaseMatches(KernelFilter(rules[i]), canId) /\ InvBit \in KernelFilter(rules[i]).id
      BY <1>2, <3>1, <3>2
    <3>4. BaseMatches(KernelFilter(rules[i]), canId) \in BOOLEAN
      BY DEF BaseMatches
    <3> QED BY <3>3, <3>4
  <2>3. CASE \A i \in DOMAIN rules : ~rules[i].invert
    <3>1. PICK i \in DOMAIN rules : BaseMatches(rules[i], id)
      BY <2>1, <2>3 DEF Matches
    <3>2. BaseMatches(KernelFilter(rules[i]), canId) /\ InvBit \notin KernelFilter(rules[i]).id
      BY <1>2, <2>3, <3>1
    <3>4. BaseMatches(KernelFilter(rules[i]), canId) \in BOOLEAN
      BY DEF BaseMatches
    <3> QED BY <3>2, <3>4
  <2> QED BY <2>2, <2>3
<1>4. CASE rules # <<>>
  <2>1. PICK i \in DOMAIN rules :
          BaseMatches(KernelFilter(rules[i]), canId) # (InvBit \in KernelFilter(rules[i]).id)
    BY <1>3, <1>4
  <2>2. KernelFilter(rules[i]) \in KernelFilters(rules)
    BY <1>4 DEF KernelFilters
  <2> QED BY <2>1, <2>2 DEF KernelPasses
<1> QED BY <1>1, <1>4

LEMMA SentIdClean == ASSUME NEW f, f.id \in CanIds PROVE CleanId(CanId(f))
<1>1. CASE IsExtended(f.id)
  BY <1>1 DEF CanId, CleanId
<1>2. CASE ~IsExtended(f.id)
  <2>1. f.id \subseteq StandardMax /\ EffBit \notin ExtendedMax /\ RtrBit \notin ExtendedMax
    BY <1>2, IdParts, Bits DEF EffBit, RtrBit
  <2> QED BY <1>2, <2>1 DEF CanId, CleanId, AsRaw
<1> QED BY <1>1, <1>2

LEMMA OpenPasses == ASSUME NEW id PROVE RangePasses([mode |-> "open"], id)
  BY DEF RangePasses

\* channel.rs 111-151: the PCAN filter passes every identifier that the rules admit.
LEMMA PcanLosesNothing ==
  ASSUME NEW rules \in Seq(Rule), NEW id \in CanIds, Matches(rules, id)
  PROVE  RangePasses(ApplyFilter(rules), id)
<1>1. CASE Len(rules) # 1
  BY <1>1, OpenPasses DEF ApplyFilter
<1>2. CASE Len(rules) = 1
  <2> DEFINE rule == rules[1]
  <2>1. rule \in Rule /\ (BaseMatches(rule, id) # rule.invert)
    BY <1>2, OnlyRule, OneRuleMatches
  <2>2. ~(rule.invert /\ rule.mask = {})
    <3>1. rule.mask = {} => BaseMatches(rule, id) = TRUE
      BY DEF BaseMatches
    <3> QED BY <2>1, <3>1 DEF Rule
  <2>3. CASE IsOneRange(rule)
    <3>1. ApplyFilter(rules) = FilterRange(rule)
      BY <1>2, <2>2, <2>3 DEF ApplyFilter
    <3>2. ~rule.invert /\ BaseMatches(rule, id) \in BOOLEAN /\ rule.invert \in BOOLEAN
      BY <2>1, <2>3 DEF IsOneRange, BaseMatches, Rule
    <3>3. BaseMatches(rule, id)
      BY <2>1, <3>2
    <3> QED BY <2>1, <2>3, <3>1, <3>3, RangeLosesNothing
  <2>4. CASE ~IsOneRange(rule)
    BY <1>2, <2>2, <2>4, OpenPasses DEF ApplyFilter
  <2> QED BY <2>3, <2>4
<1> QED BY <1>1, <1>2

\* A PCAN filter that restricts says exactly what its rules say.
LEMMA PcanIsExact ==
  ASSUME NEW rules \in Seq(Rule), \A i \in DOMAIN rules : BuiltRule(rules[i]),
         ApplyFilter(rules).mode # "open", NEW id \in CanIds
  PROVE  RangePasses(ApplyFilter(rules), id) <=> Matches(rules, id)
<1> DEFINE rule == rules[1]
<1>1. Len(rules) = 1
  BY DEF ApplyFilter
<1>2. rule \in Rule /\ BuiltRule(rule)
  BY <1>1, OnlyRule
<1>3. Matches(rules, id) => RangePasses(ApplyFilter(rules), id)
  BY PcanLosesNothing
<1>4. CASE rule.invert /\ rule.mask = {}
  <2>1. ~IsOneRange(rule)
    BY <1>4 DEF IsOneRange
  <2>2. ApplyFilter(rules) = [mode |-> "closed"]
    BY <1>1, <1>4, <2>1 DEF ApplyFilter
  <2>3. ~RangePasses([mode |-> "closed"], id)
    BY DEF RangePasses
  <2> QED BY <1>3, <2>2, <2>3
<1>5. CASE ~(rule.invert /\ rule.mask = {})
  <2>1. IsOneRange(rule) /\ ApplyFilter(rules) = FilterRange(rule)
    BY <1>1, <1>5 DEF ApplyFilter
  <2>2. rule.invert = FALSE
    BY <1>2, <2>1 DEF IsOneRange, Rule
  <2>3. RangePasses(ApplyFilter(rules), id) => BaseMatches(rule, id)
    BY <1>2, <2>1, RangeLetsNothingElse
  <2>4. BaseMatches(rule, id) => Matches(rules, id)
    <3>1. BaseMatches(rule, id) \in BOOLEAN
      BY DEF BaseMatches
    <3> QED BY <1>1, <2>2, <3>1, OneRuleMatches
  <2> QED BY <1>3, <2>3, <2>4
<1> QED BY <1>4, <1>5

LEMMA OnBusOne == ASSUME NEW w PROVE One(OnBus(w)) /\ OnBus(w) \subseteq CanIds
  BY StandardIds, ExtendedIds, SocketIds DEF OnBus, IdFromRaw, One

\* concepts.md 135-138, for filter_range and apply_filter (channel.rs 82-151) and for
\* kernel_filters (socket.rs 99-117): the hardware stops nothing that the subscription asks
\* for, and a range or a closed filter on PCAN lets through nothing else.  On a socket the
\* rules must have been built by FilterRule's own constructors.
THEOREM FilterAlwaysFaithful ==
  ASSUME \A c \in Channels : KernelSeesIds(c)
  PROVE  PathSpec => []FilterIsFaithful
<1>1. ASSUME PathInv PROVE NothingIsFilteredAway
  <2> SUFFICES ASSUME stage = "stopped", NEW w \in wire, NEW id \in OnBus(w),
                      Matches(channel.rules, id)
               PROVE  FALSE
    BY DEF NothingIsFilteredAway
  <2>1. channel \in Channels /\ hardware = Pushed(channel) /\ wire = {w} /\ w \in Wire
    BY <1>1 DEF PathInv, One
  <2>2. channel.rules \in Seq(Rule)
    BY <2>1, ChannelAssumption
  <2>3. ~Passes(w)
    BY <1>1, <2>1 DEF PathInv
  <2>4. OnBus(w) = {id} /\ id \in CanIds
    BY OnBusOne DEF One
  <2>5. CASE ~OnSocket
    <3>1. hardware = ApplyFilter(channel.rules)
      BY <2>1, <2>5 DEF Pushed, OnSocket
    <3>2. RangePasses(hardware, id)
      BY <2>2, <2>4, <3>1, PcanLosesNothing
    <3> QED BY <2>3, <2>4, <2>5, <3>2 DEF Passes
  <2>6. CASE OnSocket
    <3>1. hardware = KernelFilters(channel.rules)
      BY <2>1, <2>6 DEF Pushed, OnSocket
    <3>2. id \in DecodeId(w.message.canId)
      BY <2>6 DEF OnBus
    <3>3. CASE channel.rules = <<>>
      <4>1. KernelPasses(hardware, w.message.canId)
        BY <3>1, <3>3, NoRulesPass
      <4> QED BY <2>3, <2>6, <4>1 DEF Passes
    <3>4. CASE channel.rules # <<>>
      <4>1. \A i \in DOMAIN channel.rules : BuiltRule(channel.rules[i])
        BY <2>1, <2>6, <3>4 DEF KernelSeesIds, OnSocket
      <4>2. CleanId(w.message.canId)
        <5>1. CASE sent = {}
          <6>1. w \in Traffic[channel.traffic]
            BY <1>1, <2>1, <5>1 DEF PathInv
          <6> QED BY <2>1, <2>6, <3>4, <6>1 DEF KernelSeesIds, OnSocket
        <5>2. CASE sent # {}
          <6>1. wire = UNION {Echoed(f) : f \in sent} /\ sent \subseteq Application
            BY <1>1, <5>2 DEF PathInv
          <6>2. PICK f \in sent : w \in Echoed(f)
            BY <6>1
          <6>3. w.message.canId = CanId(f) /\ f.id \in CanIds
            BY <2>6, <6>1, <6>2, ApplicationFrames DEF Echoed, SocketFrame, FrameShape
          <6> QED BY <6>3, SentIdClean
        <5> QED BY <5>1, <5>2
      <4>3. KernelPasses(hardware, w.message.canId)
        BY <2>2, <3>1, <3>2, <4>1, <4>2, KernelLosesNothing
      <4> QED BY <2>3, <2>6, <4>3 DEF Passes
    <3> QED BY <3>3, <3>4
  <2> QED BY <2>5, <2>6
<1>2. ASSUME PathInv PROVE RangeIsExact
  <2> SUFFICES ASSUME ~OnSocket, hardware.mode # "open", NEW id \in CanIds,
                      \A i \in DOMAIN channel.rules : BuiltRule(channel.rules[i])
               PROVE  RangePasses(hardware, id) <=> Matches(channel.rules, id)
    BY DEF RangeIsExact
  <2>1. channel \in Channels /\ hardware = Pushed(channel)
    BY <1>2 DEF PathInv
  <2>2. hardware = ApplyFilter(channel.rules)
    BY <2>1 DEF Pushed, OnSocket
  <2>3. channel.rules \in Seq(Rule)
    BY <2>1, ChannelAssumption
  <2> QED BY <2>2, <2>3, PcanIsExact
<1>3. PathInv => FilterIsFaithful
  BY <1>1, <1>2 DEF FilterIsFaithful
<1> QED BY <1>3, PathInvariance, PTL
-----------------------------------------------------------------------------
(* Status events *)

BusWarnings == {"BUS_LIGHT", "BUS_HEAVY", "BUS_PASSIVE"}

Fits(e) ==
  /\ e.state = "Active" => e.warnings \cap BusWarnings = {}
  /\ "BUS_PASSIVE" \in e.warnings => e.state \in {"ErrorPassive", "BusOff"}
  /\ e.state = "ErrorPassive" => "BUS_PASSIVE" \in e.warnings

\* status.rs: a warning is there if and only if its bit is.
LEMMA WarningsAreBits ==
  ASSUME NEW status
  PROVE  /\ "BUS_LIGHT" \in WarningsOf(status) <=> "BUSLIGHT" \in status
         /\ "BUS_HEAVY" \in WarningsOf(status) <=> "BUSHEAVY" \in status
         /\ "BUS_PASSIVE" \in WarningsOf(status) <=> "BUSPASSIVE" \in status
<1>1. \A bit \in BusBits : /\ WarningOf[bit] = "BUS_LIGHT" <=> bit = "BUSLIGHT"
                           /\ WarningOf[bit] = "BUS_HEAVY" <=> bit = "BUSHEAVY"
                           /\ WarningOf[bit] = "BUS_PASSIVE" <=> bit = "BUSPASSIVE"
  BY DEF BusBits, WarningOf
<1>2. {"BUSLIGHT", "BUSHEAVY", "BUSPASSIVE"} \subseteq BusBits
  BY DEF BusBits
<1> QED BY <1>1, <1>2 DEF WarningsOf

LEMMA StatesOfWords ==
  ASSUME NEW status
  PROVE  /\ "BUSOFF" \in status => BusStateOf(status) = "BusOff"
         /\ "BUSOFF" \notin status /\ "BUSPASSIVE" \in status => BusStateOf(status) = "ErrorPassive"
         /\ "BUSOFF" \notin status /\ "BUSPASSIVE" \notin status =>
              BusStateOf(status) = IF status \cap {"BUSHEAVY", "BUSLIGHT"} # {} THEN "Warning"
                                   ELSE "Active"
<1>1. CASE "BUSOFF" \in status
  <2>1. ~(status \cap {"BUSOFF", "BUSPASSIVE"} = {})
    BY <1>1
  <2> QED BY <1>1, <2>1 DEF BusStateOf
<1>2. CASE "BUSOFF" \notin status /\ "BUSPASSIVE" \in status
  <2>1. ~(status \cap {"BUSOFF", "BUSPASSIVE"} = {})
    BY <1>2
  <2> QED BY <1>2, <2>1 DEF BusStateOf
<1>3. CASE "BUSOFF" \notin status /\ "BUSPASSIVE" \notin status
  <2>1. status \cap {"BUSOFF", "BUSPASSIVE"} = {}
    BY <1>3
  <2> QED BY <1>3, <2>1 DEF BusStateOf
<1> QED BY <1>1, <1>2, <1>3

\* bus_state and warnings read the same word, so that they agree; a full transmit queue
\* says nothing of the bus.
LEMMA WordFits ==
  ASSUME NEW status, NEW more, more \cap BusWarnings = {}
  PROVE  Fits(StatusEvent(BusStateOf(status), WarningsOf(status) \cup more))
<1> DEFINE warnings == WarningsOf(status) \cup more
           state == BusStateOf(status)
<1>1. /\ "BUS_LIGHT" \in warnings <=> "BUSLIGHT" \in status
      /\ "BUS_HEAVY" \in warnings <=> "BUSHEAVY" \in status
      /\ "BUS_PASSIVE" \in warnings <=> "BUSPASSIVE" \in status
  BY WarningsAreBits DEF BusWarnings
<1>2. /\ state = "Active" => "BUSPASSIVE" \notin status
                             /\ status \cap {"BUSHEAVY", "BUSLIGHT"} = {}
      /\ "BUSPASSIVE" \in status => state \in {"ErrorPassive", "BusOff"}
      /\ state = "ErrorPassive" => "BUSPASSIVE" \in status
  BY StatesOfWords
<1> HIDE DEF warnings, state
<1>3. /\ state = "Active" => warnings \cap BusWarnings = {}
      /\ "BUS_PASSIVE" \in warnings => state \in {"ErrorPassive", "BusOff"}
      /\ state = "ErrorPassive" => "BUS_PASSIVE" \in warnings
  BY <1>1, <1>2 DEF BusWarnings
<1>4. Fits(StatusEvent(state, warnings))
  BY <1>3 DEF Fits, StatusEvent
<1> QED BY <1>4 DEF warnings, state

LEMMA MetadataFits ==
  ASSUME NEW m, NEW e \in MetadataEvent(m)
  PROVE  /\ e.is = "Status" /\ Fits(e)
         /\ "STATUS" \in m.MSGTYPE => e.state = BusStateOf(m.status)
         /\ "STATUS" \notin m.MSGTYPE => e.state # "BusOff"
<1>1. CASE "STATUS" \in m.MSGTYPE
  <2>1. e = StatusEvent(BusStateOf(m.status), WarningsOf(m.status) \cup {})
    BY <1>1 DEF MetadataEvent
  <2>2. Fits(e)
    BY <2>1, WordFits DEF BusWarnings
  <2>3. e.is = "Status" /\ e.state = BusStateOf(m.status)
    BY <2>1 DEF StatusEvent
  <2> QED BY <1>1, <2>2, <2>3
<1>2. CASE "STATUS" \notin m.MSGTYPE
  <2>1. PICK warnings :
          e = StatusEvent(IF "BUS_PASSIVE" \in warnings THEN "ErrorPassive" ELSE "Warning",
                          warnings)
    BY <1>2 DEF MetadataEvent
  <2>2. /\ e.is = "Status" /\ e.warnings = warnings
        /\ e.state = IF "BUS_PASSIVE" \in warnings THEN "ErrorPassive" ELSE "Warning"
    BY <2>1 DEF StatusEvent
  <2>3. e.state # "BusOff"
    BY <2>2
  <2> QED BY <1>2, <2>2, <2>3 DEF Fits
<1> QED BY <1>1, <1>2

\* status.rs: a word with BUSOFF, or with any other failure, is an error and no status.
LEMMA BusOffFails ==
  ASSUME NEW status, "BUSOFF" \in status
  PROVE  Classify(status) \in {"Permanent", "Fatal"}
<1>1. status \cap FatalBits # {}
  BY DEF FatalBits
<1> QED BY <1>1 DEF Classify

LEMMA Outcomes ==
  ASSUME NEW status
  PROVE  Classify(status) \in {"Permanent", "Fatal", "Empty", "TxBusy", "Ok"}
  BY DEF Classify

LEMMA EventKinds ==
  /\ \A frame, echo : FrameEvent(frame, echo).is = "Frame"
  /\ \A kind : Failure(kind).is = "Failed"
  /\ \A state, warnings : StatusEvent(state, warnings).is = "Status"
  BY DEF FrameEvent, Failure, StatusEvent

\* bus_state: bus off if and only if its bit is set.
LEMMA BusOffIsABit ==
  ASSUME NEW status
  PROVE  BusStateOf(status) = "BusOff" <=> "BUSOFF" \in status
<1>1. CASE "BUSOFF" \in status
  BY <1>1, StatesOfWords
<1>2. CASE "BUSOFF" \notin status
  <2>1. BusStateOf(status) \in {"ErrorPassive", "Warning", "Active"}
    BY <1>2, StatesOfWords
  <2> QED BY <1>2, <2>1
<1> QED BY <1>1, <1>2

\* A message of the driver itself is no frame.
LEMMA MetadataIsNoFrame ==
  ASSUME NEW m, IsMetadata(m)
  PROVE  MsgFdToFrame(m) = {} /\ MsgToFrame(m) = {}
  BY DEF MsgFdToFrame, MsgToFrame

\* rx/mod.rs, read_one: what it says of the bus, whichever way the driver told it.
LEMMA PcanStatus ==
  ASSUME NEW fdMode, NEW status \in SUBSET StatusBits, NEW m, NEW e \in ReadOne(fdMode, status, m)
  PROVE  /\ e.is = "Status" => Fits(e)
         /\ "BUSOFF" \in status => e.is = "Failed"
         /\ IsMetadata(m) => e.is \in {"Status", "Failed"}
         /\ status = {} /\ "STATUS" \in m.MSGTYPE /\ "BUSOFF" \in m.status => e.state = "BusOff"
         /\ e.is = "Status" /\ e.state = "BusOff" =>
              status = {} /\ "STATUS" \in m.MSGTYPE /\ "BUSOFF" \in m.status
<1> DEFINE outcome == Classify(status)
           frames == IF fdMode THEN MsgFdToFrame(m) ELSE MsgToFrame(m)
<1>0. outcome \in {"Permanent", "Fatal", "Empty", "TxBusy", "Ok"}
  BY Outcomes
<1>1. "BUSOFF" \in status => outcome \in {"Permanent", "Fatal"}
  BY BusOffFails
<1>2. status = {} => outcome = "Ok" /\ WarningsOf(status) = {}
  BY DEF Classify, WarningsOf
<1>a. "BUSOFF" \notin status => BusStateOf(status) # "BusOff"
  BY BusOffIsABit
<1>b. IsMetadata(m) => frames = {}
  BY MetadataIsNoFrame
<1>c. outcome = "Ok" /\ WarningsOf(status) = {} => status = {}
  <2>1. outcome = "Ok" => status \cap (PermanentBits \cup FatalBits \cup QueueBits) = {}
    BY DEF Classify, QueueBits
  <2>2. WarningsOf(status) = {} => status \cap BusBits = {}
    BY DEF WarningsOf
  <2> QED BY <2>1, <2>2 DEF StatusBits
<1>3. ReadOne(fdMode, status, m) =
        CASE outcome = "Empty" -> {}
          [] outcome = "TxBusy" -> WarningStatus(status, {"TX_QUEUE_FULL"})
          [] outcome \in {"Permanent", "Fatal"} -> {Failure(outcome)}
          [] outcome = "Ok" /\ WarningsOf(status) # {} -> WarningStatus(status, {})
          [] outcome = "Ok" /\ WarningsOf(status) = {} ->
               IF MetadataEvent(m) # {} THEN MetadataEvent(m)
               ELSE {FrameEvent(frame, "ECHO" \in m.MSGTYPE) : frame \in frames}
  BY DEF ReadOne
<1> HIDE DEF outcome, frames
<1>4. CASE outcome = "Empty"
  BY <1>3, <1>4
<1>5. CASE outcome = "TxBusy"
  <2>1. e \in WarningStatus(status, {"TX_QUEUE_FULL"})
    BY <1>3, <1>5
  <2>2. e = StatusEvent(BusStateOf(status), WarningsOf(status) \cup {"TX_QUEUE_FULL"})
    BY <2>1 DEF WarningStatus
  <2>3. Fits(e)
    BY <2>2, WordFits DEF BusWarnings
  <2>4. e.is = "Status" /\ e.state = BusStateOf(status)
    BY <2>2 DEF StatusEvent
  <2>5. "BUSOFF" \notin status /\ status # {}
    BY <1>1, <1>2, <1>5
  <2> QED BY <1>a, <2>3, <2>4, <2>5
<1>6. CASE outcome \in {"Permanent", "Fatal"}
  <2>1. e = Failure(outcome)
    BY <1>3, <1>6
  <2>2. e.is = "Failed"
    BY <2>1, EventKinds
  <2>3. status # {}
    BY <1>2, <1>6
  <2> QED BY <2>2, <2>3
<1>7. CASE outcome = "Ok" /\ WarningsOf(status) # {}
  <2>1. e \in WarningStatus(status, {})
    BY <1>3, <1>7
  <2>2. e = StatusEvent(BusStateOf(status), WarningsOf(status) \cup {})
    BY <2>1 DEF WarningStatus
  <2>3. Fits(e)
    BY <2>2, WordFits DEF BusWarnings
  <2>4. e.is = "Status" /\ e.state = BusStateOf(status)
    BY <2>2 DEF StatusEvent
  <2>5. "BUSOFF" \notin status /\ status # {}
    BY <1>1, <1>2, <1>7
  <2> QED BY <1>a, <2>3, <2>4, <2>5
<1>8. CASE outcome = "Ok" /\ WarningsOf(status) = {}
  <2>1. e \in IF MetadataEvent(m) # {} THEN MetadataEvent(m)
              ELSE {FrameEvent(frame, "ECHO" \in m.MSGTYPE) : frame \in frames}
    BY <1>3, <1>8
  <2>2. CASE MetadataEvent(m) # {}
    <3>1. /\ e.is = "Status" /\ Fits(e)
          /\ "STATUS" \in m.MSGTYPE => e.state = BusStateOf(m.status)
          /\ "STATUS" \notin m.MSGTYPE => e.state # "BusOff"
      BY <2>1, <2>2, MetadataFits
    <3>2. "BUSOFF" \notin status /\ status = {}
      BY <1>1, <1>8, <1>c
    <3> QED BY <3>1, <3>2, BusOffIsABit
  <2>3. CASE MetadataEvent(m) = {}
    <3>1. e.is = "Frame" /\ frames # {}
      BY <2>1, <2>3, EventKinds
    <3>2. "STATUS" \notin m.MSGTYPE
      BY <2>3 DEF MetadataEvent
    <3> QED BY <1>1, <1>8, <1>b, <3>1, <3>2
  <2> QED BY <2>2, <2>3
<1> QED BY <1>0, <1>4, <1>5, <1>6, <1>7, <1>8

\* errframe.rs: an error frame's state is worked out of the warnings that go with it.
LEMMA ErrorFrameFits ==
  ASSUME NEW m
  PROVE  /\ ParseErrorFrame(m).is = "Status" /\ Fits(ParseErrorFrame(m))
         /\ ParseErrorFrame(m).state = "BusOff" <=>
              "BUSOFF" \in m.classes /\ "RESTARTED" \notin m.classes /\ ~Controller(m, {"ACTIVE"})
<1> DEFINE warnings == ErrorWarnings(m)
           restarted == "RESTARTED" \in m.classes \/ Controller(m, {"ACTIVE"})
<1>1. CASE restarted
  <2>1. ParseErrorFrame(m) = StatusEvent("Active", {})
    BY <1>1 DEF ParseErrorFrame
  <2>2. Fits(StatusEvent("Active", {})) /\ StatusEvent("Active", {}).state # "BusOff"
    BY DEF Fits, StatusEvent, BusWarnings
  <2> QED BY <1>1, <2>1, <2>2, EventKinds
<1>2. CASE ~restarted
  <2>1. PICK state :
          /\ ParseErrorFrame(m) = StatusEvent(state, warnings)
          /\ state = CASE "BUSOFF" \in m.classes -> "BusOff"
                       [] "BUSOFF" \notin m.classes /\ "BUS_PASSIVE" \in warnings -> "ErrorPassive"
                       [] "BUSOFF" \notin m.classes /\ "BUS_PASSIVE" \notin warnings
                            /\ warnings \cap {"BUS_HEAVY", "BUS_LIGHT"} # {} -> "Warning"
                       [] OTHER -> "Active"
    BY <1>2 DEF ParseErrorFrame
  <2> HIDE DEF warnings
  <2>2. /\ "BUSOFF" \in m.classes => state = "BusOff"
        /\ "BUSOFF" \notin m.classes /\ "BUS_PASSIVE" \in warnings => state = "ErrorPassive"
        /\ "BUSOFF" \notin m.classes /\ "BUS_PASSIVE" \notin warnings =>
             state = IF warnings \cap {"BUS_HEAVY", "BUS_LIGHT"} # {} THEN "Warning" ELSE "Active"
    BY <2>1
  <2>3. /\ state = "Active" => warnings \cap BusWarnings = {}
        /\ "BUS_PASSIVE" \in warnings => state \in {"ErrorPassive", "BusOff"}
        /\ state = "ErrorPassive" => "BUS_PASSIVE" \in warnings
    BY <2>2 DEF BusWarnings
  <2>4. Fits(StatusEvent(state, warnings)) /\ StatusEvent(state, warnings).state = state
    BY <2>3 DEF Fits, StatusEvent
  <2>5. state = "BusOff" <=> "BUSOFF" \in m.classes
    BY <2>2
  <2> QED BY <1>2, <2>1, <2>4, <2>5, EventKinds
<1> QED BY <1>1, <1>2

\* A status of a socket is an error frame of the kernel, and an error frame is a status.
LEMMA SocketStatus ==
  ASSUME NEW m, NEW echo, NEW e \in TryRecvOne(m, echo)
  PROVE  e.is = "Status" <=> ~m.fd /\ ErrBit \in m.canId /\ e = ParseErrorFrame(m)
<1>1. CASE ~m.fd /\ ErrBit \in m.canId
  <2>1. e = ParseErrorFrame(m)
    BY <1>1 DEF TryRecvOne
  <2> QED BY <1>1, <2>1, ErrorFrameFits
<1>2. CASE ~(~m.fd /\ ErrBit \in m.canId)
  <2>1. e.is \in {"Frame", "Failed"}
    BY <1>2, EventKinds DEF TryRecvOne
  <2> QED BY <1>2, <2>1
<1> QED BY <1>1, <1>2

\* status.rs, rx/mod.rs 38-131 and errframe.rs: a status never contradicts the warnings it
\* comes with. Of the words, messages and error frames that say that the controller has
\* left the bus, those that are heard make a failure or BusOff, and nothing else makes
\* BusOff; unheard are a message behind a word with a warning and the error frame of PCAN.
THEOREM StatusAlwaysTrue == PathSpec => []StatusIsTrue
<1>1. PathInv => StatusIsTrue
  <2> SUFFICES ASSUME PathInv, NEW e \in event
               PROVE  /\ e.is = "Status" => Fits(e)
                      /\ \A w \in wire :
                           /\ ~OnSocket /\ "BUSOFF" \in w.word => e.is = "Failed"
                           /\ BusOffIn(w) =>
                                \/ e.is = "Failed"
                                \/ e.is = "Status" /\ (e.state = "BusOff" \/ Unheard(w))
                           /\ e.is = "Status" /\ e.state = "BusOff" => BusOffIn(w) /\ ~Unheard(w)
    BY DEF StatusIsTrue, Fits, BusWarnings
  <2>1. PICK w \in wire : e \in Received(w)
    BY DEF PathInv
  <2>2. \A v \in wire : v = w
    BY <2>1 DEF PathInv, One
  <2>3. CASE OnSocket
    <3>1. e \in TryRecvOne(w.message, w.echo)
      BY <2>1, <2>3 DEF Received
    <3>2. e.is = "Status" <=> /\ ~w.message.fd /\ ErrBit \in w.message.canId
                              /\ e = ParseErrorFrame(w.message)
      BY <3>1, SocketStatus
    <3>3. ~w.message.fd /\ ErrBit \in w.message.canId => e = ParseErrorFrame(w.message)
      BY <3>1 DEF TryRecvOne
    <3>4. BusOffIn(w) => e.is = "Status" /\ e.state = "BusOff"
      BY <2>3, <3>2, <3>3, ErrorFrameFits DEF BusOffIn
    <3>5. e.is = "Status" /\ e.state = "BusOff" => BusOffIn(w) /\ ~Unheard(w)
      BY <2>3, <3>2, ErrorFrameFits DEF BusOffIn, Unheard
    <3>6. e.is = "Status" => Fits(e)
      BY <3>2, ErrorFrameFits
    <3> QED BY <2>2, <2>3, <3>4, <3>5, <3>6
  <2>4. CASE ~OnSocket
    <3>1. e \in ReadOne(FdEnabled, w.word, w.message)
      BY <2>1, <2>4 DEF Received
    <3>2. w.word \in SUBSET StatusBits
      BY <2>1, <2>4 DEF PathInv, Wire, PcanWire
    <3>3. /\ e.is = "Status" => Fits(e)
          /\ "BUSOFF" \in w.word => e.is = "Failed"
          /\ IsMetadata(w.message) => e.is \in {"Status", "Failed"}
          /\ w.word = {} /\ "STATUS" \in w.message.MSGTYPE /\ "BUSOFF" \in w.message.status
               => e.state = "BusOff"
          /\ e.is = "Status" /\ e.state = "BusOff" =>
               w.word = {} /\ "STATUS" \in w.message.MSGTYPE /\ "BUSOFF" \in w.message.status
      BY <3>1, <3>2, PcanStatus
    <3>4. "STATUS" \in w.message.MSGTYPE => IsMetadata(w.message)
      BY DEF IsMetadata
    <3>5. BusOffIn(w) => \/ e.is = "Failed"
                         \/ e.is = "Status" /\ (e.state = "BusOff" \/ Unheard(w))
      BY <2>4, <3>3 DEF BusOffIn, Unheard
    <3>6. e.is = "Status" /\ e.state = "BusOff" => BusOffIn(w) /\ ~Unheard(w)
      BY <2>4, <3>3, <3>4 DEF BusOffIn, Unheard
    <3> QED BY <2>2, <2>4, <3>3, <3>5, <3>6
  <2> QED BY <2>3, <2>4
<1> QED BY <1>1, PathInvariance, PTL
=============================================================================
