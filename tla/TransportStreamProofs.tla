------------------------ MODULE TransportStreamProofs ------------------------
(***************************************************************************)
(* What holds of TransportStream, and of the parser in TsPacket, for every *)
(* size of packet, read, pipe and startup buffer.                          *)
(*                                                                         *)
(* InOrder speaks of one concatenation.  To reason about a step it is      *)
(* taken apart (Consecutive): the probe's buffer, its read and the pipe    *)
(* each follow the one before.  That the renderer may go over to the pipe  *)
(* takes Control: by then the probe is over and both buffers are empty.    *)
(***************************************************************************)
EXTENDS TransportStream, SequenceTheorems, TLAPS

USE DEF muxVars, waitVars, probeVars, readVars

-----------------------------------------------------------------------------
(* The parser                                                              *)

\* The header's bit fields are what their widths allow, and a section that is
\* found has its first three bytes inside the packet.
LEMMA SectionInside ==
    ASSUME NEW pkt \in Packet, HasSection(pkt)
    PROVE  SectionStart(pkt) \in 5..(TsPacketSize - 3)
<1>1. /\ Afc(pkt) = 3 => Pointer(pkt) + 3 < TsPacketSize
      /\ SectionStart(pkt) + 3 <= TsPacketSize
  BY DEF HasSection
<1>2. pkt[4] \in 0..255
  BY SizeAssumption DEF Packet, Offsets, Byte
<1>3. Pointer(pkt) \in 4..(TsPacketSize - 1)
  BY <1>1, <1>2, SizeAssumption DEF Pointer
<1>4. pkt[Pointer(pkt)] \in 0..255
  BY <1>3 DEF Packet, Offsets, Byte
<1>. QED
  BY <1>1, <1>3, <1>4, SizeAssumption DEF SectionStart

\* psiSectionStart and hasPATAndPMT index nothing outside a packet, whatever
\* its bytes are: no input of the probe makes it panic.
THEOREM ReadsInside == \A pkt \in Packet : Reads(pkt) \subseteq Offsets
<1>. SUFFICES ASSUME NEW pkt \in Packet, NEW i \in Reads(pkt)
              PROVE  i \in Offsets
  OBVIOUS
<1>0. pkt[4] \in 0..255
  BY SizeAssumption DEF Packet, Offsets, Byte
<1>1. CASE i \in 0..4
  BY <1>1, SizeAssumption DEF Offsets
<1>2. CASE i = Pointer(pkt) /\ Afc(pkt) = 3 /\ Pointer(pkt) + 3 < TsPacketSize
  BY <1>0, <1>2, SizeAssumption DEF Offsets, Pointer
<1>3. CASE HasSection(pkt) /\ i \in SectionStart(pkt)..(SectionStart(pkt) + 2)
  BY <1>3, SectionInside, SizeAssumption DEF Offsets
<1>4. ASSUME HasSection(pkt), NEW e \in Entries(pkt), i \in e..(e + 3)
      PROVE  i \in Offsets
  <2>1. SectionStart(pkt) \in 5..(TsPacketSize - 3)
    BY <1>4, SectionInside
  <2>2. e \in (SectionStart(pkt) + 8)..(TsPacketSize - 4)
    BY DEF Entries
  <2>. QED
    BY <1>4, <2>1, <2>2, SizeAssumption DEF Offsets
<1>. QED
  BY <1>1, <1>2, <1>3, <1>4 DEF Reads

\* The packets ffmpeg may write have these headers.
LEMMA Headers ==
    /\ Kinds = {"pat", "pmt", "stray", "data", "full"}
    /\ TsPacketSize \in Nat /\ TsPacketSize >= 24
    /\ Pid(Bytes["pat"]) = 0 /\ Pid(Bytes["pmt"]) = 256
    /\ Pid(Bytes["stray"]) = 291 /\ Pid(Bytes["data"]) = 256 /\ Pid(Bytes["full"]) = 256
<1>1. Kinds = {"pat", "pmt", "stray", "data", "full"}
  BY DEF Kinds, Bytes
<1>2. TsPacketSize \in Nat /\ TsPacketSize >= 24 /\ 1 \in Offsets /\ 2 \in Offsets
  BY SizeAssumption, RoomAssumption DEF Offsets
<1>3. Bytes["pat"][1] = 64 /\ Bytes["pat"][2] = 0
  BY <1>2 DEF Bytes, Filled
<1>4. Bytes["pmt"][1] = 65 /\ Bytes["pmt"][2] = 0
  BY <1>2 DEF Bytes, Filled
<1>5. Bytes["stray"][1] = 65 /\ Bytes["stray"][2] = 35
  BY <1>2 DEF Bytes, Filled
<1>6. Bytes["data"][1] = 1 /\ Bytes["data"][2] = 0
  BY <1>2 DEF Bytes, Filled
<1>7. Bytes["full"][1] = 65 /\ Bytes["full"][2] = 0
  BY <1>2 DEF Bytes, Filled
<1>. QED
  BY <1>1, <1>2, <1>3, <1>4, <1>5, <1>6, <1>7 DEF Pid

\* The PAT lists one program: its checksum is not taken for another.
LEMMA PatLists == PmtPIDs(Bytes["pat"]) \subseteq {256}
<1>1. TsPacketSize \in Nat /\ TsPacketSize >= 24
  BY Headers
<1>2. 0..16 \subseteq Offsets
  BY <1>1 DEF Offsets
<1>. DEFINE pkt == Bytes["pat"]
<1>3. /\ pkt[3] = 16 /\ pkt[4] = 0 /\ pkt[6] = 176 /\ pkt[7] = 13
      /\ pkt[15] = 225 /\ pkt[16] = 0
  BY <1>2 DEF Bytes, Filled
<1>. HIDE DEF pkt
<1>4. SectionStart(pkt) = 5
  BY <1>3 DEF SectionStart, Pointer, Afc
<1>5. EntriesEnd(pkt) = 17
  BY <1>3, <1>4 DEF EntriesEnd, SectionLength
<1>6. \A e \in Entries(pkt) : e = 13
  BY <1>1, <1>4, <1>5 DEF Entries
<1>7. \A e \in Entries(pkt) : (pkt[e + 2] % 32) * 256 + pkt[e + 3] = 256
  BY <1>3, <1>6
<1>8. PmtPIDs(pkt) \subseteq {256}
  BY <1>7 DEF PmtPIDs
<1>. QED
  BY <1>8 DEF pkt

\* Neither the packet without a section nor the one without room holds a PMT.
LEMMA NoTable ==
    ~IsTable(Bytes["data"], TableIDPMT) /\ ~IsTable(Bytes["full"], TableIDPMT)
<1>1. TsPacketSize \in Nat /\ TsPacketSize >= 24 /\ 0..4 \subseteq Offsets
  BY Headers DEF Offsets
<1>2. ~IsTable(Bytes["data"], TableIDPMT)
  <2>1. Bytes["data"][1] = 1
    BY <1>1 DEF Bytes, Filled
  <2>. QED
    BY <2>1 DEF IsTable, HasSection, UnitStart
<1>3. ~IsTable(Bytes["full"], TableIDPMT)
  <2>. DEFINE pkt == Bytes["full"]
  <2>1. /\ pkt[3] = 48 /\ pkt[4] = 255
        /\ \A i \in Offsets : i >= 5 => pkt[i] = 255
    BY <1>1 DEF Bytes, Filled, Offsets
  <2>. HIDE DEF pkt
  <2>2. Pointer(pkt) = 260
    BY <2>1 DEF Pointer, Afc
  <2>3. SUFFICES ASSUME HasSection(pkt)
                 PROVE  pkt[SectionStart(pkt)] # TableIDPMT
    BY DEF IsTable, pkt
  <2>4. 260 + 3 < TsPacketSize /\ SectionStart(pkt) + 3 <= TsPacketSize
    BY <2>1, <2>2, <2>3 DEF HasSection, Afc
  <2>5. pkt[260] = 255
    BY <1>1, <2>1, <2>4 DEF Offsets
  <2>6. SectionStart(pkt) = 516
    BY <2>2, <2>5 DEF SectionStart
  <2>7. pkt[516] = 255
    BY <1>1, <2>1, <2>4, <2>6 DEF Offsets
  <2>. QED
    BY <2>6, <2>7 DEF TableIDPMT
<1>. QED
  BY <1>2, <1>3

\* What passes for a PAT and the PMT it lists is a PAT and the PMT it lists.
LEMMA ProvedMeansAnnounced ==
    ASSUME NEW n \in Nat, NEW s, \A i \in 1..n : s[i] \in Kinds,
           HasPATAndPMT({Bytes[s[i]] : i \in 1..n})
    PROVE  {"pat", "pmt"} \subseteq {s[i] : i \in 1..n}
<1>. DEFINE pkts == {Bytes[s[i]] : i \in 1..n}
<1>1. PICK pat \in pkts, pmt \in pkts :
         /\ Pid(pat) = 0
         /\ Pid(pmt) \in PmtPIDs(pat) /\ IsTable(pmt, TableIDPMT)
  BY DEF HasPATAndPMT, PatPID
<1>2. PICK i \in 1..n : pat = Bytes[s[i]]
  OBVIOUS
<1>3. s[i] = "pat"
  BY <1>1, <1>2, Headers
<1>4. Pid(pmt) = 256
  BY <1>1, <1>2, <1>3, PatLists
<1>5. PICK j \in 1..n : pmt = Bytes[s[j]]
  OBVIOUS
<1>6. s[j] = "pmt"
  BY <1>1, <1>4, <1>5, Headers, NoTable
<1>. QED
  BY <1>3, <1>6

-----------------------------------------------------------------------------
(* The inductive invariant                                                 *)

\* The units of s come one after the other, the first after n.
Follows(s, n) == \A i \in 1..Len(s) : s[i] = n + i

\* The last unit the renderer and the probe have taken from the pipe.
Taken == last + Len(buf) + Len(hand)

\* What was written is on its way in order, and complete until the pipe is closed.
Consecutive ==
    /\ Follows(buf, last) /\ Follows(hand, last + Len(buf)) /\ Follows(pipe, Taken)
    /\ Taken + Len(pipe) <= written
    /\ stdout = "open" => Taken + Len(pipe) = written

\* What the program counters say of the buffers and of ffmpeg.
Control ==
    /\ stdout = "closed" => pipe = <<>>
    /\ stdout = "closed" \/ wpc # "wait" => proc = "reaped"
    /\ ppc # "append" => hand = <<>>
    /\ ppc \in {"read", "append"} => Len(buf) < MaxProbeUnits /\ ~valid
    /\ spc = "ok" => ready
    /\ rpc = "source" => spc = "ok" /\ buf = <<>>

\* Until Start returns, the buffer is what the probe found valid.
Verified == valid /\ spc # "ok" => Proved(buf)

IInv == TypeOK /\ Consecutive /\ Control /\ Verified

\* TypeOK, by the process a variable belongs to.
StartTypes == spc \in {"wait", "grace", "close", "failed", "ok"}
MuxTypes ==
    /\ sent \in Seq(Kinds) /\ written \in 0..MaxUnits
    /\ Len(sent) = (written + 1) \div 2
    /\ proc \in {"running", "killed", "dead", "reaped"}
    /\ stdout \in {"open", "closed"}
PipeTypes == pipe \in Seq(1..MaxUnits) /\ Len(pipe) <= PipeUnits
WaitTypes ==
    /\ wpc \in {"wait", "copy", "send", "closeDone", "close", "done"}
    /\ exit \in {"none", "sent", "closed"} /\ closed \in BOOLEAN
ProbeTypes ==
    /\ ppc \in {"read", "append", "signal", "done"}
    /\ hand \in Seq(1..MaxUnits) /\ Len(hand) <= ReadUnits
    /\ failed \in BOOLEAN /\ valid \in BOOLEAN /\ gaveUp \in BOOLEAN
    /\ buf \in Seq(1..MaxUnits) /\ Len(buf) < MaxProbeUnits + ReadUnits
    /\ ready \in BOOLEAN /\ ready => ppc = "done"
ReadTypes == rpc \in {"idle", "source", "ended", "gone"} /\ last \in 0..MaxUnits

\* Everything in flight is in runs.
LEMMA Runs ==
    ASSUME Consecutive
    PROVE  Follows(buf, last) /\ Follows(hand, last + Len(buf)) /\ Follows(pipe, Taken)
  BY DEF Consecutive

\* TypeOK is its parts,
LEMMA Types ==
    TypeOK <=> /\ StartTypes /\ MuxTypes /\ PipeTypes /\ WaitTypes
               /\ ProbeTypes /\ ReadTypes
  BY DEF TypeOK, StartTypes, MuxTypes, PipeTypes, WaitTypes, ProbeTypes, ReadTypes

\* and after a step too.
LEMMA TypesAfter ==
    ASSUME StartTypes', MuxTypes', PipeTypes', WaitTypes', ProbeTypes', ReadTypes'
    PROVE  TypeOK'
  BY DEF TypeOK, StartTypes, MuxTypes, PipeTypes, WaitTypes, ProbeTypes, ReadTypes

\* The assumptions on the constants, one by one.
LEMMA Parameters ==
    /\ StartupUnits \in Nat \ {0} /\ MaxProbeUnits \in Nat \ {0}
    /\ ReadUnits \in Nat \ {0} /\ PipeUnits \in Nat \ {0} /\ MaxUnits \in Nat \ {0}
  BY UnitsAssumption

USE Parameters

\* The front of a sequence and the rest of it.
LEMMA FrontAndRest ==
    ASSUME NEW s \in Seq(1..MaxUnits), NEW n \in 0..Len(s)
    PROVE  /\ SubSeq(s, 1, n) \in Seq(1..MaxUnits) /\ Len(SubSeq(s, 1, n)) = n
           /\ \A i \in 1..n : SubSeq(s, 1, n)[i] = s[i]
           /\ SubSeq(s, n + 1, Len(s)) \in Seq(1..MaxUnits)
           /\ Len(SubSeq(s, n + 1, Len(s))) = Len(s) - n
           /\ \A i \in 1..(Len(s) - n) : SubSeq(s, n + 1, Len(s))[i] = s[n + i]
<1>1. Len(s) \in Nat /\ n \in Nat /\ \A i \in 1..Len(s) : s[i] \in 1..MaxUnits
  BY ElementOfSeq
<1>2. /\ \A i \in 1..n : s[i] \in 1..MaxUnits
      /\ SubSeq(s, 1, n) \in Seq(1..MaxUnits) /\ Len(SubSeq(s, 1, n)) = n
      /\ \A i \in 1..n : SubSeq(s, 1, n)[i] = s[i]
  BY <1>1, SubSeqProperties
<1>3. /\ SubSeq(s, n + 1, Len(s)) \in Seq(1..MaxUnits)
      /\ Len(SubSeq(s, n + 1, Len(s))) = Len(s) - n
      /\ \A i \in 1..(Len(s) - n) : SubSeq(s, n + 1, Len(s))[i] = s[n + i]
  BY <1>1, SubSeqProperties
<1>. QED
  BY <1>2, <1>3

\* Cut in two, a run of units is two runs.
LEMMA FollowsCut ==
    ASSUME NEW s \in Seq(1..MaxUnits), NEW m \in Nat, NEW n \in 0..Len(s), Follows(s, m)
    PROVE  /\ Follows(SubSeq(s, 1, n), m)
           /\ Follows(SubSeq(s, n + 1, Len(s)), m + n)
           /\ n > 0 => s[n] = m + n
<1>1. Len(s) \in Nat /\ n \in Nat
  OBVIOUS
<1>2. \A i \in 1..n : s[i] = m + i
  BY <1>1 DEF Follows
<1>3. \A i \in 1..(Len(s) - n) : s[n + i] = m + n + i
  BY <1>1 DEF Follows
<1>4. Follows(SubSeq(s, 1, n), m)
  BY <1>1, <1>2, FrontAndRest DEF Follows
<1>5. Follows(SubSeq(s, n + 1, Len(s)), m + n)
  BY <1>1, <1>3, FrontAndRest DEF Follows
<1>. QED
  BY <1>1, <1>2, <1>4, <1>5

\* A run and the one after it are one run.
LEMMA FollowsJoin ==
    ASSUME NEW S, NEW s \in Seq(S), NEW t \in Seq(S), NEW m \in Int,
           Follows(s, m), Follows(t, m + Len(s))
    PROVE  /\ s \o t \in Seq(S) /\ Len(s \o t) = Len(s) + Len(t)
           /\ Follows(s \o t, m)
<1>1. /\ Len(s) \in Nat /\ Len(t) \in Nat
      /\ s \o t \in Seq(S) /\ Len(s \o t) = Len(s) + Len(t)
      /\ \A i \in 1..(Len(s) + Len(t)) :
            (s \o t)[i] = IF i <= Len(s) THEN s[i] ELSE t[i - Len(s)]
  BY ConcatProperties
<1>2. \A i \in 1..Len(s) : s[i] = m + i
  BY DEF Follows
<1>3. \A i \in 1..Len(t) : t[i] = m + Len(s) + i
  BY DEF Follows
<1>4. ASSUME NEW i \in 1..(Len(s) + Len(t))
      PROVE  (s \o t)[i] = m + i
  <2>1. CASE i <= Len(s)
    BY <1>1, <1>2, <2>1
  <2>2. CASE i > Len(s)
    <3>1. i - Len(s) \in 1..Len(t) /\ (s \o t)[i] = t[i - Len(s)]
      BY <1>1, <2>2
    <3>2. t[i - Len(s)] = m + Len(s) + (i - Len(s))
      BY <1>3, <3>1
    <3>. QED
      BY <1>1, <3>1, <3>2
  <2>. QED
    BY <1>1, <2>1, <2>2
<1>. QED
  BY <1>1, <1>4 DEF Follows

\* The lengths and counts are numbers.
LEMMA Counts ==
    ASSUME TypeOK
    PROVE  /\ last \in Nat /\ written \in Nat /\ Taken \in Nat
           /\ Len(buf) \in Nat /\ Len(hand) \in Nat /\ Len(pipe) \in Nat
           /\ buf \in Seq(1..MaxUnits) /\ hand \in Seq(1..MaxUnits)
           /\ pipe \in Seq(1..MaxUnits)
<1>1. /\ last \in Nat /\ written \in Nat
      /\ buf \in Seq(1..MaxUnits) /\ hand \in Seq(1..MaxUnits)
      /\ pipe \in Seq(1..MaxUnits)
  BY DEF TypeOK
<1>2. Len(buf) \in Nat /\ Len(hand) \in Nat /\ Len(pipe) \in Nat
  BY <1>1
<1>. QED
  BY <1>1, <1>2 DEF Taken

\* The packets that were announced are still the ones ffmpeg wrote first.
LEMMA ProvedKept ==
    ASSUME Proved(buf), buf' = buf,
           \A i \in 1..(Len(buf) \div 2) : sent'[i] = sent[i]
    PROVE  Proved(buf)'
<1>1. Buffered(buf)' = Buffered(buf)
  BY DEF Buffered
<1>. QED
  BY <1>1 DEF Proved

\* Initially nothing has been written.
LEMMA InvInit == Init => IInv
<1>. SUFFICES ASSUME Init PROVE IInv
  OBVIOUS
<1>1. /\ <<>> \in Seq(Kinds) /\ <<>> \in Seq(1..MaxUnits) /\ Len(<<>>) = 0
      /\ (0 + 1) \div 2 = 0
  OBVIOUS
<1>2. TypeOK
  <2>1. StartTypes /\ MuxTypes /\ PipeTypes /\ ReadTypes
    BY <1>1 DEF Init, StartTypes, MuxTypes, PipeTypes, ReadTypes
  <2>2. WaitTypes
    BY DEF Init, WaitTypes
  <2>3. ProbeTypes
    <3>1. /\ ppc = "read" /\ hand = <<>> /\ buf = <<>> /\ failed = FALSE
          /\ valid = FALSE /\ gaveUp = FALSE /\ ready = FALSE
      BY DEF Init
    <3>2. 0 < MaxProbeUnits + ReadUnits /\ 0 <= ReadUnits
      BY Parameters
    <3>. QED
      BY <1>1, <3>1, <3>2 DEF ProbeTypes
  <2>. QED
    BY <2>1, <2>2, <2>3, Types
<1>3. Consecutive
  BY <1>1 DEF Init, Consecutive, Follows, Taken
<1>. QED
  BY <1>1, <1>2, <1>3 DEF Init, IInv, Control, Verified

-----------------------------------------------------------------------------
(* Its preservation                                                        *)

\* A step that moves no unit leaves their order as it is.
LEMMA SameOrder ==
    ASSUME Consecutive, UNCHANGED <<buf, hand, pipe, last, written>>,
           stdout' = "open" => stdout = "open"
    PROVE  Consecutive'
  BY DEF Consecutive, Follows, Taken

\* Start returned, or its buffer and the packets are the same.
LEMMA SameVerdict ==
    ASSUME Verified, UNCHANGED <<spc, buf, valid, sent>>
    PROVE  Verified'
  BY ProvedKept DEF Verified

\* ffmpeg writes the next unit, and begins a packet with every second.
LEMMA InvMux ==
    ASSUME IInv, Mux
    PROVE  IInv'
<1>1. /\ TypeOK /\ Consecutive /\ Control /\ Verified
      /\ StartTypes /\ MuxTypes /\ PipeTypes /\ WaitTypes /\ ProbeTypes /\ ReadTypes
  BY Types DEF IInv
<1>2. /\ stdout = "open" /\ Len(pipe) < PipeUnits /\ written < MaxUnits
      /\ written' = written + 1 /\ pipe' = Append(pipe, written + 1)
      /\ proc \in {"running", "killed"}
      /\ UNCHANGED <<spc, proc, stdout, waitVars, probeVars, readVars>>
  BY DEF Mux
<1>3. \/ /\ written % 2 = 0
         /\ \E k \in Kinds : sent' = Append(sent, k)
      \/ written % 2 # 0 /\ sent' = sent
  BY Headers DEF Mux
<1>4. /\ Len(pipe) \in Nat /\ written \in Nat /\ written + 1 \in 1..MaxUnits
      /\ pipe \in Seq(1..MaxUnits)
  BY <1>1, <1>2, Counts DEF MuxTypes
<1>5. /\ pipe' \in Seq(1..MaxUnits) /\ Len(pipe') = Len(pipe) + 1
      /\ \A i \in 1..Len(pipe) : pipe'[i] = pipe[i]
      /\ pipe'[Len(pipe) + 1] = written + 1
  BY <1>2, <1>4, AppendProperties
<1>6. /\ sent' \in Seq(Kinds) /\ Len(sent') = (written' + 1) \div 2
      /\ \A i \in 1..Len(sent) : sent'[i] = sent[i]
  <2>1. sent \in Seq(Kinds) /\ Len(sent) \in Nat /\ Len(sent) = (written + 1) \div 2
    BY <1>1 DEF MuxTypes
  <2>2. CASE written % 2 = 0
    <3>1. PICK k \in Kinds : sent' = Append(sent, k)
      BY <1>3, <2>2
    <3>2. /\ sent' \in Seq(Kinds) /\ Len(sent') = Len(sent) + 1
          /\ \A i \in 1..Len(sent) : sent'[i] = sent[i]
      BY <2>1, <3>1, AppendProperties
    <3>3. (written + 2) \div 2 = (written + 1) \div 2 + 1
      BY <1>4, <2>2
    <3>. QED
      BY <1>2, <1>4, <2>1, <3>2, <3>3
  <2>3. CASE written % 2 # 0
    <3>1. (written + 2) \div 2 = (written + 1) \div 2
      BY <1>4, <2>3
    <3>. QED
      BY <1>2, <1>3, <1>4, <2>1, <2>3, <3>1
  <2>. QED
    BY <2>2, <2>3
<1>7. TypeOK'
  <2>1. MuxTypes'
    BY <1>1, <1>2, <1>4, <1>6 DEF MuxTypes
  <2>2. PipeTypes'
    BY <1>2, <1>4, <1>5, Parameters DEF PipeTypes
  <2>3. StartTypes' /\ WaitTypes' /\ ProbeTypes' /\ ReadTypes'
    BY <1>1, <1>2 DEF StartTypes, WaitTypes, ProbeTypes, ReadTypes
  <2>. QED
    BY <2>1, <2>2, <2>3, TypesAfter
<1>8. Consecutive'
  <2>1. Taken' = Taken /\ Taken \in Nat /\ Taken + Len(pipe) = written
    BY <1>1, <1>2, Counts DEF Taken, Consecutive
  <2>2. Follows(buf, last)' /\ Follows(hand, last + Len(buf))'
    BY <1>1, <1>2 DEF Consecutive, Follows
  <2>3. Follows(pipe', Taken)
    <3>1. \A i \in 1..Len(pipe) : pipe'[i] = Taken + i
      BY <1>1, <1>5 DEF Consecutive, Follows
    <3>2. written + 1 = Taken + (Len(pipe) + 1)
      BY <1>4, <2>1
    <3>3. ASSUME NEW i \in 1..Len(pipe')
          PROVE  pipe'[i] = Taken + i
      <4>1. i \in 1..Len(pipe) \/ i = Len(pipe) + 1
        BY <1>4, <1>5
      <4>. QED
        BY <1>5, <3>1, <3>2, <4>1
    <3>. QED
      BY <3>3 DEF Follows
  <2>4. Taken' + Len(pipe') = written'
    BY <1>2, <1>4, <1>5, <2>1
  <2>5. Follows(pipe, Taken)'
    BY <2>1, <2>3 DEF Follows
  <2>. QED
    BY <1>2, <1>4, <2>2, <2>4, <2>5 DEF Consecutive
<1>9. Control'
  BY <1>1, <1>2 DEF Control
<1>10. Verified'
  <2>1. Len(buf) \in Nat /\ Len(buf) <= written
    BY <1>1, Counts DEF Consecutive, Taken
  <2>2. Len(buf) \div 2 <= (written + 1) \div 2 /\ Len(buf) \div 2 \in Nat
    BY <1>4, <2>1
  <2>3. \A i \in 1..(Len(buf) \div 2) : sent'[i] = sent[i]
    BY <1>1, <1>6, <2>2 DEF MuxTypes
  <2>. QED
    BY <1>1, <1>2, <2>3, ProvedKept DEF Verified
<1>. QED
  BY <1>7, <1>8, <1>9, <1>10 DEF IInv

\* ffmpeg ends and is waited for; its standard output is closed only then.
LEMMA InvWaiter ==
    ASSUME IInv, ProcExit \/ WaitReap \/ WaitStdout \/ WaitDone \/ WaitClose
    PROVE  IInv'
<1>1. /\ TypeOK /\ Consecutive /\ Control /\ Verified
      /\ StartTypes /\ MuxTypes /\ PipeTypes /\ WaitTypes /\ ProbeTypes /\ ReadTypes
  BY Types DEF IInv
<1>2. /\ UNCHANGED <<spc, sent, written, probeVars, readVars>>
      /\ \/ pipe' = pipe /\ stdout' = stdout
         \/ wpc = "copy" /\ pipe' = <<>> /\ stdout' = "closed"
  <2>1. CASE ProcExit \/ WaitReap
    BY <2>1 DEF ProcExit, WaitReap
  <2>2. CASE WaitStdout
    BY <2>2 DEF WaitStdout
  <2>3. CASE WaitDone
    BY <2>3 DEF WaitDone
  <2>4. CASE WaitClose
    BY <2>4 DEF WaitClose, Close
  <2>. QED
    BY <2>1, <2>2, <2>3, <2>4
<1>3. /\ proc' \in {"running", "killed", "dead", "reaped"}
      /\ proc = "reaped" => proc' = "reaped"
      /\ wpc' \in {"wait", "copy", "send", "closeDone", "close", "done"}
      /\ wpc' # "wait" => wpc # "wait" \/ proc' = "reaped"
      /\ exit' \in {"none", "sent", "closed"} /\ closed' \in BOOLEAN
  BY <1>1 DEF ProcExit, WaitReap, WaitStdout, WaitDone, WaitClose, Close,
              MuxTypes, WaitTypes
<1>4. TypeOK'
  <2>1. StartTypes' /\ ProbeTypes' /\ ReadTypes' /\ WaitTypes'
    BY <1>1, <1>2, <1>3 DEF StartTypes, ProbeTypes, ReadTypes, WaitTypes
  <2>2. MuxTypes'
    BY <1>1, <1>2, <1>3 DEF MuxTypes
  <2>3. PipeTypes'
    <3>1. <<>> \in Seq(1..MaxUnits) /\ Len(<<>>) = 0 /\ 0 <= PipeUnits
      BY Parameters
    <3>. QED
      BY <1>1, <1>2, <3>1 DEF PipeTypes
  <2>. QED
    BY <2>1, <2>2, <2>3, TypesAfter
<1>5. Consecutive'
  <2>1. CASE pipe' = pipe /\ stdout' = stdout
    BY <1>1, <1>2, <2>1, SameOrder
  <2>2. CASE pipe' = <<>> /\ stdout' = "closed"
    <3>1. Len(pipe') = 0 /\ Taken' = Taken /\ Taken \in Nat /\ Len(pipe) \in Nat
      BY <1>1, <1>2, <2>2, Counts DEF Taken
    <3>. QED
      BY <1>1, <1>2, <2>2, <3>1, Counts DEF Consecutive, Follows
  <2>. QED
    BY <1>2, <2>1, <2>2
<1>6. Control'
  BY <1>1, <1>2, <1>3 DEF Control
<1>7. Verified'
  BY <1>1, <1>2, SameVerdict
<1>. QED
  BY <1>4, <1>5, <1>6, <1>7 DEF IInv

\* Start's steps, and the caller's Close.
LEMMA InvStart ==
    ASSUME IInv, Start \/ CallerClose
    PROVE  IInv'
<1>1. /\ TypeOK /\ Consecutive /\ Control /\ Verified
      /\ StartTypes /\ MuxTypes /\ PipeTypes /\ WaitTypes /\ ProbeTypes /\ ReadTypes
  BY Types DEF IInv
<1>2. /\ UNCHANGED <<sent, written, pipe, stdout, wpc, exit, probeVars, readVars>>
      /\ proc' \in {proc, "killed"} /\ (proc = "reaped" => proc' = proc)
      /\ closed' = closed \/ closed' = TRUE
      /\ \/ spc' = spc
         \/ spc = "wait" /\ ready /\ spc' = "ok"
         \/ spc # "ok" /\ spc' \in {"close", "grace", "failed"}
  BY DEF Start, WaitReady, WaitExit, WaitTimeout, Grace, StartFail, CallerClose, Close
<1>3. TypeOK'
  <2>1. MuxTypes' /\ PipeTypes'
    BY <1>1, <1>2 DEF MuxTypes, PipeTypes
  <2>2. WaitTypes'
    BY <1>1, <1>2 DEF WaitTypes
  <2>3. StartTypes' /\ ProbeTypes' /\ ReadTypes'
    BY <1>1, <1>2 DEF StartTypes, ProbeTypes, ReadTypes
  <2>. QED
    BY <2>1, <2>2, <2>3, TypesAfter
<1>4. Consecutive'
  BY <1>1, <1>2, SameOrder
<1>5. Control'
  BY <1>1, <1>2 DEF Control
<1>6. Verified'
  BY <1>1, <1>2, ProvedKept DEF Verified
<1>. QED
  BY <1>3, <1>4, <1>5, <1>6 DEF IInv

\* The probe's read takes the front of the pipe.
LEMMA InvProbeRead ==
    ASSUME IInv, ProbeRead
    PROVE  IInv'
<1>1. /\ TypeOK /\ Consecutive /\ Control /\ Verified
      /\ StartTypes /\ MuxTypes /\ PipeTypes /\ WaitTypes /\ ProbeTypes /\ ReadTypes
  BY Types DEF IInv
<1>2. /\ ppc = "read" /\ ppc' = "append" /\ hand = <<>>
      /\ failed' = TRUE \/ failed' = FALSE
      /\ UNCHANGED <<spc, sent, written, proc, stdout, waitVars, buf, valid, gaveUp,
                     ready, readVars>>
  BY <1>1 DEF ProbeRead, Control
<1>3. /\ last \in Nat /\ Len(buf) \in Nat /\ Len(pipe) \in Nat /\ Len(hand) = 0
      /\ pipe \in Seq(1..MaxUnits) /\ Taken = last + Len(buf) /\ Taken \in Nat
  BY <1>1, <1>2, Counts DEF Taken
<1>4. PICK n \in 0..Len(pipe) :
         /\ n <= ReadUnits
         /\ \/ hand' = SubSeq(pipe, 1, n) /\ pipe' = SubSeq(pipe, n + 1, Len(pipe))
            \/ n = 0 /\ hand' = hand /\ pipe' = pipe
  <2>1. CASE pipe # <<>>
    <3>. DEFINE m == IF Len(pipe) < ReadUnits THEN Len(pipe) ELSE ReadUnits
    <3>1. m \in 0..Len(pipe) /\ m <= ReadUnits
      BY <1>3, Parameters
    <3>2. hand' = SubSeq(pipe, 1, m) /\ pipe' = SubSeq(pipe, m + 1, Len(pipe))
      BY <2>1 DEF ProbeRead, AtEnd
    <3>. HIDE DEF m
    <3>. QED
      BY <3>1, <3>2
  <2>2. CASE pipe = <<>>
    <3>1. 0 \in 0..Len(pipe) /\ 0 <= ReadUnits
      BY <1>3, Parameters
    <3>2. hand' = hand /\ pipe' = pipe
      BY <2>2 DEF ProbeRead
    <3>. QED
      BY <3>1, <3>2
  <2>. QED
    BY <2>1, <2>2
<1>5. /\ hand' \in Seq(1..MaxUnits) /\ Len(hand') = n
      /\ pipe' \in Seq(1..MaxUnits) /\ Len(pipe') = Len(pipe) - n
      /\ Follows(hand', Taken) /\ Follows(pipe', Taken + n)
  <2>1. Follows(pipe, Taken)
    BY <1>1 DEF Consecutive
  <2>2. CASE hand' = SubSeq(pipe, 1, n) /\ pipe' = SubSeq(pipe, n + 1, Len(pipe))
    <3>1. /\ Follows(SubSeq(pipe, 1, n), Taken)
          /\ Follows(SubSeq(pipe, n + 1, Len(pipe)), Taken + n)
      BY <1>3, <2>1, FollowsCut
    <3>2. /\ SubSeq(pipe, 1, n) \in Seq(1..MaxUnits) /\ Len(SubSeq(pipe, 1, n)) = n
          /\ SubSeq(pipe, n + 1, Len(pipe)) \in Seq(1..MaxUnits)
          /\ Len(SubSeq(pipe, n + 1, Len(pipe))) = Len(pipe) - n
      BY <1>3, FrontAndRest
    <3>. QED
      BY <2>2, <3>1, <3>2
  <2>3. CASE n = 0 /\ hand' = hand /\ pipe' = pipe
    <3>1. hand' = <<>> /\ <<>> \in Seq(1..MaxUnits) /\ Taken + n = Taken
      BY <1>2, <1>3, <2>3
    <3>. QED
      BY <1>3, <2>1, <2>3, <3>1 DEF Follows
  <2>. QED
    BY <1>4, <2>2, <2>3
<1>6. TypeOK'
  <2>1. StartTypes' /\ MuxTypes' /\ WaitTypes' /\ ReadTypes'
    BY <1>1, <1>2 DEF StartTypes, MuxTypes, WaitTypes, ReadTypes
  <2>2. PipeTypes'
    BY <1>1, <1>3, <1>5 DEF PipeTypes
  <2>3. ProbeTypes'
    <3>1. ~ready
      BY <1>1, <1>2 DEF ProbeTypes
    <3>2. failed' \in BOOLEAN
      BY <1>2
    <3>. QED
      BY <1>1, <1>2, <1>4, <1>5, <3>1, <3>2 DEF ProbeTypes
  <2>. QED
    BY <2>1, <2>2, <2>3, TypesAfter
<1>7. Consecutive'
  <2>1. Taken' = Taken + n
    BY <1>2, <1>3, <1>5 DEF Taken
  <2>2. Follows(buf, last)' /\ Follows(hand, last + Len(buf))' /\ Follows(pipe, Taken)'
    BY <1>1, <1>2, <1>3, <1>5, <2>1 DEF Consecutive, Follows
  <2>3. Taken' + Len(pipe') = Taken + Len(pipe)
    BY <1>3, <1>4, <1>5, <2>1
  <2>. QED
    BY <1>1, <1>2, <2>2, <2>3 DEF Consecutive
<1>8. Control'
  <2>1. pipe = <<>> => pipe' = <<>>
    <3>1. pipe = <<>> => Len(pipe') = 0
      BY <1>3, <1>4, <1>5
    <3>. QED
      BY <1>5, <3>1, EmptySeq
  <2>2. spc # "ok" /\ rpc # "source"
    BY <1>1, <1>2 DEF Control, ProbeTypes
  <2>. QED
    BY <1>1, <1>2, <2>1, <2>2 DEF Control
<1>9. Verified'
  BY <1>1, <1>2, SameVerdict
<1>. QED
  BY <1>6, <1>7, <1>8, <1>9 DEF IInv

\* The probe's read joins the buffer, and the probe judges the whole of it.
LEMMA InvProbeAppend ==
    ASSUME IInv, ProbeAppend
    PROVE  IInv'
<1>1. /\ TypeOK /\ Consecutive /\ Control /\ Verified
      /\ StartTypes /\ MuxTypes /\ PipeTypes /\ WaitTypes /\ ProbeTypes /\ ReadTypes
  BY Types DEF IInv
<1>2. /\ ppc = "append" /\ ppc' \in {"read", "signal"}
      /\ buf' = buf \o hand /\ hand' = <<>>
      /\ UNCHANGED <<spc, muxVars, waitVars, failed, ready, readVars>>
  BY DEF ProbeAppend
<1>3. ~valid /\ ~ready /\ spc # "ok" /\ rpc # "source" /\ Len(buf) < MaxProbeUnits
  BY <1>1, <1>2 DEF Control, ProbeTypes
<1>4. /\ last \in Nat /\ Len(buf) \in Nat /\ Len(hand) \in Nat /\ Len(hand) <= ReadUnits
      /\ buf \in Seq(1..MaxUnits) /\ hand \in Seq(1..MaxUnits)
  BY <1>1, Counts DEF ProbeTypes
<1>5. /\ buf' \in Seq(1..MaxUnits) /\ Len(buf') = Len(buf) + Len(hand)
      /\ Follows(buf', last)
  BY <1>1, <1>2, <1>4, FollowsJoin DEF Consecutive
<1>6. <<>> \in Seq(1..MaxUnits) /\ Len(<<>>) = 0
  OBVIOUS
<1>7. /\ valid' \in BOOLEAN /\ gaveUp' \in BOOLEAN
      /\ valid' => Proved(buf')
      /\ ppc' = "read" => ~valid' /\ ~gaveUp'
      /\ ~valid' /\ ~gaveUp' => ~(Len(buf') >= MaxProbeUnits)
  <2>1. valid' \in BOOLEAN /\ (valid' => Proved(buf'))
    BY <1>3 DEF ProbeAppend
  <2>2. gaveUp' \in BOOLEAN /\ (~valid' /\ ~gaveUp' => ~(Len(buf') >= MaxProbeUnits))
    BY DEF ProbeAppend
  <2>3. ppc' = "read" => ~valid' /\ ~gaveUp'
    BY DEF ProbeAppend
  <2>. QED
    BY <2>1, <2>2, <2>3
<1>8. TypeOK'
  <2>1. StartTypes' /\ WaitTypes' /\ ReadTypes'
    BY <1>1, <1>2 DEF StartTypes, WaitTypes, ReadTypes
  <2>2. MuxTypes' /\ PipeTypes'
    BY <1>1, <1>2 DEF MuxTypes, PipeTypes
  <2>3. ProbeTypes'
    <3>1. Len(buf') < MaxProbeUnits + ReadUnits /\ 0 <= ReadUnits
      BY <1>3, <1>4, <1>5, Parameters
    <3>2. failed' \in BOOLEAN
      BY <1>1, <1>2 DEF ProbeTypes
    <3>3. ready' \in BOOLEAN /\ ~ready'
      <4>1. ready = FALSE
        BY <1>1, <1>3 DEF ProbeTypes
      <4>2. ready' = ready
        BY <1>2
      <4>. QED
        BY <4>1, <4>2
    <3>4. ppc' \in {"read", "append", "signal", "done"}
      BY <1>2
    <3>. QED
      BY <1>2, <1>5, <1>6, <1>7, <3>1, <3>2, <3>3, <3>4 DEF ProbeTypes
  <2>. QED
    BY <2>1, <2>2, <2>3, TypesAfter
<1>9. Consecutive'
  <2>1. Taken' = Taken
    BY <1>2, <1>4, <1>5, <1>6 DEF Taken
  <2>2. Follows(buf, last)'
    BY <1>2, <1>5 DEF Follows
  <2>3. Follows(hand, last + Len(buf))'
    BY <1>2, <1>6 DEF Follows
  <2>4. Follows(pipe, Taken)'
    BY <1>1, <1>2, <2>1 DEF Consecutive, Follows
  <2>. QED
    BY <1>1, <1>2, <2>1, <2>2, <2>3, <2>4 DEF Consecutive
<1>10. Control'
  <2>1. ppc' \in {"read", "append"} => Len(buf') < MaxProbeUnits /\ ~valid'
    <3>1. ~(Len(buf') >= MaxProbeUnits) => Len(buf') < MaxProbeUnits
      BY <1>4, <1>5, Parameters
    <3>. QED
      BY <1>2, <1>7, <3>1
  <2>. QED
    BY <1>1, <1>2, <1>3, <2>1 DEF Control
<1>11. Verified'
  <2>1. Buffered(buf') = Buffered(buf)'
    BY <1>2 DEF Buffered
  <2>2. Proved(buf') => Proved(buf)'
    BY <2>1 DEF Proved
  <2>. QED
    BY <1>7, <2>2 DEF Verified
<1>. QED
  BY <1>8, <1>9, <1>10, <1>11 DEF IInv

\* The verdict is announced.
LEMMA InvProbeSignal ==
    ASSUME IInv, ProbeSignal
    PROVE  IInv'
<1>1. /\ TypeOK /\ Consecutive /\ Control /\ Verified
      /\ StartTypes /\ MuxTypes /\ PipeTypes /\ WaitTypes /\ ProbeTypes /\ ReadTypes
  BY Types DEF IInv
<1>2. /\ ppc = "signal" /\ ppc' = "done" /\ ready' = TRUE
      /\ UNCHANGED <<spc, muxVars, waitVars, hand, failed, buf, valid, gaveUp, readVars>>
  BY DEF ProbeSignal
<1>3. TypeOK'
  <2>1. StartTypes' /\ WaitTypes' /\ ReadTypes'
    BY <1>1, <1>2 DEF StartTypes, WaitTypes, ReadTypes
  <2>2. MuxTypes' /\ PipeTypes'
    BY <1>1, <1>2 DEF MuxTypes, PipeTypes
  <2>3. ProbeTypes'
    BY <1>1, <1>2 DEF ProbeTypes
  <2>. QED
    BY <2>1, <2>2, <2>3, TypesAfter
<1>4. Consecutive' /\ Verified'
  BY <1>1, <1>2, SameOrder, SameVerdict
<1>5. Control'
  BY <1>1, <1>2 DEF Control
<1>. QED
  BY <1>3, <1>4, <1>5 DEF IInv

\* The renderer reads from the buffer, or finds it empty, or closes the stream.
LEMMA InvReader ==
    ASSUME IInv, ReadBuffer \/ Disconnect
    PROVE  IInv'
<1>1. /\ TypeOK /\ Consecutive /\ Control /\ Verified
      /\ StartTypes /\ MuxTypes /\ PipeTypes /\ WaitTypes /\ ProbeTypes /\ ReadTypes
  BY Types DEF IInv
<1>2. /\ spc = "ok" /\ spc' = spc /\ rpc = "idle"
      /\ UNCHANGED <<muxVars, waitVars, ppc, hand, failed, valid, gaveUp, ready>>
  BY DEF ReadBuffer, Disconnect
<1>3. ppc = "done" /\ hand = <<>>
  BY <1>1, <1>2 DEF Control, ProbeTypes
<1>4. /\ last \in Nat /\ Len(buf) \in Nat /\ Len(pipe) \in Nat
      /\ buf \in Seq(1..MaxUnits) /\ Len(hand) = 0
  BY <1>1, <1>3, Counts
<1>5. \/ buf' = buf /\ last' = last /\ rpc' = "gone"
      \/ buf = <<>> /\ buf' = buf /\ last' = last /\ rpc' = "source"
      \/ /\ rpc' = rpc
         /\ \E n \in 1..Len(buf) : last' = buf[n] /\ buf' = SubSeq(buf, n + 1, Len(buf))
  BY DEF ReadBuffer, Disconnect
<1>6. PICK n \in 0..Len(buf) :
         /\ last' = last + n /\ last' \in 0..MaxUnits
         /\ buf' \in Seq(1..MaxUnits) /\ Len(buf') = Len(buf) - n
         /\ Follows(buf', last')
  <2>1. Follows(buf, last)
    BY <1>1, Runs
  <2>2. CASE buf' = buf /\ last' = last
    <3>1. 0 \in 0..Len(buf) /\ last' = last + 0 /\ Len(buf') = Len(buf) - 0
      BY <1>4, <2>2
    <3>2. last' \in 0..MaxUnits /\ buf' \in Seq(1..MaxUnits)
      BY <1>1, <1>4, <2>2 DEF ReadTypes
    <3>3. Follows(buf', last')
      BY <2>1, <2>2 DEF Follows
    <3>. QED
      BY <3>1, <3>2, <3>3
  <2>3. ASSUME NEW n \in 1..Len(buf), last' = buf[n],
               buf' = SubSeq(buf, n + 1, Len(buf))
        PROVE  /\ n \in 0..Len(buf) /\ last' = last + n /\ last' \in 0..MaxUnits
               /\ buf' \in Seq(1..MaxUnits) /\ Len(buf') = Len(buf) - n
               /\ Follows(buf', last')
    <3>1. n \in 0..Len(buf) /\ n > 0 /\ buf[n] \in 1..MaxUnits
      BY <1>4
    <3>2. buf[n] = last + n /\ Follows(SubSeq(buf, n + 1, Len(buf)), last + n)
      BY <1>4, <2>1, <3>1, FollowsCut
    <3>3. /\ SubSeq(buf, n + 1, Len(buf)) \in Seq(1..MaxUnits)
          /\ Len(SubSeq(buf, n + 1, Len(buf))) = Len(buf) - n
      BY <1>4, <3>1, FrontAndRest
    <3>4. last' = last + n /\ last' \in 0..MaxUnits
      BY <2>3, <3>1, <3>2
    <3>. QED
      BY <2>3, <3>1, <3>2, <3>3, <3>4
  <2>. QED
    BY <1>5, <2>2, <2>3
<1>7. TypeOK'
  <2>1. StartTypes' /\ WaitTypes'
    BY <1>1, <1>2 DEF StartTypes, WaitTypes
  <2>2. MuxTypes' /\ PipeTypes'
    BY <1>1, <1>2 DEF MuxTypes, PipeTypes
  <2>3. ReadTypes'
    BY <1>2, <1>5, <1>6 DEF ReadTypes
  <2>4. ProbeTypes'
    <3>1. Len(buf') < MaxProbeUnits + ReadUnits
      BY <1>1, <1>4, <1>6, Parameters DEF ProbeTypes
    <3>. QED
      BY <1>1, <1>2, <1>6, <3>1 DEF ProbeTypes
  <2>. QED
    BY <2>1, <2>2, <2>3, <2>4, TypesAfter
<1>8. Consecutive'
  <2>1. Taken' = Taken
    BY <1>2, <1>4, <1>6 DEF Taken
  <2>2. Follows(buf, last)'
    BY <1>6 DEF Follows
  <2>3. Follows(hand, last + Len(buf))'
    BY <1>2, <1>4 DEF Follows
  <2>4. Follows(pipe, Taken)'
    BY <1>1, <1>2, <2>1 DEF Consecutive, Follows
  <2>. QED
    BY <1>1, <1>2, <2>1, <2>2, <2>3, <2>4 DEF Consecutive
<1>9. Control'
  <2>1. rpc' = "source" => buf' = <<>>
    BY <1>2, <1>5
  <2>. QED
    BY <1>1, <1>2, <1>3, <2>1 DEF Control
<1>10. Verified'
  BY <1>2 DEF Verified
<1>. QED
  BY <1>7, <1>8, <1>9, <1>10 DEF IInv

\* The renderer reads from the pipe, once both of the probe's buffers are empty.
LEMMA InvReadSource ==
    ASSUME IInv, ReadSource
    PROVE  IInv'
<1>1. /\ TypeOK /\ Consecutive /\ Control /\ Verified
      /\ StartTypes /\ MuxTypes /\ PipeTypes /\ WaitTypes /\ ProbeTypes /\ ReadTypes
  BY Types DEF IInv
<1>2. /\ rpc = "source" /\ rpc' \in {"idle", "ended"}
      /\ UNCHANGED <<spc, sent, written, proc, stdout, waitVars, probeVars>>
  BY DEF ReadSource
<1>3. spc = "ok" /\ buf = <<>> /\ hand = <<>>
  BY <1>1, <1>2 DEF Control, ProbeTypes
<1>4. /\ last \in Nat /\ Len(pipe) \in Nat /\ pipe \in Seq(1..MaxUnits)
      /\ Len(buf) = 0 /\ Len(hand) = 0 /\ Taken = last
  BY <1>1, <1>3, Counts DEF Taken
<1>5. PICK n \in 0..Len(pipe) :
         /\ last' = last + n /\ last' \in 0..MaxUnits
         /\ pipe' \in Seq(1..MaxUnits) /\ Len(pipe') = Len(pipe) - n
         /\ Follows(pipe', last')
  <2>1. Follows(pipe, last)
    <3>1. Follows(pipe, Taken)
      BY <1>1, Runs
    <3>. QED
      BY <1>4, <3>1
  <2>2. CASE last' = last /\ pipe' = pipe
    <3>1. 0 \in 0..Len(pipe) /\ last' = last + 0 /\ Len(pipe') = Len(pipe) - 0
      BY <1>4, <2>2
    <3>2. last' \in 0..MaxUnits
      BY <1>1, <2>2 DEF ReadTypes
    <3>3. pipe' \in Seq(1..MaxUnits) /\ Follows(pipe', last')
      BY <1>4, <2>1, <2>2 DEF Follows
    <3>. QED
      BY <3>1, <3>2, <3>3
  <2>3. ASSUME NEW n \in 1..Len(pipe), last' = pipe[n],
               pipe' = SubSeq(pipe, n + 1, Len(pipe))
        PROVE  /\ n \in 0..Len(pipe) /\ last' = last + n /\ last' \in 0..MaxUnits
               /\ pipe' \in Seq(1..MaxUnits) /\ Len(pipe') = Len(pipe) - n
               /\ Follows(pipe', last')
    <3>1. n \in 0..Len(pipe) /\ n > 0 /\ pipe[n] \in 1..MaxUnits
      BY <1>4
    <3>2. pipe[n] = last + n /\ Follows(SubSeq(pipe, n + 1, Len(pipe)), last + n)
      BY <1>4, <2>1, <3>1, FollowsCut
    <3>3. /\ SubSeq(pipe, n + 1, Len(pipe)) \in Seq(1..MaxUnits)
          /\ Len(SubSeq(pipe, n + 1, Len(pipe))) = Len(pipe) - n
      BY <1>4, <3>1, FrontAndRest
    <3>4. last' = last + n /\ last' \in 0..MaxUnits
      BY <2>3, <3>1, <3>2
    <3>. QED
      BY <2>3, <3>1, <3>2, <3>3, <3>4
  <2>. QED
    BY <2>2, <2>3 DEF ReadSource
<1>6. TypeOK'
  <2>1. StartTypes' /\ MuxTypes' /\ WaitTypes'
    BY <1>1, <1>2 DEF StartTypes, MuxTypes, WaitTypes
  <2>2. ProbeTypes'
    BY <1>1, <1>2 DEF ProbeTypes
  <2>3. PipeTypes' /\ ReadTypes'
    BY <1>1, <1>2, <1>4, <1>5 DEF PipeTypes, ReadTypes
  <2>. QED
    BY <2>1, <2>2, <2>3, TypesAfter
<1>7. Consecutive'
  <2>1. Taken' = last'
    BY <1>2, <1>4, <1>5 DEF Taken
  <2>2. Follows(buf, last)' /\ Follows(hand, last + Len(buf))' /\ Follows(pipe, Taken)'
    BY <1>2, <1>4, <1>5, <2>1 DEF Follows
  <2>3. Taken' + Len(pipe') = Taken + Len(pipe)
    BY <1>4, <1>5, <2>1
  <2>. QED
    BY <1>1, <1>2, <2>2, <2>3 DEF Consecutive
<1>8. Control'
  <2>1. pipe = <<>> => pipe' = <<>>
    <3>1. pipe = <<>> => Len(pipe') = 0
      BY <1>4, <1>5
    <3>. QED
      BY <1>5, <3>1, EmptySeq
  <2>. QED
    BY <1>1, <1>2, <2>1 DEF Control
<1>9. Verified'
  BY <1>2, <1>3 DEF Verified
<1>. QED
  BY <1>6, <1>7, <1>8, <1>9 DEF IInv

\* The inductive invariant is preserved by every step.
LEMMA InvNext == IInv /\ [Next]_vars => IInv'
<1>. SUFFICES ASSUME IInv, [Next]_vars
              PROVE  IInv'
  OBVIOUS
<1>1. CASE UNCHANGED vars
  <2>. USE <1>1 DEF vars
  <2>1. /\ TypeOK /\ Consecutive /\ Control /\ Verified
        /\ StartTypes /\ MuxTypes /\ PipeTypes /\ WaitTypes /\ ProbeTypes /\ ReadTypes
    BY Types DEF IInv
  <2>2. StartTypes' /\ MuxTypes' /\ PipeTypes' /\ ReadTypes'
    BY <2>1 DEF StartTypes, MuxTypes, PipeTypes, ReadTypes
  <2>3. WaitTypes'
    BY <2>1 DEF WaitTypes
  <2>4. ProbeTypes'
    BY <2>1 DEF ProbeTypes
  <2>5. TypeOK'
    BY <2>2, <2>3, <2>4, TypesAfter
  <2>6. Consecutive' /\ Verified'
    BY <2>1, SameOrder, SameVerdict
  <2>7. Control'
    BY <2>1 DEF Control
  <2>. QED
    BY <2>5, <2>6, <2>7 DEF IInv
<1>2. CASE Terminated
  BY <1>1, <1>2 DEF Terminated
<1>3. CASE Probe
  BY <1>3, InvProbeRead, InvProbeAppend, InvProbeSignal DEF Probe
<1>. QED
  BY <1>1, <1>2, <1>3, InvMux, InvWaiter, InvStart, InvReader, InvReadSource DEF Next

\* The inductive invariant always holds.
LEMMA Invariant == Spec => []IInv
<1>. QED
  BY InvInit, InvNext, PTL DEF Spec

-----------------------------------------------------------------------------
(* What the code promises                                                  *)

\* In particular the probe buffers less than its limit and one read, however
\* large the limit and the reads.
THEOREM TypeCorrect == Spec => []TypeOK
<1>1. IInv => TypeOK
  BY DEF IInv
<1>. QED
  BY <1>1, Invariant, PTL

\* The hand-over from streamProbe to prefixReader loses, repeats and reorders
\* nothing, wherever reads and packets begin and end.
THEOREM HandOver == Spec => []InOrder
<1>1. ASSUME IInv PROVE InOrder
  <2>1. TypeOK /\ Consecutive /\ MuxTypes
    BY <1>1, Types DEF IInv
  <2>. DEFINE S == 0..MaxUnits
              a == <<last>>
              b == a \o buf
              c == b \o hand
              s == c \o pipe
  <2>2. /\ last \in Nat /\ written \in Nat /\ Taken = last + Len(buf) + Len(hand)
        /\ Len(buf) \in Nat /\ Len(hand) \in Nat /\ Len(pipe) \in Nat
        /\ last - 1 \in Int
    BY <2>1, Counts DEF Taken
  <2>3. buf \in Seq(S) /\ hand \in Seq(S) /\ pipe \in Seq(S)
    BY <2>1, Counts
  <2>4. a \in Seq(S) /\ Len(a) = 1 /\ Follows(a, last - 1)
    <3>1. last \in S
      BY <2>1 DEF TypeOK
    <3>2. a \in Seq(S) /\ Len(a) = 1 /\ a[1] = last
      BY <3>1
    <3>. QED
      BY <2>2, <3>2 DEF Follows
  <2>. HIDE DEF S, a
  <2>5. b \in Seq(S) /\ Len(b) = 1 + Len(buf) /\ Follows(b, last - 1)
    <3>1. Follows(buf, last - 1 + Len(a))
      <4>1. last - 1 + Len(a) = last
        BY <2>2, <2>4
      <4>. QED
        BY <2>1, <4>1, Runs
    <3>2. b \in Seq(S) /\ Len(b) = Len(a) + Len(buf) /\ Follows(b, last - 1)
      BY <2>2, <2>3, <2>4, <3>1, FollowsJoin, Zenon
    <3>. QED
      BY <2>2, <2>4, <3>2
  <2>. HIDE DEF b
  <2>6. c \in Seq(S) /\ Len(c) = 1 + Len(buf) + Len(hand) /\ Follows(c, last - 1)
    <3>1. Follows(hand, last - 1 + Len(b))
      <4>1. last - 1 + Len(b) = last + Len(buf)
        BY <2>2, <2>5
      <4>. QED
        BY <2>1, <4>1, Runs
    <3>2. c \in Seq(S) /\ Len(c) = Len(b) + Len(hand) /\ Follows(c, last - 1)
      BY <2>2, <2>3, <2>5, <3>1, FollowsJoin, Zenon
    <3>. QED
      BY <2>2, <2>5, <3>2
  <2>. HIDE DEF c
  <2>7. Len(s) = 1 + (Taken - last) + Len(pipe) /\ Follows(s, last - 1)
    <3>1. Follows(pipe, last - 1 + Len(c))
      <4>1. last - 1 + Len(c) = Taken
        BY <2>2, <2>6
      <4>. QED
        BY <2>1, <4>1, Runs
    <3>2. s \in Seq(S) /\ Len(s) = Len(c) + Len(pipe) /\ Follows(s, last - 1)
      BY <2>2, <2>3, <2>6, <3>1, FollowsJoin, Zenon
    <3>. QED
      BY <2>2, <2>6, <3>2
  <2>8. s = <<last>> \o buf \o hand \o pipe
    BY DEF a, b, c
  <2>. HIDE DEF s
  <2>9. Len(s) \in Nat \ {0} /\ \A i \in 1..Len(s) : s[i] = last - 1 + i
    BY <2>2, <2>7 DEF Follows
  <2>10. \A i \in 1..(Len(s) - 1) : s[i + 1] = s[i] + 1
    BY <2>2, <2>9
  <2>11. stdout = "open" => s[Len(s)] = written
    <3>1. s[Len(s)] = Taken + Len(pipe)
      BY <2>2, <2>7, <2>9
    <3>. QED
      BY <2>1, <3>1 DEF Consecutive
  <2>. QED
    BY <2>8, <2>10, <2>11 DEF InOrder
<1>. QED
  BY <1>1, Invariant, PTL

\* Only the waiter, after it has reaped ffmpeg, closes ffmpeg's standard output:
\* no renderer takes it away by closing the stream.
THEOREM StdoutOutlives == Spec => []PipeOutlivesFfmpeg
<1>1. IInv => PipeOutlivesFfmpeg
  BY DEF IInv, Control, PipeOutlivesFfmpeg
<1>. QED
  BY <1>1, Invariant, PTL

\* The stream Start returns has proved to be one: the bytes that did are still
\* in the buffer, and what the parser took for a PAT and a PMT were a PAT and
\* the PMT it lists, in packets of every size.
THEOREM StreamProved == Spec => StartVerified
<1>1. ASSUME IInv, [Next]_vars, spc' = "ok", spc # "ok"
      PROVE  Len(buf) >= StartupUnits /\ {"pat", "pmt"} \subseteq Announced
  <2>1. valid
    <3>1. ~UNCHANGED spc
      BY <1>1
    <3>. QED
      BY <1>1, <3>1
         DEF Next, Mux, ProcExit, WaitReap, WaitStdout, WaitDone, WaitClose,
             CallerClose, Probe, ProbeRead, ProbeAppend, ProbeSignal, ReadBuffer,
             ReadSource, Disconnect, Start, WaitReady, WaitExit, WaitTimeout, Grace,
             StartFail, Terminated, vars
  <2>2. Proved(buf)
    BY <1>1, <2>1 DEF IInv, Verified
  <2>. DEFINE n == Len(buf) \div 2
  <2>3. n \in Nat /\ n <= Len(sent) /\ sent \in Seq(Kinds)
    <3>1. /\ Len(buf) \in Nat /\ written \in Nat /\ Len(buf) <= written
          /\ sent \in Seq(Kinds) /\ Len(sent) = (written + 1) \div 2
      BY <1>1, Counts DEF IInv, TypeOK, Consecutive, Taken
    <3>. QED
      BY <3>1
  <2>4. HasPATAndPMT({Bytes[sent[i]] : i \in 1..n})
    BY <2>2 DEF Proved, Buffered
  <2>. HIDE DEF n
  <2>5. \A i \in 1..n : sent[i] \in Kinds
    BY <2>3
  <2>6. {"pat", "pmt"} \subseteq {sent[i] : i \in 1..n}
    BY <2>3, <2>4, <2>5, ProvedMeansAnnounced
  <2>. QED
    BY <2>2, <2>6 DEF Proved, Announced, n
<1>2. IInv /\ [Next]_vars =>
        [spc' = "ok" /\ spc # "ok" =>
            Len(buf) >= StartupUnits /\ {"pat", "pmt"} \subseteq Announced]_vars
  BY <1>1
<1>. QED
  BY <1>2, Invariant, PTL DEF Spec, StartVerified

=============================================================================
