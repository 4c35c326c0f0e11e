------------------------------ MODULE TsPacket ------------------------------
(***************************************************************************)
(* ts/session.go, psiSectionStart and hasPATAndPMT: how the bytes of the   *)
(* startup buffer are parsed.  Bytes are what they are; only the size of a *)
(* packet is a parameter, 188 in the code.                                 *)
(* An operator X_Fault next to X is X with a plausible mistake in it.      *)
(***************************************************************************)
EXTENDS Integers

CONSTANT TsPacketSize

ASSUME SizeAssumption == TsPacketSize \in Nat /\ TsPacketSize >= 5

Byte    == 0..255
Offsets == 0..(TsPacketSize - 1)
Packet  == [Offsets -> Byte]

SyncByte   == 71
PatPID     == 0
TableIDPAT == 0
TableIDPMT == 2

\* The bit fields of the header.
Pid(pkt)       == (pkt[1] % 32) * 256 + pkt[2]
UnitStart(pkt) == (pkt[1] \div 64) % 2 = 1
Afc(pkt)       == (pkt[3] \div 16) % 4

\* Offset of pointer_field: after the header, and the adaptation field if any.
Pointer(pkt) == IF Afc(pkt) = 3 THEN 4 + pkt[4] + 1 ELSE 4

\* Where the section starts; sec in the code.
SectionStart(pkt) == Pointer(pkt) + 1 + pkt[Pointer(pkt)]

\* psiSectionStart's ok.
HasSection(pkt) ==
    /\ pkt[0] = SyncByte
    /\ UnitStart(pkt)
    /\ Afc(pkt) \in {1, 3}
    /\ Afc(pkt) = 3 => Pointer(pkt) + 3 < TsPacketSize
    /\ SectionStart(pkt) + 3 <= TsPacketSize

IsTable(pkt, id) == HasSection(pkt) /\ pkt[SectionStart(pkt)] = id

SectionLength(pkt) ==
    (pkt[SectionStart(pkt) + 1] % 16) * 256 + pkt[SectionStart(pkt) + 2]

\* The checksum at the end of the section counts as entries too.
EntriesEnd_WithChecksum(pkt) == SectionStart(pkt) + 3 + SectionLength(pkt)

\* The program entries stop where the section's checksum starts.
EntriesEnd(pkt) == SectionStart(pkt) + 3 + SectionLength(pkt) - 4

\* Offsets of the program entries the packet has room for.
Entries(pkt) == {e \in (SectionStart(pkt) + 8)..(TsPacketSize - 4) :
                    /\ (e - SectionStart(pkt) - 8) % 4 = 0
                    /\ e + 4 <= EntriesEnd(pkt)}

\* Program 0 is the network information table.
PmtPIDs(pkt) == {(pkt[e + 2] % 32) * 256 + pkt[e + 3] :
                    e \in {f \in Entries(pkt) : pkt[f] * 256 + pkt[f + 1] # 0}}

\* The packets hold a PAT and a PMT on a PID it lists, in either order.
HasPATAndPMT(pkts) ==
    LET pats == {pkt \in pkts : Pid(pkt) = PatPID /\ IsTable(pkt, TableIDPAT)}
        pids == UNION {PmtPIDs(pkt) : pkt \in pats}
    IN  \E pkt \in pkts : Pid(pkt) \in pids /\ IsTable(pkt, TableIDPMT)

\* The offsets the parser reads, whatever it makes of them.
Reads(pkt) ==
    0..4
    \cup (IF Afc(pkt) = 3 /\ Pointer(pkt) + 3 < TsPacketSize THEN {Pointer(pkt)} ELSE {})
    \cup (IF HasSection(pkt)
          THEN SectionStart(pkt)..(SectionStart(pkt) + 2)
               \cup UNION {e..(e + 3) : e \in Entries(pkt)}
          ELSE {})

=============================================================================
