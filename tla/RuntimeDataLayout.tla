--------------------------- MODULE RuntimeDataLayout ---------------------------
(***************************************************************************)
(* Where the runtime data of a stamped executable lies: what the writer    *)
(* accepts as a template, what it writes, and what a reader finds, for     *)
(* PE, Mach-O and other executables (runtime_data.rs).                     *)
(*                                                                         *)
(* A file is its cells and its image: what the headers in the first cells  *)
(* parse to.  Offsets count cells from 0, as in the code.  One cell stands *)
(* for what is only read and written whole: a footer, a section header, a  *)
(* load command, the JSON header.  A digest is the content it is taken of. *)
(***************************************************************************)
EXTENDS Naturals, Sequences, FiniteSetsExt

CONSTANTS
  SignatureAlignment,    \* MACHO_SIGNATURE_ALIGNMENT
  CertificateAlignment,  \* PE_CERTIFICATE_ALIGNMENT, and the smallest table entry
  FileAlignments,        \* legal FileAlignment values of a PE image
  SectionAlignments,     \* powers of two
  Page,                  \* below this SectionAlignment is "low"; Mach-O page size
  MaxOffset,             \* u32::MAX, the largest signature or certificate offset
  MaxImageSize,          \* PE_MAX_IMAGE_SIZE
  MaxSections,           \* sections of a PE image, and Mach-O load commands
  MaxEntries             \* MAX_PE_CERTIFICATE_ENTRIES

ASSUME LayoutAssumption ==
  /\ {SignatureAlignment, CertificateAlignment, Page} \subseteq Nat \ {0}
  /\ FileAlignments \subseteq Nat \ {0} /\ SectionAlignments \subseteq Nat \ {0}
  /\ {MaxOffset, MaxImageSize, MaxSections, MaxEntries} \subseteq Nat

-----------------------------------------------------------------------------
(* Cells and ranges of cells *)

Zero == <<"zero">>
Command == <<"command">>            \* a section header or a load command

(* The JSON header as written for a platform ("" for none).                 *)
Header(runtime, platform) == << <<"header", runtime, platform>> >>

(* encode_footer: the two lengths and digests, and the magic.               *)
Footer(header, bundle) == <<"footer", header, bundle>>
IsFooter(cell) == cell[1] = "footer"

FooterLen == 1

Slice(cells, offset, len) == SubSeq(cells, offset + 1, offset + len)

(* ensure_zero_file_range, which fails past the end of the file.            *)
ZeroRange(cells, offset, len) ==
  \A i \in offset + 1 .. offset + len : i <= Len(cells) /\ cells[i] = Zero

(* File::set_len and a seek followed by write_all.                          *)
Resized(cells, len) == [i \in 1 .. len |-> IF i <= Len(cells) THEN cells[i] ELSE Zero]

Written(cells, offset, data) ==
  [i \in 1 .. Max({Len(cells), offset + Len(data)}) |->
     IF i - offset \in DOMAIN data THEN data[i - offset]
     ELSE IF i <= Len(cells) THEN cells[i] ELSE Zero]

align_up(value, alignment) == ((value + alignment - 1) \div alignment) * alignment

(* The writer refuses a template; and the image of a file without headers.  *)
NoImage == [machine |-> ""]
Refused == [format |-> "refused", image |-> NoImage, cells |-> <<>>]

(* validate_pe_platform and validate_macho_platform. *)
PlatformFits(image, header) == header[1][3] \in {"", image.machine}

-----------------------------------------------------------------------------
(* Finding the data: read_runtime_data_with_search_spec and what it calls *)

NotFound == [found |-> "none", header |-> <<>>, offset |-> 0, bundle |-> <<>>]
Invalid  == [NotFound EXCEPT !.found = "error"]

(* read_runtime_data_payload.  The bundle is not read here: its digest is   *)
(* compared when it is opened.                                              *)
Payload(cells, start, footer) ==
  LET header == footer[2] IN
    IF start + Len(header) <= Len(cells) /\ Slice(cells, start, Len(header)) = header
    THEN [found |-> "data", header |-> header,
          offset |-> start + Len(header), bundle |-> footer[3]]
    ELSE Invalid

(* read_runtime_data_at_footer. *)
AtFooter(cells, start, minimum) ==
  LET footer == cells[start + 1]
      len    == Len(footer[2]) + Len(footer[3])
  IN  IF len > start \/ start - len < minimum THEN Invalid
      ELSE Payload(cells, start - len, footer)

(* The gaps before dataEnd after which a footer ends. *)
FooterGaps(cells, dataEnd, alignment) ==
  {gap \in 0 .. alignment - 1 : gap < dataEnd /\ IsFooter(cells[dataEnd - gap])}

SearchFooter(cells, dataEnd, alignment, minimum) ==
  LET gaps == FooterGaps(cells, dataEnd, alignment) IN
    IF gaps = {} THEN NotFound
    ELSE LET gap == Min(gaps) IN
           IF ~ZeroRange(cells, dataEnd - gap, gap) THEN Invalid
           ELSE AtFooter(cells, dataEnd - gap - FooterLen, minimum)

(* A reader that has found data also checks its platform.                   *)
OnPlatform(image, data) ==
  IF data.found = "data" /\ ~PlatformFits(image, data.header) THEN Invalid ELSE data

-----------------------------------------------------------------------------
(* PE images: what pe_layout_from_file reads of the headers and of the      *)
(* section table, which begins at an offset and has room up to the size of  *)
(* the headers; directory tells whether there is room for a certificate     *)
(* entry, reader whether the image declares a reader of these layouts.      *)

Anchor == ".cship"

PeSections ==
  [name : STRING \union {Anchor}, va : Nat, vsize : Nat, raw : Nat, size : Nat]

PeImages ==
  [machine : STRING, executable : BOOLEAN, reader : BOOLEAN, directory : BOOLEAN,
   table : Nat, headers : Nat, fileAlignment : Nat, sectionAlignment : Nat, size : Nat,
   sections : Seq(PeSections), certificate : [offset : Nat, size : Nat]]

Backed(image) == {i \in DOMAIN image.sections : image.sections[i].size # 0}

VirtualSpan(section) == Max({section.vsize, section.size})
VirtualEnd(section) == section.va + VirtualSpan(section)
RawEnd(section) == section.raw + section.size

Mapped(image) == {i \in DOMAIN image.sections : VirtualSpan(image.sections[i]) # 0}

max_raw_end(image) ==
  Max({image.headers} \union {RawEnd(image.sections[i]) : i \in Backed(image)})
max_virtual_end(image) ==
  Max({0} \union {VirtualEnd(image.sections[i]) : i \in Mapped(image)})
first_section_offset(image) == Min({image.sections[i].raw : i \in Backed(image)})

Anchors(image) == {i \in DOMAIN image.sections : image.sections[i].name = Anchor}
AnchorOf(image) == image.sections[CHOOSE i \in Anchors(image) : TRUE]

LowAlignment(image) == image.sectionAlignment < Page

(* The header part of pe_layout_from_file. *)
PeHeadersAccepted(image, len) ==
  /\ image.executable
  /\ Len(image.sections) \in 1 .. MaxSections
  /\ image.headers <= len
  /\ image.table + Len(image.sections) <= image.headers
  /\ image.fileAlignment \in FileAlignments /\ image.sectionAlignment \in SectionAlignments
  /\ IF LowAlignment(image) THEN image.sectionAlignment = image.fileAlignment
                            ELSE image.sectionAlignment >= image.fileAlignment
  /\ image.headers % image.fileAlignment = 0
  /\ image.size % image.sectionAlignment = 0
  /\ image.size <= MaxImageSize

(* Its loop over the sections: in the file they are aligned, ordered and    *)
(* apart from the headers ...                                               *)
PeRawAccepted(image, len) ==
  /\ \A i \in DOMAIN image.sections : RawEnd(image.sections[i]) <= len
  /\ \A i \in Backed(image) :
       LET s == image.sections[i] IN
         /\ s.raw >= image.headers
         /\ s.raw % image.fileAlignment = 0 /\ s.size % image.fileAlignment = 0
         /\ LowAlignment(image) => s.raw = s.va
         /\ \A j \in Backed(image) : j < i => RawEnd(image.sections[j]) <= s.raw

(* ... in memory adjacent ...                                               *)
PeVirtualAccepted(image) ==
  /\ \A i \in Mapped(image) :
       LET s      == image.sections[i]
           before == {j \in Mapped(image) : j < i}
           align(value) == align_up(value, image.sectionAlignment)
       IN  /\ s.va % image.sectionAlignment = 0
           /\ IF before = {} THEN s.va >= align(image.headers)
                             ELSE s.va = align(VirtualEnd(image.sections[Max(before)]))
  /\ align_up(max_virtual_end(image), image.sectionAlignment) <= image.size

(* ... and an anchor has its exact size and comes last.                     *)
PeAnchorAccepted(image) ==
  \A i \in Anchors(image) :
    LET s == image.sections[i] IN
      /\ Anchors(image) = {i}
      /\ s.vsize = FooterLen /\ s.size = align_up(FooterLen, image.fileAlignment)
      /\ RawEnd(s) = max_raw_end(image) /\ VirtualEnd(s) = max_virtual_end(image)

NoCertificate == [offset |-> 0, size |-> 0]

PeCertificateAccepted(image, len) ==
  LET c == image.certificate IN
    \/ c = NoCertificate
    \/ /\ c.offset # 0 /\ c.size >= CertificateAlignment
       /\ c.offset % CertificateAlignment = 0
       /\ c.offset + c.size = len
       /\ c.offset >= max_raw_end(image)

PeAccepted(file) ==
  /\ PeHeadersAccepted(file.image, Len(file.cells))
  /\ PeRawAccepted(file.image, Len(file.cells))
  /\ PeVirtualAccepted(file.image)
  /\ PeAnchorAccepted(file.image)
  /\ PeCertificateAccepted(file.image, Len(file.cells))

(* pe_runtime_content_layout: zeros first, so that the data ends where a    *)
(* certificate table may begin.                                             *)
PayloadEnd(anchorEnd, contentLen) == align_up(anchorEnd + contentLen, CertificateAlignment)
PayloadStart(anchorEnd, contentLen) == PayloadEnd(anchorEnd, contentLen) - contentLen

(* What write_pe_runtime_data asks of a template beyond a valid layout.     *)
PeTemplateAccepted(file, header) ==
  LET image == file.image
      slot  == image.table + Len(image.sections)
  IN  /\ PeAccepted(file)
      /\ PlatformFits(image, header)
      /\ Anchors(image) = {}
      /\ image.certificate = NoCertificate
      /\ Len(file.cells) = max_raw_end(image)
      /\ image.directory
      /\ Backed(image) # {}
      /\ slot + 1 <= image.headers /\ slot + 1 <= first_section_offset(image)
      /\ Len(image.sections) + 1 <= MaxSections
      /\ ZeroRange(file.cells, slot, 1)

(* Mutation of AnchorSection: the anchor follows the last raw data even if  *)
(* file offsets have to equal virtual addresses.                            *)
AnchorAfterRawData(image) ==
  [name |-> Anchor, va |-> align_up(max_virtual_end(image), image.sectionAlignment),
   vsize |-> FooterLen, raw |-> max_raw_end(image),
   size |-> align_up(FooterLen, image.fileAlignment)]

AnchorSection(image) ==
  LET va == align_up(max_virtual_end(image), image.sectionAlignment) IN
    [name |-> Anchor, va |-> va, vsize |-> FooterLen,
     raw |-> IF LowAlignment(image) THEN va ELSE max_raw_end(image),
     size |-> align_up(FooterLen, image.fileAlignment)]

write_pe_runtime_data(file, header, bundle) ==
  LET image   == file.image
      anchor  == AnchorSection(image)
      content == header \o bundle
      start   == PayloadStart(RawEnd(anchor), Len(content))
      end     == PayloadEnd(RawEnd(anchor), Len(content))
      needed  == align_up(anchor.va + VirtualSpan(anchor), image.sectionAlignment)
      size    == Max({needed, image.size})
      body    == Written(Resized(file.cells, start), start, content)
      slot    == image.table + Len(image.sections)
  IN  IF ~PeTemplateAccepted(file, header) \/ end > MaxOffset \/ size > MaxImageSize
      THEN Refused
      ELSE [format |-> "pe",
            image  |-> [image EXCEPT !.sections = Append(@, anchor), !.size = size],
            cells  |-> Written(Written(body, anchor.raw, <<Footer(header, bundle)>>),
                               slot, <<Command>>)]

(* validate_pe_certificate_table: entries of at least one aligned header,   *)
(* whose aligned lengths add up to the size of the table.                   *)
CertificateTableAccepted(table) ==
  LET walk[cursor \in Nat, count \in Nat] ==
        \/ cursor = Len(table)
        \/ /\ cursor < Len(table) /\ count < MaxEntries
           /\ LET entry == table[cursor + 1] IN
                /\ entry[1] = "entry" /\ entry[2] >= CertificateAlignment
                /\ walk[cursor + align_up(entry[2], CertificateAlignment), count + 1]
  IN  walk[0, 0]

(* read_pe_runtime_data without an anchor: a stamp of an older release, for *)
(* which a certificate table is an error.                                   *)
ReadPeLegacy(file) ==
  LET certificate == file.image.certificate IN
    IF certificate = NoCertificate
    THEN SearchFooter(file.cells, Len(file.cells), 1, max_raw_end(file.image))
    ELSE IF FooterGaps(file.cells, certificate.offset, CertificateAlignment) # {}
         THEN Invalid ELSE NotFound

(* ... and with one: its footer decides where the data must begin and end.  *)
ReadPeAnchored(file) ==
  LET anchor == AnchorOf(file.image)
      footer == file.cells[anchor.raw + 1]
      len    == Len(footer[2]) + Len(footer[3])
      start  == PayloadStart(RawEnd(anchor), len)
      end    == IF file.image.certificate = NoCertificate
                  THEN Len(file.cells) ELSE file.image.certificate.offset
  IN  IF ~IsFooter(footer) THEN Invalid
      ELSE IF /\ ZeroRange(file.cells, anchor.raw + FooterLen, anchor.size - FooterLen)
              /\ PayloadEnd(RawEnd(anchor), len) = end
              /\ ZeroRange(file.cells, RawEnd(anchor), start - RawEnd(anchor))
           THEN Payload(file.cells, start, footer)
           ELSE Invalid

read_pe_runtime_data(file) ==
  LET certificate == file.image.certificate IN
    IF \/ ~PeAccepted(file)
       \/ /\ certificate # NoCertificate
          /\ ~CertificateTableAccepted(Slice(file.cells, certificate.offset, certificate.size))
    THEN Invalid
    ELSE OnPlatform(file.image, IF Anchors(file.image) = {} THEN ReadPeLegacy(file)
                                                            ELSE ReadPeAnchored(file))


-----------------------------------------------------------------------------
(* Mach-O images: the load commands read_macho_layout walks over.  off and  *)
(* size are the range in the file a command refers to (a main command's off *)
(* is the entry point), sect and sectsize the section of a segment that has *)
(* one, vm and vmsize the memory of a segment.                              *)

SupportedCommands == {"segment", "platform", "main", "dylinker", "data", "signature", "other"}

MachOCommands ==
  [cmd : {"segment"}, name : STRING, prot : STRING, vm : Nat, vmsize : Nat, off : Nat,
   size : Nat, sect : Nat, sectsize : Nat]
  \union
  [cmd : {"data", "signature"}, name : {""}, prot : {""}, vm : {0}, vmsize : {0}, off : Nat,
   size : Nat, sect : {0}, sectsize : {0}]
  \union
  [cmd : STRING \ {"segment", "data", "signature"}, name : {""}, prot : {""}, vm : {0},
   vmsize : {0}, off : Nat, size : {0}, sect : {0}, sectsize : {0}]

MachOImages ==
  [machine : STRING, executable : BOOLEAN, reader : BOOLEAN, commands : Seq(MachOCommands)]

Numbers(image, cmd) == {i \in DOMAIN image.commands : image.commands[i].cmd = cmd}
Segments(image, name) ==
  {i \in Numbers(image, "segment") : image.commands[i].name = name}

TheCommand(image, cmd) == image.commands[CHOOSE i \in Numbers(image, cmd) : TRUE]
Linkedit(image) == image.commands[CHOOSE i \in Segments(image, "__LINKEDIT") : TRUE]

CommandsEnd(image) == 1 + Len(image.commands)
FileEnd(command) == command.off + command.size
SectionEnd(command) == command.sect + command.sectsize

(* The offsets of the sections that have bytes in the file. *)
SectionOffsets(image) ==
  {image.commands[i].sect : i \in {j \in DOMAIN image.commands : image.commands[j].sect # 0}}

(* Data of __LINKEDIT that a command other than the signature refers to. *)
Referenced(image) == {i \in Numbers(image, "data") : image.commands[i].size # 0}
max_non_signature_data_end(image) ==
  Max({0} \union {FileEnd(image.commands[i]) : i \in Referenced(image)})

MachOSegmentAccepted(image, segment, len) ==
  /\ segment.prot # "rwx"
  /\ segment.size <= segment.vmsize /\ FileEnd(segment) <= len
  /\ segment.sectsize # 0 => segment.off <= segment.sect /\ SectionEnd(segment) <= FileEnd(segment)
  /\ segment.name = "__TEXT" =>
       segment.off = 0 /\ segment.prot = "rx" /\ FileEnd(segment) >= CommandsEnd(image)
  /\ segment.name = "__LINKEDIT" => segment.prot = "r" /\ segment.sect = 0

MachOSegmentsDisjoint(image) ==
  LET segments == Numbers(image, "segment")
      c(i)     == image.commands[i]
      Apart(i, j) == /\ \/ c(i).size = 0 \/ c(j).size = 0
                        \/ FileEnd(c(i)) <= c(j).off \/ FileEnd(c(j)) <= c(i).off
                     /\ \/ c(i).vmsize = 0 \/ c(j).vmsize = 0
                        \/ c(i).vm + c(i).vmsize <= c(j).vm \/ c(j).vm + c(j).vmsize <= c(i).vm
  IN  \A i, j \in segments : i # j => Apart(i, j)

MachOEntryAccepted(image) ==
  \E i \in Numbers(image, "segment") :
    LET s == image.commands[i] IN
      s.prot = "rx" /\ TheCommand(image, "main").off \in s.sect .. SectionEnd(s) - 1

MachOHeaderAccepted(image, len) ==
  /\ image.executable
  /\ Len(image.commands) <= MaxSections /\ CommandsEnd(image) <= len

MachOCommandsAccepted(image) ==
  /\ \A i \in DOMAIN image.commands : image.commands[i].cmd \in SupportedCommands
  /\ \A cmd \in {"platform", "dylinker", "main"} : Cardinality(Numbers(image, cmd)) = 1
  /\ \A name \in {"__TEXT", "__LINKEDIT"} : Cardinality(Segments(image, name)) = 1
  /\ Cardinality(Numbers(image, "signature")) <= 1

(* Tables lie in __LINKEDIT, and sections behind the load commands.         *)
MachODataAccepted(image, len) ==
  /\ \A i \in Referenced(image) :
       /\ image.commands[i].off >= Linkedit(image).off
       /\ FileEnd(image.commands[i]) <= FileEnd(Linkedit(image))
  /\ \A offset \in SectionOffsets(image) : offset \in CommandsEnd(image) .. len

(* read_macho_layout. *)
MachOAccepted(file) ==
  LET image == file.image
      len   == Len(file.cells)
  IN  /\ MachOHeaderAccepted(image, len)
      /\ MachOCommandsAccepted(image)
      /\ \A i \in Numbers(image, "segment") : MachOSegmentAccepted(image, image.commands[i], len)
      /\ MachOEntryAccepted(image)
      /\ MachOSegmentsDisjoint(image)
      /\ MachODataAccepted(image, len)

SignedMachO(image) == Numbers(image, "signature") # {}
Signature(image) == TheCommand(image, "signature")

(* Mutation of SignatureAccepted: data of the program may lie after the     *)
(* place where the signature begins.                                        *)
SignatureOverData(image, len) ==
  LET s == Signature(image) IN
    /\ s.size # 0 /\ FileEnd(s) = len
    /\ s.off >= Linkedit(image).off /\ s.off >= CommandsEnd(image)
    /\ s.off % SignatureAlignment = 0

SignatureAccepted(image, len) ==
  LET s == Signature(image) IN
    /\ s.size # 0 /\ FileEnd(s) = len
    /\ s.off >= Linkedit(image).off /\ s.off >= CommandsEnd(image)
    /\ s.off % SignatureAlignment = 0
    /\ s.off >= max_non_signature_data_end(image)

(* validate_macho_final_layout. *)
FinalLayout(image, len) ==
  /\ FileEnd(Linkedit(image)) = len
  /\ \A i \in Numbers(image, "segment") :
       /\ image.commands[i].off <= Linkedit(image).off
       /\ image.commands[i].vm <= Linkedit(image).vm
  /\ Linkedit(image).off >= CommandsEnd(image)
  /\ SignedMachO(image) => SignatureAccepted(image, len)

(* The signature command is dropped, and the commands after it move down.   *)
Unsigned(image) ==
  LET i == CHOOSE i \in Numbers(image, "signature") : TRUE
  IN  IF ~SignedMachO(image) THEN image
      ELSE [image EXCEPT !.commands = SubSeq(@, 1, i - 1) \o SubSeq(@, i + 1, Len(@))]

(* __LINKEDIT is made to end at a file offset. *)
Extended(image, end) ==
  LET i    == CHOOSE i \in Segments(image, "__LINKEDIT") : TRUE
      size == end - Linkedit(image).off
  IN  [image EXCEPT !.commands[i].size = size, !.commands[i].vmsize = align_up(size, Page)]

MachOTemplateAccepted(file, header) ==
  LET image == file.image
      end   == CommandsEnd(image)
  IN  /\ MachOAccepted(file)
      /\ FinalLayout(image, Len(file.cells))
      /\ PlatformFits(image, header)
      /\ \/ SignedMachO(image)
         \/ /\ SectionOffsets(image) # {} /\ end + 1 <= Min(SectionOffsets(image))
            /\ ZeroRange(file.cells, end, 1)

write_macho_runtime_data(file, header, bundle) ==
  LET signed  == SignedMachO(file.image)
      image   == Unsigned(file.image)
      base    == IF signed THEN Signature(file.image).off ELSE Len(file.cells)
      offset  == align_up(base, SignatureAlignment)
      end     == offset + Len(header) + Len(bundle) + FooterLen
      prefix  == IF signed THEN Written(file.cells, CommandsEnd(image), <<Zero>>) ELSE file.cells
  IN  IF ~MachOTemplateAccepted(file, header) \/ align_up(end, SignatureAlignment) > MaxOffset
      THEN Refused
      ELSE [format |-> "macho", image |-> Extended(image, end),
            cells  |-> Resized(prefix, offset) \o header \o bundle \o <<Footer(header, bundle)>>]

(* Mutation of MachODataEnd: the data is looked for at the end of the file.  *)
FileDataEnd(file) == Len(file.cells)

(* macho_footer_search_spec: the data ends before a signature.              *)
MachODataEnd(file) ==
  IF SignedMachO(file.image) THEN Signature(file.image).off ELSE Len(file.cells)

read_macho_runtime_data(file) ==
  LET alignment == IF SignedMachO(file.image) THEN SignatureAlignment ELSE 1 IN
    IF ~MachOAccepted(file) \/ ~FinalLayout(file.image, Len(file.cells)) THEN Invalid
    ELSE OnPlatform(file.image, SearchFooter(file.cells, MachODataEnd(file), alignment,
                                             Linkedit(file.image).off))

-----------------------------------------------------------------------------
(* Every format *)

(* Files whose cells are from a set.  Only PE and Mach-O have an image.     *)
Executables(cells) ==
  [format : {"pe"}, image : PeImages, cells : Seq(cells)]
  \union
  [format : {"macho"}, image : MachOImages, cells : Seq(cells)]
  \union
  [format : {"other", "unsupported", "refused"}, image : {NoImage}, cells : Seq(cells)]

(* validate_runtime_template_reader: a template declares that its reader    *)
(* knows the layouts above.                                                 *)
HasReader(file) ==
  CASE file.format = "macho" -> MachOAccepted(file) /\ file.image.reader
    [] file.format = "pe"    -> PeAccepted(file) /\ file.image.reader
    [] OTHER                 -> TRUE

(* The bytes of a platform with no layout of its own are only appended to. *)
Append_runtime_data(file, header, bundle) ==
  [file EXCEPT !.cells = @ \o header \o bundle \o <<Footer(header, bundle)>>]

(* write_runtime_content. *)
WriteRuntimeData(file, header, bundle) ==
  CASE file.format = "macho" -> write_macho_runtime_data(file, header, bundle)
    [] file.format = "pe"    -> write_pe_runtime_data(file, header, bundle)
    [] file.format = "other" -> Append_runtime_data(file, header, bundle)
    [] OTHER                 -> Refused

(* read_from_file. *)
ReadRuntimeData(file) ==
  CASE file.format = "macho" -> read_macho_runtime_data(file)
    [] file.format = "pe"    -> read_pe_runtime_data(file)
    [] file.format = "other" -> SearchFooter(file.cells, Len(file.cells), 1, 0)
    [] OTHER                 -> Invalid

-----------------------------------------------------------------------------
(* The signers of the platforms: external programs. *)

(* codesign refuses an image that fails its strict validation, or that has  *)
(* no room for its command.                                                 *)
RoomForSignature(image) ==
  LET end == CommandsEnd(image) + 1 IN
    \/ SignedMachO(image)
    \/ /\ Len(image.commands) < MaxSections
       /\ end <= Linkedit(image).off
       /\ \A offset \in SectionOffsets(image) : end <= offset
       /\ \A i \in Segments(image, "__TEXT") : end <= FileEnd(image.commands[i])
Signable(file) ==
  /\ MachOAccepted(file) /\ FinalLayout(file.image, Len(file.cells))
  /\ RoomForSignature(file.image)

(* codesign: the signature command takes the slot or keeps its place, and   *)
(* the signature follows the data at an aligned offset.                     *)
CodeSign(file, signature) ==
  LET image  == Unsigned(file.image)
      base   == IF SignedMachO(file.image) THEN Signature(file.image).off ELSE Len(file.cells)
      offset == align_up(base, SignatureAlignment)
      command == [cmd |-> "signature", name |-> "", prot |-> "", vm |-> 0, vmsize |-> 0,
                  off |-> offset, size |-> Len(signature), sect |-> 0, sectsize |-> 0]
      signed == [image EXCEPT !.commands = Append(@, command)]
  IN  [format |-> "macho", image |-> Extended(signed, offset + Len(signature)),
       cells  |-> Resized(Written(file.cells, CommandsEnd(image), <<Command>>), offset)
                    \o signature]

(* Authenticode: the certificate table is the last of the file. *)
Authenticode(file, table) ==
  LET c      == file.image.certificate
      offset == IF c = NoCertificate THEN align_up(Len(file.cells), CertificateAlignment)
                                     ELSE c.offset
  IN  [format |-> "pe",
       image  |-> [file.image EXCEPT !.certificate = [offset |-> offset, size |-> Len(table)]],
       cells  |-> Resized(file.cells, offset) \o table]
=============================================================================
