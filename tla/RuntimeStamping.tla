---------------------------- MODULE RuntimeStamping ----------------------------
(***************************************************************************)
(* append_to_binary (runtime_data.rs) and its caller stamp_runtime_data    *)
(* (artifact.rs): a template at a path is copied to a temporary file,      *)
(* checked, stamped, read back and renamed over the path; then a signer    *)
(* of the platform may sign it, and it may be stamped again.  Meanwhile    *)
(* other programs overwrite or replace the template, overwrite the bundle  *)
(* and replace the temporary file.                                         *)
(***************************************************************************)
EXTENDS RuntimeDataLayout

CONSTANTS
  Templates,    \* files a build may start from, good and bad
  Builds,       \* files other programs put in their place
  Bundles,      \* contents of the bundle
  Signatures,   \* cells a code signature or a certificate table may hold
  Runtimes,     \* names in headers
  Platforms,    \* platforms in headers
  Buffer,       \* cells in the first of the two reads a template takes
  BundleBuffer, \* and in the first of the two a bundle takes
  MaxSigns,     \* calls of a signer
  MaxEvents     \* calls of stamp_runtime_data and changes made by other programs

ASSUME StampAssumption ==
  /\ \A file \in Templates \union Builds : file \in Executables(Range(file.cells))
  /\ \A cells \in Bundles \union Signatures : cells \in Seq(Range(cells))
  /\ {Buffer, BundleBuffer, MaxSigns, MaxEvents} \subseteq Nat

VARIABLES
  disk,       \* the files, by inode: their content and modification time
  binary,     \* the inode at the path of the template
  temporary,  \* the inode at the path of the temporary file, 0 for none
  bundle,     \* the bundle's cells and modification time
  stamper,    \* what append_to_binary knows
  published,  \* the last stamp it put at the path, while it lies there
  templates,  \* every content the opened template has had since it was opened
  bundles,    \* every content the bundle has had since it was opened
  quiet,      \* overwrites since the stamper began that kept the time
  meddles, stamps, signs

stampVars == <<disk, binary, temporary, bundle, stamper, published, templates, bundles, quiet,
               meddles, stamps, signs>>

None == [inode |-> 0]
Unopened == [len |-> 0, time |-> 0]
Idle(step) ==
  [step |-> step, header |-> <<>>, embedded |-> FALSE, input |-> 0, opened |-> Unopened,
   output |-> 0, copy |-> Refused, hashed |-> <<>>, bundleOpened |-> Unopened,
   content |-> <<>>, rehashed |-> <<>>]

StampInit ==
  /\ \E file \in Templates : disk = << [file |-> file, time |-> 0] >>
  /\ \E cells \in Bundles : bundle = [cells |-> cells, time |-> 0]
  /\ binary = 1 /\ temporary = 0
  /\ stamper = Idle("idle") /\ published = None
  /\ templates = {} /\ bundles = {}
  /\ quiet = 0 /\ meddles = 0 /\ stamps = 0 /\ signs = 0

Active == stamper.step \notin {"idle", "failed", "done"}

Source == disk[stamper.input]
SourceUnchanged == [len |-> Len(Source.file.cells), time |-> Source.time] = stamper.opened
BundleUnchanged == [len |-> Len(bundle.cells), time |-> bundle.time] = stamper.bundleOpened

Upto(cells, len) == SubSeq(cells, 1, Min({len, Len(cells)}))
From(cells, len) == SubSeq(cells, len + 1, Len(cells))

(* Steps of the stamper that leave the files alone. *)
Files == <<disk, binary, temporary, bundle, published, quiet, meddles, stamps, signs>>

Goto(step) == stamper' = [stamper EXCEPT !.step = step]

(* An error: the temporary file is dropped and so removed. *)
Fail ==
  /\ stamper' = Idle("failed") /\ temporary' = 0
  /\ UNCHANGED <<disk, binary, bundle, published, templates, bundles, quiet, meddles, stamps,
                 signs>>

Check(from, condition, to) ==
  /\ stamper.step = from
  /\ \/ condition /\ Goto(to) /\ UNCHANGED <<Files, templates, bundles>>
     \/ ~condition /\ Fail

-----------------------------------------------------------------------------
(* Before the copy *)

(* stamp_runtime_data: the template must declare a reader of the layouts.   *)
BeginStamp(runtime, platform, embedded) ==
  /\ ~Active /\ stamps + meddles < MaxEvents
  /\ stamps' = stamps + 1 /\ quiet' = 0
  /\ templates' = {} /\ bundles' = {}
  /\ stamper' =
       IF ~HasReader(disk[binary].file) THEN Idle("failed")
       ELSE [Idle("begun") EXCEPT !.header = Header(runtime, platform), !.embedded = embedded]
  /\ UNCHANGED <<disk, binary, temporary, bundle, published, meddles, signs>>

(* BundleSource::open, when the layout embeds the bundle. *)
OpenBundle ==
  /\ stamper.step = "begun"
  /\ IF stamper.embedded
       THEN /\ stamper' = [stamper EXCEPT !.step = "bundle opened",
                             !.bundleOpened = [len |-> Len(bundle.cells), time |-> bundle.time]]
            /\ bundles' = {bundle.cells}
       ELSE Goto("bundle opened") /\ bundles' = { <<>> }
  /\ UNCHANGED <<Files, templates>>

OpenTemplate ==
  /\ stamper.step = "bundle opened"
  /\ stamper' = [stamper EXCEPT !.step = "opened", !.input = binary,
                   !.opened = [len  |-> Len(disk[binary].file.cells),
                               time |-> disk[binary].time]]
  /\ templates' = {disk[binary].file}
  /\ UNCHANGED <<Files, bundles>>

(* path_matches_open_file, and the temporary file. *)
CreateTemporary ==
  /\ stamper.step = "opened"
  /\ IF binary # stamper.input THEN Fail
     ELSE /\ disk' = Append(disk, [file |-> Refused, time |-> 0])
          /\ temporary' = Len(disk')
          /\ stamper' = [stamper EXCEPT !.step = "copy", !.output = Len(disk')]
          /\ UNCHANGED <<binary, bundle, published, templates, bundles, quiet, meddles, stamps,
                         signs>>

-----------------------------------------------------------------------------
(* The copy of the template, and its checks *)

CopyFirst ==
  /\ stamper.step = "copy"
  /\ stamper' = [stamper EXCEPT !.step = "copy rest",
                   !.copy = [Source.file EXCEPT !.cells = Upto(@, Buffer)]]
  /\ UNCHANGED <<Files, templates, bundles>>

CopyRest ==
  /\ stamper.step = "copy rest"
  /\ stamper' = [stamper EXCEPT !.step = "copied",
                   !.copy.cells = @ \o From(Source.file.cells, Buffer)]
  /\ UNCHANGED <<Files, templates, bundles>>

Recheck == Check("copied", SourceUnchanged, "hash")

HashFirst ==
  /\ stamper.step = "hash"
  /\ stamper' = [stamper EXCEPT !.step = "hash rest",
                   !.hashed = [Source.file EXCEPT !.cells = Upto(@, Buffer)]]
  /\ UNCHANGED <<Files, templates, bundles>>

(* Mutation of CopyMatchesSource: the copy is not compared with its source. *)
CopyNotCompared == TRUE

(* The digests cover the length the template had when it was opened. *)
CopyMatchesSource ==
  LET hashed == [stamper.hashed EXCEPT
                   !.cells = Upto(@ \o From(Source.file.cells, Buffer), stamper.opened.len)]
  IN  /\ Len(hashed.cells) = stamper.opened.len
      /\ hashed = [stamper.copy EXCEPT !.cells = Upto(@, stamper.opened.len)]

HashRest == Check("hash rest", CopyMatchesSource, "bundle")

-----------------------------------------------------------------------------
(* The bundle, and the stamp *)

(* The first read of write_runtime_content. *)
CopyBundleFirst ==
  /\ stamper.step = "bundle"
  /\ IF stamper.embedded
       THEN stamper' = [stamper EXCEPT !.step = "bundle rest",
                          !.content = Upto(bundle.cells, BundleBuffer)]
       ELSE Goto("write")
  /\ UNCHANGED <<Files, templates, bundles>>

(* The other reads: too much or too little is an error. *)
CopyBundleRest ==
  LET content == stamper.content \o From(bundle.cells, BundleBuffer) IN
    /\ stamper.step = "bundle rest"
    /\ IF Len(content) # stamper.bundleOpened.len THEN Fail
       ELSE /\ stamper' = [stamper EXCEPT !.step = "bundle copied", !.content = content]
            /\ UNCHANGED <<Files, templates, bundles>>

RecheckBundle == Check("bundle copied", BundleUnchanged, "bundle hash")

HashBundleFirst ==
  /\ stamper.step = "bundle hash"
  /\ stamper' = [stamper EXCEPT !.step = "bundle hash rest",
                   !.rehashed = Upto(bundle.cells, BundleBuffer)]
  /\ UNCHANGED <<Files, templates, bundles>>

HashBundleRest ==
  /\ stamper.step = "bundle hash rest"
  /\ stamper' = [stamper EXCEPT !.step = "bundle hashed",
                   !.rehashed = Upto(@ \o From(bundle.cells, BundleBuffer), stamper.bundleOpened.len)]
  /\ UNCHANGED <<Files, templates, bundles>>

RecheckHashedBundle ==
  Check("bundle hashed", BundleUnchanged /\ stamper.rehashed = stamper.content, "write")

(* The layout is refused before the bundle is read and its parts are        *)
(* written around it; nobody reads the temporary file before it is whole.   *)
WriteStamp ==
  /\ stamper.step = "write"
  /\ LET file == WriteRuntimeData(stamper.copy, stamper.header, stamper.content) IN
       IF file = Refused THEN Fail
       ELSE /\ disk' = [disk EXCEPT ![stamper.output].file = file]
            /\ Goto("read back")
            /\ UNCHANGED <<binary, temporary, bundle, published, templates, bundles, quiet,
                           meddles, stamps, signs>>

ReadsAs(file, header, cells) ==
  LET data == ReadRuntimeData(file) IN
    /\ data.found = "data" /\ data.header = header /\ data.bundle = cells
    /\ Slice(file.cells, data.offset, Len(cells)) = cells

ReadBack ==
  Check("read back", ReadsAs(disk[stamper.output].file, stamper.header, stamper.content),
        "check temporary")

CheckTemporary == Check("check temporary", temporary = stamper.output, "check template")
CheckTemplate == Check("check template", binary = stamper.input, "rename")

(* The rename takes whatever the temporary path names by then. *)
Rename ==
  /\ stamper.step = "rename"
  /\ binary' = temporary /\ temporary' = 0
  /\ published' = IF temporary # stamper.output THEN None
                  ELSE [inode |-> temporary, header |-> stamper.header,
                        template |-> stamper.copy, bundle |-> stamper.content]
  /\ Goto("renamed")
  /\ UNCHANGED <<disk, bundle, templates, bundles, quiet, meddles, stamps, signs>>

CheckPersisted ==
  /\ stamper.step = "renamed"
  /\ stamper' = Idle(IF binary = stamper.output THEN "done" ELSE "failed")
  /\ UNCHANGED <<Files, templates, bundles>>

-----------------------------------------------------------------------------
(* The signers, after a stamp *)

SignedFile(file, signature) ==
  IF file.format = "macho" THEN CodeSign(file, signature) ELSE Authenticode(file, signature)

(* ad_hoc_sign_macos, or the signing of a release; a PE image is signed     *)
(* with whole entries of a certificate table.                               *)
Sign(signature) ==
  /\ stamper.step = "done" /\ signs < MaxSigns
  /\ LET file == disk[binary].file IN
       /\ file.format \in {"macho", "pe"}
       /\ file.format = "pe" =>
            Len(signature) >= CertificateAlignment /\ CertificateTableAccepted(signature)
       /\ file.format = "macho" => signature # <<>> /\ Signable(file)
       /\ disk' = [disk EXCEPT ![binary].file = SignedFile(file, signature)]
  /\ signs' = signs + 1
  /\ UNCHANGED <<binary, temporary, bundle, stamper, published, templates, bundles, quiet,
                 meddles, stamps>>

-----------------------------------------------------------------------------
(* Other programs, while a stamp is being made *)

Meddle == Active /\ stamps + meddles < MaxEvents /\ meddles' = meddles + 1

Ticks(silent) == IF silent THEN 0 ELSE 1
CountQuiet(silent) == quiet' = quiet + 1 - Ticks(silent)

OverwriteTemplate(file, silent) ==
  /\ Meddle /\ file # disk[binary].file
  /\ disk' = [disk EXCEPT ![binary] = [file |-> file, time |-> @.time + Ticks(silent)]]
  /\ CountQuiet(silent)
  /\ templates' = IF stamper.input = binary THEN templates \union {file} ELSE templates
  /\ published' = IF published.inode = binary THEN None ELSE published
  /\ UNCHANGED <<binary, temporary, bundle, stamper, bundles, stamps, signs>>

ReplaceTemplate(file) ==
  /\ Meddle
  /\ disk' = Append(disk, [file |-> file, time |-> 0])
  /\ binary' = Len(disk')
  /\ published' = None
  /\ UNCHANGED <<temporary, bundle, stamper, templates, bundles, quiet, stamps, signs>>

ReplaceTemporary(file) ==
  /\ Meddle /\ temporary # 0
  /\ disk' = Append(disk, [file |-> file, time |-> 0])
  /\ temporary' = Len(disk')
  /\ UNCHANGED <<binary, bundle, stamper, published, templates, bundles, quiet, stamps, signs>>

OverwriteBundle(cells, silent) ==
  /\ Meddle /\ cells # bundle.cells
  /\ bundle' = [cells |-> cells, time |-> bundle.time + Ticks(silent)]
  /\ CountQuiet(silent)
  /\ bundles' = IF stamper.embedded THEN bundles \union {cells} ELSE bundles
  /\ UNCHANGED <<disk, binary, temporary, stamper, published, templates, stamps, signs>>

-----------------------------------------------------------------------------

Stamper ==
  \/ \E runtime \in Runtimes, platform \in Platforms, embedded \in BOOLEAN :
       BeginStamp(runtime, platform, embedded)
  \/ OpenBundle \/ OpenTemplate \/ CreateTemporary
  \/ CopyFirst \/ CopyRest \/ Recheck \/ HashFirst \/ HashRest
  \/ CopyBundleFirst \/ CopyBundleRest \/ RecheckBundle
  \/ HashBundleFirst \/ HashBundleRest \/ RecheckHashedBundle
  \/ WriteStamp \/ ReadBack \/ CheckTemporary \/ CheckTemplate \/ Rename \/ CheckPersisted

Others ==
  \/ \E signature \in Signatures : Sign(signature)
  \/ \E file \in Builds, silent \in BOOLEAN : OverwriteTemplate(file, silent)
  \/ \E file \in Builds : ReplaceTemplate(file) \/ ReplaceTemporary(file)
  \/ \E cells \in Bundles, silent \in BOOLEAN : OverwriteBundle(cells, silent)

StampNext == Stamper \/ Others

StampSpec == StampInit /\ [][StampNext]_stampVars

-----------------------------------------------------------------------------
(* What a stamp promises *)

(* A stamp at the path reads back as the header and the bundle it was made  *)
(* with, however often the file was signed since and whatever a signature   *)
(* contains: the data of the running executable is what the builder chose.  *)
StampReadsBack ==
  published # None =>
    ReadsAs(disk[published.inode].file, published.header, published.bundle)

(* A new section header, and then new sections, behind those there were.    *)
PeKept(template, file) ==
  LET sections == template.image.sections
      slot     == template.image.table + Len(sections)
  IN  /\ PeAccepted(file)
      /\ SubSeq(file.image.sections, 1, Len(sections)) = sections
      /\ \A i \in DOMAIN template.cells \ {slot + 1} : file.cells[i] = template.cells[i]

(* __LINKEDIT grows and a signature comes or goes, with its load command.   *)
MachOKept(template, file) ==
  LET old == Unsigned(template.image).commands
      new == Unsigned(file.image).commands
      end == Max({MachODataEnd(template), max_non_signature_data_end(template.image)})
  IN  /\ MachOAccepted(file) /\ FinalLayout(file.image, Len(file.cells))
      /\ DOMAIN new = DOMAIN old
      /\ \A i \in DOMAIN old :
           new[i] = IF old[i].name # "__LINKEDIT" THEN old[i]
                    ELSE [old[i] EXCEPT !.size = new[i].size, !.vmsize = new[i].vmsize]
      /\ \A i \in CommandsEnd(template.image) + 2 .. end :
           file.cells[i] = template.cells[i]

(* Stamping and signing change nothing a program or its loader uses: every  *)
(* section, segment and table of the template is in the stamped file where  *)
(* it was, and the layout is still one the code accepts.                    *)
ImageKept ==
  published # None =>
    LET template == published.template
        file     == disk[published.inode].file
    IN  CASE template.format = "pe"    -> PeKept(template, file)
          [] template.format = "macho" -> MachOKept(template, file)
          [] OTHER -> Upto(file.cells, Len(template.cells)) = template.cells

(* A stamp is made of one version of the template, or of its beginning, and *)
(* of one of the bundle, never of parts of two, although both may be        *)
(* overwritten while they are read: it takes two overwrites that keep the   *)
(* modification time, or three of any kind, to deceive the length, time and *)
(* digest checks.  The beginning of a version, because the digests only     *)
(* cover the length the template had when it was opened.                    *)
StampIsOneVersion ==
  /\ stamper.step \in {"read back", "check temporary", "check template", "rename"}
  /\ quiet < 2 /\ meddles < 3
  => /\ \E version \in templates :
          stamper.copy = [version EXCEPT !.cells = Upto(@, Len(stamper.copy.cells))]
     /\ stamper.content \in bundles

(* As linkers write images: __LINKEDIT takes up memory, and a section       *)
(* without bytes lies in its segment.                                       *)
AsLinked(image) ==
  /\ Linkedit(image).vmsize # 0
  /\ \A i \in Numbers(image, "segment") :
       LET s == image.commands[i] IN s.sect # 0 => s.sect \in s.off .. FileEnd(s)

(* What the writer accepts, the reader can read: the read-back refuses no   *)
(* stamp, even one made of halves.  A template the layout rules let through *)
(* is never found out only after it was stamped, unless it is one that no   *)
(* linker writes.                                                           *)
WriterAgreesWithReader ==
  /\ stamper.step = "read back"
  /\ stamper.copy.format = "macho" => AsLinked(stamper.copy.image)
  => ReadsAs(disk[stamper.output].file, stamper.header, stamper.content)
=============================================================================
