--------------------------- MODULE MCRuntimeStamping ---------------------------
(* Small files of each format.  Layout units are scaled down: the page and  *)
(* the larger section alignment are 8 cells, a file alignment is 4.         *)
EXTENDS RuntimeStamping

Code(build, len) == [i \in 1 .. len |-> <<"code", build, i>>]
Zeros(len) == [i \in 1 .. len |-> Zero]
Commands(len) == [i \in 1 .. len |-> Command]

Section(name, va, vsize, raw, size) ==
  [name |-> name, va |-> va, vsize |-> vsize, raw |-> raw, size |-> size]

PeImage(align, sections, size) ==
  [machine |-> "x64", executable |-> TRUE, reader |-> TRUE, table |-> 1, headers |-> 4,
   directory |-> TRUE, fileAlignment |-> 4, sectionAlignment |-> align, size |-> size,
   sections |-> sections, certificate |-> NoCertificate]

Pe(image, build) ==
  [format |-> "pe", image |-> image,
   cells |-> << <<"image", build>> >> \o Commands(2) \o Zeros(1) \o Code(build, 8)]

(* File offsets and addresses apart; and equal, with memory that is not in  *)
(* the file behind the last section.                                        *)
PePaged(build) ==
  Pe(PeImage(8, <<Section(".text", 8, 4, 4, 4), Section(".data", 16, 6, 8, 4)>>, 24), build)
PeLow(build) ==
  Pe(PeImage(4, <<Section(".text", 4, 4, 4, 4), Section(".data", 8, 7, 8, 4)>>, 16), build)

Load(cmd, name, prot, vm, vmsize, off, size, sect, sectsize) ==
  [cmd |-> cmd, name |-> name, prot |-> prot, vm |-> vm, vmsize |-> vmsize, off |-> off,
   size |-> size, sect |-> sect, sectsize |-> sectsize]
Plain(cmd, off, size) == Load(cmd, "", "", 0, 0, off, size, 0, 0)

MachO(build, table, linkedit, more) ==
  LET commands == <<Load("segment", "__TEXT", "rx", 0, 16, 0, 11, 9, 2),
                    Load("segment", "__LINKEDIT", "r", 16, 8, 11, linkedit, 0, 0),
                    Plain("platform", 0, 0), Plain("main", 9, 0), Plain("dylinker", 0, 0)>>
                  \o more \o <<Plain("data", 11, table)>>
  IN  [format |-> "macho",
       image  |-> [machine |-> "x64", executable |-> TRUE, reader |-> TRUE,
                   commands |-> commands],
       cells  |-> << <<"image", build>> >> \o Commands(Len(commands))
                    \o Zeros(8 - Len(commands)) \o Code(build, 2 + linkedit)]

Unsigned1(build) == MachO(build, 2, 2, <<>>)
(* The signature begins at 12: after one cell of the table, or within it.   *)
Signed1(build) == MachO(build, 1, 3, <<Plain("signature", 12, 2)>>)
Overlapped(build) == MachO(build, 2, 3, <<Plain("signature", 12, 2)>>)

Other(build) == [format |-> "other", image |-> NoImage, cells |-> Code(build, 8)]

Legacy(build) ==
  [PePaged(build) EXCEPT !.cells = @ \o Header("old", "") \o <<Footer(Header("old", ""), <<>>)>>]

Entry(len) == <<"entry", len>>
Shadow == Header("shadow", "") \o <<Footer(Header("shadow", ""), <<>>)>>

MCSignatures == { <<Entry(2), <<"filler">> >>, <<Entry(4), <<"filler">> >> \o Shadow }

GoodTemplates == {PePaged("a"), PeLow("a"), Unsigned1("a"), Signed1("a"), Other("a")}

BadTemplates ==
  { Legacy("a"),
    Authenticode(PePaged("a"), <<Entry(2), <<"filler">> >>),
    [PePaged("a") EXCEPT !.image.directory = FALSE],
    [PePaged("a") EXCEPT !.image.reader = FALSE],
    [PePaged("a") EXCEPT !.cells[4] = <<"code", "a", 0>>],
    [Unsigned1("a") EXCEPT !.cells[8] = <<"code", "a", 0>>],
    [Unsigned1("a") EXCEPT !.image.commands[1].prot = "rwx"],
    Overlapped("a"),
    [Other("a") EXCEPT !.format = "unsupported"] }

MCTemplates == GoodTemplates \union BadTemplates

(* Other builds, one of which only starts and ends differently, and one     *)
(* that is longer than what it begins with, halves of two others.           *)
Longer == [Other("a") EXCEPT !.cells = <<Zero>> \o Tail(@) \o Code("c", 1)]
Grown ==
  [PePaged("a") EXCEPT !.cells = SubSeq(@, 1, 6) \o SubSeq(PePaged("b").cells, 7, 12)
                                   \o Code("c", 1)]
MCBuilds == {Other("a"), Longer, Grown, PePaged("b"), Unsigned1("b")}

MCBundles == { << <<"package", 1>>, <<"package", 2>> >>, << <<"package", 3>>, <<"package", 4>> >>,
               << <<"package", 1>> >> }
=============================================================================
