---------------------------- MODULE FirmwareKit ----------------------------
(***************************************************************************)
(* extract-firmware.sh and build-firmware.sh on the working directory fmk: *)
(* an image is taken apart into header, file system and footer, and a new  *)
(* image is put together from the header, a new file system, filler and    *)
(* the footer. The two scripts share nothing but the files of that         *)
(* directory; either can be stopped at any point, and started again.       *)
(*                                                                         *)
(* A firmware image is a sequence of lines, the sixteen bytes hexdump      *)
(* shows on a line, which the scripts tell apart only as equal or not.     *)
(***************************************************************************)
EXTENDS Integers, Sequences, FiniteSets

CONSTANTS
    Lines,      \* what a line can hold
    FF,         \* the line of sixteen 0xFF
    Images,     \* firmware images: [lines, log], log as binwalk writes it
    NewFs,      \* what mkfs can make of a root file system
    Missing     \* a file or a line of the log that is not there

Supported == {"squashfs", "cramfs", "yaffs", "jffs2"}

ASSUME LineAssumption == FF \in Lines /\ Missing \notin BOOLEAN

(* What is not there is not taken for something that is.                   *)
ASSUME MissingAssumption == Missing \notin [lines : Seq(Lines), whole : BOOLEAN]

(* binwalk reports file systems inside the image, in order of their offset;*)
(* what it finds at offset 0 is a header.                                  *)
ASSUME ImageAssumption ==
    \A img \in Images :
        /\ img.lines \in Seq(Lines)
        /\ img.log \in Seq([at : 1..Len(img.lines), type : STRING])

ASSUME NewFsAssumption == NewFs \subseteq Seq(Lines) \ {<<>>}

VARIABLES
    pc,           \* which script runs, and where it is
    image,        \* the image of the last extraction
    dir,          \* the working directory exists
    CONFLOG,      \* logs/config.log
    HEADER_IMAGE, FOOTER_IMAGE,   \* image_parts
    ROOTFS,       \* what of the root file system is unpacked
    FSOUT, FWOUT, \* new-filesystem, new-firmware.bin
    NEXT_PARAM,   \* -nopad, -min or nothing
    report,       \* how the last script ended
    \* history
    made,         \* the output of this build's mkfs
    complete      \* the extraction into the directory ran to its end

history == <<made, complete>>
vars == <<pc, image, dir, CONFLOG, HEADER_IMAGE, FOOTER_IMAGE, ROOTFS, FSOUT, FWOUT,
          NEXT_PARAM, report, history>>
parts == <<HEADER_IMAGE, FOOTER_IMAGE>>

NoImage == [lines |-> <<>>, log |-> <<>>]
NoConf == [FW_SIZE |-> Missing, FOOTER_SIZE |-> Missing, FS_TYPE |-> Missing, MKFS |-> Missing]

Init ==
    /\ pc = "idle" /\ image = NoImage /\ dir = FALSE /\ CONFLOG = NoConf
    /\ HEADER_IMAGE = Missing /\ FOOTER_IMAGE = Missing /\ ROOTFS = "absent"
    /\ FSOUT = Missing /\ FWOUT = Missing
    /\ NEXT_PARAM = "none" /\ report = "none" /\ made = Missing /\ complete = FALSE

Exit(how) == pc' = "idle" /\ report' = how

-----------------------------------------------------------------------------
(* The footer, as hexdump -C | tail -11 | sed -n '/^*/,$p' shows it: a line *)
(* equal to the one before is not shown, a run of them is one star.        *)

Repeats(s, i) == i > 1 /\ s[i] = s[i - 1]
Star(s, i)    == Repeats(s, i) /\ ~Repeats(s, i - 1)
Shown(s, i)   == ~Repeats(s, i) \/ Star(s, i)

(* The ten entries before the line with the size.                          *)
Window == 10
InTail(s, i) == Cardinality({j \in i..Len(s) : Shown(s, j)}) <= Window
Stars(s) == {i \in 1..Len(s) : Star(s, i) /\ InTail(s, i)}

(* The footer is what follows the first entry after the first star, which  *)
(* is nothing when that entry is the line with the size. Without a star    *)
(* the arithmetic of the script fails and FOOTER_SIZE stays 0.             *)
InFooter_Late(s, i) == \E t \in Stars(s) : \E j \in (t + 1)..(i - 1) : Shown(s, j)
InFooter(s, i) == \E t \in Stars(s) : \E j \in (t + 1)..i : Shown(s, j)

FOOTER_SIZE_LastLine(s) == Cardinality({i \in 1..Len(s) : InFooter(s, i)}) - 1
FOOTER_SIZE(s)  == Cardinality({i \in 1..Len(s) : InFooter(s, i)})
FOOTER_FIRST(s) == Len(s) - FOOTER_SIZE(s)

-----------------------------------------------------------------------------
(* extract-firmware.sh.                                                    *)

(* The file exists and the directory does not; otherwise nothing is done.  *)
ExtractStart ==
    /\ pc = "idle"
    /\ IF dir
       THEN /\ Exit("quit")
            /\ UNCHANGED <<image, dir>>
       ELSE /\ pc' = "scan" /\ report' = "none"
            /\ dir' = TRUE
            /\ image' \in Images
    /\ UNCHANGED <<CONFLOG, parts, ROOTFS, FSOUT, FWOUT, NEXT_PARAM, history>>

RemoveDir_KeepsLog ==
    /\ dir' = FALSE /\ HEADER_IMAGE' = Missing /\ FOOTER_IMAGE' = Missing
    /\ ROOTFS' = "absent" /\ FSOUT' = Missing /\ FWOUT' = Missing
    /\ complete' = FALSE /\ UNCHANGED CONFLOG
RemoveDir ==
    /\ dir' = FALSE /\ CONFLOG' = NoConf /\ HEADER_IMAGE' = Missing /\ FOOTER_IMAGE' = Missing
    /\ ROOTFS' = "absent" /\ FSOUT' = Missing /\ FWOUT' = Missing
    /\ complete' = FALSE

(* Each file system of the log overwrites the one before.                  *)
FsEntry == image.log[Len(image.log)]
FS_OFFSET == FsEntry.at

(* The header is everything in front of the file system.                   *)
ExtractHeader ==
    /\ pc = "scan"
    /\ IF image.log = <<>>
       THEN /\ RemoveDir
            /\ Exit("noFileSystem")
       ELSE /\ HEADER_IMAGE' = SubSeq(image.lines, 1, FS_OFFSET)
            /\ pc' = "footer"
            /\ UNCHANGED <<dir, CONFLOG, FOOTER_IMAGE, ROOTFS, FSOUT, FWOUT, report, complete>>
    /\ UNCHANGED <<image, NEXT_PARAM, made>>

ExtractFooter ==
    /\ pc = "footer" /\ pc' = "sizes"
    /\ FOOTER_IMAGE' = IF FOOTER_SIZE(image.lines) > 0
                       THEN SubSeq(image.lines, FOOTER_FIRST(image.lines) + 1, Len(image.lines))
                       ELSE Missing
    /\ UNCHANGED <<image, dir, CONFLOG, HEADER_IMAGE, ROOTFS, FSOUT, FWOUT, NEXT_PARAM,
                   report, history>>

(* CONFLOG is written line by line, the sizes before the type, and the     *)
(* name of mkfs only when the file system has been unpacked.               *)
Sizes_WithMkfs == [NoConf EXCEPT !.FW_SIZE = Len(image.lines),
                                 !.FOOTER_SIZE = FOOTER_SIZE(image.lines),
                                 !.MKFS = TRUE]
Sizes == [NoConf EXCEPT !.FW_SIZE = Len(image.lines),
                        !.FOOTER_SIZE = FOOTER_SIZE(image.lines)]

LogSizes ==
    /\ pc = "sizes" /\ pc' = "type"
    /\ CONFLOG' = Sizes
    /\ UNCHANGED <<image, dir, parts, ROOTFS, FSOUT, FWOUT, NEXT_PARAM, report, history>>

LogType ==
    /\ pc = "type" /\ pc' = "unpack"
    /\ CONFLOG' = [CONFLOG EXCEPT !.FS_TYPE = FsEntry.type]
    /\ UNCHANGED <<image, dir, parts, ROOTFS, FSOUT, FWOUT, NEXT_PARAM, report, history>>

(* The tools unpack all of the file system, a part, or nothing.            *)
Unpack ==
    /\ pc = "unpack"
    /\ IF CONFLOG.FS_TYPE \in Supported
       THEN /\ ROOTFS' \in {"absent", "partial", "whole"}
            /\ pc' = "mkfsLine"
            /\ UNCHANGED <<dir, CONFLOG, parts, FSOUT, FWOUT, report, complete>>
       ELSE /\ RemoveDir
            /\ Exit("unsupported")
    /\ UNCHANGED <<image, NEXT_PARAM, made>>

(* For squashfs and cramfs the name of mkfs comes from the script that     *)
(* unpacked; for the others it is always the same. Every branch of the     *)
(* case ends in a command that succeeds, so $? is 0 in all of them.        *)
LogMkfs ==
    /\ pc = "mkfsLine"
    /\ CONFLOG' = [CONFLOG EXCEPT !.MKFS = IF CONFLOG.FS_TYPE \in {"squashfs", "cramfs"}
                                           THEN ROOTFS # "absent" ELSE TRUE]
    /\ Exit("extracted")
    /\ complete' = TRUE
    /\ UNCHANGED <<image, dir, parts, ROOTFS, FSOUT, FWOUT, NEXT_PARAM, made>>

-----------------------------------------------------------------------------
(* build-firmware.sh.                                                      *)

(* Files of an earlier build go first: mksquashfs would append to them.    *)
CleanUp_Nothing == UNCHANGED <<FSOUT, FWOUT>>
CleanUp == FSOUT' = Missing /\ FWOUT' = Missing

BuildStart ==
    /\ pc = "idle"
    /\ NEXT_PARAM' \in {"none", "-nopad", "-min"}
    /\ IF dir
       THEN /\ CleanUp
            /\ pc' = "mkfs" /\ report' = "none"
       ELSE /\ Exit("usage")
            /\ UNCHANGED <<FSOUT, FWOUT>>
    /\ made' = Missing
    /\ UNCHANGED <<image, dir, CONFLOG, parts, ROOTFS, complete>>

(* An earlier file is only overwritten by the tools other than mksquashfs. *)
Onto(old, fs) == IF old # Missing /\ CONFLOG.FS_TYPE = "squashfs" THEN old \o fs ELSE fs

(* mkfs makes the file system, or nothing, or, unless it is mksquashfs,    *)
(* which removes its output when it fails, part of it; without its name or *)
(* a root file system there is nothing to make.                            *)
Mkfs ==
    /\ pc = "mkfs" /\ pc' = "check"
    /\ \/ /\ UNCHANGED <<FSOUT, made>>
       \/ /\ CONFLOG.FS_TYPE \in Supported /\ CONFLOG.MKFS = TRUE /\ ROOTFS # "absent"
          /\ \E fs \in NewFs, n \in IF CONFLOG.FS_TYPE = "squashfs" THEN {0} ELSE 0..1 :
               LET out == SubSeq(fs, 1, Len(fs) - n) IN
               /\ FSOUT' = Onto(FSOUT, out)
               /\ made' = [lines |-> out, whole |-> (n = 0 /\ ROOTFS = "whole")]
    /\ UNCHANGED <<image, dir, CONFLOG, parts, ROOTFS, FWOUT, NEXT_PARAM, report,
                   complete>>

CheckFsout ==
    /\ pc = "check"
    /\ IF FSOUT = Missing
       THEN Exit("noNewFileSystem")
       ELSE pc' = "header" /\ UNCHANGED report
    /\ UNCHANGED <<image, dir, CONFLOG, parts, ROOTFS, FSOUT, FWOUT, NEXT_PARAM, history>>

CopyHeader ==
    /\ pc = "header" /\ pc' = "append"
    /\ FWOUT' = HEADER_IMAGE
    /\ UNCHANGED <<image, dir, CONFLOG, parts, ROOTFS, FSOUT, NEXT_PARAM, report, history>>

AppendFs ==
    /\ pc = "append" /\ pc' = "fill"
    /\ FWOUT' = FWOUT \o FSOUT
    /\ UNCHANGED <<image, dir, CONFLOG, parts, ROOTFS, FSOUT, NEXT_PARAM, report, history>>

FILLER_SIZE_NoHeader == CONFLOG.FW_SIZE - Len(FSOUT) - CONFLOG.FOOTER_SIZE
FILLER_SIZE_NoFooter == CONFLOG.FW_SIZE - Len(FWOUT)
FILLER_SIZE == CONFLOG.FW_SIZE - Len(FWOUT) - CONFLOG.FOOTER_SIZE

(* The image that turned out too large stays where it is.                  *)
Fill ==
    /\ pc = "fill"
    /\ IF FILLER_SIZE < 0
       THEN /\ Exit("refused")
            /\ UNCHANGED FWOUT
       ELSE /\ pc' = "appendFooter"
            /\ FWOUT' = IF NEXT_PARAM = "-nopad" THEN FWOUT
                        ELSE FWOUT \o [i \in 1..FILLER_SIZE |-> FF]
            /\ UNCHANGED report
    /\ UNCHANGED <<image, dir, CONFLOG, parts, ROOTFS, FSOUT, NEXT_PARAM, history>>

AppendFooter ==
    /\ pc = "appendFooter" /\ pc' = "finish"
    /\ FWOUT' = IF CONFLOG.FOOTER_SIZE > 0 THEN FWOUT \o FOOTER_IMAGE ELSE FWOUT
    /\ UNCHANGED <<image, dir, CONFLOG, parts, ROOTFS, FSOUT, NEXT_PARAM, report, history>>

(* Then checksums are repaired, or the whole image rewritten for a vendor, *)
(* whatever comes of it: lines are compared here as they were before that. *)
BuildEnd ==
    /\ pc = "finish"
    /\ FSOUT' = Missing
    /\ Exit("saved")
    /\ UNCHANGED <<image, dir, CONFLOG, parts, ROOTFS, FWOUT, NEXT_PARAM, history>>

-----------------------------------------------------------------------------
(* The user stops a script, or removes the directory between two of them.  *)
Interrupt ==
    /\ pc # "idle"
    /\ Exit("interrupted")
    /\ ROOTFS' \in IF pc = "unpack" THEN {"absent", "partial", "whole"} ELSE {ROOTFS}
    /\ UNCHANGED <<image, dir, CONFLOG, parts, FSOUT, FWOUT, NEXT_PARAM, history>>

UserRemovesDir ==
    /\ pc = "idle" /\ dir
    /\ RemoveDir
    /\ report' = "none"
    /\ UNCHANGED <<pc, image, NEXT_PARAM, made>>

Extract == ExtractStart \/ ExtractHeader \/ ExtractFooter \/ LogSizes \/ LogType
             \/ Unpack \/ LogMkfs
Build   == BuildStart \/ Mkfs \/ CheckFsout \/ CopyHeader \/ AppendFs \/ Fill
             \/ AppendFooter \/ BuildEnd

Next == Extract \/ Build \/ Interrupt \/ UserRemovesDir

Spec == Init /\ [][Next]_vars

-----------------------------------------------------------------------------
(* Properties.                                                             *)

Extracting == {"scan", "footer", "sizes", "type", "unpack", "mkfsLine"}
Building   == {"mkfs", "check", "header", "append", "fill", "appendFooter", "finish"}
Files      == Seq(Lines) \cup {Missing}
Confs      == [FW_SIZE : Nat \cup {Missing}, FOOTER_SIZE : Nat \cup {Missing},
               FS_TYPE : STRING \cup {Missing}, MKFS : BOOLEAN \cup {Missing}]
Outputs    == [lines : Seq(Lines), whole : BOOLEAN] \cup {Missing}

(* Every variable holds a value of its kind.                               *)
TypeOK ==
    /\ pc \in {"idle"} \cup Extracting \cup Building
    /\ image \in Images \cup {NoImage}
    /\ dir \in BOOLEAN /\ complete \in BOOLEAN
    /\ CONFLOG \in Confs /\ made \in Outputs
    /\ HEADER_IMAGE \in Files /\ FOOTER_IMAGE \in Files
    /\ FSOUT \in Files /\ FWOUT \in Files
    /\ ROOTFS \in {"absent", "partial", "whole"}
    /\ NEXT_PARAM \in {"none", "-nopad", "-min"}
    /\ report \in {"none", "quit", "usage", "noFileSystem", "unsupported", "extracted",
                   "noNewFileSystem", "refused", "saved", "interrupted"}

(* A padded image is as long as the one it was made from, and keeps its    *)
(* header and its footer where they were, however large the new file       *)
(* system is and whatever the footer was taken for.                        *)
Kept == LET first == FOOTER_FIRST(image.lines) IN
    /\ Len(FWOUT) = Len(image.lines)
    /\ SubSeq(FWOUT, 1, FS_OFFSET) = SubSeq(image.lines, 1, FS_OFFSET)
    /\ SubSeq(FWOUT, first + 1, Len(FWOUT)) = SubSeq(image.lines, first + 1, Len(FWOUT))
LayoutKept == report = "saved" /\ NEXT_PARAM # "-nopad" => Kept

(* build-firmware.sh:161: a larger image can brick the device; none is     *)
(* ever saved, padded or not.                                              *)
NeverLarger == report = "saved" => Len(FWOUT) <= Len(image.lines)

(* The file system of a saved image is the one this build made, and all of *)
(* it: nothing of an earlier or an interrupted build is left in it.        *)
OnlyThisBuild ==
    report = "saved" =>
        /\ made # Missing
        /\ SubSeq(FWOUT, 1, FS_OFFSET + Len(made.lines)) = HEADER_IMAGE \o made.lines
        /\ NEXT_PARAM = "-nopad" =>
              Len(FWOUT) = FS_OFFSET + Len(made.lines) + FOOTER_SIZE(image.lines)

(* An extraction that was interrupted is never built from: CONFLOG names   *)
(* mkfs only at the very end.                                              *)
InterruptedIsNotBuilt == pc \in Building /\ FSOUT # Missing => complete

(* The lines s are a header of `at' lines, the file system fs, filler, and *)
(* a footer the extraction can recognise: filler long enough to show as a  *)
(* star, and at most nine entries after it.                                *)
Recognisable(s, at, fs) ==
    \E n \in 0..(Len(s) - at - Len(fs)) :
        LET start == at + Len(fs) + n
            foot  == SubSeq(s, start + 1, Len(s))
        IN  /\ SubSeq(s, at + 1, start) = fs \o [i \in 1..n |-> FF]
            /\ \/ foot = <<>>
               \/ /\ n >= 2
                  /\ Cardinality({j \in (start + 1)..Len(s) : Shown(s, j)}) < Window

(* Extract and build are inverse: from an unmodified file system, the      *)
(* padded image is the original to the byte.                               *)
RoundTrip ==
    /\ report = "saved" /\ NEXT_PARAM # "-nopad"
    /\ Recognisable(image.lines, FS_OFFSET, made.lines)
    => FWOUT = image.lines

(* What makes the properties above inductive, in three parts.              *)
(* CONFLOG is empty or describes the image the directory was made from,    *)
(* and then so do its parts; it does not outlive the directory.            *)
HeaderKnown == /\ image \in Images /\ image.log # <<>>
               /\ HEADER_IMAGE = SubSeq(image.lines, 1, FS_OFFSET)
FooterKnown == FOOTER_SIZE(image.lines) > 0 =>
    FOOTER_IMAGE = SubSeq(image.lines, FOOTER_FIRST(image.lines) + 1, Len(image.lines))
SizesKnown  == /\ CONFLOG.FW_SIZE = Len(image.lines)
               /\ CONFLOG.FOOTER_SIZE = FOOTER_SIZE(image.lines)
Described   == HeaderKnown /\ FooterKnown /\ SizesKnown

ExtractInv ==
    /\ ~dir => CONFLOG = NoConf
    /\ CONFLOG # NoConf => Described
    /\ pc \in {"scan", "footer", "sizes"} => CONFLOG = NoConf
    /\ pc = "scan" => image \in Images
    /\ pc = "footer" => HeaderKnown
    /\ pc = "sizes" => HeaderKnown /\ FooterKnown
    /\ pc \in {"type", "unpack", "mkfsLine"} => Described
    /\ pc \in Extracting \cup Building => dir /\ report = "none"
    /\ CONFLOG.MKFS = TRUE => complete

(* How far the new image has come.                                         *)
BuildInv ==
    /\ pc = "mkfs" => FSOUT = Missing
    /\ pc = "check" /\ FSOUT # Missing => CONFLOG.MKFS = TRUE
    /\ pc \in {"header", "append", "fill", "appendFooter", "finish"} =>
          FSOUT # Missing /\ CONFLOG.MKFS = TRUE
    /\ pc = "append" => FWOUT = HEADER_IMAGE
    /\ pc = "fill" => FWOUT = HEADER_IMAGE \o FSOUT
    /\ pc = "appendFooter" =>
          /\ FWOUT \in Seq(Lines) /\ Len(FWOUT) >= FS_OFFSET
          /\ SubSeq(FWOUT, 1, FS_OFFSET) = HEADER_IMAGE
          /\ Len(FWOUT) <= FOOTER_FIRST(image.lines)
          /\ NEXT_PARAM # "-nopad" => Len(FWOUT) = FOOTER_FIRST(image.lines)
    /\ pc = "finish" \/ report = "saved" =>
          /\ Len(FWOUT) <= Len(image.lines)
          /\ NEXT_PARAM # "-nopad" => Kept

(* What the new image is made of, on the way and when it is saved: nothing *)
(* but the header, this build's file system, filler and the footer.        *)
Filler(n) == [i \in 1..n |-> FF]
Padding   == IF NEXT_PARAM = "-nopad" THEN 0
             ELSE FOOTER_FIRST(image.lines) - FS_OFFSET - Len(made.lines)
Footer    == SubSeq(image.lines, FOOTER_FIRST(image.lines) + 1, Len(image.lines))
Padded    == HEADER_IMAGE \o made.lines \o Filler(Padding)

MadeInv ==
    /\ pc \in {"check", "header", "append", "fill"} /\ FSOUT # Missing =>
          made # Missing /\ FSOUT = made.lines
    /\ pc \in {"appendFooter", "finish"} \/ report = "saved" =>
          made # Missing /\ CONFLOG.MKFS = TRUE /\ Padding \in Nat
    /\ pc = "appendFooter" => FWOUT = Padded
    /\ pc = "finish" \/ report = "saved" => FWOUT = Padded \o Footer

KitInv == TypeOK /\ ExtractInv /\ BuildInv /\ MadeInv
=============================================================================
