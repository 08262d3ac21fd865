------------------------------- MODULE Crcalc -------------------------------
(***************************************************************************)
(* crcalc: the checksums in the headers of a firmware image, computed      *)
(* again after the image was rebuilt. The headers are taken in the order   *)
(* of the binwalk log, each is patched in the buffer the others read, and  *)
(* the buffer is written over the file at the end.                         *)
(*                                                                         *)
(* A cell stands for a field of a header or for a piece of data.           *)
(***************************************************************************)
EXTENDS Integers, Sequences

CONSTANTS
    Images,         \* [cells, log]: contents, and the headers the log names
    Checksum(_),    \* CRC32 or MD5 of some cells
    Beyond,         \* what may be found beyond the end of the buffer
    MAX_HEAD_SIZE   \* headers taken from a log

VARIABLES
    image, pc, i,
    buf,            \* the file as read, then patched
    oks,            \* the headers patched, and whether that is said to be well
    file,           \* what is on disk
    exit            \* the exit status

vars == <<image, pc, i, buf, oks, file, exit>>

Size       == Len(image.cells)
Cells      == 0..(Size - 1)
Contents   == [c \in Cells |-> image.cells[c + 1]]
HeadersIn  == IF Len(image.log) < MAX_HEAD_SIZE THEN Len(image.log) ELSE MAX_HEAD_SIZE

(* A header is [kind, at, len, sig]: its place, the length it states, and  *)
(* the length of the signature before the second header of a DLOB image.   *)
Kinds == {"trx", "uimage", "dlob", "other"}

-----------------------------------------------------------------------------
(* Layouts. TRX: its length, a CRC of all that follows. uImage: its        *)
(* length, a CRC of these three cells, a CRC of the data after them. DLOB: *)
(* signature, the second header, an MD5 of the data, a type string.        *)

Field(h) ==
    IF h.kind = "trx" THEN h.at + 1 ELSE IF h.kind = "uimage" THEN h.at + 2
    ELSE h.at + h.sig + 2
OwnField(h) == h.at + 1

(* What patching a header writes.                                          *)
Writes(h) == (IF h.kind \in {"trx", "uimage", "dlob"} THEN {Field(h)} ELSE {})
             \cup (IF h.kind = "uimage" THEN {OwnField(h)} ELSE {})

Data(h) ==
    IF h.kind = "trx" THEN (h.at + 2) .. (h.at + h.len - 1)
    ELSE IF h.kind = "uimage" THEN (h.at + 3) .. (h.at + h.len + 2)
    ELSE (h.at + h.sig + 4) .. (h.at + h.sig + h.len + 3)

(* The file is longer than MIN_FILE_SIZE, and a header the log names lies  *)
(* in it: the log was made from the image. The length of a TRX image is    *)
(* not shorter than its first two fields, which the code subtracts.        *)
ASSUME CrcalcAssumption ==
    /\ MAX_HEAD_SIZE \in Nat
    /\ \A im \in Images :
         /\ Len(im.cells) \in Nat /\ Len(im.cells) > 4 /\ Len(im.log) \in Nat
         /\ \A j \in 1..Len(im.log) :
              /\ im.log[j].kind \in Kinds
              /\ {im.log[j].at, im.log[j].len, im.log[j].sig} \subseteq Nat
              /\ Writes(im.log[j]) \subseteq 0..(Len(im.cells) - 1)
              /\ im.log[j].kind = "trx" => im.log[j].len >= 2

(* The tests of the length fields. That of a uImage forgets its header.    *)
Sane(h) ==
    \/ h.kind \in {"trx", "uimage"} /\ h.len <= Size - h.at
    \/ h.kind = "dlob" /\ h.len < Size - h.at /\ h.sig + h.len + 4 <= Size - h.at

(* The checksum of some cells; what lies beyond the buffer may be any x.   *)
Sum(b, cells, x) == Checksum([c \in cells |-> IF c \in Cells THEN b[c] ELSE x])

(* The CRC of a uImage header, in which its own field counts as zero.      *)
Zeroed(b, h) == [b EXCEPT ![OwnField(h)] = 0]
OwnSum(b, h) == Sum(Zeroed(b, h), h.at .. (h.at + 2), 0)

PatchTrx_Length(b, h, x) == [b EXCEPT ![h.at] = Sum(b, Data(h), x)]
PatchTrx(b, h, x) ==
    [b EXCEPT ![Field(h)] = IF Sane(h) THEN Sum(b, Data(h), x) ELSE 0]

PatchUimage_OwnFirst(b, h, x) ==
    IF ~Sane(h) THEN b
    ELSE [b EXCEPT ![OwnField(h)] = OwnSum(b, h), ![Field(h)] = Sum(b, Data(h), x)]
PatchUimage(b, h, x) ==
    IF ~Sane(h) THEN b
    ELSE LET d == [b EXCEPT ![Field(h)] = Sum(b, Data(h), x)]
         IN  [d EXCEPT ![OwnField(h)] = OwnSum(d, h)]

PatchDlob(b, h, x) ==
    IF ~Sane(h) THEN b ELSE [b EXCEPT ![Field(h)] = Sum(b, Data(h), x)]

Patched(b, h, x) ==
    IF h.kind = "trx" THEN PatchTrx(b, h, x)
    ELSE IF h.kind = "uimage" THEN PatchUimage(b, h, x)
    ELSE IF h.kind = "dlob" THEN PatchDlob(b, h, x) ELSE b

(* A CRC of zero counts as a failure.                                      *)
Ok(b, h) ==
    /\ Sane(h)
    /\ h.kind # "dlob" => b[Field(h)] # 0
    /\ h.kind = "uimage" => b[OwnField(h)] # 0

-----------------------------------------------------------------------------
Init ==
    /\ image \in Images
    /\ pc = "patch" /\ i = 1
    /\ buf = Contents /\ file = Contents
    /\ oks = [j \in 1..HeadersIn |-> FALSE]
    /\ exit = 1

PatchHeader ==
    /\ pc = "patch" /\ i <= HeadersIn
    /\ \E x \in Beyond : buf' = Patched(buf, image.log[i], x)
    /\ oks' = [oks EXCEPT ![i] = Ok(buf', image.log[i])]
    /\ i' = i + 1
    /\ UNCHANGED <<image, pc, file, exit>>

Updated == \E j \in DOMAIN oks : oks[j]

(* The file may not open; it is emptied when it does, and a full disk      *)
(* leaves part of what is written.                                         *)
Part(n) == [c \in 0..(n - 1) |-> buf[c]]

FileWrite_AnyLength ==
    /\ pc = "patch" /\ i > HeadersIn /\ Updated
    /\ \E n \in 0..Size : file' = Part(n)
    /\ pc' = "written" /\ exit' = 0
    /\ UNCHANGED <<image, i, buf, oks>>
FileWrite ==
    /\ pc = "patch" /\ i > HeadersIn
    /\ \/ /\ ~Updated
          /\ pc' = "failed" /\ UNCHANGED <<file, exit>>
       \/ /\ Updated
          /\ pc' = "written" /\ file' = buf /\ exit' = 0
       \/ /\ Updated
          /\ pc' = "short" /\ UNCHANGED exit
          /\ file' \in {file} \cup {Part(n) : n \in 0..(Size - 1)}
    /\ UNCHANGED <<image, i, buf, oks>>

Next == PatchHeader \/ FileWrite

Spec == Init /\ [][Next]_vars

-----------------------------------------------------------------------------
(* Properties.                                                             *)

(* Every variable holds a value of its kind.                               *)
TypeOK ==
    /\ image \in Images /\ pc \in {"patch", "failed", "written", "short"}
    /\ i \in 1..(HeadersIn + 1) /\ exit \in {0, 1}
    /\ oks \in [1..HeadersIn -> BOOLEAN]
    /\ DOMAIN buf = Cells
    /\ pc # "short" => DOMAIN file = Cells

(* What the checksums of a header depend on.                               *)
Reads(h)  == Data(h) \cup Writes(h) \cup (IF h.kind = "uimage" THEN {h.at} ELSE {})

(* What a boot loader looks at: all the data is there, the checksums agree.*)
Valid(h, b) ==
    /\ h.kind # "other" /\ Data(h) \subseteq Cells
    /\ b[Field(h)] = Sum(b, Data(h), 0)
    /\ h.kind = "uimage" => b[OwnField(h)] = OwnSum(b, h)

(* Nothing but the checksum fields of the headers in the log is changed.   *)
FieldsOnly ==
    \A c \in Cells : buf[c] # Contents[c] =>
        \E j \in 1..(i - 1) : c \in Writes(image.log[j])

(* A header reported as updated is valid in the file that is written, if   *)
(* its data is all there and no header later in the log is patched inside  *)
(* what its checksums cover: nested headers must be listed inside out.     *)
UpdatedIsValid ==
    pc = "written" =>
        \A j \in 1..HeadersIn :
            LET h == image.log[j] IN
            /\ oks[j] /\ Data(h) \subseteq Cells
            /\ \A l \in (j + 1)..HeadersIn : Writes(image.log[l]) \cap Reads(h) = {}
            => Valid(h, file)

(* An image none of whose headers could be updated is left as it was,     *)
(* although a TRX header that does not fit was zeroed in the buffer.       *)
OnlyUpdatesWrite == file # Contents => \E j \in 1..HeadersIn : Sane(image.log[j])

=============================================================================
