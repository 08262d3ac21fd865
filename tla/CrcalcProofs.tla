---------------------------- MODULE CrcalcProofs ----------------------------
(***************************************************************************)
(* What crcalc keeps for every image, every log and every checksum: it     *)
(* writes nothing but checksum fields, it writes nothing at all when no    *)
(* header fits, and a header it reports as updated is valid in the file    *)
(* when the headers after it in the log leave it alone.                    *)
(***************************************************************************)
EXTENDS Crcalc, TLAPS

Header(j) == image.log[j]

(* A patched header stays valid while nothing is written that it covers.   *)
Untouched(j, last) == \A l \in (j + 1)..last : Writes(Header(l)) \cap Reads(Header(j)) = {}

PatchedIsValid ==
    \A j \in 1..(i - 1) :
        oks[j] /\ Data(Header(j)) \subseteq Cells /\ Untouched(j, i - 1) => Valid(Header(j), buf)

UpdatedIsSane == \A j \in 1..HeadersIn : oks[j] => Sane(Header(j)) /\ j < i

FileIsOne ==
    /\ pc \in {"patch", "failed"} => file = Contents
    /\ pc = "written" => file = buf /\ i = HeadersIn + 1
    /\ pc # "patch" /\ pc # "failed" => Updated

CrcInv == TypeOK /\ FieldsOnly /\ PatchedIsValid /\ UpdatedIsSane /\ FileIsOne

-----------------------------------------------------------------------------
(* Images and headers.                                                     *)

(* The size of an image, and how many of its headers are taken.            *)
LEMMA Sizes ==
    ASSUME TypeOK
    PROVE  /\ Size \in Nat /\ Size > 4 /\ HeadersIn \in Nat /\ HeadersIn <= Len(image.log)
           /\ i \in Nat /\ i >= 1 /\ i <= HeadersIn + 1
<1>1. Len(image.cells) \in Nat /\ Len(image.cells) > 4 /\ Len(image.log) \in Nat
    <2>1. image \in Images  BY DEF TypeOK
    <2> QED  BY <2>1, CrcalcAssumption
<1>2. HeadersIn \in Nat /\ HeadersIn <= Len(image.log)  BY <1>1, CrcalcAssumption DEF HeadersIn
<1> QED  BY <1>1, <1>2 DEF TypeOK, Size

(* A header that is taken lies in the image.                               *)
LEMMA HeadersFit ==
    ASSUME TypeOK, NEW j \in 1..HeadersIn
    PROVE  /\ Header(j).kind \in Kinds
           /\ Header(j).at \in Nat /\ Header(j).len \in Nat /\ Header(j).sig \in Nat
           /\ Writes(Header(j)) \subseteq Cells
<1>1. image \in Images /\ j \in 1..Len(image.log)  BY Sizes DEF TypeOK
<1>2. /\ image.log[j].kind \in Kinds
      /\ {image.log[j].at, image.log[j].len, image.log[j].sig} \subseteq Nat
      /\ Writes(image.log[j]) \subseteq 0..(Len(image.cells) - 1)
    BY <1>1, CrcalcAssumption
<1> QED  BY <1>2 DEF Header, Cells, Size

(* Patching changes the fields of the header and no other cell.            *)
LEMMA PatchedCells ==
    ASSUME NEW b, NEW h, NEW x, h.kind \in Kinds
    PROVE  /\ DOMAIN Patched(b, h, x) = DOMAIN b
           /\ \A c \in DOMAIN b : c \notin Writes(h) => Patched(b, h, x)[c] = b[c]
<1>1. CASE h.kind = "trx"
    BY <1>1 DEF Patched, PatchTrx, Writes
<1>2. CASE h.kind = "uimage"
    BY <1>2 DEF Patched, PatchUimage, Writes
<1>3. CASE h.kind = "dlob"
    BY <1>3 DEF Patched, PatchDlob, Writes
<1>4. CASE h.kind = "other"
    BY <1>4 DEF Patched
<1> QED  BY <1>1, <1>2, <1>3, <1>4 DEF Kinds

-----------------------------------------------------------------------------
(* Checksums depend only on the cells they are taken of.                   *)
LEMMA SumDepends ==
    ASSUME NEW b, NEW d, NEW cells, NEW x, NEW y,
           \A c \in cells : c \in Cells => b[c] = d[c],
           cells \subseteq Cells \/ x = y
    PROVE  Sum(b, cells, x) = Sum(d, cells, y)
<1>1. [c \in cells |-> IF c \in Cells THEN b[c] ELSE x]
        = [c \in cells |-> IF c \in Cells THEN d[c] ELSE y]
    OBVIOUS
<1> QED  BY <1>1 DEF Sum

(* So the CRC of a uImage header does not depend on its own field.         *)
LEMMA OwnSumDepends ==
    ASSUME NEW b, NEW d, NEW h, DOMAIN b = Cells, DOMAIN d = Cells, h.at \in Nat,
           \A c \in {h.at, h.at + 2} : c \in Cells => b[c] = d[c]
    PROVE  OwnSum(b, h) = OwnSum(d, h)
<1>1. \A c \in h.at .. (h.at + 2) : c \in Cells => Zeroed(b, h)[c] = Zeroed(d, h)[c]
    <2> SUFFICES ASSUME NEW c \in h.at .. (h.at + 2), c \in Cells
                 PROVE  Zeroed(b, h)[c] = Zeroed(d, h)[c]
        OBVIOUS
    <2>1. c = h.at \/ c = h.at + 1 \/ c = h.at + 2  OBVIOUS
    <2>2. CASE c = h.at + 1  BY <2>2 DEF Zeroed, OwnField
    <2>3. CASE c \in {h.at, h.at + 2}
        <3>1. c # OwnField(h)  BY <2>3 DEF OwnField
        <3> QED  BY <3>1, <2>3 DEF Zeroed
    <2> QED  BY <2>1, <2>2, <2>3
<1> HIDE DEF Zeroed
<1> QED  BY <1>1, SumDepends DEF OwnSum

(* A valid header stays valid while what it reads is not changed.          *)
LEMMA ValidDepends ==
    ASSUME NEW b, NEW d, NEW h, DOMAIN b = Cells, DOMAIN d = Cells,
           h.kind \in Kinds, h.at \in Nat, Writes(h) \subseteq Cells,
           \A c \in Reads(h) : c \in Cells => d[c] = b[c],
           Valid(h, b)
    PROVE  Valid(h, d)
<1>1. h.kind # "other" /\ Data(h) \subseteq Cells  BY DEF Valid
<1>2. Field(h) \in Writes(h)  BY <1>1 DEF Writes, Kinds
<1>3. d[Field(h)] = b[Field(h)]  BY <1>2 DEF Reads
<1>4. Sum(d, Data(h), 0) = Sum(b, Data(h), 0)
    <2>1. \A c \in Data(h) : c \in Cells => d[c] = b[c]  BY DEF Reads
    <2> QED  BY <2>1, SumDepends
<1>5. h.kind = "uimage" => d[OwnField(h)] = OwnSum(d, h)
    <2> SUFFICES ASSUME h.kind = "uimage"  PROVE d[OwnField(h)] = OwnSum(d, h)
        OBVIOUS
    <2>1. OwnField(h) \in Writes(h) /\ Field(h) = h.at + 2  BY DEF Writes, Field
    <2>2. h.at \in Reads(h) /\ h.at + 2 \in Reads(h) /\ OwnField(h) \in Reads(h)
        BY <2>1, <1>2 DEF Reads
    <2>3. OwnSum(d, h) = OwnSum(b, h)
        <3>1. \A c \in {h.at, h.at + 2} : c \in Cells => d[c] = b[c]  BY <2>2
        <3> QED  BY <3>1, OwnSumDepends
    <2>4. d[OwnField(h)] = b[OwnField(h)]  BY <2>1, <2>2
    <2> QED  BY <2>3, <2>4 DEF Valid
<1> QED  BY <1>1, <1>3, <1>4, <1>5 DEF Valid

(* A header whose data is all there is valid once it is patched.           *)
LEMMA PatchMakesValid ==
    ASSUME NEW b, NEW h, NEW x, DOMAIN b = Cells,
           h.kind \in Kinds, h.at \in Nat, h.len \in Nat, h.sig \in Nat,
           Writes(h) \subseteq Cells, Sane(h), Data(h) \subseteq Cells
    PROVE  Valid(h, Patched(b, h, x))
<1> DEFINE d == Patched(b, h, x)
           s == Sum(b, Data(h), x)
<1>1. h.kind # "other"  BY DEF Sane
<1>2. DOMAIN d = Cells /\ \A c \in Cells : c \notin Writes(h) => d[c] = b[c]
    BY PatchedCells
<1>3. Data(h) \cap Writes(h) = {}
    BY <1>1 DEF Data, Writes, Field, OwnField, Kinds
<1>4. Field(h) \in Cells  BY <1>1 DEF Writes, Kinds
<1>5. s = Sum(d, Data(h), 0)
    <2>1. \A c \in Data(h) : c \in Cells => b[c] = d[c]  BY <1>2, <1>3
    <2> QED  BY <2>1, SumDepends
<1>6. h.kind # "uimage" => d[Field(h)] = s
    <2> SUFFICES ASSUME h.kind # "uimage"  PROVE d[Field(h)] = s
        OBVIOUS
    <2>1. CASE h.kind = "trx"  BY <2>1, <1>4 DEF Patched, PatchTrx
    <2>2. CASE h.kind = "dlob"  BY <2>2, <1>4 DEF Patched, PatchDlob
    <2> QED  BY <2>1, <2>2, <1>1 DEF Kinds
<1>7. h.kind = "uimage" => d[Field(h)] = s /\ d[OwnField(h)] = OwnSum(d, h)
    <2> SUFFICES ASSUME h.kind = "uimage"
                 PROVE  d[Field(h)] = s /\ d[OwnField(h)] = OwnSum(d, h)
        OBVIOUS
    <2> DEFINE e == [b EXCEPT ![Field(h)] = s]
    <2>1. d = [e EXCEPT ![OwnField(h)] = OwnSum(e, h)]  BY DEF Patched, PatchUimage
    <2>2. OwnField(h) \in Cells /\ OwnField(h) # Field(h) /\ Field(h) = h.at + 2
          /\ OwnField(h) = h.at + 1
        BY DEF Writes, Field, OwnField
    <2>3. DOMAIN e = Cells /\ e[Field(h)] = s  BY <1>4
    <2> HIDE DEF e, d, s
    <2>4. d[Field(h)] = s  BY <2>1, <2>2, <2>3, <1>4
    <2>5. d[OwnField(h)] = OwnSum(e, h)  BY <2>1, <2>2, <2>3
    <2>6. \A c \in {h.at, h.at + 2} : c \in Cells => e[c] = d[c]
        BY <2>1, <2>2, <2>3
    <2>7. OwnSum(e, h) = OwnSum(d, h)
        BY <2>3, <2>6, <1>2, OwnSumDepends DEF d
    <2> QED  BY <2>4, <2>5, <2>7
<1> HIDE DEF d, s
<1> QED
    <2>1. Valid(h, d)  BY <1>1, <1>5, <1>6, <1>7 DEF Valid
    <2> QED  BY <2>1 DEF d

-----------------------------------------------------------------------------
(* The inductive invariant.                                                *)
LEMMA InitCrcInv == Init => CrcInv
<1> SUFFICES ASSUME Init  PROVE CrcInv
    OBVIOUS
<1>1. Len(image.log) \in Nat  BY CrcalcAssumption DEF Init
<1>2. HeadersIn \in Nat  BY <1>1, CrcalcAssumption DEF HeadersIn
<1>3. TypeOK
    <2>1. oks \in [1..HeadersIn -> BOOLEAN]  BY DEF Init
    <2>2. i \in 1..(HeadersIn + 1)  BY <1>2 DEF Init
    <2>3. DOMAIN buf = Cells /\ DOMAIN file = Cells  BY DEF Init, Contents
    <2> QED  BY <2>1, <2>2, <2>3 DEF Init, TypeOK
<1>4. FieldsOnly  BY DEF Init, FieldsOnly
<1>5. PatchedIsValid  BY DEF Init, PatchedIsValid
<1>6. UpdatedIsSane  BY DEF Init, UpdatedIsSane
<1>7. FileIsOne  BY DEF Init, FileIsOne
<1> QED  BY <1>3, <1>4, <1>5, <1>6, <1>7 DEF CrcInv

LEMMA PatchHeaderKeeps ==
    ASSUME CrcInv, PatchHeader
    PROVE  CrcInv'
<1> USE DEF CrcInv
<1>1. /\ i \in 1..HeadersIn /\ i' = i + 1 /\ pc = "patch" /\ pc' = "patch"
      /\ HeadersIn \in Nat /\ i \in Nat
    BY Sizes DEF PatchHeader
<1>2. UNCHANGED <<image, HeadersIn, Cells, Size, Contents>> /\ UNCHANGED <<file, exit>>
    BY DEF PatchHeader, HeadersIn, Cells, Size, Contents
<1>3. \A j : Header(j)' = Header(j) /\ Writes(Header(j))' = Writes(Header(j))
                /\ Reads(Header(j))' = Reads(Header(j)) /\ Data(Header(j))' = Data(Header(j))
    BY <1>2 DEF Header, Writes, Reads, Data, Field, OwnField
<1>4. PICK x \in Beyond : buf' = Patched(buf, Header(i), x)
    BY DEF PatchHeader, Header
<1>5. oks' = [oks EXCEPT ![i] = Ok(buf', Header(i))]
    BY DEF PatchHeader, Header
<1>6. oks \in [1..HeadersIn -> BOOLEAN]
    BY DEF TypeOK
<1>7. \A j \in 1..HeadersIn : j # i => oks'[j] = oks[j]
    BY <1>1, <1>5, <1>6
<1>8. oks'[i] = Ok(buf', Header(i))
    BY <1>1, <1>5, <1>6
<1>9. oks'[i] => Sane(Header(i))
    BY <1>8 DEF Ok
<1>10. DOMAIN buf = Cells /\ DOMAIN buf' = Cells
       /\ \A c \in Cells : c \notin Writes(Header(i)) => buf'[c] = buf[c]
    <2>1. DOMAIN buf = Cells  BY DEF TypeOK
    <2> QED  BY <1>1, <1>4, <2>1, HeadersFit, PatchedCells
<1>11. TypeOK'
    <2>1. i' \in 1..(HeadersIn + 1)  BY <1>1
    <2>2. Ok(buf', Header(i)) \in BOOLEAN  BY DEF Ok
    <2>3. oks' \in [1..HeadersIn -> BOOLEAN]  BY <1>5, <1>6, <2>2
    <2> QED  BY <1>1, <1>2, <1>10, <2>1, <2>3 DEF TypeOK
<1>12. FieldsOnly'
    <2> SUFFICES ASSUME NEW c \in Cells, buf'[c] # Contents[c]
                 PROVE  \E j \in 1..i : c \in Writes(Header(j))
        BY <1>1, <1>2, <1>3 DEF FieldsOnly, Header
    <2>1. CASE c \in Writes(Header(i))  BY <2>1, <1>1
    <2>2. CASE c \notin Writes(Header(i))
        <3>1. buf[c] # Contents[c]  BY <2>2, <1>10
        <3>2. PICK j \in 1..(i - 1) : c \in Writes(Header(j))
            BY <3>1 DEF FieldsOnly, Header
        <3> QED  BY <3>2, <1>1
    <2> QED  BY <2>1, <2>2
<1>13. PatchedIsValid'
    <2> SUFFICES ASSUME NEW j \in 1..i, oks'[j], Data(Header(j)) \subseteq Cells,
                        Untouched(j, i)
                 PROVE  Valid(Header(j), buf')
        BY <1>1, <1>2, <1>3
        DEF PatchedIsValid, Untouched, Valid, Sum, OwnSum, Zeroed, Data, Field, OwnField
    <2>1. CASE j = i
        <3>1. Sane(Header(i))  BY <2>1, <1>9
        <3> QED  BY <2>1, <3>1, <1>1, <1>4, <1>10, HeadersFit, PatchMakesValid
    <2>2. CASE j # i
        <3>1. j \in 1..(i - 1) /\ j \in 1..HeadersIn  BY <2>2, <1>1
        <3>2. oks[j]  BY <3>1, <2>2, <1>7
        <3>3. Untouched(j, i - 1)  BY <1>1, <3>1 DEF Untouched
        <3>4. Valid(Header(j), buf)  BY <3>1, <3>2, <3>3 DEF PatchedIsValid
        <3>5. Writes(Header(i)) \cap Reads(Header(j)) = {}  BY <3>1, <1>1 DEF Untouched
        <3>6. \A c \in Reads(Header(j)) : c \in Cells => buf'[c] = buf[c]  BY <3>5, <1>10
        <3> QED  BY <3>1, <3>4, <3>6, <1>10, HeadersFit, ValidDepends
    <2> QED  BY <2>1, <2>2
<1>14. UpdatedIsSane'
    <2> SUFFICES ASSUME NEW j \in 1..HeadersIn, oks'[j]
                 PROVE  Sane(Header(j)) /\ j < i + 1
        BY <1>1, <1>2, <1>3 DEF UpdatedIsSane, Sane, Header
    <2>1. CASE j = i  BY <2>1, <1>9, <1>1
    <2>2. CASE j # i
        <3>1. oks[j]  BY <2>2, <1>7
        <3> QED  BY <3>1, <1>1 DEF UpdatedIsSane
    <2> QED  BY <2>1, <2>2
<1>15. FileIsOne'
    BY <1>1, <1>2 DEF FileIsOne
<1> QED  BY <1>11, <1>12, <1>13, <1>14, <1>15

LEMMA FileWriteKeeps ==
    ASSUME CrcInv, FileWrite
    PROVE  CrcInv'
<1> USE DEF CrcInv
<1>1. UNCHANGED <<image, i, buf, oks>> /\ pc = "patch" /\ i = HeadersIn + 1
    BY Sizes DEF FileWrite
<1>2. UNCHANGED <<HeadersIn, Cells, Size, Contents, Updated>>
    BY <1>1 DEF HeadersIn, Cells, Size, Contents, Updated
<1>3. UNCHANGED <<FieldsOnly, PatchedIsValid, UpdatedIsSane>>
    BY <1>1, <1>2 DEF FieldsOnly, PatchedIsValid, UpdatedIsSane, Header, Untouched, Valid,
        Sum, OwnSum, Zeroed, Sane, Data, Field, OwnField, Writes, Reads
<1>4. file = Contents /\ DOMAIN buf = Cells /\ DOMAIN file = Cells /\ exit \in {0, 1}
    BY <1>1 DEF FileIsOne, TypeOK
<1>5. CASE ~Updated /\ pc' = "failed" /\ UNCHANGED <<file, exit>>
    BY <1>1, <1>2, <1>3, <1>4, <1>5 DEF TypeOK, FileIsOne
<1>6. CASE Updated /\ pc' = "written" /\ file' = buf /\ exit' = 0
    BY <1>1, <1>2, <1>3, <1>4, <1>6 DEF TypeOK, FileIsOne
<1>7. CASE Updated /\ pc' = "short" /\ UNCHANGED exit
    BY <1>1, <1>2, <1>3, <1>4, <1>7 DEF TypeOK, FileIsOne
<1> QED  BY <1>5, <1>6, <1>7 DEF FileWrite

LEMMA CrcStep == CrcInv /\ [Next]_vars => CrcInv'
<1> SUFFICES ASSUME CrcInv, [Next]_vars  PROVE CrcInv'
    OBVIOUS
<1>1. CASE PatchHeader  BY <1>1, PatchHeaderKeeps
<1>2. CASE FileWrite  BY <1>2, FileWriteKeeps
<1>3. CASE UNCHANGED vars
    <2>1. UNCHANGED <<image, pc, i, buf, oks, file, exit>>  BY <1>3 DEF vars
    <2>2. UNCHANGED <<HeadersIn, Cells, Size, Contents, Updated>>
        BY <2>1 DEF HeadersIn, Cells, Size, Contents, Updated
    <2>3. TypeOK' /\ FileIsOne'
        BY <2>1, <2>2 DEF CrcInv, TypeOK, FileIsOne
    <2>4. FieldsOnly'
        BY <2>1, <2>2 DEF CrcInv, FieldsOnly
    <2>5. PatchedIsValid'
        BY <2>1, <2>2 DEF CrcInv, PatchedIsValid, Header, Untouched, Valid, Sum, OwnSum
    <2>6. UpdatedIsSane'
        BY <2>1, <2>2 DEF CrcInv, UpdatedIsSane, Header, Sane
    <2> QED  BY <2>3, <2>4, <2>5, <2>6 DEF CrcInv
<1> QED  BY <1>1, <1>2, <1>3 DEF Next

(* In every reachable state the cells of the buffer differ from the image  *)
(* only where a header was patched, and patched headers are valid.         *)
THEOREM CrcInvariant == Spec => []CrcInv
BY InitCrcInv, CrcStep, PTL DEF Spec

(* TypeOK: the buffer and the file keep the length of the image.           *)
THEOREM TypeCorrect == Spec => []TypeOK
<1>1. CrcInv => TypeOK  BY DEF CrcInv
<1> QED  BY <1>1, CrcInvariant, PTL

(* crcalc changes nothing but the checksum fields of the headers logged.   *)
THEOREM FieldsOnlyHolds == Spec => []FieldsOnly
<1>1. CrcInv => FieldsOnly  BY DEF CrcInv
<1> QED  BY <1>1, CrcInvariant, PTL

(* A header reported as updated is valid in the file written, unless a     *)
(* header later in the log is patched inside what its checksums cover.     *)
THEOREM UpdatedIsValidHolds == Spec => []UpdatedIsValid
<1>1. CrcInv => UpdatedIsValid
    <2> SUFFICES ASSUME CrcInv, pc = "written", NEW j \in 1..HeadersIn,
                        oks[j], Data(Header(j)) \subseteq Cells, Untouched(j, HeadersIn)
                 PROVE  Valid(Header(j), file)
        BY DEF UpdatedIsValid, Header, Untouched
    <2>1. file = buf /\ i - 1 = HeadersIn
        BY Sizes DEF CrcInv, FileIsOne
    <2> QED  BY <2>1 DEF CrcInv, PatchedIsValid
<1> QED  BY <1>1, CrcInvariant, PTL

(* The file is not written when no header in the log fits the image.       *)
THEOREM OnlyUpdatesWriteHolds == Spec => []OnlyUpdatesWrite
<1>1. CrcInv => OnlyUpdatesWrite
    <2> SUFFICES ASSUME CrcInv, file # Contents
                 PROVE  \E j \in 1..HeadersIn : Sane(Header(j))
        BY DEF OnlyUpdatesWrite, Header
    <2>1. Updated  BY DEF CrcInv, FileIsOne, TypeOK
    <2>2. PICK j \in 1..HeadersIn : oks[j]  BY <2>1 DEF Updated, CrcInv, TypeOK
    <2> QED  BY <2>2 DEF CrcInv, UpdatedIsSane
<1> QED  BY <1>1, CrcInvariant, PTL
=============================================================================
