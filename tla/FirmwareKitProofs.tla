------------------------- MODULE FirmwareKitProofs -------------------------
(***************************************************************************)
(* Proofs about FirmwareKit, for every set of images, file systems and     *)
(* lines, and any number of extractions, builds and interruptions.         *)
(***************************************************************************)
EXTENDS FirmwareKit, FiniteSetTheorems, SequenceTheorems, Induction, TLAPS

-----------------------------------------------------------------------------
(* Sequences and sizes.                                                    *)

(* A footer is never longer than its image.                                *)
LEMMA FooterSize ==
    ASSUME NEW s \in Seq(Lines)
    PROVE  FOOTER_SIZE(s) \in 0..Len(s)
<1> DEFINE F == {i \in 1..Len(s) : InFooter(s, i)}
<1>1. Len(s) \in Nat
  BY LenProperties
<1>2. IsFiniteSet(1..Len(s)) /\ Cardinality(1..Len(s)) = Len(s)
  <2>1. Cardinality(1..Len(s)) = IF 1 > Len(s) THEN 0 ELSE Len(s) - 1 + 1
    BY <1>1, FS_Interval
  <2>2. IsFiniteSet(1..Len(s))
    BY <1>1, FS_Interval
  <2> QED BY <1>1, <2>1, <2>2
<1>3. IsFiniteSet(F) /\ Cardinality(F) <= Len(s)
  <2>1. F \in SUBSET (1..Len(s))
    OBVIOUS
  <2> QED BY <1>2, <2>1, FS_Subset
<1>4. Cardinality(F) \in Nat
  BY <1>3, FS_CardinalityType
<1> QED BY <1>1, <1>3, <1>4 DEF FOOTER_SIZE

(* A piece of an image holds lines, and is as long as its ends say.        *)
LEMMA Piece ==
    ASSUME NEW s \in Seq(Lines), NEW m \in 1..(Len(s) + 1), NEW n \in (m - 1)..Len(s)
    PROVE  SubSeq(s, m, n) \in Seq(Lines) /\ Len(SubSeq(s, m, n)) = n - m + 1
<1>1. Len(s) \in Nat /\ \A i \in m..n : s[i] \in Lines
  BY ElementOfSeq, LenProperties
<1>2. m \in Int /\ n \in Int
  BY <1>1
<1>3. SubSeq(s, m, n) \in Seq(Lines) /\ Len(SubSeq(s, m, n)) = IF m <= n THEN n - m + 1 ELSE 0
  BY <1>1, <1>2, SubSeqProperties
<1> QED BY <1>1, <1>2, <1>3

(* Two pieces in a row, line by line.                                      *)
Joins(r, s, t) ==
    /\ r \in Seq(Lines) /\ Len(r) = Len(s) + Len(t)
    /\ \A k \in 1..Len(s) : r[k] = s[k]
    /\ \A k \in (Len(s) + 1)..(Len(s) + Len(t)) : r[k] = t[k - Len(s)]

LEMMA Joined ==
    ASSUME NEW s \in Seq(Lines), NEW t \in Seq(Lines)
    PROVE  Joins(s \o t, s, t)
<1>1. /\ s \o t \in Seq(Lines) /\ Len(s \o t) = Len(s) + Len(t)
      /\ \A k \in 1..(Len(s) + Len(t)) :
            (s \o t)[k] = IF k <= Len(s) THEN s[k] ELSE t[k - Len(s)]
      /\ Len(s) \in Nat /\ Len(t) \in Nat
  BY ConcatProperties, LenProperties
<1>2. ASSUME NEW k \in 1..Len(s)
      PROVE  (s \o t)[k] = s[k]
  <2>1. k \in 1..(Len(s) + Len(t)) /\ k <= Len(s)
    BY <1>1
  <2> QED BY <1>1, <2>1
<1>3. ASSUME NEW k \in (Len(s) + 1)..(Len(s) + Len(t))
      PROVE  (s \o t)[k] = t[k - Len(s)]
  <2>1. k \in 1..(Len(s) + Len(t)) /\ ~(k <= Len(s))
    BY <1>1
  <2> QED BY <1>1, <2>1
<1> QED BY <1>1, <1>2, <1>3 DEF Joins

(* Appending leaves what was there in front.                               *)
LEMMA FrontOfConcat ==
    ASSUME NEW s \in Seq(Lines), NEW t \in Seq(Lines), NEW n \in 1..Len(s)
    PROVE  SubSeq(s \o t, 1, n) = SubSeq(s, 1, n)
<1>1. Len(s) \in Nat
  BY LenProperties
<1>2. 1 \in 1..Len(s)
  BY <1>1
<1> QED BY <1>2, SubSeqOfConcat1

(* What was appended is at the back.                                       *)
LEMMA BackOfConcat ==
    ASSUME NEW s \in Seq(Lines), NEW t \in Seq(Lines)
    PROVE  SubSeq(s \o t, Len(s) + 1, Len(s) + Len(t)) = t
<1>1. Len(s) \in Nat /\ Len(t) \in Nat
  BY LenProperties
<1>2. CASE Len(t) = 0
  <2>1. t = <<>>
    BY <1>2, EmptySeq
  <2>2. SubSeq(s \o t, Len(s) + 1, Len(s) + Len(t)) = <<>>
    BY <1>1, <1>2, SubSeqEmpty
  <2> QED BY <2>1, <2>2
<1>3. CASE Len(t) # 0
  <2>1. /\ Len(s) + 1 \in (Len(s) + 1)..(Len(s) + Len(t))
        /\ Len(s) + Len(t) \in (Len(s) + 1)..(Len(s) + Len(t))
    BY <1>1, <1>3
  <2>2. SubSeq(s \o t, Len(s) + 1, Len(s) + Len(t))
          = SubSeq(t, Len(s) + 1 - Len(s), Len(s) + Len(t) - Len(s))
    BY <2>1, SubSeqOfConcat2
  <2>3. Len(s) + 1 - Len(s) = 1 /\ Len(s) + Len(t) - Len(s) = Len(t)
    BY <1>1
  <2>4. SubSeq(t, 1, Len(t)) = t
    BY SubSeqFull
  <2> QED BY <2>2, <2>3, <2>4
<1> QED BY <1>2, <1>3

(* Filler that shows as a star, in front of a footer of few entries, is    *)
(* filler up to what the script takes for the footer: whatever else        *)
(* repeats in the file system, the star of the filler is among those it    *)
(* looks at, and the lines after a star that are not shown repeat it.      *)
LEMMA FillerReachesFooter ==
    ASSUME NEW s \in Seq(Lines), NEW start \in 2..Len(s),
           s[start - 1] = FF, s[start] = FF,
           Cardinality({j \in (start + 1)..Len(s) : Shown(s, j)}) < Window
    PROVE  \A i \in (start + 1)..FOOTER_FIRST(s) : s[i] = FF
<1> DEFINE B == {k \in 1..start : \A j \in k..start : s[j] = FF}
           C == {j \in (start + 1)..Len(s) : Shown(s, j)}
           F == {j \in 1..Len(s) : InFooter(s, j)}
<1>1. Len(s) \in Nat /\ start \in Nat
  BY LenProperties
<1>2. PICK b \in B : \A k \in B : b <= k
  <2>1. start - 1 \in B
    BY <1>1
  <2>2. B \in SUBSET Nat
    BY <1>1
  <2> HIDE DEF B
  <2> QED BY <2>1, <2>2, Least
<1>3. /\ b \in 1..(start - 1) /\ b + 1 \in 2..start
      /\ \A j \in b..start : s[j] = FF
      /\ b > 1 => s[b - 1] # FF
  <2>1. start - 1 \in B
    BY <1>1
  <2>2. b <= start - 1
    BY <1>2, <2>1
  <2>3. ASSUME b > 1, s[b - 1] = FF
        PROVE  FALSE
    <3>1. b - 1 \in 1..start /\ ~(b <= b - 1)
      BY <1>1, <1>2, <2>3
    <3>2. ASSUME NEW j \in (b - 1)..start
          PROVE  s[j] = FF
      <4>1. j = b - 1 \/ j \in b..start
        BY <1>1, <1>2, <3>2
      <4> QED BY <1>2, <2>3, <4>1
    <3>3. b - 1 \in B
      BY <3>1, <3>2
    <3> QED BY <1>2, <3>1, <3>3
  <2> QED BY <1>1, <1>2, <2>2, <2>3
<1> DEFINE t == b + 1
<1> HIDE DEF B
<1>4. Star(s, t)
  <2>1. t - 1 = b /\ t > 1 /\ t \in b..start /\ b \in b..start
    BY <1>1, <1>3
  <2>2. Repeats(s, t)
    BY <1>3, <2>1 DEF Repeats
  <2>3. ~Repeats(s, b)
    BY <1>3, <2>1 DEF Repeats
  <2> QED BY <2>1, <2>2, <2>3 DEF Star
<1>5. ASSUME NEW j \in (t + 1)..start
      PROVE  ~Shown(s, j)
  <2>1. /\ j > 1 /\ j - 1 > 1 /\ j \in b..start /\ j - 1 \in b..start
        /\ (j - 1) - 1 \in b..start
    BY <1>1, <1>3
  <2>2. Repeats(s, j) /\ Repeats(s, j - 1)
    BY <1>3, <2>1 DEF Repeats
  <2> QED BY <2>2 DEF Shown, Star
<1>6. InTail(s, t)
  <2> DEFINE T == {j \in t..Len(s) : Shown(s, j)}
  <2>1. T \subseteq C \cup {t}
    <3>1. ASSUME NEW j \in T, j # t
          PROVE  j \in C
      <4>1. j \in (t + 1)..start \/ j \in (start + 1)..Len(s)
        BY <1>1, <1>3, <3>1
      <4> QED BY <1>5, <3>1, <4>1
    <3> QED BY <3>1
  <2>2. IsFiniteSet(C)
    <3>1. IsFiniteSet((start + 1)..Len(s))
      BY <1>1, FS_Interval
    <3>2. C \in SUBSET ((start + 1)..Len(s))
      OBVIOUS
    <3> HIDE DEF C
    <3> QED BY <3>1, <3>2, FS_Subset
  <2>3. Cardinality(C) \in Nat /\ Cardinality(C) < 10
    BY <2>2, FS_CardinalityType DEF Window
  <2> HIDE DEF C, T
  <2>4. IsFiniteSet(C \cup {t}) /\ Cardinality(C \cup {t}) <= 10
    <3> HIDE DEF t
    <3>1. /\ IsFiniteSet(C \cup {t})
          /\ \/ Cardinality(C \cup {t}) = Cardinality(C)
             \/ Cardinality(C \cup {t}) = Cardinality(C) + 1
      BY <2>2, FS_AddElement
    <3> QED BY <2>3, <3>1
  <2>5. IsFiniteSet(T) /\ Cardinality(T) <= Cardinality(C \cup {t})
    BY <2>1, <2>4, FS_Subset
  <2>6. Cardinality(T) \in Nat /\ Cardinality(C \cup {t}) \in Nat
    BY <2>4, <2>5, FS_CardinalityType
  <2>7. Cardinality(T) <= 10
    BY <2>4, <2>5, <2>6
  <2> QED BY <2>7 DEF InTail, Window, T
<1>7. t \in Stars(s)
  BY <1>1, <1>3, <1>4, <1>6 DEF Stars
<1>8. ASSUME NEW i \in (start + 1)..FOOTER_FIRST(s)
      PROVE  ~InFooter(s, i)
  <2> SUFFICES ASSUME InFooter(s, i)
               PROVE  FALSE
    OBVIOUS
  <2>1. FOOTER_FIRST(s) = Len(s) - Cardinality(F)
    BY DEF FOOTER_FIRST, FOOTER_SIZE
  <2>2. IsFiniteSet(F)
    <3>1. IsFiniteSet(1..Len(s)) /\ F \in SUBSET (1..Len(s))
      BY <1>1, FS_Interval
    <3> HIDE DEF F
    <3> QED BY <3>1, FS_Subset
  <2>3. Cardinality(F) \in Nat
    BY <2>2, FS_CardinalityType
  <2>4. i \in 1..Len(s) /\ i <= Len(s) - Cardinality(F)
    BY <1>1, <2>1, <2>3
  <2>5. i..Len(s) \subseteq F
    <3>1. PICK u \in Stars(s) : \E j \in (u + 1)..i : Shown(s, j)
      BY DEF InFooter
    <3>2. ASSUME NEW k \in i..Len(s)
          PROVE  InFooter(s, k)
      <4>1. u \in Int
        BY <1>1 DEF Stars
      <4>2. (u + 1)..i \subseteq (u + 1)..k
        BY <1>1, <2>4, <4>1
      <4> QED BY <3>1, <4>2 DEF InFooter
    <3>3. i..Len(s) \subseteq 1..Len(s)
      BY <1>1, <2>4
    <3> QED BY <3>2, <3>3
  <2>6. Cardinality(i..Len(s)) = Len(s) - i + 1
    <3>1. Cardinality(i..Len(s)) = IF i > Len(s) THEN 0 ELSE Len(s) - i + 1
      BY <1>1, <2>4, FS_Interval
    <3> QED BY <1>1, <2>4, <3>1
  <2> HIDE DEF F
  <2>7. Cardinality(i..Len(s)) <= Cardinality(F)
    BY <2>2, <2>5, FS_Subset
  <2> QED BY <1>1, <2>3, <2>4, <2>6, <2>7
<1>9. ASSUME NEW i \in (start + 1)..FOOTER_FIRST(s), s[i] # FF
      PROVE  FALSE
  <2> DEFINE D == {k \in (start + 1)..i : s[k] # FF}
  <2>1. i \in Nat /\ i \in (start + 1)..i
    <3>1. FOOTER_FIRST(s) \in Int
      <4>1. FOOTER_SIZE(s) \in 0..Len(s)
        BY FooterSize
      <4> QED BY <1>1, <4>1 DEF FOOTER_FIRST
    <3> QED BY <1>1, <3>1
  <2>2. PICK d \in D : \A k \in D : d <= k
    <3>1. i \in D /\ D \in SUBSET Nat
      BY <1>1, <1>9, <2>1
    <3> HIDE DEF D
    <3> QED BY <3>1, Least
  <2>3. d \in (t + 1)..i /\ d > 1 /\ d - 1 \in start..i /\ ~(d <= d - 1)
    BY <1>1, <1>3, <2>1, <2>2
  <2>4. s[d - 1] = FF
    <3>1. d - 1 = start \/ d - 1 \in (start + 1)..i
      BY <1>1, <2>1, <2>3
    <3> QED BY <2>2, <2>3, <3>1
  <2>5. Repeats(s, d)
    <3>1. ~Shown(s, d)
      BY <1>7, <1>8, <2>3 DEF InFooter
    <3> QED BY <3>1 DEF Shown
  <2> QED BY <2>2, <2>4, <2>5 DEF Repeats
<1> QED BY <1>9

-----------------------------------------------------------------------------
(* An image and the parts taken from it.                                   *)

(* The last file system of the log lies inside the image.                  *)
LEMMA FsInside ==
    ASSUME image \in Images, image.log # <<>>
    PROVE  /\ image.lines \in Seq(Lines)
           /\ FS_OFFSET \in 1..Len(image.lines)
           /\ FsEntry.type \in STRING
<1>1. /\ image.lines \in Seq(Lines)
      /\ image.log \in Seq([at : 1..Len(image.lines), type : STRING])
  BY ImageAssumption
<1>2. Len(image.log) \in 1..Len(image.log)
  BY <1>1, EmptySeq, LenProperties
<1>3. FsEntry \in [at : 1..Len(image.lines), type : STRING]
  BY <1>1, <1>2, ElementOfSeq DEF FsEntry
<1> QED BY <1>1, <1>3 DEF FS_OFFSET

LEMMA HeaderType ==
    ASSUME image \in Images, image.log # <<>>
    PROVE  /\ SubSeq(image.lines, 1, FS_OFFSET) \in Seq(Lines)
           /\ Len(SubSeq(image.lines, 1, FS_OFFSET)) = FS_OFFSET
<1>1. image.lines \in Seq(Lines) /\ FS_OFFSET \in 1..Len(image.lines)
  BY FsInside
<1>2. Len(image.lines) \in Nat
  BY <1>1, LenProperties
<1>3. 1 \in 1..(Len(image.lines) + 1) /\ FS_OFFSET \in (1 - 1)..Len(image.lines)
  BY <1>1, <1>2
<1>4. FS_OFFSET - 1 + 1 = FS_OFFSET
  BY <1>1, <1>2
<1> QED BY <1>1, <1>3, <1>4, Piece

LEMMA FooterType ==
    ASSUME image \in Images
    PROVE  /\ image.lines \in Seq(Lines)
           /\ Len(image.lines) \in Nat
           /\ FOOTER_SIZE(image.lines) \in 0..Len(image.lines)
           /\ FOOTER_FIRST(image.lines) \in 0..Len(image.lines)
           /\ FOOTER_FIRST(image.lines) + FOOTER_SIZE(image.lines) = Len(image.lines)
           /\ SubSeq(image.lines, FOOTER_FIRST(image.lines) + 1, Len(image.lines)) \in Seq(Lines)
           /\ Len(SubSeq(image.lines, FOOTER_FIRST(image.lines) + 1, Len(image.lines)))
                = FOOTER_SIZE(image.lines)
<1> DEFINE s == image.lines
           size == FOOTER_SIZE(s)
           first == FOOTER_FIRST(s)
<1>1. s \in Seq(Lines) /\ Len(s) \in Nat
  BY ImageAssumption, LenProperties
<1>2. size \in 0..Len(s)
  BY <1>1, FooterSize
<1>3. first = Len(s) - size
  BY DEF FOOTER_FIRST
<1> HIDE DEF s, size, first
<1>4. first \in 0..Len(s) /\ first + size = Len(s) /\ Len(s) - (first + 1) + 1 = size
  BY <1>1, <1>2, <1>3
<1>5. first + 1 \in 1..(Len(s) + 1) /\ Len(s) \in ((first + 1) - 1)..Len(s)
  BY <1>1, <1>4
<1>6. /\ SubSeq(s, first + 1, Len(s)) \in Seq(Lines)
      /\ Len(SubSeq(s, first + 1, Len(s))) = size
  BY <1>1, <1>4, <1>5, Piece
<1> QED BY <1>1, <1>2, <1>4, <1>6 DEF s, size, first

-----------------------------------------------------------------------------
(* Type correctness of a step.                                             *)

LEMMA ConfType ==
    ASSUME TypeOK, image \in Images, image.log # <<>>
    PROVE  /\ Sizes \in Confs
           /\ FsEntry.type \in STRING
<1>1. Len(image.lines) \in Nat /\ FOOTER_SIZE(image.lines) \in Nat
  BY FooterType
<1> QED BY <1>1, FsInside DEF Sizes, NoConf, Confs

(* A file that is not missing holds lines.                                 *)
LEMMA FileHoldsLines ==
    ASSUME NEW file \in Files, file # Missing
    PROVE  file \in Seq(Lines)
BY DEF Files

LEMMA MissingType == Missing \in Files /\ Missing \in Outputs /\ NoConf \in Confs
BY DEF Files, Outputs, NoConf, Confs

(* A directory whose log names mkfs has been described in full.            *)
LEMMA MkfsKnown ==
    ASSUME ExtractInv, CONFLOG.MKFS = TRUE
    PROVE  Described /\ complete
<1>1. NoConf.MKFS # TRUE
  <2>1. Missing # TRUE
    BY LineAssumption
  <2> QED BY <2>1 DEF NoConf
<1>2. CONFLOG # NoConf
  BY <1>1
<1> QED BY <1>2 DEF ExtractInv

LEMMA ExtractType ==
    ASSUME KitInv, Extract
    PROVE  TypeOK'
<1> USE DEF Exit, parts, history, Extracting, Building
<1>1. TypeOK /\ ExtractInv
  BY DEF KitInv
<1>2. CASE ExtractStart
  BY <1>1, <1>2 DEF ExtractStart, TypeOK
<1>3. CASE ExtractHeader
  <2>1. CASE image.log = <<>>
    BY <1>1, <1>3, <2>1, MissingType DEF ExtractHeader, RemoveDir, TypeOK
  <2>2. CASE image.log # <<>>
    <3>1. image \in Images
      BY <1>1, <1>3 DEF ExtractInv, ExtractHeader
    <3>2. SubSeq(image.lines, 1, FS_OFFSET) \in Files
      BY <2>2, <3>1, HeaderType DEF Files
    <3> QED BY <1>1, <1>3, <2>2, <3>2 DEF ExtractHeader, TypeOK
  <2> QED BY <2>1, <2>2
<1>4. CASE ExtractFooter
  <2>1. image \in Images
    BY <1>1, <1>4 DEF ExtractInv, ExtractFooter, HeaderKnown
  <2>2. FOOTER_IMAGE' \in Files
    BY <1>4, <2>1, FooterType DEF ExtractFooter, Files
  <2> QED BY <1>1, <1>4, <2>2 DEF ExtractFooter, TypeOK
<1>5. CASE LogSizes
  <2>1. image \in Images /\ image.log # <<>>
    BY <1>1, <1>5 DEF ExtractInv, LogSizes, HeaderKnown
  <2> QED BY <1>1, <1>5, <2>1, ConfType DEF LogSizes, TypeOK
<1>6. CASE LogType
  <2>1. image \in Images /\ image.log # <<>>
    BY <1>1, <1>6 DEF ExtractInv, LogType, Described, HeaderKnown
  <2> QED BY <1>1, <1>6, <2>1, ConfType DEF LogType, TypeOK, Confs
<1>7. CASE Unpack
  <2>1. CASE CONFLOG.FS_TYPE \in Supported
    BY <1>1, <1>7, <2>1 DEF Unpack, TypeOK
  <2>2. CASE CONFLOG.FS_TYPE \notin Supported
    BY <1>1, <1>7, <2>2, MissingType DEF Unpack, RemoveDir, TypeOK
  <2> QED BY <2>1, <2>2
<1>8. CASE LogMkfs
  BY <1>1, <1>8 DEF LogMkfs, TypeOK, Confs
<1> QED BY <1>2, <1>3, <1>4, <1>5, <1>6, <1>7, <1>8 DEF Extract

(* The filler is a run of lines.                                           *)
LEMMA FillerType ==
    ASSUME NEW n \in Nat
    PROVE  [i \in 1..n |-> FF] \in Seq(Lines) /\ Len([i \in 1..n |-> FF]) = n
<1>1. FF \in Lines
  BY LineAssumption
<1> QED BY <1>1, IsASeq, LenProperties

(* What mkfs makes is a file of lines.                                     *)
LEMMA MadeType ==
    ASSUME NEW fs \in NewFs, NEW n \in 0..1
    PROVE  SubSeq(fs, 1, Len(fs) - n) \in Seq(Lines)
<1>1. fs \in Seq(Lines) /\ fs # <<>>
  BY NewFsAssumption
<1>2. Len(fs) \in Nat \ {0}
  BY <1>1, EmptySeq, LenProperties
<1>3. 1 \in 1..(Len(fs) + 1) /\ Len(fs) - n \in (1 - 1)..Len(fs)
  BY <1>2
<1> QED BY <1>1, <1>3, Piece

LEMMA BuildType ==
    ASSUME KitInv, Build
    PROVE  TypeOK'
<1> USE DEF Exit, parts, history, Extracting, Building
<1>1. TypeOK /\ ExtractInv /\ BuildInv
  BY DEF KitInv
<1>2. CASE BuildStart
  BY <1>1, <1>2, MissingType DEF BuildStart, CleanUp, TypeOK
<1>3. CASE Mkfs
  <2>1. CASE UNCHANGED <<FSOUT, made>>
    BY <1>1, <1>3, <2>1 DEF Mkfs, TypeOK
  <2>2. ASSUME NEW fs \in NewFs, NEW n \in 0..1,
               FSOUT' = Onto(FSOUT, SubSeq(fs, 1, Len(fs) - n)),
               made' = [lines |-> SubSeq(fs, 1, Len(fs) - n),
                        whole |-> (n = 0 /\ ROOTFS = "whole")]
        PROVE  TypeOK'
    <3>1. SubSeq(fs, 1, Len(fs) - n) \in Seq(Lines)
      BY MadeType
    <3>2. FSOUT' \in Files
      <4>1. FSOUT = Missing
        BY <1>1, <1>3 DEF BuildInv, Mkfs
      <4> QED BY <2>2, <3>1, <4>1 DEF Onto, Files
    <3>3. made' \in Outputs
      BY <2>2, <3>1 DEF Outputs
    <3> QED BY <1>1, <1>3, <3>2, <3>3 DEF Mkfs, TypeOK
  <2> QED BY <1>3, <2>1, <2>2 DEF Mkfs
<1>4. CASE CheckFsout
  BY <1>1, <1>4 DEF CheckFsout, TypeOK
<1>5. CASE CopyHeader
  BY <1>1, <1>5 DEF CopyHeader, TypeOK
<1>6. CASE AppendFs
  <2>1. Described /\ FSOUT \in Seq(Lines) /\ FWOUT = HEADER_IMAGE
    BY <1>1, <1>6, MkfsKnown, FileHoldsLines DEF BuildInv, AppendFs, TypeOK
  <2>2. FWOUT \in Seq(Lines)
    BY <2>1, HeaderType DEF Described, HeaderKnown
  <2>3. FWOUT \o FSOUT \in Files
    BY <2>1, <2>2, ConcatProperties DEF Files
  <2> QED BY <1>1, <1>6, <2>3 DEF AppendFs, TypeOK
<1>7. CASE Fill
  <2>1. FWOUT' \in Files
    <3>1. CASE FWOUT' = FWOUT
      BY <1>1, <3>1 DEF TypeOK
    <3>2. CASE FWOUT' = FWOUT \o [i \in 1..FILLER_SIZE |-> FF] /\ ~(FILLER_SIZE < 0)
      <4>1. Described /\ FSOUT \in Seq(Lines) /\ FWOUT = HEADER_IMAGE \o FSOUT
        BY <1>1, <1>7, MkfsKnown, FileHoldsLines DEF BuildInv, Fill, TypeOK
      <4>2. FWOUT \in Seq(Lines)
        BY <4>1, HeaderType, ConcatProperties DEF Described, HeaderKnown
      <4>3. FILLER_SIZE \in Nat
        <5>1. Len(FWOUT) \in Nat
          BY <4>2, LenProperties
        <5>2. CONFLOG.FW_SIZE \in Nat /\ CONFLOG.FOOTER_SIZE \in Nat
          BY <4>1, FooterType DEF Described, HeaderKnown, SizesKnown
        <5> QED BY <3>2, <5>1, <5>2 DEF FILLER_SIZE
      <4> QED BY <3>2, <4>2, <4>3, FillerType, ConcatProperties DEF Files
    <3> QED BY <1>7, <3>1, <3>2 DEF Fill
  <2> QED BY <1>1, <1>7, <2>1 DEF Fill, TypeOK
<1>8. CASE AppendFooter
  <2>1. FWOUT' \in Files
    <3>1. CASE CONFLOG.FOOTER_SIZE > 0
      <4>1. Described /\ FWOUT \in Seq(Lines)
        BY <1>1, <1>8, MkfsKnown DEF BuildInv, AppendFooter
      <4>2. FOOTER_IMAGE \in Seq(Lines)
        BY <3>1, <4>1, FooterType DEF Described, HeaderKnown, FooterKnown, SizesKnown
      <4> QED BY <1>8, <3>1, <4>1, <4>2, ConcatProperties DEF AppendFooter, Files
    <3>2. CASE ~(CONFLOG.FOOTER_SIZE > 0)
      BY <1>1, <1>8, <3>2 DEF AppendFooter, TypeOK
    <3> QED BY <3>1, <3>2
  <2> QED BY <1>1, <1>8, <2>1 DEF AppendFooter, TypeOK
<1>9. CASE BuildEnd
  BY <1>1, <1>9, MissingType DEF BuildEnd, TypeOK
<1> QED BY <1>2, <1>3, <1>4, <1>5, <1>6, <1>7, <1>8, <1>9 DEF Build

LEMMA NextType ==
    ASSUME KitInv, Next
    PROVE  TypeOK'
<1>1. CASE Interrupt
  BY <1>1 DEF Interrupt, Exit, parts, history, KitInv, TypeOK
<1>2. CASE UserRemovesDir
  BY <1>2, MissingType DEF UserRemovesDir, RemoveDir, KitInv, TypeOK
<1> QED BY <1>1, <1>2, ExtractType, BuildType DEF Next

-----------------------------------------------------------------------------
(* The directory stays described by its log.                               *)

(* A step that leaves the extraction's files alone leaves it described.    *)
ExtractVars == <<image, dir, CONFLOG, parts, complete>>

LEMMA DescribedKept ==
    ASSUME UNCHANGED <<image, CONFLOG, parts>>
    PROVE  /\ HeaderKnown' = HeaderKnown
           /\ FooterKnown' = FooterKnown
           /\ Described' = Described
BY DEF parts, HeaderKnown, FooterKnown, SizesKnown, Described, FS_OFFSET, FsEntry

LEMMA ExtractInvKept ==
    ASSUME TypeOK, ExtractInv, UNCHANGED ExtractVars,
           pc' \in {"idle"} \cup Building,
           pc' \in Building => dir /\ report' = "none"
    PROVE  ExtractInv'
<1>1. Described' = Described
  BY DescribedKept DEF ExtractVars
<1> QED BY <1>1 DEF ExtractInv, ExtractVars, Extracting, Building

LEMMA ExtractInvExtract ==
    ASSUME KitInv, Extract
    PROVE  ExtractInv'
<1> USE DEF Exit, parts, history, Extracting, Building
<1>1. TypeOK /\ ExtractInv
  BY DEF KitInv
<1> DEFINE Gone == RemoveDir /\ pc' = "idle"
<1>2. ASSUME Gone PROVE ExtractInv'
  <2>1. NoConf.MKFS # TRUE
    <3>1. Missing # TRUE
      BY LineAssumption
    <3> QED BY <3>1 DEF NoConf
  <2> QED BY <1>2, <2>1 DEF RemoveDir, ExtractInv
<1>3. CASE ExtractStart
  <2>1. CASE dir
    <3>1. UNCHANGED ExtractVars /\ pc' = "idle"
      BY <1>3, <2>1 DEF ExtractStart, ExtractVars
    <3> QED BY <1>1, <3>1, ExtractInvKept
  <2>2. CASE ~dir
    <3>1. CONFLOG' = NoConf
      BY <1>1, <1>3, <2>2 DEF ExtractStart, ExtractInv
    <3>2. NoConf' = NoConf
      BY DEF NoConf
    <3>3. CONFLOG'.MKFS = TRUE => complete'
      BY <1>1, <1>3, <2>2 DEF ExtractStart, ExtractInv
    <3> QED BY <1>3, <2>2, <3>1, <3>2, <3>3 DEF ExtractStart, ExtractInv
  <2> QED BY <2>1, <2>2
<1>4. CASE ExtractHeader
  <2>1. CASE image.log = <<>>
    BY <1>2, <1>4, <2>1 DEF ExtractHeader
  <2>2. CASE image.log # <<>>
    <3>1. HeaderKnown'
      BY <1>1, <1>4, <2>2 DEF ExtractHeader, ExtractInv, HeaderKnown, FS_OFFSET, FsEntry
    <3>2. CONFLOG' = NoConf
      BY <1>1, <1>4, <2>2 DEF ExtractHeader, ExtractInv
    <3> QED BY <1>1, <1>4, <2>2, <3>1, <3>2 DEF ExtractHeader, ExtractInv
  <2> QED BY <2>1, <2>2
<1>5. CASE ExtractFooter
  <2>1. HeaderKnown'
    BY <1>1, <1>5 DEF ExtractFooter, ExtractInv, HeaderKnown, FS_OFFSET, FsEntry
  <2>2. FooterKnown'
    BY <1>5 DEF ExtractFooter, FooterKnown
  <2>3. CONFLOG' = NoConf
    BY <1>1, <1>5 DEF ExtractFooter, ExtractInv
  <2> QED BY <1>1, <1>5, <2>1, <2>2, <2>3 DEF ExtractFooter, ExtractInv
<1>6. CASE LogSizes
  <2>1. HeaderKnown' /\ FooterKnown'
    BY <1>1, <1>6 DEF LogSizes, ExtractInv, HeaderKnown, FooterKnown, FS_OFFSET, FsEntry
  <2>2. SizesKnown' /\ CONFLOG'.MKFS = Missing
    BY <1>6 DEF LogSizes, Sizes, NoConf, SizesKnown
  <2>3. CONFLOG'.MKFS # TRUE
    BY <2>2, LineAssumption
  <2> QED BY <1>1, <1>6, <2>1, <2>2, <2>3 DEF LogSizes, ExtractInv, Described
<1>7. CASE LogType
  <2>1. HeaderKnown' /\ FooterKnown'
    BY <1>1, <1>7 DEF LogType, ExtractInv, Described, HeaderKnown, FooterKnown, FS_OFFSET, FsEntry
  <2>2. SizesKnown' /\ CONFLOG'.MKFS = CONFLOG.MKFS
    BY <1>1, <1>7 DEF LogType, ExtractInv, Described, SizesKnown, TypeOK, Confs
  <2> QED BY <1>1, <1>7, <2>1, <2>2 DEF LogType, ExtractInv, Described
<1>8. CASE Unpack
  <2>1. CASE CONFLOG.FS_TYPE \in Supported
    <3>1. Described'
      BY <1>1, <1>8, <2>1, DescribedKept DEF Unpack, ExtractInv
    <3> QED BY <1>1, <1>8, <2>1, <3>1 DEF Unpack, ExtractInv
  <2>2. CASE CONFLOG.FS_TYPE \notin Supported
    BY <1>2, <1>8, <2>2 DEF Unpack
  <2> QED BY <2>1, <2>2
<1>9. CASE LogMkfs
  <2>1. HeaderKnown' /\ FooterKnown'
    BY <1>1, <1>9 DEF LogMkfs, ExtractInv, Described, HeaderKnown, FooterKnown, FS_OFFSET, FsEntry
  <2>2. SizesKnown'
    BY <1>1, <1>9 DEF LogMkfs, ExtractInv, Described, SizesKnown, TypeOK, Confs
  <2>3. dir /\ complete'
    BY <1>1, <1>9 DEF LogMkfs, ExtractInv
  <2> QED BY <1>1, <1>9, <2>1, <2>2, <2>3 DEF LogMkfs, ExtractInv, Described
<1> QED BY <1>3, <1>4, <1>5, <1>6, <1>7, <1>8, <1>9 DEF Extract

LEMMA ExtractInvStep ==
    ASSUME KitInv, Next
    PROVE  ExtractInv'
<1> USE DEF Exit, parts, history, Extracting, Building
<1>1. TypeOK /\ ExtractInv
  BY DEF KitInv
<1>2. CASE Build
  <2>1. UNCHANGED ExtractVars
    BY <1>2 DEF Build, ExtractVars, BuildStart, Mkfs, CheckFsout, CopyHeader, AppendFs, Fill,
                AppendFooter, BuildEnd
  <2>2. pc' \in {"idle"} \cup Building
    BY <1>2 DEF Build, BuildStart, Mkfs, CheckFsout, CopyHeader, AppendFs, Fill,
                AppendFooter, BuildEnd
  <2>3. pc' \in Building => dir /\ report' = "none"
    BY <1>1, <1>2 DEF Build, ExtractInv, BuildStart, Mkfs, CheckFsout, CopyHeader, AppendFs, Fill,
                AppendFooter, BuildEnd
  <2> QED BY <1>1, <2>1, <2>2, <2>3, ExtractInvKept
<1>3. CASE Interrupt
  <2>1. UNCHANGED ExtractVars /\ pc' = "idle"
    BY <1>3 DEF Interrupt, ExtractVars
  <2> QED BY <1>1, <2>1, ExtractInvKept
<1>4. CASE UserRemovesDir
  <2>1. NoConf.MKFS # TRUE
    <3>1. Missing # TRUE
      BY LineAssumption
    <3> QED BY <3>1 DEF NoConf
  <2> QED BY <1>4, <2>1 DEF UserRemovesDir, RemoveDir, ExtractInv
<1> QED BY <1>2, <1>3, <1>4, ExtractInvExtract DEF Next

-----------------------------------------------------------------------------
(* The new image grows to the size of the old one and no further.          *)

(* Outside a build, BuildInv only speaks of a saved image.                 *)
LEMMA BuildInvIdle ==
    ASSUME pc' \notin Building, report' # "saved"
    PROVE  BuildInv'
BY DEF BuildInv, Building

LEMMA FillKeeps ==
    ASSUME KitInv, Fill
    PROVE  BuildInv'
<1> DEFINE at == FS_OFFSET
           first == FOOTER_FIRST(image.lines)
           filler == [i \in 1..FILLER_SIZE |-> FF]
<1>1. TypeOK /\ ExtractInv /\ BuildInv
  BY DEF KitInv
<1>2. CASE FILLER_SIZE < 0
  BY <1>2, BuildInvIdle DEF Fill, Exit, Building
<1>3. CASE ~(FILLER_SIZE < 0)
  <2>1. Described /\ FSOUT \in Seq(Lines) /\ FWOUT = HEADER_IMAGE \o FSOUT
    BY <1>1, MkfsKnown, FileHoldsLines DEF BuildInv, Fill, TypeOK
  <2>2. HEADER_IMAGE \in Seq(Lines) /\ Len(HEADER_IMAGE) = at /\ at \in 1..Len(image.lines)
    BY <2>1, HeaderType, FsInside DEF Described, HeaderKnown
  <2>3. /\ FWOUT \in Seq(Lines) /\ Len(FWOUT) = at + Len(FSOUT)
        /\ Len(FSOUT) \in Nat /\ Len(image.lines) \in Nat /\ Len(FWOUT) \in Nat
    <3>1. Len(image.lines) \in Nat
      BY <2>1, FooterType DEF Described, HeaderKnown
    <3>2. Len(FSOUT) \in Nat /\ Len(HEADER_IMAGE) \in Nat
      BY <2>1, <2>2, LenProperties
    <3>3. FWOUT \in Seq(Lines) /\ Len(FWOUT) = Len(HEADER_IMAGE) + Len(FSOUT)
      BY <2>1, <2>2, ConcatProperties
    <3> QED BY <2>2, <3>1, <3>2, <3>3
  <2>4. SubSeq(FWOUT, 1, at) = HEADER_IMAGE
    <3>1. at \in 1..Len(HEADER_IMAGE)
      BY <2>2, <2>3
    <3>2. SubSeq(FWOUT, 1, at) = SubSeq(HEADER_IMAGE, 1, at)
      BY <2>1, <2>2, <3>1, FrontOfConcat
    <3> QED BY <2>2, <3>2, SubSeqFull
  <2>5. FILLER_SIZE = first - Len(FWOUT) /\ first \in Nat /\ FILLER_SIZE \in Nat
    <3>1. /\ first \in 0..Len(image.lines)
          /\ FOOTER_SIZE(image.lines) \in 0..Len(image.lines)
          /\ first + FOOTER_SIZE(image.lines) = Len(image.lines)
      BY <2>1, FooterType DEF Described, HeaderKnown
    <3>2. FILLER_SIZE = Len(image.lines) - Len(FWOUT) - FOOTER_SIZE(image.lines)
      BY <2>1 DEF FILLER_SIZE, Described, SizesKnown
    <3> HIDE DEF first
    <3> QED BY <1>3, <2>3, <3>1, <3>2
  <2>6. /\ FWOUT' \in Seq(Lines)
        /\ Len(FWOUT') <= first /\ Len(FWOUT') >= at
        /\ NEXT_PARAM # "-nopad" => Len(FWOUT') = first
        /\ SubSeq(FWOUT', 1, at) = HEADER_IMAGE
    <3>1. CASE NEXT_PARAM = "-nopad"
      <4>1. FWOUT' = FWOUT
        BY <1>3, <3>1 DEF Fill
      <4> HIDE DEF first, at
      <4> QED BY <2>2, <2>3, <2>4, <2>5, <3>1, <4>1
    <3>2. CASE NEXT_PARAM # "-nopad"
      <4>1. FWOUT' = FWOUT \o filler
        BY <1>3, <3>2 DEF Fill
      <4>2. filler \in Seq(Lines) /\ Len(filler) = FILLER_SIZE
        BY <2>5, FillerType
      <4>3. at \in 1..Len(FWOUT)
        BY <2>2, <2>3
      <4> HIDE DEF first, at, filler
      <4>4. FWOUT' \in Seq(Lines) /\ Len(FWOUT') = Len(FWOUT) + Len(filler)
        BY <2>3, <4>1, <4>2, ConcatProperties
      <4>5. Len(FWOUT') = first /\ Len(FWOUT') >= at
        BY <2>2, <2>3, <2>5, <4>2, <4>3, <4>4
      <4>6. SubSeq(FWOUT', 1, at) = HEADER_IMAGE
        BY <2>3, <2>4, <4>1, <4>2, <4>3, FrontOfConcat
      <4> QED BY <2>5, <4>4, <4>5, <4>6
    <3> QED BY <3>1, <3>2
  <2>7. image' = image /\ HEADER_IMAGE' = HEADER_IMAGE /\ NEXT_PARAM' = NEXT_PARAM
    BY DEF Fill, parts
  <2>8. pc' = "appendFooter" /\ report' # "saved" /\ FSOUT' # Missing /\ CONFLOG'.MKFS = TRUE
    BY <1>1, <1>3 DEF Fill, BuildInv, ExtractInv, Extracting, Building, history
  <2>9. FS_OFFSET' = FS_OFFSET /\ FOOTER_FIRST(image.lines)' = FOOTER_FIRST(image.lines)
    BY <2>7 DEF FS_OFFSET, FsEntry
  <2> QED BY <2>6, <2>7, <2>8, <2>9 DEF BuildInv
<1> QED BY <1>2, <1>3

LEMMA AppendFooterKeeps ==
    ASSUME KitInv, AppendFooter
    PROVE  BuildInv'
<1> DEFINE at == FS_OFFSET
           first == FOOTER_FIRST(image.lines)
           size == FOOTER_SIZE(image.lines)
           len == Len(image.lines)
           foot == SubSeq(image.lines, first + 1, len)
<1>1. TypeOK /\ ExtractInv /\ BuildInv
  BY DEF KitInv
<1>2. Described /\ image.lines \in Seq(Lines) /\ image \in Images
  BY <1>1, MkfsKnown, FooterType DEF BuildInv, AppendFooter, Described, HeaderKnown
<1>3. /\ FWOUT \in Seq(Lines) /\ Len(FWOUT) \in Nat /\ Len(FWOUT) >= at
      /\ SubSeq(FWOUT, 1, at) = SubSeq(image.lines, 1, at)
      /\ Len(FWOUT) <= first
      /\ NEXT_PARAM # "-nopad" => Len(FWOUT) = first
  BY <1>1, <1>2, LenProperties DEF BuildInv, AppendFooter, Described, HeaderKnown
<1>4. /\ at \in 1..len /\ len \in Nat /\ first \in 0..len /\ size \in 0..len
      /\ first + size = len /\ foot \in Seq(Lines) /\ Len(foot) = size
  BY <1>2, FsInside, FooterType DEF Described, HeaderKnown
<1>5. FWOUT' = IF size > 0 THEN FWOUT \o foot ELSE FWOUT
  BY <1>2 DEF AppendFooter, Described, SizesKnown, FooterKnown
<1>6. /\ image' = image /\ NEXT_PARAM' = NEXT_PARAM
      /\ pc' = "finish" /\ FSOUT' # Missing /\ CONFLOG'.MKFS = TRUE
  BY <1>1 DEF AppendFooter, BuildInv
<1>7. FS_OFFSET' = FS_OFFSET /\ FOOTER_FIRST(image.lines)' = FOOTER_FIRST(image.lines)
  BY <1>6 DEF FS_OFFSET, FsEntry
<1> HIDE DEF at, first, size, len, foot
<1>8. /\ Len(FWOUT') <= len
      /\ NEXT_PARAM # "-nopad" => /\ Len(FWOUT') = len
                                  /\ SubSeq(FWOUT', 1, at) = SubSeq(image.lines, 1, at)
                                  /\ SubSeq(FWOUT', first + 1, Len(FWOUT')) = foot
  <2>1. CASE size > 0
    <3>1. FWOUT' = FWOUT \o foot
      BY <1>5, <2>1
    <3>2. Len(FWOUT') = Len(FWOUT) + size
      BY <1>3, <1>4, <3>1, ConcatProperties
    <3>3. SubSeq(FWOUT', 1, at) = SubSeq(FWOUT, 1, at)
      <4>1. at \in 1..Len(FWOUT)
        BY <1>3, <1>4
      <4> QED BY <1>3, <1>4, <3>1, <4>1, FrontOfConcat
    <3>4. SubSeq(FWOUT', Len(FWOUT) + 1, Len(FWOUT) + Len(foot)) = foot
      BY <1>3, <1>4, <3>1, BackOfConcat
    <3>5. Len(FWOUT') <= len /\ (NEXT_PARAM # "-nopad" => Len(FWOUT') = len)
      BY <1>3, <1>4, <3>2
    <3>6. NEXT_PARAM # "-nopad" => SubSeq(FWOUT', first + 1, Len(FWOUT')) = foot
      BY <1>3, <1>4, <3>2, <3>4
    <3> QED BY <1>3, <3>3, <3>5, <3>6
  <2>2. CASE ~(size > 0)
    <3>1. FWOUT' = FWOUT /\ size = 0 /\ first = len /\ foot = <<>>
      <4>1. FWOUT' = FWOUT
        BY <1>5, <2>2
      <4>2. size = 0 /\ first = len
        BY <1>4, <2>2
      <4>3. foot = <<>>
        BY <1>4, <4>2, EmptySeq
      <4> QED BY <4>1, <4>2, <4>3
    <3>2. Len(FWOUT') <= len /\ (NEXT_PARAM # "-nopad" => Len(FWOUT') = len)
      BY <1>3, <1>4, <3>1
    <3>3. NEXT_PARAM # "-nopad" => SubSeq(FWOUT', first + 1, Len(FWOUT')) = foot
      <4>1. ASSUME NEXT_PARAM # "-nopad"
            PROVE  SubSeq(FWOUT', first + 1, Len(FWOUT')) = <<>>
        <5>1. Len(FWOUT') = len /\ first + 1 \in Int /\ len \in Int /\ len < first + 1
          BY <1>4, <3>1, <3>2, <4>1
        <5> QED BY <5>1, SubSeqEmpty
      <4> QED BY <3>1, <4>1
    <3> QED BY <1>3, <3>1, <3>2, <3>3
  <2> QED BY <2>1, <2>2
<1>9. Len(image'.lines) = len /\ (NEXT_PARAM' # "-nopad" => Kept')
  BY <1>6, <1>7, <1>8 DEF Kept, at, first, len, foot
<1> QED BY <1>6, <1>8, <1>9 DEF BuildInv

LEMMA BuildInvBuild ==
    ASSUME KitInv, Build
    PROVE  BuildInv'
<1> USE DEF Exit, parts, history
<1>1. TypeOK /\ ExtractInv /\ BuildInv
  BY DEF KitInv
<1>2. CASE BuildStart
  BY <1>2 DEF BuildStart, CleanUp, BuildInv
<1>3. CASE Mkfs
  <2>1. report' = "none" /\ pc' = "check"
    BY <1>1, <1>3 DEF Mkfs, ExtractInv, Building
  <2>2. FSOUT' # Missing => CONFLOG'.MKFS = TRUE
    BY <1>1, <1>3 DEF Mkfs, BuildInv
  <2> QED BY <2>1, <2>2 DEF BuildInv
<1>4. CASE CheckFsout
  <2>1. report' # "saved"
    BY <1>1, <1>4 DEF CheckFsout, ExtractInv, Building
  <2>2. pc' = "idle" \/ (pc' = "header" /\ FSOUT # Missing)
    BY <1>4 DEF CheckFsout
  <2> QED BY <1>1, <1>4, <2>1, <2>2 DEF CheckFsout, BuildInv
<1>5. CASE CopyHeader
  <2>1. report' # "saved"
    BY <1>1, <1>5 DEF CopyHeader, ExtractInv, Building
  <2> QED BY <1>1, <1>5, <2>1 DEF CopyHeader, BuildInv
<1>6. CASE AppendFs
  <2>1. report' # "saved"
    BY <1>1, <1>6 DEF AppendFs, ExtractInv, Building
  <2> QED BY <1>1, <1>6, <2>1 DEF AppendFs, BuildInv
<1>7. CASE Fill
  BY <1>7, FillKeeps
<1>8. CASE AppendFooter
  BY <1>8, AppendFooterKeeps
<1>9. CASE BuildEnd
  <2>1. image' = image /\ FWOUT' = FWOUT /\ NEXT_PARAM' = NEXT_PARAM /\ pc' = "idle"
    BY <1>9 DEF BuildEnd
  <2>2. Kept' = Kept
    BY <2>1 DEF Kept, FS_OFFSET, FsEntry
  <2> QED BY <1>1, <1>9, <2>1, <2>2 DEF BuildEnd, BuildInv
<1> QED BY <1>2, <1>3, <1>4, <1>5, <1>6, <1>7, <1>8, <1>9 DEF Build

LEMMA BuildInvStep ==
    ASSUME KitInv, Next
    PROVE  BuildInv'
<1>1. CASE Extract
  <2>1. pc' \notin Building
    BY <1>1 DEF Extract, Building, Exit, ExtractStart, ExtractHeader, ExtractFooter, LogSizes,
                LogType, Unpack, LogMkfs
  <2>2. report' # "saved"
    BY <1>1 DEF Extract, KitInv, ExtractInv, Extracting, Exit, ExtractStart, ExtractHeader,
                ExtractFooter, LogSizes, LogType, Unpack, LogMkfs
  <2> QED BY <2>1, <2>2, BuildInvIdle
<1>2. CASE Build
  BY <1>2, BuildInvBuild
<1>3. CASE Interrupt
  BY <1>3, BuildInvIdle DEF Interrupt, Exit, Building
<1>4. CASE UserRemovesDir
  BY <1>4, BuildInvIdle DEF UserRemovesDir, Building
<1> QED BY <1>1, <1>2, <1>3, <1>4 DEF Next

-----------------------------------------------------------------------------
(* The new image is made of this build's file system and nothing else new. *)

LEMMA MadeInvIdle ==
    ASSUME pc' \notin Building, report' # "saved"
    PROVE  MadeInv'
BY DEF MadeInv, Building

LEMMA MadeIsLines ==
    ASSUME TypeOK, made # Missing
    PROVE  made.lines \in Seq(Lines) /\ Len(made.lines) \in Nat
<1>1. made \in [lines : Seq(Lines), whole : BOOLEAN]
  BY DEF TypeOK, Outputs
<1> QED BY <1>1, LenProperties

(* There was no output of an earlier build to append to.                   *)
LEMMA MadeByMkfs ==
    ASSUME KitInv, Mkfs
    PROVE  MadeInv'
<1>1. FSOUT = Missing /\ report' = "none" /\ pc' = "check"
  BY DEF KitInv, BuildInv, ExtractInv, Building, Mkfs
<1>2. CASE UNCHANGED <<FSOUT, made>>
  BY <1>1, <1>2 DEF MadeInv
<1>3. ASSUME NEW fs \in NewFs, NEW n \in 0..1,
             FSOUT' = Onto(FSOUT, SubSeq(fs, 1, Len(fs) - n)),
             made' = [lines |-> SubSeq(fs, 1, Len(fs) - n),
                      whole |-> (n = 0 /\ ROOTFS = "whole")]
      PROVE  MadeInv'
  <2>1. made' \in [lines : Seq(Lines), whole : BOOLEAN]
    BY <1>3, MadeType
  <2>2. made' # Missing
    BY <2>1, MissingAssumption
  <2>3. FSOUT' = made'.lines
    BY <1>1, <1>3 DEF Onto
  <2> QED BY <1>1, <2>2, <2>3 DEF MadeInv
<1> QED BY <1>2, <1>3 DEF Mkfs

(* The filler makes up for what the new file system is shorter, or nothing.*)
LEMMA MadeByFill ==
    ASSUME KitInv, Fill
    PROVE  MadeInv'
<1> DEFINE at == FS_OFFSET
           first == FOOTER_FIRST(image.lines)
<1>1. TypeOK /\ ExtractInv /\ BuildInv /\ MadeInv
  BY DEF KitInv
<1>2. CASE FILLER_SIZE < 0
  BY <1>2, MadeInvIdle DEF Fill, Exit, Building
<1>3. CASE ~(FILLER_SIZE < 0)
  <2>1. /\ Described /\ CONFLOG.MKFS = TRUE /\ made # Missing /\ FSOUT = made.lines
        /\ FWOUT = HEADER_IMAGE \o made.lines
    BY <1>1, MkfsKnown DEF BuildInv, MadeInv, Fill
  <2>2. made.lines \in Seq(Lines) /\ Len(made.lines) \in Nat
    BY <1>1, <2>1, MadeIsLines
  <2>3. HEADER_IMAGE \in Seq(Lines) /\ Len(HEADER_IMAGE) = at /\ at \in Nat
    <3>1. image.lines \in Seq(Lines) /\ at \in 1..Len(image.lines)
      BY <2>1, FsInside DEF Described, HeaderKnown
    <3>2. Len(image.lines) \in Nat
      BY <3>1, LenProperties
    <3> QED BY <2>1, <3>1, <3>2, HeaderType DEF Described, HeaderKnown
  <2>4. FWOUT \in Seq(Lines) /\ Len(FWOUT) = at + Len(made.lines)
    BY <2>1, <2>2, <2>3, ConcatProperties
  <2>5. FILLER_SIZE = first - at - Len(made.lines) /\ FILLER_SIZE \in Nat
    <3>1. /\ first \in 0..Len(image.lines) /\ Len(image.lines) \in Nat
          /\ FOOTER_SIZE(image.lines) \in 0..Len(image.lines)
          /\ first + FOOTER_SIZE(image.lines) = Len(image.lines)
      BY <2>1, FooterType DEF Described, HeaderKnown
    <3>2. FILLER_SIZE = Len(image.lines) - Len(FWOUT) - FOOTER_SIZE(image.lines)
      BY <2>1 DEF FILLER_SIZE, Described, SizesKnown
    <3> DEFINE m == Len(made.lines)
               size == FOOTER_SIZE(image.lines)
    <3>3. m \in Nat /\ at \in Nat /\ Len(FWOUT) = at + m
      BY <2>2, <2>3, <2>4
    <3>4. size \in Int /\ Len(image.lines) - size = first
      BY <3>1
    <3> HIDE DEF first, at, m, size
    <3>5. FILLER_SIZE = first - at - m
      BY <3>1, <3>2, <3>3, <3>4 DEF size
    <3>6. FILLER_SIZE \in Nat
      BY <1>3, <3>1, <3>3, <3>5
    <3> QED BY <3>5, <3>6 DEF m
  <2>6. /\ image' = image /\ HEADER_IMAGE' = HEADER_IMAGE /\ NEXT_PARAM' = NEXT_PARAM
        /\ made' = made /\ CONFLOG' = CONFLOG /\ pc' = "appendFooter" /\ report' # "saved"
    BY <1>1, <1>3 DEF Fill, ExtractInv, Building, parts, history
  <2>7. Padding' = Padding /\ Padding \in Nat
    <3>1. FS_OFFSET' = FS_OFFSET
      BY <2>6 DEF FS_OFFSET, FsEntry
    <3>2. Padding' = Padding
      BY <2>6, <3>1 DEF Padding
    <3> QED BY <2>5, <3>2 DEF Padding
  <2>8. FWOUT' = FWOUT \o Filler(Padding)
    <3>1. CASE NEXT_PARAM = "-nopad"
      <4>1. FWOUT' = FWOUT /\ Padding = 0
        BY <1>3, <3>1 DEF Fill, Padding
      <4>2. Filler(0) = <<>>
        BY FillerType, EmptySeq DEF Filler
      <4> QED BY <2>4, <4>1, <4>2, ConcatEmptySeq
    <3>2. CASE NEXT_PARAM # "-nopad"
      BY <1>3, <2>5, <3>2 DEF Fill, Padding, Filler
    <3> QED BY <3>1, <3>2
  <2>9. FWOUT' = Padded'
    BY <2>1, <2>6, <2>7, <2>8 DEF Padded, Filler
  <2> QED BY <2>1, <2>6, <2>7, <2>9 DEF MadeInv
<1> QED BY <1>2, <1>3

LEMMA MadeByAppendFooter ==
    ASSUME KitInv, AppendFooter
    PROVE  MadeInv'
<1>1. TypeOK /\ ExtractInv /\ BuildInv /\ MadeInv
  BY DEF KitInv
<1>2. /\ made # Missing /\ CONFLOG.MKFS = TRUE /\ Padding \in Nat /\ FWOUT = Padded
      /\ Described /\ FWOUT \in Seq(Lines)
  BY <1>1, MkfsKnown DEF MadeInv, BuildInv, AppendFooter
<1>3. /\ image' = image /\ HEADER_IMAGE' = HEADER_IMAGE /\ NEXT_PARAM' = NEXT_PARAM
      /\ made' = made /\ CONFLOG' = CONFLOG /\ pc' = "finish" /\ report' # "saved"
  BY <1>1 DEF AppendFooter, ExtractInv, Building, parts, history
<1>4. FS_OFFSET' = FS_OFFSET
  BY <1>3 DEF FS_OFFSET, FsEntry
<1>5. Padding' = Padding
  BY <1>3, <1>4 DEF Padding
<1>6. Padded' = Padded /\ Footer' = Footer
  BY <1>3, <1>5 DEF Padded, Footer, Filler
<1>7. FWOUT' = FWOUT \o Footer
  <2>1. /\ FOOTER_SIZE(image.lines) \in Nat /\ Footer \in Seq(Lines)
        /\ Len(Footer) = FOOTER_SIZE(image.lines)
        /\ CONFLOG.FOOTER_SIZE = FOOTER_SIZE(image.lines)
    <3>1. /\ FOOTER_SIZE(image.lines) \in 0..Len(image.lines) /\ Len(image.lines) \in Nat
          /\ Footer \in Seq(Lines) /\ Len(Footer) = FOOTER_SIZE(image.lines)
      BY <1>2, FooterType DEF Described, HeaderKnown, Footer
    <3> QED BY <1>2, <3>1 DEF Described, SizesKnown
  <2>2. CASE FOOTER_SIZE(image.lines) > 0
    BY <1>2, <2>1, <2>2 DEF AppendFooter, Described, FooterKnown, Footer
  <2>3. CASE ~(FOOTER_SIZE(image.lines) > 0)
    <3>1. Footer = <<>>
      BY <2>1, <2>3, EmptySeq
    <3>2. FWOUT' = FWOUT
      BY <2>1, <2>3 DEF AppendFooter
    <3> QED BY <1>2, <3>1, <3>2, ConcatEmptySeq
  <2> QED BY <2>2, <2>3
<1> QED BY <1>2, <1>3, <1>5, <1>6, <1>7 DEF MadeInv

LEMMA MadeInvBuild ==
    ASSUME KitInv, Build
    PROVE  MadeInv'
<1> USE DEF Exit, parts, history
<1>1. TypeOK /\ ExtractInv /\ BuildInv /\ MadeInv
  BY DEF KitInv
<1>2. CASE BuildStart
  <2>1. report' # "saved" /\ pc' \in {"idle", "mkfs"}
    BY <1>2 DEF BuildStart
  <2> QED BY <2>1 DEF MadeInv
<1>3. CASE Mkfs
  BY <1>3, MadeByMkfs
<1>4. CASE CheckFsout
  <2>1. report' # "saved"
    BY <1>1, <1>4 DEF CheckFsout, ExtractInv, Building
  <2> QED BY <1>1, <1>4, <2>1 DEF CheckFsout, MadeInv
<1>5. CASE CopyHeader
  <2>1. report' # "saved"
    BY <1>1, <1>5 DEF CopyHeader, ExtractInv, Building
  <2> QED BY <1>1, <1>5, <2>1 DEF CopyHeader, MadeInv
<1>6. CASE AppendFs
  <2>1. report' # "saved"
    BY <1>1, <1>6 DEF AppendFs, ExtractInv, Building
  <2> QED BY <1>1, <1>6, <2>1 DEF AppendFs, MadeInv
<1>7. CASE Fill
  BY <1>7, MadeByFill
<1>8. CASE AppendFooter
  BY <1>8, MadeByAppendFooter
<1>9. CASE BuildEnd
  <2>1. /\ image' = image /\ HEADER_IMAGE' = HEADER_IMAGE /\ NEXT_PARAM' = NEXT_PARAM
        /\ made' = made /\ CONFLOG' = CONFLOG /\ pc' = "idle" /\ FWOUT' = FWOUT
    BY <1>9 DEF BuildEnd
  <2>2. FS_OFFSET' = FS_OFFSET
    BY <2>1 DEF FS_OFFSET, FsEntry
  <2>3. Padding' = Padding
    BY <2>1, <2>2 DEF Padding
  <2>4. Padded' = Padded /\ Footer' = Footer
    BY <2>1, <2>3 DEF Padded, Footer, Filler
  <2> QED BY <1>1, <1>9, <2>1, <2>3, <2>4 DEF BuildEnd, MadeInv
<1> QED BY <1>2, <1>3, <1>4, <1>5, <1>6, <1>7, <1>8, <1>9 DEF Build

LEMMA MadeInvStep ==
    ASSUME KitInv, Next
    PROVE  MadeInv'
<1>1. CASE Extract
  <2>1. pc' \notin Building
    BY <1>1 DEF Extract, Building, Exit, ExtractStart, ExtractHeader, ExtractFooter, LogSizes,
                LogType, Unpack, LogMkfs
  <2>2. report' # "saved"
    BY <1>1 DEF Extract, KitInv, ExtractInv, Extracting, Exit, ExtractStart, ExtractHeader,
                ExtractFooter, LogSizes, LogType, Unpack, LogMkfs
  <2> QED BY <2>1, <2>2, MadeInvIdle
<1>2. CASE Build
  BY <1>2, MadeInvBuild
<1>3. CASE Interrupt
  BY <1>3, MadeInvIdle DEF Interrupt, Exit, Building
<1>4. CASE UserRemovesDir
  BY <1>4, MadeInvIdle DEF UserRemovesDir, Building
<1> QED BY <1>1, <1>2, <1>3, <1>4 DEF Next

(* A saved image, part by part.                                            *)
SavedFacts ==
    /\ image.lines \in Seq(Lines) /\ Len(image.lines) \in Nat
    /\ FS_OFFSET \in 1..Len(image.lines) /\ FS_OFFSET \in Nat \ {0}
    /\ FOOTER_FIRST(image.lines) \in 0..Len(image.lines)
    /\ FOOTER_SIZE(image.lines) \in Nat
    /\ FOOTER_FIRST(image.lines) + FOOTER_SIZE(image.lines) = Len(image.lines)
    /\ HEADER_IMAGE = SubSeq(image.lines, 1, FS_OFFSET)
    /\ HEADER_IMAGE \in Seq(Lines) /\ Len(HEADER_IMAGE) = FS_OFFSET
    /\ made.lines \in Seq(Lines) /\ Len(made.lines) \in Nat
    /\ Padding \in Nat /\ Filler(Padding) \in Seq(Lines) /\ Len(Filler(Padding)) = Padding
    /\ Footer \in Seq(Lines) /\ Len(Footer) = FOOTER_SIZE(image.lines)
    /\ FWOUT = Padded \o Footer
    /\ FWOUT \in Seq(Lines) /\ (NEXT_PARAM # "-nopad" => Len(FWOUT) = Len(image.lines))

LEMMA SavedImage ==
    ASSUME KitInv, report = "saved"
    PROVE  SavedFacts
<1>1. /\ TypeOK /\ Described /\ made # Missing /\ Padding \in Nat /\ FWOUT = Padded \o Footer
      /\ NEXT_PARAM # "-nopad" => Len(FWOUT) = Len(image.lines)
  BY MkfsKnown DEF KitInv, MadeInv, BuildInv, Kept
<1>2. /\ image.lines \in Seq(Lines) /\ Len(image.lines) \in Nat
      /\ FS_OFFSET \in 1..Len(image.lines)
      /\ HEADER_IMAGE = SubSeq(image.lines, 1, FS_OFFSET)
      /\ HEADER_IMAGE \in Seq(Lines) /\ Len(HEADER_IMAGE) = FS_OFFSET
  BY <1>1, FsInside, HeaderType, LenProperties DEF Described, HeaderKnown
<1>3. /\ FOOTER_FIRST(image.lines) \in 0..Len(image.lines)
      /\ FOOTER_SIZE(image.lines) \in 0..Len(image.lines)
      /\ FOOTER_FIRST(image.lines) + FOOTER_SIZE(image.lines) = Len(image.lines)
      /\ Footer \in Seq(Lines) /\ Len(Footer) = FOOTER_SIZE(image.lines)
  BY <1>1, FooterType DEF Described, HeaderKnown, Footer
<1>4. made.lines \in Seq(Lines) /\ Len(made.lines) \in Nat
  BY <1>1, MadeIsLines
<1>5. Filler(Padding) \in Seq(Lines) /\ Len(Filler(Padding)) = Padding
  BY <1>1, FillerType DEF Filler
<1>6. FWOUT \in Seq(Lines)
  BY <1>1, <1>2, <1>3, <1>4, <1>5, ConcatProperties DEF Padded
<1>7. FOOTER_SIZE(image.lines) \in Nat /\ FS_OFFSET \in Nat \ {0}
  BY <1>2, <1>3
<1> QED BY <1>1, <1>2, <1>3, <1>4, <1>5, <1>6, <1>7 DEF SavedFacts

(* A line of a padded image comes from one of its four parts.              *)
LEMMA SavedLine ==
    ASSUME SavedFacts, NEXT_PARAM # "-nopad", NEW i \in 1..Len(image.lines)
    PROVE  FWOUT[i] = IF i <= FS_OFFSET THEN image.lines[i]
                      ELSE IF i <= FS_OFFSET + Len(made.lines) THEN made.lines[i - FS_OFFSET]
                      ELSE IF i <= FOOTER_FIRST(image.lines) THEN FF ELSE image.lines[i]
<1> DEFINE s == image.lines
           at == FS_OFFSET
           m == Len(made.lines)
           first == FOOTER_FIRST(image.lines)
           front == HEADER_IMAGE \o made.lines
<1>1. /\ s \in Seq(Lines) /\ Len(s) \in Nat /\ at \in 1..Len(s) /\ first \in 0..Len(s)
      /\ m \in Nat /\ Padding = first - at - m /\ Padding \in Nat /\ made.lines \in Seq(Lines)
      /\ HEADER_IMAGE = SubSeq(s, 1, at) /\ HEADER_IMAGE \in Seq(Lines) /\ Len(HEADER_IMAGE) = at
      /\ Footer \in Seq(Lines) /\ Len(Footer) = FOOTER_SIZE(s) /\ first + FOOTER_SIZE(s) = Len(s)
      /\ FOOTER_SIZE(s) \in Nat /\ Footer = SubSeq(s, first + 1, Len(s))
      /\ Filler(Padding) \in Seq(Lines) /\ Len(Filler(Padding)) = Padding
      /\ FWOUT = (front \o Filler(Padding)) \o Footer
  BY DEF SavedFacts, Padding, Footer, Padded
<1>2. \A k \in 1..at : HEADER_IMAGE[k] = s[k]
  <2>1. \A k \in 1..at : s[k] \in Lines
    <3>1. 1..at \subseteq 1..Len(s)
      BY <1>1
    <3> QED BY <1>1, <3>1, ElementOfSeq
  <2> HIDE DEF s, at
  <2>2. \A k \in 1..(at - 1 + 1) : SubSeq(s, 1, at)[k] = s[1 + k - 1]
    <3>1. 1 \in Int /\ at \in Int /\ 1 <= at
      BY <1>1
    <3> QED BY <2>1, <3>1, SubSeqProperties
  <2> QED BY <1>1, <2>2
<1>3. \A k \in 1..(Len(s) - first) : Footer[k] = s[first + k]
  <2>1. \A k \in (first + 1)..Len(s) : s[k] \in Lines
    <3>1. (first + 1)..Len(s) \subseteq 1..Len(s)
      BY <1>1
    <3> QED BY <1>1, <3>1, ElementOfSeq
  <2> HIDE DEF s, first
  <2>2. \A k \in 1..(Len(s) - (first + 1) + 1) : SubSeq(s, first + 1, Len(s))[k] = s[first + 1 + k - 1]
    <3>1. CASE first + 1 <= Len(s)
      <4>1. first + 1 \in Int /\ Len(s) \in Int
        BY <1>1
      <4> QED BY <2>1, <3>1, <4>1, SubSeqProperties
    <3>2. CASE ~(first + 1 <= Len(s))
      BY <1>1, <3>2
    <3> QED BY <3>1, <3>2
  <2>3. ASSUME NEW k \in 1..(Len(s) - first)
        PROVE  Footer[k] = s[first + k]
    <3>1. k \in 1..(Len(s) - (first + 1) + 1) /\ first + 1 + k - 1 = first + k
      BY <1>1, <2>3
    <3> QED BY <1>1, <2>2, <3>1
  <2> QED BY <2>3
<1>4. /\ front \in Seq(Lines) /\ Len(front) = at + m
      /\ \A k \in 1..at : front[k] = HEADER_IMAGE[k]
      /\ \A k \in (at + 1)..(at + m) : front[k] = made.lines[k - at]
  <2>1. Joins(front, HEADER_IMAGE, made.lines)
    BY <1>1, Joined
  <2> HIDE DEF s, at, first, front
  <2> QED BY <1>1, <2>1 DEF Joins
<1> DEFINE padded == front \o Filler(Padding)
<1> HIDE DEF s, at, m, first, front
<1>5. /\ padded \in Seq(Lines) /\ Len(padded) = first
      /\ \A k \in 1..(at + m) : padded[k] = front[k]
      /\ \A k \in (at + m + 1)..first : padded[k] = Filler(Padding)[k - (at + m)]
  <2>1. /\ padded \in Seq(Lines) /\ Len(padded) = (at + m) + Padding
        /\ \A k \in 1..(at + m) : padded[k] = front[k]
        /\ \A k \in (at + m + 1)..((at + m) + Padding) : padded[k] = Filler(Padding)[k - (at + m)]
    <3>1. Joins(padded, front, Filler(Padding))
      BY <1>1, <1>4, Joined
    <3> HIDE DEF padded
    <3> QED BY <1>1, <1>4, <3>1 DEF Joins
  <2>2. (at + m) + Padding = first
    BY <1>1
  <2> QED BY <2>1, <2>2
<1> HIDE DEF padded
<1>6. /\ \A k \in 1..first : FWOUT[k] = padded[k]
      /\ \A k \in (first + 1)..Len(s) : FWOUT[k] = Footer[k - first]
  <2>1. /\ \A k \in 1..first : FWOUT[k] = padded[k]
        /\ \A k \in (first + 1)..(first + FOOTER_SIZE(s)) : FWOUT[k] = Footer[k - first]
    <3>1. Joins(FWOUT, padded, Footer)
      BY <1>1, <1>5, Joined DEF padded
    <3> QED BY <1>1, <1>5, <3>1 DEF Joins
  <2> QED BY <1>1, <2>1
<1>7. i \in 1..Len(s) /\ at + m <= first
  <2>1. i \in 1..Len(s)
    BY DEF s
  <2> QED BY <1>1, <2>1
<1>8. CASE i <= at
  <2>1. i \in 1..at /\ i \in 1..(at + m) /\ i \in 1..first
    BY <1>1, <1>7, <1>8
  <2> QED BY <1>2, <1>4, <1>5, <1>6, <1>8, <2>1 DEF s, at, m, first
<1>9. CASE ~(i <= at) /\ i <= at + m
  <2>1. i \in (at + 1)..(at + m) /\ i \in 1..(at + m) /\ i \in 1..first
    BY <1>1, <1>7, <1>9
  <2> QED BY <1>4, <1>5, <1>6, <1>9, <2>1 DEF s, at, m, first
<1>10. CASE ~(i <= at + m) /\ i <= first
  <2>1. /\ i \in (at + m + 1)..first /\ i \in 1..first /\ i - (at + m) \in 1..Padding
        /\ ~(i <= at)
    BY <1>1, <1>7, <1>10
  <2>2. Filler(Padding)[i - (at + m)] = FF
    BY <2>1 DEF Filler
  <2> QED BY <1>5, <1>6, <1>10, <2>1, <2>2 DEF s, at, m, first
<1>11. CASE ~(i <= first)
  <2>1. /\ i \in (first + 1)..Len(s) /\ i - first \in 1..(Len(s) - first) /\ first + (i - first) = i
        /\ ~(i <= at) /\ ~(i <= at + m)
    BY <1>1, <1>7, <1>11
  <2> QED BY <1>3, <1>6, <1>11, <2>1 DEF s, at, m, first
<1> QED BY <1>1, <1>7, <1>8, <1>9, <1>10, <1>11

-----------------------------------------------------------------------------
(* The theorems.                                                           *)

LEMMA KitInvStep ==
    ASSUME KitInv, [Next]_vars
    PROVE  KitInv'
<1>1. CASE Next
  BY <1>1, NextType, ExtractInvStep, BuildInvStep, MadeInvStep DEF KitInv
<1>2. CASE UNCHANGED vars
  <2>1. TypeOK'
    BY <1>2 DEF vars, history, KitInv, TypeOK
  <2>2. Described' = Described /\ HeaderKnown' = HeaderKnown /\ FooterKnown' = FooterKnown
    BY <1>2, DescribedKept DEF vars, parts
  <2>3. ExtractInv'
    BY <1>2, <2>2 DEF vars, history, KitInv, ExtractInv
  <2>4. Kept' = Kept
    BY <1>2 DEF vars, Kept, FS_OFFSET, FsEntry
  <2>5. BuildInv'
    BY <1>2, <2>4 DEF vars, history, KitInv, BuildInv, FS_OFFSET, FsEntry
  <2>6. MadeInv'
    <3>1. Padding' = Padding
      BY <1>2 DEF vars, history, parts, Padding, FS_OFFSET, FsEntry
    <3>2. Padded' = Padded /\ Footer' = Footer
      BY <1>2, <3>1 DEF vars, history, parts, Padded, Footer, Filler
    <3> QED BY <1>2, <3>1, <3>2 DEF vars, history, KitInv, MadeInv
  <2> QED BY <2>1, <2>3, <2>5, <2>6 DEF KitInv
<1> QED BY <1>1, <1>2

LEMMA KitInvInit ==
    ASSUME Init
    PROVE  KitInv
<1>1. TypeOK
  BY MissingType DEF Init, TypeOK
<1>2. ExtractInv
  <2>1. NoConf.MKFS # TRUE
    <3>1. Missing # TRUE
      BY LineAssumption
    <3> QED BY <3>1 DEF NoConf
  <2> QED BY <2>1 DEF Init, ExtractInv, Extracting, Building
<1>3. BuildInv
  BY DEF Init, BuildInv
<1>4. MadeInv
  BY DEF Init, MadeInv
<1> QED BY <1>1, <1>2, <1>3, <1>4 DEF KitInv

(* Whatever images are extracted and built, in whatever order, and wherever*)
(* a script is stopped: the log of the directory describes the image it was*)
(* made from, and a build is where its files say it is.                    *)
THEOREM KitInvariant == Spec => []KitInv
<1>1. Init => KitInv
  BY KitInvInit
<1>2. KitInv /\ [Next]_vars => KitInv'
  BY KitInvStep
<1> QED BY <1>1, <1>2, PTL DEF Spec

(* Every variable holds a value of its kind.                               *)
THEOREM TypeCorrect == Spec => []TypeOK
<1>1. KitInv => TypeOK
  BY DEF KitInv
<1> QED BY <1>1, KitInvariant, PTL

(* build-firmware.sh never saves an image larger than the original.        *)
THEOREM NeverLargerHolds == Spec => []NeverLarger
<1>1. KitInv => NeverLarger
  BY DEF KitInv, BuildInv, NeverLarger
<1> QED BY <1>1, KitInvariant, PTL

(* A padded image has the length, the header and the footer of the one it  *)
(* was made from, whatever file system was put in and whatever             *)
(* extract-firmware.sh took for the footer.                                *)
THEOREM LayoutKeptHolds == Spec => []LayoutKept
<1>1. KitInv => LayoutKept
  BY DEF KitInv, BuildInv, LayoutKept
<1> QED BY <1>1, KitInvariant, PTL

(* A directory whose extraction was interrupted never yields an image.     *)
THEOREM InterruptedIsNotBuiltHolds == Spec => []InterruptedIsNotBuilt
<1>1. KitInv => InterruptedIsNotBuilt
  <2>1. ASSUME KitInv, pc \in Building, FSOUT # Missing
        PROVE  complete
    <3>1. CONFLOG.MKFS = TRUE
      BY <2>1 DEF KitInv, BuildInv, Building
    <3> QED BY <2>1, <3>1, MkfsKnown DEF KitInv
  <2> QED BY <2>1 DEF InterruptedIsNotBuilt
<1> QED BY <1>1, KitInvariant, PTL

(* The file system of a saved image is the one this build made, whole: what*)
(* an earlier or an interrupted build left in the directory is gone before *)
(* mksquashfs could append to it.                                          *)
THEOREM OnlyThisBuildHolds == Spec => []OnlyThisBuild
<1>1. KitInv => OnlyThisBuild
  <2> SUFFICES ASSUME KitInv, report = "saved"
               PROVE  /\ made # Missing
                      /\ SubSeq(FWOUT, 1, FS_OFFSET + Len(made.lines)) = HEADER_IMAGE \o made.lines
                      /\ NEXT_PARAM = "-nopad" =>
                           Len(FWOUT) = FS_OFFSET + Len(made.lines) + FOOTER_SIZE(image.lines)
    BY DEF OnlyThisBuild
  <2>1. made # Missing
    BY DEF KitInv, MadeInv
  <2> DEFINE front == HEADER_IMAGE \o made.lines
             m == Len(made.lines)
             size == FOOTER_SIZE(image.lines)
  <2>2. SavedFacts
    BY SavedImage
  <2>3. /\ front \in Seq(Lines) /\ Len(front) = FS_OFFSET + m
        /\ FS_OFFSET \in Nat \ {0} /\ m \in Nat /\ size \in Nat /\ Padding \in Nat
        /\ Filler(Padding) \in Seq(Lines) /\ Len(Filler(Padding)) = Padding
        /\ Footer \in Seq(Lines) /\ Len(Footer) = size
        /\ FWOUT = (front \o Filler(Padding)) \o Footer
    BY <2>2, ConcatProperties DEF SavedFacts, Padded
  <2> HIDE DEF front, m, size
  <2>4. front \o Filler(Padding) \in Seq(Lines) /\ Len(front \o Filler(Padding)) = Len(front) + Padding
    BY <2>3, ConcatProperties
  <2>5. SubSeq(FWOUT, 1, FS_OFFSET + m) = front
    <3>1. Len(front) \in 1..Len(front \o Filler(Padding)) /\ Len(front) \in 1..Len(front)
      BY <2>3, <2>4
    <3>2. SubSeq(FWOUT, 1, Len(front)) = SubSeq(front, 1, Len(front))
      BY <2>3, <2>4, <3>1, FrontOfConcat
    <3> QED BY <2>3, <3>2, SubSeqFull
  <2>6. NEXT_PARAM = "-nopad" => Len(FWOUT) = FS_OFFSET + m + size
    <3>1. Len(FWOUT) = Len(front \o Filler(Padding)) + Len(Footer)
      BY <2>3, <2>4, ConcatProperties
    <3>2. NEXT_PARAM = "-nopad" => Padding = 0
      BY DEF Padding
    <3> QED BY <2>3, <2>4, <3>1, <3>2
  <2> QED BY <2>1, <2>5, <2>6 DEF front, m, size
<1> QED BY <1>1, KitInvariant, PTL

(* Extract and build are inverse: when the new file system is the original *)
(* one and the footer can be recognised, the padded image is the original  *)
(* line for line.                                                          *)
THEOREM RoundTripHolds == Spec => []RoundTrip
<1>1. KitInv => RoundTrip
  <2> DEFINE s == image.lines
             at == FS_OFFSET
             fs == made.lines
             m == Len(made.lines)
             first == FOOTER_FIRST(image.lines)
  <2> SUFFICES ASSUME KitInv, report = "saved", NEXT_PARAM # "-nopad", Recognisable(s, at, fs)
               PROVE  FWOUT = s
    BY DEF RoundTrip
  <2>1. SavedFacts
    BY SavedImage
  <2>2. PICK n \in 0..(Len(s) - at - m) :
          /\ SubSeq(s, at + 1, at + m + n) = fs \o [i \in 1..n |-> FF]
          /\ \/ SubSeq(s, at + m + n + 1, Len(s)) = <<>>
             \/ /\ n >= 2
                /\ Cardinality({j \in (at + m + n + 1)..Len(s) : Shown(s, j)}) < Window
    BY DEF Recognisable
  <2> DEFINE start == at + m + n
  <2>3. /\ s \in Seq(Lines) /\ Len(s) \in Nat /\ at \in 1..Len(s) /\ first \in 0..Len(s)
        /\ fs \in Seq(Lines) /\ m \in Nat /\ n \in Nat /\ Padding = first - at - m
        /\ Padding \in Nat /\ start \in Nat /\ start <= Len(s) /\ first >= at + m
    <3>1. /\ s \in Seq(Lines) /\ Len(s) \in Nat /\ at \in 1..Len(s) /\ first \in 0..Len(s)
          /\ fs \in Seq(Lines) /\ m \in Nat /\ Padding = first - at - m /\ Padding \in Nat
      BY <2>1 DEF SavedFacts, Padding
    <3> HIDE DEF s, at, fs, m, first
    <3> QED BY <2>2, <3>1
  <2>4. ASSUME NEW i \in 1..Len(s)
        PROVE  FWOUT[i] = IF i <= at THEN s[i]
                          ELSE IF i <= at + m THEN fs[i - at]
                          ELSE IF i <= first THEN FF ELSE s[i]
    BY <2>1, <2>4, SavedLine DEF SavedFacts
  <2>5. ASSUME NEW i \in (at + 1)..start
        PROVE  s[i] = IF i <= at + m THEN fs[i - at] ELSE FF
    <3> DEFINE run == [k \in 1..n |-> FF]
    <3>1. run \in Seq(Lines) /\ Len(run) = n
      BY <2>3, FillerType
    <3>2. /\ \A k \in 1..m : (fs \o run)[k] = fs[k]
          /\ \A k \in (m + 1)..(m + n) : (fs \o run)[k] = run[k - m]
      BY <2>3, <3>1, ConcatProperties
    <3>3. \A k \in 1..(start - (at + 1) + 1) : SubSeq(s, at + 1, start)[k] = s[at + 1 + k - 1]
      <4> HIDE DEF s, at, m
      <4>1. at + 1 \in Int /\ start \in Int /\ at + 1 <= start
        BY <2>3, <2>5
      <4>2. \A k \in (at + 1)..start : s[k] \in Lines
        <5>1. (at + 1)..start \subseteq 1..Len(s)
          BY <2>3
        <5> QED BY <2>3, <5>1, ElementOfSeq
      <4> HIDE DEF start
      <4> QED BY <4>1, <4>2, SubSeqProperties
    <3> HIDE DEF s, at, fs, m, run
    <3>4. i - at \in 1..(start - (at + 1) + 1) /\ at + 1 + (i - at) - 1 = i
      BY <2>3, <2>5
    <3>5. s[i] = (fs \o run)[i - at]
      BY <2>2, <3>3, <3>4 DEF start, run, s, at, fs, m
    <3>6. CASE i <= at + m
      <4>1. i - at \in 1..m
        BY <2>3, <2>5, <3>6
      <4> QED BY <3>2, <3>5, <3>6, <4>1
    <3>7. CASE ~(i <= at + m)
      <4>1. i - at \in (m + 1)..(m + n) /\ (i - at) - m \in 1..n
        BY <2>3, <2>5, <3>7
      <4> QED BY <3>2, <3>5, <3>7, <4>1 DEF run
    <3> QED BY <3>6, <3>7
  <2>6. ASSUME NEW i \in (start + 1)..first
        PROVE  s[i] = FF
    <3>1. CASE SubSeq(s, start + 1, Len(s)) = <<>>
      <4>1. ~(start + 1 <= Len(s))
        <5>1. \A k \in (start + 1)..Len(s) : s[k] \in Lines
          <6>1. (start + 1)..Len(s) \subseteq 1..Len(s)
            BY <2>3
          <6> QED BY <2>3, <6>1, ElementOfSeq
        <5>2. start + 1 \in 1..(Len(s) + 1) /\ Len(s) \in ((start + 1) - 1)..Len(s)
          BY <2>3
        <5>3. Len(SubSeq(s, start + 1, Len(s))) = Len(s) - (start + 1) + 1
          <6> HIDE DEF s, start
          <6> QED BY <2>3, <5>2, Piece
        <5>4. Len(<<>>) = 0
          BY EmptySeq
        <5>5. start \in Nat /\ Len(s) \in Nat /\ 0 = Len(s) - (start + 1) + 1
          BY <2>3, <3>1, <5>3, <5>4
        <5> HIDE DEF s, start
        <5> QED BY <5>5
      <4> QED BY <2>3, <2>6, <4>1
    <3>2. CASE n >= 2 /\ Cardinality({j \in (start + 1)..Len(s) : Shown(s, j)}) < Window
      <4>1. s[start] = FF /\ s[start - 1] = FF
        <5> HIDE DEF s, at, fs, m
        <5>1. /\ start \in (at + 1)..start /\ ~(start <= at + m)
              /\ start - 1 \in (at + 1)..start /\ ~(start - 1 <= at + m)
          BY <2>3, <3>2
        <5> HIDE DEF start
        <5> QED BY <2>5, <5>1
      <4>2. start \in 2..Len(s)
        <5> HIDE DEF s, at, fs, m
        <5> QED BY <2>3, <3>2
      <4> HIDE DEF start
      <4> QED BY <2>3, <3>2, <4>1, <4>2, FillerReachesFooter
    <3> QED BY <2>2, <3>1, <3>2
  <2>7. ASSUME NEW i \in 1..Len(s)
        PROVE  FWOUT[i] = s[i]
    <3> HIDE DEF s, at, fs, m, first
    <3>1. CASE i <= at
      BY <2>4, <3>1
    <3>2. CASE ~(i <= at) /\ i <= at + m
      <4>1. i \in (at + 1)..start
        BY <2>3, <3>2
      <4> QED BY <2>4, <2>5, <3>2, <4>1
    <3>3. CASE ~(i <= at + m) /\ i <= first
      <4>1. i \in (at + 1)..start \/ i \in (start + 1)..first
        BY <2>3, <3>3
      <4>2. ~(i <= at)
        BY <2>3, <3>3
      <4> HIDE DEF start
      <4> QED BY <2>4, <2>5, <2>6, <3>3, <4>1, <4>2
    <3>4. CASE ~(i <= first)
      <4>1. ~(i <= at) /\ ~(i <= at + m)
        BY <2>3, <3>4
      <4> QED BY <2>4, <3>4, <4>1
    <3> QED BY <2>3, <3>1, <3>2, <3>3, <3>4
  <2>8. FWOUT \in Seq(Lines) /\ Len(FWOUT) = Len(s)
    BY <2>1 DEF SavedFacts
  <2> QED BY <2>3, <2>7, <2>8, SeqEqual
<1> QED BY <1>1, KitInvariant, PTL
=============================================================================
