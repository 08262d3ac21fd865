------------------------------ MODULE WebPages ------------------------------
(***************************************************************************)
(* webdecomp: the pages of a router's web interface lie one after the      *)
(* other in the file www; httpd holds an index of their sizes (and, in the *)
(* old format, offsets). --extract writes the pages into a directory,      *)
(* --restore writes www again from the directory and updates the index.    *)
(*                                                                         *)
(* In the new format every size in the index has a key added to it, which  *)
(* webdecomp works out from the sum of the sizes and the length of www.    *)
(***************************************************************************)
EXTENDS Integers, Sequences

CONSTANTS
    N,          \* entries of the index
    Bytes,      \* what the pages are made of
    Contents,   \* what a user may write into a page: sequences of bytes
    Keys,       \* keys a build of httpd may use
    Parities,   \* what the length of the vendor's pages may be modulo 2
    W,          \* sizes and offsets are counted modulo W, 2^32
    Missing,    \* a page that is not in the directory
    MaxPage     \* the longest page; no extraction that makes a longer one is explored

Entries == 1..N
NUL     == 0

Pages   == {page \in Seq(Bytes) : Len(page) <= MaxPage}

(* An offset can address all of www: it has to fit the flash of a router.  *)
ASSUME WebAssumption ==
    /\ N \in Nat \ {0} /\ W \in Nat \ {0} /\ MaxPage \in Nat
    /\ Keys \subseteq 0..(W - 1) /\ Parities \subseteq {0, 1}
    /\ NUL \in Bytes /\ Contents \subseteq Pages
    /\ Missing \notin Seq(Bytes)
    /\ N * MaxPage < W

VARIABLES
    new, KEY, unsafe,   \* format and key of httpd; entries with ".." in their name
    index,              \* in httpd
    www,
    dirThere, dir,      \* the directory, and the pages in it
    \* the program
    pc, n, total, key,
    hdata,              \* the index in memory
    failed,             \* a page could not be written
    \* history
    wanted,             \* the pages the web interface should show
    fresh,              \* an extraction with the key of httpd was the last thing done
    keyLost,            \* a restore used a wrong key
    broken              \* a restore was broken off, or could not write a page

fixed   == <<new, KEY, unsafe>>
program == <<pc, n, total, key, hdata, failed>>
history == <<wanted, fresh, keyLost, broken>>
vars    == <<fixed, index, www, dirThere, dir, program, history>>

-----------------------------------------------------------------------------
(* Sums and concatenations of the first i entries, for every i.            *)
Sums(f) == LET sum[i \in 0..N] == IF i = 0 THEN 0 ELSE sum[i - 1] + f[i] IN sum
Laid(pages) == LET laid[i \in 0..N] == IF i = 0 THEN << >> ELSE laid[i - 1] \o pages[i] IN laid
Lengths(pages) == [i \in Entries |-> Len(pages[i])]

Padded(s, length) == IF length % 2 # 0 THEN s \o <<NUL>> ELSE s

Concat(pages) == Laid(pages)[N]

(* The index the vendor's build makes for these pages.                     *)
VendorIndex(pages) ==
    [i \in Entries |->
        [size   |-> (Len(pages[i]) + (IF new THEN KEY ELSE 0)) % W,
         offset |-> IF new THEN 0 ELSE Sums(Lengths(pages))[i - 1]]]

Init ==
    /\ new \in BOOLEAN /\ KEY \in Keys
    /\ unsafe \in {{}, {N}}
    /\ wanted \in [Entries -> Contents]
    /\ Len(Concat(wanted)) % 2 \in Parities /\ Concat(wanted) # << >>
    /\ index = VendorIndex(wanted)
    /\ www = Padded(Concat(wanted), Len(Concat(wanted)))
    /\ dirThere = FALSE /\ dir = [i \in Entries |-> Missing]
    /\ pc = "idle" /\ n = 1 /\ total = 0 /\ key = 0 /\ hdata = index /\ failed = FALSE
    /\ fresh = FALSE /\ keyLost = FALSE /\ broken = FALSE

-----------------------------------------------------------------------------
(* next_entry: size and offset of an entry, for a key.                     *)
SizeOf(i, k)   == IF new THEN (index[i].size - k) % W ELSE index[i].size
OffsetOf(i, k) ==
    IF new THEN Sums([j \in Entries |-> SizeOf(j, k)])[i - 1] % W
           ELSE index[i].offset
(* Past the end of www there is nothing to read.                            *)
EndOf(i, k) == LET end == OffsetOf(i, k) + SizeOf(i, k) IN IF end <= Len(www) THEN end ELSE Len(www)
PageAt(i, k) == SubSeq(www, OffsetOf(i, k) + 1, EndOf(i, k))

(* total_size is an int: the sum of the sizes wraps to a negative one.     *)
Signed(x) == IF (x % W) < W \div 2 THEN x % W ELSE (x % W) - W
Surplus == Signed(Sums([j \in Entries |-> index[j].size])[N]) - Len(www)

(* detect_key. The division is unsigned; an empty www cannot be read.      *)
DetectKey == IF www # << >> /\ (Surplus % (W * W)) % N = 0
             THEN ((Surplus % (W * W)) \div N) % W ELSE 0

Within_Short(i, k) == (OffsetOf(i, k) + SizeOf(i, k)) % W < Len(www)
Within(i, k) == (OffsetOf(i, k) + SizeOf(i, k)) % W <= Len(www)

(* Bound: once a restore has used a wrong key, no other run is explored.    *)
Followed == ~keyLost

Extract ==
    /\ pc = "idle" /\ www # << >> /\ Followed
    /\ \A i \in Entries \ unsafe :
          Within(i, DetectKey) => Len(PageAt(i, DetectKey)) <= MaxPage
    /\ dirThere' = TRUE
    /\ dir' = [i \in Entries |-> IF i \notin unsafe /\ Within(i, DetectKey)
                                 THEN PageAt(i, DetectKey) ELSE dir[i]]
    /\ fresh' = (new => DetectKey = KEY)
    /\ UNCHANGED <<fixed, index, www, program, wanted, keyLost, broken>>

(* Somebody edits a page, or removes it.                                   *)
Edit ==
    /\ pc = "idle" /\ dirThere
    /\ \E i \in Entries \ unsafe, c \in Contents \cup {Missing} : dir' = [dir EXCEPT ![i] = c]
    /\ fresh' = FALSE
    /\ UNCHANGED <<fixed, index, www, dirThere, program, wanted, keyLost, broken>>

(* www is opened, and emptied, before the directory is looked for.         *)
RestoreBegin ==
    /\ pc = "idle" /\ Followed
    /\ www' = << >>
    /\ IF dirThere THEN pc' = "restore" /\ key' = DetectKey /\ UNCHANGED broken
                   ELSE broken' = TRUE /\ UNCHANGED <<pc, key>>
    /\ fresh' = FALSE
    /\ UNCHANGED <<fixed, index, dirThere, dir, n, total, hdata, failed, wanted, keyLost>>

(* An empty file cannot be read either, which comes to the same.           *)
Content(i) == IF dir[i] = Missing THEN << >> ELSE dir[i]

NewEntry_NoKey(i) == [size |-> Len(Content(i)), offset |-> total]
NewEntry_Wide(i) ==
    IF new THEN [hdata[i] EXCEPT !.size = Len(Content(i)) + key]
           ELSE [size |-> Len(Content(i)), offset |-> total]
NewEntry_SizeOnly(i) ==
    [hdata[i] EXCEPT !.size = (Len(Content(i)) + (IF new THEN key ELSE 0)) % W]
NewEntry(i) ==
    IF new THEN [hdata[i] EXCEPT !.size = (Len(Content(i)) + key) % W]
           ELSE [size |-> Len(Content(i)), offset |-> total]

(* The size goes to the index also when the page could not be written.     *)
RestoreEntry ==
    /\ pc = "restore" /\ n <= N /\ n' = n + 1
    /\ IF n \in unsafe
       THEN UNCHANGED <<hdata, www, total, failed>>
       ELSE /\ hdata' = [hdata EXCEPT ![n] = NewEntry(n)]
            /\ \/ /\ www' = www \o Content(n) /\ total' = total + Len(Content(n))
                  /\ UNCHANGED failed
               \/ /\ Content(n) # << >>
                  /\ www' = www \o SubSeq(Content(n), 1, Len(Content(n)) - 1)
                  /\ failed' = TRUE
                  /\ UNCHANGED total
    /\ UNCHANGED <<fixed, index, dirThere, dir, pc, key, history>>

(* The variables of a run that has ended: the next one starts from these.  *)
ProgramOver == pc' = "idle" /\ n' = 1 /\ total' = 0 /\ key' = 0 /\ hdata' = index' /\ failed' = FALSE

(* In the old format a restore makes good what a broken one left.          *)
RestoreEnd ==
    /\ pc = "restore" /\ n > N
    /\ www' = Padded(www, total)
    /\ index' = hdata /\ ProgramOver
    /\ wanted' = [i \in Entries |-> IF i \in unsafe THEN wanted[i] ELSE Content(i)]
    /\ keyLost' = (keyLost \/ (new /\ key # KEY))
    /\ broken' = (failed \/ (broken /\ new))
    /\ UNCHANGED <<fixed, dirThere, dir, fresh>>

(* The program is interrupted: the index in httpd is still the old one,    *)
(* and of what went to www a part may not have reached the disk.           *)
BreakOff ==
    /\ pc = "restore"
    /\ \E k \in 0..Len(www) : www' = SubSeq(www, 1, k)
    /\ index' = index /\ ProgramOver
    /\ broken' = TRUE
    /\ UNCHANGED <<fixed, dirThere, dir, wanted, fresh, keyLost>>

Next == Extract \/ Edit \/ RestoreBegin \/ RestoreEntry \/ RestoreEnd \/ BreakOff

Spec == Init /\ [][Next]_vars

-----------------------------------------------------------------------------
(* Properties.                                                             *)

(* Every variable holds a value of its kind.                               *)
TypeOK ==
    /\ new \in BOOLEAN /\ KEY \in Keys /\ unsafe \subseteq Entries
    /\ \A x \in {index, hdata} :
         x \in [Entries -> [size : 0..(W - 1), offset : 0..(W - 1)]]
    /\ www \in Seq(Bytes) /\ wanted \in [Entries -> Pages]
    /\ dirThere \in BOOLEAN /\ dir \in [Entries -> Pages \cup {Missing}]
    /\ pc \in {"idle", "restore"} /\ n \in 1..(N + 1)
    /\ total \in 0..(W - 1) /\ key \in 0..(W - 1)
    /\ {failed, fresh, keyLost, broken} \subseteq BOOLEAN

(* What the web server reads of a page: it knows the key.                  *)
Served(i) == PageAt(i, KEY)

(* A page the order of www does not account for: one that is not restored, *)
(* and in the new format all that follow it.                               *)
Lost(i) == i \in unsafe \/ (new /\ \E j \in unsafe : j <= i)

(* After any number of extractions, edits and restores the web server      *)
(* shows the pages as they were last restored, unless a restore was broken *)
(* off, could not write a page, or took a wrong key.                       *)
ServedIsWanted ==
    pc = "idle" /\ ~broken /\ ~keyLost =>
        \A i \in Entries : Lost(i) \/ Served(i) = wanted[i]

(* An extraction gives back the pages the web server shows, with the same  *)
(* exceptions, when the key it worked out is that of httpd.                *)
FreshIsServed ==
    pc = "idle" /\ fresh /\ ~broken /\ ~keyLost =>
        \A i \in Entries : Lost(i) \/ dir[i] = Served(i)

(* The key is found from any www whose pages have an even length together, *)
(* unless it is so large that the sizes with the key overflow an int.      *)
EvenKeyFound ==
    LET length == Sums(Lengths(wanted))[N] IN
    pc = "idle" /\ ~broken /\ ~keyLost /\ new /\ unsafe = {} /\ www # << >>
    /\ length % 2 = 0 /\ N * KEY + length < W \div 2
        => DetectKey = KEY

-----------------------------------------------------------------------------
(* What makes the properties above inductive.                              *)

(* www and the index hold these pages; an index entry that is not restored *)
(* may say anything.                                                       *)
LaidOut(pages) ==
    /\ www = Padded(Concat(pages), Len(Concat(pages)))
    /\ \A i \in Entries \ unsafe :
          /\ index[i].size = (Len(pages[i]) + (IF new THEN KEY ELSE 0)) % W
          /\ new \/ index[i].offset = Sums(Lengths(pages))[i - 1]

(* Without the pages that are not restored, which the vendor's www has.    *)
Kept     == [i \in Entries |-> IF i \in unsafe THEN << >> ELSE wanted[i]]
Restored == [i \in Entries |-> IF i \in unsafe THEN << >> ELSE Content(i)]

(* Between two runs, www and the index agree about the pages.              *)
IdleInv ==
    pc = "idle" =>
        /\ n = 1 /\ total = 0 /\ ~failed
        /\ ~broken /\ ~keyLost => LaidOut(wanted) \/ LaidOut(Kept)

(* During a restore, www and the index in memory agree about the entries   *)
(* before n; a page that could not be written makes total and www differ.  *)
RestoreInv ==
    pc = "restore" =>
        /\ ~fresh
        /\ total <= Sums(Lengths(Restored))[n - 1]
        /\ ~failed => www = Laid(Restored)[n - 1] /\ total = Len(www)
        /\ \A i \in Entries \ unsafe : i < n =>
              /\ hdata[i].size = (Len(Restored[i]) + (IF new THEN key ELSE 0)) % W
              /\ new \/ failed \/ hdata[i].offset = Sums(Lengths(Restored))[i - 1]

WebInv == TypeOK /\ IdleInv /\ RestoreInv /\ FreshIsServed

-----------------------------------------------------------------------------
(* What a comment says, and the code does not keep.                        *)

(* "This should always be evenly divisble." (webdecomp.c:194): what the    *)
(* sizes in the index add up to beyond the length of www, by the number of *)
(* entries, in the new format and when no restore was broken off.          *)
EvenlyDivisible == pc = "idle" /\ new /\ ~broken /\ unsafe = {} => Surplus % N = 0
=============================================================================
