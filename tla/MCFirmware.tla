----------------------------- MODULE MCFirmware -----------------------------
(***************************************************************************)
(* Images for FirmwareKit: one for each way a footer can be found or missed*)
(* and each way binwalk's log can end.                                     *)
(***************************************************************************)
EXTENDS FirmwareKit

MCLines == {"head", "a", "b", "foot", "FF"}

Run(n) == [i \in 1..n |-> "FF"]
Image(fs, n, foot, log) == [lines |-> <<"head">> \o fs \o Run(n) \o foot, log |-> log]
At(at, type) == <<[at |-> at, type |-> type]>>

Plain   == <<"a", "b">>
Repeats3 == <<"b", "a", "a", "a">>
Longer  == <<"a", "b", "a", "b", "a">>
Long(n) == [i \in 1..n |-> IF i % 2 = 1 THEN "foot" ELSE "a"]

MCImages == {
    Image(Plain, 3, <<"foot">>, At(1, "squashfs")),     \* filler and a footer
    Image(Plain, 3, <<"foot">>, At(1, "jffs2")),
    Image(Plain, 4, <<>>, At(1, "cramfs")),             \* filler, no footer
    Image(Plain, 0, <<>>, At(1, "yaffs")),              \* no run of lines at all
    Image(Plain, 1, <<"foot">>, At(1, "squashfs")),     \* too short to show as a star
    Image(Repeats3 \o <<"b">>, 2, <<"foot">>, At(1, "squashfs")), \* a run in the file system
    Image(Repeats3, 3, <<"foot", "a">>, At(1, "jffs2")),           \* a run at its end
    Image(Plain, 3, Long(9), At(1, "cramfs")),          \* as long as a footer can be
    Image(Plain, 3, Long(10), At(1, "jffs2")),          \* and one line too long
    Image(Plain \o Plain, 3, <<"foot">>, At(1, "squashfs") \o At(3, "cramfs")),
    Image(Plain, 3, <<"foot">>, At(1, "romfs")),        \* not supported
    Image(Plain, 3, <<"foot">>, <<>>)}                  \* nothing found

(* Unmodified, smaller, larger, and exactly filling some of the images.    *)
MCNewFs == {Plain, <<"b">>, Repeats3, Repeats3 \o <<"b">>, Longer, Longer \o Longer}
=============================================================================
