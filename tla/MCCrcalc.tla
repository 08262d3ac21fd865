------------------------------ MODULE MCCrcalc ------------------------------
(***************************************************************************)
(* Small instance of Crcalc: one image for each kind of header, headers    *)
(* side by side and nested in either order, lengths that do not fit, and a *)
(* log with more headers than are taken.                                   *)
(***************************************************************************)
EXTENDS Crcalc, FiniteSetsExt

(* A checksum in which the place of every cell counts.                     *)
MCChecksum(f) == MapThenSumSet(LAMBDA c : (c + 3) * (c + 3) * (f[c] + c + 1), DOMAIN f) % 9973

Hdr(kind, at, len, sig) == [kind |-> kind, at |-> at, len |-> len, sig |-> sig]
Trx(at, len)       == Hdr("trx", at, len, 0)
Uimage(at, len)    == Hdr("uimage", at, len, 0)
Dlob(at, sig, len) == Hdr("dlob", at, len, sig)
Other(at)          == Hdr("other", at, 0, 0)

MCLogs ==
    { <<Trx(0, 12)>>, <<Uimage(0, 9)>>, <<Dlob(0, 2, 6)>>, <<Other(0)>>, << >>,
      <<Trx(0, 6), Uimage(6, 3)>>,               \* side by side
      <<Uimage(0, 9), Trx(4, 8)>>,               \* nested, outside in
      <<Trx(4, 8), Uimage(0, 9)>>,               \* nested, inside out
      <<Dlob(0, 1, 7), Uimage(6, 3), Other(9)>>,
      <<Uimage(6, 3), Other(3), Dlob(0, 1, 7)>>,
      <<Uimage(0, 11)>>,                         \* two cells beyond the file
      <<Uimage(0, 13)>>,                         \* refused
      <<Trx(0, 14), Uimage(6, 3)>>,              \* refused, and its field zeroed
      <<Other(0), Trx(1, 5), Uimage(6, 3), Trx(6, 6)>> }

MCImages ==
    { [cells |-> <<a, 0, 7, 2, b, 5, 3, 0, 1, a, 6, b>>, log |-> l] :
        a \in {1, 4}, b \in {0, 8}, l \in MCLogs }
=============================================================================
