------------------------------ MODULE MCUnlock ------------------------------
(* Small instances of Unlock for TLC.                                       *)
EXTENDS Unlock

CONSTANTS p1, p2, k1, k2, c1, c2, d1

Nothing == [type |-> "recovery", pw |-> None, dev |-> None, rc |-> None,
            kdf |-> "nil", yk |-> 0]

Password(p) == [Nothing EXCEPT !.type = "password", !.pw = p, !.kdf = "ok"]
YubiKey(k)  == [Nothing EXCEPT !.type = "yubikey", !.dev = k, !.yk = 2]
TwoFactor(p, k) ==
  [Nothing EXCEPT !.type = "password+yubikey", !.pw = p, !.dev = k,
                  !.kdf = "ok", !.yk = 1]
Recovery(c) == [Nothing EXCEPT !.rc = c]

Slot(m, id) == wrapDEK(m, id, d1)

(* Slots changed at rest in a way ParseEnvelope accepts.                    *)
OtherSalt(s) == [s EXCEPT !.meta.rest = "changed"]
OtherType(s) == [s EXCEPT !.meta.type = "password+yubikey"]
OtherYK(s)   == [s EXCEPT !.meta.yk = 3]
OtherYKUnused(s) == [s EXCEPT !.meta.yk = 1]
OtherCost(s) == [s EXCEPT !.meta.kdf = "ok2"]
OtherBytes(s) == [s EXCEPT !.box.intact = FALSE]

(* Primary and backup YubiKey, with a recovery code; passwords before and   *)
(* after a rewrap; a damaged slot before a good one of each kind.           *)
Lists ==
  {<<Slot(TwoFactor(p1, k1), 1), Slot(TwoFactor(p1, k2), 2), Slot(Recovery(c1), 3)>>,
   <<Slot(YubiKey(k1), 1), Slot(YubiKey(k2), 2), Slot(Recovery(c1), 3)>>,
   <<Slot(Password(p1), 1), Slot(Password(p2), 2), Slot(Recovery(c1), 3)>>,
   <<OtherSalt(Slot(Password(p1), 1)), OtherCost(Slot(Password(p1), 2)),
     OtherYKUnused(Slot(Password(p1), 3)), Slot(Password(p1), 4)>>,
   <<OtherType(Slot(Password(p1), 1)), OtherBytes(Slot(Password(p1), 2)),
     Slot(Recovery(c1), 3)>>,
   <<OtherYK(Slot(TwoFactor(p1, k1), 1)), Slot(Recovery(c1), 2)>>,
   <<OtherSalt(Slot(YubiKey(k1), 1)), Slot(YubiKey(k1), 2)>>}

Calls ==
  {<<>>,
   <<Password(p1)>>,
   <<Password(p2), Recovery(c2), Recovery(c1)>>,
   <<TwoFactor(p1, k1), Recovery(c1)>>,
   <<TwoFactor(p2, k1), TwoFactor(p1, k1), Password(p1)>>,
   <<YubiKey(k1), Password(p1), Recovery(c2)>>}
=============================================================================
