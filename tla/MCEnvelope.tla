----------------------------- MODULE MCEnvelope -----------------------------
(* Small instances of Envelope for TLC.                                     *)
EXTENDS Envelope

CONSTANTS p1, p2, k1, k2, c1, d1, d2

Nothing == [type |-> "recovery", pw |-> None, dev |-> None, rc |-> None,
            kdf |-> "nil", yk |-> 0]

Password(p) == [Nothing EXCEPT !.type = "password", !.pw = p, !.kdf = "ok"]
YubiKey(k)  == [Nothing EXCEPT !.type = "yubikey", !.dev = k, !.yk = 2]
TwoFactor(p, k) ==
  [Nothing EXCEPT !.type = "password+yubikey", !.pw = p, !.dev = k,
                  !.kdf = "ok", !.yk = 1]
Recovery(c) == [Nothing EXCEPT !.rc = c]

BadKDF == [Password(p2) EXCEPT !.kdf = "nil"]
BadOTPSlot == [YubiKey(k2) EXCEPT !.yk = 3]
WeakKDF == [Password(p2) EXCEPT !.kdf = "refused"]

(* Password rewraps and recovery codes, with a YubiKey in between; in one   *)
(* list a recovery slot comes between two primaries that differ, and a      *)
(* third primary after them.                                                *)
SwapCallers == {Password(p1), Password(p2), Recovery(c1), YubiKey(k1)}

SwapLists == {<<>>, <<Password(p1)>>, <<Recovery(c1), Password(p2)>>,
              <<Password(p1), Password(p2)>>, <<YubiKey(k1)>>,
              <<YubiKey(k1), Recovery(c1)>>,
              <<YubiKey(k1), Recovery(c1), Password(p1), YubiKey(k1)>>}

(* One method of every type, and methods Enroll refuses; lists of one and   *)
(* of mixed policy (with a recovery slot between two primaries that differ, *)
(* or another primary after them), and one longer than the slot bound.      *)
MixedCallers == {Password(p1), TwoFactor(p1, k1), YubiKey(k1), Recovery(c1),
                 BadOTPSlot, BadKDF, Recovery(None)}

MixedLists == {<<Password(p1)>>, <<TwoFactor(p1, k1)>>,
               <<YubiKey(k1), Recovery(c1)>>,
               <<TwoFactor(p1, k1), Password(p1)>>, <<Recovery(c1)>>,
               <<YubiKey(k1), BadOTPSlot>>,
               <<YubiKey(k1), Recovery(c1), Password(p1)>>,
               <<YubiKey(k1), Password(p1), YubiKey(k1)>>,
               <<YubiKey(k1), Recovery(c1), Recovery(c1)>>}

(* A password method whose KDF parameters are outside the parse bounds.     *)
WeakCallers == {WeakKDF}
WeakLists == {<<WeakKDF>>}
=============================================================================
