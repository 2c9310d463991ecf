---------------------------- MODULE MCMembership ----------------------------
(* One guest that joins twice with two nicknames, a rival for each of      *)
(* them, and the host.                                                     *)
EXTENDS Membership, TLC

CONSTANTS r1, r2, r3, r4, guest, rival, host, momo, nana, hoho

MCUserOf == (r1 :> guest) @@ (r2 :> guest) @@ (r3 :> rival) @@ (r4 :> host)
MCNicknameOf == (r1 :> momo) @@ (r2 :> nana) @@ (r3 :> momo) @@ (r4 :> nana)
=============================================================================
