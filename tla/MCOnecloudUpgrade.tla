------------------------- MODULE MCOnecloudUpgrade -------------------------
(* Small instances of OnecloudUpgrade: `region` is waited for, `glance` is  *)
(* not; three releases, so that a failed run can be followed by a higher    *)
(* one.                                                                     *)
EXTENDS OnecloudUpgrade

CONSTANTS keystone, region, glance

MCWaitOne == <<region>>
MCWaitTwo == <<keystone, region>>
MCExact == {<<v, v>> : v \in Versions}

\* Release 1 is the candidate "v3.11.9-rc1", release 2 is "v3.11.9":
\* grep -F ":v3.11.9" accepts the image of either.
MCCandidate == MCExact \union {<<2, 1>>}
=============================================================================
