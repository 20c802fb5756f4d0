---------------------------- MODULE MCPathPlanner ---------------------------
(* Spellings over the bytes 'A', 'a', 'b' and the two printable bytes that   *)
(* sort just below the slash, '-' and '.'.                                   *)
EXTENDS PathPlanner

Aa == <<65>>
a == <<97>>
b == <<98>>
aDash == <<97, 45>>
aDot == <<97, 46>>

MCArchivePaths == {<<a>>, <<Aa>>, <<a, b>>, <<Aa, b>>, <<Aa, a>>, <<aDash>>, <<a, <<>>, aDot>>,
                   <<<<Dot>>, a>>, <<<<>>>>}
=============================================================================
