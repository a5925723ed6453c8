---------------------------- MODULE MCCronPython ----------------------------
(* Packages for checking CronPython.                                       *)
EXTENDS CronPython, TLC

CONSTANTS a, b, c, A, B

Releases == {a, b, c}
Libraries == {A, B}
LibraryOf == a :> A @@ b :> B @@ c :> B

\* a depends on b and twice on c, b on c.
SomeDeps == a :> <<b, c, c>> @@ b :> <<c>> @@ c :> <<>>

TwoFeeds == {<<a>>, <<b, a>>}
=============================================================================
