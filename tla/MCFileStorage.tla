---------------------------- MODULE MCFileStorage ----------------------------
(* A disk on which one name is found in several places: beside an including    *)
(* file, in a directory of -I, in a built-in directory, in the working         *)
(* directory and in the root.                                                  *)
EXTENDS FileStorage

P1(a) == <<a>>
P2(a, b) == <<a, b>>
Abs(a, b) == <<"", a, b>>

MCCwd == P2("", "w")

MCDisk ==
  {Abs("w", "m"), Abs("w", "c"), <<"", "w", "inc", "a">>, <<"", "w", "inc", "b">>,
   Abs("sys", "a"), Abs("sys", "d"), Abs("opt", "b"), P2("", "c")}

MCNames ==
  {P1("m"), P1("a"), P1("b"), P1("c"), P1("d"), P2("inc", "a"), Abs("opt", "b"), P1("x"), P2("inc", "b")}

MCDefaultPaths == <<P2("", "sys")>>

\* -Iinc -I/opt
MCUserPaths == <<P1("inc"), P2("", "opt")>>

MCMainFiles == <<P1("c"), P1("m")>>
=============================================================================
