-------------------------- MODULE FileStorageProofs --------------------------
(***************************************************************************)
(* Proofs about the list of files and the search, for any disk, names and  *)
(* directories, any number of files loaded and open:                       *)
(*   StorageTypeOK          open files are in the list and can be opened,  *)
(*   StorageUserPathsFirst  directories of -I go before the built-in ones, *)
(*   StorageLookupsStay     what a name leads to does not change,          *)
(*   StorageReportShowsFile a report shows the file its token is in.       *)
(***************************************************************************)
EXTENDS FileStorage, TLAPS, SequenceTheorems, WellFoundedInduction

-----------------------------------------------------------------------------
(* The ends of sets of indices. *)

LEMMA LessIsInOpToRel ==
  \A a, b \in Nat : a < b => <<a, b>> \in OpToRel(<, Nat)
  BY DEF OpToRel

\* A non-empty set of naturals has a least element.
LEMMA HasLeast ==
  ASSUME NEW S, S \subseteq Nat, S # {}
  PROVE  \E x \in S : \A y \in S : x <= y
<1>1. PICK x \in S : \A y \in S : ~(<<y, x>> \in OpToRel(<, Nat))
  BY NatLessThanWellFounded, WFMin, Zenon
<1>2. ASSUME NEW y \in S PROVE x <= y
  <2>1. ~(y < x)
    BY <1>1, LessIsInOpToRel, Zenon
  <2> QED
    BY <2>1
<1> QED
  BY <1>2

\* A non-empty set of indices has a greatest one.
LEMMA HasGreatest ==
  ASSUME NEW n \in Nat, NEW S, S \subseteq 1..n, S # {}
  PROVE  \E x \in S : \A y \in S : y <= x
<1>0. \A i \in S : i \in Nat /\ n - i \in Nat
  OBVIOUS
<1> DEFINE T == {n - i : i \in S}
<1>1. T \subseteq Nat /\ T # {}
  BY <1>0
<1>2. PICK t \in T : \A u \in T : t <= u
  <2> HIDE DEF T
  <2> QED
    BY <1>1, HasLeast
<1>3. PICK x \in S : t = n - x
  BY <1>2
<1>4. ASSUME NEW y \in S PROVE y <= x
  <2>1. n - y \in T /\ t <= n - y
    BY <1>2
  <2> HIDE DEF T
  <2> QED
    BY <1>0, <1>3, <2>1
<1> QED
  BY <1>4

-----------------------------------------------------------------------------
(* The search through the directories. *)

\* Where the last match is, there the search leads.
LEMMA LastMatch ==
  ASSUME NEW name, NEW dirs \in Seq(Paths), NEW m \in Having(name, dirs),
         \A i \in Having(name, dirs) : i <= m
  PROVE  FromIncludePaths(name, dirs) = dirs[m] \o name
<1> DEFINE H == Having(name, dirs)
<1>1. H \subseteq Nat /\ m \in H /\ \A i \in H : i <= m
  BY DEF Having
<1>2. (CHOOSE i \in H : \A j \in H : j <= i) = m
  <2> DEFINE c == CHOOSE i \in H : \A j \in H : j <= i
  <2>1. c \in H /\ \A j \in H : j <= c
    <3> HIDE DEF H
    <3> QED
      BY <1>1
  <2>2. c <= m /\ m <= c
    BY <2>1
  <2>3. c = m
    <3> HIDE DEF H, c
    <3> QED
      BY <1>1, <2>1, <2>2
  <2> QED
    BY <2>3
<1> QED
  BY <1>2 DEF FromIncludePaths

\* The search finds a file in a directory that is listed, or none has it.
LEMMA FoundInOne ==
  ASSUME NEW name, NEW dirs \in Seq(Paths)
  PROVE  IF Having(name, dirs) = {} THEN FromIncludePaths(name, dirs) = NoPath
         ELSE \E m \in Having(name, dirs) :
                /\ \A i \in Having(name, dirs) : i <= m
                /\ FromIncludePaths(name, dirs) = dirs[m] \o name
<1>1. CASE Having(name, dirs) = {}
  BY <1>1 DEF FromIncludePaths
<1>2. CASE Having(name, dirs) # {}
  <2>1. Having(name, dirs) \subseteq 1..Len(dirs) /\ Len(dirs) \in Nat
    BY DEF Having
  <2>2. PICK m \in Having(name, dirs) : \A i \in Having(name, dirs) : i <= m
    BY <1>2, <2>1, HasGreatest
  <2>3. FromIncludePaths(name, dirs) = dirs[m] \o name
    BY <2>2, LastMatch
  <2> QED
    BY <1>2, <2>2, <2>3
<1> QED
  BY <1>1, <1>2

\* Directories that are added at the end are searched as if they were alone...
LEMMA AddedFirst ==
  ASSUME NEW name, NEW base \in Seq(Paths), NEW more \in Seq(Paths),
         Having(name, more) # {}
  PROVE  FromIncludePaths(name, base \o more) = FromIncludePaths(name, more)
<1> DEFINE all == base \o more
<1>1. /\ all \in Seq(Paths)
      /\ Len(all) = Len(base) + Len(more)
      /\ \A i \in 1..Len(base) : all[i] = base[i]
      /\ \A i \in 1..Len(more) : all[Len(base) + i] = more[i]
  OBVIOUS
<1>2. PICK m \in Having(name, more) :
        /\ \A i \in Having(name, more) : i <= m
        /\ FromIncludePaths(name, more) = more[m] \o name
  BY FoundInOne
<1>3. m \in 1..Len(more) /\ Exists(more[m] \o name)
  BY DEF Having
<1>4. Len(base) + m \in Having(name, all) /\ all[Len(base) + m] = more[m]
  BY <1>1, <1>3 DEF Having
<1>5. ASSUME NEW i \in Having(name, all) PROVE i <= Len(base) + m
  <2>1. i \in 1..(Len(base) + Len(more)) /\ Exists(all[i] \o name)
    BY <1>1 DEF Having
  <2>2. CASE i > Len(base)
    <3>1. i - Len(base) \in 1..Len(more)
      BY <2>1, <2>2
    <3>2. all[i] = more[i - Len(base)]
      BY <1>1, <2>1, <3>1
    <3>3. i - Len(base) \in Having(name, more)
      BY <2>1, <3>1, <3>2 DEF Having
    <3> QED
      BY <1>2, <1>3, <2>1, <3>3
  <2> QED
    BY <1>3, <2>1, <2>2
<1> HIDE DEF all
<1>6. FromIncludePaths(name, all) = all[Len(base) + m] \o name
  BY <1>1, <1>4, <1>5, LastMatch
<1> QED
  BY <1>2, <1>4, <1>6 DEF all

\* ... and change nothing for a name that none of them has.
LEMMA AddedUnlisted ==
  ASSUME NEW name, NEW base \in Seq(Paths), NEW more \in Seq(Paths),
         Having(name, more) = {}
  PROVE  FromIncludePaths(name, base \o more) = FromIncludePaths(name, base)
<1> DEFINE all == base \o more
<1>1. /\ all \in Seq(Paths)
      /\ Len(all) = Len(base) + Len(more)
      /\ \A i \in 1..Len(base) : all[i] = base[i]
      /\ \A i \in 1..Len(more) : all[Len(base) + i] = more[i]
  OBVIOUS
<1>2. ASSUME NEW i \in Having(name, all) PROVE i \in Having(name, base)
  <2>1. i \in 1..(Len(base) + Len(more)) /\ Exists(all[i] \o name)
    BY <1>1 DEF Having
  <2>2. CASE i > Len(base)
    <3>1. i - Len(base) \in 1..Len(more)
      BY <2>1, <2>2
    <3>2. all[i] = more[i - Len(base)]
      BY <1>1, <2>1, <3>1
    <3> QED
      BY <2>1, <3>1, <3>2 DEF Having
  <2> QED
    BY <1>1, <2>1, <2>2 DEF Having
<1>3. ASSUME NEW i \in Having(name, base)
      PROVE  i \in Having(name, all) /\ all[i] = base[i]
  BY <1>1 DEF Having
<1> HIDE DEF all
<1>4. CASE Having(name, base) = {}
  BY <1>1, <1>2, <1>4, FoundInOne DEF all
<1>5. CASE Having(name, base) # {}
  <2>1. PICK m \in Having(name, base) :
          /\ \A i \in Having(name, base) : i <= m
          /\ FromIncludePaths(name, base) = base[m] \o name
    BY <1>5, FoundInOne
  <2>2. FromIncludePaths(name, all) = all[m] \o name
    BY <1>1, <1>2, <1>3, <2>1, LastMatch
  <2> QED
    BY <1>3, <2>1, <2>2 DEF all
<1> QED
  BY <1>4, <1>5

\* The same directories once more at the end change nothing at all.
LEMMA AddedAgain ==
  ASSUME NEW name, NEW base \in Seq(Paths), NEW more \in Seq(Paths)
  PROVE  FromIncludePaths(name, (base \o more) \o more)
           = FromIncludePaths(name, base \o more)
<1>1. base \o more \in Seq(Paths)
  OBVIOUS
<1>2. CASE Having(name, more) = {}
  BY <1>1, <1>2, AddedUnlisted
<1>3. CASE Having(name, more) # {}
  <2>1. FromIncludePaths(name, (base \o more) \o more) = FromIncludePaths(name, more)
    BY <1>1, <1>3, AddedFirst
  <2>2. FromIncludePaths(name, base \o more) = FromIncludePaths(name, more)
    BY <1>3, AddedFirst
  <2> QED
    BY <2>1, <2>2
<1> QED
  BY <1>2, <1>3

-----------------------------------------------------------------------------
(* fs_get_file. *)

LEMMA OneIsSeq ==
  ASSUME NEW S, NEW c \in S
  PROVE  <<c>> \in Seq(S)
  OBVIOUS

LEMMA NilIsPath == NoPath \in Paths
  BY DEF NoPath, Paths

LEMMA FieldsOfFile ==
  ASSUME NEW f \in File
  PROVE  f.name \in Names /\ f.path \in Paths
  BY DEF File

\* What the search finds can be opened.
LEMMA SearchFinds ==
  ASSUME NEW name \in Names, NEW from \in Paths, NEW dirs \in Seq(Paths),
         Search(name, from, dirs) # NoPath
  PROVE  /\ Search(name, from, dirs) \in Paths \ {NoPath}
         /\ Exists(Search(name, from, dirs))
<1>1. name \in Paths /\ name # <<>> /\ Cwd \in Paths
  BY StorageAssumption DEF NoPath
<1>2. from # NoPath /\ InSameDir(name, from) # NoPath
        => InSameDir(name, from) \in Paths /\ Exists(InSameDir(name, from))
  <2>1. ASSUME from # NoPath PROVE Dirname(from) \in Paths
    <3>1. from[1] \in STRING
      BY <2>1 DEF Paths, NoPath
    <3>2. \A c \in STRING : <<c>> \in Paths
      BY OneIsSeq DEF Paths
    <3> QED
      BY <3>1, <3>2, DotAssumption, Zenon DEF Dirname
  <2>2. from # NoPath => Dirname(from) \o name \in Paths
    BY <1>1, <2>1 DEF Paths
  <2> QED
    BY <2>2 DEF InSameDir, IfExists
<1>3. FromIncludePaths(name, dirs) # NoPath
        => /\ FromIncludePaths(name, dirs) \in Paths
           /\ Exists(FromIncludePaths(name, dirs))
  <2>1. ASSUME FromIncludePaths(name, dirs) # NoPath
        PROVE  \E m \in Having(name, dirs) :
                 FromIncludePaths(name, dirs) = dirs[m] \o name
    BY <2>1, FoundInOne DEF FromIncludePaths
  <2>2. \A m \in Having(name, dirs) :
          dirs[m] \o name \in Paths /\ Exists(dirs[m] \o name)
    BY <1>1 DEF Having, Paths
  <2> QED
    BY <2>1, <2>2
<1>4. Relative(name) # NoPath => Relative(name) \in Paths /\ Exists(Relative(name))
  <2>1. Cwd \o name \in Paths
    BY <1>1 DEF Paths
  <2> QED
    BY <2>1 DEF Relative, IfExists
<1> QED
  BY <1>2, <1>3, <1>4 DEF Search

\* All files that are loaded can be opened.
Loadable(fs) == fs \in Seq(File) /\ \A i \in DOMAIN fs : Exists(fs[i].path)

\* What fs_get_file returns is in the list it leaves, with all that was in it.
LEMMA GotIsLoaded ==
  ASSUME NEW name \in Names, NEW from \in Paths, NEW dirs \in Seq(Paths),
         Loadable(files)
  PROVE  /\ Loadable(Loaded(name, from, dirs))
         /\ Range(files) \subseteq Range(Loaded(name, from, dirs))
         /\ Got(name, from, dirs).path # NoPath
              => /\ Got(name, from, dirs) \in File
                 /\ Got(name, from, dirs) \in Range(Loaded(name, from, dirs))
<1> DEFINE g == Got(name, from, dirs)
<1>1. CASE Cached(name) # {}
  <2>1. Cached(name) \subseteq DOMAIN files /\ Cached(name) \subseteq Nat
    BY DEF Cached, Loadable
  <2>2. \E i \in Cached(name) : \A j \in Cached(name) : i <= j
    BY <1>1, <2>1, HasLeast
  <2>3. \E i \in Cached(name) : g = files[i]
    BY <1>1, <2>2 DEF Got
  <2>4. g \in Range(files) /\ g \in File
    BY <2>1, <2>3 DEF Range, Loadable
  <2>5. Loaded(name, from, dirs) = files
    BY <1>1 DEF Loaded
  <2> QED
    BY <2>4, <2>5
<1>2. CASE Cached(name) = {} /\ Search(name, from, dirs) = NoPath
  <2>1. g.path = NoPath /\ Loaded(name, from, dirs) = files
    BY <1>2 DEF Got, Loaded
  <2> QED
    BY <2>1
<1>3. CASE Cached(name) = {} /\ Search(name, from, dirs) # NoPath
  <2>1. g = [name |-> name, path |-> Search(name, from, dirs)]
    BY <1>3 DEF Got
  <2>2. g \in File /\ Exists(g.path)
    BY <1>3, <2>1, SearchFinds DEF File
  <2> DEFINE fs == <<g>> \o files
  <2>3. Loaded(name, from, dirs) = fs
    BY <1>3 DEF Loaded
  <2> HIDE DEF g
  <2>4. /\ fs \in Seq(File)
        /\ DOMAIN fs = 1..(Len(files) + 1)
        /\ fs[1] = g
        /\ \A i \in 1..Len(files) : fs[i + 1] = files[i]
    BY <2>2 DEF Loadable
  <2>5. \A i \in DOMAIN fs : i = 1 \/ (i - 1 \in DOMAIN files /\ fs[i] = files[i - 1])
    <3>1. Len(files) \in Nat /\ DOMAIN files = 1..Len(files)
      BY DEF Loadable
    <3>2. ASSUME NEW i \in DOMAIN fs, i # 1
          PROVE  i - 1 \in 1..Len(files) /\ fs[i] = files[i - 1]
      <4>1. i - 1 \in 1..Len(files) /\ (i - 1) + 1 = i
        BY <2>4, <3>1, <3>2
      <4> QED
        BY <2>4, <4>1
    <3> QED
      BY <3>1, <3>2
  <2>6. Loadable(fs)
    BY <2>2, <2>4, <2>5 DEF Loadable
  <2>7. g \in Range(fs)
    <3>1. 1 \in DOMAIN fs
      BY <2>4 DEF Loadable
    <3> QED
      BY <2>4, <3>1 DEF Range
  <2>8. Range(files) \subseteq Range(fs)
    <3>1. ASSUME NEW i \in DOMAIN files PROVE files[i] \in Range(fs)
      <4>1. i \in 1..Len(files) /\ i + 1 \in DOMAIN fs
        BY <2>4 DEF Loadable
      <4> QED
        BY <2>4, <4>1 DEF Range
    <3> QED
      BY <3>1 DEF Range
  <2> QED
    BY <2>2, <2>3, <2>6, <2>7, <2>8 DEF g
<1> QED
  BY <1>1, <1>2, <1>3

-----------------------------------------------------------------------------
(* The invariant. *)

\* The directories are the built-in ones, until the first main file is started by
\* a mode that knows -I; from then on those of -I stand last.
PathsInv ==
  \/ paths = DefaultPaths /\ (AddsPaths => opened = <<>>)
  \/ AddsPaths /\ \E base \in Seq(Paths) : paths = base \o UserPaths

\* What is open has been loaded.
OpenedInv == /\ opened \in Seq(File)
             /\ \A i \in DOMAIN opened : opened[i] \in Range(files)

StorageInv ==
  /\ Loadable(files)
  /\ OpenedInv
  /\ PathsInv
  /\ todo \in Seq(Names)
  /\ failed \in BOOLEAN

LEMMA PathsAreSeq ==
  ASSUME PathsInv
  PROVE  paths \in Seq(Paths) /\ WithUserPaths \in Seq(Paths)
<1>1. DefaultPaths \in Seq(Paths) /\ UserPaths \in Seq(Paths)
  BY StorageAssumption, Zenon
<1>2. \A a, b \in Seq(Paths) : a \o b \in Seq(Paths)
  OBVIOUS
<1>3. paths \in Seq(Paths)
  BY <1>1, <1>2, Zenon DEF PathsInv
<1> QED
  BY <1>1, <1>2, <1>3, Zenon DEF WithUserPaths

\* ppti_include_file keeps what is open in the list.
LEMMA OpenKeeps ==
  ASSUME NEW name \in Names, NEW dirs \in Seq(Paths),
         Loadable(files), OpenedInv, Open(name, dirs)
  PROVE  Loadable(files') /\ OpenedInv' /\ failed' \in BOOLEAN
<1> DEFINE from == IF opened = <<>> THEN NoPath ELSE opened[1].path
           g == Got(name, from, dirs)
<1>1. from \in Paths
  <2>1. opened # <<>> => opened[1] \in File
    BY DEF OpenedInv
  <2> QED
    BY <2>1, NilIsPath, FieldsOfFile
<1>2. /\ files' = Loaded(name, from, dirs)
      /\ failed' = (g.path = NoPath)
      /\ opened' = IF g.path = NoPath THEN opened ELSE <<g>> \o opened
  BY DEF Open
<1> HIDE DEF from
<1>3. /\ Loadable(files')
      /\ Range(files) \subseteq Range(files')
      /\ g.path # NoPath => g \in File /\ g \in Range(files')
  BY <1>1, <1>2, GotIsLoaded
<1> HIDE DEF g
<1>4. CASE g.path = NoPath
  BY <1>2, <1>3, <1>4 DEF OpenedInv
<1>5. CASE g.path # NoPath
  <2>1. /\ opened' \in Seq(File)
        /\ opened' = <<g>> \o opened
    BY <1>2, <1>3, <1>5 DEF OpenedInv
  <2>2. ASSUME NEW i \in DOMAIN opened' PROVE opened'[i] \in Range(files')
    <3>1. i = 1 \/ (i - 1 \in DOMAIN opened /\ opened'[i] = opened[i - 1])
      BY <2>1 DEF OpenedInv
    <3>2. i = 1 => opened'[i] = g
      BY <2>1 DEF OpenedInv
    <3> QED
      BY <1>3, <1>5, <3>1, <3>2 DEF OpenedInv
  <2> QED
    BY <1>2, <1>3, <2>1, <2>2 DEF OpenedInv
<1> QED
  BY <1>2, <1>3, <1>4, <1>5

LEMMA InvInit ==
  Init => StorageInv
<1> SUFFICES ASSUME Init PROVE StorageInv
  OBVIOUS
<1>1. Loadable(files) /\ OpenedInv
  BY DEF Init, Loadable, OpenedInv
<1>2. PathsInv
  BY DEF Init, PathsInv
<1>3. todo \in Seq(Names) /\ failed \in BOOLEAN
  BY StorageAssumption DEF Init
<1> QED
  BY <1>1, <1>2, <1>3 DEF StorageInv

LEMMA InvNext ==
  StorageInv /\ [Next]_vars => StorageInv'
<1> SUFFICES ASSUME StorageInv, [Next]_vars
             PROVE  StorageInv'
  OBVIOUS
<1> USE DEF StorageInv
<1>1. paths \in Seq(Paths) /\ WithUserPaths \in Seq(Paths)
  BY PathsAreSeq
<1>2. CASE StartFile
  <2>1. /\ Head(todo) \in Names
        /\ Open(Head(todo), WithUserPaths)
        /\ todo' \in Seq(Names)
    BY <1>2 DEF StartFile
  <2>2. PathsInv'
    <3>1. CASE AddsPaths
      BY <1>1, <1>2, <3>1 DEF StartFile, WithUserPaths, PathsInv
    <3>2. CASE ~AddsPaths
      BY <1>2, <3>2 DEF StartFile, WithUserPaths, PathsInv
    <3> QED
      BY <3>1, <3>2
  <2> QED
    BY <1>1, <2>1, <2>2, OpenKeeps
<1>3. ASSUME NEW name \in Names, Include(name) PROVE StorageInv'
  <2>1. PathsInv'
    BY <1>3 DEF Include, PathsInv
  <2>2. Open(name, paths) /\ todo' = todo
    BY <1>3 DEF Include
  <2> QED
    BY <1>1, <2>1, <2>2, OpenKeeps
<1>4. CASE CloseFile
  <2>1. OpenedInv'
    BY <1>4 DEF CloseFile, OpenedInv
  <2>2. PathsInv'
    BY <1>4 DEF CloseFile, PathsInv, OpenedInv
  <2> QED
    BY <1>4, <2>1, <2>2 DEF CloseFile
<1>5. ASSUME NEW i \in DOMAIN opened, Report(opened[i]) PROVE StorageInv'
  <2>1. opened[i].name \in Names /\ NoPath \in Paths
    <3>1. opened[i] \in File
      BY DEF OpenedInv
    <3> QED
      BY <3>1, NilIsPath, FieldsOfFile
  <2>2. /\ files' = Loaded(opened[i].name, NoPath, paths)
        /\ failed' \in BOOLEAN
        /\ UNCHANGED <<paths, opened, todo>>
    BY <1>5 DEF Report
  <2>3. Loadable(files') /\ Range(files) \subseteq Range(files')
    BY <1>1, <2>1, <2>2, GotIsLoaded
  <2> QED
    BY <2>2, <2>3 DEF OpenedInv, PathsInv
<1>6. CASE UNCHANGED vars
  BY <1>6 DEF vars, Loadable, OpenedInv, PathsInv
<1> QED
  BY <1>2, <1>3, <1>4, <1>5, <1>6 DEF Next

\* The invariant holds: the list, the open files and the include paths are built up
\* by fs_get_file and fs_add_include_paths as it says.
THEOREM StorageInvHolds == Spec => []StorageInv
  BY InvInit, InvNext, PTL DEF Spec

\* Files that are open are in the list, and their paths can be opened.
THEOREM StorageTypeOK == Spec => []TypeOK
<1>1. StorageInv => TypeOK
  <2> SUFFICES ASSUME StorageInv PROVE TypeOK
    OBVIOUS
  <2>1. files \in Seq(File) /\ \A f \in Range(files) : Exists(f.path)
    BY DEF StorageInv, Loadable, Range
  <2>2. paths \in Seq(Paths)
    BY PathsAreSeq DEF StorageInv
  <2> QED
    BY <2>1, <2>2 DEF TypeOK, StorageInv, OpenedInv
<1> QED
  BY <1>1, StorageInvHolds, PTL

\* The directories of -I come before the built-in ones.
THEOREM StorageUserPathsFirst == Spec => []UserPathsFirst
<1>1. StorageInv => UserPathsFirst
  <2> SUFFICES ASSUME StorageInv, AddsPaths, opened # <<>>,
                      NEW name \in Names, NEW from \in Froms,
                      Cached(name) = {},
                      from = NoPath \/ InSameDir(name, from) = NoPath,
                      \E i \in DOMAIN UserPaths : Exists(UserPaths[i] \o name)
               PROVE  \E i \in DOMAIN UserPaths :
                        Got(name, from, paths).path = UserPaths[i] \o name
    BY DEF UserPathsFirst
  <2>1. PICK base \in Seq(Paths) : paths = base \o UserPaths
    BY DEF StorageInv, PathsInv
  <2>2. UserPaths \in Seq(Paths) /\ Having(name, UserPaths) # {}
    BY StorageAssumption DEF Having
  <2>3. PICK m \in Having(name, UserPaths) :
          FromIncludePaths(name, UserPaths) = UserPaths[m] \o name
    BY <2>2, FoundInOne
  <2>4. FromIncludePaths(name, paths) = UserPaths[m] \o name
    BY <2>1, <2>2, <2>3, AddedFirst
  <2>5. m \in DOMAIN UserPaths /\ UserPaths[m] \o name # NoPath
    <3>1. m \in DOMAIN UserPaths /\ UserPaths[m] \in Paths
      BY <2>2 DEF Having
    <3>2. name \in Paths /\ name # <<>>
      BY StorageAssumption DEF NoPath
    <3> QED
      BY <3>1, <3>2 DEF Paths, NoPath
  <2>6. Got(name, from, paths).path = FromIncludePaths(name, paths)
    BY <2>4, <2>5 DEF Got, Search
  <2> QED
    BY <2>4, <2>5, <2>6
<1> QED
  BY <1>1, StorageInvHolds, PTL

-----------------------------------------------------------------------------
(* What a name leads to. *)

\* Where no loaded file is spelled like the name, the search decides.
LEMMA SearchDecides ==
  ASSUME NEW name, NEW from, NEW dirs, ~SpelledSo(name)
  PROVE  Got(name, from, dirs).path = Search(name, from, dirs)
<1>1. Cached(name) = {}
  BY DEF Cached, SpelledSo, Range
<1> QED
  BY <1>1 DEF Got

\* No step takes a file from the list.
LEMMA ListGrows ==
  StorageInv /\ [Next]_vars => Range(files) \subseteq Range(files')
<1> SUFFICES ASSUME StorageInv, [Next]_vars
             PROVE  Range(files) \subseteq Range(files')
  OBVIOUS
<1>1. /\ paths \in Seq(Paths) /\ WithUserPaths \in Seq(Paths)
      /\ Loadable(files)
  BY PathsAreSeq DEF StorageInv
<1>2. ASSUME NEW name \in Names, NEW dirs \in Seq(Paths), Open(name, dirs)
      PROVE  Range(files) \subseteq Range(files')
  <2> DEFINE from == IF opened = <<>> THEN NoPath ELSE opened[1].path
  <2>1. from \in Paths
    <3>1. opened # <<>> => opened[1] \in File
      BY DEF StorageInv, OpenedInv
    <3> QED
      BY <3>1, NilIsPath, FieldsOfFile
  <2>2. files' = Loaded(name, from, dirs)
    BY <1>2 DEF Open
  <2> HIDE DEF from
  <2> QED
    BY <1>1, <2>1, <2>2, GotIsLoaded
<1>3. CASE StartFile
  <2>1. Head(todo) \in Names /\ Open(Head(todo), WithUserPaths)
    BY <1>3 DEF StartFile, StorageInv
  <2> QED
    BY <1>1, <1>2, <2>1
<1>4. ASSUME NEW name \in Names, Include(name)
      PROVE  Range(files) \subseteq Range(files')
  BY <1>1, <1>2, <1>4 DEF Include
<1>5. ASSUME NEW i \in DOMAIN opened, Report(opened[i])
      PROVE  Range(files) \subseteq Range(files')
  <2>1. opened[i] \in File
    BY DEF StorageInv, OpenedInv
  <2>2. files' = Loaded(opened[i].name, NoPath, paths)
    BY <1>5 DEF Report
  <2> QED
    BY <1>1, <2>1, <2>2, NilIsPath, FieldsOfFile, GotIsLoaded
<1>6. CASE CloseFile \/ UNCHANGED vars
  BY <1>6 DEF CloseFile, vars
<1> QED
  BY <1>3, <1>4, <1>5, <1>6 DEF Next

\* Once the directories of -I are known, the search of the directories gives the
\* same after every step, though each main file adds them once more.
LEMMA DirectoriesStay ==
  ASSUME StorageInv, [Next]_vars, Len(paths) > Len(DefaultPaths), NEW name
  PROVE  FromIncludePaths(name, paths)' = FromIncludePaths(name, paths)
<1>1. CASE paths' = paths
  BY <1>1 DEF FromIncludePaths, Having
<1>2. CASE paths' # paths
  <2>1. paths' = WithUserPaths
    BY <1>2 DEF Next, StartFile, Include, CloseFile, Report, vars
  <2>2. AddsPaths /\ paths' = paths \o UserPaths
    BY <1>2, <2>1 DEF WithUserPaths
  <2>3. PICK base \in Seq(Paths) : paths = base \o UserPaths
    <3>1. Len(DefaultPaths) \in Nat
      BY StorageAssumption
    <3>2. paths # DefaultPaths
      BY <3>1
    <3> QED
      BY <3>2, Zenon DEF StorageInv, PathsInv
  <2>4. UserPaths \in Seq(Paths)
    BY StorageAssumption
  <2>5. FromIncludePaths(name, paths \o UserPaths) = FromIncludePaths(name, paths)
    BY <2>3, <2>4, AddedAgain
  <2> QED
    BY <2>2, <2>5 DEF FromIncludePaths, Having
<1> QED
  BY <1>1, <1>2

\* A name leads from the same file to the same place for ever, but for the names
\* that are spelled like the path of a loaded file.
THEOREM StorageLookupsStay == Spec => LookupsStay
<1>1. StorageInv /\ [Next]_vars =>
        [Len(paths) > Len(DefaultPaths) =>
           \A name \in Names, from \in Froms :
             \/ SpelledSo(name)'
             \/ Got(name, from, paths)'.path = Got(name, from, paths).path]_vars
  <2> SUFFICES ASSUME StorageInv, [Next]_vars, Len(paths) > Len(DefaultPaths),
                      NEW name \in Names, NEW from \in Froms, ~SpelledSo(name)'
               PROVE  Got(name, from, paths)'.path = Got(name, from, paths).path
    OBVIOUS
  <2>1. ~SpelledSo(name)
    BY ListGrows DEF SpelledSo
  <2>2. Got(name, from, paths).path = Search(name, from, paths)
    BY <2>1, SearchDecides
  <2>3. Got(name, from, paths)'.path = Search(name, from, paths)'
    <3>1. Cached(name)' = {}
      BY DEF Cached, SpelledSo, Range
    <3> QED
      BY <3>1 DEF Got
  <2>4. Search(name, from, paths)' = Search(name, from, paths)
    BY DirectoriesStay DEF Search
  <2> QED
    BY <2>2, <2>3, <2>4
<1> QED
  BY <1>1, StorageInvHolds, PTL DEF Spec, LookupsStay

-----------------------------------------------------------------------------
(* What a report shows. *)

\* Where a file is found that is looked up from nowhere.
Plain(name, dirs) == Search(name, NoPath, dirs)

\* Every file of the list was found beside another of them or where its name leads
\* from nowhere, now that the directories of -I are known.
FoundInv ==
  /\ \A f \in Range(files) : FoundBeside(f) \/ f.path = Plain(f.name, paths)
  /\ files # <<>> /\ AddsPaths => \E base \in Seq(Paths) : paths = base \o UserPaths

\* A step loads a file by a search from nowhere or from a file of the list, through
\* the directories it leaves.
LEMMA StepLoads ==
  ASSUME StorageInv, [Next]_vars, files' # files
  PROVE  \E name \in Names, from \in {NoPath} \cup {g.path : g \in Range(files)} :
           files' = Loaded(name, from, paths')
<1> DEFINE Sources == {NoPath} \cup {g.path : g \in Range(files)}
<1>1. ASSUME NEW name \in Names, Open(name, paths')
      PROVE  \E from \in Sources : files' = Loaded(name, from, paths')
  <2> DEFINE top == IF opened = <<>> THEN NoPath ELSE opened[1].path
  <2>1. files' = Loaded(name, top, paths')
    BY <1>1 DEF Open
  <2>2. top \in Sources
    <3>1. ASSUME opened # <<>> PROVE opened[1] \in Range(files)
      <4>1. 1 \in DOMAIN opened
        BY <3>1 DEF StorageInv, OpenedInv
      <4> QED
        BY <4>1 DEF StorageInv, OpenedInv
    <3> QED
      BY <3>1
  <2> QED
    BY <2>1, <2>2
<1>2. CASE StartFile
  <2>1. Head(todo) \in Names /\ Open(Head(todo), paths')
    BY <1>2 DEF StartFile, StorageInv
  <2> QED
    BY <1>1, <2>1
<1>3. ASSUME NEW name \in Names, Include(name)
      PROVE  \E from \in Sources : files' = Loaded(name, from, paths')
  <2>1. Open(name, paths')
    BY <1>3 DEF Include
  <2> QED
    BY <1>1, <2>1
<1>4. ASSUME NEW i \in DOMAIN opened, Report(opened[i])
      PROVE  \E name \in Names : files' = Loaded(name, NoPath, paths')
  <2>1. opened[i].name \in Names
    BY FieldsOfFile DEF StorageInv, OpenedInv
  <2>2. files' = Loaded(opened[i].name, NoPath, paths')
    BY <1>4 DEF Report
  <2> QED
    BY <2>1, <2>2
<1> QED
  BY <1>2, <1>3, <1>4 DEF Next, CloseFile, vars

\* What such a search adds to the list was found beside the file it started in or
\* where its name leads from nowhere.
LEMMA LoadedFrom ==
  ASSUME Loadable(files), NEW name \in Names, NEW from, NEW dirs,
         NEW f \in Range(Loaded(name, from, dirs)), f \notin Range(files)
  PROVE  \/ from # NoPath /\ f.path = InSameDir(f.name, from)
         \/ f.path = Plain(f.name, dirs)
<1> DEFINE g == [name |-> name, path |-> Search(name, from, dirs)]
           fs == <<g>> \o files
<1>1. Cached(name) = {} /\ Loaded(name, from, dirs) = fs
  BY DEF Loaded, Got
<1>2. f = g
  <2> HIDE DEF g
  <2>1. PICK i \in DOMAIN fs : f = fs[i]
    BY <1>1 DEF Range
  <2>2. i = 1 \/ (i - 1 \in DOMAIN files /\ fs[i] = files[i - 1])
    BY <2>1 DEF Loadable
  <2>3. fs[1] = g
    BY DEF Loadable
  <2> QED
    BY <2>1, <2>2, <2>3 DEF Range
<1> QED
  BY <1>2 DEF Search, Plain

\* Where the directories of -I are known, searching them once more changes nothing.
LEMMA PlainStays ==
  ASSUME [Next]_vars, FoundInv, files # <<>>, NEW name
  PROVE  Plain(name, paths') = Plain(name, paths)
<1>1. CASE paths' = paths
  BY <1>1
<1>2. CASE paths' # paths
  <2>1. AddsPaths /\ paths' = paths \o UserPaths
    BY <1>2 DEF Next, StartFile, Include, CloseFile, Report, vars, WithUserPaths
  <2>2. PICK base \in Seq(Paths) : paths = base \o UserPaths
    BY <2>1 DEF FoundInv
  <2>3. UserPaths \in Seq(Paths)
    BY StorageAssumption
  <2>4. FromIncludePaths(name, paths') = FromIncludePaths(name, paths)
    BY <2>1, <2>2, <2>3, AddedAgain
  <2> QED
    BY <2>4 DEF Plain, Search
<1> QED
  BY <1>1, <1>2

LEMMA FoundNext ==
  StorageInv /\ StorageInv' /\ FoundInv /\ [Next]_vars => FoundInv'
<1> SUFFICES ASSUME StorageInv, StorageInv', FoundInv, [Next]_vars
             PROVE  FoundInv'
  OBVIOUS
<1>1. Range(files) \subseteq Range(files')
  BY ListGrows
<1>2. ASSUME NEW f \in Range(files)
      PROVE  FoundBeside(f)' \/ f.path = Plain(f.name, paths')
  <2>1. files # <<>>
    BY <1>2 DEF Range
  <2>2. FoundBeside(f) => FoundBeside(f)'
    BY <1>1 DEF FoundBeside
  <2>3. Plain(f.name, paths') = Plain(f.name, paths)
    BY <2>1, PlainStays
  <2> QED
    BY <2>2, <2>3 DEF FoundInv
<1>3. ASSUME NEW f \in Range(files'), f \notin Range(files)
      PROVE  FoundBeside(f)' \/ f.path = Plain(f.name, paths')
  <2>1. PICK name \in Names, from \in {NoPath} \cup {g.path : g \in Range(files)} :
          files' = Loaded(name, from, paths')
    BY <1>3, StepLoads
  <2>2. Loadable(files)
    BY DEF StorageInv
  <2>3. \/ from # NoPath /\ f.path = InSameDir(f.name, from)
        \/ f.path = Plain(f.name, paths')
    BY <1>3, <2>1, <2>2, LoadedFrom
  <2> QED
    BY <1>1, <2>1, <2>3 DEF FoundBeside
<1>4. files' # <<>> /\ AddsPaths => \E base \in Seq(Paths) : paths' = base \o UserPaths
  <2> SUFFICES ASSUME files' # <<>>, AddsPaths
               PROVE  \E base \in Seq(Paths) : paths' = base \o UserPaths
    OBVIOUS
  <2>1. paths \in Seq(Paths)
    BY PathsAreSeq DEF StorageInv
  <2>2. CASE StartFile
    BY <2>1, <2>2 DEF StartFile, WithUserPaths
  <2>3. CASE ~StartFile
    <3>1. paths' = paths
      BY <2>3 DEF Next, Include, CloseFile, Report, vars
    <3>2. files # <<>> \/ opened # <<>>
      BY <2>3 DEF Next, Include, CloseFile, Report, vars
    <3>3. opened # <<>> => \E base \in Seq(Paths) : paths = base \o UserPaths
      BY DEF StorageInv, PathsInv
    <3> QED
      BY <3>1, <3>2, <3>3 DEF FoundInv
  <2> QED
    BY <2>2, <2>3
<1> QED
  BY <1>2, <1>3, <1>4 DEF FoundInv, FoundBeside

\* A report shows a line of the file its token is in, but of a file that was found
\* beside another one and of one whose name is spelled like a loaded file's path.
THEOREM StorageReportShowsFile == Spec => []ReportShowsFile
<1>1. Init => FoundInv
  BY DEF Init, FoundInv, Range
<1>2. StorageInv /\ FoundInv => ReportShowsFile
  <2> SUFFICES ASSUME StorageInv, FoundInv, NEW i \in DOMAIN opened,
                      ~FoundBeside(opened[i]), ~SpelledSo(opened[i].name)
               PROVE  Shown(opened[i]).path = opened[i].path
    BY DEF ReportShowsFile
  <2>1. Shown(opened[i]).path = Plain(opened[i].name, paths)
    BY SearchDecides DEF Shown, Plain
  <2>2. opened[i] \in Range(files)
    BY DEF StorageInv, OpenedInv
  <2> QED
    BY <2>1, <2>2 DEF FoundInv
<1> QED
  BY <1>1, <1>2, StorageInvHolds, FoundNext, PTL DEF Spec
=============================================================================
