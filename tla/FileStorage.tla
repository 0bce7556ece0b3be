----------------------------- MODULE FileStorage -----------------------------
(***************************************************************************)
(* The list of loaded files and the search for them (file_storage.c), with *)
(* those that use it: the driver (main.c), which names the main files, the *)
(* iterator (pp_token_iter.c), which opens files inside one another, and   *)
(* the error reporter, which looks a file up again by the name it was      *)
(* asked for.                                                              *)
(*                                                                         *)
(* A path is the sequence of its components; a first component "" is the   *)
(* root.  Joining "dir/name" is concatenation.                             *)
(***************************************************************************)
EXTENDS Naturals, SequencesExt

CONSTANTS
  Cwd,           \* the working directory
  Disk,          \* the files that can be opened, as absolute paths
  Names,         \* the names that occur in #include and on the command line
  DefaultPaths,  \* fs_add_default_include_paths
  UserPaths,     \* settings.include_paths, from -I
  MainFiles,     \* settings.filenames
  AddsPaths,     \* FALSE for the mode --ast, which ignores -I
  MaxDepth,      \* bound: files open inside one another
  MaxLoads       \* bound: files loaded

Paths == Seq(STRING)
NoPath == <<>>

ASSUME StorageAssumption ==
  /\ Cwd \in Paths /\ Disk \subseteq Paths
  /\ Names \subseteq Paths \ {NoPath}
  /\ DefaultPaths \in Seq(Paths) /\ UserPaths \in Seq(Paths)
  /\ MainFiles \in Seq(Names)
  /\ AddsPaths \in BOOLEAN
  /\ MaxDepth \in Nat /\ MaxLoads \in Nat

\* True of every string; the prover does not know it of a literal.
ASSUME DotAssumption == "." \in STRING

VARIABLES
  files,   \* fs->files, the file loaded last first
  paths,   \* fs->include_paths
  opened,  \* the files of the iterator's entries, innermost first
  todo,    \* the main files not processed yet
  failed   \* a file that is not found: NOT_IMPL, or its NULL used

vars == <<files, paths, opened, todo, failed>>

-----------------------------------------------------------------------------
(* What the system makes of a path, and whether it can be opened. *)

Place(p) ==
  LET real == SelectSeq(p, LAMBDA c : c \notin {"", "."})
  IN  IF Head(p) = "" THEN <<"">> \o real ELSE Cwd \o real

Exists(p) == Place(p) \in Disk

-----------------------------------------------------------------------------
(* fs_get_file.  "from" is the full path of the file the search starts in. *)

\* path_dirname.  string_rfind goes on to the first '/': all but the first
\* component is cut off.
Dirname(p) == IF Len(p) = 1 THEN <<".">> ELSE <<p[1]>>

IfExists(p) == IF Exists(p) THEN p ELSE NoPath

\* get_filepath_in_same_dir
InSameDir(name, from) == IfExists(Dirname(from) \o name)

\* The directories that have the file.
Having(name, dirs) == {i \in DOMAIN dirs : Exists(dirs[i] \o name)}

\* Plausible bug: the search stops at the first of them.
FromFirstPath(name, dirs) ==
  LET has == Having(name, dirs)
  IN  IF has = {} THEN NoPath
      ELSE dirs[CHOOSE i \in has : \A j \in has : i <= j] \o name

\* get_filepath_from_include_paths: the last of them.
FromIncludePaths(name, dirs) ==
  LET has == Having(name, dirs)
  IN  IF has = {} THEN NoPath
      ELSE dirs[CHOOSE i \in has : \A j \in has : j <= i] \o name

\* get_filepath_relative
Relative(name) == IfExists(Cwd \o name)

Search(name, from, dirs) ==
  LET beside == IF from = NoPath THEN NoPath ELSE InSameDir(name, from)
      listed == FromIncludePaths(name, dirs)
  IN  IF beside # NoPath THEN beside
      ELSE IF listed # NoPath THEN listed ELSE Relative(name)

\* Plausible bug: the list is searched by the names asked for.
CachedByName(name) == {i \in DOMAIN files : files[i].name = name}

\* The places in the list of the files that are taken for the one asked for: those
\* whose full path is spelled like the name.
Cached(name) == {i \in DOMAIN files : files[i].path = name}

\* The file fs_get_file returns, loaded now or before; path NoPath for NULL.
Got(name, from, dirs) ==
  LET found == Cached(name)
  IN  IF found # {} THEN files[CHOOSE i \in found : \A j \in found : i <= j]
      ELSE [name |-> name, path |-> Search(name, from, dirs)]

\* Plausible bug: only files found in the include directories are kept.
LoadedIfListed(name, from, dirs) ==
  IF Cached(name) # {} \/ FromIncludePaths(name, dirs) = NoPath THEN files
  ELSE <<Got(name, from, dirs)>> \o files

\* What the call leaves in the list.
Loaded(name, from, dirs) ==
  IF Cached(name) # {} \/ Search(name, from, dirs) = NoPath THEN files
  ELSE <<Got(name, from, dirs)>> \o files

-----------------------------------------------------------------------------
Init ==
  /\ files = <<>>
  /\ paths = DefaultPaths
  /\ opened = <<>>
  /\ todo = MainFiles
  /\ failed = FALSE

\* ppti_include_file: open the file inside those that are open.
Open(name, dirs) ==
  LET from == IF opened = <<>> THEN NoPath ELSE opened[1].path
      f == Got(name, from, dirs)
  IN  /\ files' = Loaded(name, from, dirs)
      /\ failed' = (f.path = NoPath)
      /\ opened' = IF f.path = NoPath THEN opened ELSE <<f>> \o opened

\* fs_add_include_paths, called by every mode but one.
WithUserPaths == IF AddsPaths THEN paths \o UserPaths ELSE paths

\* process_file
StartFile ==
  /\ ~failed /\ opened = <<>> /\ todo # <<>>
  /\ Open(Head(todo), WithUserPaths)
  /\ paths' = WithUserPaths
  /\ todo' = Tail(todo)

Include(name) ==
  /\ ~failed /\ Len(opened) \in 1..(MaxDepth - 1)
  /\ Len(files) < MaxLoads
  /\ Open(name, paths)
  /\ UNCHANGED <<paths, todo>>

\* The file on top has been read to its end.
CloseFile ==
  /\ ~failed /\ opened # <<>>
  /\ opened' = Tail(opened)
  /\ UNCHANGED <<files, paths, todo, failed>>

\* Plausible bug: a report looks the name up from the file being read.
ShownFromTop(f) == Got(f.name, opened[1].path, paths)

\* The file whose line a report about a token of f shows.
Shown(f) == Got(f.name, NoPath, paths)

\* report_errorv, report_warningv and report_notev
Report(f) ==
  /\ ~failed /\ Len(files) < MaxLoads
  /\ files' = Loaded(f.name, NoPath, paths)
  /\ failed' = (Shown(f).path = NoPath)
  /\ UNCHANGED <<paths, opened, todo>>

Next ==
  \/ StartFile
  \/ \E name \in Names : Include(name)
  \/ CloseFile
  \/ \E i \in DOMAIN opened : Report(opened[i])

Spec == Init /\ [][Next]_vars

-----------------------------------------------------------------------------
File == [name : Names, path : Paths \ {NoPath}]

\* The list, the open files and the main files left are what the code keeps: a
\* file that is open is in the list, and its path can be opened.
TypeOK ==
  /\ files \in Seq(File)
  /\ paths \in Seq(Paths)
  /\ \A i \in DOMAIN opened : opened[i] \in Range(files) /\ Exists(opened[i].path)
  /\ todo \in Seq(Names)
  /\ failed \in BOOLEAN

SpelledSo(name) == \E f \in Range(files) : f.path = name

Froms == {NoPath} \cup {f.path : f \in Range(opened)}

\* Looking files up, loading them and reporting about them (fs_get_file) never
\* changes what a later #include or report finds: once the directories of -I are
\* known, a name leads from the same file to the same place for ever, but for the
\* names that are spelled like the full path of a loaded file, which the search of
\* the list answers first.
LookupsStay ==
  [][Len(paths) > Len(DefaultPaths) =>
       \A name \in Names, from \in Froms :
         \/ SpelledSo(name)'
         \/ Got(name, from, paths)'.path = Got(name, from, paths).path]_vars

\* The file was found beside one that has been loaded.
FoundBeside(f) == \E g \in Range(files) : f.path = InSameDir(f.name, g.path)

\* A report shows a line of the file its token is in (report_errorv looks the name
\* up again, from nowhere), when the file was not found beside one that includes it
\* and no loaded file's full path is spelled like its name.  It is the file's own
\* name that is looked up, the one it was first asked for by: asked for by its full
\* path from another directory, it is still shown as if it had been found beside.
ReportShowsFile ==
  \A i \in DOMAIN opened :
    LET f == opened[i]
    IN  FoundBeside(f) \/ SpelledSo(f.name) \/ Shown(f).path = f.path

\* A directory of -I goes before the built-in ones (fs_add_include_paths appends
\* it and the search keeps the last match): a name that it has, that is not beside
\* the including file and not in the list, is never taken from a built-in one.
UserPathsFirst ==
  AddsPaths /\ opened # <<>> =>
    \A name \in Names, from \in Froms :
      (/\ Cached(name) = {}
       /\ from = NoPath \/ InSameDir(name, from) = NoPath
       /\ \E i \in DOMAIN UserPaths : Exists(UserPaths[i] \o name))
      => \E i \in DOMAIN UserPaths : Got(name, from, paths).path = UserPaths[i] \o name
=============================================================================
