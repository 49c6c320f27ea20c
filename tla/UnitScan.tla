------------------------------- MODULE UnitScan -------------------------------
(***************************************************************************)
(* The phase UnitDiscovery of UnitScanMixin: one pass over the unit files  *)
(* in the search directories and one over the links in their *.wants and   *)
(* *.requires directories.                                                 *)
(*                                                                         *)
(* The file system is chosen in Init and does not change meanwhile.        *)
(* directory_iterator returns entries in no particular order.  A link is   *)
(* known by its directory, its own name and the name of the file it leads  *)
(* to (anywhere on the disk), or None if there is none.                    *)
(***************************************************************************)
EXTENDS Naturals, Sequences

CONSTANTS
  kUnitSearchPaths,  \* sequence of directories, highest priority first
  FileName,          \* names that occur in the file system
  is_supported,      \* [FileName -> BOOLEAN], the name has a unit's extension
  WantsDir,          \* the *.wants and *.requires directories of one directory
  Target,            \* the names of the files that links lead to
  None

ASSUME ScanAssumption ==
  /\ kUnitSearchPaths \in Seq(STRING)
  /\ \A j, k \in 1..Len(kUnitSearchPaths) :
       kUnitSearchPaths[j] = kUnitSearchPaths[k] => j = k
  /\ Target \subseteq FileName /\ None \notin FileName
  /\ is_supported \in [FileName -> BOOLEAN]

Dir  == { kUnitSearchPaths[k] : k \in 1..Len(kUnitSearchPaths) }
Link == [sub : WantsDir, name : FileName, target : Target \cup {None}]

VARIABLES
  files,              \* [Dir -> files and symbolic links directly in it]
  links,              \* [Dir -> links in its *.wants and *.requires]
  pass, d, todo,      \* the loops: pass 1 or 2, directory, entries left
  discovered_names_,
  discovered_paths_   \* sequence of [dir, sub, name]; sub is None in pass 1

disk == <<files, links>>
vars == <<disk, pass, d, todo, discovered_names_, discovered_paths_>>

\* No two entries of a directory have the same name.
Init ==
  /\ files \in [Dir -> SUBSET FileName]
  /\ links \in [Dir -> { ls \in SUBSET Link :
                           \A l, m \in ls : l.sub = m.sub /\ l.name = m.name
                                              => l = m }]
  /\ pass = 1 /\ d = 0 /\ todo = {}
  /\ discovered_names_ = {} /\ discovered_paths_ = <<>>

NextDir == kUnitSearchPaths[d + 1]

\* The next directory of a pass; one that does not exist has no entries.
OpenDirectory ==
  /\ pass \in {1, 2} /\ todo = {} /\ d < Len(kUnitSearchPaths)
  /\ d' = d + 1
  /\ todo' = IF pass = 1
             THEN { [dir |-> NextDir, sub |-> None, name |-> n, target |-> n] :
                      n \in files[NextDir] }
             ELSE { [dir |-> NextDir, sub |-> l.sub, name |-> l.name,
                     target |-> l.target] : l \in links[NextDir] }
  /\ UNCHANGED <<disk, pass, discovered_names_, discovered_paths_>>

\* The name a unit is recorded under.
\* (mutant: the name of the file a link leads to)
TargetName(e) == e.target
UnitName(e) == IF is_supported[e.name] THEN e.name ELSE e.target

\* (mutant: names are not compared)
NameNeverTaken(e) == FALSE
NameTaken(e) == UnitName(e) \in discovered_names_

LeadsToUnit(target) == IF target = None THEN FALSE ELSE is_supported[target]

\* One entry that is no unit, leads nowhere, or has a name that is taken.
PassOver(e) ==
  /\ e \in todo
  /\ ~LeadsToUnit(e.target) \/ NameTaken(e)
  /\ todo' = todo \ {e}
  /\ UNCHANGED <<disk, pass, d, discovered_names_, discovered_paths_>>

Discover(e) ==
  /\ e \in todo
  /\ LeadsToUnit(e.target) /\ ~NameTaken(e)
  /\ todo' = todo \ {e}
  /\ discovered_names_' = discovered_names_ \cup {UnitName(e)}
  /\ discovered_paths_' = Append(discovered_paths_,
       [dir |-> e.dir, sub |-> e.sub, name |-> e.name])
  /\ UNCHANGED <<disk, pass, d>>

EndOfPass ==
  /\ pass \in {1, 2} /\ todo = {} /\ d = Len(kUnitSearchPaths)
  /\ pass' = pass + 1 /\ d' = 0
  /\ UNCHANGED <<disk, todo, discovered_names_, discovered_paths_>>

Finished == pass = 3 /\ UNCHANGED vars

Next == OpenDirectory \/ (\E e \in todo : PassOver(e) \/ Discover(e)) \/ EndOfPass \/ Finished

Spec == Init /\ [][Next]_vars

-------------------------------------------------------------------------------
(* Properties                                                              *)

\* The places of the search path, by priority, where a set S of entries has
\* one with name n.
First(n, S(_)) ==
  CHOOSE k \in 1..Len(kUnitSearchPaths) :
    /\ n \in S(kUnitSearchPaths[k])
    /\ \A j \in 1..(k - 1) : n \notin S(kUnitSearchPaths[j])

\* The links of a directory that lead to a unit file.
Enabled(dir) ==
  { l.name : l \in { x \in links[dir] : LeadsToUnit(x.target) } }
DirectFiles(dir) == files[dir]

Found(n) == { k \in 1..Len(discovered_paths_) : discovered_paths_[k].name = n }

\* A unit is read from one file only, the one in the directory with the
\* highest priority (/etc overrides /usr/lib); a link in .wants or
\* .requires never replaces a unit file, however deep in the search path.
HighestPriorityWins ==
  pass = 3 => \A n \in FileName : is_supported[n] =>
    /\ \A j, k \in Found(n) : j = k
    /\ (\E dir \in Dir : n \in files[dir]) =>
         \E k \in Found(n) :
           discovered_paths_[k] = [dir |-> kUnitSearchPaths[First(n, DirectFiles)],
                                   sub |-> None, name |-> n]

\* Every enabled unit that has no file of its own, such as an instance of a
\* template, is found under the name of its link, in the directory with the
\* highest priority, unless a link without a unit's extension took its name.
EnabledUnitsFound ==
  pass = 3 => \A n \in FileName :
    /\ is_supported[n] /\ \A dir \in Dir : n \notin files[dir]
    /\ \E dir \in Dir : n \in Enabled(dir)
    => \/ \E k \in Found(n) :
            discovered_paths_[k].dir = kUnitSearchPaths[First(n, Enabled)]
       \/ \E dir \in Dir : \E l \in links[dir] :
            ~is_supported[l.name] /\ l.target = n
===============================================================================
